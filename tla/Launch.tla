------------------------------- MODULE Launch -------------------------------
(***************************************************************************)
(* The commands of the CLI over time (src/src/cli).  The doctor loads a    *)
(* configuration, tries its credential on the upstream and gives a verdict *)
(* with warnings; the stdio and the HTTP command load theirs anew and      *)
(* serve tools with it.  Between any two awaits of the doctor, and between *)
(* the commands, an operator edits files and variables and the upstream    *)
(* withdraws credentials.                                                  *)
(***************************************************************************)
EXTENDS Config

CONSTANTS
    InitialFiles,    \* what the files may hold at first: functions from names
    InitialEnvs,     \* what the process environment may be at first
    Edits,           \* what an operator may do: [file, key, value], file "process" for
                     \* the environment
    Credentials,     \* the credentials the upstream may accept
    Options,         \* options the commands are given
    MaxEdits         \* bound on the edits of a run

VARIABLES
    files, env,      \* the files and the process environment
    accepted,        \* the credentials the upstream accepts
    edits,           \* number of edits so far
    doctor,          \* the doctor: where it is, its options, configuration and warnings
    server,          \* the stdio or HTTP command: likewise, and its latest upstream call
    unchanged,       \* history: nothing has been edited or withdrawn since the doctor loaded
    verdict          \* history: {the warnings of the doctor} if the server was started
                     \* after a doctor with the same options had passed, nothing changed
                     \* in between and nothing was withdrawn since; else {}

vars == <<files, env, accepted, edits, doctor, server, unchanged, verdict>>

NoConfig == [defaultProfile |-> Undefined]
NoOptions ==
    [configPath |-> Undefined, profileName |-> Undefined, readonly |-> FALSE, exposure |-> Undefined]

-----------------------------------------------------------------------------
Environment(options) == loadCommandEnv(files, options.configPath, env)

LoadSucceeds(options) == CanRead(files, options.configPath) /\ Loads(Environment(options))

Known(config, profileName) == SelectedProfile(config, profileName) \in DOMAIN config.profiles

Profile(config, profileName) == config.profiles[SelectedProfile(config, profileName)]

canLogin(p) == p.tokenKind = "jwt" /\ Login \subseteq DOMAIN p.secrets
canExchangeOAuthToken(p) == p.tokenKind = "oauth" /\ OAuthClient \subseteq DOMAIN p.secrets
canRetryAuth(p) == canLogin(p) \/ canExchangeOAuthToken(p)

\* what a login or a token exchange is made with
LoginCredential(p) ==
    [part \in IF p.tokenKind = "jwt" THEN Login ELSE OAuthClient |-> p.secrets[part]]

StaticPart(p) == IF p.tokenKind = "better-auth" THEN "betterAuthCookie" ELSE "token"
StaticCredential(p) == [part \in {StaticPart(p)} |-> p.secrets[part]]
HasStatic(p) == StaticPart(p) \in DOMAIN p.secrets

\* getHeaders before and after invalidate(): the credential the next request goes out
\* with, as a set; {} where getHeaders throws
FirstCredential(p) ==
    IF HasStatic(p) THEN {StaticCredential(p)}
    ELSE IF canRetryAuth(p) THEN {LoginCredential(p)} ELSE {}

RetryCredential(p) == IF canRetryAuth(p) THEN {LoginCredential(p)} ELSE {}

-----------------------------------------------------------------------------
(* The doctor.                                                             *)

NoDoctor == [phase |-> "idle", options |-> NoOptions, config |-> NoConfig, warnings |-> {}]

Exit(phase) == doctor' = [doctor EXCEPT !.phase = phase]

\* up to the first await: the configuration, the profile, the client, the warnings
DoctorLoads(options) ==
    /\ doctor.phase \in {"idle", "passed", "failed"}
    /\ LET loads == LoadSucceeds(options)
           config == loadConfig(Environment(options))
       IN  doctor' =
            IF loads /\ Known(config, options.profileName)
            THEN [phase |-> "probe", options |-> options, config |-> config,
                  warnings |-> collectConfigWarnings(config)]
            ELSE [NoDoctor EXCEPT !.phase = "failed", !.options = options]
    /\ unchanged' = TRUE
    /\ UNCHANGED <<files, env, accepted, edits, server, verdict>>

\* mutant: the probe takes the default profile
ProbedDefault == doctor.config.profiles[doctor.config.defaultProfile]

Probed == Profile(doctor.config, doctor.options.profileName)

\* the probe was answered: bearer keys are listed for the other kinds of tokens only
Accept == Exit(IF Probed.tokenKind = "bearer" THEN "passed" ELSE "keys")

\* readPublicRuntimeVersion, whose failure is no failure, and the first doRequest()
Probe ==
    /\ doctor.phase = "probe"
    /\ \/ FirstCredential(Probed) \cap accepted # {} /\ Accept
       \/ Exit(IF canRetryAuth(Probed) THEN "retry" ELSE "failed")   \* refused or unreachable
    /\ UNCHANGED <<files, env, accepted, edits, server, unchanged, verdict>>

\* invalidate() and the second doRequest(), after any error
ProbeAgain ==
    /\ doctor.phase = "retry"
    /\ \/ RetryCredential(Probed) \cap accepted # {} /\ Accept
       \/ Exit("failed")
    /\ UNCHANGED <<files, env, accepted, edits, server, unchanged, verdict>>

\* client.bearerKeys.list(), with the client's own credential provider
ListKeys ==
    /\ doctor.phase = "keys"
    /\ \/ /\ (FirstCredential(Probed) \cup RetryCredential(Probed)) \cap accepted # {}
          /\ \E found \in BOOLEAN :
                doctor' = [doctor EXCEPT !.phase = "passed",
                    !.warnings = IF found THEN @ ELSE @ \cup {"no system key"}]
       \/ Exit("failed")
    /\ UNCHANGED <<files, env, accepted, edits, server, unchanged, verdict>>

-----------------------------------------------------------------------------
(* The stdio and the HTTP command.                                         *)

NoCall == [profileName |-> Undefined, outcome |-> "none"]

NoServer == [phase |-> "down", failure |-> "none", transport |-> Undefined,
             options |-> NoOptions, config |-> NoConfig, call |-> NoCall]

\* mutant: the option is lost on its way to the server
ReadonlyConfigured(options, config) == config.forceReadonly

\* options.forceReadonly ?? options.config.forceReadonly, where the commands set
\* options.forceReadonly to false unless there is --readonly
ForceReadonly(options, config) == options.readonly

\* the two options that say which configuration and which upstream
SameSource(o, p) == o.configPath = p.configPath /\ o.profileName = p.profileName

\* what no configuration rules out: the address cannot be listened on, or the line
\* stdio.start cannot be written to the audit file
Mishaps(transport, config) ==
    {failure \in {"listen", "audit"} :
        IF failure = "listen" THEN transport = "http" ELSE transport = "stdio" /\ config.auditFile}

\* runStdioCommand makes its client at once, runHttpCommand one for each request.  Both end
\* with exit code 1 on a failure; but stdio has connected before it writes the audit line,
\* and the process goes on serving.
Start(transport, options) ==
    /\ server.phase = "down"
    /\ LET loads == LoadSucceeds(options)
           config == loadConfig(Environment(options))
           ready == loads /\ (transport = "stdio" => Known(config, options.profileName))
       IN  \E failure \in IF ready THEN {"none"} \cup Mishaps(transport, config)
                         ELSE {"configuration"} :
            server' =
                [phase |-> IF failure \in {"none", "audit"} THEN "up" ELSE "failed",
                 failure |-> failure, transport |-> transport, options |-> options,
                 config |-> IF ready THEN config ELSE NoConfig, call |-> NoCall]
    /\ verdict' = IF unchanged /\ doctor.phase = "passed" /\ SameSource(doctor.options, options)
                  THEN {doctor.warnings} ELSE {}
    /\ UNCHANGED <<files, env, accepted, edits, doctor, unchanged>>

\* the profiles a client of the server can have its tools from
Exposures ==
    IF server.transport = "http" THEN Profiles
    ELSE {IF server.options.exposure # Undefined THEN server.options.exposure
          ELSE server.config.defaultExposure} \cap Profiles

\* registerTools; --exposure is not validated, and no tool is at or below an unknown one
Offered ==
    IF server.phase # "up" THEN {}
    ELSE UNION {filterEnabledTools(p, server.config.flags,
                    ForceReadonly(server.options, server.config)) : p \in Exposures}

\* what becomes of an upstream call of the server under an upstream profile; over HTTP the
\* audit line of the request comes first, and is answered with a 500 if it cannot be written
Outcome(profileName) ==
    IF ~Known(server.config, profileName) THEN {"unknown profile"}
    ELSE LET p == Profile(server.config, profileName)
             offered == FirstCredential(p) \cup RetryCredential(p)
         IN  {"unreachable", IF offered \cap accepted # {} THEN "ok" ELSE "unauthorized"}
                \cup {outcome \in {"not recorded"} :
                        server.transport = "http" /\ server.config.auditFile}

\* a tool call; over HTTP under a static token, which may carry a profile of its own
ServeCall ==
    /\ server.phase = "up"
    /\ \E profileName \in
            IF server.transport = "stdio" THEN {server.options.profileName}
            ELSE {IF b.upstreamProfileName # Undefined THEN b.upstreamProfileName
                  ELSE server.options.profileName
                  : b \in {server.config.authTokens[t] : t \in DOMAIN server.config.authTokens}} :
        \E outcome \in Outcome(profileName) :
            server' = [server EXCEPT !.call = [profileName |-> profileName, outcome |-> outcome]]
    /\ server.transport = "http" => server.config.authMode \in {"static", "hybrid"}
    /\ UNCHANGED <<files, env, accepted, edits, doctor, unchanged, verdict>>

Stop ==
    /\ server.phase # "down"
    /\ server' = NoServer /\ verdict' = {}
    /\ UNCHANGED <<files, env, accepted, edits, doctor, unchanged>>

-----------------------------------------------------------------------------
(* The operator and the upstream.                                          *)

With(function, key, value) ==
    [k \in DOMAIN function \cup {key} |-> IF k = key THEN value ELSE function[k]]

Edit(e) ==
    /\ edits < MaxEdits
    /\ edits' = edits + 1
    /\ \/ e.file = "process" /\ env' = With(env, e.key, e.value) /\ UNCHANGED files
       \/ /\ e.file \in DOMAIN files
          /\ files' = [files EXCEPT ![e.file] = With(@, e.key, e.value)]
          /\ UNCHANGED env
    /\ unchanged' = FALSE
    /\ UNCHANGED <<accepted, doctor, server, verdict>>

Withdraw(c) ==
    /\ accepted' = accepted \ {c}
    /\ unchanged' = FALSE /\ verdict' = {}
    /\ UNCHANGED <<files, env, edits, doctor, server>>

Init ==
    /\ files \in InitialFiles /\ env \in InitialEnvs
    /\ accepted = Credentials
    /\ edits = 0
    /\ doctor = NoDoctor /\ server = NoServer
    /\ unchanged = FALSE /\ verdict = {}

Next ==
    \/ \E o \in Options : DoctorLoads(o)
    \/ Probe \/ ProbeAgain \/ ListKeys
    \/ \E o \in Options, transport \in {"stdio", "http"} : Start(transport, o)
    \/ ServeCall \/ Stop
    \/ \E e \in Edits : Edit(e)
    \/ \E c \in accepted : Withdraw(c)

Spec == Init /\ [][Next]_vars

-----------------------------------------------------------------------------
\* README.md: "Run `doctor` first to verify that config loads, MCPHub is reachable, and
\* the management credential is accepted."  A server started with the --config and the
\* --profile of a doctor that passed, nothing changed in between, does not fail over its
\* configuration, its profile or its credential: it is up unless it cannot listen, and until
\* a credential is withdrawn no call it makes under that profile is turned away, though
\* doctor, stdio and HTTP each load, select and retry on their own.
DoctorVouches ==
    verdict # {} =>
        /\ server.phase = "up" \/ (server.transport = "http" /\ server.failure = "listen")
        /\ server.call.profileName = server.options.profileName =>
                server.call.outcome \notin {"unknown profile", "unauthorized"}

\* When such a doctor had no warning either, the server offers no tool that is behind a
\* feature flag, starts no commands upstream, and shows no secrets.
SilentDoctorIsSafe ==
    {} \in verdict =>
        /\ \A tool \in Offered : Gate(tool) = {}
        /\ "allowStdioServerCreate" \notin server.config.flags
        /\ server.config.redactSecrets

OffersMutations == {tool.name : tool \in Offered} \cap Mutating # {}

\* docs/security.md: with --readonly, whatever the configuration and the profile,
\* "mutations must still be impossible".
ReadonlyOptionHolds == server.phase = "up" /\ server.options.readonly => ~OffersMutations

\* docs/security.md: "Use `MCP_FORCE_READONLY=true` or `--readonly` when elevated profiles
\* should remain visible but mutations must still be impossible."
ForceReadonlyHolds == server.phase = "up" /\ server.config.forceReadonly => ~OffersMutations

\* config-loader.ts: empty values "should not erase non-empty file configuration": where
\* there is a file, a server starts as if the variables that are set to nothing were not.
BlankHidesNothing ==
    [][server.phase = "down" /\ server'.phase = "up" =>
        LET configPath == server'.options.configPath
        IN  SelectedFile(files, configPath) # Undefined =>
                LET set == {k \in DOMAIN env : env[k] # ""}
                IN  server'.config =
                        loadConfig(loadCommandEnv(files, configPath, [k \in set |-> env[k]]))]_vars
=============================================================================
