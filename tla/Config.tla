------------------------------- MODULE Config -------------------------------
(***************************************************************************)
(* From files and the process environment to a configuration, and what the *)
(* doctor says of it (src/src/config, src/src/cli/config-loader.ts,        *)
(* src/src/cli/commands/doctor.ts).  An environment is a function from the *)
(* keys that are set to texts; "" is a key set to nothing.  What JSON.parse*)
(* and a split at commas make of a text is looked up in the constants.     *)
(* A URL is a text that is not "".  Of the audit file only whether there is*)
(* one is kept; settings that hold a number or a level are left out.       *)
(***************************************************************************)
EXTENDS Tools

CONSTANTS
    ProfilesJson,    \* MCPHUB_PROFILES_JSON: a function from the texts that parse
    TokensJson,      \* MCP_HTTP_AUTH_TOKENS_JSON: likewise
    Items            \* parseCommaList: a function from texts to sets of items

Undefined == "undefined"

Get(env, key, default) == IF key \in DOMAIN env THEN env[key] ELSE default

-----------------------------------------------------------------------------
(* The files and the process environment.                                  *)

\* mutant: {...fileEnv, ...env}
withBlankOverrides(fileEnv, env) ==
    [k \in DOMAIN fileEnv \cup DOMAIN env |-> IF k \in DOMAIN env THEN env[k] ELSE fileEnv[k]]

\* what is set to nothing in the process does not hide what a file says
withExplicitOverrides(fileEnv, env) ==
    LET explicit == {k \in DOMAIN env : env[k] # ""}
    IN  [k \in DOMAIN fileEnv \cup explicit |-> IF k \in explicit THEN env[k] ELSE fileEnv[k]]

\* the file --config names, or else .env where there is one
SelectedFile(files, configPath) ==
    IF configPath # Undefined THEN configPath
    ELSE IF ".env" \in DOMAIN files THEN ".env" ELSE Undefined

CanRead(files, configPath) == configPath = Undefined \/ configPath \in DOMAIN files

loadCommandEnv(files, configPath, env) ==
    LET file == SelectedFile(files, configPath)
    IN  IF file = Undefined THEN env ELSE withExplicitOverrides(files[file], env)

-----------------------------------------------------------------------------
(* Upstream profiles.                                                      *)

TokenKinds == {"bearer", "jwt", "oauth", "better-auth"}

\* the parts of a credential and the keys that hold them outside MCPHUB_PROFILES_JSON
FlatKeys ==
    [token |-> "MCPHUB_TOKEN", username |-> "MCPHUB_USERNAME", password |-> "MCPHUB_PASSWORD",
     oauthClientId |-> "MCPHUB_OAUTH_CLIENT_ID", oauthClientSecret |-> "MCPHUB_OAUTH_CLIENT_SECRET",
     oauthTokenUrl |-> "MCPHUB_OAUTH_TOKEN_URL", betterAuthCookie |-> "MCPHUB_BETTER_AUTH_COOKIE"]

Parts == DOMAIN FlatKeys
Login == {"username", "password"}
OAuthClient == {"oauthClientId", "oauthClientSecret", "oauthTokenUrl"}

\* a profile as written: the parts given (direct), and those given as the name of a
\* variable (indirect: tokenEnv and its like)
mcpHubProfileSchema(profile) ==
    LET given == DOMAIN profile.direct \cup DOMAIN profile.indirect
        hasToken == "token" \in given
    IN  /\ \A part \in DOMAIN profile.direct : profile.direct[part] # ""
        /\ hasToken \/ Login \subseteq given \/ OAuthClient \subseteq given
              \/ "betterAuthCookie" \in given
        /\ profile.tokenKind \in TokenKinds
        /\ profile.tokenKind = "jwt" => hasToken \/ Login \subseteq given
        /\ profile.tokenKind = "oauth" => hasToken \/ OAuthClient \subseteq given
        /\ profile.tokenKind = "better-auth" => "betterAuthCookie" \in given

\* the variable named may not be set: the part is missing then
resolveSecretValue(profile, part, env) ==
    IF part \in DOMAIN profile.direct THEN profile.direct[part]
    ELSE Get(env, profile.indirect[part], Undefined)

resolveProfile(profile, env) ==
    LET given == DOMAIN profile.direct \cup DOMAIN profile.indirect
        resolved == [part \in given |-> resolveSecretValue(profile, part, env)]
        found == {part \in given : resolved[part] # Undefined}
    IN  [tokenKind |-> profile.tokenKind, secrets |-> [part \in found |-> resolved[part]]]

flatProfile(env) ==
    LET set == {part \in Parts : FlatKeys[part] \in DOMAIN env}
    IN  [tokenKind |-> Get(env, "MCPHUB_TOKEN_KIND", "bearer"),
         direct |-> [part \in set |-> env[FlatKeys[part]]], indirect |-> [part \in {} |-> ""]]

HasProfilesJson(env) == "MCPHUB_PROFILES_JSON" \in DOMAIN env

DefaultProfile(env) ==
    IF HasProfilesJson(env) THEN Get(env, "MCPHUB_DEFAULT_PROFILE", "default") ELSE "default"

ProfilesParse(env) ==
    IF HasProfilesJson(env)
    THEN /\ env["MCPHUB_PROFILES_JSON"] \in DOMAIN ProfilesJson
         /\ LET parsed == ProfilesJson[env["MCPHUB_PROFILES_JSON"]]
            IN  /\ \A name \in DOMAIN parsed : mcpHubProfileSchema(parsed[name])
                /\ DefaultProfile(env) \in DOMAIN parsed
    ELSE "MCPHUB_URL" \in DOMAIN env /\ mcpHubProfileSchema(flatProfile(env))

parseProfiles(env) ==
    IF HasProfilesJson(env)
    THEN LET parsed == ProfilesJson[env["MCPHUB_PROFILES_JSON"]]
         IN  [name \in DOMAIN parsed |-> resolveProfile(parsed[name], env)]
    ELSE [name \in {"default"} |-> resolveProfile(flatProfile(env), env)]

\* --profile, or the configured default
SelectedProfile(config, profileName) ==
    IF profileName # Undefined THEN profileName ELSE config.defaultProfile

-----------------------------------------------------------------------------
(* The schema of the environment and the configuration.                    *)

FlagKeys ==
    [allowAuthAdminTools |-> "ALLOW_AUTH_ADMIN_TOOLS", allowMcpbUpload |-> "ALLOW_MCPB_UPLOAD",
     allowStdioServerCreate |-> "ALLOW_STDIO_SERVER_CREATE",
     allowSystemConfigWrite |-> "ALLOW_SYSTEM_CONFIG_WRITE"]

BooleanKeys == {FlagKeys[f] : f \in Flags} \cup {"MCP_FORCE_READONLY", "MCP_REDACT_SECRETS"}
ExposureKeys == {"MCP_DEFAULT_EXPOSURE", "MCP_HTTP_AUTH_EXPOSURE"}
NonEmptyKeys ==
    {FlatKeys[part] : part \in Parts} \cup
    {"MCPHUB_URL", "MCPHUB_DEFAULT_PROFILE", "MCP_HTTP_AUTH_TOKEN", "MCP_HTTP_HOST",
     "MCP_HTTP_OAUTH_INTROSPECTION_URL", "MCP_AUDIT_FILE"}
AuthModes == {"static", "oauth", "better-auth", "hybrid"}

envSchema(env) ==
    /\ \A key \in DOMAIN env :
        /\ key \in BooleanKeys => env[key] \in {"true", "false"}
        /\ key \in ExposureKeys => env[key] \in Profiles
        /\ key \in NonEmptyKeys => env[key] # ""
        /\ key = "MCPHUB_TOKEN_KIND" => env[key] \in TokenKinds
        /\ key = "MCP_HTTP_AUTH_MODE" => env[key] \in AuthModes
    /\ Get(env, "MCP_HTTP_AUTH_MODE", "static") \in {"oauth", "hybrid"} =>
            "MCP_HTTP_OAUTH_INTROSPECTION_URL" \in DOMAIN env

exposedProfiles(env) == Items[Get(env, "MCP_EXPOSE_ENDPOINTS", "safe,ops,admin,all")]

HasTokensJson(env) == "MCP_HTTP_AUTH_TOKENS_JSON" \in DOMAIN env

TokensParse(env) ==
    HasTokensJson(env) =>
        /\ env["MCP_HTTP_AUTH_TOKENS_JSON"] \in DOMAIN TokensJson
        /\ LET parsed == TokensJson[env["MCP_HTTP_AUTH_TOKENS_JSON"]]
           IN  \A token \in DOMAIN parsed : parsed[token].exposureProfile \in Profiles

\* the map, or else the one token
resolveHttpAuthTokens(env) ==
    IF HasTokensJson(env) THEN TokensJson[env["MCP_HTTP_AUTH_TOKENS_JSON"]]
    ELSE [token \in {env[k] : k \in DOMAIN env \cap {"MCP_HTTP_AUTH_TOKEN"}} |->
            [exposureProfile |-> Get(env, "MCP_HTTP_AUTH_EXPOSURE", "safe"),
             upstreamProfileName |-> Undefined]]

\* whether loadConfig returns
Loads(env) ==
    /\ envSchema(env) /\ ProfilesParse(env) /\ TokensParse(env)
    /\ exposedProfiles(env) # {} /\ exposedProfiles(env) \subseteq Profiles

loadConfig(env) ==
    [defaultProfile |-> DefaultProfile(env), profiles |-> parseProfiles(env),
     flags |-> {f \in Flags : Get(env, FlagKeys[f], "false") = "true"},
     defaultExposure |-> Get(env, "MCP_DEFAULT_EXPOSURE", "safe"),
     exposedProfiles |-> exposedProfiles(env),
     forceReadonly |-> Get(env, "MCP_FORCE_READONLY", "false") = "true",
     redactSecrets |-> Get(env, "MCP_REDACT_SECRETS", "true") = "true",
     allowedTargetHosts |-> Items[Get(env, "MCP_ALLOWED_TARGET_HOSTS", "")],
     host |-> Get(env, "MCP_HTTP_HOST", "127.0.0.1"),
     auditFile |-> "MCP_AUDIT_FILE" \in DOMAIN env,
     authMode |-> Get(env, "MCP_HTTP_AUTH_MODE", "static"),
     authTokens |-> resolveHttpAuthTokens(env)]

\* mutant: a flag was added, and not to the doctor
warnedFlagsForgotten == {"allowAuthAdminTools", "allowStdioServerCreate", "allowSystemConfigWrite"}

warnedFlags ==
    {"allowAuthAdminTools", "allowMcpbUpload", "allowStdioServerCreate", "allowSystemConfigWrite"}

collectConfigWarnings(config) ==
    (config.flags \cap warnedFlags) \cup
    {warning \in {"host", "all", "redaction", "tokens"} :
        \/ warning = "host" /\ config.host \in {"0.0.0.0", "::"}
        \/ warning = "all" /\ "all" \in config.exposedProfiles
        \/ warning = "redaction" /\ ~config.redactSecrets
        \/ warning = "tokens" /\ DOMAIN config.authTokens = {}}
=============================================================================
