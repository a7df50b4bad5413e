---------------------------- MODULE LaunchProofs ----------------------------
(***************************************************************************)
(* What a passing doctor is worth, for all files, environments, options,   *)
(* edits and credentials.  How an environment becomes a configuration is   *)
(* never looked into: the argument is that doctor and server apply the     *)
(* same functions to the same arguments, and that what the doctor tried is *)
(* among what the server's client will try.                                *)
(***************************************************************************)
EXTENDS Launch, TLAPS

\* the records have the fields the actions write
Shape ==
    /\ doctor = [phase |-> doctor.phase, options |-> doctor.options,
                 config |-> doctor.config, warnings |-> doctor.warnings]
    /\ server = [phase |-> server.phase, failure |-> server.failure,
                 transport |-> server.transport, options |-> server.options,
                 config |-> server.config, call |-> server.call]

\* a credential of the profile is accepted
Usable(p) == (FirstCredential(p) \cup RetryCredential(p)) \cap accepted # {}

HasLoaded == doctor.phase \in {"probe", "retry", "keys", "passed"}

\* the doctor's configuration is the one a command would load now
LoadedNow ==
    unchanged /\ HasLoaded =>
        /\ LoadSucceeds(doctor.options)
        /\ doctor.config = loadConfig(Environment(doctor.options))

ProfileKnown == HasLoaded => Known(doctor.config, doctor.options.profileName)

\* an accepted credential is still accepted
Heard == unchanged /\ doctor.phase \in {"keys", "passed"} => Usable(Probed)

Warned == HasLoaded => collectConfigWarnings(doctor.config) \subseteq doctor.warnings

\* what the verdict says of the server
Vouched ==
    verdict # {} =>
        /\ server.phase = "up" \/ (server.transport = "http" /\ server.failure = "listen")
        /\ Known(server.config, server.options.profileName)
        /\ Usable(Profile(server.config, server.options.profileName))
        /\ server.call.profileName = server.options.profileName =>
                server.call.outcome \notin {"unknown profile", "unauthorized"}
        /\ \A warnings \in verdict : collectConfigWarnings(server.config) \subseteq warnings

IInv == Shape /\ LoadedNow /\ ProfileKnown /\ Heard /\ Warned /\ Vouched

-----------------------------------------------------------------------------
\* The state before any command satisfies the invariant.
LEMMA InitIInv == Init => IInv
BY DEF Init, IInv, Shape, LoadedNow, ProfileKnown, Heard, Warned, Vouched, HasLoaded,
       NoDoctor, NoServer

\* Loading starts a verdict anew: what was loaded is what a command would load.
LEMMA LoadKeeps == ASSUME IInv, NEW o \in Options, DoctorLoads(o) PROVE IInv'
<1> USE DEF IInv, HasLoaded
<1>1. CASE LoadSucceeds(o) /\ Known(loadConfig(Environment(o)), o.profileName)
  <2>1. doctor' = [phase |-> "probe", options |-> o, config |-> loadConfig(Environment(o)),
                   warnings |-> collectConfigWarnings(loadConfig(Environment(o)))]
    BY <1>1 DEF DoctorLoads
  <2>2. UNCHANGED <<files, env, accepted, server, verdict>>
    BY DEF DoctorLoads
  <2>3. Environment(o)' = Environment(o) /\ (LoadSucceeds(o)' <=> LoadSucceeds(o))
    BY <2>2 DEF Environment, LoadSucceeds
  <2>4. Shape' BY <2>1, <2>2 DEF Shape
  <2>5. LoadedNow' /\ ProfileKnown' /\ Heard' /\ Warned'
    BY <1>1, <2>1, <2>2, <2>3 DEF LoadedNow, ProfileKnown, Heard, Warned, LoadSucceeds, Environment, Known
  <2>6. Vouched' BY <2>2 DEF Vouched, Usable
  <2> QED BY <2>4, <2>5, <2>6
<1>2. CASE ~(LoadSucceeds(o) /\ Known(loadConfig(Environment(o)), o.profileName))
  <2>1. doctor' = [phase |-> "failed", options |-> o, config |-> NoConfig, warnings |-> {}]
    BY <1>2 DEF DoctorLoads, NoDoctor
  <2>2. UNCHANGED <<files, env, accepted, server, verdict>>
    BY DEF DoctorLoads
  <2> QED BY <2>1, <2>2 DEF Shape, LoadedNow, ProfileKnown, Heard, Warned, Vouched, Usable
<1> QED BY <1>1, <1>2

\* Whatever the doctor learns, it moves on or adds a warning; and it hears from the
\* upstream only with a credential the upstream accepts.
LEMMA DoctorKeeps ==
    ASSUME IInv, HasLoaded,
           UNCHANGED <<files, env, accepted, edits, server, unchanged, verdict>>,
           NEW phase, NEW warnings,
           doctor' = [doctor EXCEPT !.phase = phase, !.warnings = warnings],
           doctor.warnings \subseteq warnings,
           phase \in {"keys", "passed"} => Usable(Probed)
    PROVE  IInv'
<1>1. doctor' = [phase |-> phase, options |-> doctor.options, config |-> doctor.config,
                 warnings |-> warnings]
  BY DEF IInv, Shape
<1>2. Environment(doctor.options)' = Environment(doctor.options)
      /\ (LoadSucceeds(doctor.options)' <=> LoadSucceeds(doctor.options))
  BY <1>1 DEF Environment, LoadSucceeds
<1>3. (Usable(Probed))' <=> Usable(Probed)
  BY <1>1 DEF Usable, Probed
<1>4. Shape' /\ ProfileKnown' /\ Warned' /\ LoadedNow'
  BY <1>1, <1>2 DEF IInv, Shape, ProfileKnown, Warned, LoadedNow, HasLoaded, Known
<1>5. Heard' BY <1>1, <1>3 DEF Heard
<1>6. Vouched' BY DEF IInv, Vouched, Usable
<1> QED BY <1>4, <1>5, <1>6 DEF IInv

\* The doctor's probe, its retry and the listing of keys are such steps.
LEMMA ProbesKeep == ASSUME IInv, Probe \/ ProbeAgain \/ ListKeys PROVE IInv'
<1>1. HasLoaded /\ UNCHANGED <<files, env, accepted, edits, server, unchanged, verdict>>
  BY DEF HasLoaded, Probe, ProbeAgain, ListKeys
<1>2. PICK phase, warnings :
          /\ doctor' = [doctor EXCEPT !.phase = phase, !.warnings = warnings]
          /\ doctor.warnings \subseteq warnings
          /\ phase \in {"keys", "passed"} => Usable(Probed)
  <2> DEFINE Move(phase, warnings) ==
          /\ doctor' = [doctor EXCEPT !.phase = phase, !.warnings = warnings]
          /\ doctor.warnings \subseteq warnings
          /\ phase \in {"keys", "passed"} => Usable(Probed)
  <2>1. ASSUME NEW phase, Exit(phase), phase \in {"keys", "passed"} => Usable(Probed)
        PROVE  Move(phase, doctor.warnings)
    BY <2>1 DEF Exit, IInv, Shape
  <2>2. ASSUME Probe PROVE \E phase, warnings : Move(phase, warnings)
    <3>1. CASE FirstCredential(Probed) \cap accepted # {} /\ Accept
      BY <2>1, <3>1 DEF Accept, Usable
    <3>2. CASE Exit(IF canRetryAuth(Probed) THEN "retry" ELSE "failed")
      BY <2>1, <3>2
    <3> QED BY <2>2, <3>1, <3>2 DEF Probe
  <2>3. ASSUME ProbeAgain PROVE \E phase, warnings : Move(phase, warnings)
    <3>1. CASE RetryCredential(Probed) \cap accepted # {} /\ Accept
      BY <2>1, <3>1 DEF Accept, Usable
    <3>2. CASE Exit("failed")
      BY <2>1, <3>2
    <3> QED BY <2>3, <3>1, <3>2 DEF ProbeAgain
  <2>4. ASSUME ListKeys PROVE \E phase, warnings : Move(phase, warnings)
    <3>1. CASE Exit("failed")
      BY <2>1, <3>1
    <3>2. ASSUME Usable(Probed), NEW found \in BOOLEAN,
                 doctor' = [doctor EXCEPT !.phase = "passed",
                    !.warnings = IF found THEN @ ELSE @ \cup {"no system key"}]
          PROVE  \E phase, warnings : Move(phase, warnings)
      <4>1. Move("passed", IF found THEN doctor.warnings
                           ELSE doctor.warnings \cup {"no system key"})
        BY <3>2 DEF IInv, Shape
      <4> QED BY <4>1
    <3> QED BY <2>4, <3>1, <3>2 DEF ListKeys, Usable
  <2>5. \E phase, warnings : Move(phase, warnings)
    <3> HIDE DEF Move
    <3> QED BY <2>2, <2>3, <2>4
  <2> QED BY <2>5
<1> QED BY <1>1, <1>2, DoctorKeeps

\* A server that starts under a passing doctor's options has the doctor's configuration.
LEMMA StartKeeps ==
    ASSUME IInv, NEW transport \in {"stdio", "http"}, NEW o \in Options, Start(transport, o)
    PROVE  IInv'
<1>1. UNCHANGED <<files, env, accepted, edits, doctor, unchanged>>
  BY DEF Start
<1>2. Shape'
  BY DEF Start, IInv, Shape
<1>3. LoadedNow' /\ ProfileKnown' /\ Heard' /\ Warned'
  BY <1>1 DEF IInv, LoadedNow, ProfileKnown, Heard, Warned, HasLoaded, LoadSucceeds,
              Environment, Usable, Probed
<1>4. Vouched'
  <2> SUFFICES ASSUME verdict' # {} PROVE Vouched' BY DEF Vouched
  <2>1. unchanged /\ doctor.phase = "passed" /\ SameSource(doctor.options, o)
        /\ verdict' = {doctor.warnings}
    BY DEF Start
  <2>2. Environment(o) = Environment(doctor.options)
        /\ (LoadSucceeds(o) <=> LoadSucceeds(doctor.options))
    BY <2>1 DEF SameSource, Environment, LoadSucceeds
  <2>3. LoadSucceeds(o) /\ doctor.config = loadConfig(Environment(o))
        /\ Known(doctor.config, o.profileName)
    BY <2>1, <2>2 DEF IInv, LoadedNow, ProfileKnown, HasLoaded, SameSource
  <2>4. PICK failure \in {"none"} \cup Mishaps(transport, doctor.config) :
            server' = [phase |-> IF failure \in {"none", "audit"} THEN "up" ELSE "failed",
                       failure |-> failure, transport |-> transport, options |-> o,
                       config |-> doctor.config, call |-> NoCall]
    BY <2>3 DEF Start
  <2>7. failure \in {"none", "audit"} \/ (transport = "http" /\ failure = "listen")
    BY <2>4 DEF Mishaps
  <2>5. Usable(Profile(doctor.config, o.profileName))
    BY <2>1 DEF IInv, Heard, Probed, SameSource
  <2>6. collectConfigWarnings(doctor.config) \subseteq doctor.warnings
    BY <2>1 DEF IInv, Warned, HasLoaded
  <2> QED BY <1>1, <2>1, <2>3, <2>4, <2>5, <2>6, <2>7 DEF Vouched, Usable, Known, NoCall
<1> QED BY <1>2, <1>3, <1>4 DEF IInv

\* Under the profile vouched for there is nothing to be refused for.
LEMMA ServeKeeps == ASSUME IInv, ServeCall PROVE IInv'
<1>1. UNCHANGED <<files, env, accepted, edits, doctor, unchanged, verdict>>
  BY DEF ServeCall
<1>2. PICK name, outcome :
          /\ outcome \in Outcome(name)
          /\ server' = [server EXCEPT !.call = [profileName |-> name, outcome |-> outcome]]
  BY DEF ServeCall
<1>3. server' = [phase |-> server.phase, failure |-> server.failure,
                 transport |-> server.transport, options |-> server.options,
                 config |-> server.config, call |-> [profileName |-> name, outcome |-> outcome]]
  BY <1>2 DEF IInv, Shape
<1>4. ASSUME Known(server.config, name), Usable(Profile(server.config, name))
      PROVE  outcome \notin {"unknown profile", "unauthorized"}
  BY <1>2, <1>4 DEF Outcome, Usable
<1>5. Vouched' BY <1>1, <1>3, <1>4 DEF IInv, Vouched, Usable, Known
<1> QED BY <1>1, <1>3, <1>5 DEF IInv, Shape, LoadedNow, ProfileKnown, Heard, Warned, HasLoaded,
                                LoadSucceeds, Environment, Usable, Probed

\* Changes of files, environment and credentials end what was known of them.
LEMMA ChangesKeep ==
    ASSUME IInv, Stop \/ (\E e \in Edits : Edit(e)) \/ (\E c \in accepted : Withdraw(c))
    PROVE  IInv'
<1>1. CASE Stop
  BY <1>1 DEF Stop, NoServer, IInv, Shape, LoadedNow, ProfileKnown, Heard, Warned, Vouched,
              HasLoaded, LoadSucceeds, Environment, Usable, Probed
<1>2. ASSUME NEW e \in Edits, Edit(e) PROVE IInv'
  <2>1. ~unchanged' /\ UNCHANGED <<accepted, doctor, server, verdict>>
    BY <1>2 DEF Edit
  <2> QED BY <2>1 DEF IInv, Shape, LoadedNow, ProfileKnown, Heard, Warned, Vouched, HasLoaded,
                      Usable, Known
<1>3. ASSUME NEW c \in accepted, Withdraw(c) PROVE IInv'
  <2>1. ~unchanged' /\ verdict' = {} /\ UNCHANGED <<doctor, server>>
    BY <1>3 DEF Withdraw
  <2> QED BY <2>1 DEF IInv, Shape, LoadedNow, ProfileKnown, Heard, Warned, Vouched, HasLoaded,
                      Known
<1> QED BY <1>1, <1>2, <1>3

\* Every step keeps the invariant.
LEMMA StepIInv == IInv /\ [Next]_vars => IInv'
<1> SUFFICES ASSUME IInv, [Next]_vars PROVE IInv' OBVIOUS
<1>1. CASE UNCHANGED vars
  BY <1>1 DEF vars, IInv, Shape, LoadedNow, ProfileKnown, Heard, Warned, Vouched, HasLoaded,
              LoadSucceeds, Environment, Usable, Probed, Known
<1>2. CASE Next
  BY <1>2, LoadKeeps, ProbesKeep, StartKeeps, ServeKeeps, ChangesKeep DEF Next
<1> QED BY <1>1, <1>2

THEOREM Invariance == Spec => []IInv
BY InitIInv, StepIInv, PTL DEF Spec

\* A server started with the options of a doctor that passed, nothing changed in between,
\* is up or could not listen, and no call under the doctor's profile is turned away.
THEOREM DoctorVouchesHolds == Spec => []DoctorVouches
<1>1. IInv => DoctorVouches BY DEF IInv, Vouched, DoctorVouches
<1> QED BY <1>1, Invariance, PTL

\* And if the doctor had no warning, no tool is on offer that needs a feature flag.
THEOREM SilentDoctorIsSafeHolds == Spec => []SilentDoctorIsSafe
<1>1. ASSUME IInv, {} \in verdict PROVE SilentDoctorIsSafe
  <2>1. collectConfigWarnings(server.config) = {}
    BY <1>1 DEF IInv, Vouched
  <2>2. server.config.flags \cap warnedFlags = {} /\ server.config.redactSecrets
    BY <2>1 DEF collectConfigWarnings
  <2>3. ASSUME NEW tool \in Offered PROVE Gate(tool) = {}
    <3>1. Gate(tool) \subseteq server.config.flags
      BY DEF Offered, filterEnabledTools, Allowed
    <3>2. Gate(tool) \subseteq warnedFlags
      BY DEF Gate, warnedFlags
    <3> QED BY <2>2, <3>1, <3>2
  <2> QED BY <2>2, <2>3 DEF SilentDoctorIsSafe, warnedFlags
<1>2. IInv => SilentDoctorIsSafe BY <1>1 DEF SilentDoctorIsSafe
<1> QED BY <1>2, Invariance, PTL

\* Every tool that read-only mode lets through calls an endpoint that changes nothing
\* (classifyRoute beside the client's methods, part by part of both tables).
LEMMA ReadsChangeNothing ==
    \A t \in ALL_MANAGED_TOOLS : ReadonlyAllows(t) => t.name \notin Mutating
<1> DEFINE Fine(t) == ReadonlyAllows(t) => t.name \notin Mutating
<1> USE DEF Classified, ReadonlyAllows, Mutating, NonGet, Endpoints, activityEndpoints,
           bearerKeyEndpoints, builtinEndpoints, cloudEndpoints, groupEndpoints, logEndpoints,
           bundleEndpoints, oauthClientEndpoints, serverPartEndpoints, serverEndpoints,
           systemEndpoints, userEndpoints
<1>1. \A t \in classifyServerRoute : Fine(t) BY DEF classifyServerRoute
<1>2. \A t \in classifyGroupRoute : Fine(t) BY DEF classifyGroupRoute
<1>3. \A t \in classifyBuiltinPromptRoute : Fine(t) BY DEF classifyBuiltinPromptRoute
<1>4. \A t \in classifyBuiltinResourceRoute : Fine(t) BY DEF classifyBuiltinResourceRoute
<1>5. \A t \in statusRoutes : Fine(t) BY DEF statusRoutes
<1>6. \A t \in adminRoutes : Fine(t) BY DEF adminRoutes
<1>7. \A t \in activityRoutes : Fine(t) BY DEF activityRoutes
<1>8. \A t \in marketRoutes : Fine(t) BY DEF marketRoutes
<1>9. \A t \in catalogRoutes : Fine(t) BY DEF catalogRoutes
<1> HIDE DEF Fine
<1>10. \A t \in ALL_MANAGED_TOOLS : Fine(t)
  BY <1>1, <1>2, <1>3, <1>4, <1>5, <1>6, <1>7, <1>8, <1>9 DEF ALL_MANAGED_TOOLS, COVERAGE
<1> QED BY <1>10 DEF Fine

\* With --readonly no tool on offer changes anything: what the filter goes by and what the
\* endpoints do agree.
THEOREM ReadonlyOptionHoldsAlways == Spec => []ReadonlyOptionHolds
<1>1. ReadonlyOptionHolds
  <2> SUFFICES ASSUME server.phase = "up", server.options.readonly PROVE ~OffersMutations
    BY DEF ReadonlyOptionHolds
  <2>1. ASSUME NEW tool \in Offered PROVE tool.name \notin Mutating
    <3>1. tool \in ALL_MANAGED_TOOLS /\ ReadonlyAllows(tool)
      BY DEF Offered, filterEnabledTools, Allowed, ForceReadonly
    <3> QED BY <3>1, ReadsChangeNothing
  <2> QED BY <2>1 DEF OffersMutations
<1> QED BY <1>1, PTL

\* Merging drops the variables that are set to nothing, so dropping them first changes
\* nothing.
LEMMA BlanksDropOut ==
    ASSUME NEW fileEnv, NEW environment
    PROVE  LET set == {k \in DOMAIN environment : environment[k] # ""}
           IN  withExplicitOverrides(fileEnv, environment)
                    = withExplicitOverrides(fileEnv, [k \in set |-> environment[k]])
<1> DEFINE set == {k \in DOMAIN environment : environment[k] # ""}
           kept == [k \in set |-> environment[k]]
<1>1. DOMAIN kept = set /\ \A k \in set : kept[k] = environment[k]
  OBVIOUS
<1>2. {k \in DOMAIN kept : kept[k] # ""} = set
  OBVIOUS
<1> HIDE DEF kept
<1>3. withExplicitOverrides(fileEnv, kept)
        = [k \in DOMAIN fileEnv \cup set |-> IF k \in set THEN kept[k] ELSE fileEnv[k]]
  BY <1>2 DEF withExplicitOverrides
<1>4. withExplicitOverrides(fileEnv, environment)
        = [k \in DOMAIN fileEnv \cup set |-> IF k \in set THEN environment[k] ELSE fileEnv[k]]
  BY DEF withExplicitOverrides
<1>5. withExplicitOverrides(fileEnv, environment) = withExplicitOverrides(fileEnv, kept)
  BY <1>1, <1>3, <1>4
<1> QED BY <1>5 DEF kept

\* Where there is a file, a server starts as if the variables that are set to nothing were
\* not there: whatever comes up was started, and Start loads through the merge.
THEOREM BlankHidesNothingHolds == Spec => BlankHidesNothing
<1> DEFINE path == server'.options.configPath
           filled == {k \in DOMAIN env : env[k] # ""}
           Same ==
            server.phase = "down" /\ server'.phase = "up" =>
                (SelectedFile(files, path) # Undefined =>
                    server'.config =
                        loadConfig(loadCommandEnv(files, path, [k \in filled |-> env[k]])))
<1>1. ASSUME IInv, [Next]_vars PROVE Same
  <2>1. CASE UNCHANGED server
    BY <2>1
  <2>2. ASSUME NEW transport, NEW o \in Options, Start(transport, o) PROVE Same
    <3> SUFFICES ASSUME server'.phase = "up", SelectedFile(files, path) # Undefined
                 PROVE  server'.config =
                            loadConfig(loadCommandEnv(files, path, [k \in filled |-> env[k]]))
      OBVIOUS
    <3>1. server'.options = o /\ server'.config = loadConfig(Environment(o))
      BY <2>2 DEF Start
    <3>2. Environment(o) = withExplicitOverrides(files[SelectedFile(files, path)], env)
      BY <3>1 DEF Environment, loadCommandEnv
    <3>3. loadCommandEnv(files, path, [k \in filled |-> env[k]])
            = withExplicitOverrides(files[SelectedFile(files, path)], [k \in filled |-> env[k]])
      BY DEF loadCommandEnv
    <3> QED BY <3>1, <3>2, <3>3, BlanksDropOut
  <2>3. ServeCall \/ Stop => Same
    BY DEF ServeCall, Stop
  <2>4. ASSUME NEW o, DoctorLoads(o) PROVE UNCHANGED server
    BY <2>4 DEF DoctorLoads
  <2>5. Probe \/ ProbeAgain \/ ListKeys => UNCHANGED server
    BY DEF Probe, ProbeAgain, ListKeys
  <2>6. ASSUME NEW e, Edit(e) \/ Withdraw(e) PROVE UNCHANGED server
    BY <2>6 DEF Edit, Withdraw
  <2>7. UNCHANGED vars => UNCHANGED server
    BY DEF vars
  <2> HIDE DEF Same
  <2> QED BY <1>1, <2>1, <2>2, <2>3, <2>4, <2>5, <2>6, <2>7 DEF Next
<1>2. Spec => [][Next]_vars /\ []IInv
  BY Invariance, PTL DEF Spec
<1>3. IInv /\ [Next]_vars =>
        [server.phase = "down" /\ server'.phase = "up" =>
            LET configPath == server'.options.configPath
            IN  SelectedFile(files, configPath) # Undefined =>
                    LET set == {k \in DOMAIN env : env[k] # ""}
                    IN  server'.config =
                            loadConfig(loadCommandEnv(files, configPath,
                                            [k \in set |-> env[k]]))]_vars
  BY <1>1
<1> QED BY <1>2, <1>3, PTL DEF BlankHidesNothing
=============================================================================
