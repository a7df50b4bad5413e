----------------------------- MODULE HttpGateway -----------------------------
(***************************************************************************)
(* The HTTP server of src/src/transports/http/server.ts: every request     *)
(* goes through the host, path, origin and method checks, authentication,  *)
(* the rate limiter and the body, and only then to MCP.  Composed of       *)
(* RateLimiter, whose buckets all requests share, and StatelessDispatch,   *)
(* which takes over from the parsed body in stateless mode.                *)
(*                                                                         *)
(* The request target is parsed before the handler's try: a target that    *)
(* new URL does not take rejects the handler's promise, which nobody       *)
(* holds, and so ends the process with every request in it.                *)
(*                                                                         *)
(* One action per stretch between two awaits.  What an authentication      *)
(* service answers is any of its possible answers, each time it is asked.  *)
(***************************************************************************)
EXTENDS Integers, Sequences, FiniteSets, StatelessDispatch

CONSTANTS
    Inputs,          \* what the client of each request may send, see Input
    Configs,         \* what config.http.mode and config.http.authMode may be
    StaticRank,      \* config.http.authTokens: the rank of each static token
    HasIntrospection,\* config.http.oauth.introspectionUrl is set
    BetterAuthRank,  \* rank of config.http.betterAuth.exposureProfile
    MaxRequests, Window, Horizon     \* of RateLimiter

None == "none"
ProfilePaths == {"safe", "ops", "admin", "all"}      \* /mcp/<profile>
exposureRank == [safe |-> 0, ops |-> 1, admin |-> 2, all |-> 3]
Ranks == 0 .. 3

\* host: the Host header is on the allow list; bearer: the Authorization or
\* x-auth-token credential; body: what reading and parsing it comes to
Input == [host : BOOLEAN, path : ProfilePaths \cup {"healthz", "other", "unparsable"},
          origin : {None, "allowed", "foreign"}, method : STRING,
          bearer : STRING, cookie : STRING,
          body : {"ok", "too_large", "garbled", "cut_off"}, msg : Messages]

ASSUME InputsAssumption == Inputs \in [Requests -> SUBSET Input]
ASSUME ModesAssumption ==
    /\ Configs \subseteq [mode : {"stateless", "stateful"},
                           authMode : {"static", "oauth", "better-auth", "hybrid"}]
    /\ HasIntrospection \in BOOLEAN /\ BetterAuthRank \in Ranks
    /\ \A t \in DOMAIN StaticRank : StaticRank[t] \in Ranks

ASSUME LimitsAssumption ==
    MaxRequests \in Nat \ {0} /\ Window \in Nat \ {0} /\ Horizon \in Nat

VARIABLES
    up,              \* the server's process is alive
    config,          \* config.http, which stays as it is
    input,           \* what each client sends
    stage,           \* new, introspecting, session, body, streaming, dispatched, closed
    auth,            \* HttpAuthResult: the mechanism that let the request in and the
                     \* rank it vouches for
    buckets, now, granted      \* of RateLimiter

limiterVars == <<buckets, now, granted>>
vars == <<up, config, input, stage, auth, limiterVars, dispatchVars>>

Sent == UNION {Inputs[q] : q \in Requests}

\* rateLimitKey and pathname
Keys == {"static", "oauth", "better-auth"}
        \X ({i.bearer : i \in Sent} \cup {i.cookie : i \in Sent}) \X ProfilePaths

Limiter == INSTANCE RateLimiter

NoAuth == [mechanism |-> None, rank |-> -1]
TypeOK ==
    /\ up \in BOOLEAN
    /\ config \in Configs
    /\ input \in [Requests -> Sent]
    /\ stage \in [Requests -> {"new", "introspecting", "session", "body", "streaming",
                               "dispatched", "closed"}]
    /\ auth \in [Requests -> [mechanism : {None, "static", "oauth", "better-auth"},
                              rank : Ranks \cup {-1}]]

-----------------------------------------------------------------------------
\* extractProfileFromPath, as a rank
Required(q) == exposureRank[input[q].path]

Close(q, code) ==
    /\ stage' = [stage EXCEPT ![q] = "closed"]
    /\ status' = [status EXCEPT ![q] = code]
    /\ UNCHANGED <<config, input, pc, message, pending, settled, handler, audited, applied>>

Goto(q, where) ==
    /\ stage' = [stage EXCEPT ![q] = where]
    /\ UNCHANGED <<config, input, dispatchVars>>

RateLimitKey(q, mechanism) ==
    <<mechanism, IF mechanism = "better-auth" THEN input[q].cookie ELSE input[q].bearer,
      input[q].path>>

Unauthorized(q) == Close(q, 401) /\ UNCHANGED <<auth, limiterVars>>

\* mutant: a request over the limit is let through uncounted
AdmitLeaky(q, mechanism, rank) ==
    /\ auth' = [auth EXCEPT ![q] = [mechanism |-> mechanism, rank |-> rank]]
    /\ \/ Limiter!Grant(RateLimitKey(q, mechanism)) /\ Goto(q, "body")
       \/ /\ Limiter!Refusable(RateLimitKey(q, mechanism))
          /\ Goto(q, "body") /\ UNCHANGED limiterVars

\* authenticated: the limiter lets the request through or answers 429
Admit(q, mechanism, rank) ==
    /\ auth' = [auth EXCEPT ![q] = [mechanism |-> mechanism, rank |-> rank]]
    /\ \/ Limiter!Grant(RateLimitKey(q, mechanism)) /\ Goto(q, "body")
       \/ /\ Limiter!Refusable(RateLimitKey(q, mechanism))
          /\ Close(q, 429) /\ UNCHANGED limiterVars

-----------------------------------------------------------------------------
(* Authentication.                                                         *)

\* mutant: the rank of the token is not compared with the path's
StaticAnyRank(q) == input[q].bearer \in DOMAIN StaticRank

\* tryStaticTokenAuth
StaticVouches(q) ==
    input[q].bearer \in DOMAIN StaticRank /\ StaticRank[input[q].bearer] >= Required(q)

\* tryBetterAuthAuth up to its fetch: without a cookie there is nothing to ask
AskSession(q) ==
    \/ input[q].cookie # None /\ Goto(q, "session") /\ UNCHANGED <<auth, limiterVars>>
    \/ input[q].cookie = None /\ Unauthorized(q)

NextAfterOAuth(q) == IF config.authMode = "hybrid" THEN AskSession(q) ELSE Unauthorized(q)

\* tryOAuthAuth up to its fetch
AskIntrospection(q) ==
    IF input[q].bearer # None /\ HasIntrospection
    THEN Goto(q, "introspecting") /\ UNCHANGED <<auth, limiterVars>>
    ELSE NextAfterOAuth(q)

\* authenticateHttpRequest up to its first real await
Authenticate(q) ==
    CASE config.authMode = "better-auth" -> AskSession(q)
      [] config.authMode = "oauth" -> AskIntrospection(q)
      [] config.authMode \in {"static", "hybrid"} ->
            IF StaticVouches(q) THEN Admit(q, "static", StaticRank[input[q].bearer])
            ELSE IF config.authMode = "hybrid" THEN AskIntrospection(q) ELSE Unauthorized(q)

Methods == [stateless |-> {"POST"}, stateful |-> {"DELETE", "GET", "POST"}]

\* the checks before authentication, in their order: the status each answers with, or 0
Gate(i) ==
    IF ~i.host THEN 403
    ELSE IF i.path = "healthz" THEN 200
    ELSE IF i.path \notin ProfilePaths THEN 404
    ELSE IF i.origin = "foreign" THEN 403
    ELSE IF i.method = "OPTIONS" THEN 204
    ELSE IF i.method \notin Methods[config.mode] THEN 405
    ELSE 0

\* the callback of createServer up to its first await
Arrive(q) ==
    /\ stage[q] = "new" /\ input[q].path # "unparsable"
    /\ \/ Gate(input[q]) # 0 /\ Close(q, Gate(input[q])) /\ UNCHANGED <<auth, limiterVars>>
       \/ Gate(input[q]) = 0 /\ Authenticate(q)

\* new URL throws outside the try: an unhandled rejection, which ends the process
RejectTarget(q) ==
    /\ up /\ stage[q] = "new" /\ input[q].path = "unparsable"
    /\ up' = FALSE
    /\ UNCHANGED <<config, input, stage, auth, limiterVars, dispatchVars>>

\* The introspection endpoint answers: an active token with the required scope and a
\* profile of high enough rank; anything else; or not at all (an exception: 500).
Introspected(q) ==
    /\ stage[q] = "introspecting"
    /\ \/ \E rank \in Ranks : rank >= Required(q) /\ Admit(q, "oauth", rank)
       \/ NextAfterOAuth(q)
       \/ Close(q, 500) /\ UNCHANGED <<auth, limiterVars>>

\* the upstream answers for a browser session
SessionChecked(q) ==
    /\ stage[q] = "session"
    /\ \/ BetterAuthRank >= Required(q) /\ Admit(q, "better-auth", BetterAuthRank)
       \/ Unauthorized(q)
       \/ Close(q, 500) /\ UNCHANGED <<auth, limiterVars>>

-----------------------------------------------------------------------------
(* Past the limiter.                                                       *)

HasBody(q) == input[q].method # "GET"

\* mutant: a request whose body is no good is not counted after all
BodyFailsUncounted(q) ==
    /\ stage[q] = "body" /\ HasBody(q) /\ input[q].body # "ok"
    /\ Close(q, 500)
    /\ buckets' = [buckets EXCEPT ![RateLimitKey(q, auth[q].mechanism)].count = @ - 1]
    /\ UNCHANGED <<auth, now, granted>>

\* readJsonBody throws: the limit, JSON.parse, or the connection
BodyFails(q) ==
    /\ stage[q] = "body" /\ HasBody(q) /\ input[q].body # "ok"
    /\ Close(q, 500)
    /\ UNCHANGED <<auth, limiterVars>>

BodyRead(q) == stage[q] = "body" /\ (HasBody(q) => input[q].body = "ok")

\* stateless: handleStatelessHttpRequest up to its first await
HandOver(q) ==
    /\ BodyRead(q) /\ config.mode = "stateless"
    /\ Handle(q)
    /\ stage' = [stage EXCEPT ![q] = "dispatched"]
    /\ UNCHANGED <<config, input, auth, limiterVars>>

\* handleRequest: the SDK refuses the message or starts the handler it is for
StartStream(q) ==
    /\ stage' = [stage EXCEPT ![q] = "streaming"]
    /\ \E h \in {"none", "running"} : handler' = [handler EXCEPT ![q] = h]
    /\ UNCHANGED <<config, input, auth, limiterVars, pc, message, pending, settled, status,
                   applied>>

\* stateful: recorded, then handed to the SDK's transport; creating the client for an
\* upstream profile nobody configured throws, and so may record()
OpenStream(q) ==
    /\ BodyRead(q) /\ config.mode = "stateful"
    /\ \/ audited' = audited \cup {q} /\ StartStream(q)
       \/ Close(q, 500) /\ UNCHANGED <<auth, limiterVars>>

\* the handler of a stream calls the upstream, which it may do when the response has
\* ended, for nothing cancels it
StreamCalls(q) ==
    /\ config.mode = "stateful" /\ handler[q] = "running" /\ applied[q] = 0
    /\ applied' = [applied EXCEPT ![q] = 1]
    /\ UNCHANGED <<config, input, stage, auth, limiterVars, pc, message, pending, settled,
                   handler, status, audited>>

\* the response ends: the SDK is done with it, or throws
EndStream(q) ==
    /\ stage[q] = "streaming"
    /\ \E code \in {200, 500} : Close(q, code)
    /\ UNCHANGED <<auth, limiterVars>>

Dispatched(q) ==
    stage[q] = "dispatched" /\ UNCHANGED <<config, input, stage, auth, limiterVars>>

Dispatch(q) == Dispatched(q) /\ DispatchStep(q)

Tick == Limiter!Tick /\ UNCHANGED <<config, input, stage, auth, dispatchVars>>

\* a step of a process that is alive and stays so
Serving(step) == up /\ UNCHANGED up /\ step

Init ==
    /\ up = TRUE
    /\ config \in Configs
    /\ input \in {f \in [Requests -> Sent] : \A q \in Requests : f[q] \in Inputs[q]}
    /\ stage = [q \in Requests |-> "new"]
    /\ auth = [q \in Requests |-> NoAuth]
    /\ Limiter!Init
    /\ DispatchInit
    /\ message = [q \in Requests |-> input[q].msg]

Work ==
    \/ Tick
    \/ \E q \in Requests :
        \/ Arrive(q) \/ Introspected(q) \/ SessionChecked(q)
        \/ BodyFails(q) \/ HandOver(q) \/ OpenStream(q) \/ StreamCalls(q) \/ EndStream(q)
        \/ Dispatch(q)

Next == Serving(Work) \/ \E q \in Requests : RejectTarget(q)

Spec == Init /\ [][Next]_vars

\* Authentication fetches end within authValidationTimeoutCapMs; a body arrives or its
\* connection is cut (requestTimeout of node:http); continuations run and timers fire,
\* but a tool handler need not return.
FairSpec ==
    /\ Spec
    /\ \A q \in Requests :
        /\ WF_vars(Serving(Arrive(q))) /\ WF_vars(RejectTarget(q))
        /\ WF_vars(Serving(Introspected(q))) /\ WF_vars(Serving(SessionChecked(q)))
        /\ WF_vars(Serving(BodyFails(q)))
        /\ WF_vars(Serving(HandOver(q))) /\ WF_vars(Serving(OpenStream(q)))
        /\ WF_vars(Serving(Dispatched(q) /\ DispatchNotification(q)))
        /\ WF_vars(Serving(Dispatched(q) /\ DispatchRequest(q)))
        /\ WF_vars(Serving(Dispatched(q) /\ Timeout(q)))
        /\ WF_vars(Serving(Dispatched(q) /\ Complete(q)))

-----------------------------------------------------------------------------
PastLimiter(q) == stage[q] \in {"body", "streaming", "dispatched"}

\* Whatever is done upstream is done for a request that a mechanism of the configured
\* mode vouches for, at the rank of its path or above, from an allowed host and origin,
\* and that has its line in the audit log: no interleaving of the fall-through of
\* hybrid mode with other requests gets around one of them.
EffectsVouchedAndAudited ==
    \A q \in Requests : applied[q] > 0 =>
        /\ auth[q].rank >= Required(q)
        /\ config.authMode # "hybrid" => auth[q].mechanism = config.authMode
        /\ input[q].host /\ input[q].origin # "foreign" /\ input[q].method # "OPTIONS"
        /\ q \in audited

\* Each request past authentication is counted exactly once against its credential and
\* path, and nobody else is: neither 401 and 429 answers, nor requests that fail on
\* their way to the limiter, use up a caller's window.
CountedOnce ==
    \A k \in Keys :
        Len(granted[k]) = Cardinality({q \in Requests :
            /\ auth[q].mechanism # None /\ status[q] # 429
            /\ RateLimitKey(q, auth[q].mechanism) = k})

\* The limiter as the requests drive it is the limiter of RateLimiter.
LimiterRefined == Limiter!Spec

\* Every request is answered, or its stream opened, whatever the authentication
\* services, the body and the tool handler do - unless a request whose target new URL
\* does not take ends the process: it is never answered itself, and it takes the
\* others with it.
EveryRequestAnswered ==
    \A q \in Requests : <>(\/ status[q] # 0 \/ stage[q] = "streaming"
                           \/ \E r \in Requests : ~up /\ input[r].path = "unparsable")
=============================================================================
