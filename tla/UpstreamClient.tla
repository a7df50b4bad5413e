--------------------------- MODULE UpstreamClient ---------------------------
(***************************************************************************)
(* The MCPHub REST client of one process: the request executor of          *)
(* src/src/core/mcphub-client/request.ts and the credential provider of    *)
(* src/src/core/mcphub-client/auth-headers.ts that all its calls share.    *)
(*                                                                         *)
(* One action per stretch of code between two awaits.  The provider's      *)
(* closure variables (currentToken, refreshPromise) are shared by every    *)
(* call in flight; a call's own state is that of its innermost run().      *)
(* The upstream may process a message long after the caller gave up on it, *)
(* and may lose it; tokens age, expire and are revoked at any time.        *)
(***************************************************************************)
EXTENDS Naturals, FiniteSets

CONSTANTS
    Requests,        \* calls made through one client
    Retryable,       \* those for which canRetryRequest holds
    RetryAttempts,   \* options.retryAttempts
    TokenKind,       \* options.tokenKind
    HasToken,        \* options.token (better-auth: betterAuthCookie) is set
    HasCredentials,  \* username/password (jwt) or the client id, secret and URL (oauth)
    MaxTokens,       \* bound: tokens the authorization server mints in a run
    NoToken          \* currentToken === undefined

ASSUME RequestsAssumption == Retryable \subseteq Requests
ASSUME RetryAssumption == RetryAttempts \in Nat
ASSUME KindAssumption ==
    /\ TokenKind \in {"bearer", "better-auth", "jwt", "oauth"}
    /\ HasToken \in BOOLEAN
    /\ HasCredentials \in BOOLEAN
ASSUME TokensAssumption == MaxTokens \in Nat /\ NoToken \notin Nat

Tokens == 0 .. MaxTokens                 \* 0 is the configured one, n the n-th minted
Ages == {"unminted", "fresh", "expiring", "expired", "revoked"}
Accepted == {"fresh", "expiring"}        \* what the upstream lets through
Phases == {"idle", "waiting", "ready", "inflight", "backoff", "settled"}
Statuses == {"ok", "garbled", "unauthorized", "busy", "refused"}
Outcomes == {"none", "ok", "invalid_response", "unauthorized", "busy", "refused",
             "auth_refresh_failed", "network_error", "request_timeout"}

VARIABLES
    \* the credential provider
    currentToken,    \* NoToken or the cached token
    refresh,         \* refreshPromise: "none" or "pending"
    \* each call: its current run()
    pc,              \* idle, waiting (for refreshPromise), ready, inflight, backoff, settled
    token,           \* token in the headers of the current attempt
    remaining,       \* remainingRetries
    authRetry,       \* authRetryAvailable
    timedOut,        \* the attempt's AbortController has fired
    outcome,         \* "ok" or the code of the McpHubApiError thrown
    \* the upstream and the network
    asked,           \* login exchanges the authorization server has not answered
    issued,          \* tokens minted whose response is still under way
    minted,          \* number of tokens minted so far
    age,             \* what has become of each token
    sent,            \* API messages not yet processed
    reply,           \* response to a call's current attempt, or "none"
    \* history
    fetches,         \* API messages a call has sent
    applied,         \* times the upstream executed the call
    rejected         \* tokens for which the call was answered 401

providerVars == <<currentToken, refresh>>
loginVars == <<asked, issued, minted, age>>
callVars == <<pc, token, remaining, authRetry, timedOut, outcome>>
wireVars == <<sent, reply, fetches, applied, rejected>>
vars == <<currentToken, refresh, asked, issued, minted, age,
          pc, token, remaining, authRetry, timedOut, outcome,
          sent, reply, fetches, applied, rejected>>

Messages == [req : Requests, n : Nat, token : Tokens]

TypeOK ==
    /\ currentToken \in Tokens \cup {NoToken}
    /\ refresh \in {"none", "pending"}
    /\ pc \in [Requests -> Phases]
    /\ token \in [Requests -> Tokens \cup {NoToken}]
    /\ remaining \in [Requests -> 0 .. RetryAttempts]
    /\ authRetry \in [Requests -> BOOLEAN]
    /\ timedOut \in [Requests -> BOOLEAN]
    /\ outcome \in [Requests -> Outcomes]
    /\ asked \in Nat
    /\ issued \subseteq Tokens
    /\ minted \in Tokens
    /\ age \in [Tokens -> Ages]
    /\ sent \subseteq Messages
    /\ reply \in [Requests -> Statuses \cup {"none"}]
    /\ fetches \in [Requests -> Nat]
    /\ applied \in [Requests -> Nat]
    /\ rejected \in [Requests -> SUBSET Tokens]

-----------------------------------------------------------------------------
(* The provider.                                                           *)

\* canLogin \/ canExchangeOAuthToken, and so canRetryAuth()
CanRefresh == TokenKind \in {"jwt", "oauth"} /\ HasCredentials

\* isJwtExpiringSoon: the exp claim is within 30 s or past; revocation is not visible in it
ExpiringSoon(t) == age[t] \in {"expiring", "expired"}

\* getHeaders answers from the cache: ensureJwtToken looks at exp, the others do not
Usable(t) == t # NoToken /\ (TokenKind = "jwt" => ~ExpiringSoon(t))

\* mutant: the 401 retry without its invalidate()
InvalidatedNever == currentToken

\* invalidate(): forgets the cached token, whichever it is by now
Invalidated == IF TokenKind \in {"jwt", "oauth"} THEN NoToken ELSE currentToken

\* mutant: no refreshPromise to join, each call logs in by itself
JoinRefreshNever == refresh' = "pending" /\ asked' = asked + 1

\* ensureJwtToken / ensureOAuthToken: start a refresh or join the one under way
JoinRefresh ==
    /\ refresh' = "pending"
    /\ asked' = IF refresh = "none" THEN asked + 1 ELSE asked

-----------------------------------------------------------------------------
(* run(): entering an attempt, up to its first await.                      *)

Settle(r, code) ==
    /\ pc' = [pc EXCEPT ![r] = "settled"]
    /\ outcome' = [outcome EXCEPT ![r] = code]

\* cur is currentToken at entry; rem and auth are run's last two parameters
EnterRun(r, cur, rem, auth) ==
    /\ currentToken' = cur
    /\ remaining' = [remaining EXCEPT ![r] = rem]
    /\ authRetry' = [authRetry EXCEPT ![r] = auth]
    /\ timedOut' = [timedOut EXCEPT ![r] = FALSE]
    /\ \/ /\ Usable(cur)
          /\ pc' = [pc EXCEPT ![r] = "ready"]
          /\ token' = [token EXCEPT ![r] = cur]
          /\ UNCHANGED <<refresh, asked, outcome>>
       \/ /\ ~Usable(cur) /\ CanRefresh
          /\ pc' = [pc EXCEPT ![r] = "waiting"]
          /\ JoinRefresh
          /\ UNCHANGED <<token, outcome>>
       \/ /\ ~Usable(cur) /\ ~CanRefresh
          /\ Settle(r, "auth_refresh_failed")
          /\ UNCHANGED <<refresh, asked, token>>

\* execute(): the first attempt
Start(r) ==
    /\ pc[r] = "idle"
    /\ EnterRun(r, currentToken, RetryAttempts, CanRefresh)
    /\ UNCHANGED <<issued, minted, age, wireVars>>

\* mutants: canRetryRequest ignored; remainingRetries ignored
MayRetryAnyMethod(r) == remaining[r] > 0
MayRetryForever(r) == r \in Retryable

\* retryable && remainingRetries > 0
MayRetry(r) == r \in Retryable /\ remaining[r] > 0

\* the catch of run(): back off and try again, or throw the normalized error
TransportFailure(r, code) ==
    /\ IF MayRetry(r)
       THEN pc' = [pc EXCEPT ![r] = "backoff"] /\ UNCHANGED outcome
       ELSE Settle(r, code)
    /\ reply' = [reply EXCEPT ![r] = "none"]

\* getHeaders resolved; fetch with an aborted signal rejects without sending
Send(r) ==
    /\ pc[r] = "ready"
    /\ IF timedOut[r]
       THEN /\ TransportFailure(r, "request_timeout")
            /\ UNCHANGED <<sent, fetches>>
       ELSE /\ pc' = [pc EXCEPT ![r] = "inflight"]
            /\ fetches' = [fetches EXCEPT ![r] = @ + 1]
            /\ sent' = sent \cup {[req |-> r, n |-> fetches[r] + 1, token |-> token[r]]}
            /\ UNCHANGED <<outcome, reply>>
    /\ UNCHANGED <<providerVars, loginVars, token, remaining, authRetry, timedOut,
                   applied, rejected>>

\* mutant: each attempt gets its own retry after a 401
WakeWithAuthRetry(r) ==
    /\ pc[r] = "backoff"
    /\ EnterRun(r, currentToken, remaining[r] - 1, CanRefresh)
    /\ UNCHANGED <<issued, minted, age, wireVars>>

\* the sleep is over: the next attempt
Wake(r) ==
    /\ pc[r] = "backoff"
    /\ EnterRun(r, currentToken, remaining[r] - 1, authRetry[r])
    /\ UNCHANGED <<issued, minted, age, wireVars>>

\* mutant: the signal is not handed to fetch
TimeoutUnheard(r) ==
    /\ ~timedOut[r] /\ pc[r] \in {"waiting", "inflight"}
    /\ timedOut' = [timedOut EXCEPT ![r] = TRUE]
    /\ UNCHANGED <<providerVars, loginVars, pc, token, remaining, authRetry, outcome, wireVars>>

\* the timer aborts the fetch, but has no hold on a getHeaders under way
Timeout(r) ==
    /\ ~timedOut[r]
    /\ timedOut' = [timedOut EXCEPT ![r] = TRUE]
    /\ \/ pc[r] = "waiting" /\ UNCHANGED <<pc, outcome, reply>>
       \/ pc[r] = "inflight" /\ TransportFailure(r, "request_timeout")
    /\ UNCHANGED <<providerVars, loginVars, token, remaining, authRetry,
                   sent, fetches, applied, rejected>>

\* fetch, or the reading of a response, rejects with anything but an AbortError
ConnectionFails(r) ==
    /\ pc[r] = "inflight"
    /\ TransportFailure(r, "network_error")
    /\ UNCHANGED <<providerVars, loginVars, token, remaining, authRetry, timedOut,
                   sent, fetches, applied, rejected>>

-----------------------------------------------------------------------------
(* run(): what it does with a response.                                    *)

\* response.ok: the parsed body, or invalid_response when it is not JSON
ReceiveOk(r) ==
    /\ pc[r] = "inflight"
    /\ \/ reply[r] = "ok" /\ Settle(r, "ok")
       \/ reply[r] = "garbled" /\ Settle(r, "invalid_response")
    /\ reply' = [reply EXCEPT ![r] = "none"]
    /\ UNCHANGED <<providerVars, loginVars, token, remaining, authRetry, timedOut,
                   sent, fetches, applied, rejected>>

\* 401 while authRetryAvailable: invalidate() and run again, once
RetryAfterUnauthorized(r) ==
    /\ pc[r] = "inflight" /\ reply[r] = "unauthorized" /\ authRetry[r]
    /\ EnterRun(r, Invalidated, remaining[r], FALSE)
    /\ reply' = [reply EXCEPT ![r] = "none"]
    /\ rejected' = [rejected EXCEPT ![r] = @ \cup {token[r]}]
    /\ UNCHANGED <<issued, minted, age, sent, fetches, applied>>

\* mutant: a 5xx is classified like the other statuses
FailureTakenForRefusal(r) ==
    /\ pc[r] = "inflight" /\ reply[r] \in {"busy", "refused"}
    /\ Settle(r, "refused")
    /\ reply' = [reply EXCEPT ![r] = "none"]
    /\ UNCHANGED <<providerVars, loginVars, token, remaining, authRetry, timedOut,
                   sent, fetches, applied, rejected>>

\* any other failure status: only rate_limited and server_error are tried again
ReceiveFailure(r) ==
    /\ pc[r] = "inflight"
    /\ \/ /\ reply[r] = "busy" /\ MayRetry(r)
          /\ pc' = [pc EXCEPT ![r] = "backoff"]
          /\ UNCHANGED <<outcome, rejected>>
       \/ /\ \/ reply[r] = "busy" /\ ~MayRetry(r)
             \/ reply[r] = "refused"
          /\ Settle(r, reply[r])
          /\ UNCHANGED rejected
       \/ /\ reply[r] = "unauthorized" /\ ~authRetry[r]
          /\ Settle(r, "unauthorized")
          /\ rejected' = [rejected EXCEPT ![r] = @ \cup {token[r]}]
    /\ reply' = [reply EXCEPT ![r] = "none"]
    /\ UNCHANGED <<providerVars, loginVars, token, remaining, authRetry, timedOut,
                   sent, fetches, applied>>

-----------------------------------------------------------------------------
(* login() and exchangeOAuthToken(): the answer, and everyone waiting.     *)

\* the exchange succeeds: cache the token, clear refreshPromise, resume the waiters
RefreshResolves ==
    \E t \in issued :
        /\ issued' = issued \ {t}
        /\ currentToken' = t
        /\ refresh' = "none"
        /\ pc' = [r \in Requests |-> IF pc[r] = "waiting" THEN "ready" ELSE pc[r]]
        /\ token' = [r \in Requests |-> IF pc[r] = "waiting" THEN t ELSE token[r]]
        /\ UNCHANGED <<asked, minted, age, remaining, authRetry, timedOut, outcome, wireVars>>

\* a refusal throws auth_refresh_failed; a failed fetch or an unreadable body reaches
\* run's catch as a network error, which is tried again
RefreshRejects ==
    /\ \/ asked > 0 /\ asked' = asked - 1 /\ UNCHANGED issued
       \/ \E t \in issued : issued' = issued \ {t} /\ UNCHANGED asked
    /\ refresh' = "none"
    /\ \E code \in {"auth_refresh_failed", "network_error"} :
        LET retries(r) == code = "network_error" /\ MayRetry(r)
        IN  /\ pc' = [r \in Requests |->
                        IF pc[r] # "waiting" THEN pc[r]
                        ELSE IF retries(r) THEN "backoff" ELSE "settled"]
            /\ outcome' = [r \in Requests |->
                        IF pc[r] = "waiting" /\ ~retries(r) THEN code ELSE outcome[r]]
    /\ UNCHANGED <<currentToken, minted, age, token, remaining, authRetry, timedOut, wireVars>>

-----------------------------------------------------------------------------
(* The upstream (outside src/): authorization server, API, network, time.  *)

MintToken ==
    /\ asked > 0 /\ minted < MaxTokens
    /\ asked' = asked - 1
    /\ minted' = minted + 1
    /\ issued' = issued \cup {minted + 1}
    /\ \E a \in Accepted : age' = [age EXCEPT ![minted + 1] = a]
    /\ UNCHANGED <<providerVars, callVars, wireVars>>

TokenAges ==
    /\ \E t \in Tokens :
        \/ age[t] = "fresh" /\ age' = [age EXCEPT ![t] = "expiring"]
        \/ age[t] = "expiring" /\ age' = [age EXCEPT ![t] = "expired"]
        \/ age[t] \in Accepted /\ age' = [age EXCEPT ![t] = "revoked"]
    /\ UNCHANGED <<providerVars, asked, issued, minted, callVars, wireVars>>

\* the response reaches the caller only if it still waits for this very attempt
Answer(m, status) ==
    reply' = IF pc[m.req] = "inflight" /\ fetches[m.req] = m.n
             THEN [reply EXCEPT ![m.req] = status]
             ELSE reply

\* a 401 or a refusal leaves no trace; a 5xx may come after the call took effect
Process(m) ==
    /\ sent' = sent \ {m}
    /\ \/ /\ age[m.token] \notin Accepted
          /\ Answer(m, "unauthorized") /\ UNCHANGED applied
       \/ /\ age[m.token] \in Accepted
          /\ \E status \in {"ok", "garbled", "busy"} : Answer(m, status)
          /\ applied' = [applied EXCEPT ![m.req] = @ + 1]
       \/ /\ age[m.token] \in Accepted
          /\ \E status \in {"busy", "refused"} : Answer(m, status)
          /\ UNCHANGED applied
    /\ UNCHANGED <<providerVars, loginVars, callVars, fetches, rejected>>

Lose(m) ==
    /\ sent' = sent \ {m}
    /\ UNCHANGED <<providerVars, loginVars, callVars, reply, fetches, applied, rejected>>

-----------------------------------------------------------------------------

Init ==
    /\ currentToken = IF HasToken THEN 0 ELSE NoToken
    /\ refresh = "none"
    /\ pc = [r \in Requests |-> "idle"]
    /\ token = [r \in Requests |-> NoToken]
    /\ remaining = [r \in Requests |-> RetryAttempts]
    /\ authRetry = [r \in Requests |-> CanRefresh]
    /\ timedOut = [r \in Requests |-> FALSE]
    /\ outcome = [r \in Requests |-> "none"]
    /\ asked = 0 /\ issued = {} /\ minted = 0
    /\ \E a \in Ages \ {"unminted"} :
        age = [t \in Tokens |-> IF t = 0 /\ HasToken THEN a ELSE "unminted"]
    /\ sent = {}
    /\ reply = [r \in Requests |-> "none"]
    /\ fetches = [r \in Requests |-> 0]
    /\ applied = [r \in Requests |-> 0]
    /\ rejected = [r \in Requests |-> {}]

ClientStep(r) ==
    \/ Start(r)
    \/ Send(r)
    \/ Wake(r)
    \/ Timeout(r)
    \/ ConnectionFails(r)
    \/ ReceiveOk(r)
    \/ RetryAfterUnauthorized(r)
    \/ ReceiveFailure(r)

UpstreamStep ==
    \/ MintToken
    \/ TokenAges
    \/ \E m \in sent : Process(m) \/ Lose(m)

Next ==
    \/ \E r \in Requests : ClientStep(r)
    \/ RefreshResolves
    \/ RefreshRejects
    \/ UpstreamStep

Spec == Init /\ [][Next]_vars

\* Node runs its promise jobs and timers, and a token exchange ends somehow
\* (undici gives up on it at last); the API upstream need never answer.
Fairness ==
    /\ \A r \in Requests : WF_vars(Send(r)) /\ WF_vars(Wake(r)) /\ WF_vars(Timeout(r))
    /\ WF_vars(RefreshResolves \/ RefreshRejects)

FairSpec == Spec /\ Fairness

-----------------------------------------------------------------------------
(* Properties.                                                             *)

\* refreshPromise makes concurrent calls share one refresh: never two token
\* exchanges under way, whatever invalidate() does meanwhile.
SingleFlight == asked + Cardinality(issued) <= 1

\* An exchange that ends late never puts an older token back over a newer one.
TokenNeverRegresses ==
    [][ currentToken' # currentToken =>
          \/ currentToken' = NoToken
          \/ currentToken' \in Nat /\ currentToken' = minted
      ]_vars

\* A call that can refresh reports unauthorized only after two different tokens
\* were refused: the one retry really goes out with another token.
UnauthorizedAfterTwoTokens ==
    \A r \in Requests :
        outcome[r] = "unauthorized" /\ CanRefresh => Cardinality(rejected[r]) >= 2

\* A call that is not idempotent takes effect upstream at most once, through
\* timeouts, lost answers and the retry after a 401.
AtMostOnce == \A r \in Requests \ Retryable : applied[r] <= 1

B(b) == IF b THEN 1 ELSE 0

\* The retries of transport failures and the one of a 401 do not multiply.
FetchBudget ==
    \A r \in Requests :
        fetches[r] <= 1 + B(CanRefresh) + (IF r \in Retryable THEN RetryAttempts ELSE 0)

\* What the caller is told is true: success means it happened; a refusal of a call
\* that is not idempotent means it did not.
HonestOutcome ==
    \A r \in Requests :
        /\ outcome[r] \in {"ok", "invalid_response"} => applied[r] >= 1
        /\ r \notin Retryable /\ outcome[r] \in {"unauthorized", "refused", "auth_refresh_failed"}
             => applied[r] = 0

\* What the code of a McpHubApiError says of the call
AnswerOf ==
    [none |-> "awaited", ok |-> "done", invalid_response |-> "done",
     unauthorized |-> "refused", refused |-> "refused", auth_refresh_failed |-> "refused",
     busy |-> "unknown", network_error |-> "unknown", request_timeout |-> "unknown"]

answer == [r \in Requests |-> IF pc[r] = "idle" THEN "none" ELSE AnswerOf[outcome[r]]]

Call == INSTANCE UpstreamCall WITH Repeatable <- Retryable, effects <- applied

\* The client implements UpstreamCall: each call is answered once and the answer stays
\* true - no message of a refused call is left on the wire to be processed later.
KeepsPromise == Call!Spec

\* Every call made settles, even if the API upstream never answers anything.
EveryCallSettles == \A r \in Requests : pc[r] # "idle" ~> pc[r] = "settled"
=============================================================================
