------------------------- MODULE HttpGatewayProofs -------------------------
(***************************************************************************)
(* What the gates, the authentication and the limiter add up to, for any   *)
(* requests, tokens, deployments and schedule, in both HTTP modes and all  *)
(* authentication modes.                                                   *)
(***************************************************************************)
EXTENDS HttpGateway, FiniteSetTheorems, TLAPS

(* The dispatch by itself, for any requests, messages and methods.         *)
(* DispatchInv ties a request's phase to its handler, to what its promise  *)
(* was settled with and to the audit log: a handler is started only past   *)
(* Begin, which records the request, and is still at work once its request *)
(* is settled only if the timer has run out.                               *)

\* AnswerTellsTheTruth, of one request
Truthful(q) ==
    /\ handler[q] = "running" => status[q] = 500
    /\ status[q] \in {200, 202, 404} => handler[q] # "running"
    /\ applied[q] > 0 => status[q] \in {200, 400, 500}
    /\ status[q] = 500 /\ q \in audited => settled[q] = "timeout"

RequestInv(q) ==
    /\ pc[q] = "idle" => q \notin audited
    /\ pc[q] \in {"connecting", "awaiting", "settled"} \/ handler[q] # "none" => q \in audited
    /\ pc[q] \in {"idle", "connecting"} => handler[q] = "none" /\ settled[q] = "none"
    /\ handler[q] = "none" => applied[q] = 0
    /\ applied[q] > 0 => message[q].method \in Known
    /\ settled[q] = "not_found" => message[q].method \notin Known
    /\ pending[q] <=> pc[q] = "awaiting"
    /\ pc[q] = "awaiting" => handler[q] = "running" /\ settled[q] = "none"
    /\ pc[q] = "settled" => settled[q] # "none"
    /\ handler[q] = "running" => settled[q] \in {"none", "timeout"}
    /\ pc[q] = "done" => Truthful(q)

DispatchInv == DispatchTypeOK /\ \A q \in Requests : RequestInv(q)

LEMMA InitDispatchInv == DispatchInit => DispatchInv
  BY DEF DispatchInit, DispatchInv, DispatchTypeOK, RequestInv

\* a request that a step leaves alone
LEMMA RequestFrame ==
    ASSUME NEW q \in Requests, RequestInv(q),
           pc'[q] = pc[q], message'[q] = message[q], pending'[q] = pending[q],
           settled'[q] = settled[q], handler'[q] = handler[q], status'[q] = status[q],
           applied'[q] = applied[q], q \in audited' <=> q \in audited
    PROVE  RequestInv(q)'
  BY DEF RequestInv, Truthful

\* the one place where the code relies on more than types: only a settled promise is
\* turned into a response
LEMMA StatusOfSettled ==
    ASSUME DispatchTypeOK, NEW q \in Requests, RequestInv(q), pc[q] = "settled"
    PROVE  /\ StatusOf(settled[q]) \in {200, 404, 400, 500}
           /\ StatusOf(settled[q]) = 500 <=> settled[q] = "timeout"
           /\ StatusOf(settled[q]) = 404 <=> settled[q] = "not_found"
  BY DEF DispatchTypeOK, RequestInv, StatusOf

-----------------------------------------------------------------------------
LEMMA StepDispatchInv == DispatchInv /\ [DispatchNext]_dispatchVars => DispatchInv'
<1> SUFFICES ASSUME DispatchInv, [DispatchNext]_dispatchVars PROVE DispatchInv'
  OBVIOUS
<1> USE DEF DispatchInv
<1>1. ASSUME NEW q \in Requests, Handle(q) PROVE DispatchInv'
  <2>1. DispatchTypeOK'
    BY <1>1 DEF DispatchTypeOK, Handle, Refuse, AuditFails, Discover, Begin, Respond
  <2>2. RequestInv(q)'
    BY <1>1 DEF DispatchTypeOK, RequestInv, Truthful, Handle, Refuse, AuditFails, Discover, Begin, Respond
  <2>3. \A p \in Requests \ {q} : RequestInv(p)'
    BY <1>1, RequestFrame DEF DispatchTypeOK, Handle, Refuse, AuditFails, Discover, Begin, Respond
  <2> QED BY <2>1, <2>2, <2>3
<1>2. ASSUME NEW q \in Requests, DispatchNotification(q) PROVE DispatchInv'
  <2>1. DispatchTypeOK'
    BY <1>2 DEF DispatchTypeOK, DispatchNotification, Respond
  <2>2. RequestInv(q)'
    BY <1>2 DEF DispatchTypeOK, RequestInv, Truthful, DispatchNotification, Respond
  <2>3. \A p \in Requests \ {q} : RequestInv(p)'
    BY <1>2, RequestFrame DEF DispatchTypeOK, DispatchNotification, Respond
  <2> QED BY <2>1, <2>2, <2>3
<1>3. ASSUME NEW q \in Requests, DispatchRequest(q) PROVE DispatchInv'
  <2>1. DispatchTypeOK'
    BY <1>3 DEF DispatchTypeOK, DispatchRequest
  <2>2. RequestInv(q)'
    BY <1>3 DEF DispatchTypeOK, RequestInv, DispatchRequest
  <2>3. \A p \in Requests \ {q} : RequestInv(p)'
    BY <1>3, RequestFrame DEF DispatchTypeOK, DispatchRequest
  <2> QED BY <2>1, <2>2, <2>3
<1>4. ASSUME NEW q \in Requests, CallUpstream(q) PROVE DispatchInv'
  <2>1. DispatchTypeOK'
    BY <1>4 DEF DispatchTypeOK, CallUpstream
  <2>2. RequestInv(q)'
    BY <1>4 DEF DispatchTypeOK, RequestInv, Truthful, CallUpstream
  <2>3. \A p \in Requests \ {q} : RequestInv(p)'
    BY <1>4, RequestFrame DEF DispatchTypeOK, CallUpstream
  <2> QED BY <2>1, <2>2, <2>3
<1>5. ASSUME NEW q \in Requests, Send(q) PROVE DispatchInv'
  <2>1. DispatchTypeOK'
    <3>1. /\ handler' \in [Requests -> {"none", "running", "finished"}]
          /\ UNCHANGED <<message, status, audited, applied>>
      BY <1>5 DEF DispatchTypeOK, Send
    <3>2. CASE \E a \in {"result", "error", "not_found"} : Settle(q, a)
      BY <3>1, <3>2 DEF DispatchTypeOK, Settle
    <3>3. CASE UNCHANGED <<pending, settled, pc>>
      BY <3>1, <3>3 DEF DispatchTypeOK
    <3> QED BY <1>5, <3>2, <3>3 DEF Send, Answers
  <2>2. RequestInv(q)'
    <3>1. CASE pending[q]
      <4>1. PICK a \in Answers(message[q]) : Settle(q, a)
        BY <1>5, <3>1 DEF Send
      <4>2. /\ a \in {"result", "error", "not_found"}
            /\ a = "not_found" => message[q].method \notin Known
        BY <4>1 DEF Answers
      <4>3. pc[q] = "awaiting" /\ handler[q] = "running" /\ q \in audited
        BY <3>1 DEF RequestInv
      <4>4. /\ pc'[q] = "settled" /\ settled'[q] = a /\ ~pending'[q]
            /\ handler'[q] = "finished"
        BY <1>5, <4>1 DEF DispatchTypeOK, Send, Settle
      <4>5. message' = message /\ status' = status /\ audited' = audited /\ applied' = applied
        BY <1>5 DEF Send
      <4> QED BY <4>2, <4>3, <4>4, <4>5 DEF RequestInv
    <3>2. CASE ~pending[q]
      <4>1. /\ handler[q] = "running" /\ handler'[q] = "finished"
            /\ pending' = pending /\ settled' = settled /\ pc' = pc
        BY <1>5, <3>2 DEF DispatchTypeOK, Send
      <4>2. message' = message /\ status' = status /\ audited' = audited /\ applied' = applied
        BY <1>5 DEF Send
      <4>3. pc[q] \notin {"idle", "connecting", "awaiting"}
        BY <3>2, <4>1 DEF RequestInv, DispatchTypeOK
      <4>4. handler'[q] # "running" /\ handler'[q] # "none" /\ q \in audited
        BY <4>1 DEF RequestInv
      <4>5. pc[q] = "done" => Truthful(q)'
        BY <4>1, <4>2, <4>4 DEF RequestInv, Truthful
      <4>6. pc[q] # "awaiting" /\ (pc[q] = "settled" => settled[q] # "none")
        BY <4>3 DEF RequestInv
      <4> QED BY <3>2, <4>1, <4>2, <4>3, <4>4, <4>5 DEF RequestInv
    <3> QED BY <3>1, <3>2
  <2>3. \A p \in Requests \ {q} : RequestInv(p)'
    BY <1>5, RequestFrame DEF DispatchTypeOK, Send, Settle
  <2> QED BY <2>1, <2>2, <2>3
<1>6. ASSUME NEW q \in Requests, Timeout(q) PROVE DispatchInv'
  <2>1. DispatchTypeOK'
    BY <1>6 DEF DispatchTypeOK, Timeout, Settle
  <2>2. RequestInv(q)'
    BY <1>6 DEF DispatchTypeOK, RequestInv, Timeout, Settle
  <2>3. \A p \in Requests \ {q} : RequestInv(p)'
    BY <1>6, RequestFrame DEF DispatchTypeOK, Timeout, Settle
  <2> QED BY <2>1, <2>2, <2>3
<1>7. ASSUME NEW q \in Requests, Complete(q) PROVE DispatchInv'
  <2>0. /\ StatusOf(settled[q]) \in {200, 404, 400, 500}
        /\ StatusOf(settled[q]) = 500 <=> settled[q] = "timeout"
        /\ StatusOf(settled[q]) = 404 <=> settled[q] = "not_found"
    BY <1>7, StatusOfSettled DEF Complete
  <2>1. DispatchTypeOK'
    BY <1>7, <2>0 DEF DispatchTypeOK, Complete, Respond
  <2>2. RequestInv(q)'
    BY <1>7, <2>0 DEF DispatchTypeOK, RequestInv, Truthful, Complete, Respond
  <2>3. \A p \in Requests \ {q} : RequestInv(p)'
    BY <1>7, RequestFrame DEF DispatchTypeOK, Complete, Respond
  <2> QED BY <2>1, <2>2, <2>3
<1>8. ASSUME UNCHANGED dispatchVars PROVE DispatchInv'
  BY <1>8 DEF DispatchTypeOK, dispatchVars, RequestInv, Truthful
<1> QED BY <1>1, <1>2, <1>3, <1>4, <1>5, <1>6, <1>7, <1>8 DEF DispatchNext, DispatchStep

LEMMA DispatchInvariant == DispatchSpec => []DispatchInv
  BY InitDispatchInv, StepDispatchInv, PTL DEF DispatchSpec

\* For any requests and any schedule of handlers and timers, nothing is done upstream
\* for a request that has no line in the audit log.
THEOREM AuditBeforeEffectHolds == DispatchSpec => []AuditBeforeEffect
<1>1. DispatchInv => AuditBeforeEffect
  BY DEF DispatchInv, RequestInv, AuditBeforeEffect
<1> QED BY <1>1, DispatchInvariant, PTL

\* What a response says of the handler's work is true: only a 500 leaves it open.
THEOREM AnswerTellsTheTruthHolds == DispatchSpec => []AnswerTellsTheTruth
<1>1. DispatchInv => AnswerTellsTheTruth
  BY DEF DispatchInv, RequestInv, Truthful, AnswerTellsTheTruth
<1> QED BY <1>1, DispatchInvariant, PTL

-----------------------------------------------------------------------------
(* The server.                                                             *)

Waiting(q) == stage[q] \in {"new", "introspecting", "session"}

Mechanisms == {"static", "oauth", "better-auth"}

\* a mechanism that the configured mode takes
InMode(mechanism) == config.authMode = "hybrid" \/ mechanism = config.authMode

\* an await of authentication is reached through the gates, in a mode that has it
AwaitInv ==
    \A q \in Requests :
        /\ Waiting(q) => auth[q] = NoAuth /\ status[q] = 0
        /\ stage[q] = "introspecting" => Gate(input[q]) = 0 /\ InMode("oauth")
        /\ stage[q] = "session" => Gate(input[q]) = 0 /\ InMode("better-auth")

\* what a request went through to get past the limiter
Admitted(q) ==
    /\ Gate(input[q]) = 0
    /\ auth[q].rank >= Required(q) /\ InMode(auth[q].mechanism)

Reached(q) == PastLimiter(q) \/ pc[q] # "idle" \/ handler[q] # "none" \/ applied[q] > 0

Working(q) ==
    pc[q] \in {"connecting", "awaiting", "settled"} \/ handler[q] # "none" \/ applied[q] > 0

PassInv ==
    \A q \in Requests :
        /\ Reached(q) => ~Waiting(q) /\ Admitted(q)
        /\ Working(q) => q \in audited
        /\ pending[q] => pc[q] = "awaiting"
        /\ pc[q] = "settled" => settled[q] # "none"

\* the requests that are in a bucket, or were
Counted(k) ==
    {q \in Requests : /\ auth[q].mechanism # None /\ status[q] # 429
                      /\ RateLimitKey(q, auth[q].mechanism) = k}

CountInv ==
    /\ \A q \in Requests : status[q] = 429 => stage[q] = "closed"
    /\ \A k \in Keys : IsFiniteSet(Counted(k)) /\ Len(granted[k]) = Cardinality(Counted(k))

TypeInv == TypeOK /\ DispatchTypeOK /\ now \in Int /\ granted \in [Keys -> Seq(Int)]

IInv == TypeInv /\ AwaitInv /\ PassInv /\ CountInv

-----------------------------------------------------------------------------
(* How a request leaves authentication, or goes on in it.                  *)

\* on to the next await
Asks(q, where) ==
    /\ Goto(q, where) /\ UNCHANGED <<auth, limiterVars>>
    /\ \/ where = "introspecting" /\ InMode("oauth")
       \/ where = "session" /\ InMode("better-auth")

\* answered
TurnedAway(q) ==
    /\ \E code \in {200, 204, 401, 403, 404, 405, 500} : Close(q, code)
    /\ UNCHANGED <<auth, limiterVars>>

\* to the limiter
Vouched(q) ==
    \E mechanism \in Mechanisms, rank \in Ranks :
        /\ Admit(q, mechanism, rank)
        /\ rank >= Required(q) /\ InMode(mechanism)

Leaves(q) ==
    /\ Waiting(q)
    /\ \/ Gate(input[q]) = 0 /\ \E where \in {"introspecting", "session"} : Asks(q, where)
       \/ TurnedAway(q)
       \/ Gate(input[q]) = 0 /\ Vouched(q)

LEMMA ModesKnown ==
    config \in Configs => config.authMode \in {"static", "oauth", "better-auth", "hybrid"}
BY ModesAssumption

\* With or without a cookie.
LEMMA SessionLeaves ==
    ASSUME NEW q \in Requests, InMode("better-auth"), AskSession(q)
    PROVE  (\E where \in {"introspecting", "session"} : Asks(q, where)) \/ TurnedAway(q)
BY DEF AskSession, Asks, TurnedAway, Unauthorized

\* With or without a token to ask about.
LEMMA IntrospectionLeaves ==
    ASSUME NEW q \in Requests, InMode("oauth"), AskIntrospection(q)
    PROVE  (\E where \in {"introspecting", "session"} : Asks(q, where)) \/ TurnedAway(q)
<1>1. CASE Goto(q, "introspecting") /\ UNCHANGED <<auth, limiterVars>>
  BY <1>1 DEF Asks
<1>2. CASE NextAfterOAuth(q)
  <2>1. CASE config.authMode = "hybrid"
    BY <1>2, <2>1, SessionLeaves DEF NextAfterOAuth, InMode
  <2>2. CASE config.authMode # "hybrid"
    BY <1>2, <2>2 DEF NextAfterOAuth, Unauthorized, TurnedAway
  <2> QED BY <2>1, <2>2
<1> QED BY <1>1, <1>2 DEF AskIntrospection

\* The four modes, from the arrival of a request.
LEMMA ArriveLeaves ==
    ASSUME TypeOK, NEW q \in Requests, Arrive(q) PROVE Leaves(q)
<1>1. Waiting(q) BY DEF Arrive, Waiting
<1>2. CASE Gate(input[q]) # 0
  <2>1. Close(q, Gate(input[q])) /\ UNCHANGED <<auth, limiterVars>>
    BY <1>2 DEF Arrive
  <2>2. Gate(input[q]) \in {200, 204, 403, 404, 405}
    BY <1>2 DEF Gate
  <2> QED BY <1>1, <2>1, <2>2 DEF Leaves, TurnedAway
<1>3. CASE Gate(input[q]) = 0
  <2>1. Authenticate(q) BY <1>3 DEF Arrive
  <2>2. CASE config.authMode = "better-auth"
    <3>1. AskSession(q) BY <2>1, <2>2 DEF Authenticate
    <3> QED BY <1>1, <1>3, <2>2, <3>1, SessionLeaves DEF Leaves, InMode
  <2>3. CASE config.authMode = "oauth"
    <3>1. AskIntrospection(q) BY <2>1, <2>3 DEF Authenticate
    <3> QED BY <1>1, <1>3, <2>3, <3>1, IntrospectionLeaves DEF Leaves, InMode
  <2>4. CASE config.authMode \in {"static", "hybrid"}
    <3>1. \/ StaticVouches(q) /\ Admit(q, "static", StaticRank[input[q].bearer])
          \/ config.authMode = "hybrid" /\ AskIntrospection(q)
          \/ Unauthorized(q)
      BY <2>1, <2>4 DEF Authenticate
    <3>2. CASE StaticVouches(q) /\ Admit(q, "static", StaticRank[input[q].bearer])
      <4>1. StaticRank[input[q].bearer] \in Ranks /\ StaticRank[input[q].bearer] >= Required(q)
        BY <3>2, ModesAssumption DEF StaticVouches
      <4>2. Vouched(q)
        BY <2>4, <3>2, <4>1 DEF Vouched, Mechanisms, InMode
      <4> QED BY <1>1, <1>3, <4>2 DEF Leaves
    <3>3. CASE config.authMode = "hybrid" /\ AskIntrospection(q)
      BY <1>1, <1>3, <3>3, IntrospectionLeaves DEF Leaves, InMode
    <3>4. CASE Unauthorized(q)
      BY <1>1, <3>4 DEF Leaves, TurnedAway, Unauthorized
    <3> QED BY <3>1, <3>2, <3>3, <3>4
  <2>5. config \in Configs BY DEF TypeOK
  <2> QED BY <2>2, <2>3, <2>4, <2>5, ModesKnown
<1> QED BY <1>2, <1>3

\* The two awaits.
LEMMA AnswerLeaves ==
    ASSUME AwaitInv, NEW q \in Requests, Introspected(q) \/ SessionChecked(q) PROVE Leaves(q)
<1>1. CASE Introspected(q)
  <2>1. Waiting(q) /\ Gate(input[q]) = 0 /\ InMode("oauth")
    BY <1>1 DEF Introspected, AwaitInv, Waiting
  <2>2. CASE \E rank \in Ranks : rank >= Required(q) /\ Admit(q, "oauth", rank)
    BY <2>1, <2>2 DEF Leaves, Vouched, Mechanisms
  <2>3. CASE NextAfterOAuth(q)
    <3>1. CASE config.authMode = "hybrid"
      <4>1. AskSession(q) /\ InMode("better-auth") BY <2>3, <3>1 DEF NextAfterOAuth, InMode
      <4> QED BY <2>1, <4>1, SessionLeaves DEF Leaves
    <3>2. CASE config.authMode # "hybrid"
      BY <2>1, <2>3, <3>2 DEF NextAfterOAuth, Unauthorized, TurnedAway, Leaves
    <3> QED BY <3>1, <3>2
  <2>4. CASE Close(q, 500) /\ UNCHANGED <<auth, limiterVars>>
    BY <2>1, <2>4 DEF Leaves, TurnedAway
  <2> QED BY <1>1, <2>2, <2>3, <2>4 DEF Introspected
<1>2. CASE SessionChecked(q)
  <2>1. Waiting(q) /\ Gate(input[q]) = 0 /\ InMode("better-auth")
    BY <1>2 DEF SessionChecked, AwaitInv, Waiting
  <2>2. CASE BetterAuthRank >= Required(q) /\ Admit(q, "better-auth", BetterAuthRank)
    BY <2>1, <2>2, ModesAssumption DEF Leaves, Vouched, Mechanisms
  <2>3. CASE Unauthorized(q)
    BY <2>1, <2>3 DEF Leaves, TurnedAway, Unauthorized
  <2>4. CASE Close(q, 500) /\ UNCHANGED <<auth, limiterVars>>
    BY <2>1, <2>4 DEF Leaves, TurnedAway
  <2> QED BY <1>2, <2>2, <2>3, <2>4 DEF SessionChecked
<1> QED BY <1>1, <1>2

-----------------------------------------------------------------------------
(* Types.                                                                  *)

\* A request that passed the gates has a key of the limiter.
LEMMA KeyKnown ==
    ASSUME TypeOK, NEW q \in Requests, Gate(input[q]) = 0, NEW mechanism \in Mechanisms
    PROVE  RateLimitKey(q, mechanism) \in Keys
<1>1. input[q].path \in ProfilePaths
  BY DEF Gate
<1>2. input[q] \in Sent
  BY DEF TypeOK
<1>3. /\ input[q].bearer \in {i.bearer : i \in Sent} \cup {i.cookie : i \in Sent}
      /\ input[q].cookie \in {i.bearer : i \in Sent} \cup {i.cookie : i \in Sent}
  BY <1>2
<1> QED BY <1>1, <1>3 DEF RateLimitKey, Keys, Mechanisms

\* Initial values are of their types.
LEMMA InitType == Init => TypeInv
<1> SUFFICES ASSUME Init PROVE TypeInv OBVIOUS
<1>1. input \in [Requests -> Sent] /\ message = [q \in Requests |-> input[q].msg]
  BY DEF Init
<1>2. \A i \in Sent : i.msg \in Messages
  BY InputsAssumption DEF Sent, Input
<1>3. message \in [Requests -> Messages]
  BY <1>1, <1>2
<1>4. /\ pc = [q \in Requests |-> "idle"] /\ pending = [q \in Requests |-> FALSE]
      /\ settled = [q \in Requests |-> "none"] /\ handler = [q \in Requests |-> "none"]
      /\ status = [q \in Requests |-> 0] /\ audited = {} /\ applied = [q \in Requests |-> 0]
  BY DEF Init, DispatchInit
<1>5. DispatchTypeOK
  BY <1>3, <1>4 DEF DispatchTypeOK
<1>6. TypeOK
  BY <1>1 DEF Init, TypeOK, NoAuth
<1>7. now = 0 /\ granted = [k \in Keys |-> <<>>]
  BY DEF Init, Limiter!Init
<1>8. now \in Int /\ granted \in [Keys -> Seq(Int)]
  BY <1>7
<1> QED BY <1>5, <1>6, <1>8 DEF TypeInv

\* Leaving authentication.
LEMMA LeavesType ==
    ASSUME TypeInv, up' \in BOOLEAN, NEW q \in Requests, Leaves(q) PROVE TypeInv'
<1> USE DEF TypeInv, TypeOK, DispatchTypeOK
<1>1. ASSUME NEW where \in {"introspecting", "session"}, Asks(q, where) PROVE TypeInv'
  BY <1>1 DEF Asks, Goto, dispatchVars, limiterVars
<1>2. CASE TurnedAway(q)
  BY <1>2 DEF TurnedAway, Close, limiterVars
<1>3. ASSUME Gate(input[q]) = 0, NEW mechanism \in Mechanisms, NEW rank \in Ranks,
             Admit(q, mechanism, rank)
      PROVE  TypeInv'
  <2> DEFINE k == RateLimitKey(q, mechanism)
  <2>1. k \in Keys BY <1>3, KeyKnown
  <2>2. auth' \in [Requests -> [mechanism : {None, "static", "oauth", "better-auth"},
                                rank : Ranks \cup {-1}]]
    BY <1>3 DEF Admit, Mechanisms
  <2>3. CASE Limiter!Grant(k) /\ Goto(q, "body")
    <3>1. granted' \in [Keys -> Seq(Int)] /\ now' \in Int
      BY <2>1, <2>3 DEF Limiter!Grant
    <3> QED BY <2>2, <2>3, <3>1 DEF Goto, dispatchVars
  <2>4. CASE Close(q, 429) /\ UNCHANGED limiterVars
    BY <2>2, <2>4 DEF Close, limiterVars
  <2> QED BY <1>3, <2>3, <2>4 DEF Admit
<1> QED BY <1>1, <1>2, <1>3 DEF Leaves, Vouched

\* The actions past the limiter, and the clock.
LEMMA PastType ==
    ASSUME TypeInv, up' \in BOOLEAN, PassInv, NEW q \in Requests,
           BodyFails(q) \/ HandOver(q) \/ OpenStream(q) \/ StreamCalls(q) \/ EndStream(q)
    PROVE  TypeInv'
<1> USE DEF TypeInv, TypeOK, DispatchTypeOK
<1>1. CASE BodyFails(q)
  BY <1>1 DEF BodyFails, Close, limiterVars
<1>2. CASE HandOver(q)
  <2>1. /\ UNCHANGED <<config, input, auth, now, granted>>
        /\ UNCHANGED <<message, pending, settled, handler, applied>>
        /\ stage' = [stage EXCEPT ![q] = "dispatched"]
    BY <1>2 DEF HandOver, limiterVars, Handle
  <2>2. /\ audited' \subseteq audited \cup {q}
        /\ \/ \E code \in {200, 400, 500} : Respond(q, code)
           \/ pc' = [pc EXCEPT ![q] = "connecting"] /\ UNCHANGED status
    BY <1>2 DEF HandOver, Handle, Refuse, AuditFails,
                Discover, Begin
  <2>3. pc' \in [Requests -> {"idle", "connecting", "awaiting", "settled", "done"}]
        /\ status' \in [Requests -> Nat]
    <3>1. CASE pc' = [pc EXCEPT ![q] = "connecting"] /\ UNCHANGED status
      BY <3>1
    <3>2. ASSUME NEW code \in {200, 400, 500}, Respond(q, code)
          PROVE  /\ pc' \in [Requests -> {"idle", "connecting", "awaiting", "settled", "done"}]
                 /\ status' \in [Requests -> Nat]
      BY <3>2 DEF Respond
    <3> QED BY <2>2, <3>1, <3>2
  <2> QED BY <2>1, <2>2, <2>3
<1>3. CASE OpenStream(q)
  <2>1. CASE audited' = audited \cup {q} /\ StartStream(q)
    <3>1. /\ UNCHANGED <<config, input, auth, now, granted>>
          /\ UNCHANGED <<pc, message, pending, settled, status, applied>>
          /\ stage' = [stage EXCEPT ![q] = "streaming"]
          /\ \E h \in {"none", "running"} : handler' = [handler EXCEPT ![q] = h]
      BY <2>1 DEF StartStream, limiterVars
    <3>2. ASSUME NEW h \in {"none", "running"}, handler' = [handler EXCEPT ![q] = h]
          PROVE  handler' \in [Requests -> {"none", "running", "finished"}]
      BY <3>2
    <3> QED BY <2>1, <3>1, <3>2
  <2>2. CASE Close(q, 500) /\ UNCHANGED <<auth, limiterVars>>
    BY <2>2 DEF Close, limiterVars
  <2> QED BY <1>3, <2>1, <2>2 DEF OpenStream
<1>4. CASE StreamCalls(q)
  BY <1>4 DEF StreamCalls, limiterVars
<1>5. CASE EndStream(q)
  BY <1>5 DEF EndStream, Close, limiterVars
<1> QED BY <1>1, <1>2, <1>3, <1>4, <1>5

LEMMA DispatchType ==
    ASSUME TypeInv, up' \in BOOLEAN, PassInv, NEW q \in Requests, Dispatch(q) PROVE TypeInv'
<1> USE DEF TypeInv, TypeOK, DispatchTypeOK
<1>1. UNCHANGED <<config, input, stage, auth, now, granted>>
  BY DEF Dispatch, Dispatched, limiterVars
<1>2. CASE DispatchNotification(q)
  BY <1>1, <1>2 DEF DispatchNotification, Respond
<1>3. CASE DispatchRequest(q)
  BY <1>1, <1>3 DEF DispatchRequest
<1>4. CASE CallUpstream(q)
  BY <1>1, <1>4 DEF CallUpstream
<1>5. CASE Send(q)
  <2>1. UNCHANGED <<message, status, audited, applied>> /\ handler' = [handler EXCEPT ![q] = "finished"]
    BY <1>5 DEF Send
  <2>2. CASE UNCHANGED <<pending, settled, pc>>
    BY <1>1, <2>1, <2>2
  <2>3. ASSUME NEW a \in {"result", "not_found", "error"}, Settle(q, a) PROVE TypeInv'
    BY <1>1, <2>1, <2>3 DEF Settle
  <2> QED BY <1>5, <2>2, <2>3 DEF Send, Answers
<1>6. CASE Timeout(q)
  BY <1>1, <1>6 DEF Timeout, Settle
<1>7. CASE Complete(q)
  <2>1. settled[q] \in {"result", "not_found", "error", "timeout"}
    BY <1>7 DEF Complete, PassInv
  <2>2. StatusOf(settled[q]) \in Nat
    BY <2>1 DEF StatusOf
  <2> QED BY <1>1, <1>7, <2>2 DEF Complete, Respond
<1> QED BY <1>2, <1>3, <1>4, <1>5, <1>6, <1>7 DEF Dispatch, DispatchStep

-----------------------------------------------------------------------------
(* What a step past the limiter leaves alone.                              *)

\* Settings and inputs say the same as long as they stay.
LEMMA SameSettings ==
    ASSUME UNCHANGED <<config, input>>, NEW q \in Requests
    PROVE  /\ Gate(input[q])' = Gate(input[q])
           /\ Required(q)' = Required(q)
           /\ \A mechanism : InMode(mechanism)' = InMode(mechanism)
           /\ \A mechanism : RateLimitKey(q, mechanism)' = RateLimitKey(q, mechanism)
BY DEF Gate, Required, InMode, RateLimitKey

LEMMA SameKeys == Keys' = Keys
BY DEF Keys, Sent

\* A step of a request past the limiter: it does not come back to authentication, and
\* what is at work is recorded; of the other requests nothing changes.
PastStep(q) ==
    /\ Reached(q)
    /\ UNCHANGED <<config, input, auth, buckets, now, granted>>
    /\ \A r \in Requests \ {q} :
        /\ stage'[r] = stage[r] /\ status'[r] = status[r] /\ pc'[r] = pc[r]
        /\ pending'[r] = pending[r] /\ settled'[r] = settled[r]
        /\ handler'[r] = handler[r] /\ applied'[r] = applied[r]
    /\ audited \subseteq audited'
    /\ stage'[q] \notin {"new", "introspecting", "session"}
    /\ status'[q] = status[q] \/ status'[q] \in {200, 202, 400, 404, 500}
    /\ stage[q] = "closed" => stage'[q] = "closed" /\ status'[q] = status[q]
    /\ Working(q)' => q \in audited'
    /\ pending'[q] => pc'[q] = "awaiting"
    /\ pc'[q] = "settled" => settled'[q] # "none"

\* The body and the stateful mode.
LEMMA PastIsPast ==
    ASSUME TypeInv, PassInv, NEW q \in Requests,
           BodyFails(q) \/ OpenStream(q) \/ StreamCalls(q) \/ EndStream(q)
    PROVE  PastStep(q)
<1> USE DEF TypeInv, TypeOK, DispatchTypeOK, limiterVars
<1>1. /\ Working(q) => q \in audited
      /\ pending[q] => pc[q] = "awaiting"
      /\ pc[q] = "settled" => settled[q] # "none"
      /\ Reached(q) => ~Waiting(q)
  BY DEF PassInv
<1>2. ASSUME NEW code \in {200, 500}, Close(q, code), UNCHANGED <<auth, limiterVars>>,
             stage[q] \in {"body", "streaming"}
      PROVE  PastStep(q)
  BY <1>1, <1>2 DEF Close, PastStep, Working, Reached, PastLimiter
<1>3. CASE BodyFails(q)
  BY <1>2, <1>3 DEF BodyFails
<1>4. CASE OpenStream(q)
  <2>1. stage[q] = "body" BY <1>4 DEF OpenStream, BodyRead
  <2>2. ASSUME audited' = audited \cup {q}, StartStream(q) PROVE PastStep(q)
    BY <1>1, <2>1, <2>2 DEF StartStream, PastStep, Working, Reached, PastLimiter
  <2> QED BY <1>2, <1>4, <2>1, <2>2 DEF OpenStream
<1>5. CASE StreamCalls(q)
  <2>1. Working(q) /\ Reached(q)
    BY <1>5 DEF StreamCalls, Working, Reached
  <2> QED BY <1>1, <1>5, <2>1 DEF StreamCalls, PastStep, Working, Waiting
<1>6. CASE EndStream(q)
  BY <1>2, <1>6 DEF EndStream
<1> QED BY <1>3, <1>4, <1>5, <1>6

\* The stateless mode.
LEMMA HandOverIsPast ==
    ASSUME TypeInv, PassInv, NEW q \in Requests, HandOver(q) PROVE PastStep(q)
<1> USE DEF TypeInv, TypeOK, DispatchTypeOK, limiterVars
<1>1. (Working(q) => q \in audited) /\ stage[q] = "body" /\ pc[q] = "idle" /\ ~pending[q]
  BY DEF PassInv, HandOver, BodyRead, Handle
<1>2. /\ UNCHANGED <<config, input, auth, buckets, now, granted>>
      /\ UNCHANGED <<message, pending, settled, handler, applied>>
      /\ stage' = [stage EXCEPT ![q] = "dispatched"]
  BY DEF HandOver, Handle
<1>3. /\ \/ audited' = audited \cup {q}
         \/ audited' = audited /\ \E code \in {400, 500} : Respond(q, code)
      /\ \/ \E code \in {200, 400, 500} : Respond(q, code)
         \/ pc' = [pc EXCEPT ![q] = "connecting"] /\ UNCHANGED status
  BY DEF HandOver, Handle, Refuse, AuditFails,
         Discover, Begin
<1>4. Reached(q) BY <1>1 DEF Reached, PastLimiter
<1>5. ASSUME NEW code \in {200, 400, 500}, Respond(q, code), audited \subseteq audited'
      PROVE  PastStep(q)
  BY <1>1, <1>2, <1>4, <1>5 DEF PastStep, Respond, Working
<1>6. ASSUME pc' = [pc EXCEPT ![q] = "connecting"], UNCHANGED status, audited' = audited \cup {q}
      PROVE  PastStep(q)
  BY <1>1, <1>2, <1>4, <1>6 DEF PastStep, Working
<1>7. CASE audited' = audited \cup {q}
  BY <1>3, <1>5, <1>6, <1>7
<1>8. CASE audited' = audited /\ \E code \in {400, 500} : Respond(q, code)
  BY <1>5, <1>8
<1> QED BY <1>3, <1>7, <1>8

LEMMA DispatchIsPast ==
    ASSUME TypeInv, PassInv, NEW q \in Requests, Dispatch(q) PROVE PastStep(q)
<1> USE DEF TypeInv, TypeOK, DispatchTypeOK, limiterVars
<1>1. /\ Working(q) => q \in audited
      /\ pending[q] => pc[q] = "awaiting"
      /\ pc[q] = "settled" => settled[q] # "none"
  BY DEF PassInv
<1>2. UNCHANGED <<config, input, stage, auth, buckets, now, granted>> /\ stage[q] = "dispatched"
  BY DEF Dispatch, Dispatched
<1>3. Reached(q) BY <1>2 DEF Reached, PastLimiter
<1>4. CASE DispatchNotification(q)
  BY <1>1, <1>2, <1>3, <1>4 DEF DispatchNotification, Respond, PastStep, Working
<1>5. CASE DispatchRequest(q)
  BY <1>1, <1>2, <1>3, <1>5 DEF DispatchRequest, PastStep, Working
<1>6. CASE CallUpstream(q)
  BY <1>1, <1>2, <1>3, <1>6 DEF CallUpstream, PastStep, Working
<1>7. CASE Send(q)
  <2>1. /\ UNCHANGED <<message, status, audited, applied>> /\ handler[q] = "running"
        /\ handler' = [handler EXCEPT ![q] = "finished"]
    BY <1>7 DEF Send
  <2>2. q \in audited BY <1>1, <2>1 DEF Working
  <2>3. CASE UNCHANGED <<pending, settled, pc>>
    BY <1>1, <1>2, <1>3, <2>1, <2>2, <2>3 DEF PastStep, Working
  <2>4. ASSUME NEW a \in {"result", "not_found", "error"}, Settle(q, a) PROVE PastStep(q)
    BY <1>1, <1>2, <1>3, <2>1, <2>2, <2>4 DEF Settle, PastStep, Working
  <2> QED BY <1>7, <2>3, <2>4 DEF Send, Answers
<1>8. CASE Timeout(q)
  <2>1. q \in audited BY <1>1, <1>8 DEF Timeout, Working
  <2> QED BY <1>1, <1>2, <1>3, <1>8, <2>1 DEF Timeout, Settle, PastStep, Working
<1>9. CASE Complete(q)
  <2>1. settled[q] \in {"result", "not_found", "error", "timeout"}
    BY <1>1, <1>9 DEF Complete
  <2>2. StatusOf(settled[q]) \in {200, 400, 404, 500}
    BY <2>1 DEF StatusOf
  <2> QED BY <1>1, <1>2, <1>3, <1>9, <2>2 DEF Complete, Respond, PastStep, Working
<1> QED BY <1>4, <1>5, <1>6, <1>7, <1>8, <1>9 DEF Dispatch, DispatchStep

-----------------------------------------------------------------------------
(* The invariant.                                                          *)

\* No request has been looked at in the beginning.
LEMMA InitIInv == Init => IInv
<1> SUFFICES ASSUME Init PROVE IInv OBVIOUS
<1>1. TypeInv BY InitType
<1>2. /\ stage = [q \in Requests |-> "new"] /\ auth = [q \in Requests |-> NoAuth]
      /\ pc = [q \in Requests |-> "idle"] /\ pending = [q \in Requests |-> FALSE]
      /\ handler = [q \in Requests |-> "none"] /\ status = [q \in Requests |-> 0]
      /\ applied = [q \in Requests |-> 0] /\ granted = [k \in Keys |-> <<>>]
  BY DEF Init, DispatchInit, Limiter!Init
<1>3. AwaitInv BY <1>2 DEF AwaitInv
<1>4. PassInv
  <2>1. ASSUME NEW q \in Requests
        PROVE  ~Reached(q) /\ ~Working(q) /\ ~pending[q] /\ pc[q] # "settled"
    BY <1>2 DEF Reached, PastLimiter, Working
  <2> QED BY <2>1 DEF PassInv
<1>5. \A k \in Keys : Counted(k) = {} /\ granted[k] = <<>>
  BY <1>2 DEF Counted, NoAuth
<1>6. CountInv
  <2>1. \A q \in Requests : status[q] # 429 BY <1>2
  <2>2. IsFiniteSet({}) /\ Cardinality({}) = 0 /\ Len(<<>>) = 0 BY FS_EmptySet
  <2>3. ASSUME NEW k \in Keys
        PROVE  IsFiniteSet(Counted(k)) /\ Len(granted[k]) = Cardinality(Counted(k))
    BY <1>5, <2>2, Zenon
  <2> QED BY <2>1, <2>3 DEF CountInv
<1> QED BY <1>1, <1>3, <1>4, <1>6 DEF IInv

\* A step past the limiter is by a request that was admitted, and counts nobody.
LEMMA PastKeeps ==
    ASSUME IInv, NEW q \in Requests, PastStep(q) PROVE AwaitInv' /\ PassInv' /\ CountInv'
<1> USE DEF IInv
<1>1. UNCHANGED <<config, input, auth, granted>> BY DEF PastStep
<1>2. Admitted(q) BY DEF PastStep, PassInv
<1>3. ASSUME NEW r \in Requests PROVE (Admitted(r) => Admitted(r)')
  BY <1>1, SameSettings DEF Admitted, InMode
<1>4. AwaitInv'
  BY <1>1, SameSettings DEF AwaitInv, PastStep, Waiting, InMode
<1>5. PassInv'
  <2>1. ASSUME NEW r \in Requests, r # q
        PROVE  /\ Reached(r)' => ~Waiting(r)' /\ Admitted(r)'
               /\ Working(r)' => r \in audited'
               /\ pending'[r] => pc'[r] = "awaiting"
               /\ pc'[r] = "settled" => settled'[r] # "none"
    <3>1. /\ Reached(r)' = Reached(r) /\ Waiting(r)' = Waiting(r) /\ Working(r)' = Working(r)
          /\ pending'[r] = pending[r] /\ pc'[r] = pc[r] /\ settled'[r] = settled[r]
          /\ audited \subseteq audited'
      BY <2>1 DEF PastStep, Reached, PastLimiter, Waiting, Working
    <3> QED BY <1>3, <3>1 DEF PassInv
  <2>2. /\ ~Waiting(q)' /\ Admitted(q)'
        /\ Working(q)' => q \in audited'
        /\ pending'[q] => pc'[q] = "awaiting"
        /\ pc'[q] = "settled" => settled'[q] # "none"
    BY <1>2, <1>3 DEF PastStep, Waiting
  <2> QED BY <2>1, <2>2 DEF PassInv
<1>6. CountInv'
  <2>1. \A r \in Requests : status'[r] = 429 <=> status[r] = 429
    BY DEF PastStep, CountInv
  <2>2. \A k : Counted(k)' = Counted(k)
    BY <1>1, <2>1, SameSettings DEF Counted
  <2>3. \A r \in Requests : status'[r] = 429 => stage'[r] = "closed"
    BY <2>1 DEF PastStep, CountInv
  <2> QED BY <1>1, <2>2, <2>3, SameKeys DEF CountInv
<1> QED BY <1>4, <1>5, <1>6

\* Of a request that leaves authentication, or goes on in it, nothing was at work before.
LEMMA LeavesKeeps ==
    ASSUME IInv, up' \in BOOLEAN, NEW q \in Requests, Leaves(q)
    PROVE  AwaitInv' /\ PassInv' /\ CountInv'
<1> USE DEF IInv
<1>1. /\ Waiting(q) /\ ~Reached(q) /\ auth[q] = NoAuth /\ status[q] = 0
      /\ ~pending[q] /\ pc[q] = "idle"
  BY DEF Leaves, PassInv, AwaitInv, Reached
<1>2. TypeInv' BY LeavesType
<1> DEFINE Others == \A r \in Requests \ {q} : stage'[r] = stage[r] /\ status'[r] = status[r]
                                              /\ auth'[r] = auth[r]
           AtWork == UNCHANGED <<pc, pending, settled, handler, applied, audited>>
\* the parts about other requests
<1>3. ASSUME UNCHANGED <<config, input>>, Others, AtWork, stage'[q] # "new",
             PastLimiter(q)' => Admitted(q)',
             Waiting(q)' => /\ UNCHANGED <<auth, status>> /\ Gate(input[q]) = 0
                            /\ stage'[q] = "introspecting" => InMode("oauth")
                            /\ stage'[q] = "session" => InMode("better-auth"),
             status'[q] = 429 => stage'[q] = "closed"
      PROVE  AwaitInv' /\ PassInv' /\ \A r \in Requests : status'[r] = 429 => stage'[r] = "closed"
  <2>1. AwaitInv'
    BY <1>1, <1>3, SameSettings DEF AwaitInv, Waiting, InMode
  <2>2. ASSUME NEW r \in Requests, r # q
        PROVE  /\ Reached(r)' = Reached(r) /\ Waiting(r)' = Waiting(r)
               /\ Working(r)' = Working(r) /\ (Admitted(r) => Admitted(r)')
    BY <1>3, <2>2, SameSettings
       DEF Reached, PastLimiter, Waiting, Working, Admitted, InMode
  <2>3. Reached(q)' => PastLimiter(q)'
    BY <1>1, <1>3 DEF Reached
  <2>4. ~Working(q)'
    BY <1>1, <1>3 DEF Reached, Working
  <2>5. PastLimiter(q)' => ~Waiting(q)'
    BY DEF PastLimiter, Waiting
  <2>6. PassInv'
    BY <1>1, <1>3, <2>2, <2>3, <2>4, <2>5 DEF PassInv
  <2> QED BY <1>3, <2>1, <2>6 DEF CountInv
<1>4. ASSUME UNCHANGED <<config, input, granted>>, Others,
             auth'[q].mechanism = None \/ status'[q] = 429
      PROVE  \A k \in Keys' : IsFiniteSet(Counted(k)') /\ Len(granted'[k]) = Cardinality(Counted(k)')
  <2>1. auth[q].mechanism = None BY <1>1 DEF NoAuth
  <2>2. \A k : Counted(k)' = Counted(k)
    BY <1>4, <2>1, SameSettings DEF Counted
  <2> QED BY <1>4, <2>2, SameKeys DEF CountInv
<1>5. ASSUME NEW where \in {"introspecting", "session"}, Gate(input[q]) = 0, Asks(q, where)
      PROVE  AwaitInv' /\ PassInv' /\ CountInv'
  <2>1. /\ UNCHANGED <<config, input, auth, status, granted>> /\ AtWork
        /\ stage' = [stage EXCEPT ![q] = where]
    BY <1>5 DEF Asks, Goto, dispatchVars, limiterVars
  <2>2. stage'[q] = where /\ Others
    BY <2>1 DEF TypeInv, TypeOK
  <2>3. auth'[q].mechanism = None BY <1>1, <2>1 DEF NoAuth
  <2>4. InMode("oauth") \/ where # "introspecting"
    BY <1>5 DEF Asks
  <2>5. InMode("better-auth") \/ where # "session"
    BY <1>5 DEF Asks
  <2>6. ~PastLimiter(q)' BY <2>2 DEF PastLimiter
  <2> QED BY <1>1, <1>3, <1>4, <1>5, <2>1, <2>2, <2>3, <2>4, <2>5, <2>6 DEF CountInv
<1>6. CASE TurnedAway(q)
  <2> PICK code \in {200, 204, 401, 403, 404, 405, 500} : Close(q, code)
    BY <1>6 DEF TurnedAway
  <2>1. /\ UNCHANGED <<config, input, auth, granted>> /\ AtWork
        /\ stage' = [stage EXCEPT ![q] = "closed"] /\ status' = [status EXCEPT ![q] = code]
    BY <1>6 DEF TurnedAway, Close, limiterVars
  <2>2. stage'[q] = "closed" /\ Others
    BY <2>1 DEF TypeInv, TypeOK, DispatchTypeOK
  <2>3. auth'[q].mechanism = None BY <1>1, <2>1 DEF NoAuth
  <2>4. ~PastLimiter(q)' /\ ~Waiting(q)' BY <2>2 DEF PastLimiter, Waiting
  <2> QED BY <1>3, <1>4, <2>1, <2>2, <2>3, <2>4 DEF CountInv
<1>7. ASSUME Gate(input[q]) = 0, NEW mechanism \in Mechanisms, NEW rank \in Ranks,
             Admit(q, mechanism, rank), rank >= Required(q), InMode(mechanism)
      PROVE  AwaitInv' /\ PassInv' /\ CountInv'
  <2> DEFINE key == RateLimitKey(q, mechanism)
  <2>1. auth' = [auth EXCEPT ![q] = [mechanism |-> mechanism, rank |-> rank]]
    BY <1>7 DEF Admit
  <2>2. auth'[q] = [mechanism |-> mechanism, rank |-> rank]
        /\ \A r \in Requests \ {q} : auth'[r] = auth[r]
    BY <2>1 DEF TypeInv, TypeOK
  <2>3. CASE Close(q, 429) /\ UNCHANGED limiterVars
    <3>1. /\ UNCHANGED <<config, input, granted>> /\ AtWork
          /\ stage' = [stage EXCEPT ![q] = "closed"] /\ status' = [status EXCEPT ![q] = 429]
      BY <2>3 DEF Close, limiterVars
    <3>2. stage'[q] = "closed" /\ status'[q] = 429 /\ Others
      BY <2>2, <3>1 DEF TypeInv, TypeOK, DispatchTypeOK
    <3>3. ~PastLimiter(q)' /\ ~Waiting(q)' BY <3>2 DEF PastLimiter, Waiting
    <3> QED BY <1>3, <1>4, <3>1, <3>2, <3>3 DEF CountInv
  <2>4. CASE Limiter!Grant(key) /\ Goto(q, "body")
    <3>1. /\ UNCHANGED <<config, input, status>> /\ AtWork
          /\ stage' = [stage EXCEPT ![q] = "body"]
          /\ granted' = [granted EXCEPT ![key] = Append(@, now)]
      BY <2>4 DEF Goto, dispatchVars, Limiter!Grant
    <3>2. stage'[q] = "body" /\ Others
      BY <2>2, <3>1 DEF TypeInv, TypeOK
    <3>3. Admitted(q)' /\ ~Waiting(q)'
      BY <1>7, <2>2, <3>1, <3>2, SameSettings DEF Admitted, InMode, Waiting
    <3>4. /\ AwaitInv' /\ PassInv'
          /\ \A r \in Requests : status'[r] = 429 => stage'[r] = "closed"
      BY <1>1, <1>3, <3>1, <3>2, <3>3
    <3>5. key \in Keys /\ granted \in [Keys -> Seq(Int)] /\ now \in Int
      BY <1>7, KeyKnown DEF TypeInv
    <3>6. ASSUME NEW k \in Keys
          PROVE  IsFiniteSet(Counted(k)') /\ Len(granted'[k]) = Cardinality(Counted(k)')
      <4>1. CASE k = key
        <5>1. q \notin Counted(k) /\ Counted(k)' = Counted(k) \cup {q}
          BY <1>1, <2>2, <3>1, <3>2, <4>1, SameSettings DEF Counted, NoAuth, Mechanisms, None
        <5>2. /\ IsFiniteSet(Counted(k)')
              /\ Cardinality(Counted(k)') = Cardinality(Counted(k)) + 1
          BY <5>1, FS_AddElement DEF CountInv
        <5>3. Len(granted'[k]) = Len(granted[k]) + 1
          BY <3>1, <3>5, <4>1
        <5> QED BY <5>2, <5>3 DEF CountInv
      <4>2. CASE k # key
        <5>1. Counted(k)' = Counted(k)
          BY <1>1, <2>2, <3>1, <3>2, <4>2, SameSettings DEF Counted, NoAuth
        <5>2. granted'[k] = granted[k]
          BY <3>1, <3>5, <4>2
        <5> QED BY <5>1, <5>2 DEF CountInv
      <4> QED BY <4>1, <4>2
    <3> QED BY <3>4, <3>6, SameKeys DEF CountInv
  <2> QED BY <1>7, <2>3, <2>4 DEF Admit
<1> QED BY <1>5, <1>6, <1>7 DEF Leaves, Vouched

\* Every step of a request leaves authentication or is past the limiter, but for the
\* awaits; the clock changes nothing about requests.
LEMMA StepIInv == IInv /\ [Next]_vars => IInv'
<1> SUFFICES ASSUME IInv, [Next]_vars PROVE IInv' OBVIOUS
<1> USE DEF IInv
<1>0. up \in BOOLEAN /\ up' \in BOOLEAN
  BY DEF Next, Serving, RejectTarget, vars, TypeInv, TypeOK
<1>1. ASSUME NEW q \in Requests, Arrive(q) \/ Introspected(q) \/ SessionChecked(q) PROVE IInv'
  <2>1. Leaves(q) BY <1>1, ArriveLeaves, AnswerLeaves DEF TypeInv
  <2> QED BY <1>0, <2>1, LeavesType, LeavesKeeps
<1>2. ASSUME NEW q \in Requests, BodyFails(q) \/ OpenStream(q) \/ StreamCalls(q) \/ EndStream(q)
      PROVE  IInv'
  BY <1>0, <1>2, PastIsPast, PastKeeps, PastType
<1>3. ASSUME NEW q \in Requests, HandOver(q) PROVE IInv'
  BY <1>0, <1>3, HandOverIsPast, PastKeeps, PastType
<1>4. ASSUME NEW q \in Requests, Dispatch(q) PROVE IInv'
  BY <1>0, <1>4, DispatchIsPast, PastKeeps, DispatchType
<1>5. ASSUME UNCHANGED <<config, input, stage, auth, dispatchVars, granted>>, now' \in Int
      PROVE  IInv'
  <2>1. UNCHANGED <<pc, message, pending, settled, handler, status, audited, applied>>
    BY <1>5 DEF dispatchVars
  <2>2. TypeInv' BY <1>0, <1>5, <2>1 DEF TypeInv, TypeOK, DispatchTypeOK
  <2>3. AwaitInv' BY <1>5, <2>1, SameSettings DEF AwaitInv, Waiting, InMode
  <2>4. ASSUME NEW q \in Requests
        PROVE  /\ Reached(q)' = Reached(q) /\ Waiting(q)' = Waiting(q)
               /\ Working(q)' = Working(q) /\ (Admitted(q) => Admitted(q)')
    BY <1>5, <2>1, SameSettings DEF Reached, PastLimiter, Waiting, Working, Admitted, InMode
  <2>5. PassInv' BY <1>5, <2>1, <2>4 DEF PassInv
  <2>6. \A k : Counted(k)' = Counted(k)
    BY <1>5, <2>1, SameSettings DEF Counted
  <2>7. CountInv' BY <1>5, <2>1, <2>6, SameKeys DEF CountInv
  <2> QED BY <2>2, <2>3, <2>5, <2>7
<1>6. CASE Tick
  BY <1>5, <1>6 DEF Tick, Limiter!Tick, TypeInv
<1>7. CASE UNCHANGED vars
  BY <1>5, <1>7 DEF vars, limiterVars, TypeInv
<1>8. ASSUME NEW q \in Requests, RejectTarget(q) PROVE IInv'
  BY <1>5, <1>8 DEF RejectTarget, limiterVars, TypeInv
<1> QED BY <1>1, <1>2, <1>3, <1>4, <1>6, <1>7, <1>8 DEF Next, Serving, Work

\* The invariant holds of any requests and schedule.
THEOREM Invariance == Spec => []IInv
BY InitIInv, StepIInv, PTL DEF Spec

\* Each variable of the server stays of its type.
THEOREM TypeCorrect == Spec => [](TypeOK /\ DispatchTypeOK)
<1>1. IInv => TypeOK /\ DispatchTypeOK BY DEF IInv, TypeInv
<1> QED BY <1>1, Invariance, PTL

\* Whatever is done upstream is vouched for by a mechanism of the configured mode at the
\* rank of the path, came through the gates and is recorded.
THEOREM EffectsVouchedAndAuditedHolds == Spec => []EffectsVouchedAndAudited
<1>1. ASSUME IInv, NEW q \in Requests, applied[q] > 0
      PROVE  /\ auth[q].rank >= Required(q)
             /\ config.authMode # "hybrid" => auth[q].mechanism = config.authMode
             /\ input[q].host /\ input[q].origin # "foreign" /\ input[q].method # "OPTIONS"
             /\ q \in audited
  <2>1. Admitted(q) /\ q \in audited
    BY <1>1 DEF IInv, PassInv, Reached, Working
  <2>2. input[q].host /\ input[q].origin # "foreign" /\ input[q].method # "OPTIONS"
    BY <2>1 DEF Admitted, Gate
  <2> QED BY <2>1, <2>2 DEF Admitted, InMode
<1>2. IInv => EffectsVouchedAndAudited BY <1>1 DEF EffectsVouchedAndAudited
<1> QED BY <1>2, Invariance, PTL

\* Each request past authentication is counted once, and no other is.
THEOREM CountedOnceHolds == Spec => []CountedOnce
<1>1. IInv => CountedOnce BY DEF IInv, CountInv, CountedOnce, Counted
<1> QED BY <1>1, Invariance, PTL

-----------------------------------------------------------------------------
(* The dispatch among the requests.                                        *)

\* In stateless mode a request is with the dispatch, or has not been there.
TurnInv ==
    config.mode = "stateless" =>
        /\ DispatchInv
        /\ \A q \in Requests : stage[q] # "streaming" /\ (stage[q] # "dispatched" => pc[q] = "idle")

LEMMA InitTurn == Init => TurnInv
<1> SUFFICES ASSUME Init PROVE TurnInv OBVIOUS
<1>1. TypeInv BY InitType
<1>2. \A q \in Requests : RequestInv(q)
  BY DEF Init, DispatchInit, RequestInv
<1>3. \A q \in Requests : stage[q] = "new" /\ pc[q] = "idle" BY DEF Init, DispatchInit
<1> QED BY <1>1, <1>2, <1>3 DEF TurnInv, DispatchInv, TypeInv

\* a request that is answered without the dispatch, or goes on before it
LEMMA OutsideTurn ==
    ASSUME TurnInv, TypeInv, TypeInv', config' = config, NEW q \in Requests,
           stage[q] # "dispatched",
           \A p \in Requests \ {q} : stage'[p] = stage[p] /\ status'[p] = status[p],
           stage'[q] \notin {"dispatched", "streaming"},
           UNCHANGED <<pc, message, pending, settled, handler, audited, applied>>
    PROVE  TurnInv'
<1> SUFFICES ASSUME config.mode = "stateless"
             PROVE  /\ DispatchInv'
                    /\ \A p \in Requests : /\ stage'[p] # "streaming"
                                           /\ stage'[p] # "dispatched" => pc'[p] = "idle"
  BY DEF TurnInv
<1>1. /\ DispatchInv
      /\ \A p \in Requests : stage[p] # "streaming" /\ (stage[p] # "dispatched" => pc[p] = "idle")
  BY DEF TurnInv
<1>2. RequestInv(q)' BY <1>1 DEF DispatchInv, RequestInv
<1>3. ASSUME NEW p \in Requests \ {q} PROVE RequestInv(p)'
  BY <1>1, RequestFrame DEF DispatchInv
<1>4. DispatchInv' BY <1>2, <1>3 DEF DispatchInv, TypeInv
<1> QED BY <1>1, <1>4

LEMMA StepTurn == IInv /\ IInv' /\ TurnInv /\ [Next]_vars => TurnInv'
<1> SUFFICES ASSUME IInv, IInv', TurnInv, [Next]_vars PROVE TurnInv' OBVIOUS
<1> USE DEF IInv
<1>1. ASSUME NEW q \in Requests, Arrive(q) \/ Introspected(q) \/ SessionChecked(q) PROVE TurnInv'
  <2>1. Leaves(q) BY <1>1, ArriveLeaves, AnswerLeaves DEF TypeInv
  <2>2. /\ stage[q] # "dispatched" /\ config' = config
        /\ UNCHANGED <<pc, message, pending, settled, handler, audited, applied>>
        /\ stage'[q] \notin {"dispatched", "streaming"}
        /\ \A p \in Requests \ {q} : stage'[p] = stage[p] /\ status'[p] = status[p]
    BY <2>1 DEF Leaves, Waiting, Asks, TurnedAway, Vouched, Admit, Close, Goto, dispatchVars,
                TypeInv, TypeOK, DispatchTypeOK
  <2> QED BY <2>2, OutsideTurn
<1>2. ASSUME NEW q \in Requests, BodyFails(q) PROVE TurnInv'
  <2>1. /\ stage[q] # "dispatched" /\ config' = config
        /\ UNCHANGED <<pc, message, pending, settled, handler, audited, applied>>
        /\ stage'[q] = "closed"
        /\ \A p \in Requests \ {q} : stage'[p] = stage[p] /\ status'[p] = status[p]
    BY <1>2 DEF BodyFails, Close, TypeInv, TypeOK, DispatchTypeOK
  <2> QED BY <2>1, OutsideTurn
<1>3. ASSUME NEW q \in Requests, HandOver(q) PROVE TurnInv'
  <2>1. /\ config.mode = "stateless" /\ config' = config /\ Handle(q)
        /\ stage' = [stage EXCEPT ![q] = "dispatched"]
    BY <1>3 DEF HandOver
  <2>2. DispatchInv' BY <2>1, StepDispatchInv DEF TurnInv, DispatchNext
  <2>3. \A p \in Requests \ {q} : pc'[p] = pc[p] /\ stage'[p] = stage[p]
    BY <2>1 DEF Handle, Refuse, AuditFails, Discover, Begin, Respond, TypeInv, TypeOK,
                DispatchTypeOK
  <2>4. stage'[q] = "dispatched" BY <2>1 DEF TypeInv, TypeOK
  <2> QED BY <2>1, <2>2, <2>3, <2>4 DEF TurnInv
<1>4. ASSUME NEW q \in Requests, Dispatch(q) PROVE TurnInv'
  <2>1. /\ stage[q] = "dispatched" /\ config' = config /\ stage' = stage /\ DispatchStep(q)
    BY <1>4 DEF Dispatch, Dispatched
  <2>2. config.mode = "stateless" => DispatchInv'
    BY <2>1, StepDispatchInv DEF TurnInv, DispatchNext
  <2>3. \A p \in Requests \ {q} : pc'[p] = pc[p]
    BY <2>1 DEF DispatchStep, DispatchNotification, DispatchRequest, CallUpstream, Send, Timeout,
                Complete, Settle, Respond, TypeInv, DispatchTypeOK
  <2> QED BY <2>1, <2>2, <2>3 DEF TurnInv
<1>5. ASSUME NEW q \in Requests, OpenStream(q) \/ StreamCalls(q) PROVE TurnInv'
  <2>1. config.mode = "stateful" /\ config' = config
    BY <1>5 DEF OpenStream, StreamCalls, StartStream, Close
  <2> QED BY <2>1 DEF TurnInv
<1>6. ASSUME NEW q \in Requests, EndStream(q) PROVE TurnInv'
  <2>1. stage[q] = "streaming" /\ config' = config BY <1>6 DEF EndStream, Close
  <2> QED BY <2>1 DEF TurnInv
<1>7. CASE Tick \/ (\E q \in Requests : RejectTarget(q)) \/ UNCHANGED vars
  <2>1. config' = config /\ stage' = stage /\ UNCHANGED dispatchVars
    BY <1>7 DEF Tick, RejectTarget, vars
  <2>2. config.mode = "stateless" => DispatchInv' BY <2>1, StepDispatchInv DEF TurnInv
  <2>3. pc' = pc BY <2>1 DEF dispatchVars
  <2> QED BY <2>1, <2>2, <2>3 DEF TurnInv
<1> QED BY <1>1, <1>2, <1>3, <1>4, <1>5, <1>6, <1>7 DEF Next, Serving, Work

\* What is proved of the dispatch by itself holds of it behind the gates, authentication,
\* limiter and body of a server in stateless mode, whose answers come from all of them.
THEOREM ServerTellsTheTruth ==
    Spec => [](config.mode = "stateless" => AuditBeforeEffect /\ AnswerTellsTheTruth)
<1>1. TurnInv => (config.mode = "stateless" => AuditBeforeEffect /\ AnswerTellsTheTruth)
  BY DEF TurnInv, DispatchInv, RequestInv, Truthful, AuditBeforeEffect, AnswerTellsTheTruth
<1> QED BY <1>1, InitTurn, StepTurn, Invariance, PTL DEF Spec

-----------------------------------------------------------------------------
(* The limiter among the requests.                                         *)

\* Past the limiter, and on the way to it, no bucket is touched; admission is one check.
LEMMA StepLimiter == IInv /\ [Next]_vars => [Limiter!Next]_(Limiter!vars)
<1> SUFFICES ASSUME IInv, [Next]_vars PROVE [Limiter!Next]_(Limiter!vars) OBVIOUS
<1> USE DEF Limiter!vars
<1>1. ASSUME NEW q \in Requests, Arrive(q) \/ Introspected(q) \/ SessionChecked(q)
      PROVE  [Limiter!Next]_(Limiter!vars)
  <2>1. Leaves(q) BY <1>1, ArriveLeaves, AnswerLeaves DEF IInv, TypeInv
  <2>2. CASE UNCHANGED limiterVars
    BY <2>2 DEF limiterVars
  <2>3. ASSUME NEW mechanism \in Mechanisms, Gate(input[q]) = 0,
               Limiter!Grant(RateLimitKey(q, mechanism))
        PROVE  Limiter!Next
    <3>1. RateLimitKey(q, mechanism) \in Keys BY <2>3, KeyKnown DEF IInv, TypeInv
    <3> QED BY <2>3, <3>1 DEF Limiter!Next
  <2> QED BY <2>1, <2>2, <2>3 DEF Leaves, Asks, TurnedAway, Vouched, Admit
<1>2. ASSUME NEW q \in Requests,
             BodyFails(q) \/ HandOver(q) \/ OpenStream(q) \/ StreamCalls(q) \/ EndStream(q) \/ Dispatch(q)
      PROVE  UNCHANGED <<buckets, now, granted>>
  BY <1>2 DEF BodyFails, HandOver, OpenStream, StartStream, StreamCalls, EndStream, Dispatch,
              Dispatched, limiterVars
<1>3. CASE Tick BY <1>3 DEF Tick, Limiter!Next
<1>4. CASE (\E q \in Requests : RejectTarget(q)) \/ UNCHANGED vars
  BY <1>4 DEF RejectTarget, vars, limiterVars
<1> QED BY <1>1, <1>2, <1>3, <1>4 DEF Next, Serving, Work

\* The limiter as the requests drive it, among authentication, bodies and handlers, is
\* checkRateLimit by itself.
THEOREM LimiterRefinedHolds == Spec => LimiterRefined
<1>1. Init => Limiter!Init BY DEF Init
<1> QED BY <1>1, Invariance, StepLimiter, PTL DEF Spec, LimiterRefined, Limiter!Spec

\* what is proved of checkRateLimit by itself
Limits == INSTANCE RateLimiterProofs

\* The limit holds of the server as a whole: no credential gets through a path twice as
\* often as MaxRequests within a window, however its requests arrive and are authenticated.
THEOREM ServerSlidingBound == Spec => []Limiter!SlidingBound
<1>1. Limits!Spec => []Limits!SlidingBound
  BY Limits!SlidingBoundHolds, LimitsAssumption
     DEF Limits!MaxRequestsAssumption, Limits!WindowAssumption, Limits!HorizonAssumption
<1>2. Init => Limits!Init BY DEF Init, Limiter!Init, Limits!Init
<1>3. [Limiter!Next]_(Limiter!vars) => [Limits!Next]_(Limits!vars)
  BY DEF Limiter!Next, Limits!Next, Limiter!vars, Limits!vars, Limiter!Tick, Limits!Tick,
         Limiter!Grant, Limits!Grant, Limiter!Open, Limits!Open, Limiter!Full, Limits!Full,
         Limiter!SetBucket, Limits!SetBucket
<1>4. Limits!SlidingBound => Limiter!SlidingBound
  BY DEF Limits!SlidingBound, Limiter!SlidingBound
<1> QED BY <1>1, <1>2, <1>3, <1>4, Invariance, StepLimiter, PTL DEF Spec, Limits!Spec
=============================================================================
