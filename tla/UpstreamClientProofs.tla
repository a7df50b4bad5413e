------------------------ MODULE UpstreamClientProofs ------------------------
(* Proofs about UpstreamClient, for any set of requests, any number of      *)
(* retries, any kind of credential and any number of tokens.                *)
EXTENDS UpstreamClient, FiniteSetTheorems, TLAPS

-----------------------------------------------------------------------------
(* Type correctness.  remaining[r] - 1 stays in range because a call only   *)
(* backs off while it has a retry left.                                     *)

BackoffHasRetry == \A r \in Requests : pc[r] = "backoff" => MayRetry(r)

TokenInHand == \A r \in Requests : pc[r] \in {"ready", "inflight"} => token[r] \in Tokens

TypeInv == TypeOK /\ BackoffHasRetry /\ TokenInHand

LEMMA InitTypeInv == Init => TypeInv
  BY RetryAssumption, KindAssumption, TokensAssumption
     DEF Init, TypeInv, TypeOK, BackoffHasRetry, TokenInHand, CanRefresh,
         Tokens, Ages, Phases, Statuses, Outcomes, Messages

\* what a call's entry into run() does to its own phase and token
LEMMA EnterRunPhase ==
    ASSUME TypeInv, NEW r \in Requests, NEW cur \in Tokens \cup {NoToken},
           NEW rem, NEW auth, EnterRun(r, cur, rem, auth)
    PROVE  /\ pc' \in [Requests -> Phases]
           /\ token' \in [Requests -> Tokens \cup {NoToken}]
           /\ outcome' \in [Requests -> Outcomes]
           /\ refresh' \in {"none", "pending"}
           /\ asked' \in Nat
           /\ pc'[r] \in {"ready", "waiting", "settled"}
           /\ pc'[r] = "ready" => token'[r] \in Tokens
           /\ pc'[r] # "settled" => outcome'[r] = outcome[r]
           /\ pc'[r] = "settled" => outcome'[r] = "auth_refresh_failed"
           /\ \A s \in Requests : s # r =>
                /\ pc'[s] = pc[s] /\ token'[s] = token[s] /\ outcome'[s] = outcome[s]
<1> USE DEF TypeInv, TypeOK, EnterRun
<1>1. CASE Usable(cur)
  <2>1. cur \in Tokens
    BY <1>1 DEF Usable
  <2> QED BY <1>1, <2>1 DEF Phases
<1>2. CASE ~Usable(cur) /\ CanRefresh
  BY <1>2 DEF JoinRefresh, Phases
<1>3. CASE ~Usable(cur) /\ ~CanRefresh
  BY <1>3 DEF Settle, Phases, Outcomes
<1> QED BY <1>1, <1>2, <1>3

LEMMA EnterRunType ==
    ASSUME TypeInv, NEW r \in Requests, NEW cur \in Tokens \cup {NoToken},
           NEW rem \in 0 .. RetryAttempts, NEW auth \in BOOLEAN,
           EnterRun(r, cur, rem, auth),
           issued' = issued, minted' = minted, age' = age, sent' = sent,
           fetches' = fetches, applied' = applied,
           reply' \in [Requests -> Statuses \cup {"none"}],
           rejected' \in [Requests -> SUBSET Tokens]
    PROVE  TypeInv'
<1>1. /\ remaining' \in [Requests -> 0 .. RetryAttempts]
      /\ \A s \in Requests : s # r => remaining'[s] = remaining[s]
      /\ authRetry' \in [Requests -> BOOLEAN]
      /\ timedOut' \in [Requests -> BOOLEAN]
      /\ currentToken' \in Tokens \cup {NoToken}
  BY DEF TypeInv, TypeOK, EnterRun
<1>2. TypeOK'
  BY <1>1, EnterRunPhase DEF TypeInv, TypeOK
<1>3. BackoffHasRetry' /\ TokenInHand'
  BY <1>1, EnterRunPhase DEF TypeInv, BackoffHasRetry, TokenInHand, MayRetry
<1> QED BY <1>2, <1>3 DEF TypeInv

\* a call that leaves run() for good, or to back off, keeps the invariant
LEMMA LeaveRunType ==
    ASSUME TypeInv, NEW r \in Requests,
           \/ \E code \in Outcomes : Settle(r, code)
           \/ \E code \in Outcomes : TransportFailure(r, code)
           \/ MayRetry(r) /\ pc' = [pc EXCEPT ![r] = "backoff"] /\ UNCHANGED outcome,
           UNCHANGED <<providerVars, loginVars, token, remaining, authRetry>>,
           timedOut' \in [Requests -> BOOLEAN],
           sent' = sent, fetches' = fetches, applied' = applied,
           reply' \in [Requests -> Statuses \cup {"none"}],
           rejected' \in [Requests -> SUBSET Tokens]
    PROVE  TypeInv'
<1>1. /\ pc' \in [Requests -> Phases]
      /\ outcome' \in [Requests -> Outcomes]
      /\ pc'[r] \in {"settled", "backoff"}
      /\ pc'[r] = "backoff" => MayRetry(r)
      /\ \A s \in Requests : s # r => pc'[s] = pc[s]
  BY DEF TypeInv, TypeOK, Settle, TransportFailure, Phases, Outcomes
<1>2. TypeOK'
  BY <1>1 DEF TypeInv, TypeOK, providerVars, loginVars
<1>3. BackoffHasRetry' /\ TokenInHand'
  BY <1>1 DEF TypeInv, BackoffHasRetry, TokenInHand, MayRetry
<1> QED BY <1>2, <1>3 DEF TypeInv

LEMMA StepTypeInv == TypeInv /\ [Next]_vars => TypeInv'
<1> SUFFICES ASSUME TypeInv, [Next]_vars PROVE TypeInv'
  OBVIOUS
<1> USE RetryAssumption, KindAssumption, TokensAssumption
<1>1. ASSUME NEW r \in Requests, Start(r) PROVE TypeInv'
  <2>1. EnterRun(r, currentToken, RetryAttempts, CanRefresh) /\ UNCHANGED <<issued, minted, age, wireVars>>
    BY <1>1 DEF Start
  <2>2. /\ currentToken \in Tokens \cup {NoToken}
        /\ RetryAttempts \in 0 .. RetryAttempts
        /\ CanRefresh \in BOOLEAN
    BY DEF TypeInv, TypeOK, CanRefresh
  <2>3. /\ UNCHANGED <<issued, minted, age, sent, fetches, applied>>
        /\ reply' \in [Requests -> Statuses \cup {"none"}]
        /\ rejected' \in [Requests -> SUBSET Tokens]
    BY <2>1 DEF TypeInv, TypeOK, wireVars
  <2> QED BY <2>1, <2>2, <2>3, EnterRunType
<1>2. ASSUME NEW r \in Requests, Send(r) PROVE TypeInv'
  <2>1. CASE timedOut[r]
    <3>1. TransportFailure(r, "request_timeout") /\ "request_timeout" \in Outcomes
      BY <1>2, <2>1 DEF Send, Outcomes
    <3>2. reply' \in [Requests -> Statuses \cup {"none"}]
      BY <3>1 DEF TransportFailure, TypeInv, TypeOK
    <3>3. /\ UNCHANGED <<providerVars, loginVars, token, remaining, authRetry>>
          /\ UNCHANGED <<timedOut, sent, fetches, applied, rejected>>
      BY <1>2, <2>1 DEF Send
    <3>4. timedOut' \in [Requests -> BOOLEAN] /\ rejected' \in [Requests -> SUBSET Tokens]
      BY <3>3 DEF TypeInv, TypeOK
    <3> QED BY <3>1, <3>2, <3>3, <3>4, LeaveRunType
  <2>2. CASE ~timedOut[r]
    <3>1. [req |-> r, n |-> fetches[r] + 1, token |-> token[r]] \in Messages
      BY <1>2 DEF Send, TypeInv, TypeOK, TokenInHand, Messages
    <3> QED BY <1>2, <2>2, <3>1
            DEF TypeInv, TypeOK, Send, BackoffHasRetry, TokenInHand, MayRetry,
                providerVars, loginVars, Phases
  <2> QED BY <2>1, <2>2
<1>3. ASSUME NEW r \in Requests, Wake(r) PROVE TypeInv'
  <2>1. /\ EnterRun(r, currentToken, remaining[r] - 1, authRetry[r])
        /\ UNCHANGED <<issued, minted, age, wireVars>>
    BY <1>3 DEF Wake
  <2>2. /\ currentToken \in Tokens \cup {NoToken}
        /\ remaining[r] - 1 \in 0 .. RetryAttempts
        /\ authRetry[r] \in BOOLEAN
    BY <1>3 DEF TypeInv, TypeOK, Wake, BackoffHasRetry, MayRetry
  <2>3. /\ UNCHANGED <<issued, minted, age, sent, fetches, applied>>
        /\ reply' \in [Requests -> Statuses \cup {"none"}]
        /\ rejected' \in [Requests -> SUBSET Tokens]
    BY <2>1 DEF TypeInv, TypeOK, wireVars
  <2> QED BY <2>1, <2>2, <2>3, EnterRunType
<1>4. ASSUME NEW r \in Requests, Timeout(r) PROVE TypeInv'
  <2>1. CASE pc[r] = "waiting"
    BY <1>4, <2>1
       DEF TypeInv, TypeOK, Timeout, BackoffHasRetry, TokenInHand, MayRetry, providerVars, loginVars
  <2>2. CASE pc[r] = "inflight"
    <3>1. TransportFailure(r, "request_timeout") /\ "request_timeout" \in Outcomes
      BY <1>4, <2>2 DEF Timeout, Outcomes
    <3>2. /\ reply' \in [Requests -> Statuses \cup {"none"}]
          /\ timedOut' \in [Requests -> BOOLEAN]
      BY <1>4, <3>1 DEF TransportFailure, TypeInv, TypeOK, Timeout
    <3>3. /\ UNCHANGED <<providerVars, loginVars, token, remaining, authRetry>>
          /\ UNCHANGED <<sent, fetches, applied, rejected>>
      BY <1>4 DEF Timeout
    <3>4. rejected' \in [Requests -> SUBSET Tokens]
      BY <3>3 DEF TypeInv, TypeOK
    <3> QED BY <3>1, <3>2, <3>3, <3>4, LeaveRunType
  <2> QED BY <1>4, <2>1, <2>2 DEF Timeout
<1>5. ASSUME NEW r \in Requests, ConnectionFails(r) PROVE TypeInv'
  <2>1. TransportFailure(r, "network_error") /\ "network_error" \in Outcomes
    BY <1>5 DEF ConnectionFails, Outcomes
  <2>2. reply' \in [Requests -> Statuses \cup {"none"}]
    BY <2>1 DEF TransportFailure, TypeInv, TypeOK
  <2> QED BY <1>5, <2>1, <2>2, LeaveRunType DEF TypeInv, TypeOK, ConnectionFails
<1>6. ASSUME NEW r \in Requests, ReceiveOk(r) PROVE TypeInv'
  <2>1. \E code \in Outcomes : Settle(r, code)
    BY <1>6 DEF ReceiveOk, Outcomes
  <2>2. reply' \in [Requests -> Statuses \cup {"none"}]
    BY <1>6 DEF ReceiveOk, TypeInv, TypeOK
  <2> QED BY <1>6, <2>1, <2>2, LeaveRunType DEF TypeInv, TypeOK, ReceiveOk
<1>7. ASSUME NEW r \in Requests, RetryAfterUnauthorized(r) PROVE TypeInv'
  <2>1. /\ EnterRun(r, Invalidated, remaining[r], FALSE)
        /\ UNCHANGED <<issued, minted, age, sent, fetches, applied>>
    BY <1>7 DEF RetryAfterUnauthorized
  <2>2. /\ Invalidated \in Tokens \cup {NoToken}
        /\ remaining[r] \in 0 .. RetryAttempts
    BY DEF TypeInv, TypeOK, Invalidated
  <2>3. /\ reply' \in [Requests -> Statuses \cup {"none"}]
        /\ rejected' \in [Requests -> SUBSET Tokens]
    BY <1>7 DEF RetryAfterUnauthorized, TypeInv, TypeOK, TokenInHand
  <2> QED BY <2>1, <2>2, <2>3, EnterRunType
<1>8. ASSUME NEW r \in Requests, ReceiveFailure(r) PROVE TypeInv'
  <2>1. /\ reply' \in [Requests -> Statuses \cup {"none"}]
        /\ rejected' \in [Requests -> SUBSET Tokens]
    BY <1>8 DEF ReceiveFailure, TypeInv, TypeOK, TokenInHand
  <2>2. \/ \E code \in Outcomes : Settle(r, code)
        \/ MayRetry(r) /\ pc' = [pc EXCEPT ![r] = "backoff"] /\ UNCHANGED outcome
    BY <1>8 DEF ReceiveFailure, Outcomes
  <2> QED BY <1>8, <2>1, <2>2, LeaveRunType DEF TypeInv, TypeOK, ReceiveFailure
<1>9. ASSUME RefreshResolves PROVE TypeInv'
  <2>1. PICK t \in issued : RefreshResolves!(t)
    BY <1>9 DEF RefreshResolves
  <2>2. t \in Tokens
    BY DEF TypeInv, TypeOK
  <2> QED BY <2>1, <2>2
          DEF TypeInv, TypeOK, BackoffHasRetry, TokenInHand, MayRetry, wireVars, Phases
<1>10. ASSUME RefreshRejects PROVE TypeInv'
  <2>1. /\ asked' \in Nat /\ issued' \subseteq Tokens
        /\ refresh' \in {"none", "pending"}
    BY <1>10 DEF RefreshRejects, TypeInv, TypeOK
  <2>2. PICK code \in {"auth_refresh_failed", "network_error"} :
          LET retries(r) == code = "network_error" /\ MayRetry(r)
          IN  /\ pc' = [r \in Requests |->
                          IF pc[r] # "waiting" THEN pc[r]
                          ELSE IF retries(r) THEN "backoff" ELSE "settled"]
              /\ outcome' = [r \in Requests |->
                          IF pc[r] = "waiting" /\ ~retries(r) THEN code ELSE outcome[r]]
    BY <1>10 DEF RefreshRejects
  <2>3. pc' \in [Requests -> Phases] /\ outcome' \in [Requests -> Outcomes]
    BY <2>2 DEF TypeInv, TypeOK, Phases, Outcomes
  <2>4. TypeOK'
    BY <1>10, <2>1, <2>3 DEF RefreshRejects, TypeInv, TypeOK, wireVars
  <2>5. BackoffHasRetry' /\ TokenInHand'
    BY <1>10, <2>2 DEF RefreshRejects, TypeInv, BackoffHasRetry, TokenInHand, MayRetry
  <2> QED BY <2>4, <2>5 DEF TypeInv
<1>11. ASSUME MintToken PROVE TypeInv'
  <2>1. minted + 1 \in Tokens /\ asked - 1 \in Nat
    BY <1>11 DEF MintToken, TypeInv, TypeOK, Tokens
  <2>2. age' \in [Tokens -> Ages]
    BY <1>11, <2>1 DEF MintToken, TypeInv, TypeOK, Accepted, Ages
  <2> QED BY <1>11, <2>1, <2>2
          DEF MintToken, TypeInv, TypeOK, BackoffHasRetry, TokenInHand, MayRetry,
              providerVars, callVars, wireVars
<1>12. ASSUME TokenAges PROVE TypeInv'
  <2>1. age' \in [Tokens -> Ages]
    BY <1>12 DEF TokenAges, TypeInv, TypeOK, Ages
  <2> QED BY <1>12, <2>1
          DEF TokenAges, TypeInv, TypeOK, BackoffHasRetry, TokenInHand, MayRetry,
              providerVars, callVars, wireVars
<1>13. ASSUME NEW m \in sent, Process(m) PROVE TypeInv'
  <2>1. m.req \in Requests
    BY DEF TypeInv, TypeOK, Messages
  <2>2. /\ reply' \in [Requests -> Statuses \cup {"none"}]
        /\ applied' \in [Requests -> Nat]
    BY <1>13, <2>1 DEF Process, Answer, TypeInv, TypeOK, Statuses
  <2> QED BY <1>13, <2>2
          DEF Process, TypeInv, TypeOK, BackoffHasRetry, TokenInHand, MayRetry,
              providerVars, loginVars, callVars
<1>14. ASSUME NEW m \in sent, Lose(m) PROVE TypeInv'
  BY <1>14 DEF Lose, TypeInv, TypeOK, BackoffHasRetry, TokenInHand, MayRetry,
               providerVars, loginVars, callVars
<1>15. CASE UNCHANGED vars
  BY <1>15 DEF vars, TypeInv, TypeOK, BackoffHasRetry, TokenInHand, MayRetry
<1> QED
  BY <1>1, <1>2, <1>3, <1>4, <1>5, <1>6, <1>7, <1>8, <1>9, <1>10, <1>11, <1>12, <1>13, <1>14, <1>15
     DEF Next, ClientStep, UpstreamStep

LEMMA TypeInvariant == Spec => []TypeInv
  BY InitTypeInv, StepTypeInv, PTL DEF Spec

\* Every variable keeps its type: in particular remaining never falls below zero.
THEOREM TypeCorrect == Spec => []TypeOK
<1>1. TypeInv => TypeOK
  BY DEF TypeInv
<1> QED BY <1>1, TypeInvariant, PTL

-----------------------------------------------------------------------------
(* One effect at most, and a truthful outcome.  What makes them inductive:  *)
(* a call that is not retried has at most one message under way, none that  *)
(* was ever applied, and none at all once a refusal has come back.          *)

Unsent(r) == \A m \in sent : m.req # r

Untouched(r) == Unsent(r) /\ applied[r] = 0

AnyCall(r) ==
    /\ pc[r] = "idle" => Unsent(r)
    /\ pc[r] # "inflight" => reply[r] = "none"
    /\ pc[r] # "settled" => outcome[r] = "none"
    /\ reply[r] \in {"ok", "garbled"} => applied[r] >= 1
    /\ outcome[r] \in {"ok", "invalid_response"} => applied[r] >= 1

OneShot(r) ==
    /\ pc[r] # "backoff"
    /\ applied[r] <= 1
    /\ \A m1, m2 \in sent : m1.req = r /\ m2.req = r => m1 = m2
    /\ ~Unsent(r) => applied[r] = 0 /\ reply[r] = "none"
    /\ pc[r] \in {"idle", "waiting", "ready"} => Untouched(r)
    /\ reply[r] \in {"unauthorized", "refused"} => Untouched(r)
    /\ outcome[r] \in {"unauthorized", "refused", "auth_refresh_failed"} => Untouched(r)

CallInv == \A r \in Requests : AnyCall(r) /\ (r \notin Retryable => OneShot(r))

LEMMA InitCallInv == Init => CallInv
  BY DEF Init, CallInv, AnyCall, OneShot, Unsent, Untouched

\* a step that leaves a call's record and messages alone keeps its part
LEMMA CallFrame ==
    ASSUME NEW r \in Requests, AnyCall(r), r \notin Retryable => OneShot(r),
           pc'[r] = pc[r], reply'[r] = reply[r], outcome'[r] = outcome[r],
           applied'[r] = applied[r],
           \A m \in sent' : m.req = r => m \in sent
    PROVE  AnyCall(r)' /\ (r \notin Retryable => OneShot(r)')
  BY DEF AnyCall, OneShot, Unsent, Untouched

LEMMA StepCallInv == TypeInv /\ CallInv /\ [Next]_vars => CallInv'
<1> SUFFICES ASSUME TypeInv, CallInv, [Next]_vars, NEW r \in Requests
             PROVE  AnyCall(r)' /\ (r \notin Retryable => OneShot(r)')
  BY DEF CallInv
<1>0. AnyCall(r) /\ (r \notin Retryable => OneShot(r)) /\ applied[r] \in Nat
  BY DEF CallInv, TypeInv, TypeOK
<1>a. ASSUME NEW s \in Requests, NEW cur \in Tokens \cup {NoToken}, NEW rem, NEW auth,
             EnterRun(s, cur, rem, auth), UNCHANGED <<sent, applied>>,
             reply' = [reply EXCEPT ![s] = "none"],
             pc[s] # "settled", s \notin Retryable => Untouched(s)
      PROVE  AnyCall(r)' /\ (r \notin Retryable => OneShot(r)')
  <2>1. CASE s # r
    BY <1>a, <1>0, <2>1, EnterRunPhase, CallFrame DEF TypeInv, TypeOK
  <2>2. CASE s = r
    <3>1. /\ reply'[r] = "none" /\ sent' = sent /\ applied' = applied
          /\ pc'[r] \in {"ready", "waiting", "settled"}
          /\ pc'[r] # "settled" => outcome'[r] = "none"
          /\ pc'[r] = "settled" => outcome'[r] = "auth_refresh_failed"
      BY <1>a, <1>0, <2>2, EnterRunPhase DEF TypeInv, TypeOK, AnyCall
    <3>2. AnyCall(r)'
      BY <3>1 DEF AnyCall
    <3>3. r \notin Retryable => OneShot(r)'
      BY <1>a, <1>0, <2>2, <3>1 DEF OneShot, Untouched, Unsent
    <3> QED BY <3>2, <3>3
  <2> QED BY <2>1, <2>2
<1>b. ASSUME NEW s \in Requests, NEW code, Settle(s, code), UNCHANGED <<sent, applied>>,
             reply' = [reply EXCEPT ![s] = "none"],
             code \in {"ok", "invalid_response"} => applied[s] >= 1,
             s \notin Retryable /\ code \in {"unauthorized", "refused", "auth_refresh_failed"}
                => Untouched(s)
      PROVE  AnyCall(r)' /\ (r \notin Retryable => OneShot(r)')
  <2>1. CASE s # r
    BY <1>b, <1>0, <2>1, CallFrame DEF Settle, TypeInv, TypeOK
  <2>2. CASE s = r
    <3>1. reply'[r] = "none" /\ pc'[r] = "settled" /\ outcome'[r] = code
      BY <1>b, <2>2 DEF Settle, TypeInv, TypeOK
    <3> QED BY <1>b, <1>0, <2>2, <3>1 DEF AnyCall, OneShot, Untouched, Unsent
  <2> QED BY <2>1, <2>2
<1>c. ASSUME NEW s \in Requests, s \in Retryable, pc' = [pc EXCEPT ![s] = "backoff"],
             UNCHANGED <<outcome, sent, applied>>, pc[s] # "settled",
             reply' = [reply EXCEPT ![s] = "none"]
      PROVE  AnyCall(r)' /\ (r \notin Retryable => OneShot(r)')
  <2>1. CASE s # r
    BY <1>c, <1>0, <2>1, CallFrame DEF TypeInv, TypeOK
  <2>2. CASE s = r
    BY <1>c, <1>0, <2>2 DEF AnyCall, TypeInv, TypeOK
  <2> QED BY <2>1, <2>2
<1>d. ASSUME NEW s \in Requests, pc[s] # "settled", UNCHANGED <<sent, applied>>,
             NEW code \in {"request_timeout", "network_error"}, TransportFailure(s, code)
      PROVE  AnyCall(r)' /\ (r \notin Retryable => OneShot(r)')
  BY <1>d, <1>b, <1>c DEF TransportFailure, MayRetry
<1>1. ASSUME NEW s \in Requests, Start(s) PROVE AnyCall(r)' /\ (r \notin Retryable => OneShot(r)')
  <2>1. /\ EnterRun(s, currentToken, RetryAttempts, CanRefresh)
        /\ UNCHANGED <<sent, applied>> /\ pc[s] = "idle" /\ UNCHANGED reply
    BY <1>1 DEF Start, wireVars
  <2>2. currentToken \in Tokens \cup {NoToken} /\ reply' = [reply EXCEPT ![s] = "none"]
    BY <2>1 DEF TypeInv, TypeOK, CallInv, AnyCall
  <2>3. s \notin Retryable => Untouched(s)
    BY <2>1 DEF CallInv, OneShot
  <2> QED BY <2>1, <2>2, <2>3, <1>a
<1>2. ASSUME NEW s \in Requests, Send(s) PROVE AnyCall(r)' /\ (r \notin Retryable => OneShot(r)')
  <2>1. CASE timedOut[s]
    BY <1>2, <2>1, <1>d DEF Send
  <2>2. CASE ~timedOut[s] /\ s # r
    BY <1>2, <2>2, <1>0, CallFrame DEF Send, TypeInv, TypeOK
  <2>3. CASE ~timedOut[s] /\ s = r
    <3>1. /\ sent' = sent \cup {[req |-> r, n |-> fetches[r] + 1, token |-> token[r]]}
          /\ pc[r] = "ready" /\ pc'[r] = "inflight"
          /\ UNCHANGED <<outcome, reply, applied>>
      BY <1>2, <2>3 DEF Send, TypeInv, TypeOK
    <3>2. reply[r] = "none" /\ outcome[r] = "none"
      BY <3>1, <1>0 DEF AnyCall
    <3>3. r \notin Retryable => Untouched(r)
      BY <3>1, <1>0 DEF OneShot
    <3> QED BY <3>1, <3>2, <3>3, <1>0 DEF AnyCall, OneShot, Untouched, Unsent
  <2> QED BY <2>1, <2>2, <2>3
<1>3. ASSUME NEW s \in Requests, Wake(s) PROVE AnyCall(r)' /\ (r \notin Retryable => OneShot(r)')
  <2>1. /\ EnterRun(s, currentToken, remaining[s] - 1, authRetry[s])
        /\ UNCHANGED <<sent, applied>> /\ pc[s] = "backoff" /\ UNCHANGED reply
    BY <1>3 DEF Wake, wireVars
  <2>2. currentToken \in Tokens \cup {NoToken} /\ reply' = [reply EXCEPT ![s] = "none"]
    BY <2>1 DEF TypeInv, TypeOK, CallInv, AnyCall
  <2>3. s \in Retryable
    BY <2>1 DEF TypeInv, BackoffHasRetry, MayRetry
  <2> QED BY <2>1, <2>2, <2>3, <1>a
<1>4. ASSUME NEW s \in Requests, Timeout(s) PROVE AnyCall(r)' /\ (r \notin Retryable => OneShot(r)')
  <2>1. CASE pc[s] = "waiting"
    BY <1>4, <2>1, <1>0, CallFrame DEF Timeout
  <2>2. CASE pc[s] = "inflight"
    BY <1>4, <2>2, <1>d DEF Timeout
  <2> QED BY <1>4, <2>1, <2>2 DEF Timeout
<1>5. ASSUME NEW s \in Requests, ConnectionFails(s)
      PROVE AnyCall(r)' /\ (r \notin Retryable => OneShot(r)')
  BY <1>5, <1>d DEF ConnectionFails
<1>6. ASSUME NEW s \in Requests, ReceiveOk(s) PROVE AnyCall(r)' /\ (r \notin Retryable => OneShot(r)')
  <2>1. AnyCall(s)
    BY DEF CallInv
  <2> QED BY <1>6, <2>1, <1>b DEF ReceiveOk, AnyCall
<1>7. ASSUME NEW s \in Requests, RetryAfterUnauthorized(s)
      PROVE AnyCall(r)' /\ (r \notin Retryable => OneShot(r)')
  <2>1. /\ EnterRun(s, Invalidated, remaining[s], FALSE)
        /\ UNCHANGED <<sent, applied>> /\ pc[s] = "inflight" /\ reply[s] = "unauthorized"
        /\ reply' = [reply EXCEPT ![s] = "none"]
    BY <1>7 DEF RetryAfterUnauthorized
  <2>2. Invalidated \in Tokens \cup {NoToken}
    BY DEF TypeInv, TypeOK, Invalidated
  <2>3. s \notin Retryable => Untouched(s)
    BY <2>1 DEF CallInv, OneShot
  <2> QED BY <2>1, <2>2, <2>3, <1>a
<1>8. ASSUME NEW s \in Requests, ReceiveFailure(s)
      PROVE AnyCall(r)' /\ (r \notin Retryable => OneShot(r)')
  <2>1. /\ UNCHANGED <<sent, applied>> /\ pc[s] = "inflight"
        /\ reply' = [reply EXCEPT ![s] = "none"]
    BY <1>8 DEF ReceiveFailure
  <2>2. s \notin Retryable => (reply[s] \in {"unauthorized", "refused"} => Untouched(s))
    BY DEF CallInv, OneShot
  <2>3. CASE reply[s] = "busy" /\ MayRetry(s) /\ pc' = [pc EXCEPT ![s] = "backoff"] /\ UNCHANGED outcome
    BY <2>1, <2>3, <1>c DEF MayRetry
  <2>4. CASE reply[s] \in {"busy", "refused"} /\ Settle(s, reply[s])
    BY <2>1, <2>2, <2>4, <1>b
  <2>5. CASE reply[s] = "unauthorized" /\ Settle(s, "unauthorized")
    BY <2>1, <2>2, <2>5, <1>b
  <2> QED BY <1>8, <2>3, <2>4, <2>5 DEF ReceiveFailure
<1>9. ASSUME RefreshResolves PROVE AnyCall(r)' /\ (r \notin Retryable => OneShot(r)')
  <2>1. /\ UNCHANGED <<sent, reply, applied, outcome>>
        /\ pc'[r] = IF pc[r] = "waiting" THEN "ready" ELSE pc[r]
    BY <1>9 DEF RefreshResolves, wireVars
  <2> QED BY <2>1, <1>0 DEF AnyCall, OneShot, Untouched, Unsent
<1>10. ASSUME RefreshRejects PROVE AnyCall(r)' /\ (r \notin Retryable => OneShot(r)')
  <2>1. UNCHANGED <<sent, reply, applied>>
    BY <1>10 DEF RefreshRejects, wireVars
  <2>2. PICK code \in {"auth_refresh_failed", "network_error"} :
          \/ pc[r] # "waiting" /\ pc'[r] = pc[r] /\ outcome'[r] = outcome[r]
          \/ /\ pc[r] = "waiting" /\ MayRetry(r)
             /\ pc'[r] = "backoff" /\ outcome'[r] = outcome[r]
          \/ pc[r] = "waiting" /\ pc'[r] = "settled" /\ outcome'[r] = code
    BY <1>10 DEF RefreshRejects
  <2> QED BY <2>1, <2>2, <1>0 DEF AnyCall, OneShot, Untouched, Unsent, MayRetry
<1>11. ASSUME MintToken \/ TokenAges PROVE AnyCall(r)' /\ (r \notin Retryable => OneShot(r)')
  BY <1>11, <1>0, CallFrame DEF MintToken, TokenAges, callVars, wireVars
<1>12. ASSUME NEW m \in sent, Process(m) PROVE AnyCall(r)' /\ (r \notin Retryable => OneShot(r)')
  <2>1. m.req \in Requests /\ sent' = sent \ {m} /\ UNCHANGED <<pc, outcome>>
    BY <1>12 DEF Process, TypeInv, TypeOK, Messages, callVars
  <2>2. CASE m.req # r
    <3>1. reply'[r] = reply[r] /\ applied'[r] = applied[r]
      BY <1>12, <2>1, <2>2 DEF Process, Answer, TypeInv, TypeOK
    <3> QED BY <2>1, <3>1, <1>0, CallFrame
  <2>3. CASE m.req = r
    <3>1. PICK status \in Statuses :
            /\ Answer(m, status)
            /\ \/ applied'[r] = applied[r] /\ status \in {"unauthorized", "busy", "refused"}
               \/ applied'[r] = applied[r] + 1 /\ status \in {"ok", "garbled", "busy"}
      BY <1>12, <2>3 DEF Process, Statuses, TypeInv, TypeOK
    <3>2. \/ reply'[r] = reply[r]
          \/ reply'[r] = status /\ pc[r] = "inflight"
      BY <3>1, <2>3 DEF Answer, TypeInv, TypeOK
    <3>3. AnyCall(r)'
      BY <3>1, <3>2, <2>1, <2>3, <1>0 DEF AnyCall, Unsent
    <3>4. ASSUME r \notin Retryable PROVE OneShot(r)'
      <4>1. ~Unsent(r) /\ applied[r] = 0 /\ reply[r] = "none" /\ Unsent(r)'
        BY <2>1, <2>3, <3>4, <1>0 DEF OneShot, Unsent
      <4>2. /\ pc[r] \notin {"idle", "waiting", "ready", "backoff"}
            /\ outcome[r] \notin {"unauthorized", "refused", "auth_refresh_failed"}
        BY <4>1, <3>4, <1>0 DEF OneShot, Untouched
      <4> QED BY <4>1, <4>2, <3>1, <3>2, <2>1 DEF OneShot, Untouched, Unsent
    <3> QED BY <3>3, <3>4
  <2> QED BY <2>2, <2>3
<1>13. ASSUME NEW m \in sent, Lose(m) PROVE AnyCall(r)' /\ (r \notin Retryable => OneShot(r)')
  BY <1>13, <1>0, CallFrame DEF Lose, callVars
<1>14. CASE UNCHANGED vars
  BY <1>14, <1>0, CallFrame DEF vars
<1> QED
  BY <1>1, <1>2, <1>3, <1>4, <1>5, <1>6, <1>7, <1>8, <1>9, <1>10, <1>11, <1>12, <1>13, <1>14
     DEF Next, ClientStep, UpstreamStep

LEMMA CallInvariant == Spec => []CallInv
  BY TypeInvariant, InitCallInv, StepCallInv, PTL DEF Spec

\* A POST takes effect at most once, for any retry budget and any schedule of
\* refreshes, timeouts and late answers.
THEOREM AtMostOnceHolds == Spec => []AtMostOnce
<1>1. CallInv => AtMostOnce
  BY DEF CallInv, OneShot, AtMostOnce
<1> QED BY <1>1, CallInvariant, PTL

\* What run() resolves or rejects with agrees with what the upstream did.
THEOREM HonestOutcomeHolds == Spec => []HonestOutcome
<1>1. CallInv => HonestOutcome
  BY DEF CallInv, AnyCall, OneShot, Untouched, HonestOutcome
<1> QED BY <1>1, CallInvariant, PTL

-----------------------------------------------------------------------------
(* The retry budget.  Every attempt still to come is paid for: by the       *)
(* remaining retries, by the one retry after a 401, or by being on its way. *)

Due(r) == pc[r] \in {"idle", "waiting", "ready"}

Budget(r) == 1 + B(CanRefresh) + (IF r \in Retryable THEN RetryAttempts ELSE 0)

Spent(r) ==
    fetches[r] + B(Due(r)) + B(authRetry[r]) + (IF r \in Retryable THEN remaining[r] ELSE 0)

BudgetInv == \A r \in Requests :
                /\ Spent(r) <= Budget(r)
                /\ pc[r] = "idle" => fetches[r] = 0

LEMMA InitBudgetInv == Init => BudgetInv
  BY RetryAssumption DEF Init, BudgetInv, Spent, Due, Budget, B

LEMMA BudgetFrame ==
    ASSUME NEW r \in Requests, Spent(r) <= Budget(r), pc[r] = "idle" => fetches[r] = 0,
           pc'[r] = pc[r], fetches'[r] = fetches[r], authRetry'[r] = authRetry[r],
           remaining'[r] = remaining[r]
    PROVE  Spent(r)' <= Budget(r) /\ (pc'[r] = "idle" => fetches'[r] = 0)
  BY DEF Spent, Due, B

LEMMA StepBudgetInv == TypeInv /\ BudgetInv /\ [Next]_vars => BudgetInv'
<1> SUFFICES ASSUME TypeInv, BudgetInv, [Next]_vars, NEW r \in Requests
             PROVE  Spent(r)' <= Budget(r) /\ (pc'[r] = "idle" => fetches'[r] = 0)
  BY DEF BudgetInv, Budget, B, CanRefresh
<1> DEFINE Goal == Spent(r)' <= Budget(r) /\ (pc'[r] = "idle" => fetches'[r] = 0)
<1>0. /\ Spent(r) <= Budget(r) /\ (pc[r] = "idle" => fetches[r] = 0)
      /\ fetches[r] \in Nat /\ remaining[r] \in 0 .. RetryAttempts /\ authRetry[r] \in BOOLEAN
      /\ RetryAttempts \in Nat
  BY RetryAssumption DEF BudgetInv, TypeInv, TypeOK
<1>a. ASSUME NEW s \in Requests, NEW cur \in Tokens \cup {NoToken},
             NEW rem \in 0 .. RetryAttempts, NEW auth \in BOOLEAN,
             EnterRun(s, cur, rem, auth), UNCHANGED fetches,
             fetches[s] + 1 + B(auth) + (IF s \in Retryable THEN rem ELSE 0) <= Budget(s)
      PROVE  Goal
  <2>1. CASE s # r
    BY <1>a, <1>0, <2>1, EnterRunPhase, BudgetFrame DEF EnterRun, TypeInv, TypeOK
  <2>2. CASE s = r
    <3>1. /\ fetches'[r] = fetches[r] /\ authRetry'[r] = auth /\ remaining'[r] = rem
          /\ pc'[r] \in {"ready", "waiting", "settled"}
      BY <1>a, <2>2, EnterRunPhase DEF EnterRun, TypeInv, TypeOK
    <3> QED BY <1>a, <2>2, <3>1, <1>0 DEF Spent, Due, B, Budget
  <2> QED BY <2>1, <2>2
<1>b. ASSUME NEW s \in Requests, NEW phase \in {"settled", "backoff", "inflight"},
             pc' = [pc EXCEPT ![s] = phase], UNCHANGED <<authRetry, remaining, fetches>>
      PROVE  Goal
  <2>1. CASE s # r
    BY <1>b, <1>0, <2>1, BudgetFrame DEF TypeInv, TypeOK
  <2>2. CASE s = r
    <3>1. pc'[r] = phase
      BY <1>b, <2>2 DEF TypeInv, TypeOK
    <3> QED BY <1>b, <1>0, <3>1 DEF Spent, Due, B, Budget
  <2> QED BY <2>1, <2>2
<1>1. ASSUME NEW s \in Requests, Start(s) PROVE Goal
  <2>1. /\ EnterRun(s, currentToken, RetryAttempts, CanRefresh)
        /\ UNCHANGED fetches /\ pc[s] = "idle"
    BY <1>1 DEF Start, wireVars
  <2>2. /\ currentToken \in Tokens \cup {NoToken} /\ RetryAttempts \in 0 .. RetryAttempts
        /\ CanRefresh \in BOOLEAN
    BY <1>0 DEF TypeInv, TypeOK, CanRefresh
  <2>3. fetches[s] = 0
    BY <2>1 DEF BudgetInv
  <2>4. fetches[s] + 1 + B(CanRefresh) + (IF s \in Retryable THEN RetryAttempts ELSE 0) <= Budget(s)
    BY <2>3, <1>0 DEF Budget, B
  <2> QED BY <2>1, <2>2, <2>4, <1>a
<1>2. ASSUME NEW s \in Requests, Send(s) PROVE Goal
  <2>1. CASE timedOut[s]
    <3>1. TransportFailure(s, "request_timeout") /\ UNCHANGED <<authRetry, remaining, fetches>>
      BY <1>2, <2>1 DEF Send
    <3> QED BY <3>1, <1>b DEF TransportFailure, Settle
  <2>2. CASE ~timedOut[s] /\ s # r
    BY <1>2, <2>2, <1>0, BudgetFrame DEF Send, TypeInv, TypeOK
  <2>3. CASE ~timedOut[s] /\ s = r
    <3>1. /\ pc[r] = "ready" /\ pc'[r] = "inflight" /\ fetches'[r] = fetches[r] + 1
          /\ authRetry'[r] = authRetry[r] /\ remaining'[r] = remaining[r]
      BY <1>2, <2>3 DEF Send, TypeInv, TypeOK
    <3> QED BY <3>1, <1>0 DEF Spent, Due, B, Budget
  <2> QED BY <2>1, <2>2, <2>3
<1>3. ASSUME NEW s \in Requests, Wake(s) PROVE Goal
  <2>1. /\ EnterRun(s, currentToken, remaining[s] - 1, authRetry[s])
        /\ UNCHANGED fetches /\ pc[s] = "backoff"
    BY <1>3 DEF Wake, wireVars
  <2>2. /\ currentToken \in Tokens \cup {NoToken}
        /\ remaining[s] \in 0 .. RetryAttempts /\ remaining[s] > 0 /\ s \in Retryable
        /\ authRetry[s] \in BOOLEAN /\ fetches[s] \in Nat
    BY <2>1 DEF TypeInv, TypeOK, BackoffHasRetry, MayRetry
  <2>3. Spent(s) <= Budget(s)
    BY DEF BudgetInv
  <2>4. fetches[s] + 1 + B(authRetry[s]) + (IF s \in Retryable THEN remaining[s] - 1 ELSE 0) <= Budget(s)
    BY <2>1, <2>2, <2>3, <1>0 DEF Spent, Due, B, Budget
  <2>5. remaining[s] - 1 \in 0 .. RetryAttempts
    BY <2>2, <1>0
  <2> QED BY <2>1, <2>2, <2>4, <2>5, <1>a
<1>4. ASSUME NEW s \in Requests, Timeout(s) PROVE Goal
  <2>1. CASE pc[s] = "waiting"
    BY <1>4, <2>1, <1>0, BudgetFrame DEF Timeout
  <2>2. CASE pc[s] = "inflight"
    <3>1. TransportFailure(s, "request_timeout") /\ UNCHANGED <<authRetry, remaining, fetches>>
      BY <1>4, <2>2 DEF Timeout
    <3> QED BY <3>1, <1>b DEF TransportFailure, Settle
  <2> QED BY <1>4, <2>1, <2>2 DEF Timeout
<1>5. ASSUME NEW s \in Requests, ConnectionFails(s) PROVE Goal
  BY <1>5, <1>b DEF ConnectionFails, TransportFailure, Settle
<1>6. ASSUME NEW s \in Requests, ReceiveOk(s) PROVE Goal
  BY <1>6, <1>b DEF ReceiveOk, Settle
<1>7. ASSUME NEW s \in Requests, RetryAfterUnauthorized(s) PROVE Goal
  <2>1. /\ EnterRun(s, Invalidated, remaining[s], FALSE)
        /\ UNCHANGED fetches /\ pc[s] = "inflight" /\ authRetry[s]
    BY <1>7 DEF RetryAfterUnauthorized
  <2>2. /\ Invalidated \in Tokens \cup {NoToken} /\ remaining[s] \in 0 .. RetryAttempts
        /\ fetches[s] \in Nat
    BY DEF TypeInv, TypeOK, Invalidated
  <2>3. Spent(s) <= Budget(s)
    BY DEF BudgetInv
  <2>4. fetches[s] + 1 + B(FALSE) + (IF s \in Retryable THEN remaining[s] ELSE 0) <= Budget(s)
    BY <2>1, <2>2, <2>3, <1>0 DEF Spent, Due, B, Budget
  <2> QED BY <2>1, <2>2, <2>4, <1>a
<1>8. ASSUME NEW s \in Requests, ReceiveFailure(s) PROVE Goal
  <2>1. /\ UNCHANGED <<authRetry, remaining, fetches>>
        /\ \/ pc' = [pc EXCEPT ![s] = "backoff"]
           \/ pc' = [pc EXCEPT ![s] = "settled"]
    BY <1>8 DEF ReceiveFailure, Settle
  <2> QED BY <2>1, <1>b
<1>9. ASSUME RefreshResolves PROVE Goal
  <2>1. /\ UNCHANGED <<fetches, authRetry, remaining>>
        /\ pc'[r] = IF pc[r] = "waiting" THEN "ready" ELSE pc[r]
    BY <1>9 DEF RefreshResolves, wireVars
  <2> QED BY <2>1, <1>0 DEF Spent, Due, B
<1>10. ASSUME RefreshRejects PROVE Goal
  <2>1. UNCHANGED <<fetches, authRetry, remaining>>
    BY <1>10 DEF RefreshRejects, wireVars
  <2>2. pc'[r] = pc[r] \/ pc'[r] \in {"backoff", "settled"}
    BY <1>10 DEF RefreshRejects
  <2> QED BY <2>1, <2>2, <1>0 DEF Spent, Due, B, Budget
<1>11. ASSUME MintToken \/ TokenAges PROVE Goal
  BY <1>11, <1>0, BudgetFrame DEF MintToken, TokenAges, callVars, wireVars
<1>12. ASSUME NEW m \in sent, Process(m) \/ Lose(m) PROVE Goal
  BY <1>12, <1>0, BudgetFrame DEF Process, Lose, callVars
<1>13. CASE UNCHANGED vars
  BY <1>13, <1>0, BudgetFrame DEF vars
<1> QED
  BY <1>1, <1>2, <1>3, <1>4, <1>5, <1>6, <1>7, <1>8, <1>9, <1>10, <1>11, <1>12, <1>13
     DEF Next, ClientStep, UpstreamStep

\* No call sends more than one message per retry it was given, plus one for a 401:
\* the two retry mechanisms of run() add up and never multiply.
THEOREM FetchBudgetHolds == Spec => []FetchBudget
<1>1. TypeInv /\ BudgetInv => FetchBudget
  <2> SUFFICES ASSUME TypeInv, BudgetInv, NEW r \in Requests PROVE fetches[r] <= Budget(r)
    BY DEF FetchBudget, Budget
  <2>1. /\ Spent(r) <= Budget(r) /\ fetches[r] \in Nat
        /\ remaining[r] \in 0 .. RetryAttempts /\ RetryAttempts \in Nat
    BY RetryAssumption DEF BudgetInv, TypeInv, TypeOK
  <2> QED BY <2>1 DEF Spent, B, Budget
<1>2. Spec => []BudgetInv
  BY TypeInvariant, InitBudgetInv, StepBudgetInv, PTL DEF Spec
<1> QED BY <1>1, <1>2, TypeInvariant, PTL

-----------------------------------------------------------------------------
(* The shared refresh.  refreshPromise is set exactly while one exchange is *)
(* asked for or its token, the newest, is under way.                        *)

RefreshInv ==
    \/ refresh = "none" /\ asked = 0 /\ issued = {}
    \/ refresh = "pending" /\ asked = 1 /\ issued = {}
    \/ refresh = "pending" /\ asked = 0 /\ issued = {minted}

LEMMA InitRefreshInv == Init => RefreshInv
  BY DEF Init, RefreshInv

LEMMA EnterRunRefresh ==
    ASSUME TypeInv, RefreshInv, NEW r \in Requests, NEW cur, NEW rem, NEW auth,
           EnterRun(r, cur, rem, auth), UNCHANGED <<issued, minted>>
    PROVE  RefreshInv'
  BY DEF EnterRun, JoinRefresh, RefreshInv, Settle

LEMMA StepRefreshInv == TypeInv /\ RefreshInv /\ [Next]_vars => RefreshInv'
<1> SUFFICES ASSUME TypeInv, RefreshInv, [Next]_vars PROVE RefreshInv'
  OBVIOUS
<1>1. ASSUME NEW r \in Requests, Start(r) \/ Wake(r) \/ RetryAfterUnauthorized(r)
      PROVE  RefreshInv'
  BY <1>1, EnterRunRefresh DEF Start, Wake, RetryAfterUnauthorized
<1>2. ASSUME UNCHANGED <<refresh, asked, issued, minted>> PROVE RefreshInv'
  BY <1>2 DEF RefreshInv
<1>3. ASSUME NEW r \in Requests,
             Send(r) \/ Timeout(r) \/ ConnectionFails(r) \/ ReceiveOk(r) \/ ReceiveFailure(r)
      PROVE  RefreshInv'
  BY <1>2, <1>3 DEF Send, Timeout, ConnectionFails, ReceiveOk, ReceiveFailure,
                    providerVars, loginVars
<1>4. ASSUME RefreshResolves PROVE RefreshInv'
  BY <1>4 DEF RefreshResolves, RefreshInv
<1>5. ASSUME RefreshRejects PROVE RefreshInv'
  BY <1>5 DEF RefreshRejects, RefreshInv
<1>6. ASSUME MintToken PROVE RefreshInv'
  BY <1>6 DEF MintToken, RefreshInv, providerVars
<1>7. ASSUME TokenAges PROVE RefreshInv'
  BY <1>2, <1>7 DEF TokenAges, providerVars
<1>8. ASSUME NEW m \in sent, Process(m) \/ Lose(m) PROVE RefreshInv'
  BY <1>2, <1>8 DEF Process, Lose, providerVars, loginVars
<1>9. CASE UNCHANGED vars
  BY <1>2, <1>9 DEF vars
<1> QED
  BY <1>1, <1>3, <1>4, <1>5, <1>6, <1>7, <1>8, <1>9 DEF Next, ClientStep, UpstreamStep

LEMMA RefreshInvariant == Spec => []RefreshInv
  BY TypeInvariant, InitRefreshInv, StepRefreshInv, PTL DEF Spec

\* Two token exchanges are never under way at once, however calls interleave.
THEOREM SingleFlightHolds == Spec => []SingleFlight
<1>1. RefreshInv => SingleFlight
  BY FS_EmptySet, FS_Singleton DEF RefreshInv, SingleFlight
<1> QED BY <1>1, RefreshInvariant, PTL

\* The cached token is only ever dropped or replaced by the newest one.
THEOREM TokenNeverRegressesHolds == Spec => TokenNeverRegresses
<1> DEFINE Advance ==
      currentToken' # currentToken =>
          \/ currentToken' = NoToken
          \/ currentToken' \in Nat /\ currentToken' = minted
<1>1. TypeInv /\ RefreshInv /\ [Next]_vars => [Advance]_vars
  <2> SUFFICES ASSUME TypeInv, RefreshInv, Next PROVE Advance
    BY DEF vars
  <2>1. ASSUME NEW r \in Requests, ClientStep(r)
        PROVE  currentToken' \in {currentToken, NoToken}
    <3>1. ASSUME Start(r) \/ Wake(r) \/ RetryAfterUnauthorized(r)
          PROVE  currentToken' \in {currentToken, NoToken}
      BY <3>1 DEF Start, Wake, RetryAfterUnauthorized, EnterRun, Invalidated
    <3>2. ASSUME Send(r) \/ Timeout(r) \/ ConnectionFails(r) \/ ReceiveOk(r) \/ ReceiveFailure(r)
          PROVE  currentToken' = currentToken
      BY <3>2 DEF Send, Timeout, ConnectionFails, ReceiveOk, ReceiveFailure, providerVars
    <3> QED BY <2>1, <3>1, <3>2 DEF ClientStep
  <2>2. ASSUME RefreshResolves PROVE currentToken' \in Nat /\ currentToken' = minted
    BY <2>2 DEF RefreshResolves, RefreshInv, TypeInv, TypeOK, Tokens
  <2>3. ASSUME RefreshRejects \/ UpstreamStep PROVE currentToken' = currentToken
    BY <2>3 DEF RefreshRejects, UpstreamStep, MintToken, TokenAges, Process, Lose, providerVars
  <2> QED BY <2>1, <2>2, <2>3 DEF Next
<1> QED BY <1>1, TypeInvariant, RefreshInvariant, PTL DEF Spec, TokenNeverRegresses

-----------------------------------------------------------------------------
(* The retry after a 401.  A token on its way to the provider is in nobody's *)
(* hands yet; after its 401 a call holds, and can be handed, only tokens it  *)
(* has not been refused.                                                    *)

Held(t) ==
    \/ currentToken = t
    \/ \E r \in Requests : token[r] = t \/ t \in rejected[r]

FreshToken ==
    /\ \A t \in Tokens : Held(t) => t <= minted
    /\ \A t \in issued : ~Held(t)

NewTokenAfter401(r) ==
    IF authRetry[r]
    THEN rejected[r] = {}
    ELSE pc[r] # "settled" =>
            /\ rejected[r] # {}
            /\ currentToken \notin rejected[r]
            /\ pc[r] \in {"ready", "inflight"} => token[r] \notin rejected[r]

RejectedInv ==
    /\ FreshToken
    /\ \A r \in Requests : pc[r] = "idle" => authRetry[r] = CanRefresh
    /\ CanRefresh => UnauthorizedAfterTwoTokens /\ \A r \in Requests : NewTokenAfter401(r)

LEMMA TwoElements ==
    ASSUME NEW S, IsFiniteSet(S), NEW a \in S, NEW b \in S, a # b
    PROVE  Cardinality(S) >= 2
<1>1. IsFiniteSet({a}) /\ Cardinality({a}) = 1
  BY FS_Singleton
<1>2. IsFiniteSet({a} \cup {b}) /\ Cardinality({a} \cup {b}) = Cardinality({a}) + 1
  <2>1. b \notin {a}
    OBVIOUS
  <2> QED BY <1>1, <2>1, FS_AddElement
<1>3. {a} \cup {b} \subseteq S
  OBVIOUS
<1>4. Cardinality({a} \cup {b}) <= Cardinality(S) /\ Cardinality(S) \in Nat
  BY <1>3, FS_Subset, FS_CardinalityType
<1> QED BY <1>1, <1>2, <1>4

LEMMA RejectedTypes ==
    ASSUME TypeInv
    PROVE  \A r \in Requests : /\ rejected[r] \subseteq Nat /\ IsFiniteSet(rejected[r])
                               /\ NoToken \notin rejected[r]
<1>1. \A r \in Requests : rejected[r] \subseteq 0 .. MaxTokens
  BY DEF TypeInv, TypeOK, Tokens
<1>2. IsFiniteSet(0 .. MaxTokens)
  BY TokensAssumption, FS_Interval
<1> QED BY <1>1, <1>2, FS_Subset, TokensAssumption

LEMMA InitRejectedInv == Init => RejectedInv
  BY TokensAssumption
     DEF Init, RejectedInv, FreshToken, Held, NewTokenAfter401, UnauthorizedAfterTwoTokens, Tokens

\* a step after which nobody holds a token that was in nobody's hands
LEMMA FreshTokenFrame ==
    ASSUME FreshToken, UNCHANGED <<issued, minted>>,
           \A t \in Tokens : Held(t)' => Held(t), issued \subseteq Tokens
    PROVE  FreshToken'
  BY DEF FreshToken

LEMMA RejectedFrame ==
    ASSUME NEW r \in Requests, NewTokenAfter401(r),
           pc'[r] = pc[r], authRetry'[r] = authRetry[r],
           rejected'[r] = rejected[r], token'[r] = token[r],
           currentToken' \in {currentToken, NoToken}, NoToken \notin rejected[r]
    PROVE  NewTokenAfter401(r)'
  BY DEF NewTokenAfter401

LEMMA StepRejectedInv ==
    TypeInv /\ CallInv /\ RefreshInv /\ RejectedInv /\ [Next]_vars => RejectedInv'
<1> SUFFICES ASSUME TypeInv, CallInv, RefreshInv, RejectedInv, [Next]_vars PROVE RejectedInv'
  OBVIOUS
<1> DEFINE Idle == \A r \in Requests : pc[r] = "idle" => authRetry[r] = CanRefresh
           Goal(r) == /\ NewTokenAfter401(r)'
                      /\ outcome'[r] = "unauthorized" => Cardinality(rejected'[r]) >= 2
<1>0. /\ FreshToken /\ Idle
      /\ \A r \in Requests : /\ rejected[r] \subseteq Nat /\ IsFiniteSet(rejected[r])
                             /\ NoToken \notin rejected[r]
      /\ issued \subseteq Tokens
      /\ CanRefresh => \A r \in Requests :
            /\ NewTokenAfter401(r)
            /\ outcome[r] = "unauthorized" => Cardinality(rejected[r]) >= 2
  BY RejectedTypes DEF RejectedInv, UnauthorizedAfterTwoTokens, TypeInv, TypeOK
<1>q. ASSUME FreshToken', Idle', CanRefresh => \A r \in Requests : Goal(r) PROVE RejectedInv'
  BY <1>q DEF RejectedInv, UnauthorizedAfterTwoTokens, CanRefresh
<1>a. ASSUME NEW s \in Requests, NEW cur \in {currentToken, NoToken}, NEW rem, NEW auth,
             EnterRun(s, cur, rem, auth), UNCHANGED <<issued, minted>>, pc[s] # "settled",
             \/ auth = authRetry[s] /\ UNCHANGED rejected
             \/ /\ auth = FALSE /\ authRetry[s] /\ token[s] \in Tokens
                /\ rejected' = [rejected EXCEPT ![s] = @ \cup {token[s]}]
                /\ CanRefresh => cur = NoToken
      PROVE  RejectedInv'
  <2>1. /\ currentToken' = cur /\ authRetry' = [authRetry EXCEPT ![s] = auth]
        /\ pc'[s] \in {"ready", "waiting", "settled"}
        /\ pc'[s] # "settled" => outcome'[s] = outcome[s]
        /\ pc'[s] = "settled" => outcome'[s] = "auth_refresh_failed"
        /\ \A r \in Requests : r # s =>
              pc'[r] = pc[r] /\ token'[r] = token[r] /\ outcome'[r] = outcome[r]
        /\ cur \in Tokens \cup {NoToken}
    BY <1>a, EnterRunPhase DEF EnterRun, TypeInv, TypeOK
  <2>2. pc'[s] = "ready" => token'[s] = cur /\ cur # NoToken
    BY <1>a DEF EnterRun, Usable, Settle, TypeInv, TypeOK
  <2>3. token'[s] = token[s] \/ token'[s] = cur
    BY <1>a DEF EnterRun, TypeInv, TypeOK
  <2>4. FreshToken'
    <3>1. \A r \in Requests : rejected'[r] \subseteq rejected[r] \cup {token[r]}
      BY <1>a DEF TypeInv, TypeOK
    <3>2. ASSUME NEW t \in Tokens, Held(t)' PROVE Held(t)
      <4>1. t # NoToken
        BY TokensAssumption DEF Tokens
      <4> QED BY <3>1, <3>2, <4>1, <1>a, <2>1, <2>3 DEF Held
    <3> QED BY <3>2, <1>a, <1>0, FreshTokenFrame
  <2>5. Idle'
    BY <2>1, <1>0 DEF CanRefresh, TypeInv, TypeOK
  <2>6. ASSUME CanRefresh, NEW r \in Requests PROVE Goal(r)
    <3>1. CASE r # s
      <4>1. rejected'[r] = rejected[r] /\ authRetry'[r] = authRetry[r]
        BY <1>a, <2>1, <3>1 DEF TypeInv, TypeOK
      <4> QED BY <4>1, <2>1, <2>6, <3>1, <1>0, RejectedFrame
    <3>2. CASE r = s
      <4>1. outcome'[r] # "unauthorized"
        BY <1>a, <2>1, <3>2 DEF CallInv, AnyCall
      <4>2. authRetry'[r] = auth
        BY <2>1, <3>2 DEF TypeInv, TypeOK
      <4>3. NewTokenAfter401(r) /\ NoToken \notin rejected[r]
        BY <2>6, <1>0
      <4>4. CASE auth = authRetry[s] /\ UNCHANGED rejected
        <5>1. /\ rejected'[r] = rejected[r] /\ authRetry'[r] = authRetry[r]
              /\ currentToken' \in {currentToken, NoToken} /\ pc[r] # "settled"
              /\ pc'[r] = "ready" => token'[r] = currentToken'
              /\ pc'[r] # "inflight"
          <6>1. rejected'[r] = rejected[r] /\ authRetry'[r] = authRetry[r]
            BY <4>2, <4>4, <3>2
          <6>2. currentToken' = cur /\ cur \in {currentToken, NoToken} /\ pc[r] # "settled"
            BY <2>1, <3>2, <1>a
          <6> QED BY <6>1, <6>2, <2>1, <2>2, <3>2
        <5> QED BY <4>1, <4>3, <5>1 DEF NewTokenAfter401
      <4>5. CASE /\ auth = FALSE /\ authRetry[s] /\ token[s] \in Tokens
                 /\ rejected' = [rejected EXCEPT ![s] = @ \cup {token[s]}]
                 /\ cur = NoToken
        <5>1. rejected'[r] = {token[r]} /\ NoToken # token[r]
          <6>1. rejected[r] = {}
            BY <4>3, <4>5, <3>2 DEF NewTokenAfter401
          <6> QED BY <4>5, <6>1, <3>2, TokensAssumption DEF TypeInv, TypeOK, Tokens
        <5>2. currentToken' = NoToken /\ pc'[r] # "ready" /\ pc'[r] # "inflight"
          BY <4>5, <2>1, <2>2, <3>2
        <5>3. ~authRetry'[r]
          BY <4>2, <4>5
        <5> QED BY <4>1, <5>1, <5>2, <5>3 DEF NewTokenAfter401
      <4> QED BY <4>1, <4>4, <4>5, <1>a, <2>6
    <3> QED BY <3>1, <3>2
  <2> QED BY <2>4, <2>5, <2>6, <1>q
<1>b. ASSUME UNCHANGED <<currentToken, issued, minted, token, authRetry, rejected>>,
             \A r \in Requests : /\ pc'[r] # pc[r] => pc'[r] \in {"backoff", "settled", "waiting"}
                                 /\ pc'[r] = pc[r] \/ pc[r] # "settled"
                                 /\ outcome'[r] # outcome[r] => outcome'[r] # "unauthorized"
      PROVE  RejectedInv'
  <2>1. FreshToken'
    BY <1>b, <1>0, FreshTokenFrame DEF Held
  <2>2. Idle'
    BY <1>b, <1>0 DEF CanRefresh
  <2>3. ASSUME CanRefresh, NEW r \in Requests PROVE Goal(r)
    BY <1>b, <1>0, <2>3 DEF NewTokenAfter401
  <2> QED BY <2>1, <2>2, <2>3, <1>q
<1>c. ASSUME NEW s \in Requests, NEW code \in {"request_timeout", "network_error"},
             TransportFailure(s, code), pc[s] # "settled",
             UNCHANGED <<currentToken, issued, minted, token, authRetry, rejected>>
      PROVE  RejectedInv'
  <2>1. \A r \in Requests : /\ pc'[r] # pc[r] => pc'[r] \in {"backoff", "settled", "waiting"}
                            /\ pc'[r] = pc[r] \/ pc[r] # "settled"
                            /\ outcome'[r] # outcome[r] => outcome'[r] # "unauthorized"
    BY <1>c DEF TransportFailure, Settle, TypeInv, TypeOK
  <2> QED BY <1>b, <1>c, <2>1
<1>1. ASSUME NEW s \in Requests, Start(s) PROVE RejectedInv'
  <2>1. /\ EnterRun(s, currentToken, RetryAttempts, CanRefresh)
        /\ UNCHANGED <<issued, minted, rejected>> /\ pc[s] = "idle"
    BY <1>1 DEF Start, wireVars
  <2>2. CanRefresh = authRetry[s]
    BY <2>1, <1>0
  <2> QED BY <2>1, <2>2, <1>a
<1>2. ASSUME NEW s \in Requests, Send(s) PROVE RejectedInv'
  <2>1. /\ UNCHANGED <<currentToken, issued, minted, token, authRetry, rejected>>
        /\ pc[s] = "ready"
    BY <1>2 DEF Send, providerVars, loginVars
  <2>2. CASE timedOut[s]
    BY <1>2, <2>1, <2>2, <1>c DEF Send
  <2>3. CASE ~timedOut[s]
    <3>1. pc' = [pc EXCEPT ![s] = "inflight"] /\ outcome' = outcome
      BY <1>2, <2>3 DEF Send
    <3>2. FreshToken'
      BY <2>1, <1>0, FreshTokenFrame DEF Held
    <3>3. Idle'
      BY <3>1, <2>1, <1>0 DEF CanRefresh, TypeInv, TypeOK
    <3>4. ASSUME CanRefresh, NEW r \in Requests PROVE Goal(r)
      <4>1. \/ pc'[r] = pc[r]
            \/ pc'[r] = "inflight" /\ pc[r] = "ready"
        BY <3>1, <2>1 DEF TypeInv, TypeOK
      <4> QED BY <4>1, <3>1, <2>1, <3>4, <1>0 DEF NewTokenAfter401
    <3> QED BY <3>2, <3>3, <3>4, <1>q
  <2> QED BY <2>2, <2>3
<1>3. ASSUME NEW s \in Requests, Wake(s) PROVE RejectedInv'
  <2>1. /\ EnterRun(s, currentToken, remaining[s] - 1, authRetry[s])
        /\ UNCHANGED <<issued, minted, rejected>> /\ pc[s] = "backoff"
    BY <1>3 DEF Wake, wireVars
  <2> QED BY <2>1, <1>a
<1>4. ASSUME NEW s \in Requests, Timeout(s) PROVE RejectedInv'
  <2>1. UNCHANGED <<currentToken, issued, minted, token, authRetry, rejected>>
    BY <1>4 DEF Timeout, providerVars, loginVars
  <2>2. CASE pc[s] = "waiting"
    BY <1>4, <2>1, <2>2, <1>b DEF Timeout
  <2>3. CASE pc[s] = "inflight"
    BY <1>4, <2>1, <2>3, <1>c DEF Timeout
  <2> QED BY <1>4, <2>2, <2>3 DEF Timeout
<1>5. ASSUME NEW s \in Requests, ConnectionFails(s) PROVE RejectedInv'
  BY <1>5, <1>c DEF ConnectionFails, providerVars, loginVars
<1>6. ASSUME NEW s \in Requests, ReceiveOk(s) PROVE RejectedInv'
  <2>1. /\ UNCHANGED <<currentToken, issued, minted, token, authRetry, rejected>>
        /\ pc[s] = "inflight"
    BY <1>6 DEF ReceiveOk, providerVars, loginVars
  <2>2. \A r \in Requests : /\ pc'[r] # pc[r] => pc'[r] \in {"backoff", "settled", "waiting"}
                            /\ pc'[r] = pc[r] \/ pc[r] # "settled"
                            /\ outcome'[r] # outcome[r] => outcome'[r] # "unauthorized"
    BY <1>6, <2>1 DEF ReceiveOk, Settle, TypeInv, TypeOK
  <2> QED BY <2>1, <2>2, <1>b
<1>7. ASSUME NEW s \in Requests, RetryAfterUnauthorized(s) PROVE RejectedInv'
  <2>1. /\ EnterRun(s, Invalidated, remaining[s], FALSE)
        /\ UNCHANGED <<issued, minted>> /\ pc[s] = "inflight" /\ authRetry[s]
        /\ rejected' = [rejected EXCEPT ![s] = @ \cup {token[s]}]
    BY <1>7 DEF RetryAfterUnauthorized
  <2>2. Invalidated \in {currentToken, NoToken} /\ (CanRefresh => Invalidated = NoToken)
    BY DEF Invalidated, CanRefresh
  <2>3. token[s] \in Tokens
    BY <2>1 DEF TypeInv, TokenInHand
  <2> QED BY <2>1, <2>2, <2>3, <1>a
<1>8. ASSUME NEW s \in Requests, ReceiveFailure(s) PROVE RejectedInv'
  <2>1. /\ UNCHANGED <<currentToken, issued, minted, token, authRetry>>
        /\ pc[s] = "inflight"
    BY <1>8 DEF ReceiveFailure, providerVars, loginVars
  <2>2. CASE reply[s] # "unauthorized"
    <3>1. \A r \in Requests : /\ pc'[r] # pc[r] => pc'[r] \in {"backoff", "settled", "waiting"}
                              /\ pc'[r] = pc[r] \/ pc[r] # "settled"
                              /\ outcome'[r] # outcome[r] => outcome'[r] # "unauthorized"
      <4>1. \/ pc' = [pc EXCEPT ![s] = "backoff"] /\ outcome' = outcome
            \/ /\ pc' = [pc EXCEPT ![s] = "settled"]
               /\ \E code \in {"busy", "refused"} : outcome' = [outcome EXCEPT ![s] = code]
        BY <1>8, <2>2 DEF ReceiveFailure, Settle
      <4> QED BY <4>1, <2>1 DEF TypeInv, TypeOK
    <3>2. UNCHANGED rejected
      BY <1>8, <2>2 DEF ReceiveFailure
    <3> QED BY <2>1, <3>1, <3>2, <1>b
  <2>3. CASE /\ ~authRetry[s] /\ Settle(s, "unauthorized")
             /\ rejected' = [rejected EXCEPT ![s] = @ \cup {token[s]}]
    <3>1. \A r \in Requests : rejected'[r] \subseteq rejected[r] \cup {token[r]}
      BY <2>3 DEF TypeInv, TypeOK
    <3>2. FreshToken'
      BY <3>1, <2>1, <1>0, FreshTokenFrame DEF Held
    <3>3. Idle'
      BY <2>3, <2>1, <1>0 DEF Settle, CanRefresh, TypeInv, TypeOK
    <3>4. ASSUME CanRefresh, NEW r \in Requests PROVE Goal(r)
      <4>1. CASE r # s
        BY <4>1, <2>1, <2>3, <3>4, <1>0, RejectedFrame DEF Settle, TypeInv, TypeOK
      <4>2. CASE r = s
        <5>1. /\ pc'[r] = "settled" /\ authRetry'[r] = FALSE
              /\ rejected'[r] = rejected[r] \cup {token[r]}
          BY <4>2, <2>1, <2>3 DEF Settle, TypeInv, TypeOK
        <5>2. PICK t \in rejected[r] : t # token[r]
          BY <4>2, <2>1, <2>3, <3>4, <1>0 DEF NewTokenAfter401
        <5>3. IsFiniteSet(rejected'[r])
          BY <5>1, <1>0, FS_AddElement
        <5>4. Cardinality(rejected'[r]) >= 2
          BY <5>1, <5>2, <5>3, TwoElements
        <5> QED BY <5>1, <5>4 DEF NewTokenAfter401
      <4> QED BY <4>1, <4>2
    <3> QED BY <3>2, <3>3, <3>4, <1>q
  <2> QED BY <1>8, <2>2, <2>3 DEF ReceiveFailure
<1>9. ASSUME RefreshResolves PROVE RejectedInv'
  <2>1. PICK t \in issued :
          /\ issued' = issued \ {t} /\ currentToken' = t
          /\ pc' = [r \in Requests |-> IF pc[r] = "waiting" THEN "ready" ELSE pc[r]]
          /\ token' = [r \in Requests |-> IF pc[r] = "waiting" THEN t ELSE token[r]]
          /\ UNCHANGED <<minted, authRetry, outcome, rejected>>
    BY <1>9 DEF RefreshResolves, wireVars
  <2>2. t = minted /\ issued' = {} /\ ~Held(t) /\ t \in Nat
    BY <2>1, <1>0 DEF RefreshInv, FreshToken, Tokens
  <2>3. \A u : Held(u)' => u = t \/ Held(u)
    BY <2>1 DEF Held
  <2>4. FreshToken'
    BY <2>1, <2>2, <2>3, <1>0 DEF FreshToken
  <2>5. Idle'
    BY <2>1, <1>0 DEF CanRefresh
  <2>6. ASSUME CanRefresh, NEW r \in Requests PROVE Goal(r)
    <3>1. t \notin rejected[r]
      BY <2>2 DEF Held
    <3> QED BY <3>1, <2>1, <2>6, <1>0 DEF NewTokenAfter401
  <2> QED BY <2>4, <2>5, <2>6, <1>q
<1>10. ASSUME RefreshRejects PROVE RejectedInv'
  <2>1. /\ UNCHANGED <<currentToken, minted, token, authRetry, rejected>>
        /\ issued' \subseteq issued
    BY <1>10 DEF RefreshRejects, wireVars
  <2>2. \A r \in Requests : /\ pc'[r] # pc[r] => pc'[r] \in {"backoff", "settled"}
                            /\ pc'[r] = pc[r] \/ pc[r] # "settled"
                            /\ outcome'[r] # outcome[r] => outcome'[r] # "unauthorized"
    BY <1>10 DEF RefreshRejects
  <2>3. FreshToken'
    BY <2>1, <1>0 DEF FreshToken, Held
  <2>4. Idle'
    BY <2>1, <2>2, <1>0 DEF CanRefresh
  <2>5. ASSUME CanRefresh, NEW r \in Requests PROVE Goal(r)
    BY <2>1, <2>2, <2>5, <1>0 DEF NewTokenAfter401
  <2> QED BY <2>3, <2>4, <2>5, <1>q
<1>11. ASSUME MintToken PROVE RejectedInv'
  <2>1. /\ issued' = issued \cup {minted + 1} /\ minted' = minted + 1 /\ issued = {}
        /\ UNCHANGED <<currentToken, token, rejected, authRetry, pc, outcome>>
    BY <1>11 DEF MintToken, RefreshInv, providerVars, callVars, wireVars
  <2>2. minted \in Nat /\ \A t \in Tokens : t \in Nat
    BY DEF TypeInv, TypeOK, Tokens
  <2>3. FreshToken'
    <3>1. ASSUME NEW t \in Tokens, Held(t)' PROVE t <= minted /\ t <= minted'
      BY <3>1, <2>1, <2>2, <1>0 DEF FreshToken, Held
    <3>2. minted + 1 \in Tokens
      BY <1>11, <2>2, TokensAssumption DEF MintToken, Tokens
    <3>3. ASSUME NEW t \in issued' PROVE ~Held(t)'
      <4>1. t = minted + 1 /\ t \in Tokens
        BY <2>1, <3>2
      <4> QED BY <3>1, <4>1, <2>2
    <3> QED BY <3>1, <3>3 DEF FreshToken
  <2>4. Idle'
    BY <2>1, <1>0 DEF CanRefresh
  <2>5. ASSUME CanRefresh, NEW r \in Requests PROVE Goal(r)
    BY <2>1, <2>5, <1>0 DEF NewTokenAfter401
  <2> QED BY <2>3, <2>4, <2>5, <1>q
<1>12. ASSUME TokenAges PROVE RejectedInv'
  BY <1>12, <1>b DEF TokenAges, providerVars, callVars, wireVars
<1>13. ASSUME NEW m \in sent, Process(m) \/ Lose(m) PROVE RejectedInv'
  BY <1>13, <1>b DEF Process, Lose, providerVars, loginVars, callVars
<1>14. CASE UNCHANGED vars
  BY <1>14, <1>b DEF vars
<1> QED
  BY <1>1, <1>2, <1>3, <1>4, <1>5, <1>6, <1>7, <1>8, <1>9, <1>10, <1>11, <1>12, <1>13, <1>14
     DEF Next, ClientStep, UpstreamStep

\* A caller hears "unauthorized" only after the upstream refused two different
\* tokens: the retry of run() never resends the token that was refused.
THEOREM UnauthorizedAfterTwoTokensHolds == Spec => []UnauthorizedAfterTwoTokens
<1>1. RejectedInv => UnauthorizedAfterTwoTokens
  BY DEF RejectedInv, UnauthorizedAfterTwoTokens
<1>2. Spec => []RejectedInv
  BY TypeInvariant, CallInvariant, RefreshInvariant, InitRejectedInv, StepRejectedInv, PTL DEF Spec
<1> QED BY <1>1, <1>2, PTL

-----------------------------------------------------------------------------
(* The client implements UpstreamCall.  CallInv is what makes each step of  *)
(* the upstream and each answer one that the abstract call allows.          *)

\* nothing a caller or the upstream could see has changed
LEMMA NothingTold ==
    ASSUME UNCHANGED applied, \A r \in Requests : answer'[r] = answer[r]
    PROVE  UNCHANGED Call!callVars
  BY DEF Call!callVars, answer

\* one call is answered
LEMMA OneTold ==
    ASSUME NEW s \in Requests, NEW a \in Call!Answers, UNCHANGED applied,
           answer[s] = "awaited", Call!AnswerTrue(s, a),
           answer' = [answer EXCEPT ![s] = a]
    PROVE  Call!Settle
<1>1. answer' = [r \in Requests |-> IF r \in {s} THEN a ELSE answer[r]]
  BY DEF answer
<1>2. {s} \in SUBSET Requests /\ {s} # {}
  OBVIOUS
<1>3. \A r \in {s} : answer[r] = "awaited" /\ Call!AnswerTrue(r, a)
  OBVIOUS
<1> QED BY <1>1, <1>2, <1>3 DEF Call!Settle

LEMMA InitPromise == Init => Call!Init
  BY DEF Init, Call!Init, answer

LEMMA StepPromise ==
    TypeInv /\ CallInv /\ [Next]_vars => [Call!Next]_(Call!callVars)
<1> SUFFICES ASSUME TypeInv, CallInv, [Next]_vars
             PROVE  Call!Next \/ UNCHANGED Call!callVars
  OBVIOUS
<1> DEFINE Goal == Call!Next \/ UNCHANGED Call!callVars
<1>0. /\ pc \in [Requests -> Phases] /\ outcome \in [Requests -> Outcomes]
      /\ reply \in [Requests -> Statuses \cup {"none"}] /\ applied \in [Requests -> Nat]
      /\ \A r \in Requests : AnyCall(r) /\ (r \notin Retryable => OneShot(r))
  BY DEF TypeInv, TypeOK, CallInv
<1>a. ASSUME NEW s \in Requests, NEW code \in Outcomes \ {"none"}, Settle(s, code),
             UNCHANGED applied, pc[s] \notin {"idle", "settled"},
             code \in {"ok", "invalid_response"} => applied[s] >= 1,
             s \notin Retryable /\ code \in {"unauthorized", "refused", "auth_refresh_failed"}
                => Untouched(s)
      PROVE  Goal
  <2>1. answer[s] = "awaited"
    BY <1>a, <1>0 DEF answer, AnswerOf, AnyCall
  <2>2. answer' = [answer EXCEPT ![s] = AnswerOf[code]]
    <3>1. ASSUME NEW r \in Requests
          PROVE  answer'[r] = IF r = s THEN AnswerOf[code] ELSE answer[r]
      BY <1>a, <1>0 DEF Settle, answer
    <3> QED BY <3>1 DEF answer
  <2>4. AnswerOf[code] \in Call!Answers
    BY DEF AnswerOf, Outcomes, Call!Answers
  <2>3. Call!AnswerTrue(s, AnswerOf[code])
    BY <1>a, <1>0 DEF Call!AnswerTrue, Call!Once, AnswerOf, Outcomes, Untouched
  <2> QED BY <1>a, <2>1, <2>2, <2>3, <2>4, OneTold DEF Call!Next
<1>b. ASSUME NEW s \in Requests, NEW cur \in Tokens \cup {NoToken}, NEW rem, NEW auth,
             EnterRun(s, cur, rem, auth), UNCHANGED applied, pc[s] # "settled",
             s \notin Retryable => Untouched(s)
      PROVE  Goal
  <2>1. outcome[s] = "none"
    BY <1>b, <1>0 DEF AnyCall
  <2>2. CASE Settle(s, "auth_refresh_failed") /\ pc[s] # "idle"
    BY <1>a, <1>b, <2>2 DEF Outcomes
  <2>3. CASE Settle(s, "auth_refresh_failed") /\ pc[s] = "idle"
    <3>1. answer[s] = "none" /\ answer' = [answer EXCEPT ![s] = "refused"]
      BY <2>3, <1>0 DEF Settle, answer, AnswerOf
    <3> QED BY <3>1, <1>b DEF Call!Next, Call!TurnAway, Call!Tell
  <2>4. CASE /\ pc' = [pc EXCEPT ![s] = "ready"] \/ pc' = [pc EXCEPT ![s] = "waiting"]
             /\ UNCHANGED outcome
    <3>1. answer' = [answer EXCEPT ![s] = "awaited"]
      <4>1. pc'[s] # "idle" /\ outcome'[s] = "none"
        BY <2>1, <2>4, <1>0
      <4>2. ASSUME NEW r \in Requests
            PROVE  answer'[r] = IF r = s THEN "awaited" ELSE answer[r]
        BY <4>1, <2>4, <1>0 DEF answer, AnswerOf
      <4> QED BY <4>2 DEF answer
    <3>2. answer[s] \in {"none", "awaited"}
      BY <2>1 DEF answer, AnswerOf
    <3>3. CASE answer[s] = "none"
      BY <3>1, <3>3, <1>b DEF Call!Next, Call!Ask, Call!Tell
    <3>4. CASE answer[s] = "awaited"
      BY <3>1, <3>4, <1>b, NothingTold DEF answer
    <3> QED BY <3>2, <3>3, <3>4
  <2> QED BY <1>b, <2>2, <2>3, <2>4 DEF EnterRun
<1>c. ASSUME UNCHANGED <<applied, outcome>>, \A r \in Requests : (pc'[r] = "idle") <=> (pc[r] = "idle")
      PROVE  Goal
  BY <1>c, NothingTold DEF answer
<1>d. ASSUME NEW s \in Requests, UNCHANGED applied, pc[s] \notin {"idle", "settled"},
             NEW code \in {"request_timeout", "network_error"}, TransportFailure(s, code)
      PROVE  Goal
  <2>1. CASE pc' = [pc EXCEPT ![s] = "backoff"] /\ UNCHANGED outcome
    BY <1>c, <1>d, <1>0, <2>1
  <2>2. CASE Settle(s, code)
    BY <1>a, <1>d, <2>2 DEF Outcomes
  <2> QED BY <1>d, <2>1, <2>2 DEF TransportFailure
<1>1. ASSUME NEW s \in Requests, Start(s) PROVE Goal
  BY <1>1, <1>0, <1>b DEF Start, wireVars, OneShot, TypeInv, TypeOK
<1>2. ASSUME NEW s \in Requests, Send(s) PROVE Goal
  <2>1. CASE timedOut[s]
    BY <1>2, <2>1, <1>d DEF Send
  <2>2. CASE ~timedOut[s]
    BY <1>2, <2>2, <1>0, <1>c DEF Send
  <2> QED BY <2>1, <2>2
<1>3. ASSUME NEW s \in Requests, Wake(s) PROVE Goal
  <2>1. s \in Retryable
    BY <1>3 DEF Wake, TypeInv, BackoffHasRetry, MayRetry
  <2> QED BY <1>3, <2>1, <1>b DEF Wake, wireVars, TypeInv, TypeOK
<1>4. ASSUME NEW s \in Requests, Timeout(s) PROVE Goal
  <2>1. CASE pc[s] = "waiting"
    BY <1>4, <2>1, <1>c DEF Timeout
  <2>2. CASE pc[s] = "inflight"
    BY <1>4, <2>2, <1>d DEF Timeout
  <2> QED BY <1>4, <2>1, <2>2 DEF Timeout
<1>5. ASSUME NEW s \in Requests, ConnectionFails(s) PROVE Goal
  BY <1>5, <1>d DEF ConnectionFails
<1>6. ASSUME NEW s \in Requests, ReceiveOk(s) PROVE Goal
  BY <1>6, <1>0, <1>a DEF ReceiveOk, AnyCall, Outcomes
<1>7. ASSUME NEW s \in Requests, RetryAfterUnauthorized(s) PROVE Goal
  <2>1. Invalidated \in Tokens \cup {NoToken}
    BY DEF TypeInv, TypeOK, Invalidated
  <2> QED BY <1>7, <2>1, <1>0, <1>b DEF RetryAfterUnauthorized, OneShot
<1>8. ASSUME NEW s \in Requests, ReceiveFailure(s) PROVE Goal
  <2>1. CASE pc' = [pc EXCEPT ![s] = "backoff"] /\ UNCHANGED outcome
    BY <1>8, <2>1, <1>0, <1>c DEF ReceiveFailure
  <2>2. CASE reply[s] \in {"busy", "refused"} /\ Settle(s, reply[s])
    BY <1>8, <2>2, <1>0, <1>a DEF ReceiveFailure, OneShot, Outcomes
  <2>3. CASE reply[s] = "unauthorized" /\ Settle(s, "unauthorized")
    BY <1>8, <2>3, <1>0, <1>a DEF ReceiveFailure, OneShot, Outcomes
  <2> QED BY <1>8, <2>1, <2>2, <2>3 DEF ReceiveFailure
<1>9. ASSUME RefreshResolves PROVE Goal
  BY <1>9, <1>0, <1>c DEF RefreshResolves, wireVars
<1>10. ASSUME RefreshRejects PROVE Goal
  <2>1. PICK code \in {"auth_refresh_failed", "network_error"} :
          LET retries(r) == code = "network_error" /\ MayRetry(r)
          IN  /\ pc' = [r \in Requests |->
                          IF pc[r] # "waiting" THEN pc[r]
                          ELSE IF retries(r) THEN "backoff" ELSE "settled"]
              /\ outcome' = [r \in Requests |->
                          IF pc[r] = "waiting" /\ ~retries(r) THEN code ELSE outcome[r]]
    BY <1>10 DEF RefreshRejects
  <2> DEFINE R == {r \in Requests : pc[r] = "waiting" /\ pc'[r] = "settled"}
             a == AnswerOf[code]
  <2>2. applied' = applied
    BY <1>10 DEF RefreshRejects, wireVars
  <2>3. a \in {"refused", "unknown"} /\ a \in Call!Answers
    BY DEF AnswerOf, Call!Answers
  <2>4. \A r \in R : answer[r] = "awaited" /\ Call!AnswerTrue(r, a)
    BY <2>3, <1>0 DEF answer, AnswerOf, AnyCall, OneShot, Untouched, Call!AnswerTrue, Call!Once
  <2>5. answer' = [r \in Requests |-> IF r \in R THEN a ELSE answer[r]]
    <3>1. ASSUME NEW r \in Requests
          PROVE  answer'[r] = IF r \in R THEN a ELSE answer[r]
      BY <2>1 DEF answer
    <3> QED BY <3>1 DEF answer
  <2>6. CASE R = {}
    BY <2>2, <2>5, <2>6, NothingTold DEF answer
  <2>7. CASE R # {}
    BY <2>2, <2>3, <2>4, <2>5, <2>7 DEF Call!Next, Call!Settle
  <2> QED BY <2>6, <2>7
<1>11. ASSUME MintToken \/ TokenAges PROVE Goal
  BY <1>11, <1>c DEF MintToken, TokenAges, callVars, wireVars
<1>12. ASSUME NEW m \in sent, Process(m) PROVE Goal
  <2>1. m.req \in Requests /\ UNCHANGED <<pc, outcome>>
    BY <1>12 DEF Process, TypeInv, TypeOK, Messages, callVars
  <2>2. CASE UNCHANGED applied
    BY <2>1, <2>2, <1>c
  <2>3. CASE applied' = [applied EXCEPT ![m.req] = @ + 1]
    <3>1. ~Unsent(m.req)
      BY DEF Unsent
    <3>2. m.req \notin Retryable =>
              /\ applied[m.req] = 0
              /\ outcome[m.req] \notin {"unauthorized", "refused", "auth_refresh_failed"}
      BY <2>1, <3>1, <1>0 DEF OneShot, Untouched
    <3>3. pc[m.req] # "idle" /\ outcome[m.req] \in Outcomes
      BY <2>1, <3>1, <1>0 DEF AnyCall
    <3>4. answer[m.req] = AnswerOf[outcome[m.req]]
      BY <2>1, <3>3 DEF answer
    <3>5. answer[m.req] # "none" /\ (answer[m.req] = "refused" => m.req \in Retryable)
      BY <3>2, <3>3, <3>4 DEF AnswerOf, Outcomes
    <3>6. UNCHANGED answer
      BY <2>1 DEF answer
    <3> QED BY <2>1, <2>3, <3>2, <3>5, <3>6 DEF Call!Next, Call!CarryOut, Call!Once
  <2> QED BY <1>12, <2>2, <2>3 DEF Process
<1>13. ASSUME NEW m \in sent, Lose(m) PROVE Goal
  BY <1>13, <1>c DEF Lose, callVars
<1>14. CASE UNCHANGED vars
  BY <1>14, <1>c DEF vars
<1> QED
  BY <1>1, <1>2, <1>3, <1>4, <1>5, <1>6, <1>7, <1>8, <1>9, <1>10, <1>11, <1>12, <1>13, <1>14
     DEF Next, ClientStep, UpstreamStep

\* run() and the provider together implement the abstract call: whatever the schedule of
\* refreshes, retries, timeouts and late messages, each call is answered once and truly.
THEOREM KeepsPromiseHolds == Spec => KeepsPromise
<1>1. Spec => [](TypeInv /\ CallInv)
  BY TypeInvariant, CallInvariant, PTL
<1> QED BY <1>1, InitPromise, StepPromise, PTL DEF Spec, KeepsPromise, Call!Spec
=============================================================================
