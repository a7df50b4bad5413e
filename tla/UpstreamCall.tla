---------------------------- MODULE UpstreamCall ----------------------------
(***************************************************************************)
(* What a call through the MCPHub client promises its caller, whatever     *)
(* becomes of tokens, messages and timers: it is answered once, an answer  *)
(* that vouches for something is true and stays true, and a call that is   *)
(* not repeatable takes effect once at the most.  UpstreamClient is shown  *)
(* to implement it.                                                        *)
(***************************************************************************)
EXTENDS Naturals

CONSTANTS Requests, Repeatable

VARIABLES answer,    \* what the caller of each call knows
          effects    \* how often the upstream carried it out

callVars == <<answer, effects>>

\* refused: it was not carried out; unknown: it may have been, or may still be
Answers == {"none", "awaited", "done", "refused", "unknown"}

Init ==
    /\ answer = [r \in Requests |-> "none"]
    /\ effects = [r \in Requests |-> 0]

Tell(r, a) == answer' = [answer EXCEPT ![r] = a]

Once(r) == r \notin Repeatable => effects[r] = 0

Ask(r) ==
    /\ answer[r] = "none"
    /\ Tell(r, "awaited")
    /\ UNCHANGED effects

\* a call that is refused on the spot was never asked of the upstream
TurnAway(r) ==
    /\ answer[r] = "none"
    /\ Tell(r, "refused")
    /\ UNCHANGED effects

\* an abandoned call may take effect later, a refused one may not
CarryOut(r) ==
    /\ answer[r] # "none" /\ Once(r)
    /\ answer[r] = "refused" => r \in Repeatable
    /\ effects' = [effects EXCEPT ![r] = @ + 1]
    /\ UNCHANGED answer

AnswerTrue(r, a) ==
    \/ a = "done" /\ effects[r] > 0
    \/ a = "refused" /\ Once(r)
    \/ a = "unknown"

\* several calls that wait for one token are answered together
Settle ==
    /\ \E R \in SUBSET Requests, a \in Answers :
        /\ R # {}
        /\ \A r \in R : answer[r] = "awaited" /\ AnswerTrue(r, a)
        /\ answer' = [r \in Requests |-> IF r \in R THEN a ELSE answer[r]]
    /\ UNCHANGED effects

Next ==
    \/ \E r \in Requests : Ask(r) \/ TurnAway(r) \/ CarryOut(r)
    \/ Settle

Spec == Init /\ [][Next]_callVars
=============================================================================
