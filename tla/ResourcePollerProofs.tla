------------------------ MODULE ResourcePollerProofs ------------------------
(***************************************************************************)
(* No change of the logs goes unnoticed by the polls to come, for any      *)
(* number of polls that overlap and of entries, clearings and failures.    *)
(***************************************************************************)
EXTENDS ResourcePoller, TLAPS

Seen == {last} \cup {reply[p] : p \in Polls}

\* Logs that are never cleared only grow, so what was sampled is not newer than they are,
\* and what was sampled last is what the client knows of or will hear of.
Grown ==
    /\ logs = entries
    /\ \A sample \in Seen : sample <= logs \/ sample = NoContent
    /\ connected /\ alive /\ last = logs => told \/ held = logs

IInv == TypeOK /\ (clears = 0 => Grown)

\* Nothing has been sampled at first.
LEMMA InitIInv == Init => IInv
<1> SUFFICES ASSUME Init PROVE IInv OBVIOUS
<1> USE BoundsAssumption DEF BoundsAssumption, Contents, NoContent
<1>1. TypeOK
  <2>1. /\ logs \in Contents /\ held \in Contents /\ entries \in 0 .. MaxEntries
        /\ clears \in 0 .. MaxClears /\ failures \in 0 .. MaxFailures
    BY DEF Init
  <2>2. connected \in BOOLEAN /\ alive \in BOOLEAN /\ told \in BOOLEAN
    BY DEF Init
  <2>3. last = NoContent /\ listing = {} /\ reply = [p \in Polls |-> NoContent]
    BY DEF Init
  <2> QED BY <2>1, <2>2, <2>3 DEF TypeOK
<1>2. Grown
  <2>1. Seen = {NoContent} \/ Seen = {} BY DEF Init, Seen
  <2> QED BY <2>1 DEF Init, Grown
<1> QED BY <1>1, <1>2 DEF IInv

\* Each variable stays in its range.
LEMMA StepType == TypeOK /\ [Next]_vars => TypeOK'
<1> SUFFICES ASSUME TypeOK, [Next]_vars PROVE TypeOK' OBVIOUS
<1> USE BoundsAssumption DEF BoundsAssumption, TypeOK, Contents, NoContent
<1>1. CASE Log BY <1>1 DEF Log
<1>2. CASE Clear BY <1>2 DEF Clear
<1>3. CASE Reread BY <1>3 DEF Reread, counters
<1>4. CASE Close BY <1>4 DEF Close, counters
<1>5. ASSUME NEW p \in Polls, Fire(p) PROVE TypeOK' BY <1>5 DEF Fire, counters
<1>6. ASSUME NEW p \in Polls, Serve(p) PROVE TypeOK' BY <1>6 DEF Serve, counters
<1>7. ASSUME NEW p \in Polls, Receive(p) PROVE TypeOK' BY <1>7 DEF Receive, Announce, counters
<1>8. ASSUME NEW p \in Polls, Fail(p) PROVE TypeOK'
  <2>1. failures' \in 0 .. MaxFailures BY <1>8 DEF Fail
  <2>2. UNCHANGED <<logs, connected, last, listing, reply, told, held, entries, clears>> /\ alive' = FALSE
    BY <1>8 DEF Fail
  <2> QED BY <2>1, <2>2
<1>9. CASE UNCHANGED vars BY <1>9 DEF vars
<1> QED BY <1>1, <1>2, <1>3, <1>4, <1>5, <1>6, <1>7, <1>8, <1>9 DEF Next

\* An entry makes the logs newer than every sample; a sample that differs from the one
\* before is announced; a client that rereads holds the logs of now.
LEMMA StepIInv == IInv /\ [Next]_vars => IInv'
<1> SUFFICES ASSUME TypeOK, clears = 0 => Grown, [Next]_vars, clears' = 0 PROVE Grown'
  BY StepType DEF IInv
<1> USE BoundsAssumption DEF BoundsAssumption, TypeOK, Contents, NoContent
<1>1. clears = 0
  BY DEF Next, Log, Clear, Reread, Close, Fire, Serve, Receive, Fail, counters, vars
<1>2. Grown BY <1>1
<1>3. CASE Log BY <1>2, <1>3 DEF Log, Grown, Seen
<1>4. CASE Clear BY <1>1, <1>4 DEF Clear
<1>5. CASE Reread BY <1>2, <1>5 DEF Reread, Grown, Seen, counters
<1>6. CASE Close BY <1>2, <1>6 DEF Close, Grown, Seen, counters
<1>7. ASSUME NEW p \in Polls, Fire(p) PROVE Grown'
  BY <1>2, <1>7 DEF Fire, Grown, Seen, counters
<1>8. ASSUME NEW p \in Polls, Serve(p) PROVE Grown'
  BY <1>2, <1>8 DEF Serve, Grown, Seen, counters
<1>9. ASSUME NEW p \in Polls, Receive(p) PROVE Grown'
  <2>1. last' = reply[p] /\ UNCHANGED <<logs, connected, reply, held, entries>>
    BY <1>9 DEF Receive, counters
  <2>2. Seen' \subseteq Seen BY <2>1 DEF Seen
  <2>3. CASE reply[p] = last
    BY <1>2, <1>9, <2>1, <2>2, <2>3 DEF Receive, Grown
  <2>4. CASE reply[p] # last
    <3>1. connected' /\ alive' => told' BY <1>9, <2>1, <2>4 DEF Receive, Announce
    <3> QED BY <1>2, <2>1, <2>2, <3>1 DEF Grown
  <2> QED BY <2>3, <2>4
<1>10. ASSUME NEW p \in Polls, Fail(p) PROVE Grown'
  BY <1>2, <1>10 DEF Fail, Grown, Seen
<1>11. CASE UNCHANGED vars BY <1>2, <1>11 DEF vars, Grown, Seen
<1> QED BY <1>3, <1>4, <1>5, <1>6, <1>7, <1>8, <1>9, <1>10, <1>11 DEF Next

\* Unless the logs are cleared, a client that holds old logs and is not told so will be:
\* they differ from what was sampled last.
THEOREM NextPollNoticesHolds == Spec => []NextPollNotices
<1>1. IInv => NextPollNotices BY DEF IInv, Grown, NextPollNotices
<1> QED BY InitIInv, StepIInv, <1>1, PTL DEF Spec
=============================================================================
