--------------------------- MODULE ResourcePoller ---------------------------
(***************************************************************************)
(* The log poller of a stdio session (src/src/mcp/server.ts): a timer      *)
(* reads the upstream's logs and tells the MCP client when they changed.   *)
(* The timer does not wait for the poll before, so polls overlap when the  *)
(* upstream is slower than the interval.  The promise of a poll is         *)
(* discarded (void): when it rejects, Node ends the process, for which no  *)
(* unhandledRejection handler is installed.                                *)
(***************************************************************************)
EXTENDS Naturals

CONSTANTS
    Polls,           \* polls that may be under way at once
    MaxEntries,      \* bound: entries the upstream logs in a run
    MaxClears,       \* bound: times its logs are cleared in a run
    MaxFailures      \* bound: reads of the logs that fail in a run

ASSUME BoundsAssumption == MaxEntries \in Nat /\ MaxClears \in Nat /\ MaxFailures \in Nat

Contents == 0 .. MaxEntries      \* cleared, or up to the n-th entry
NoContent == MaxEntries + 1      \* lastLogsPayload === '', also: no answer yet

VARIABLES
    logs,            \* the upstream's logs
    connected,       \* server.isConnected(); the interval is cleared when it ends
    alive,           \* the process
    last,            \* lastLogsPayload
    listing,         \* polls awaiting client.logs.list()
    reply,           \* what the upstream answered to each poll
    told,            \* a resources/updated notification is on its way
    held,            \* the logs as the MCP client has last read them
    entries, clears, failures

counters == <<entries, clears, failures>>
vars == <<logs, connected, alive, last, listing, reply, told, held, entries, clears, failures>>

TypeOK ==
    /\ logs \in Contents /\ held \in Contents /\ last \in Contents \cup {NoContent}
    /\ connected \in BOOLEAN /\ alive \in BOOLEAN /\ told \in BOOLEAN
    /\ listing \subseteq Polls
    /\ reply \in [Polls -> Contents \cup {NoContent}]
    /\ entries \in 0 .. MaxEntries /\ clears \in 0 .. MaxClears /\ failures \in 0 .. MaxFailures

-----------------------------------------------------------------------------
\* the upstream logs one more entry
Log ==
    /\ entries < MaxEntries /\ entries' = entries + 1
    /\ logs' = entries + 1
    /\ UNCHANGED <<connected, alive, last, listing, reply, told, held, clears, failures>>

\* its logs are cleared (mcphub_clear_logs, or someone else's client)
Clear ==
    /\ clears < MaxClears /\ clears' = clears + 1
    /\ logs' = 0
    /\ UNCHANGED <<connected, alive, last, listing, reply, told, held, entries, failures>>

\* the interval fires and the session is connected: a poll starts
Fire(p) ==
    /\ alive /\ connected /\ p \notin listing
    /\ listing' = listing \cup {p}
    /\ reply' = [reply EXCEPT ![p] = NoContent]
    /\ UNCHANGED <<logs, connected, alive, last, told, held, counters>>

\* the upstream answers client.logs.list()
Serve(p) ==
    /\ p \in listing /\ reply[p] = NoContent
    /\ reply' = [reply EXCEPT ![p] = logs]
    /\ UNCHANGED <<logs, connected, alive, last, listing, told, held, counters>>

\* mutant: the first sample is taken for what the client holds already
AnnounceFromSecond == told' = (told \/ last # NoContent)

\* sendResourceUpdated
Announce == told' = TRUE

\* the answer arrives: compared, remembered, announced; sendResourceUpdated rejects
\* when the session was closed in the meantime
Receive(p) ==
    /\ alive /\ p \in listing /\ reply[p] # NoContent
    /\ listing' = listing \ {p}
    /\ last' = reply[p]
    /\ \/ reply[p] = last /\ UNCHANGED <<told, alive>>
       \/ reply[p] # last /\ connected /\ Announce /\ UNCHANGED alive
       \/ reply[p] # last /\ ~connected /\ alive' = FALSE /\ UNCHANGED told
    /\ UNCHANGED <<logs, connected, reply, held, counters>>

\* client.logs.list() rejects, its retries used up
Fail(p) ==
    /\ alive /\ p \in listing /\ reply[p] = NoContent
    /\ failures < MaxFailures /\ failures' = failures + 1
    /\ alive' = FALSE
    /\ UNCHANGED <<logs, connected, last, listing, reply, told, held, entries, clears>>

\* the MCP client reads the resource again
Reread ==
    /\ alive /\ connected /\ told
    /\ told' = FALSE /\ held' = logs
    /\ UNCHANGED <<logs, connected, alive, last, listing, reply, counters>>

\* server.close()
Close ==
    /\ alive /\ connected /\ connected' = FALSE
    /\ UNCHANGED <<logs, alive, last, listing, reply, told, held, counters>>

Init ==
    /\ logs = 0 /\ held = 0
    /\ connected = TRUE /\ alive = TRUE /\ told = FALSE
    /\ last = NoContent /\ listing = {} /\ reply = [p \in Polls |-> NoContent]
    /\ entries = 0 /\ clears = 0 /\ failures = 0

Next ==
    \/ Log \/ Clear \/ Reread \/ Close
    \/ \E p \in Polls : Fire(p) \/ Serve(p) \/ Receive(p) \/ Fail(p)

Spec == Init /\ [][Next]_vars

\* the timer goes on, the upstream answers what it does not fail, answers are handled
\* as they arrive, and the client reads again when it is told to
FairSpec ==
    /\ Spec
    /\ WF_vars(Reread) /\ WF_vars(\E p \in Polls : Fire(p))
    /\ \A p \in Polls : WF_vars(Serve(p)) /\ WF_vars(Receive(p))

-----------------------------------------------------------------------------
\* Unless the logs are cleared, whatever polls are under way: when the client holds old
\* logs and nothing is on its way to it, a poll that reads the logs of now finds a
\* difference to announce - an older answer that comes in late never hides it.
NextPollNotices ==
    clears = 0 /\ connected /\ alive /\ ~told /\ held # logs => last # logs

\* Unless the logs are cleared: once they rest, the client comes to hold them, as long
\* as the session lasts and the process lives.
UpdatesWhileAlive == <>[](held = logs \/ clears > 0 \/ ~connected \/ ~alive)

\* The resource's description: "Clients may subscribe and reread on updates": a client
\* that does comes to hold the logs, as long as the session lasts.
UpdatesKeepComing == <>[](held = logs \/ ~connected)
=============================================================================
