-------------------------- MODULE StatelessDispatch --------------------------
(***************************************************************************)
(* One POST of the stateless Streamable HTTP mode, from its parsed body to *)
(* its response: handleStatelessHttpRequest and DirectResponseTransport of *)
(* src/src/transports/http/stateless.ts.  Each request has a transport and *)
(* an MCP server of its own; the tool handler the server starts is not     *)
(* cancelled when its caller has been answered.                            *)
(***************************************************************************)
EXTENDS Naturals

CONSTANTS
    Requests,        \* HTTP requests
    Messages,        \* parsed bodies with the headers that came along
    Known            \* methods the MCP server has a handler for

VARIABLES
    pc,              \* idle, connecting, awaiting (dispatchRequest), settled, done
    message,         \* the message of each request
    pending,         \* transport.pending is set, its 10 s timer is running
    settled,         \* what the dispatch promise was settled with
    handler,         \* the MCP server's handler: none, running, finished
    status,          \* status code written to the response, 0 before it
    audited,         \* requests with a line in the audit log
    applied          \* history: upstream calls made by the handler

dispatchVars == <<pc, message, pending, settled, handler, status, audited, applied>>

\* what extractModernRequest, extractModernMeta and the headers amount to: the shape
\* of the body, whether _meta is complete, the protocol version of body and header,
\* the method of body and header, params.name/uri ("none" when the method has none)
\* and its header
Message == [shape : {"request", "notification", "other"}, meta : BOOLEAN,
            version : {"modern", "old"}, versionHeader : {"none", "modern", "old"},
            method : STRING, methodHeader : STRING, name : STRING, nameHeader : STRING]

ASSUME MessagesAssumption == Messages \subseteq Message

DispatchTypeOK ==
    /\ pc \in [Requests -> {"idle", "connecting", "awaiting", "settled", "done"}]
    /\ message \in [Requests -> Messages]
    /\ pending \in [Requests -> BOOLEAN]
    /\ settled \in [Requests -> {"none", "result", "not_found", "error", "timeout"}]
    /\ handler \in [Requests -> {"none", "running", "finished"}]
    /\ status \in [Requests -> Nat]
    /\ audited \subseteq Requests
    /\ applied \in [Requests -> Nat]

-----------------------------------------------------------------------------
\* the checks of handleStatelessHttpRequest, in their order; each answers 400
Refusal(m) ==
    IF m.shape = "other" THEN "invalid_request"
    ELSE IF ~m.meta THEN "metadata"
    ELSE IF m.versionHeader # m.version THEN "version_mismatch"
    ELSE IF m.version # "modern" THEN "unsupported_version"
    ELSE IF m.methodHeader # m.method THEN "method_mismatch"
    ELSE IF m.name # "none" /\ m.nameHeader # m.name THEN "name_mismatch"
    ELSE "none"

Respond(q, code) ==
    /\ pc' = [pc EXCEPT ![q] = "done"]
    /\ status' = [status EXCEPT ![q] = code]

Refuse(q, m) ==
    /\ Refusal(m) # "none"
    /\ Respond(q, 400)
    /\ UNCHANGED audited

\* creating the client throws (an upstream profile nobody configured), or
\* auditLogger.record() does (the audit file cannot be written)
AuditFails(q, m) ==
    /\ Refusal(m) = "none"
    /\ Respond(q, 500)
    /\ UNCHANGED audited

Discover(q, m) ==
    /\ Refusal(m) = "none" /\ m.method = "server/discover"
    /\ audited' = audited \cup {q}
    /\ Respond(q, 200)

\* mutant: the request is connected, and recorded never
BeginUnaudited(q, m) ==
    /\ Refusal(m) = "none" /\ m.method # "server/discover"
    /\ pc' = [pc EXCEPT ![q] = "connecting"]
    /\ UNCHANGED <<status, audited>>

\* a client, a server and a transport are created, the request is recorded and the
\* server connects
Begin(q, m) ==
    /\ Refusal(m) = "none" /\ m.method # "server/discover"
    /\ audited' = audited \cup {q}
    /\ pc' = [pc EXCEPT ![q] = "connecting"]
    /\ UNCHANGED status

\* handleStatelessHttpRequest up to its first await
Handle(q) ==
    /\ pc[q] = "idle"
    /\ LET m == message[q] IN Refuse(q, m) \/ AuditFails(q, m) \/ Discover(q, m) \/ Begin(q, m)
    /\ UNCHANGED <<message, pending, settled, handler, applied>>

Notification(q) == message[q].shape = "notification"

\* dispatchNotification; nothing in the server reacts to a notification
DispatchNotification(q) ==
    /\ pc[q] = "connecting" /\ Notification(q)
    /\ Respond(q, 202)
    /\ UNCHANGED <<message, pending, settled, handler, audited, applied>>

\* dispatchRequest: the timer is armed, the server starts the handler
DispatchRequest(q) ==
    /\ pc[q] = "connecting" /\ ~Notification(q)
    /\ pc' = [pc EXCEPT ![q] = "awaiting"]
    /\ pending' = [pending EXCEPT ![q] = TRUE]
    /\ handler' = [handler EXCEPT ![q] = "running"]
    /\ UNCHANGED <<message, settled, status, audited, applied>>

\* the handler calls the upstream (a tool or a resource)
CallUpstream(q) ==
    /\ handler[q] = "running" /\ message[q].method \in Known /\ applied[q] = 0
    /\ applied' = [applied EXCEPT ![q] = @ + 1]
    /\ UNCHANGED <<pc, message, pending, settled, handler, status, audited>>

\* what the MCP server answers to a message
Answers(m) == IF m.method \in Known THEN {"result", "error"} ELSE {"not_found"}

\* the promise is settled once, while pending is set
Settle(q, with) ==
    /\ pending' = [pending EXCEPT ![q] = FALSE]
    /\ settled' = [settled EXCEPT ![q] = with]
    /\ pc' = [pc EXCEPT ![q] = "settled"]

\* the handler returns: transport.send(), which drops what comes too late
Send(q) ==
    /\ handler[q] = "running"
    /\ handler' = [handler EXCEPT ![q] = "finished"]
    /\ \/ pending[q] /\ \E a \in Answers(message[q]) : Settle(q, a)
       \/ ~pending[q] /\ UNCHANGED <<pending, settled, pc>>
    /\ UNCHANGED <<message, status, audited, applied>>

\* mutant: only a request whose handler is through times out
TimeoutWaits(q) ==
    /\ pending[q] /\ handler[q] = "finished"
    /\ Settle(q, "timeout")
    /\ UNCHANGED <<message, handler, status, audited, applied>>

\* the 10 s timer fires
Timeout(q) ==
    /\ pending[q]
    /\ Settle(q, "timeout")
    /\ UNCHANGED <<message, handler, status, audited, applied>>

\* mutant: an error of the server is answered 500
StatusErrors500(s) ==
    CASE s = "result" -> 200 [] s = "not_found" -> 404 [] s \in {"error", "timeout"} -> 500

\* a rejected promise ends in the 500 of the caller's catch
StatusOf(s) ==
    CASE s = "result" -> 200 [] s = "not_found" -> 404 [] s = "error" -> 400
      [] s = "timeout" -> 500

\* the response is written; finally, transport and server are closed
Complete(q) ==
    /\ pc[q] = "settled"
    /\ Respond(q, StatusOf(settled[q]))
    /\ UNCHANGED <<message, pending, settled, handler, audited, applied>>

DispatchInit ==
    /\ pc = [q \in Requests |-> "idle"]
    /\ message \in [Requests -> Messages]
    /\ pending = [q \in Requests |-> FALSE]
    /\ settled = [q \in Requests |-> "none"]
    /\ handler = [q \in Requests |-> "none"]
    /\ status = [q \in Requests |-> 0]
    /\ audited = {}
    /\ applied = [q \in Requests |-> 0]

DispatchStep(q) ==
    \/ DispatchNotification(q) \/ DispatchRequest(q)
    \/ CallUpstream(q) \/ Send(q) \/ Timeout(q) \/ Complete(q)

DispatchNext == \E q \in Requests : Handle(q) \/ DispatchStep(q)

DispatchSpec == DispatchInit /\ [][DispatchNext]_dispatchVars

\* timers fire and continuations run; a handler need not return
FairDispatchSpec ==
    /\ DispatchSpec
    /\ \A q \in Requests :
        /\ WF_dispatchVars(Handle(q))
        /\ WF_dispatchVars(DispatchNotification(q)) /\ WF_dispatchVars(DispatchRequest(q))
        /\ WF_dispatchVars(Timeout(q)) /\ WF_dispatchVars(Complete(q))

-----------------------------------------------------------------------------
\* Nothing is done upstream for a request that has no line in the audit log: the line
\* is written before the handler starts and a failing write ends the request.
AuditBeforeEffect == \A q \in Requests : applied[q] > 0 => q \in audited

\* A request whose handler is still at work when it has been answered was answered 500
\* because its timer ran out, and this is the only way an answer can be wrong about
\* what the upstream has done or will still do: 4xx answers other than the server's
\* own error mean that nothing was tried.
AnswerTellsTheTruth ==
    \A q \in Requests : pc[q] = "done" =>
        /\ handler[q] = "running" => status[q] = 500
        /\ status[q] \in {200, 202, 404} => handler[q] # "running"
        /\ applied[q] > 0 => status[q] \in {200, 400, 500}
        /\ status[q] = 500 /\ q \in audited => settled[q] = "timeout"

\* Every request is answered, though its handler may never return.
EveryMessageAnswered == \A q \in Requests : <>(status[q] # 0)
=============================================================================
