--------------------------- MODULE MCHttpGateway ---------------------------
(* Instances of HttpGateway for TLC.                                        *)
EXTENDS HttpGateway, TLC

ToolCall == [shape |-> "request", meta |-> TRUE, version |-> "modern",
             versionHeader |-> "modern", method |-> "tools/call",
             methodHeader |-> "tools/call", name |-> "reload", nameHeader |-> "reload"]
Cancelled == [ToolCall EXCEPT !.shape = "notification", !.name = "none",
              !.method = "notifications/cancelled",
              !.methodHeader = "notifications/cancelled"]
MCMessages == {ToolCall, Cancelled}
MCKnown == {"tools/call"}

\* a token bound to ops and a browser session, on a path that takes ops
Good == [host |-> TRUE, path |-> "ops", origin |-> "none", method |-> "POST",
         bearer |-> "t", cookie |-> "c", body |-> "ok", msg |-> ToolCall]
StaticTokens == [t |-> 1]

\* what gets to the limiter, or falls through to another mechanism on its way
Callers == {Good, [Good EXCEPT !.bearer = "u"], [Good EXCEPT !.cookie = None, !.path = "all"],
            [Good EXCEPT !.msg = Cancelled]}
\* what else gets there, and what does not
Others == {[Good EXCEPT !.path = "admin"], [Good EXCEPT !.bearer = None, !.origin = "allowed"],
           [Good EXCEPT !.body = "too_large"], [Good EXCEPT !.method = "GET", !.body = "garbled"],
           [Good EXCEPT !.host = FALSE], [Good EXCEPT !.path = "healthz"],
           [Good EXCEPT !.path = "other"], [Good EXCEPT !.path = "unparsable"], [Good EXCEPT !.origin = "foreign"],
           [Good EXCEPT !.method = "OPTIONS"], [Good EXCEPT !.bearer = None, !.cookie = None]}

CONSTANTS q1, q2
TwoRequests == {q1, q2}
\* any two kinds of request meet when one of them is an ordinary one
CallerAndAny == [q \in TwoRequests |-> IF q = q1 THEN Callers ELSE Callers \cup Others]

Hybrid == [mode |-> "stateless", authMode |-> "hybrid"]
Stateful == [mode : {"stateful"}, authMode : {"static", "oauth", "better-auth", "hybrid"}]
AnyConfig == Stateful \cup {Hybrid}
=============================================================================
