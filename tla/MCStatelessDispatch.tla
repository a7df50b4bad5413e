------------------------ MODULE MCStatelessDispatch ------------------------
(* Instances of StatelessDispatch for TLC: a message for every outcome of   *)
(* the checks, and for every kind of dispatch.                              *)
EXTENDS StatelessDispatch

ToolCall == [shape |-> "request", meta |-> TRUE, version |-> "modern",
             versionHeader |-> "modern", method |-> "tools/call",
             methodHeader |-> "tools/call", name |-> "reload", nameHeader |-> "reload"]

Method(m) == [ToolCall EXCEPT !.method = m, !.methodHeader = m, !.name = "none"]

Served == {ToolCall, Method("tools/unheard_of"), Method("server/discover"),
           [Method("notifications/cancelled") EXCEPT !.shape = "notification"]}

Refused == {[ToolCall EXCEPT !.shape = "other"], [ToolCall EXCEPT !.meta = FALSE],
            [ToolCall EXCEPT !.versionHeader = "old"],
            [ToolCall EXCEPT !.version = "old", !.versionHeader = "old"],
            [ToolCall EXCEPT !.methodHeader = "tools/list"],
            [ToolCall EXCEPT !.nameHeader = "none"]}

AllMessages == Served \cup Refused
KnownMethods == {"tools/call", "tools/list"}
=============================================================================
