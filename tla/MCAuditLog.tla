----------------------------- MODULE MCAuditLog -----------------------------
(* Deployments of the audit sink: one process that is killed twice, and two  *)
(* processes that share the file.                                            *)
EXTENDS AuditLog

CONSTANTS p, q

Alone(maxFiles, sizes) ==
    [writers |-> {p}, maxBytes |-> 3, maxFiles |-> maxFiles, sizes |-> sizes,
     records |-> maxFiles + 4, crashes |-> 2]

Shared == [writers |-> {p, q}, maxBytes |-> 2, maxFiles |-> 2, sizes |-> {1, 2},
           records |-> 4, crashes |-> 2]

AloneAndShared ==
    {Alone(0, {1, 3, 4}), Alone(1, {1, 3, 4}), Alone(2, {1, 3, 4}), Alone(4, {1, 3}), Shared}
=============================================================================
