-------------------------- MODULE MCUpstreamClient --------------------------
(* Instances of UpstreamClient for TLC: a call that may be retried (a GET)  *)
(* and one that may not (a POST), sharing one credential provider.          *)
EXTENDS UpstreamClient, TLC

CONSTANTS get, post

OneEach == {get, post}
OnlyGet == {get}
=============================================================================
