------------------------------ MODULE MCRelease ------------------------------
(* Three commits of the upstream for Release: as in the snapshot, the router   *)
(* of the authenticated routes is mounted before the one it is mounted on; the *)
(* second, a prerelease, adds a route that the parser does not see and another *)
(* mount of the router; the third takes those back and adds a route that       *)
(* classify.ts has no case for, under a path whose last case takes all.        *)
EXTENDS Release

First ==
    <<Use("router", <<>>, "authenticatedRouter"),
      On("authenticatedRouter", "GET", <<"servers">>),
      On("app", "GET", <<"config">>),
      [On("app", "ALL", <<"better-auth">>) EXCEPT !.dynamic = TRUE],
      Use("app", <<"api">>, "router")>>
Second ==
    Front(First) \o <<On("router", "PATCH", <<"servers">>), Use("app", <<"v2">>, "router"), Last(First)>>
Third == <<On("authenticatedRouter", "DELETE", <<"prompts", "cache">>)>> \o First

Commits == <<First, Second, Third>>

\* a new version, and the directory of the first filled from the main branch
SomeFetches == {<<3, 3>>, <<2, 1>>}
=============================================================================
