-------------------------------- MODULE Routes --------------------------------
(***************************************************************************)
(* How the scripts read the routes of the upstream off its router source,  *)
(* src/routes/index.ts there (src/scripts/parse-routes.ts), and what the   *)
(* coverage matrix is held against (src/src/core/coverage/verify.ts).  A   *)
(* source is the sequence of its calls on the three routers; a path is the *)
(* sequence of its segments, which is what normalizePath makes of it.      *)
(***************************************************************************)
EXTENDS Naturals, FiniteSets, SequencesExt

Routers == {"app", "authenticatedRouter", "router"}

ROUTE_METHODS == {"ALL", "DELETE", "GET", "POST", "PUT"}

Paths == Seq(STRING)

Calls ==
    [call : {"use"}, router : Routers, path : Paths, child : Routers, through : BOOLEAN] \cup
    [call : {"route"}, router : Routers, method : STRING, path : Paths, dynamic : BOOLEAN]

Sources == Seq(Calls)

\* router.use(path, child); through: a middleware stands between the two
Use(router, path, child) ==
    [call |-> "use", router |-> router, path |-> path, child |-> child, through |-> FALSE]

\* router.get(path, handler) and so on; dynamic: the path holds a name the parser cannot
\* evaluate
On(router, method, path) ==
    [call |-> "route", router |-> router, method |-> method, path |-> path, dynamic |-> FALSE]

IsMount(call) == call.call = "use" /\ ~call.through

IsRoute(call) == call.call = "route" /\ call.method \in ROUTE_METHODS

\* mutant: a router keeps the prefixes of its last mount only
MountedLast(prefixes, call) ==
    IF ~IsMount(call) \/ prefixes[call.router] = {} THEN prefixes
    ELSE [prefixes EXCEPT ![call.child] = {p \o call.path : p \in prefixes[call.router]}]

Mounted(prefixes, call) ==
    IF IsMount(call)
    THEN [prefixes EXCEPT ![call.child] = @ \cup {p \o call.path : p \in prefixes[call.router]}]
    ELSE prefixes

\* once over the mounts, in the order of the source
Pass(source, prefixes) ==
    LET upTo[i \in 0 .. Len(source)] ==
            IF i = 0 THEN prefixes ELSE Mounted(upTo[i - 1], source[i])
    IN  upTo[Len(source)]

\* Passes until one changes nothing: in a source without a cycle of mounts a router lies at
\* most as many mounts deep as there are routers, in a source with one the loop does not
\* end.
computePrefixes(source) ==
    LET pass[n \in 0 .. Cardinality(Routers)] ==
            IF n = 0 THEN [r \in Routers |-> IF r = "app" THEN {<<>>} ELSE {}]
            ELSE Pass(source, pass[n - 1])
    IN  pass[Cardinality(Routers)]

\* the routes, each with the call it comes from; a router mounted nowhere is taken to be
\* at the root
parseRoutesFromSource(source) ==
    LET prefixes == computePrefixes(source)
        At(router) == IF prefixes[router] = {} THEN {<<>>} ELSE prefixes[router]
        Of(line) == {[line |-> line, method |-> source[line].method,
                      fullPath |-> prefix \o source[line].path,
                      includeInCoverage |-> ~source[line].dynamic]
                        : prefix \in At(source[line].router)}
    IN  UNION {Of(line) : line \in {l \in DOMAIN source : IsRoute(source[l])}}

routeKey(route) == <<route.method, route.fullPath>>

KeysOf(routes) == {routeKey(route) : route \in routes}

Coverageable(routes) == {route \in routes : route.includeInCoverage}

\* the keys of more than one route
Duplicate(routes) ==
    {routeKey(r) : r \in {s \in routes : \E t \in routes : t # s /\ routeKey(t) = routeKey(s)}}

\* COVERAGE is made from the routes of the package's own snapshot, and the extra keys are
\* looked for in those: there are none
verifyCoverageRoutes(COVERAGE, routes) ==
    [missingCoverageKeys |-> KeysOf(Coverageable(routes)) \ KeysOf(COVERAGE),
     extraCoverageKeys |-> {},
     duplicateCoverageKeys |-> Duplicate(COVERAGE)]

-----------------------------------------------------------------------------
\* What Express serves: a router is at the paths of the chains of mounts that lead to it
\* from the app.
Chains(source, router) ==
    LET Mounts == {call \in ToSet(source) : call.call = "use"}
        IsChain(c) == /\ c # <<>> => c[1].router = "app"
                      /\ \A i \in 2 .. Len(c) : c[i].router = c[i - 1].child
                      /\ (IF c = <<>> THEN "app" ELSE c[Len(c)].child) = router
    IN  {c \in UNION {[1 .. n -> Mounts] : n \in 0 .. Cardinality(Routers) - 1} : IsChain(c)}

PathOf(chain) == FlattenSeq([i \in DOMAIN chain |-> chain[i].path])

ServedBy(source, call) ==
    {<<call.method, PathOf(chain) \o call.path>> : chain \in Chains(source, call.router)}

\* what it serves by the calls that the parser does not give up on
Readable(source) ==
    UNION {ServedBy(source, call) : call \in {c \in ToSet(source) : IsRoute(c) /\ ~c.dynamic}}

\* Sources the parser can read: routers mounted without a cycle, and each router that has
\* routes is mounted, by calls the parser understands.
Legible(source) ==
    \A call \in ToSet(source) :
        IF call.call = "use"
        THEN /\ <<call.router, call.child>> \in
                    {<<"app", "router">>, <<"app", "authenticatedRouter">>,
                     <<"router", "authenticatedRouter">>}
             /\ ~call.through
        ELSE Chains(source, call.router) # {}
=============================================================================
