---------------------------- MODULE ReleaseProofs ----------------------------
(***************************************************************************)
(* What holds of the routes that the scripts read, and of the files made   *)
(* from them, for every history of the upstream that the parser can read.  *)
(***************************************************************************)
EXTENDS Release, FiniteSetTheorems, WellFoundedInduction, TLAPS

\* Induction over a set of numbers.
LEMMA SetInduction ==
    ASSUME NEW S, 0 \in S, \A n \in Nat : n \in S => n + 1 \in S
    PROVE  Nat \subseteq S
<1> DEFINE T == Nat \ S
           R == {p \in Nat \X Nat : p[1] < p[2]}
<1> SUFFICES ASSUME T # {} PROVE FALSE OBVIOUS
<1>1. IsWellFoundedOn(R, Nat) BY NatLessThanWellFounded DEF OpToRel
<1>2. PICK x \in T : \A y \in T : ~(<<y, x>> \in R)
  <2>1. T \subseteq Nat OBVIOUS
  <2> HIDE DEF T, R
  <2> QED BY <1>1, <2>1, WFMin
<1>3. x \in Nat /\ x - 1 \in Nat /\ x - 1 + 1 = x OBVIOUS
<1>4. x - 1 \in T /\ <<x - 1, x>> \in R BY <1>3
<1> QED BY <1>2, <1>4

-----------------------------------------------------------------------------
(* The parser finds each router where Express has it.                      *)

\* the paths at which child is mounted on parent
MountPaths(source, parent, child) ==
    {call.path : call \in {c \in ToSet(source) : IsMount(c) /\ c.router = parent /\ c.child = child}}

ThroughRouter(source) ==
    {pair[1] \o pair[2] : pair \in MountPaths(source, "app", "router") \X
                                   MountPaths(source, "router", "authenticatedRouter")}

\* the paths of a router
PathsTo(source, router) ==
    CASE router = "app" -> {<<>>}
      [] router = "router" -> MountPaths(source, "app", "router")
      [] router = "authenticatedRouter" ->
            MountPaths(source, "app", "authenticatedRouter") \cup ThroughRouter(source)
Reach(source) == [r \in Routers |-> PathsTo(source, r)]

LEMMA ReachIs ==
    ASSUME NEW source
    PROVE  /\ Reach(source)["app"] = {<<>>}
           /\ Reach(source)["router"] = MountPaths(source, "app", "router")
           /\ \A x : x \in Reach(source)["authenticatedRouter"] <=>
                \/ x \in MountPaths(source, "app", "authenticatedRouter")
                \/ \E p \in MountPaths(source, "app", "router") :
                    \E q \in MountPaths(source, "router", "authenticatedRouter") : x = p \o q
<1>1. \A r \in Routers : Reach(source)[r] = PathsTo(source, r) BY DEF Reach
<1>2. {"app", "router", "authenticatedRouter"} \subseteq Routers BY DEF Routers
<1>3. PathsTo(source, "authenticatedRouter")
         = MountPaths(source, "app", "authenticatedRouter") \cup ThroughRouter(source)
  BY DEF PathsTo
<1>4. PathsTo(source, "app") = {<<>>} BY DEF PathsTo
<1>5. PathsTo(source, "router") = MountPaths(source, "app", "router") BY DEF PathsTo
<1>6. \A x : x \in ThroughRouter(source) <=>
         \E p \in MountPaths(source, "app", "router") :
         \E q \in MountPaths(source, "router", "authenticatedRouter") : x = p \o q
  <2> DEFINE A == MountPaths(source, "app", "router")
             B == MountPaths(source, "router", "authenticatedRouter")
  <2>1. ThroughRouter(source) = {pair[1] \o pair[2] : pair \in A \X B} BY DEF ThroughRouter
  <2> HIDE DEF A, B
  <2>2. ASSUME NEW p \in A, NEW q \in B PROVE p \o q \in ThroughRouter(source)
    <3>1. <<p, q>> \in A \X B /\ <<p, q>>[1] = p /\ <<p, q>>[2] = q OBVIOUS
    <3> QED BY <2>1, <3>1
  <2>3. ASSUME NEW x \in ThroughRouter(source) PROVE \E p \in A : \E q \in B : x = p \o q
    <3>1. PICK pair \in A \X B : x = pair[1] \o pair[2] BY <2>1
    <3>2. pair[1] \in A /\ pair[2] \in B OBVIOUS
    <3> QED BY <3>1, <3>2
  <2>4. \A x : x \in ThroughRouter(source) <=> \E p \in A : \E q \in B : x = p \o q
    BY <2>2, <2>3
  <2> QED BY <2>4 DEF A, B
<1> QED BY <1>1, <1>2, <1>3, <1>4, <1>5, <1>6

\* What a call of a source looks like.
LEMMA CallIs ==
    ASSUME NEW source \in Sources, NEW call \in ToSet(source)
    PROVE  /\ call \in Calls /\ call.path \in Paths /\ call.router \in Routers
           /\ call.call \in {"use", "route"}
           /\ call.call = "use" => call.child \in Routers
BY DEF Sources, Calls, ToSet

\* Another mount leads from where a router is to where its child is.
LEMMA ReachClosed ==
    ASSUME NEW source \in Sources, Legible(source),
           NEW call \in ToSet(source), call.call = "use", NEW p \in Reach(source)[call.router]
    PROVE  p \o call.path \in Reach(source)[call.child]
<1>1. call.path \in Seq(STRING) BY CallIs DEF Paths
<1>2. IsMount(call) BY DEF Legible, IsMount
<1>3. <<call.router, call.child>> \in {<<"app", "router">>, <<"app", "authenticatedRouter">>,
                                       <<"router", "authenticatedRouter">>}
  BY DEF Legible
<1>4. call.path \in MountPaths(source, call.router, call.child) BY <1>2 DEF MountPaths
<1>5. CASE call.router = "app"
  <2>1. p = <<>> BY <1>5, ReachIs DEF Routers
  <2>2. p \o call.path = call.path BY <1>1, <2>1
  <2> QED BY <1>3, <1>4, <1>5, <2>2, ReachIs DEF Routers
<1>6. CASE call.router = "router"
  <2>1. call.child = "authenticatedRouter" BY <1>3, <1>6
  <2>2. p \in MountPaths(source, "app", "router") BY <1>6, ReachIs DEF Routers
  <2> QED BY <1>4, <1>6, <2>1, <2>2, ReachIs DEF Routers
<1> QED BY <1>3, <1>5, <1>6

\* The recursion of Pass, unfolded.
LEMMA PassUnfolds ==
    ASSUME NEW source \in Sources, NEW prefixes
    PROVE  \E u : /\ u[0] = prefixes /\ Pass(source, prefixes) = u[Len(source)]
                  /\ \A i \in 1 .. Len(source) : u[i] = Mounted(u[i - 1], source[i])
<1> DEFINE Unfolds(u, n) ==
        u = [i \in 0 .. n |-> IF i = 0 THEN prefixes ELSE Mounted(u[i - 1], source[i])]
           S == {n \in Nat : \E u : Unfolds(u, n)}
<1>1. 0 \in S
  <2>1. Unfolds([i \in 0 .. 0 |-> prefixes], 0) OBVIOUS
  <2> QED BY <2>1
<1>2. ASSUME NEW n \in Nat, n \in S PROVE n + 1 \in S
  <2>1. PICK u : Unfolds(u, n) BY <1>2
  <2> DEFINE g == [i \in 0 .. n + 1 |-> IF i = n + 1 THEN Mounted(u[n], source[n + 1]) ELSE u[i]]
  <2>2. ASSUME NEW i \in 0 .. n + 1
        PROVE  g[i] = IF i = 0 THEN prefixes ELSE Mounted(g[i - 1], source[i])
    <3>1. CASE i = n + 1
      <4>1. i # 0 /\ i - 1 = n /\ n \in 0 .. n + 1 /\ n # n + 1 BY <3>1
      <4> QED BY <3>1, <4>1
    <3>2. CASE i = 0
      <4>1. 0 \in 0 .. n /\ 0 # n + 1 OBVIOUS
      <4>2. u[0] = prefixes BY <2>1, <4>1
      <4> QED BY <3>2, <4>1, <4>2
    <3>3. CASE i # 0 /\ i # n + 1
      <4>1. i \in 0 .. n /\ i - 1 \in 0 .. n + 1 /\ i - 1 # n + 1 BY <3>3
      <4>2. g[i] = u[i] /\ g[i - 1] = u[i - 1] BY <3>3, <4>1
      <4>3. u[i] = Mounted(u[i - 1], source[i]) BY <2>1, <3>3, <4>1
      <4> QED BY <3>3, <4>2, <4>3
    <3> QED BY <3>1, <3>2, <3>3
  <2>3. Unfolds(g, n + 1) BY <2>2
  <2> HIDE DEF Unfolds, g
  <2> QED BY <2>3
<1>3. Len(source) \in Nat BY DEF Sources
<1>4. \E u : Unfolds(u, Len(source))
  <2> HIDE DEF S
  <2>1. Nat \subseteq S BY <1>1, <1>2, SetInduction
  <2> QED BY <1>3, <2>1 DEF S
<1> DEFINE upTo == CHOOSE u : Unfolds(u, Len(source))
<1>5. Unfolds(upTo, Len(source)) BY <1>4
<1>6. Pass(source, prefixes) = upTo[Len(source)] BY DEF Pass
<1> HIDE DEF upTo
<1>7. upTo[0] = prefixes BY <1>3, <1>5
<1>8. \A i \in 1 .. Len(source) : upTo[i] = Mounted(upTo[i - 1], source[i])
  BY <1>3, <1>5
<1> QED BY <1>6, <1>7, <1>8

IsPrefixes(prefixes) == prefixes = [r \in Routers |-> prefixes[r]]

\* A pass finds no path that is not one of the router's, keeps what it has, and sees every
\* mount.
LEMMA PassWithin ==
    ASSUME NEW source \in Sources, Legible(source),
           NEW prefixes, IsPrefixes(prefixes),
           \A r \in Routers : prefixes[r] \subseteq Reach(source)[r]
    PROVE  /\ IsPrefixes(Pass(source, prefixes))
           /\ \A r \in Routers : /\ prefixes[r] \subseteq Pass(source, prefixes)[r]
                                 /\ Pass(source, prefixes)[r] \subseteq Reach(source)[r]
           /\ \A call \in ToSet(source) : call.call = "use" =>
                \A p \in prefixes[call.router] : p \o call.path \in Pass(source, prefixes)[call.child]
<1>1. PICK u : /\ u[0] = prefixes /\ Pass(source, prefixes) = u[Len(source)]
               /\ \A i \in 1 .. Len(source) : u[i] = Mounted(u[i - 1], source[i])
  BY PassUnfolds
<1> DEFINE Fine(n) ==
        /\ IsPrefixes(u[n])
        /\ \A r \in Routers : prefixes[r] \subseteq u[n][r] /\ u[n][r] \subseteq Reach(source)[r]
        /\ \A i \in 1 .. n : source[i].call = "use" =>
             \A p \in prefixes[source[i].router] : p \o source[i].path \in u[n][source[i].child]
           S == {n \in Nat : n <= Len(source) => Fine(n)}
<1>2. Len(source) \in Nat /\ DOMAIN source = 1 .. Len(source) BY DEF Sources
<1>3. 0 \in S BY <1>1
<1>4. ASSUME NEW n \in Nat, n \in S PROVE n + 1 \in S
  <2> SUFFICES ASSUME n + 1 <= Len(source) PROVE Fine(n + 1) OBVIOUS
  <2>1. Fine(n) BY <1>2, <1>4
  <2>2. n + 1 \in 1 .. Len(source) /\ n + 1 - 1 = n BY <1>2
  <2> DEFINE call == source[n + 1]
  <2>3. u[n + 1] = Mounted(u[n], call) BY <1>1, <2>2
  <2>4. call \in ToSet(source) BY <1>2, <2>2 DEF ToSet
  <2>5. \A i \in 1 .. n + 1 : i \in 1 .. n \/ i = n + 1 OBVIOUS
  <2>6. CASE call.call # "use"
    <3>1. u[n + 1] = u[n] BY <2>3, <2>6 DEF Mounted, IsMount
    <3> QED BY <2>1, <2>5, <2>6, <3>1
  <2>7. CASE call.call = "use"
    <3>1. IsMount(call) /\ call.router \in Routers /\ call.child \in Routers
      BY <2>4, <2>7, CallIs DEF Legible, IsMount
    <3>2. u[n + 1] = [u[n] EXCEPT ![call.child] = @ \cup {p \o call.path : p \in u[n][call.router]}]
      BY <2>3, <3>1 DEF Mounted
    <3>3. \A p \in u[n][call.router] : p \o call.path \in Reach(source)[call.child]
      BY <2>1, <2>4, <2>7, <3>1, ReachClosed
    <3> HIDE DEF call
    <3>4. /\ IsPrefixes(u[n + 1])
          /\ u[n + 1][call.child] = u[n][call.child] \cup {p \o call.path : p \in u[n][call.router]}
          /\ \A r \in Routers : r # call.child => u[n + 1][r] = u[n][r]
      <4>1. u[n] = [r \in Routers |-> u[n][r]] BY <2>1 DEF IsPrefixes
      <4> QED BY <3>1, <3>2, <4>1 DEF IsPrefixes
    <3>5. \A r \in Routers : u[n][r] \subseteq u[n + 1][r] /\ u[n + 1][r] \subseteq Reach(source)[r]
      <4> SUFFICES ASSUME NEW r \in Routers
                   PROVE  u[n][r] \subseteq u[n + 1][r] /\ u[n + 1][r] \subseteq Reach(source)[r]
        OBVIOUS
      <4>1. u[n][r] \subseteq Reach(source)[r] BY <2>1
      <4>2. CASE r = call.child
        <5>1. {p \o call.path : p \in u[n][call.router]} \subseteq Reach(source)[call.child]
          BY <3>3
        <5> QED BY <3>4, <4>1, <4>2, <5>1
      <4>3. CASE r # call.child BY <3>4, <4>1, <4>3
      <4> QED BY <4>2, <4>3
    <3>6. ASSUME NEW i \in 1 .. n + 1, source[i].call = "use", NEW p \in prefixes[source[i].router]
          PROVE  p \o source[i].path \in u[n + 1][source[i].child]
      <4>1. CASE i = n + 1 BY <2>1, <3>1, <3>4, <3>6, <4>1 DEF call
      <4>2. CASE i \in 1 .. n
        <5>1. source[i] \in ToSet(source) BY <1>2, <2>2, <4>2 DEF ToSet
        <5>2. source[i].child \in Routers BY <3>6, <5>1, CallIs
        <5>3. p \o source[i].path \in u[n][source[i].child] BY <2>1, <3>6, <4>2
        <5> QED BY <3>5, <5>2, <5>3
      <4> QED BY <2>5, <4>1, <4>2
    <3> QED BY <2>1, <3>4, <3>5, <3>6
  <2> QED BY <2>6, <2>7
<1>5. Fine(Len(source))
  <2> HIDE DEF S
  <2>1. Nat \subseteq S BY <1>3, <1>4, SetInduction
  <2> QED BY <1>2, <2>1 DEF S
<1>6. \A call \in ToSet(source) : \E i \in 1 .. Len(source) : source[i] = call
  BY <1>2 DEF ToSet
<1>7. ASSUME NEW call \in ToSet(source), call.call = "use", NEW p \in prefixes[call.router]
      PROVE  p \o call.path \in Pass(source, prefixes)[call.child]
  BY <1>1, <1>5, <1>6, <1>7
<1>8. IsPrefixes(Pass(source, prefixes)) BY <1>1, <1>5
<1>9. \A r \in Routers : /\ prefixes[r] \subseteq Pass(source, prefixes)[r]
                         /\ Pass(source, prefixes)[r] \subseteq Reach(source)[r]
  BY <1>1, <1>5
<1> QED BY <1>7, <1>8, <1>9

LEMMA PassSees ==
    ASSUME NEW source \in Sources, Legible(source),
           NEW prefixes, IsPrefixes(prefixes),
           \A r \in Routers : prefixes[r] \subseteq Reach(source)[r],
           NEW parent, NEW child, NEW p \in prefixes[parent],
           NEW q \in MountPaths(source, parent, child)
    PROVE  p \o q \in Pass(source, prefixes)[child] /\ q \in Seq(STRING)
<1>1. PICK call \in ToSet(source) :
          IsMount(call) /\ call.router = parent /\ call.child = child /\ call.path = q
  BY DEF MountPaths
<1>2. call.call = "use" BY <1>1 DEF IsMount
<1> QED BY <1>1, <1>2, PassWithin, CallIs DEF Paths

LEMMA RoutersCount == Cardinality(Routers) = 3
  <1>1. IsFiniteSet({}) /\ Cardinality({}) = 0 BY FS_EmptySet
  <1>2. IsFiniteSet({"app"}) /\ Cardinality({"app"}) = 1
    BY <1>1, FS_AddElement, {} \cup {"app"} = {"app"}
  <1>3. IsFiniteSet({"app", "router"}) /\ Cardinality({"app", "router"}) = 2
    BY <1>2, FS_AddElement, {"app"} \cup {"router"} = {"app", "router"}
  <1>4. Routers = {"app", "router"} \cup {"authenticatedRouter"} BY DEF Routers
  <1> QED BY <1>3, <1>4, FS_AddElement

\* Three passes find everything: the last but one has the router right.
LEMMA ComputePrefixesIs ==
    ASSUME NEW source \in Sources, Legible(source)
    PROVE  computePrefixes(source) = Reach(source)
<1> DEFINE Root == [r \in Routers |-> IF r = "app" THEN {<<>>} ELSE {}]
           First == Pass(source, Root)
           Second == Pass(source, First)
           Third == Pass(source, Second)
<1>1. computePrefixes(source) = Third
  <2>1. Cardinality(Routers) = 3 BY RoutersCount
  <2> DEFINE Unfolds(f) ==
          f = [n \in 0 .. 3 |-> IF n = 0 THEN Root ELSE Pass(source, f[n - 1])]
             made == [n \in 0 .. 3 |-> IF n = 0 THEN Root ELSE IF n = 1 THEN First
                                      ELSE IF n = 2 THEN Second ELSE Third]
             pass == CHOOSE f : Unfolds(f)
  <2>2. Unfolds(made)
    <3> HIDE DEF Root
    <3>1. ASSUME NEW n \in 0 .. 3
          PROVE  made[n] = IF n = 0 THEN Root ELSE Pass(source, made[n - 1])
      <4>1. n = 0 \/ n = 1 \/ n = 2 \/ n = 3 OBVIOUS
      <4> QED BY <4>1
    <3> QED BY <3>1
  <2>3. Unfolds(pass)
    <3> HIDE DEF Unfolds, made
    <3> QED BY <2>2
  <2>4. computePrefixes(source) = pass[3] BY <2>1 DEF computePrefixes
  <2> HIDE DEF Root, pass
  <2>5. pass[0] = Root /\ pass[1] = First /\ pass[2] = Second /\ pass[3] = Third
    BY <2>3
  <2> QED BY <2>4, <2>5
<1> DEFINE Within(prefixes) ==
        IsPrefixes(prefixes) /\ \A r \in Routers : prefixes[r] \subseteq Reach(source)[r]
<1>2. Within(Root) BY ReachIs DEF IsPrefixes, Routers
<1> HIDE DEF Root
<1>3. Within(First) BY <1>2, PassWithin
<1> HIDE DEF First
<1>4. Within(Second) BY <1>3, PassWithin DEF First
<1> HIDE DEF Second
<1>5. Within(Third) /\ \A r \in Routers : Second[r] \subseteq Third[r]
  BY <1>4, PassWithin
<1>6. <<>> \in Root["app"] /\ <<>> \in First["app"] /\ <<>> \in Second["app"]
  <2>1. <<>> \in Root["app"] BY DEF Root, Routers
  <2>2. \A r \in Routers : Root[r] \subseteq First[r] /\ First[r] \subseteq Second[r]
    BY <1>2, <1>3, PassWithin DEF First, Second
  <2> QED BY <2>1, <2>2 DEF Routers
<1> DEFINE Direct(child) == MountPaths(source, "app", child)
<1>7. ASSUME NEW child \in Routers PROVE Direct(child) \subseteq First[child]
  <2> SUFFICES ASSUME NEW q \in Direct(child) PROVE q \in First[child] OBVIOUS
  <2>1. <<>> \o q \in First[child] /\ q \in Seq(STRING)
    BY <1>2, <1>6, PassSees DEF First
  <2> QED BY <2>1
<1>8. \A r \in Routers : First[r] \subseteq Second[r]
  BY <1>3, PassWithin DEF Second
<1>9. \A p \in Direct("router"), q \in MountPaths(source, "router", "authenticatedRouter") :
          p \o q \in Second["authenticatedRouter"]
  <2>1. Direct("router") \subseteq First["router"] BY <1>7 DEF Routers
  <2> QED BY <1>3, <2>1, PassSees DEF Second
<1>10. \A r \in Routers : Reach(source)[r] \subseteq Second[r]
  <2>1. Reach(source)["app"] \subseteq Second["app"] BY <1>6, ReachIs DEF Routers
  <2>2. Reach(source)["router"] \subseteq Second["router"]
    BY <1>7, <1>8, ReachIs DEF Routers
  <2>3. Direct("authenticatedRouter") \subseteq Second["authenticatedRouter"]
    BY <1>7, <1>8 DEF Routers
  <2>4. Reach(source)["authenticatedRouter"] \subseteq Second["authenticatedRouter"]
    <3> SUFFICES ASSUME NEW x \in Reach(source)["authenticatedRouter"]
                 PROVE  x \in Second["authenticatedRouter"]
      OBVIOUS
    <3>1. \/ x \in Direct("authenticatedRouter")
          \/ \E p \in Direct("router") :
              \E q \in MountPaths(source, "router", "authenticatedRouter") : x = p \o q
      BY ReachIs
    <3> QED BY <1>9, <2>3, <3>1
  <2> QED BY <2>1, <2>2, <2>4 DEF Routers
<1>11. \A r \in Routers : Third[r] = Reach(source)[r]
  BY <1>5, <1>10
<1>12. Third = [r \in Routers |-> Third[r]] BY <1>5 DEF IsPrefixes
<1>13. Reach(source) = [r \in Routers |-> Reach(source)[r]] BY DEF Reach
<1> HIDE DEF Third
<1> QED BY <1>1, <1>11, <1>12, <1>13

\* The path of a chain of no, one or two mounts.
LEMMA PathOfIs ==
    /\ PathOf(<<>>) = <<>>
    /\ \A m : PathOf(<<m>>) = m.path
    /\ \A m, n : PathOf(<<m, n>>) = m.path \o n.path
<1>1. PathOf(<<>>) = <<>>
  <2>1. [i \in DOMAIN <<>> |-> <<>>[i].path] = <<>> OBVIOUS
  <2> QED BY <2>1 DEF PathOf, FlattenSeq
<1>2. ASSUME NEW m PROVE PathOf(<<m>>) = m.path
  <2>1. [i \in DOMAIN <<m>> |-> <<m>>[i].path] = <<m.path>> OBVIOUS
  <2> DEFINE Unfolds(f) ==
          f = [i \in 1 .. 1 |-> IF i = 1 THEN <<m.path>>[i] ELSE f[i - 1] \o <<m.path>>[i]]
             flatten == CHOOSE f : Unfolds(f)
             made == [i \in 1 .. 1 |-> m.path]
  <2>2. Len(<<m.path>>) = 1 OBVIOUS
  <2>3. FlattenSeq(<<m.path>>) = flatten[1] BY <2>2 DEF FlattenSeq
  <2>4. Unfolds(made) OBVIOUS
  <2>5. Unfolds(flatten)
    <3> HIDE DEF Unfolds, made
    <3> QED BY <2>4
  <2> HIDE DEF flatten
  <2>6. flatten[1] = m.path BY <2>5
  <2> QED BY <2>1, <2>3, <2>6 DEF PathOf
<1>3. ASSUME NEW m, NEW n PROVE PathOf(<<m, n>>) = m.path \o n.path
  <2> DEFINE paths == <<m.path, n.path>>
  <2>1. [i \in DOMAIN <<m, n>> |-> <<m, n>>[i].path] = paths OBVIOUS
  <2> DEFINE Unfolds(f) ==
          f = [i \in 1 .. 2 |-> IF i = 1 THEN paths[i] ELSE f[i - 1] \o paths[i]]
             flatten == CHOOSE f : Unfolds(f)
             second == m.path \o n.path
             made == [i \in 1 .. 2 |-> IF i = 1 THEN m.path ELSE second]
  <2>2. Len(paths) = 2 /\ paths[1] = m.path /\ paths[2] = n.path OBVIOUS
  <2> HIDE DEF paths, second
  <2>3. FlattenSeq(paths) = flatten[2] BY <2>2 DEF FlattenSeq
  <2>4. Unfolds(made)
    <3>1. ASSUME NEW i \in 1 .. 2
          PROVE  made[i] = IF i = 1 THEN paths[i] ELSE made[i - 1] \o paths[i]
      <4>1. CASE i = 1 BY <2>2, <4>1
      <4>2. CASE i = 2
        <5>1. made[1] = m.path /\ made[2] = second OBVIOUS
        <5>2. i # 1 /\ i - 1 = 1 BY <4>2
        <5> HIDE DEF made
        <5> QED BY <2>2, <4>2, <5>1, <5>2 DEF second
      <4> QED BY <4>1, <4>2
    <3> QED BY <3>1
  <2>5. Unfolds(flatten)
    <3> HIDE DEF Unfolds, made
    <3> QED BY <2>4
  <2> HIDE DEF flatten
  <2>6. flatten[1] = m.path BY <2>2, <2>5
  <2>7. flatten[2] = flatten[1] \o paths[2]
    <3>1. 2 \in 1 .. 2 /\ 2 # 1 /\ 2 - 1 = 1 OBVIOUS
    <3> QED BY <2>5, <3>1
  <2> QED BY <2>1, <2>2, <2>3, <2>6, <2>7 DEF PathOf
<1> QED BY <1>1, <1>2, <1>3

\* A chain from the app has at most two mounts.
LEMMA ChainIs ==
    ASSUME NEW source \in Sources, Legible(source), NEW router \in Routers,
           NEW c \in Chains(source, router)
    PROVE  \/ c = <<>> /\ router = "app"
           \/ \E m \in ToSet(source) : /\ c = <<m>> /\ IsMount(m)
                                       /\ m.router = "app" /\ m.child = router
           \/ \E m, n \in ToSet(source) :
                /\ c = <<m, n>> /\ IsMount(m) /\ IsMount(n)
                /\ m.router = "app" /\ m.child = "router"
                /\ n.router = "router" /\ n.child = "authenticatedRouter"
                /\ router = "authenticatedRouter"
<1> DEFINE Mounts == {call \in ToSet(source) : call.call = "use"}
<1>1. PICK k \in 0 .. 2 :
        /\ c \in [1 .. k -> Mounts]
        /\ c # <<>> => c[1].router = "app"
        /\ \A i \in 2 .. Len(c) : c[i].router = c[i - 1].child
        /\ (IF c = <<>> THEN "app" ELSE c[Len(c)].child) = router
  <2>1. Cardinality(Routers) - 1 = 2 BY RoutersCount
  <2> QED BY <2>1 DEF Chains
<1>2. \A m \in Mounts :
        /\ m \in ToSet(source) /\ IsMount(m)
        /\ <<m.router, m.child>> \in {<<"app", "router">>, <<"app", "authenticatedRouter">>,
                                      <<"router", "authenticatedRouter">>}
  BY DEF Legible, IsMount
<1> HIDE DEF Mounts
<1>3. CASE k = 0
  <2>1. c = <<>> BY <1>1, <1>3
  <2> QED BY <1>1, <2>1
<1>4. CASE k = 1
  <2>1. c = <<c[1]>> /\ c[1] \in Mounts /\ Len(c) = 1 /\ c # <<>> BY <1>1, <1>4
  <2> QED BY <1>1, <1>2, <2>1
<1>5. CASE k = 2
  <2>1. c = <<c[1], c[2]>> /\ c[1] \in Mounts /\ c[2] \in Mounts /\ Len(c) = 2 /\ c # <<>>
    BY <1>1, <1>5
  <2>2. /\ c[1].router = "app" /\ c[2].router = c[1].child /\ c[2].child = router
    BY <1>1, <2>1
  <2> QED BY <1>2, <2>1, <2>2
<1> QED BY <1>1, <1>3, <1>4, <1>5

LEMMA IsAChain ==
    ASSUME NEW source \in Sources
    PROVE  /\ <<>> \in Chains(source, "app")
           /\ \A m \in ToSet(source) : m.call = "use" /\ m.router = "app" =>
                <<m>> \in Chains(source, m.child)
           /\ \A m, n \in ToSet(source) :
                m.call = "use" /\ m.router = "app" /\ n.call = "use" /\ n.router = m.child =>
                    <<m, n>> \in Chains(source, n.child)
<1> DEFINE Mounts == {call \in ToSet(source) : call.call = "use"}
<1>1. Cardinality(Routers) - 1 = 2 BY RoutersCount
<1>2. <<>> \in Chains(source, "app")
  <2>1. <<>> \in [1 .. 0 -> Mounts] /\ 0 \in 0 .. 2 /\ Len(<<>>) = 0 OBVIOUS
  <2>2. <<>> \in UNION {[1 .. n -> Mounts] : n \in 0 .. Cardinality(Routers) - 1}
    BY <1>1, <2>1
  <2>3. 2 .. Len(<<>>) = {} BY <2>1
  <2>4. /\ <<>> # <<>> => <<>>[1].router = "app"
        /\ \A i \in 2 .. Len(<<>>) : <<>>[i].router = <<>>[i - 1].child
        /\ (IF <<>> = <<>> THEN "app" ELSE <<>>[Len(<<>>)].child) = "app"
    BY <2>3
  <2> HIDE DEF Mounts
  <2>5. <<>> \in {c \in UNION {[1 .. n -> Mounts] : n \in 0 .. Cardinality(Routers) - 1} :
                    /\ c # <<>> => c[1].router = "app"
                    /\ \A i \in 2 .. Len(c) : c[i].router = c[i - 1].child
                    /\ (IF c = <<>> THEN "app" ELSE c[Len(c)].child) = "app"}
    BY <2>2, <2>4
  <2> QED BY <2>5 DEF Chains, Mounts
<1>3. ASSUME NEW m \in ToSet(source), m.call = "use", m.router = "app"
      PROVE  <<m>> \in Chains(source, m.child)
  <2>1. m \in Mounts BY <1>3
  <2>2. <<m>> \in [1 .. 1 -> Mounts] /\ 1 \in 0 .. 2 BY <2>1
  <2>3. <<m>> \in UNION {[1 .. n -> Mounts] : n \in 0 .. 2} BY <2>2
  <2>4. Len(<<m>>) = 1 /\ <<m>>[1] = m /\ <<m>> # <<>> OBVIOUS
  <2> QED BY <1>1, <1>3, <2>3, <2>4 DEF Chains
<1>4. ASSUME NEW m \in ToSet(source), NEW n \in ToSet(source), m.call = "use",
             m.router = "app", n.call = "use", n.router = m.child
      PROVE  <<m, n>> \in Chains(source, n.child)
  <2>1. m \in Mounts /\ n \in Mounts BY <1>4
  <2>2. <<m, n>> \in [1 .. 2 -> Mounts] /\ 2 \in 0 .. 2
    <3> HIDE DEF Mounts
    <3> QED BY <2>1
  <2>3. <<m, n>> \in UNION {[1 .. k -> Mounts] : k \in 0 .. 2} BY <2>2
  <2>4. Len(<<m, n>>) = 2 /\ <<m, n>>[1] = m /\ <<m, n>>[2] = n /\ <<m, n>> # <<>> OBVIOUS
  <2>5. \A i \in 2 .. Len(<<m, n>>) : <<m, n>>[i].router = <<m, n>>[i - 1].child
    BY <1>4, <2>4
  <2> QED BY <1>1, <1>4, <2>3, <2>4, <2>5 DEF Chains
<1> QED BY <1>2, <1>3, <1>4

\* Express has a router where Reach has it.
LEMMA ChainsAre ==
    ASSUME NEW source \in Sources, Legible(source), NEW router \in Routers
    PROVE  \A x : x \in Reach(source)[router] <=> \E c \in Chains(source, router) : x = PathOf(c)
<1>1. ASSUME NEW c \in Chains(source, router) PROVE PathOf(c) \in Reach(source)[router]
  <2>1. CASE c = <<>> /\ router = "app" BY <2>1, PathOfIs, ReachIs
  <2>2. ASSUME NEW m \in ToSet(source), c = <<m>>, IsMount(m), m.router = "app", m.child = router
        PROVE  PathOf(c) \in Reach(source)[router]
    <3>1. m.call = "use" /\ m.path \in Seq(STRING) BY <2>2, CallIs DEF IsMount, Paths
    <3>2. <<>> \in Reach(source)[m.router] BY <2>2, ReachIs
    <3>3. <<>> \o m.path \in Reach(source)[m.child] BY <3>1, <3>2, ReachClosed
    <3>4. PathOf(c) = m.path BY <2>2, PathOfIs
    <3> QED BY <2>2, <3>1, <3>3, <3>4
  <2>3. ASSUME NEW m \in ToSet(source), NEW n \in ToSet(source), c = <<m, n>>,
               IsMount(m), IsMount(n), m.router = "app", m.child = "router",
               n.router = "router", n.child = "authenticatedRouter",
               router = "authenticatedRouter"
        PROVE  PathOf(c) \in Reach(source)[router]
    <3>1. m.path \in MountPaths(source, "app", "router") BY <2>3 DEF MountPaths
    <3>2. m.path \in Reach(source)[n.router] BY <2>3, <3>1, ReachIs
    <3>3. m.path \o n.path \in Reach(source)[n.child]
      BY <2>3, <3>2, ReachClosed DEF IsMount
    <3>4. PathOf(c) = m.path \o n.path BY <2>3, PathOfIs
    <3> QED BY <2>3, <3>3, <3>4
  <2> QED BY <2>1, <2>2, <2>3, ChainIs
<1>2. ASSUME NEW x \in Reach(source)[router] PROVE \E c \in Chains(source, router) : x = PathOf(c)
  <2>1. ASSUME NEW r, NEW y \in MountPaths(source, "app", r)
        PROVE  \E c \in Chains(source, r) : y = PathOf(c)
    <3>1. PICK m \in ToSet(source) :
              IsMount(m) /\ m.router = "app" /\ m.child = r /\ m.path = y
      BY <2>1 DEF MountPaths
    <3>2. <<m>> \in Chains(source, r) BY <3>1, IsAChain DEF IsMount
    <3>3. PathOf(<<m>>) = y BY <3>1, PathOfIs
    <3> QED BY <3>2, <3>3
  <2>2. CASE router = "app"
    <3>1. x = <<>> BY <2>2, ReachIs
    <3> QED BY <2>2, <3>1, IsAChain, PathOfIs
  <2>3. CASE router = "router"
    <3>1. x \in MountPaths(source, "app", "router") BY <2>3, ReachIs
    <3> QED BY <2>1, <2>3, <3>1
  <2>4. CASE router = "authenticatedRouter"
    <3>1. CASE x \in MountPaths(source, "app", "authenticatedRouter") BY <2>1, <2>4, <3>1
    <3>2. ASSUME NEW p \in MountPaths(source, "app", "router"),
                 NEW q \in MountPaths(source, "router", "authenticatedRouter"), x = p \o q
          PROVE  \E c \in Chains(source, router) : x = PathOf(c)
      <4>1. PICK m \in ToSet(source) :
                IsMount(m) /\ m.router = "app" /\ m.child = "router" /\ m.path = p
        BY <3>2 DEF MountPaths
      <4>2. PICK n \in ToSet(source) : /\ IsMount(n) /\ n.router = "router"
                                       /\ n.child = "authenticatedRouter" /\ n.path = q
        BY <3>2 DEF MountPaths
      <4>3. <<m, n>> \in Chains(source, "authenticatedRouter")
        BY <4>1, <4>2, IsAChain DEF IsMount
      <4>4. PathOf(<<m, n>>) = x BY <3>2, <4>1, <4>2, PathOfIs
      <4> QED BY <2>4, <4>3, <4>4
    <3>3. \/ x \in MountPaths(source, "app", "authenticatedRouter")
          \/ \E p \in MountPaths(source, "app", "router") :
              \E q \in MountPaths(source, "router", "authenticatedRouter") : x = p \o q
      BY <2>4, ReachIs
    <3> QED BY <3>1, <3>2, <3>3
  <2> QED BY <2>2, <2>3, <2>4 DEF Routers
<1> QED BY <1>1, <1>2

\* What the scripts read off a source that the parser can read is what Express serves by
\* it, but for the routes that the parser gives up on (parseRoutesFromSource).
THEOREM ParserReadsWhatExpressServes ==
    ASSUME NEW source \in Sources, Legible(source)
    PROVE  KeysOf(Coverageable(parseRoutesFromSource(source))) = Readable(source)
<1> DEFINE At(router) == IF computePrefixes(source)[router] = {} THEN {<<>>}
                         ELSE computePrefixes(source)[router]
           Of(line) == {[line |-> line, method |-> source[line].method,
                         fullPath |-> prefix \o source[line].path,
                         includeInCoverage |-> ~source[line].dynamic]
                          : prefix \in At(source[line].router)}
           Lines == {l \in DOMAIN source : IsRoute(source[l])}
<1>1. parseRoutesFromSource(source) = UNION {Of(line) : line \in Lines}
  BY DEF parseRoutesFromSource
<1>2. ASSUME NEW call \in ToSet(source), IsRoute(call)
      PROVE  \A p : p \in At(call.router) <=> \E c \in Chains(source, call.router) : p = PathOf(c)
  <2>1. call.router \in Routers /\ call.call # "use" BY <1>2, CallIs DEF IsRoute
  <2>2. Chains(source, call.router) # {} BY <2>1 DEF Legible
  <2>3. Reach(source)[call.router] # {} BY <2>1, <2>2, ChainsAre
  <2>4. At(call.router) = Reach(source)[call.router] BY <2>3, ComputePrefixesIs
  <2> QED BY <2>1, <2>4, ChainsAre
<1> HIDE DEF At
<1>3. \A l \in Lines : source[l] \in ToSet(source) /\ IsRoute(source[l]) BY DEF ToSet
<1>4. \A call \in ToSet(source) : \E l \in DOMAIN source : source[l] = call BY DEF ToSet
<1>5. ASSUME NEW key \in KeysOf(Coverageable(parseRoutesFromSource(source)))
      PROVE  key \in Readable(source)
  <2>1. PICK route \in parseRoutesFromSource(source) :
            route.includeInCoverage /\ key = routeKey(route)
    BY DEF KeysOf, Coverageable
  <2>2. PICK line \in Lines : route \in Of(line) BY <1>1, <2>1
  <2>3. PICK prefix \in At(source[line].router) :
            route = [line |-> line, method |-> source[line].method,
                     fullPath |-> prefix \o source[line].path,
                     includeInCoverage |-> ~source[line].dynamic]
    BY <2>2
  <2> DEFINE call == source[line]
  <2>4. call \in ToSet(source) /\ IsRoute(call) BY <1>3
  <2>5. ~call.dynamic /\ key = <<call.method, prefix \o call.path>>
    BY <2>1, <2>3 DEF routeKey
  <2> HIDE DEF call
  <2>6. prefix \in At(call.router) BY <2>3 DEF call
  <2>7. PICK c \in Chains(source, call.router) : prefix = PathOf(c) BY <1>2, <2>4, <2>6
  <2>8. key \in ServedBy(source, call) BY <2>5, <2>7 DEF ServedBy
  <2> QED BY <2>4, <2>5, <2>8 DEF Readable
<1>6. ASSUME NEW key \in Readable(source)
      PROVE  key \in KeysOf(Coverageable(parseRoutesFromSource(source)))
  <2>1. PICK call \in ToSet(source) :
            IsRoute(call) /\ ~call.dynamic /\ key \in ServedBy(source, call)
    BY DEF Readable
  <2>2. PICK c \in Chains(source, call.router) : key = <<call.method, PathOf(c) \o call.path>>
    BY <2>1 DEF ServedBy
  <2>3. PathOf(c) \in At(call.router) BY <1>2, <2>1, <2>2
  <2>4. PICK line \in Lines : source[line] = call BY <1>4, <2>1
  <2> DEFINE route == [line |-> line, method |-> source[line].method,
                       fullPath |-> PathOf(c) \o source[line].path,
                       includeInCoverage |-> ~source[line].dynamic]
  <2>5. route \in Of(line) BY <2>3, <2>4
  <2>6. route \in parseRoutesFromSource(source)
    <3> HIDE DEF Of, route, Lines
    <3> QED BY <1>1, <2>4, <2>5
  <2>7. route.includeInCoverage /\ routeKey(route) = key
    BY <2>1, <2>2, <2>4 DEF routeKey
  <2> HIDE DEF route
  <2> QED BY <2>6, <2>7 DEF KeysOf, Coverageable
<1> QED BY <1>5, <1>6

-----------------------------------------------------------------------------
\* What the coverage of a version lists is what the upstream serves there.
LEMMA ParsedIs ==
    ASSUME NEW v \in Versions
    PROVE  KeysOf(Coverageable(Parsed[v])) = ReadableOf[v]
<1>1. History[v] \in Sources /\ Legible(History[v])
  BY HistoryAssumption DEF Versions
<1>2. Parsed[v] = parseRoutesFromSource(History[v]) BY DEF Parsed
<1>3. ReadableOf[v] = Readable(History[v]) BY DEF ReadableOf
<1> QED BY <1>1, <1>2, <1>3, ParserReadsWhatExpressServes

LEMMA VersionsAre == Len(History) \in Nat \ {0} /\ Versions = 1 .. Len(History) /\ 1 \in Versions
BY HistoryAssumption DEF Versions

\* There is a latest stable release, the first one being stable.
LEMMA LatestStableReleaseIs ==
    ASSUME released \in Versions
    PROVE  /\ latestStableRelease \in 1 .. released /\ latestStableRelease \in Versions
           /\ latestStableRelease \notin Prereleases
           /\ \A w \in 1 .. released : w > latestStableRelease => w \in Prereleases
<1> DEFINE Latest(n, v) == v \notin Prereleases /\ \A w \in 1 .. n : w > v => w \in Prereleases
           S == {n \in Nat : n # 0 => \E v \in 1 .. n : Latest(n, v)}
<1>1. 0 \in S OBVIOUS
<1>2. ASSUME NEW n \in Nat, n \in S PROVE n + 1 \in S
  <2>1. CASE n + 1 \notin Prereleases
    <3>1. Latest(n + 1, n + 1) BY <2>1
    <3> QED BY <3>1
  <2>2. CASE n + 1 \in Prereleases
    <3>1. n # 0 BY <2>2, HistoryAssumption
    <3>2. PICK v \in 1 .. n : Latest(n, v) BY <1>2, <3>1
    <3>3. \A w \in 1 .. n + 1 : w \in 1 .. n \/ w = n + 1 OBVIOUS
    <3>4. Latest(n + 1, v) /\ v \in 1 .. n + 1 BY <2>2, <3>2, <3>3
    <3> QED BY <3>4
  <2> QED BY <2>1, <2>2
<1>3. released \in Nat /\ released # 0 /\ 1 .. released \subseteq Versions BY VersionsAre
<1>4. \E v \in 1 .. released : Latest(released, v)
  <2> HIDE DEF S
  <2>1. Nat \subseteq S BY <1>1, <1>2, SetInduction
  <2> QED BY <1>3, <2>1 DEF S
<1>5. latestStableRelease \in 1 .. released /\ Latest(released, latestStableRelease)
  BY <1>4 DEF latestStableRelease
<1> QED BY <1>3, <1>5

-----------------------------------------------------------------------------
(* The inductive invariant: what a script has yet to write is as good as   *)
(* what it read, which nobody else writes meanwhile.                       *)

Files == {"pinned", "targets", "upstream-mcphub.md", "compatibility.md", "api-coverage.md", "api-coverage.json", "tools", "snapshots", "SNAPSHOT_VERSION", "classified", "package"}

\* kept by hand
Edited == {"SNAPSHOT_VERSION", "classified", "package"}

\* the weekly job's
WeeklyFiles == {"pinned", "targets", "upstream-mcphub.md", "compatibility.md"}

\* a snapshot with routes has sources
HasSources(snapshots) ==
    /\ snapshots \in Snapshots
    /\ \A v \in Versions : snapshots[v].routes # 0 => snapshots[v].sources

Backed(targets, snapshots) ==
    /\ targets.pinned \in Versions
    /\ targets.hasRouteSnapshot =>
            snapshots[targets.pinned].sources /\ snapshots[targets.pinned].routes # 0

\* what is there stays there, whatever it is filled with
Grows(S, T) ==
    \A v \in Versions : /\ S[v].sources => T[v].sources
                        /\ S[v].routes # 0 => T[v].routes # 0

\* what may stand in a file, or come to stand there, beside these snapshots
Fits(file, content, snapshots) ==
    /\ file = "pinned" => content \in Versions
    /\ file = "targets" => Backed(content, snapshots)
    /\ file = "snapshots" => HasSources(content) /\ Grows(snapshots, content)

RepoInv ==
    /\ repo = [file \in Files |-> repo[file]]
    /\ \A file \in Files : Fits(file, repo[file], repo.snapshots)
    /\ repo.SNAPSHOT_VERSION \in Versions /\ repo.package \in Nat

\* the scripts still to be run
StepsInv ==
    IF job.weekly THEN \/ job.steps = WeeklySteps
                       \/ job.steps = <<"sync-compatibility-targets", "update-compatibility">>
                       \/ job.steps = <<"update-compatibility">>
                       \/ job.steps = <<>>
    ELSE job.steps = <<>> \/ \E script \in Scripts : job.steps = <<script>>

ChangesInv ==
    /\ job.changes = [file \in DOMAIN job.changes |-> job.changes[file]]
    /\ DOMAIN job.changes \subseteq (IF job.weekly THEN WeeklyFiles ELSE {})
    /\ \A file \in DOMAIN job.changes : Fits(file, job.changes[file], repo.snapshots)

Pending(write, weekly, snapshots) ==
    /\ write.file \in (IF weekly THEN WeeklyFiles ELSE Files \ Edited)
    /\ Fits(write.file, write.content, snapshots)

\* a snapshot is written in three steps, each of which keeps what the others wrote
Follows(v, w) ==
    v.file = "snapshots" => w.file = "snapshots" /\ Grows(v.content, w.content)

WritesFit(writes, weekly, snapshots) ==
    \/ writes = <<>>
    \/ \E w : writes = <<w>> /\ Pending(w, weekly, snapshots)
    \/ \E v, w : /\ writes = <<v, w>> /\ Follows(v, w)
                 /\ Pending(v, weekly, snapshots) /\ Pending(w, weekly, snapshots)
    \/ \E u, v, w : /\ writes = <<u, v, w>> /\ Follows(u, v) /\ Follows(u, w) /\ Follows(v, w)
                    /\ Pending(u, weekly, snapshots) /\ Pending(v, weekly, snapshots)
                    /\ Pending(w, weekly, snapshots)

WritesInv == WritesFit(job.writes, job.weekly, repo.snapshots)

JobInv ==
    /\ job = [steps |-> job.steps, writes |-> job.writes, weekly |-> job.weekly,
              changes |-> job.changes]
    /\ job.weekly \in BOOLEAN
    /\ StepsInv /\ ChangesInv /\ WritesInv

CountersInv ==
    /\ released \in Versions /\ head \in released .. Len(History)
    /\ watch \in {"none", "passed", "failed"}
    /\ failures \in 0 .. MaxFailures /\ published \in 0 .. repo.package

IInv == CountersInv /\ RepoInv /\ JobInv

LEMMA IdleIs == job = Idle => JobInv
<1> SUFFICES ASSUME job = Idle PROVE JobInv OBVIOUS
<1>1. job = [steps |-> <<>>, writes |-> <<>>, weekly |-> FALSE, changes |-> <<>>] BY DEF Idle
<1>2. job.steps = <<>> /\ job.writes = <<>> /\ job.weekly = FALSE /\ job.changes = <<>> BY <1>1
<1>3. DOMAIN job.changes = {} BY <1>2
<1>4. StepsInv BY <1>2 DEF StepsInv
<1>5. ChangesInv BY <1>2, <1>3 DEF ChangesInv
<1>6. WritesInv BY <1>2 DEF WritesInv, WritesFit
<1> QED BY <1>1, <1>2, <1>4, <1>5, <1>6 DEF JobInv

LEMMA IdleNext == (job = Idle)' => JobInv'
BY IdleIs, PTL

\* More snapshots do not unsettle a file.
LEMMA FitsStill ==
    ASSUME NEW file, NEW content, NEW S, NEW T, Fits(file, content, S), Grows(S, T),
           file # "snapshots"
    PROVE  Fits(file, content, T)
BY DEF Fits, Backed, Grows

\* What a script sees in its checkout.
LEMMA TreeIs ==
    ASSUME RepoInv, JobInv
    PROVE  /\ tree = [file \in Files |-> tree[file]]
           /\ \A file \in Files : Fits(file, tree[file], repo.snapshots)
           /\ \A file \in Files \ WeeklyFiles : tree[file] = repo[file]
           /\ tree.snapshots = repo.snapshots /\ tree.pinned \in Versions
           /\ tree.SNAPSHOT_VERSION = repo.SNAPSHOT_VERSION /\ tree.package = repo.package
<1>1. DOMAIN repo = Files BY DEF RepoInv
<1>2. tree = [f \in Files |-> IF f \in DOMAIN job.changes THEN job.changes[f] ELSE repo[f]]
  BY <1>1 DEF tree
<1>3. \A f \in Files : tree[f] = IF f \in DOMAIN job.changes THEN job.changes[f] ELSE repo[f]
  BY <1>2
<1>4. DOMAIN job.changes \subseteq WeeklyFiles BY DEF JobInv, ChangesInv
<1>5. tree = [file \in Files |-> tree[file]] BY <1>2
<1>6. \A file \in Files : Fits(file, tree[file], repo.snapshots)
  BY <1>3 DEF RepoInv, JobInv, ChangesInv
<1>7. \A file \in Files \ WeeklyFiles : tree[file] = repo[file] BY <1>3, <1>4
<1>8. {"snapshots", "SNAPSHOT_VERSION", "package"} \subseteq Files \ WeeklyFiles
  BY DEF Files, WeeklyFiles
<1>9. "pinned" \in Files BY DEF Files
<1>10. tree.pinned \in Versions BY <1>6, <1>9 DEF Fits
<1> QED BY <1>5, <1>6, <1>7, <1>8, <1>10

\* A script writes what fits.
LEMMA PlanFits ==
    ASSUME RepoInv, JobInv, released \in Versions, NEW script,
           script \in (IF job.weekly
                      THEN {"refresh-pinned-compatibility", "sync-compatibility-targets",
                            "update-compatibility"}
                      ELSE Scripts)
    PROVE  \A writes \in Plans(script) : WritesFit(writes, job.weekly, repo.snapshots)
<1> DEFINE Fit(writes) == WritesFit(writes, job.weekly, repo.snapshots)
<1>1. /\ WeeklyFiles \subseteq Files \ Edited
      /\ {"snapshots", "api-coverage.md", "api-coverage.json", "tools"} \subseteq Files \ Edited
      /\ {"pinned", "targets", "upstream-mcphub.md", "compatibility.md"} = WeeklyFiles
  BY DEF WeeklyFiles, Files, Edited
<1>2. job.weekly \in BOOLEAN BY DEF JobInv
<1>3. ASSUME NEW name, NEW content, name \in WeeklyFiles \/ (~job.weekly /\ name \in Files \ Edited),
             Fits(name, content, repo.snapshots)
      PROVE  Pending(File(name, content), job.weekly, repo.snapshots)
  BY <1>1, <1>2, <1>3 DEF Pending, File
<1>4. ASSUME NEW w, Pending(w, job.weekly, repo.snapshots) PROVE Fit(<<w>>)
  BY <1>4 DEF WritesFit
<1>5. ASSUME NEW name \in {"upstream-mcphub.md", "compatibility.md", "api-coverage.md", "api-coverage.json", "tools"},
             NEW content
      PROVE  Fits(name, content, repo.snapshots)
  BY DEF Fits
<1>6. CASE script = "fetch-routes-snapshot"
  <2> SUFFICES ASSUME NEW ref \in Versions, NEW directory \in Versions
               PROVE  Fit(fetchRoutesSnapshot(ref, directory))
    BY <1>6, BoundsAssumption, VersionsAre DEF Plans, DEFAULT_OPTIONS
  <2> DEFINE S == repo.snapshots
             old == S[directory]
             a == [old EXCEPT !.sources = TRUE]
             b == [old EXCEPT !.sources = TRUE, !.routes = ref]
             New(snapshot) == [S EXCEPT ![directory] = snapshot]
             Put(snapshot) == File("snapshots", New(snapshot))
  <2>1. tree.snapshots = S /\ HasSources(S) BY TreeIs DEF RepoInv, Fits, Files
  <2>2. fetchRoutesSnapshot(ref, directory) = <<Put(a), Put(b), Put(Snapshot(ref))>>
    BY <2>1 DEF fetchRoutesSnapshot, Into
  <2>3. S \in Snapshots /\ ref \in 0 .. Len(History) /\ ref # 0
    BY <2>1, VersionsAre DEF HasSources
  <2>4. old = [sources |-> old.sources, routes |-> old.routes, metadata |-> old.metadata]
        /\ old.sources \in BOOLEAN /\ old.routes \in 0 .. Len(History) /\ old.metadata \in BOOLEAN
    BY <2>3 DEF Snapshots
  <2> DEFINE Holds(snapshot) ==
        /\ snapshot \in [sources : BOOLEAN, routes : 0 .. Len(History), metadata : BOOLEAN]
        /\ snapshot.sources
  <2>5. /\ Holds(a) /\ Holds(b) /\ Holds(Snapshot(ref))
        /\ a.routes = old.routes /\ b.routes = ref /\ Snapshot(ref).routes = ref
    BY <2>3, <2>4 DEF Snapshot
  <2> HIDE DEF S, a, b, old
  <2>6. ASSUME NEW x, Holds(x)
        PROVE  /\ New(x) \in Snapshots /\ New(x)[directory] = x
               /\ \A v \in Versions \ {directory} : New(x)[v] = S[v]
               /\ HasSources(New(x))
    <3>1. /\ New(x) \in Snapshots /\ New(x)[directory] = x
          /\ \A v \in Versions \ {directory} : New(x)[v] = S[v]
      BY <2>3, <2>6 DEF Snapshots
    <3> HIDE DEF New
    <3>2. \A v \in Versions : New(x)[v].routes # 0 => New(x)[v].sources
      BY <2>1, <2>6, <3>1 DEF HasSources
    <3> QED BY <3>1, <3>2 DEF HasSources
  <2>7. ASSUME NEW x, Holds(x), old.routes # 0 => x.routes # 0 PROVE Grows(S, New(x))
    <3> HIDE DEF New
    <3> QED BY <2>6, <2>7 DEF Grows, old
  <2>8. ASSUME NEW x, Holds(x), NEW y, Holds(y), x.routes # 0 => y.routes # 0
        PROVE  Follows(Put(x), Put(y))
    <3> HIDE DEF New
    <3>1. Grows(New(x), New(y)) BY <2>6, <2>8 DEF Grows
    <3> QED BY <3>1 DEF Follows, File
  <2> HIDE DEF New
  <2>9. ASSUME NEW x, Holds(x), old.routes # 0 => x.routes # 0
        PROVE  Pending(Put(x), job.weekly, repo.snapshots)
    <3>1. Fits("snapshots", New(x), S) BY <2>6, <2>7, <2>9 DEF Fits
    <3> QED BY <1>1, <1>3, <1>6, <3>1 DEF S
  <2> HIDE DEF Holds, Put
  <2> QED BY <2>2, <2>3, <2>5, <2>8, <2>9 DEF WritesFit
<1>7. CASE script = "refresh-pinned-compatibility"
  <2>1. \A writes \in Plans(script) : writes = <<>> \/ writes = <<File("pinned", latestStableRelease)>>
    BY <1>7 DEF Plans, refreshPinnedCompatibility
  <2>2. Fits("pinned", latestStableRelease, repo.snapshots) BY LatestStableReleaseIs DEF Fits
  <2>3. Pending(File("pinned", latestStableRelease), job.weekly, repo.snapshots)
    BY <1>1, <1>3, <2>2
  <2>4. Fit(<<>>) BY DEF WritesFit
  <2> QED BY <1>4, <2>1, <2>3, <2>4
<1>8. CASE script = "sync-compatibility-targets"
  <2> DEFINE targets == File("targets", renderTargetsModule)
             document == File("upstream-mcphub.md", renderUpstreamDocs)
  <2>1. Plans(script) = {<<targets, document>>}
    BY <1>8 DEF Plans, syncCompatibilityTargets
  <2>2. tree.snapshots = repo.snapshots /\ tree.pinned \in Versions /\ HasSources(repo.snapshots)
    BY TreeIs DEF RepoInv, Fits, Files
  <2>3. renderTargetsModule.pinned = tree.pinned
        /\ renderTargetsModule.hasRouteSnapshot = (repo.snapshots[tree.pinned].routes # 0)
    BY <2>2 DEF renderTargetsModule, hasRouteSnapshot
  <2>4. Backed(renderTargetsModule, repo.snapshots) BY <2>2, <2>3 DEF HasSources, Backed
  <2>5. Fits("targets", renderTargetsModule, repo.snapshots) BY <2>4 DEF Fits
  <2>6. Pending(targets, job.weekly, repo.snapshots) BY <1>1, <1>3, <2>5
  <2>7. Pending(document, job.weekly, repo.snapshots) BY <1>1, <1>3, <1>5
  <2>8. Follows(targets, document) BY DEF Follows, File
  <2> HIDE DEF targets, document
  <2> QED BY <2>1, <2>6, <2>7, <2>8 DEF WritesFit
<1>9. CASE script = "update-compatibility"
  <2>1. Plans(script) = {<<File("compatibility.md", buildCompatibilityDocument(tree))>>}
    BY <1>9 DEF Plans, updateCompatibility
  <2> QED BY <1>1, <1>3, <1>4, <1>5, <2>1
<1>10. CASE script = "update-coverage"
  <2> DEFINE md == File("api-coverage.md", renderCoverage(tree))
             json == File("api-coverage.json", renderCoverage(tree))
  <2>1. Plans(script) = {<<md, json>>} BY <1>10 DEF Plans, updateCoverage
  <2>2. ~job.weekly BY <1>10
  <2>3. Pending(md, job.weekly, repo.snapshots) /\ Pending(json, job.weekly, repo.snapshots)
    BY <1>1, <1>3, <1>5, <2>2
  <2>4. Follows(md, json) BY DEF Follows, File
  <2> HIDE DEF md, json
  <2> QED BY <2>1, <2>3, <2>4 DEF WritesFit
<1>11. CASE script = "update-tools-docs"
  <2>1. Plans(script) = {<<File("tools", renderTools(tree))>>} BY <1>11 DEF Plans, updateToolsDocs
  <2>2. ~job.weekly BY <1>11
  <2> QED BY <1>1, <1>3, <1>4, <1>5, <2>1, <2>2
<1> QED BY <1>2, <1>6, <1>7, <1>8, <1>9, <1>10, <1>11 DEF Scripts

LEMMA InitInv == Init => IInv
<1> SUFFICES ASSUME Init PROVE IInv OBVIOUS
<1>1. 1 \in Versions /\ released = 1 /\ head = 1 /\ Len(History) \in Nat \ {0}
  BY VersionsAre DEF Init
<1>2. repo = [file \in Files |-> repo[file]] BY DEF Init, Files
<1>3. /\ repo.pinned = 1 /\ repo.SNAPSHOT_VERSION = 1 /\ repo.package = 0
      /\ repo.snapshots = [v \in Versions |-> IF v = 1 THEN Snapshot(1) ELSE NoSnapshot]
      /\ repo.targets.pinned = 1
  BY DEF Init
<1>4. HasSources(repo.snapshots)
  <2>1. Snapshot(1) \in [sources : BOOLEAN, routes : 0 .. Len(History), metadata : BOOLEAN]
        /\ NoSnapshot \in [sources : BOOLEAN, routes : 0 .. Len(History), metadata : BOOLEAN]
        /\ Snapshot(1).sources /\ NoSnapshot.routes = 0
    BY <1>1 DEF Snapshot, NoSnapshot
  <2> QED BY <1>3, <2>1 DEF HasSources, Snapshots
<1>5. Backed(repo.targets, repo.snapshots)
  <2>1. repo.snapshots[1] = Snapshot(1) BY <1>1, <1>3
  <2> QED BY <1>1, <1>3, <2>1 DEF Backed, Snapshot
<1>6. Grows(repo.snapshots, repo.snapshots) BY DEF Grows
<1>10. RepoInv BY <1>1, <1>2, <1>3, <1>4, <1>5, <1>6 DEF RepoInv, Fits
<1>7. job = Idle /\ watch = "none" /\ failures = 0 /\ published = 0 BY DEF Init
<1>8. JobInv BY <1>7, IdleIs
<1>9. CountersInv BY <1>1, <1>3, <1>7, BoundsAssumption DEF CountersInv
<1> QED BY <1>8, <1>9, <1>10 DEF IInv

-----------------------------------------------------------------------------
(* One lemma per action.                                                   *)

LEMMA RunInv == ASSUME IInv, NEW script \in Scripts, Run(script) PROVE IInv'
<1> USE DEF IInv
<1>1. job' = [steps |-> <<script>>, writes |-> <<>>, weekly |-> FALSE, changes |-> <<>>]
  BY DEF Run, Idle
<1>2. job'.steps = <<script>> /\ job'.writes = <<>> /\ job'.weekly = FALSE /\ job'.changes = <<>>
  BY <1>1
<1>3. RepoInv' BY DEF RepoInv, Run
<1>4. JobInv' BY <1>1, <1>2 DEF JobInv, StepsInv, ChangesInv, WritesInv, WritesFit
<1> QED BY <1>3, <1>4 DEF Run, CountersInv

LEMMA WeeklyInv == ASSUME IInv, Weekly PROVE IInv'
<1> USE DEF IInv
<1>1. job' = [steps |-> WeeklySteps, writes |-> <<>>, weekly |-> TRUE, changes |-> <<>>]
  BY DEF Weekly, Idle
<1>2. job'.steps = WeeklySteps /\ job'.writes = <<>> /\ job'.weekly = TRUE /\ job'.changes = <<>>
  BY <1>1
<1>3. RepoInv' BY DEF RepoInv, Weekly
<1>4. JobInv' BY <1>1, <1>2 DEF JobInv, StepsInv, ChangesInv, WritesInv, WritesFit
<1> QED BY <1>3, <1>4 DEF Weekly, CountersInv

LEMMA StartInv == ASSUME IInv, Start PROVE IInv'
<1> USE DEF IInv
<1>1. RepoInv' BY DEF RepoInv, Start
<1>2. CASE ~Starts(Head(job.steps))
  <2>1. job' = Idle BY <1>2 DEF Start
  <2>2. JobInv' BY <2>1, IdleNext
  <2> QED BY <1>1, <2>2 DEF Start, CountersInv
<1>3. CASE Starts(Head(job.steps))
  <2>1. PICK writes \in Plans(Head(job.steps)) :
            job' = [job EXCEPT !.steps = Tail(@), !.writes = writes] /\ repo' = repo
    BY <1>3 DEF Start
  <2>2. /\ job' = [steps |-> Tail(job.steps), writes |-> writes,
                   weekly |-> job.weekly, changes |-> job.changes]
    BY <2>1 DEF JobInv
  <2>3. /\ job'.steps = Tail(job.steps) /\ job'.writes = writes
        /\ job'.weekly = job.weekly /\ job'.changes = job.changes
    BY <2>2
  <2>4. /\ Head(job.steps) \in (IF job.weekly
                                THEN {"refresh-pinned-compatibility", "sync-compatibility-targets",
                                      "update-compatibility"}
                                ELSE Scripts)
        /\ StepsInv'
    <3>1. job.steps # <<>> BY DEF Start
    <3>2. CASE job.weekly
      <4>1. \/ job.steps = <<"refresh-pinned-compatibility", "sync-compatibility-targets",
                             "update-compatibility">>
            \/ job.steps = <<"sync-compatibility-targets", "update-compatibility">>
            \/ job.steps = <<"update-compatibility">>
        BY <3>1, <3>2 DEF JobInv, StepsInv, WeeklySteps
      <4>2. /\ Head(job.steps) \in {"refresh-pinned-compatibility", "sync-compatibility-targets",
                                    "update-compatibility"}
            /\ \/ Tail(job.steps) = <<"sync-compatibility-targets", "update-compatibility">>
               \/ Tail(job.steps) = <<"update-compatibility">>
               \/ Tail(job.steps) = <<>>
        <5>1. ASSUME NEW a, NEW b, NEW c, job.steps = <<a, b, c>>
              PROVE  Head(job.steps) = a /\ Tail(job.steps) = <<b, c>>
          BY <5>1
        <5>2. ASSUME NEW a, NEW b, job.steps = <<a, b>>
              PROVE  Head(job.steps) = a /\ Tail(job.steps) = <<b>>
          BY <5>2
        <5>3. ASSUME NEW a, job.steps = <<a>> PROVE Head(job.steps) = a /\ Tail(job.steps) = <<>>
          BY <5>3
        <5>4. CASE job.steps = <<"refresh-pinned-compatibility", "sync-compatibility-targets",
                                 "update-compatibility">>
          BY <5>1, <5>4
        <5>5. CASE job.steps = <<"sync-compatibility-targets", "update-compatibility">>
          BY <5>2, <5>5
        <5>6. CASE job.steps = <<"update-compatibility">> BY <5>3, <5>6
        <5> QED BY <4>1, <5>4, <5>5, <5>6
      <4> QED BY <2>3, <3>2, <4>2 DEF StepsInv
    <3>3. CASE ~job.weekly
      <4>1. PICK script \in Scripts : job.steps = <<script>>
        BY <3>1, <3>3 DEF JobInv, StepsInv
      <4>2. Head(job.steps) \in Scripts /\ Tail(job.steps) = <<>> BY <4>1
      <4> QED BY <2>3, <3>3, <4>2 DEF StepsInv
    <3> QED BY <3>2, <3>3 DEF JobInv
  <2>5. WritesInv'
    BY <2>1, <2>3, <2>4, PlanFits DEF WritesInv, CountersInv
  <2>6. ChangesInv' BY <2>1, <2>3 DEF JobInv, ChangesInv
  <2>7. JobInv' BY <2>2, <2>3, <2>4, <2>5, <2>6 DEF JobInv
  <2> QED BY <1>1, <2>7 DEF Start, CountersInv
<1> QED BY <1>2, <1>3

\* the write that is due, and those after it
LEMMA NextWrite ==
    ASSUME WritesInv, job.writes # <<>>
    PROVE  /\ Pending(Head(job.writes), job.weekly, repo.snapshots)
           /\ \/ Tail(job.writes) = <<>>
              \/ \E w : /\ Tail(job.writes) = <<w>> /\ Pending(w, job.weekly, repo.snapshots)
                        /\ Follows(Head(job.writes), w)
              \/ \E v, w : /\ Tail(job.writes) = <<v, w>> /\ Follows(v, w)
                           /\ Pending(v, job.weekly, repo.snapshots) /\ Follows(Head(job.writes), v)
                           /\ Pending(w, job.weekly, repo.snapshots) /\ Follows(Head(job.writes), w)
<1>1. ASSUME NEW w, job.writes = <<w>> PROVE Head(job.writes) = w /\ Tail(job.writes) = <<>>
  BY <1>1
<1>2. ASSUME NEW v, NEW w, job.writes = <<v, w>>
      PROVE  Head(job.writes) = v /\ Tail(job.writes) = <<w>>
  BY <1>2
<1>3. ASSUME NEW u, NEW v, NEW w, job.writes = <<u, v, w>>
      PROVE  Head(job.writes) = u /\ Tail(job.writes) = <<v, w>>
  BY <1>3
<1> QED BY <1>1, <1>2, <1>3 DEF WritesInv, WritesFit

LEMMA WriteInv == ASSUME IInv, Write PROVE IInv'
<1> USE DEF IInv
<1> DEFINE write == Head(job.writes)
<1>1. job.writes # <<>> /\ WritesInv BY DEF Write, JobInv
<1>2. /\ write.file \in (IF job.weekly THEN WeeklyFiles ELSE Files \ Edited)
      /\ Fits(write.file, write.content, repo.snapshots)
  BY <1>1, NextWrite DEF Pending
<1>3. \/ Tail(job.writes) = <<>>
      \/ \E w : /\ Tail(job.writes) = <<w>> /\ Pending(w, job.weekly, repo.snapshots)
                /\ Follows(write, w)
      \/ \E v, w : /\ Tail(job.writes) = <<v, w>> /\ Follows(v, w)
                   /\ Pending(v, job.weekly, repo.snapshots) /\ Follows(write, v)
                   /\ Pending(w, job.weekly, repo.snapshots) /\ Follows(write, w)
  BY <1>1, NextWrite
<1>4. CASE job.weekly
  <2>1. /\ job' = [job EXCEPT !.writes = Tail(@),
                              !.changes = With(@, write.file, write.content)]
        /\ repo' = repo
    BY <1>4 DEF Write
  <2>2. job' = [steps |-> job.steps, writes |-> Tail(job.writes), weekly |-> job.weekly,
                changes |-> With(job.changes, write.file, write.content)]
    BY <2>1 DEF JobInv
  <2>3. /\ job'.steps = job.steps /\ job'.writes = Tail(job.writes)
        /\ job'.weekly = job.weekly
        /\ job'.changes = With(job.changes, write.file, write.content)
    BY <2>2
  <2> HIDE DEF write
  <2>4. /\ job'.changes = [f \in DOMAIN job'.changes |-> job'.changes[f]]
        /\ DOMAIN job'.changes = DOMAIN job.changes \cup {write.file}
        /\ \A f \in DOMAIN job'.changes :
              job'.changes[f] = IF f = write.file THEN write.content ELSE job.changes[f]
    BY <2>3 DEF With
  <2>5. ChangesInv' BY <1>2, <1>4, <2>1, <2>3, <2>4 DEF JobInv, ChangesInv
  <2>6. StepsInv' BY <2>3 DEF JobInv, StepsInv
  <2>7. WritesInv' BY <1>3, <2>1, <2>3 DEF WritesInv, WritesFit
  <2>8. RepoInv' BY <2>1 DEF RepoInv
  <2>9. JobInv' BY <2>2, <2>3, <2>5, <2>6, <2>7 DEF JobInv
  <2> QED BY <2>1, <2>8, <2>9 DEF Write, CountersInv
<1>5. CASE ~job.weekly
  <2>1. job' = [job EXCEPT !.writes = Tail(@)] /\ repo' = With(repo, write.file, write.content)
    BY <1>5 DEF Write
  <2>2. job' = [steps |-> job.steps, writes |-> Tail(job.writes), weekly |-> job.weekly,
                changes |-> job.changes]
    BY <2>1 DEF JobInv
  <2>3. /\ job'.steps = job.steps /\ job'.writes = Tail(job.writes)
        /\ job'.weekly = job.weekly /\ job'.changes = job.changes
    BY <2>2
  <2> HIDE DEF write
  <2>4. write.file \in Files /\ write.file \notin Edited BY <1>2, <1>5
  <2>5. /\ repo' = [f \in Files |-> repo'[f]]
        /\ \A f \in Files : repo'[f] = IF f = write.file THEN write.content ELSE repo[f]
    <3>1. DOMAIN repo \cup {write.file} = Files BY <2>4 DEF RepoInv
    <3> QED BY <2>1, <3>1 DEF With
  <2>6. {"snapshots", "SNAPSHOT_VERSION", "package"} \subseteq Files BY DEF Files
  <2>7. repo'.SNAPSHOT_VERSION = repo.SNAPSHOT_VERSION /\ repo'.package = repo.package
    BY <2>4, <2>5, <2>6 DEF Edited
  <2>8. /\ write.file = "snapshots" => repo'.snapshots = write.content
        /\ write.file # "snapshots" => repo'.snapshots = repo.snapshots
        /\ Grows(repo.snapshots, repo'.snapshots)
    BY <1>2, <2>5, <2>6 DEF Fits, Grows
  <2>9. \A f \in Files : Fits(f, repo'[f], repo'.snapshots)
    <3> SUFFICES ASSUME NEW f \in Files PROVE Fits(f, repo'[f], repo'.snapshots) OBVIOUS
    <3>1. CASE f # "snapshots"
      <4>1. Fits(f, repo'[f], repo.snapshots) BY <1>2, <2>5 DEF RepoInv
      <4> QED BY <2>8, <3>1, <4>1, FitsStill
    <3>2. CASE f = "snapshots"
      <4>1. HasSources(repo'.snapshots)
        BY <1>2, <2>6, <2>8 DEF RepoInv, Fits
      <4> QED BY <2>6, <3>2, <4>1 DEF Fits, Grows
    <3> QED BY <3>1, <3>2
  <2>10. RepoInv' BY <2>5, <2>7, <2>9 DEF RepoInv
  <2>11. ChangesInv' BY <1>5, <2>3 DEF JobInv, ChangesInv
  <2>12. StepsInv' BY <2>3 DEF JobInv, StepsInv
  <2>13. ASSUME NEW w, Pending(w, job.weekly, repo.snapshots), Follows(write, w)
         PROVE  Pending(w, job.weekly, repo'.snapshots)
    <3>1. CASE w.file = "snapshots" BY <2>8, <2>13, <3>1 DEF Pending, Fits, Follows
    <3>2. CASE w.file # "snapshots" BY <2>8, <2>13, <3>2, FitsStill DEF Pending, Follows
    <3> QED BY <3>1, <3>2
  <2>14. WritesFit(Tail(job.writes), job.weekly, repo'.snapshots)
    BY <1>3, <2>13 DEF WritesFit
  <2>15. WritesInv' BY <2>3, <2>14 DEF WritesInv
  <2>16. JobInv' BY <2>2, <2>3, <2>11, <2>12, <2>15 DEF JobInv
  <2> QED BY <2>7, <2>10, <2>16 DEF Write, CountersInv
<1> QED BY <1>4, <1>5 DEF JobInv

LEMMA MergeInv == ASSUME IInv, Merge PROVE IInv'
<1> USE DEF IInv
<1>1. repo' = tree /\ job' = Idle BY DEF Merge
<1>2. /\ repo' = [f \in Files |-> repo'[f]]
      /\ \A f \in Files : Fits(f, repo'[f], repo'.snapshots)
      /\ repo'.SNAPSHOT_VERSION = repo.SNAPSHOT_VERSION /\ repo'.package = repo.package
  BY <1>1, TreeIs
<1>3. RepoInv' BY <1>2 DEF RepoInv
<1>4. JobInv' BY <1>1, IdleNext
<1> QED BY <1>2, <1>3, <1>4 DEF Merge, CountersInv

LEMMA FailInv == ASSUME IInv, Fail PROVE IInv'
<1> USE DEF IInv
<1>1. RepoInv' BY DEF RepoInv, Fail
<1>2. JobInv' BY IdleNext DEF Fail
<1>3. failures' \in 0 .. MaxFailures BY BoundsAssumption DEF Fail, CountersInv
<1> QED BY <1>1, <1>2, <1>3 DEF Fail, CountersInv

LEMMA WatchInv == ASSUME IInv, Watch PROVE IInv'
<1> USE DEF IInv
<1>1. RepoInv' BY DEF RepoInv, Watch
<1>2. JobInv'
  BY DEF Watch, JobInv, StepsInv, ChangesInv, WritesInv
<1>3. watch' \in {"none", "passed", "failed"} BY DEF Watch
<1> QED BY <1>1, <1>2, <1>3 DEF Watch, CountersInv

LEMMA PublishInv == ASSUME IInv, Publish PROVE IInv'
<1> USE DEF IInv
<1>1. RepoInv' BY DEF RepoInv, Publish
<1>2. JobInv'
  BY DEF Publish, JobInv, StepsInv, ChangesInv, WritesInv
<1>3. published' \in 0 .. repo'.package BY DEF Publish, RepoInv
<1> QED BY <1>1, <1>2, <1>3 DEF Publish, CountersInv

\* what is kept by hand is nothing that a script writes
LEMMA EditInv == ASSUME IInv, Edit PROVE IInv'
<1> USE DEF IInv
<1>1. /\ repo' = [f \in Files |-> repo'[f]]
      /\ \A f \in Files \ Edited : repo'[f] = repo[f]
      /\ repo'.SNAPSHOT_VERSION \in Versions
      /\ repo'.package \in {repo.package, repo.package + 1}
  <2> USE DEF RepoInv, Files, Edited
  <2>1. CASE \E f \in Fetches :
                repo' = [repo EXCEPT !.classified = KeysOf(Coverageable(Parsed[f[1]]))]
    BY <2>1
  <2>2. CASE \E f \in Fetches : repo' = [repo EXCEPT !.SNAPSHOT_VERSION = f[2]]
    <3>1. PICK f \in Fetches : repo' = [repo EXCEPT !.SNAPSHOT_VERSION = f[2]] BY <2>2
    <3>2. f[2] \in Versions BY BoundsAssumption
    <3> QED BY <3>1, <3>2
  <2>3. CASE repo' = [repo EXCEPT !.package = @ + 1] BY <2>3
  <2> QED BY <2>1, <2>2, <2>3 DEF Edit
<1>2. repo'.snapshots = repo.snapshots BY <1>1 DEF Files, Edited
<1>3. \A f \in Files : Fits(f, repo'[f], repo'.snapshots)
  <2>1. \A f \in Edited : Fits(f, repo'[f], repo'.snapshots) BY DEF Fits, Edited
  <2>2. \A f \in Files \ Edited : Fits(f, repo'[f], repo'.snapshots)
    BY <1>1, <1>2 DEF RepoInv
  <2> QED BY <2>1, <2>2
<1>4. RepoInv' BY <1>1, <1>3 DEF RepoInv
<1>5. JobInv'
  BY <1>2 DEF Edit, JobInv, StepsInv, ChangesInv, WritesInv
<1>6. published' \in 0 .. repo'.package BY <1>1 DEF Edit, CountersInv, RepoInv
<1> QED BY <1>4, <1>5, <1>6 DEF Edit, CountersInv

LEMMA UpstreamInv == ASSUME IInv, Upstream PROVE IInv'
<1> USE DEF IInv
<1>1. RepoInv' BY DEF RepoInv, Upstream
<1>2. JobInv'
  BY DEF Upstream, JobInv, StepsInv, ChangesInv, WritesInv
<1>3. released' \in Versions /\ head' \in released' .. Len(History)
  BY VersionsAre DEF Upstream, CountersInv
<1> QED BY <1>1, <1>2, <1>3 DEF Upstream, CountersInv

LEMMA NextInv == IInv /\ [Next]_vars => IInv'
<1> SUFFICES ASSUME IInv, [Next]_vars PROVE IInv' OBVIOUS
<1>1. CASE Next
  BY <1>1, RunInv, WeeklyInv, StartInv, WriteInv, MergeInv, FailInv, WatchInv, PublishInv,
     EditInv, UpstreamInv
  DEF Next
<1>2. CASE UNCHANGED vars
  BY <1>2 DEF vars, IInv, CountersInv, RepoInv, JobInv, StepsInv, ChangesInv, WritesInv
<1> QED BY <1>1, <1>2

LEMMA IInvTypes == IInv => TypeOK
<1> SUFFICES ASSUME IInv PROVE TypeOK OBVIOUS
<1> USE DEF IInv
<1>1. /\ repo.pinned \in Versions /\ repo.snapshots \in Snapshots
      /\ \A v \in Versions : hasRouteSnapshot(repo, v) => repo.snapshots[v].sources
  BY DEF RepoInv, Fits, HasSources, Files, hasRouteSnapshot
<1>2. job.steps \in Seq(Scripts \cup {"refresh-pinned-compatibility"})
  <2> DEFINE S == Scripts \cup {"refresh-pinned-compatibility"}
  <2>1. /\ "refresh-pinned-compatibility" \in S /\ "sync-compatibility-targets" \in S
        /\ "update-compatibility" \in S /\ \A script \in Scripts : script \in S
    BY DEF Scripts
  <2> HIDE DEF S
  <2>2. \A a, b, c \in S : <<a, b, c>> \in Seq(S) /\ <<b, c>> \in Seq(S) /\ <<c>> \in Seq(S)
    OBVIOUS
  <2>3. <<>> \in Seq(S) OBVIOUS
  <2>4. job.steps \in Seq(S) BY <2>1, <2>2, <2>3 DEF JobInv, StepsInv, WeeklySteps
  <2> QED BY <2>4 DEF S
<1> QED BY <1>1, <1>2 DEF TypeOK, RepoInv, CountersInv

LEMMA Invariance == Spec => []IInv
<1> QED BY InitInv, NextInv, PTL DEF Spec

-----------------------------------------------------------------------------
\* The files and the job are what the scripts can make of them, and every label among them
\* is a version of the upstream.
THEOREM TypeCorrect == Spec => []TypeOK
<1> QED BY Invariance, IInvTypes, PTL

\* What COVERAGE is made from is a commit of the upstream.
LEMMA SourceIs ==
    ASSUME IInv, hasRouteSnapshot(repo, repo.SNAPSHOT_VERSION)
    PROVE  Source(repo) \in Versions
<1>1. repo.snapshots \in Snapshots /\ repo.SNAPSHOT_VERSION \in Versions
  BY DEF IInv, RepoInv, Fits, HasSources, Files
<1>2. Source(repo) \in 0 .. Len(History) /\ Source(repo) # 0
  BY <1>1 DEF Source, Snapshots, hasRouteSnapshot
<1> QED BY <1>2, VersionsAre

\* The nightly watch tells when the upstream serves a route that the package does not cover
\* (docs/upstream-mcphub.md), whatever the history of the upstream.
THEOREM WatchTellsDriftHolds == Spec => []WatchTellsDrift
<1>1. Init => WatchTellsDrift BY DEF Init, WatchTellsDrift
<1>2. IInv /\ WatchTellsDrift /\ [Next]_vars => WatchTellsDrift'
  <2> SUFFICES ASSUME IInv, WatchTellsDrift, [Next]_vars PROVE WatchTellsDrift' OBVIOUS
  <2>1. CASE Watch
    <3> DEFINE there == hasRouteSnapshot(repo, repo.SNAPSHOT_VERSION)
               commit == Source(repo)
               unknown == {key \in ReadableOf[commit] :
                                key \notin repo.classified /\ ~CaughtAnyway(key[2])}
               missing == KeysOf(Coverageable(Parsed[head])) \ KeysOf(COVERAGE(repo))
    <3>1. UNCHANGED <<head, repo>> BY <2>1 DEF Watch
    <3>2. head \in Versions /\ (there => commit \in Versions)
      BY VersionsAre, SourceIs DEF IInv, CountersInv
    <3>3. there => /\ KeysOf(Coverageable(Parsed[head])) = ReadableOf[head]
                   /\ KeysOf(COVERAGE(repo)) = ReadableOf[commit]
      BY <3>2, ParsedIs DEF COVERAGE
    <3>4. there => missing = ReadableOf[head] \ ReadableOf[commit] BY <3>3
    <3>5. there => (CoverageLoads(repo) <=> unknown = {})
      BY <3>3 DEF CoverageLoads, classifyRoute
    <3>6. CoverageLoads(repo) => there BY DEF CoverageLoads
    <3>7. Covers(Parsed[head]) <=> missing = {} /\ Duplicate(COVERAGE(repo)) = {}
      BY DEF Covers, verifyCoverageRoutes
    <3>8. watch' = IF CoverageLoads(repo) /\ Covers(Parsed[head]) THEN "passed" ELSE "failed"
      BY <2>1 DEF Watch
    <3> HIDE DEF there, commit, unknown, missing
    <3>9. /\ watch' = "passed" => /\ there /\ unknown = {}
                                  /\ ReadableOf[head] \subseteq ReadableOf[commit]
          /\ watch' = "failed" => \/ ~there \/ unknown # {} \/ Duplicate(COVERAGE(repo)) # {}
                                  \/ ~(ReadableOf[head] \subseteq ReadableOf[commit])
      BY <3>4, <3>5, <3>6, <3>7, <3>8
    <3> QED BY <3>1, <3>9 DEF WatchTellsDrift, hasRouteSnapshot, COVERAGE, Source,
                              there, commit, unknown
  <2>2. CASE Next /\ ~Watch
    <3>1. watch' = "none"
      BY <2>2 DEF Next, Run, Weekly, Start, Write, Merge, Fail, Publish, Edit, Upstream
    <3> QED BY <3>1 DEF WatchTellsDrift
  <2>3. CASE UNCHANGED vars
    BY <2>3 DEF vars, WatchTellsDrift, hasRouteSnapshot, COVERAGE, Source
  <2> QED BY <2>1, <2>2, <2>3
<1> QED BY <1>1, <1>2, Invariance, PTL DEF Spec

\* A version of the package is published with documents that describe it, and with the
\* sources and routes of the snapshot its targets claim, whatever was cut short before.
THEOREM PublishesWhatItDescribesHolds == Spec => PublishesWhatItDescribes
<1>1. ASSUME IInv, [Next]_vars, published' # published
      PROVE  /\ hasRouteSnapshot(repo, repo.SNAPSHOT_VERSION)
             /\ \A doc \in {"api-coverage.md", "api-coverage.json"} :
                    repo[doc] = [version |-> repo.SNAPSHOT_VERSION,
                                 routes |-> ReadableOf[Source(repo)]]
             /\ repo["tools"] = ReadableOf[Source(repo)]
             /\ repo["compatibility.md"] = repo.targets
             /\ repo.targets.hasRouteSnapshot =>
                    repo.snapshots[repo.targets.pinned].sources
                    /\ hasRouteSnapshot(repo, repo.targets.pinned)
  <2>1. docsCurrent
    BY <1>1 DEF vars, Next, Run, Weekly, Start, Write, Merge, Fail, Watch, Publish, Edit, Upstream
  <2>2. hasRouteSnapshot(repo, repo.SNAPSHOT_VERSION) BY <2>1 DEF docsCurrent, CoverageLoads
  <2>3. KeysOf(COVERAGE(repo)) = ReadableOf[Source(repo)]
    BY <1>1, <2>2, SourceIs, ParsedIs DEF COVERAGE
  <2>4. /\ renderCoverage(repo) = [version |-> repo.SNAPSHOT_VERSION,
                                   routes |-> ReadableOf[Source(repo)]]
        /\ renderTools(repo) = ReadableOf[Source(repo)]
    BY <2>3 DEF renderCoverage, renderTools
  <2>5. Backed(repo.targets, repo.snapshots) BY <1>1 DEF IInv, RepoInv, Fits, Files
  <2> QED BY <2>1, <2>2, <2>4, <2>5 DEF docsCurrent, buildCompatibilityDocument, Backed, hasRouteSnapshot
<1>2. IInv /\ [Next]_vars =>
        [published' # published =>
            /\ hasRouteSnapshot(repo, repo.SNAPSHOT_VERSION)
            /\ \A doc \in {"api-coverage.md", "api-coverage.json"} :
                    repo[doc] = [version |-> repo.SNAPSHOT_VERSION,
                                 routes |-> ReadableOf[Source(repo)]]
            /\ repo["tools"] = ReadableOf[Source(repo)]
            /\ repo["compatibility.md"] = repo.targets
            /\ repo.targets.hasRouteSnapshot =>
                    repo.snapshots[repo.targets.pinned].sources
                    /\ hasRouteSnapshot(repo, repo.targets.pinned)]_vars
  BY <1>1
<1> QED BY <1>2, Invariance, PTL DEF Spec, PublishesWhatItDescribes
==============================================================================
