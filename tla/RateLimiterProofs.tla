-------------------------- MODULE RateLimiterProofs --------------------------
(* Proofs about RateLimiter, for every limit, window and set of keys.       *)
EXTENDS RateLimiter, TLAPS

\* index of the request that opened the current window of k
Opened(k) == Len(granted[k]) - buckets[k].count + 1

\* the clock orders the requests let through
Sorted(k) ==
    /\ \A i \in 1 .. Len(granted[k]) : granted[k][i] <= now
    /\ \A i, j \in 1 .. Len(granted[k]) : i <= j => granted[k][i] <= granted[k][j]

\* the bucket counts the requests of its window
Counts(k) ==
    /\ buckets[k].count \in 1 .. MaxRequests
    /\ buckets[k].count <= Len(granted[k])
    /\ buckets[k].resetAt = granted[k][Opened(k)] + Window

\* a later request, at most 2 * MaxRequests - 1 places on, is a Window away
Spaced(k, i) ==
    \E j \in 1 .. Len(granted[k]) :
        i <= j /\ j <= i + 2 * MaxRequests - 1 /\ granted[k][j] >= granted[k][i] + Window

\* else the request is of the current window, or of the one before and not its first
Pending(k, i) == i >= Opened(k) \/ Opened(k) <= i + MaxRequests - 1

KeyInv(k) ==
    /\ Sorted(k)
    /\ k \notin DOMAIN buckets => granted[k] = <<>>
    /\ k \in DOMAIN buckets =>
          Counts(k) /\ \A i \in 1 .. Len(granted[k]) : Spaced(k, i) \/ Pending(k, i)

Inv == TypeOK /\ \A k \in Keys : KeyInv(k)

USE MaxRequestsAssumption, WindowAssumption, HorizonAssumption

LEMMA InitInv == Init => Inv
  BY DEF Init, Inv, TypeOK, KeyInv, Sorted

\* two windows of requests, the first of the earlier one not counted
LEMMA WithinTwoWindows ==
    ASSUME NEW n \in Nat, NEW s \in 1 .. n, NEW i \in 1 .. n,
           n - s < MaxRequests, s <= i + MaxRequests - 1
    PROVE  n + 1 <= i + 2 * MaxRequests - 1
  OBVIOUS

\* one more request in a window that has room
LEMMA OneMore ==
    ASSUME NEW n \in Nat, NEW c \in 1 .. MaxRequests, c <= n, c < MaxRequests
    PROVE  c + 1 \in 1 .. MaxRequests /\ c + 1 <= n + 1
  OBVIOUS

LEMMA GrantSequence ==
    ASSUME Inv, NEW k \in Keys, Grant(k)
    PROVE  \E n \in Nat : \E g \in [1 .. n -> Nat] : \E h \in [1 .. n + 1 -> Nat] :
              /\ granted[k] = g /\ Len(granted[k]) = n
              /\ granted'[k] = h /\ Len(granted'[k]) = n + 1
              /\ h[n + 1] = now /\ \A i \in 1 .. n : h[i] = g[i]
<1>1. granted[k] \in Seq(Nat) /\ now \in Nat /\ granted'[k] = Append(granted[k], now)
  BY DEF Inv, TypeOK, Grant
<1>2. /\ Len(granted[k]) \in Nat
      /\ granted[k] \in [1 .. Len(granted[k]) -> Nat]
  BY <1>1
<1>3. /\ Len(granted'[k]) = Len(granted[k]) + 1
      /\ granted'[k] \in [1 .. Len(granted[k]) + 1 -> Nat]
      /\ granted'[k][Len(granted[k]) + 1] = now
      /\ \A i \in 1 .. Len(granted[k]) : granted'[k][i] = granted[k][i]
  <2>1. Append(granted[k], now) \in Seq(Nat)
    BY <1>1
  <2>2. Len(Append(granted[k], now)) = Len(granted[k]) + 1
    BY <1>1
  <2>3. /\ Append(granted[k], now)[Len(granted[k]) + 1] = now
        /\ \A i \in 1 .. Len(granted[k]) : Append(granted[k], now)[i] = granted[k][i]
    BY <1>1
  <2>4. Append(granted[k], now) \in [1 .. Len(granted[k]) + 1 -> Nat]
    <3>1. \A q \in Seq(Nat) : q \in [1 .. Len(q) -> Nat]
      OBVIOUS
    <3>2. Append(granted[k], now) \in [1 .. Len(Append(granted[k], now)) -> Nat]
      BY <2>1, <3>1
    <3> QED BY <2>2, <3>2
  <2> QED BY <1>1, <2>2, <2>3, <2>4
<1> QED BY <1>2, <1>3

LEMMA GrantKeyInv ==
    ASSUME Inv, NEW k \in Keys, Grant(k)
    PROVE  KeyInv(k)'
<1>a. PICK n \in Nat : \E g \in [1 .. n -> Nat] : \E h \in [1 .. n + 1 -> Nat] :
            /\ granted[k] = g /\ Len(granted[k]) = n
            /\ granted'[k] = h /\ Len(granted'[k]) = n + 1
            /\ h[n + 1] = now /\ \A i \in 1 .. n : h[i] = g[i]
  BY GrantSequence
<1>b. PICK g \in [1 .. n -> Nat], h \in [1 .. n + 1 -> Nat] :
            /\ granted[k] = g /\ Len(granted[k]) = n
            /\ granted'[k] = h /\ Len(granted'[k]) = n + 1
            /\ h[n + 1] = now /\ \A i \in 1 .. n : h[i] = g[i]
  BY <1>a
<1>c. now \in Nat /\ now' = now
  BY DEF Inv, TypeOK, Grant
<1>1. /\ now \in Nat /\ now' = now
      /\ granted[k] = g /\ Len(granted[k]) = n
      /\ granted'[k] = h /\ Len(granted'[k]) = n + 1
      /\ h[n + 1] = now /\ \A i \in 1 .. n : h[i] = g[i]
  BY <1>b, <1>c
<1>2. /\ \A i \in 1 .. n : g[i] <= now
      /\ \A i, j \in 1 .. n : i <= j => g[i] <= g[j]
  BY <1>1 DEF Inv, KeyInv, Sorted
<1>3. \A i \in 1 .. n + 1 : i \in 1 .. n \/ i = n + 1
  OBVIOUS
<1>4. Sorted(k)'
  <2>1. \A i \in 1 .. n + 1 : h[i] <= now /\ h[i] \in Nat
    BY <1>1, <1>2, <1>3
  <2>2. ASSUME NEW i \in 1 .. n + 1, NEW j \in 1 .. n + 1, i <= j PROVE h[i] <= h[j]
    <3>1. CASE j = n + 1
      BY <3>1, <2>1, <1>1
    <3>2. CASE j \in 1 .. n
      <4>1. i \in 1 .. n
        BY <2>2, <3>2
      <4> QED BY <4>1, <3>2, <2>2, <1>1, <1>2
    <3> QED BY <3>1, <3>2, <1>3
  <2> QED BY <1>1, <2>1, <2>2 DEF Sorted
<1>5. ASSUME NEW i \in 1 .. n, k \in DOMAIN buckets, Spaced(k, i) PROVE Spaced(k, i)'
  <2>1. PICK j \in 1 .. n : i <= j /\ j <= i + 2 * MaxRequests - 1 /\ g[j] >= g[i] + Window
    BY <1>5, <1>1 DEF Spaced
  <2>2. j \in 1 .. n + 1 /\ h[j] >= h[i] + Window
    BY <2>1, <1>1
  <2> QED BY <2>1, <2>2, <1>1 DEF Spaced
<1>6. k \in DOMAIN buckets' /\ (k \in DOMAIN buckets => buckets[k] \in Bucket)
  BY DEF Grant, SetBucket, Inv, TypeOK
<1>7. CASE ~Open(k)
  <2>1. buckets'[k] = [count |-> 1, resetAt |-> now + Window]
    <3>1. SetBucket(k, [count |-> 1, resetAt |-> now + Window])
      BY <1>7 DEF Grant
    <3> QED BY <3>1 DEF SetBucket
  <2>2. Opened(k)' = n + 1
    BY <2>1, <1>1 DEF Opened
  <2>3. Counts(k)'
    <3>1. buckets'[k].count = 1 /\ buckets'[k].resetAt = now + Window
      BY <2>1
    <3>2. 1 \in 1 .. MaxRequests /\ 1 <= n + 1
      OBVIOUS
    <3> QED BY <3>1, <3>2, <2>2, <1>1 DEF Counts
  <2>4. ASSUME NEW i \in 1 .. n PROVE Spaced(k, i)' \/ Pending(k, i)'
    <3>1. k \in DOMAIN buckets /\ KeyInv(k)
      BY <2>4, <1>1 DEF Inv, KeyInv
    <3>2. PICK c \in 1 .. MaxRequests : c = buckets[k].count /\ c <= n
      BY <3>1, <1>1 DEF KeyInv, Counts
    <3>3. PICK s \in 1 .. n : s = Opened(k) /\ s = n - c + 1
      BY <3>2, <1>1 DEF Opened
    <3>4. g[s] + Window <= now
      BY <3>1, <3>3, <1>1, <1>6, <1>7 DEF KeyInv, Counts, Open, Bucket
    <3>5. CASE i > s
      <4>1. n + 1 <= i + MaxRequests - 1
        <5>1. n + 1 = s + c /\ s + 1 <= i /\ c <= MaxRequests
          BY <3>3, <3>5
        <5> QED BY <5>1
      <4> QED BY <4>1, <2>2 DEF Pending
    <3>6. CASE i <= s /\ s <= i + MaxRequests - 1
      <4>1. n - s < MaxRequests
        <5>1. n + 1 = s + c /\ c <= MaxRequests
          BY <3>3
        <5> QED BY <5>1
      <4>2. n + 1 <= i + 2 * MaxRequests - 1 /\ now >= g[i] + Window
        <5>1. g[i] \in Nat /\ g[s] \in Nat /\ g[i] <= g[s]
          BY <3>6, <1>2
        <5>2. now >= g[i] + Window
          BY <3>4, <5>1, <1>1
        <5>3. n + 1 <= i + 2 * MaxRequests - 1
          BY <3>6, <4>1, WithinTwoWindows
        <5> QED BY <5>2, <5>3
      <4>3. h[n + 1] >= h[i] + Window /\ n + 1 \in 1 .. n + 1 /\ i <= n + 1
        BY <4>2, <1>1
      <4> QED BY <4>2, <4>3, <1>1 DEF Spaced
    <3>7. Spaced(k, i) \/ i >= s \/ s <= i + MaxRequests - 1
      BY <3>1, <3>3, <1>1 DEF KeyInv, Pending
    <3>8. i = s => s <= i + MaxRequests - 1
      OBVIOUS
    <3> QED BY <3>1, <3>5, <3>6, <3>7, <3>8, <1>5
  <2>5. ASSUME NEW i \in 1 .. n + 1, i = n + 1 PROVE Pending(k, i)'
    BY <2>2, <2>5 DEF Pending
  <2>6. \A i \in 1 .. n + 1 : Spaced(k, i)' \/ Pending(k, i)'
    BY <2>4, <2>5, <1>3
  <2> QED BY <2>3, <2>6, <1>1, <1>4, <1>6 DEF KeyInv
<1>8. CASE Open(k) /\ ~Full(k)
  <2>1. k \in DOMAIN buckets /\ KeyInv(k)
    BY <1>8 DEF Open, Inv
  <2>2. PICK c \in 1 .. MaxRequests : c = buckets[k].count /\ c <= n /\ c < MaxRequests
    BY <2>1, <1>1, <1>8 DEF KeyInv, Counts, Full
  <2>3. PICK s \in 1 .. n : s = Opened(k) /\ s = n - c + 1
    BY <2>2, <1>1 DEF Opened
  <2>4. buckets'[k].count = c + 1 /\ buckets'[k].resetAt = buckets[k].resetAt
    BY <1>6, <1>8, <2>1, <2>2 DEF Grant, SetBucket, Bucket, Open
  <2>5. Opened(k)' = s
    <3>1. Opened(k)' = (n + 1) - (c + 1) + 1
      BY <2>4, <1>1 DEF Opened
    <3>2. (n + 1) - (c + 1) + 1 = n - c + 1
      BY n \in Nat, c \in Nat
    <3> QED BY <3>1, <3>2, <2>3
  <2>6. Counts(k)'
    <3>1. c + 1 \in 1 .. MaxRequests /\ c + 1 <= n + 1
      BY <2>2, OneMore
    <3>2. buckets[k].resetAt = g[s] + Window /\ h[s] = g[s]
      BY <2>1, <2>3, <1>1 DEF Counts, KeyInv
    <3> QED BY <3>1, <3>2, <2>4, <2>5, <1>1 DEF Counts
  <2>7. ASSUME NEW i \in 1 .. n PROVE Spaced(k, i)' \/ Pending(k, i)'
    <3>1. Spaced(k, i) \/ Pending(k, i)
      BY <2>1, <1>1 DEF KeyInv
    <3>2. Pending(k, i) => Pending(k, i)'
      BY <2>3, <2>5 DEF Pending
    <3> QED BY <3>1, <3>2, <2>1, <1>5
  <2>8. ASSUME NEW i \in 1 .. n + 1, i = n + 1 PROVE Pending(k, i)'
    BY <2>5, <2>8 DEF Pending
  <2>9. \A i \in 1 .. n + 1 : Spaced(k, i)' \/ Pending(k, i)'
    BY <2>7, <2>8, <1>3
  <2> QED BY <2>6, <2>9, <1>1, <1>4, <1>6 DEF KeyInv
<1> QED BY <1>7, <1>8 DEF Grant

LEMMA StepInv == Inv /\ [Next]_vars => Inv'
<1> SUFFICES ASSUME Inv, [Next]_vars PROVE Inv'
  OBVIOUS
<1>1. ASSUME Tick PROVE Inv'
  <2>1. /\ now \in Nat /\ now' = now + 1 /\ buckets' = buckets /\ granted' = granted
        /\ granted \in [Keys -> Seq(Nat)]
    BY <1>1 DEF Tick, Inv, TypeOK
  <2>2. ASSUME NEW k \in Keys PROVE KeyInv(k)'
    <3>1. Sorted(k)'
      <4>1. \A i \in 1 .. Len(granted[k]) : granted[k][i] <= now /\ granted[k][i] \in Nat
        BY <2>1 DEF Inv, KeyInv, Sorted
      <4> QED BY <4>1, <2>1 DEF Inv, KeyInv, Sorted
    <3> QED BY <3>1, <2>1 DEF Inv, KeyInv, Counts, Opened, Spaced, Pending
  <2> QED BY <2>1, <2>2 DEF Inv, TypeOK
<1>2. ASSUME NEW k \in Keys, Grant(k) PROVE Inv'
  <2>1. TypeOK'
    <3>1. /\ DOMAIN buckets \subseteq Keys /\ \A x \in DOMAIN buckets : buckets[x] \in Bucket
          /\ now \in Nat /\ now' = now /\ granted \in [Keys -> Seq(Nat)]
          /\ granted' = [granted EXCEPT ![k] = Append(@, now)]
      BY <1>2 DEF Inv, TypeOK, Grant
    <3>2. granted' \in [Keys -> Seq(Nat)]
      BY <3>1
    <3>3. \E b \in Bucket : SetBucket(k, b)
      <4>1. [count |-> 1, resetAt |-> now + Window] \in Bucket
        BY <3>1 DEF Bucket
      <4>2. k \in DOMAIN buckets => [buckets[k] EXCEPT !.count = @ + 1] \in Bucket
        <5>1. ASSUME NEW b \in Bucket PROVE [b EXCEPT !.count = @ + 1] \in Bucket
          BY DEF Bucket
        <5> QED BY <3>1, <5>1
      <4> QED BY <4>1, <4>2, <1>2 DEF Grant, Open
    <3>4. DOMAIN buckets' \subseteq Keys /\ \A x \in DOMAIN buckets' : buckets'[x] \in Bucket
      BY <3>1, <3>3 DEF SetBucket
    <3> QED BY <3>1, <3>2, <3>4 DEF TypeOK
  <2>2. ASSUME NEW x \in Keys, x # k PROVE KeyInv(x)'
    <3>1. /\ granted'[x] = granted[x] /\ now' = now
          /\ x \in DOMAIN buckets' <=> x \in DOMAIN buckets
          /\ x \in DOMAIN buckets => buckets'[x] = buckets[x]
      BY <1>2, <2>2 DEF Inv, TypeOK, Grant, SetBucket
    <3> QED BY <3>1 DEF Inv, KeyInv, Sorted, Counts, Opened, Spaced, Pending
  <2> QED BY <2>1, <2>2, <1>2, GrantKeyInv DEF Inv
<1>3. CASE UNCHANGED vars
  BY <1>3 DEF vars, Inv, TypeOK, KeyInv, Sorted, Counts, Opened, Spaced, Pending
<1> QED BY <1>1, <1>2, <1>3 DEF Next

LEMMA Invariant == Spec => []Inv
  BY InitInv, StepInv, PTL DEF Spec

\* two requests with one in between that is a Window after the first
LEMMA Apart ==
    ASSUME NEW a \in Nat, NEW b \in Nat, NEW c \in Nat, b >= a + Window, b <= c
    PROVE  c - a >= Window
  OBVIOUS

\* Fixed windows let at most 2 * MaxRequests - 1 requests of a key through in less
\* than a Window, whatever the limit, the window and the arrival times.
THEOREM SlidingBoundHolds == Spec => []SlidingBound
<1>1. Inv => SlidingBound
  <2> SUFFICES ASSUME Inv, NEW k \in Keys,
                      NEW i \in 1 .. Len(granted[k]) - (2 * MaxRequests - 1)
               PROVE  granted[k][i + 2 * MaxRequests - 1] - granted[k][i] >= Window
    BY DEF SlidingBound
  <2> PICK n \in Nat : n = Len(granted[k]) /\ granted[k] \in [1 .. n -> Nat]
    <3>1. granted[k] \in Seq(Nat)
      BY DEF Inv, TypeOK
    <3> QED BY <3>1
  <2> PICK g \in [1 .. n -> Nat] : g = granted[k]
    OBVIOUS
  <2>1. i \in 1 .. n /\ i + 2 * MaxRequests - 1 \in 1 .. n
    OBVIOUS
  <2>2. k \in DOMAIN buckets /\ Counts(k) /\ (Spaced(k, i) \/ Pending(k, i)) /\ Sorted(k)
    BY <2>1 DEF Inv, KeyInv
  <2>3. ~Pending(k, i)
    <3>1. PICK c \in 1 .. MaxRequests : c = buckets[k].count
      BY <2>2 DEF Counts
    <3>2. Opened(k) = n - c + 1
      BY <3>1 DEF Opened
    <3> QED BY <3>1, <3>2, <2>1 DEF Pending
  <2>4. PICK j \in 1 .. n : j <= i + 2 * MaxRequests - 1 /\ g[j] >= g[i] + Window
    BY <2>2, <2>3 DEF Spaced
  <2>5. g[j] <= g[i + 2 * MaxRequests - 1]
    BY <2>1, <2>2, <2>4 DEF Sorted
  <2>6. g[j] \in Nat /\ g[i] \in Nat /\ g[i + 2 * MaxRequests - 1] \in Nat
    BY <2>1, <2>4
  <2>7. g[i + 2 * MaxRequests - 1] - g[i] >= Window
    BY <2>4, <2>5, <2>6, Apart
  <2> QED BY <2>7
<1> QED BY <1>1, Invariant, PTL

\* A key is refused only when MaxRequests of its requests lie less than a Window back.
THEOREM RefusedOnlyAfterMaxHolds == Spec => []RefusedOnlyAfterMax
<1>1. Inv => RefusedOnlyAfterMax
  <2> SUFFICES ASSUME Inv, NEW k \in Keys, Refusable(k)
               PROVE  /\ Len(granted[k]) >= MaxRequests
                      /\ now - granted[k][Len(granted[k]) - MaxRequests + 1] < Window
    BY DEF RefusedOnlyAfterMax
  <2> PICK n \in Nat : n = Len(granted[k]) /\ granted[k] \in [1 .. n -> Nat]
    <3>1. granted[k] \in Seq(Nat)
      BY DEF Inv, TypeOK
    <3> QED BY <3>1
  <2> PICK g \in [1 .. n -> Nat] : g = granted[k]
    OBVIOUS
  <2>1. /\ k \in DOMAIN buckets /\ Counts(k) /\ now \in Nat
        /\ buckets[k].resetAt > now /\ buckets[k].count >= MaxRequests
    BY DEF Refusable, Open, Full, Inv, KeyInv, TypeOK
  <2>2. buckets[k].count = MaxRequests /\ MaxRequests <= n
    BY <2>1 DEF Counts
  <2>3. Opened(k) = n - MaxRequests + 1 /\ n - MaxRequests + 1 \in 1 .. n
    BY <2>2 DEF Opened
  <2>4. g[n - MaxRequests + 1] \in Nat /\ g[n - MaxRequests + 1] + Window > now
    BY <2>1, <2>3 DEF Counts
  <2> QED BY <2>1, <2>2, <2>4
<1> QED BY <1>1, Invariant, PTL
=============================================================================
