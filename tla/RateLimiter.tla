----------------------------- MODULE RateLimiter -----------------------------
(***************************************************************************)
(* checkRateLimit of src/src/transports/http/server.ts: a fixed window per *)
(* key (credential fingerprint and path), opened by the first request that *)
(* finds none open.  Buckets are never removed.                            *)
(*                                                                         *)
(* Date.now() is a clock that does not run backwards; one Tick is the      *)
(* smallest step of it that matters.                                       *)
(***************************************************************************)
EXTENDS Integers, Sequences

CONSTANTS
    Keys,            \* `${auth.rateLimitKey}:${pathname}`
    MaxRequests,     \* rateLimitMaxRequests
    Window,          \* rateLimitWindowMs, in ticks
    Horizon          \* bound: the last instant of a run

ASSUME MaxRequestsAssumption == MaxRequests \in Nat \ {0}
ASSUME WindowAssumption == Window \in Nat \ {0}
ASSUME HorizonAssumption == Horizon \in Nat

VARIABLES
    buckets,         \* rateLimitBuckets: a function on the keys seen so far
    now,             \* Date.now()
    granted          \* history: the instants at which each key was let through

vars == <<buckets, now, granted>>

Bucket == [count : Nat, resetAt : Nat]

TypeOK ==
    /\ DOMAIN buckets \subseteq Keys
    /\ \A k \in DOMAIN buckets : buckets[k] \in Bucket
    /\ now \in Nat
    /\ granted \in [Keys -> Seq(Nat)]

-----------------------------------------------------------------------------
\* mutant: the window is kept for ever
OpenForever(k) == k \in DOMAIN buckets

\* current !== undefined and its window has not ended
Open(k) == k \in DOMAIN buckets /\ buckets[k].resetAt > now

\* mutant: one request too many
FullLate(k) == buckets[k].count > MaxRequests

Full(k) == buckets[k].count >= MaxRequests

SetBucket(k, b) ==
    buckets' = [x \in DOMAIN buckets \cup {k} |-> IF x = k THEN b ELSE buckets[x]]

\* checkRateLimit answers false: the request goes through
Grant(k) ==
    /\ \/ ~Open(k) /\ SetBucket(k, [count |-> 1, resetAt |-> now + Window])
       \/ /\ Open(k) /\ ~Full(k)
          /\ SetBucket(k, [buckets[k] EXCEPT !.count = @ + 1])
    /\ granted' = [granted EXCEPT ![k] = Append(@, now)]
    /\ UNCHANGED now

\* checkRateLimit answers true: 429
Refusable(k) == Open(k) /\ Full(k)

Tick == now < Horizon /\ now' = now + 1 /\ UNCHANGED <<buckets, granted>>

Init ==
    /\ buckets = [k \in {} |-> [count |-> 1, resetAt |-> 0]]
    /\ now = 0
    /\ granted = [k \in Keys |-> <<>>]

Next == Tick \/ \E k \in Keys : Grant(k)

Spec == Init /\ [][Next]_vars

-----------------------------------------------------------------------------
\* The limit of a fixed window, seen from any window: 2 * MaxRequests requests of
\* one key never pass within less than Window (they may pass 2 * MaxRequests - 1,
\* on both sides of a reset).
SlidingBound ==
    \A k \in Keys : \A i \in 1 .. Len(granted[k]) - (2 * MaxRequests - 1) :
        granted[k][i + 2 * MaxRequests - 1] - granted[k][i] >= Window

\* Nobody is refused who has not had MaxRequests requests within the last Window,
\* so a refused key is served again at the latest when that window ends.
RefusedOnlyAfterMax ==
    \A k \in Keys : Refusable(k) =>
        /\ Len(granted[k]) >= MaxRequests
        /\ now - granted[k][Len(granted[k]) - MaxRequests + 1] < Window
=============================================================================
