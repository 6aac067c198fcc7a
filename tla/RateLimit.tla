----------------------------- MODULE RateLimit -----------------------------
(* The limiter in front of the sign-in, registration and payment endpoints: one
   counter per endpoint and client address, in the memory of one process. The guard
   runs to its end without an await. src/common/guards/rate-limit.guard.ts *)
EXTENDS Naturals, Sequences, FiniteSets

CONSTANTS
  Keys,            \* endpoint and client address
  Limit, Window,   \* of each key's endpoint: attempts allowed, and how long they count
  SweepEvery,      \* how long expired counters may lie about
  MaxTime          \* bound: when the clock stops

ASSUME RateLimitAssumption ==
  /\ Limit \in [Keys -> Nat \ {0}]
  /\ Window \in [Keys -> Nat \ {0}]
  /\ SweepEvery \in Nat
  /\ MaxTime \in Nat

VARIABLES
  now,             \* Date.now()
  buckets,         \* the counter of each key, if there is one
  lastSweep,       \* when expired counters were last thrown out
  grants           \* history: when each attempt of a key was let through

vars == <<now, buckets, lastSweep, grants>>

NoBucket == [count |-> 0, resetAt |-> 0]

TypeOK ==
  /\ now \in 0..MaxTime
  /\ buckets \in [Keys -> [count : Nat, resetAt : Nat]]
  /\ lastSweep \in 0..now
  /\ grants \in [Keys -> Seq(0..now)]

\* the process has just started
Init ==
  /\ now = 0
  /\ buckets = [k \in Keys |-> NoBucket]
  /\ lastSweep = 0
  /\ grants = [k \in Keys |-> <<>>]

-----------------------------------------------------------------------------
Expired(b) == b.resetAt <= now

\* sweep: every expired counter goes, whosever it is
MutSwept(b) == NoBucket
Swept(b) == IF Expired(b) THEN NoBucket ELSE b

SweepDue == now - lastSweep >= SweepEvery
AfterSweep == [k \in Keys |-> IF SweepDue THEN Swept(buckets[k]) ELSE buckets[k]]

\* a counter that is not there has expired: its resetAt is 0
Admits(k, b) == Expired(b) \/ b.count < Limit[k]

Counted(k, b) ==
  IF Expired(b) THEN [count |-> 1, resetAt |-> now + Window[k]]
  ELSE [b EXCEPT !.count = @ + 1]

\* the attempt is turned away (429)
MutLeft(k, b) == [b EXCEPT !.resetAt = now + Window[k]]
Left(k, b) == b

\* canActivate
CanActivate(k) ==
  /\ lastSweep' = IF SweepDue THEN now ELSE lastSweep
  /\ IF Admits(k, AfterSweep[k])
     THEN /\ buckets' = [AfterSweep EXCEPT ![k] = Counted(k, @)]
          /\ grants' = [grants EXCEPT ![k] = Append(@, now)]
     ELSE /\ buckets' = [AfterSweep EXCEPT ![k] = Left(k, @)]
          /\ UNCHANGED grants
  /\ UNCHANGED now

Tick ==
  /\ now < MaxTime
  /\ now' = now + 1
  /\ UNCHANGED <<buckets, lastSweep, grants>>

Next == Tick \/ \E k \in Keys : CanActivate(k)

Spec == Init /\ [][Next]_vars

-----------------------------------------------------------------------------
\* attempts of a key let through in the window that starts, or that ends, at t
From(k, t) ==
  {i \in DOMAIN grants[k] : t <= grants[k][i] /\ grants[k][i] < t + Window[k]}
UpTo(k, t) ==
  {i \in DOMAIN grants[k] : grants[k][i] <= t /\ t < grants[k][i] + Window[k]}

(* A window is counted from its first attempt, not from any moment: across the end
   of one and the start of the next a client gets more than the limit through, but
   in no stretch of time as long as a window twice the limit, whenever expired
   counters are swept away and whoever else is counted (rate-limit.guard.ts:60). *)
BurstIsBounded ==
  \A k \in Keys, t \in 0..now : Cardinality(From(k, t)) < 2 * Limit[k]

(* Nobody is locked out for longer than its window: who is turned away now has had
   its full limit let through during the last window, and neither the attempts that
   were turned away nor those of other clients are held against it
   (rate-limit.guard.ts:65). *)
RefusalIsEarned ==
  \A k \in Keys :
    ~Admits(k, AfterSweep[k]) => Cardinality(UpTo(k, now)) >= Limit[k]
=============================================================================
