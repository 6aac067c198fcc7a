-------------------------- MODULE RateLimitProofs --------------------------
(* Proofs about RateLimit, for any endpoints, limits, windows and sweeps, and a
   clock that runs as long as it likes. *)
EXTENDS RateLimit, FiniteSetTheorems, TLAPS

USE RateLimitAssumption

(* What the invariant says of one key is said of its values: the times g of its
   attempts, its counter b, the clock n, its limit m and window w. *)
In(g, w, t) == {i \in DOMAIN g : t <= g[i] /\ g[i] < t + w}
Recent(g, w, n) == {i \in DOMAIN g : g[i] <= n /\ n < g[i] + w}

\* The attempts fall into windows, opened at the times in `opened`.
Windows(g, b, n, m, w, opened) ==
  /\ \A i \in DOMAIN g : \E o \in opened : i \in In(g, w, o)
  /\ \A o \in opened :
       /\ \E i \in DOMAIN g : g[i] = o
       /\ Cardinality(In(g, w, o)) <= m
  /\ \A o, p \in opened : o < p => o + w <= p
  /\ IF b.resetAt <= n
     THEN \A o \in opened : o + w <= n
     ELSE \E o \in opened : b.resetAt = o + w /\ Cardinality(In(g, w, o)) = b.count

Counts(g, b, n, m, w) == \E opened \in SUBSET Nat : Windows(g, b, n, m, w, opened)

CountsInv == \A k \in Keys : Counts(grants[k], buckets[k], now, Limit[k], Window[k])

Buckets == [count : Nat, resetAt : Nat]

-----------------------------------------------------------------------------
(* Facts about windows *)

LEMMA InIsFinite ==
  ASSUME NEW n \in Nat, NEW g \in Seq(0..n), NEW w \in Nat, NEW t \in Nat
  PROVE  IsFiniteSet(In(g, w, t)) /\ Cardinality(In(g, w, t)) \in Nat
<1>1. IsFiniteSet(1..Len(g))
  BY FS_Interval
<1>2. In(g, w, t) \in SUBSET (1..Len(g))
  BY DEF In
<1>3. QED
  BY <1>1, <1>2, FS_Subset, FS_CardinalityType

\* the clock moves on
LEMMA TickKeepsCounts ==
  ASSUME NEW n \in Nat, NEW g \in Seq(0..n), NEW b \in Buckets,
         NEW m \in Nat \ {0}, NEW w \in Nat \ {0}, Counts(g, b, n, m, w)
  PROVE  Counts(g, b, n + 1, m, w)
<1>1. PICK opened \in SUBSET Nat : Windows(g, b, n, m, w, opened)
  BY DEF Counts
<1>2. \A o \in opened : o <= n
  BY <1>1 DEF Windows
<1>3. CASE b.resetAt <= n
  <2>1. \A o \in opened : o + w <= n + 1
    BY <1>1, <1>3 DEF Windows, Buckets
  <2>2. b.resetAt <= n + 1
    BY <1>3 DEF Buckets
  <2>3. Windows(g, b, n + 1, m, w, opened)
    BY <1>1, <2>1, <2>2 DEF Windows
  <2>4. QED
    BY <2>3 DEF Counts
<1>4. CASE ~(b.resetAt <= n)
  <2>1. PICK o \in opened : b.resetAt = o + w /\ Cardinality(In(g, w, o)) = b.count
    BY <1>1, <1>4 DEF Windows
  <2>2. \A p \in opened : p <= o
    <3>1. \A p \in opened : o < p => o + w <= p
      BY <1>1 DEF Windows
    <3>2. QED
      BY <3>1, <2>1, <1>2, <1>4
  <2>3. ASSUME b.resetAt <= n + 1, NEW p \in opened PROVE p + w <= n + 1
    BY <2>1, <2>2, <2>3
  <2>4. Windows(g, b, n + 1, m, w, opened)
    BY <1>1, <2>1, <2>3 DEF Windows
  <2>5. QED
    BY <2>4 DEF Counts
<1>5. QED
  BY <1>3, <1>4

\* an expired counter may be swept away
LEMMA SweepKeepsCounts ==
  ASSUME NEW n \in Nat, NEW g \in Seq(0..n), NEW b \in Buckets,
         NEW m \in Nat \ {0}, NEW w \in Nat \ {0}, Counts(g, b, n, m, w),
         b.resetAt <= n
  PROVE  Counts(g, NoBucket, n, m, w)
<1>1. PICK opened \in SUBSET Nat : Windows(g, b, n, m, w, opened)
  BY DEF Counts
<1>2. NoBucket.resetAt <= n
  BY DEF NoBucket
<1>3. Windows(g, NoBucket, n, m, w, opened)
  BY <1>1, <1>2 DEF Windows
<1>4. QED
  BY <1>3 DEF Counts

\* what one more attempt changes
LEMMA InAppended ==
  ASSUME NEW n \in Nat, NEW g \in Seq(0..n), NEW w \in Nat \ {0}, NEW t \in 0..n
  PROVE  In(Append(g, n), w, t) =
           IF n < t + w THEN In(g, w, t) \cup {Len(g) + 1} ELSE In(g, w, t)
<1>1. /\ DOMAIN Append(g, n) = DOMAIN g \cup {Len(g) + 1}
      /\ Append(g, n)[Len(g) + 1] = n
      /\ \A i \in DOMAIN g : Append(g, n)[i] = g[i]
      /\ \A i \in DOMAIN g : g[i] \in 0..n
  OBVIOUS
<1>2. QED
  BY <1>1 DEF In

\* an attempt that opens a window
LEMMA FirstKeepsCounts ==
  ASSUME NEW n \in Nat, NEW g \in Seq(0..n), NEW b \in Buckets,
         NEW m \in Nat \ {0}, NEW w \in Nat \ {0}, Counts(g, b, n, m, w),
         b.resetAt <= n
  PROVE  Counts(Append(g, n), [count |-> 1, resetAt |-> n + w], n, m, w)
<1> DEFINE h == Append(g, n)
           c == [count |-> 1, resetAt |-> n + w]
<1>1. PICK opened \in SUBSET Nat : Windows(g, b, n, m, w, opened)
  BY DEF Counts
<1> DEFINE more == opened \cup {n}
<1>2. \A o \in opened : o \in 0..n /\ o + w <= n
  BY <1>1 DEF Windows
<1>3. \A o \in opened : In(h, w, o) = In(g, w, o)
  <2>1. ASSUME NEW o \in opened PROVE In(h, w, o) = In(g, w, o)
    BY <1>2, InAppended
  <2>2. QED
    BY <2>1
<1>4. In(g, w, n) = {}
  <2>1. ASSUME NEW i \in DOMAIN g PROVE g[i] < n
    <3>1. PICK o \in opened : i \in In(g, w, o)
      BY <1>1 DEF Windows
    <3>2. QED
      BY <3>1, <1>2 DEF In
  <2>2. QED
    BY <2>1 DEF In
<1>5. In(h, w, n) = {Len(g) + 1}
  BY <1>4, InAppended
<1>6. Cardinality(In(h, w, n)) = 1
  BY <1>5, FS_Singleton
<1>7. /\ DOMAIN h = DOMAIN g \cup {Len(g) + 1}
      /\ h[Len(g) + 1] = n
      /\ \A i \in DOMAIN g : h[i] = g[i]
  OBVIOUS
<1> HIDE DEF h
<1>8. \A i \in DOMAIN h : \E o \in more : i \in In(h, w, o)
  <2>1. \A i \in DOMAIN g : \E o \in opened : i \in In(h, w, o)
    BY <1>1, <1>3 DEF Windows
  <2>2. QED
    BY <2>1, <1>5, <1>7
<1>9. \A o \in more : /\ \E i \in DOMAIN h : h[i] = o
                      /\ Cardinality(In(h, w, o)) <= m
  <2>1. ASSUME NEW o \in opened
        PROVE  /\ \E i \in DOMAIN h : h[i] = o
               /\ Cardinality(In(h, w, o)) <= m
    BY <1>1, <1>3, <1>7 DEF Windows
  <2>2. QED
    BY <2>1, <1>6, <1>7
<1>10. \A o, p \in more : o < p => o + w <= p
  <2>1. \A o, p \in opened : o < p => o + w <= p
    BY <1>1 DEF Windows
  <2>2. QED
    BY <2>1, <1>2
<1>11. ~(c.resetAt <= n) /\ c.resetAt = n + w /\ c.count = 1
  OBVIOUS
<1> HIDE DEF c
<1>12. Windows(h, c, n, m, w, more)
  BY <1>6, <1>8, <1>9, <1>10, <1>11 DEF Windows
<1>13. more \in SUBSET Nat
  OBVIOUS
<1> HIDE DEF more
<1>14. Counts(h, c, n, m, w)
  BY <1>12, <1>13 DEF Counts
<1>15. QED
  BY <1>14 DEF h, c

\* an attempt that an open window has room for
LEMMA NextKeepsCounts ==
  ASSUME NEW n \in Nat, NEW g \in Seq(0..n), NEW b \in Buckets,
         NEW m \in Nat \ {0}, NEW w \in Nat \ {0}, Counts(g, b, n, m, w),
         n < b.resetAt, b.count < m
  PROVE  Counts(Append(g, n), [count |-> b.count + 1, resetAt |-> b.resetAt], n, m, w)
<1> DEFINE h == Append(g, n)
           c == [count |-> b.count + 1, resetAt |-> b.resetAt]
<1>1. PICK opened \in SUBSET Nat : Windows(g, b, n, m, w, opened)
  BY DEF Counts
<1>2. \A o \in opened : o \in 0..n
  BY <1>1 DEF Windows
<1>3. PICK last \in opened :
        b.resetAt = last + w /\ Cardinality(In(g, w, last)) = b.count
  <2>1. ~(b.resetAt <= n)
    BY DEF Buckets
  <2>2. QED
    BY <2>1, <1>1 DEF Windows
<1>4. \A o \in opened : o = last \/ o + w <= n
  <2>1. \A o, p \in opened : o < p => o + w <= p
    BY <1>1 DEF Windows
  <2>2. QED
    BY <2>1, <1>2, <1>3
<1>5. \A o \in opened : o # last => In(h, w, o) = In(g, w, o)
  <2>1. ASSUME NEW o \in opened, o # last PROVE In(h, w, o) = In(g, w, o)
    <3>1. o \in 0..n /\ o + w <= n
      BY <1>2, <1>4, <2>1
    <3>2. QED
      BY <3>1, InAppended
  <2>2. QED
    BY <2>1
<1>6. In(h, w, last) = In(g, w, last) \cup {Len(g) + 1}
  BY <1>2, <1>3, InAppended
<1>7. Cardinality(In(h, w, last)) = b.count + 1
  <2>1. Len(g) + 1 \notin In(g, w, last)
    BY DEF In
  <2>2. IsFiniteSet(In(g, w, last))
    BY <1>2, InIsFinite
  <2>3. Cardinality(In(g, w, last) \cup {Len(g) + 1}) = Cardinality(In(g, w, last)) + 1
    BY <2>1, <2>2, FS_AddElement
  <2>4. QED
    BY <2>3, <1>3, <1>6
<1>8. /\ DOMAIN h = DOMAIN g \cup {Len(g) + 1}
      /\ \A i \in DOMAIN g : h[i] = g[i]
  OBVIOUS
<1> HIDE DEF h
<1>9. \A o \in opened : In(g, w, o) \subseteq In(h, w, o)
  BY <1>5, <1>6
<1>10. \A i \in DOMAIN h : \E o \in opened : i \in In(h, w, o)
  <2>1. \A i \in DOMAIN g : \E o \in opened : i \in In(g, w, o)
    BY <1>1 DEF Windows
  <2>2. QED
    BY <2>1, <1>6, <1>8, <1>9
<1>11. \A o \in opened : /\ \E i \in DOMAIN h : h[i] = o
                         /\ Cardinality(In(h, w, o)) <= m
  <2>1. \A o \in opened : /\ \E i \in DOMAIN g : g[i] = o
                          /\ Cardinality(In(g, w, o)) <= m
    BY <1>1 DEF Windows
  <2>2. b.count + 1 <= m
    BY DEF Buckets
  <2>3. QED
    BY <2>1, <2>2, <1>5, <1>7, <1>8
<1>12. c.resetAt = b.resetAt /\ c.count = b.count + 1 /\ ~(c.resetAt <= n)
  BY DEF Buckets
<1> HIDE DEF c
<1>13. \A o, p \in opened : o < p => o + w <= p
  BY <1>1 DEF Windows
<1>14. Windows(h, c, n, m, w, opened)
  BY <1>3, <1>7, <1>10, <1>11, <1>12, <1>13 DEF Windows
<1>15. Counts(h, c, n, m, w)
  BY <1>14 DEF Counts
<1>16. QED
  BY <1>15 DEF h, c
\* Two windows at most reach into a stretch as long as one, and the earlier of two
\* does so without the attempt that opened it.
LEMMA CountsBoundBursts ==
  ASSUME NEW n \in Nat, NEW g \in Seq(0..n), NEW b \in Buckets,
         NEW m \in Nat \ {0}, NEW w \in Nat \ {0}, Counts(g, b, n, m, w),
         NEW t \in Nat
  PROVE  Cardinality(In(g, w, t)) < 2 * m
<1>1. PICK opened \in SUBSET Nat : Windows(g, b, n, m, w, opened)
  BY DEF Counts
<1>2. \A i \in DOMAIN g : g[i] \in Nat
  OBVIOUS
<1>3. \A i \in DOMAIN g : \E o \in opened : i \in In(g, w, o)
  BY <1>1 DEF Windows
<1>4. \A o \in opened : /\ \E i \in DOMAIN g : g[i] = o
                        /\ Cardinality(In(g, w, o)) <= m
  BY <1>1 DEF Windows
<1>5. \A o, p \in opened : o < p => o + w <= p
  BY <1>1 DEF Windows
<1>6. \A u \in Nat : IsFiniteSet(In(g, w, u)) /\ Cardinality(In(g, w, u)) \in Nat
  BY InIsFinite
<1> DEFINE Reaches(o) == o < t + w /\ t < o + w
<1>7. \A i \in In(g, w, t) : \E o \in opened : i \in In(g, w, o) /\ Reaches(o)
  BY <1>2, <1>3 DEF In
<1>8. CASE \A o \in opened : Reaches(o) => o >= t
  <2>1. \A o, p \in opened : Reaches(o) /\ Reaches(p) => o = p
    BY <1>5, <1>8
  <2>2. CASE \E o \in opened : Reaches(o)
    <3>1. PICK o \in opened : Reaches(o)
      BY <2>2
    <3>2. In(g, w, t) \in SUBSET In(g, w, o)
      BY <1>7, <2>1, <3>1
    <3>3. Cardinality(In(g, w, t)) <= Cardinality(In(g, w, o))
      BY <1>6, <3>2, FS_Subset
    <3>4. QED
      BY <1>4, <1>6, <3>3
  <2>3. CASE ~ \E o \in opened : Reaches(o)
    <3>1. In(g, w, t) = {}
      BY <1>7, <2>3
    <3>2. QED
      BY <3>1, FS_EmptySet
  <2>4. QED
    BY <2>2, <2>3
<1>9. ASSUME NEW o \in opened, Reaches(o), o < t
      PROVE  Cardinality(In(g, w, t)) < 2 * m
  <2>1. PICK i \in DOMAIN g : g[i] = o
    BY <1>4
  <2> DEFINE rest == In(g, w, o) \ {i}
  <2>2. i \in In(g, w, o) /\ i \notin In(g, w, t)
    <3>1. o \in Nat /\ o < t /\ o < o + w
      BY <1>9
    <3>2. ~(t <= g[i]) /\ o <= g[i] /\ g[i] < o + w
      BY <2>1, <3>1
    <3>3. QED
      BY <2>1, <3>2 DEF In
  <2>3. IsFiniteSet(rest) /\ Cardinality(rest) = Cardinality(In(g, w, o)) - 1
    <3> DEFINE early == In(g, w, o)
    <3>1. IsFiniteSet(early) /\ i \in early
      BY <1>6, <2>2
    <3> HIDE DEF early
    <3>2. IsFiniteSet(early \ {i}) /\ Cardinality(early \ {i}) = Cardinality(early) - 1
      BY <3>1, FS_RemoveElement
    <3>3. QED
      BY <3>2 DEF early
  <2>4. Cardinality(rest) \in Nat /\ Cardinality(rest) <= m - 1
    <3>1. Cardinality(In(g, w, o)) \in Nat /\ Cardinality(In(g, w, o)) <= m
      BY <1>4, <1>6
    <3>2. Cardinality(rest) \in Nat
      BY <2>3, FS_CardinalityType
    <3>3. QED
      BY <2>3, <3>1, <3>2
  <2>5. \A p \in opened : Reaches(p) /\ p # o => p > t
    BY <1>5, <1>9
  <2>6. \A p, q \in opened : Reaches(p) /\ p # o /\ Reaches(q) /\ q # o => p = q
    BY <1>5, <2>5
  <2> HIDE DEF Reaches
  <2>7. CASE \E p \in opened : Reaches(p) /\ p # o
    <3>1. PICK p \in opened : Reaches(p) /\ p # o
      BY <2>7
    <3>2. In(g, w, t) \in SUBSET (rest \cup In(g, w, p))
      BY <1>7, <2>2, <2>6, <3>1
    <3>3. IsFiniteSet(In(g, w, p)) /\ Cardinality(In(g, w, p)) \in Nat
          /\ Cardinality(In(g, w, p)) <= m
      BY <1>4, <1>6
    <3> DEFINE late == In(g, w, p)
               both == rest \cup late
    <3> HIDE DEF rest, late
    <3>4. /\ IsFiniteSet(both)
          /\ Cardinality(both) = Cardinality(rest) + Cardinality(late) - Cardinality(rest \cap late)
      BY <2>3, <3>3, FS_Union DEF late
    <3>5. Cardinality(rest \cap late) \in Nat
      BY <2>3, FS_Intersection, FS_CardinalityType
    <3>6. Cardinality(In(g, w, t)) <= Cardinality(both)
      <4>1. In(g, w, t) \in SUBSET both
        BY <3>2 DEF late
      <4>2. QED
        BY <4>1, <3>4, FS_Subset
    <3>7. Cardinality(late) \in Nat /\ Cardinality(late) <= m
      BY <3>3 DEF late
    <3>8. Cardinality(In(g, w, t)) \in Nat
      BY <1>6
    <3>9. Cardinality(both) <= (m - 1) + m
      <4> HIDE DEF both
      <4>1. \A r, l, c \in Nat : r <= m - 1 /\ l <= m => r + l - c <= (m - 1) + m
        OBVIOUS
      <4>2. QED
        BY <2>4, <3>4, <3>5, <3>7, <4>1
    <3>10. Cardinality(both) \in Nat
      BY <3>4, FS_CardinalityType
    <3> HIDE DEF both
    <3>11. QED
      BY <3>6, <3>8, <3>9, <3>10
  <2>8. CASE ~ \E p \in opened : Reaches(p) /\ p # o
    <3>1. In(g, w, t) \in SUBSET rest
      BY <1>7, <2>2, <2>8
    <3>2. Cardinality(In(g, w, t)) <= Cardinality(rest)
      BY <2>3, <3>1, FS_Subset
    <3>3. Cardinality(In(g, w, t)) \in Nat
      BY <1>6
    <3> HIDE DEF rest
    <3>4. QED
      BY <2>4, <3>2, <3>3
  <2>9. QED
    BY <2>7, <2>8
<1>10. QED
  BY <1>8, <1>9

\* Who finds its counter full has had as many attempts let through since it opened.
LEMMA CountsEarnRefusals ==
  ASSUME NEW n \in Nat, NEW g \in Seq(0..n), NEW b \in Buckets,
         NEW m \in Nat \ {0}, NEW w \in Nat \ {0}, Counts(g, b, n, m, w),
         n < b.resetAt, m <= b.count
  PROVE  Cardinality(Recent(g, w, n)) >= m
<1> DEFINE recent == Recent(g, w, n)
<1>1. PICK opened \in SUBSET Nat : Windows(g, b, n, m, w, opened)
  BY DEF Counts
<1>2. PICK o \in opened : b.resetAt = o + w /\ Cardinality(In(g, w, o)) = b.count
  <2>1. ~(b.resetAt <= n)
    BY DEF Buckets
  <2>2. QED
    BY <2>1, <1>1 DEF Windows
<1>3. \A i \in DOMAIN g : g[i] \in 0..n
  OBVIOUS
<1>4. In(g, w, o) \in SUBSET recent
  BY <1>2, <1>3 DEF In, Recent
<1>5. IsFiniteSet(recent)
  <2>1. IsFiniteSet(1..Len(g))
    BY FS_Interval
  <2>2. recent \in SUBSET (1..Len(g))
    BY DEF Recent
  <2>3. QED
    BY <2>1, <2>2, FS_Subset
<1>6. Cardinality(recent) \in Nat /\ Cardinality(In(g, w, o)) <= Cardinality(recent)
  BY <1>4, <1>5, FS_Subset, FS_CardinalityType
<1> HIDE DEF recent
<1>7. Cardinality(recent) >= m
  BY <1>2, <1>6 DEF Buckets
<1>8. QED
  BY <1>7 DEF recent

-----------------------------------------------------------------------------
(* The specification *)

LEMMA InitInvariant == Init => TypeOK /\ CountsInv
<1> SUFFICES ASSUME Init PROVE TypeOK /\ CountsInv
  OBVIOUS
<1>1. TypeOK
  BY DEF Init, TypeOK, NoBucket
<1>2. ASSUME NEW k \in Keys
      PROVE  Counts(grants[k], buckets[k], now, Limit[k], Window[k])
  <2>1. grants[k] = <<>> /\ buckets[k].resetAt = 0 /\ now = 0
    BY DEF Init, NoBucket
  <2>2. Windows(grants[k], buckets[k], now, Limit[k], Window[k], {})
    BY <2>1 DEF Windows
  <2>3. QED
    BY <2>2 DEF Counts
<1>3. QED
  BY <1>1, <1>2 DEF CountsInv

LEMMA CountersHaveTypes ==
  ASSUME TypeOK, NEW k \in Keys
  PROVE  /\ now \in Nat /\ grants[k] \in Seq(0..now)
         /\ buckets[k] \in Buckets /\ AfterSweep[k] \in Buckets
         /\ Limit[k] \in Nat \ {0} /\ Window[k] \in Nat \ {0}
<1>1. now \in Nat /\ grants[k] \in Seq(0..now) /\ buckets[k] \in Buckets
  BY DEF TypeOK, Buckets
<1>2. AfterSweep[k] \in Buckets
  BY <1>1 DEF AfterSweep, Swept, NoBucket, Buckets
<1>3. QED
  BY <1>1, <1>2

LEMMA AfterSweepCounts ==
  ASSUME TypeOK, CountsInv, NEW k \in Keys
  PROVE  Counts(grants[k], AfterSweep[k], now, Limit[k], Window[k])
<1>1. Counts(grants[k], buckets[k], now, Limit[k], Window[k])
  BY DEF CountsInv
<1>2. CASE SweepDue /\ Expired(buckets[k])
  <2>1. AfterSweep[k] = NoBucket
    BY <1>2 DEF AfterSweep, Swept
  <2>2. QED
    BY <1>1, <1>2, <2>1, CountersHaveTypes, SweepKeepsCounts DEF Expired
<1>3. CASE ~(SweepDue /\ Expired(buckets[k]))
  <2>1. AfterSweep[k] = buckets[k]
    BY <1>3 DEF AfterSweep, Swept
  <2>2. QED
    BY <1>1, <2>1
<1>4. QED
  BY <1>2, <1>3

LEMMA AttemptKeepsCounts ==
  ASSUME TypeOK, CountsInv, NEW k \in Keys, CanActivate(k)
  PROVE  TypeOK' /\ CountsInv'
<1> DEFINE b == AfterSweep[k]
           g == grants[k]
           m == Limit[k]
           w == Window[k]
<1>1. /\ now \in Nat /\ g \in Seq(0..now) /\ b \in Buckets
      /\ m \in Nat \ {0} /\ w \in Nat \ {0}
  BY CountersHaveTypes
<1>2. Counts(g, b, now, m, w)
  BY AfterSweepCounts
<1>3. \A j \in Keys : AfterSweep[j] \in Buckets
  BY CountersHaveTypes
<1>4. AfterSweep \in [Keys -> Buckets]
  BY <1>3 DEF AfterSweep
<1>5. /\ now' = now
      /\ lastSweep' \in 0..now
      /\ grants \in [Keys -> Seq(0..now)]
      /\ now \in 0..MaxTime
  BY DEF CanActivate, TypeOK
<1>6. ASSUME NEW bb \in Buckets, NEW gg \in Seq(0..now),
             buckets' = [AfterSweep EXCEPT ![k] = bb],
             grants' = [grants EXCEPT ![k] = gg],
             Counts(gg, bb, now, m, w)
      PROVE  TypeOK' /\ CountsInv'
  <2>1. TypeOK'
    BY <1>4, <1>5, <1>6 DEF TypeOK, Buckets
  <2>2. ASSUME NEW j \in Keys
        PROVE  Counts(grants[j], buckets[j], now, Limit[j], Window[j])'
    <3>1. CASE j = k
      <4>1. grants'[j] = gg /\ buckets'[j] = bb
        BY <1>4, <1>5, <1>6, <3>1
      <4>2. QED
        BY <1>5, <1>6, <3>1, <4>1
    <3>2. CASE j # k
      <4>1. grants'[j] = grants[j] /\ buckets'[j] = AfterSweep[j]
        BY <1>4, <1>5, <1>6, <3>2
      <4>2. QED
        BY <1>5, <4>1, AfterSweepCounts
    <3>3. QED
      BY <3>1, <3>2
  <2>3. QED
    BY <2>1, <2>2 DEF CountsInv
<1>7. CASE Expired(b)
  <2> DEFINE bb == [count |-> 1, resetAt |-> now + w]
             gg == Append(g, now)
  <2>1. buckets' = [AfterSweep EXCEPT ![k] = bb] /\ grants' = [grants EXCEPT ![k] = gg]
    BY <1>4, <1>5, <1>7 DEF CanActivate, Admits, Counted
  <2>2. bb \in Buckets /\ gg \in Seq(0..now)
    BY <1>1 DEF Buckets
  <2>3. Counts(gg, bb, now, m, w)
    BY <1>1, <1>2, <1>7, FirstKeepsCounts DEF Expired
  <2> HIDE DEF bb, gg
  <2>4. QED
    BY <1>6, <2>1, <2>2, <2>3
<1>8. CASE ~Expired(b) /\ b.count < m
  <2> DEFINE bb == [count |-> b.count + 1, resetAt |-> b.resetAt]
             gg == Append(g, now)
  <2>1. [b EXCEPT !.count = @ + 1] = bb
    <3>1. PICK r \in Buckets : r = b
      BY <1>1
    <3>2. [r EXCEPT !.count = @ + 1] = [count |-> r.count + 1, resetAt |-> r.resetAt]
      BY DEF Buckets
    <3>3. QED
      BY <3>1, <3>2
  <2>2. buckets' = [AfterSweep EXCEPT ![k] = bb] /\ grants' = [grants EXCEPT ![k] = gg]
    BY <1>4, <1>5, <1>8, <2>1 DEF CanActivate, Admits, Counted
  <2>3. bb \in Buckets /\ gg \in Seq(0..now)
    BY <1>1 DEF Buckets
  <2>4. now < b.resetAt
    BY <1>1, <1>8 DEF Expired, Buckets
  <2>5. Counts(gg, bb, now, m, w)
    BY <1>1, <1>2, <1>8, <2>4, NextKeepsCounts
  <2> HIDE DEF bb, gg
  <2>6. QED
    BY <1>6, <2>2, <2>3, <2>5
<1>9. CASE ~Expired(b) /\ ~(b.count < m)
  <2>1. buckets' = [AfterSweep EXCEPT ![k] = b] /\ grants' = [grants EXCEPT ![k] = g]
    BY <1>4, <1>5, <1>9 DEF CanActivate, Admits, Left
  <2> HIDE DEF b, g
  <2>2. QED
    BY <1>1, <1>2, <1>6, <2>1
<1>10. QED
  BY <1>7, <1>8, <1>9

LEMMA StepKeepsCounts == TypeOK /\ CountsInv /\ [Next]_vars => TypeOK' /\ CountsInv'
<1> SUFFICES ASSUME TypeOK, CountsInv, [Next]_vars PROVE TypeOK' /\ CountsInv'
  OBVIOUS
<1>1. CASE UNCHANGED vars
  BY <1>1 DEF vars, TypeOK, CountsInv
<1>2. CASE Tick
  <2>1. /\ now' = now + 1 /\ now \in 0..MaxTime /\ now < MaxTime
        /\ grants' = grants /\ buckets' = buckets /\ lastSweep' = lastSweep
    BY <1>2 DEF Tick, TypeOK
  <2>2. ASSUME NEW k \in Keys PROVE grants[k] \in Seq(0..now + 1)
    <3>1. grants[k] \in Seq(0..now)
      BY DEF TypeOK
    <3>2. QED
      BY <2>1, <3>1
  <2>3. grants \in [Keys -> Seq(0..now + 1)]
    BY <2>2 DEF TypeOK
  <2>4. TypeOK'
    BY <2>1, <2>3 DEF TypeOK
  <2>5. ASSUME NEW k \in Keys
        PROVE  Counts(grants[k], buckets[k], now, Limit[k], Window[k])'
    <3>1. Counts(grants[k], buckets[k], now, Limit[k], Window[k])
      BY DEF CountsInv
    <3>2. Counts(grants[k], buckets[k], now + 1, Limit[k], Window[k])
      BY <3>1, CountersHaveTypes, TickKeepsCounts
    <3>3. QED
      BY <2>1, <3>2
  <2>6. QED
    BY <2>4, <2>5 DEF CountsInv
<1>3. ASSUME NEW k \in Keys, CanActivate(k) PROVE TypeOK' /\ CountsInv'
  BY <1>3, AttemptKeepsCounts
<1>4. QED
  BY <1>1, <1>2, <1>3 DEF Next

(* The invariant: the attempts let through fall into windows a whole window apart, each
   opened by one of them and none over its limit, and an unexpired counter counts the
   last of these (rate-limit.guard.ts:60). *)
THEOREM CountersCountWindows == Spec => [](TypeOK /\ CountsInv)
<1>1. QED
  BY InitInvariant, StepKeepsCounts, PTL DEF Spec

(* In no stretch of time as long as a window does a client get twice its limit through,
   for any limits, windows and sweeps (rate-limit.guard.ts:60). *)
THEOREM BurstsAreBounded == Spec => []BurstIsBounded
<1>1. TypeOK /\ CountsInv => BurstIsBounded
  <2> SUFFICES ASSUME TypeOK, CountsInv, NEW k \in Keys, NEW t \in 0..now
               PROVE  Cardinality(From(k, t)) < 2 * Limit[k]
    BY DEF BurstIsBounded
  <2>1. t \in Nat
    OBVIOUS
  <2>2. Counts(grants[k], buckets[k], now, Limit[k], Window[k])
    BY DEF CountsInv
  <2>3. Cardinality(In(grants[k], Window[k], t)) < 2 * Limit[k]
    BY <2>1, <2>2, CountersHaveTypes, CountsBoundBursts
  <2>4. QED
    BY <2>3 DEF In, From
<1>2. QED
  BY <1>1, CountersCountWindows, PTL

(* Whoever is turned away has had its full limit let through within the last window
   (rate-limit.guard.ts:65). *)
THEOREM RefusalsAreEarned == Spec => []RefusalIsEarned
<1>1. TypeOK /\ CountsInv => RefusalIsEarned
  <2> SUFFICES ASSUME TypeOK, CountsInv, NEW k \in Keys, ~Admits(k, AfterSweep[k])
               PROVE  Cardinality(UpTo(k, now)) >= Limit[k]
    BY DEF RefusalIsEarned
  <2>1. now < AfterSweep[k].resetAt /\ Limit[k] <= AfterSweep[k].count
    BY CountersHaveTypes DEF Admits, Expired, Buckets
  <2>2. Counts(grants[k], AfterSweep[k], now, Limit[k], Window[k])
    BY AfterSweepCounts
  <2>3. Cardinality(Recent(grants[k], Window[k], now)) >= Limit[k]
    BY <2>1, <2>2, CountersHaveTypes, CountsEarnRefusals
  <2>4. UpTo(k, now) = Recent(grants[k], Window[k], now)
    BY DEF UpTo, Recent
  <2>5. QED
    BY <2>3, <2>4
<1>2. QED
  BY <1>1, CountersCountWindows, PTL
=============================================================================
