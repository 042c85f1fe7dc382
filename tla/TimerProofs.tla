----------------------------- MODULE TimerProofs -----------------------------
(***************************************************************************)
(* Facts about the operators of Timer, for every set of deadlines, every   *)
(* moment and every width of the truncated integer.                        *)
(***************************************************************************)
EXTENDS Timer, WellFoundedInduction, TLAPS

\* BTreeSet::first: a set of deadlines that is not empty has an earliest one.
LEMMA FirstIsLeast ==
  ASSUME NEW timeouts, timeouts \subseteq Nat, timeouts # {}
  PROVE  /\ First(timeouts) \in timeouts
         /\ \A t \in timeouts : First(timeouts) <= t
<1>. DEFINE Less == OpToRel(<, Nat)
<1>1. \A t, u \in Nat : u < t => <<u, t>> \in Less
  BY DEF OpToRel
<1>2. IsWellFoundedOn(Less, Nat)
  BY NatLessThanWellFounded
<1>. HIDE DEF Less
<1>3. PICK m \in timeouts : \A t \in timeouts : ~ (<<t, m>> \in Less)
  BY <1>2, WFMin
<1>4. ASSUME NEW t \in timeouts PROVE m <= t
  <2>1. m \in Nat /\ t \in Nat
    OBVIOUS
  <2>2. ~ (t < m)
    BY <1>1, <1>3, <2>1, Zenon
  <2>. QED
    BY <2>1, <2>2, SMT
<1>. QED
  BY <1>4 DEF First, Min

-----------------------------------------------------------------------------
(* The timeout computed from truncated deadlines.                          *)

LEMMA ProductSign ==
  ASSUME NEW k \in Int, NEW n \in Nat \ {0}
  PROVE  /\ k >= 1 => n * k >= n
         /\ k >= 0 => n * k >= 0
         /\ k <= 0 => n * k <= 0
         /\ k <= -1 => n * k <= -n
  OBVIOUS

LEMMA Truncation ==
  ASSUME NEW n \in Nat
  PROVE  /\ AsMillis(n) \in Nat /\ AsMillis(n) < U64
         /\ n \div U64 \in Int /\ n = U64 * (n \div U64) + AsMillis(n)
  BY TimerAssumption DEF AsMillis

LEMMA WrappedDifference ==
  ASSUME NEW a \in Nat, NEW b \in Nat, a < U64, b < U64
  PROVE  (a - b) % U64 = IF a >= b THEN a - b ELSE a - b + U64
  BY TimerAssumption

\* Truncating two moments to u64 and subtracting them, wrapping when the first
\* is below the second, yields a natural number no larger than the difference
\* between the moments themselves.
LEMMA TruncatedDifference ==
  ASSUME NEW later \in Nat, NEW time \in Nat, later >= time
  PROVE  LET d == (AsMillis(later) - AsMillis(time)) % U64
         IN  d \in Nat /\ d <= later - time
<1>. DEFINE a == AsMillis(later)
            b == AsMillis(time)
            p == later \div U64
            q == time \div U64
<1>1. /\ U64 \in Nat \ {0} /\ a \in Nat /\ b \in Nat /\ a < U64 /\ b < U64
      /\ p \in Int /\ q \in Int
      /\ later = U64 * p + a /\ time = U64 * q + b
  BY Truncation, TimerAssumption
<1>2. (a - b) % U64 = IF a >= b THEN a - b ELSE a - b + U64
  BY <1>1, WrappedDifference
<1>. HIDE DEF a, b, p, q
<1>3. later - time = U64 * (p - q) + (a - b)
  BY <1>1
<1>4. /\ p - q >= 1 => U64 * (p - q) >= U64
      /\ p - q >= 0 => U64 * (p - q) >= 0
      /\ p - q <= 0 => U64 * (p - q) <= 0
      /\ p - q <= -1 => U64 * (p - q) <= -U64
  BY <1>1, ProductSign
<1>5. U64 * (p - q) \in Int /\ p - q \in Int
  BY <1>1
<1>6. CASE a >= b
  <2>1. p - q >= 0
    BY <1>1, <1>3, <1>4, <1>5, <1>6
  <2>. QED
    BY <1>1, <1>2, <1>3, <1>4, <1>5, <1>6, <2>1 DEF a, b
<1>7. CASE a < b
  <2>1. p - q >= 1
    BY <1>1, <1>3, <1>4, <1>5, <1>7
  <2>. QED
    BY <1>1, <1>2, <1>3, <1>4, <1>5, <1>7, <2>1 DEF a, b
<1>. QED
  BY <1>1, <1>6, <1>7

\* The timeout given to poll is a natural number, and waiting for it from
\* `time` on never passes a deadline that is still ahead, however short the
\* integer the deadlines are truncated to: the wrapping subtraction may wake
\* the reactor too early but not too late.
THEOREM NextExpiringNeverLate ==
  ASSUME NEW timeouts, timeouts \subseteq Nat, NEW time \in Nat, NEW default \in Nat
  PROVE  LET wait == NextExpiringFrom(timeouts, time, default)
         IN  /\ wait \in Nat
             /\ wait > 0 => \A t \in timeouts : time + wait <= t
<1>1. CASE timeouts = {}
  BY <1>1 DEF NextExpiringFrom
<1>2. CASE timeouts # {}
  <2>. DEFINE first == First(timeouts)
  <2>1. first \in Nat /\ \A t \in timeouts : t \in Nat /\ first <= t
    BY <1>2, FirstIsLeast
  <2>. HIDE DEF first
  <2>2. CASE first >= time
    <3>. DEFINE wait == (AsMillis(first) - AsMillis(time)) % U64
    <3>1. wait \in Nat /\ wait <= first - time
      BY <2>1, <2>2, TruncatedDifference
    <3>2. NextExpiringFrom(timeouts, time, default) = wait
      BY <1>2, <2>2 DEF NextExpiringFrom, first
    <3>. HIDE DEF wait
    <3>. QED
      BY <2>1, <3>1, <3>2
  <2>3. CASE ~ (first >= time)
    BY <1>2, <2>3 DEF NextExpiringFrom, first
  <2>. QED
    BY <2>2, <2>3
<1>. QED
  BY <1>1, <1>2
=============================================================================
