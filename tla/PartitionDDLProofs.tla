-------------------------- MODULE PartitionDDLProofs --------------------------
(***************************************************************************)
(* Lemmas about the bounds and names of partitions.  What is said of names *)
(* holds when the driver creates partitions of one hour, as it does by     *)
(* default: pglg-setup does not read PartitionInterval.                    *)
(***************************************************************************)
EXTENDS PartitionDDL, TLAPS

\* The driver and pglg-setup share one grid, and a name tells its points apart.
Aligned == PartitionInterval = Hour /\ Hour % Minute = 0

\* A partition of that grid.
OnGrid(p) ==
    /\ p \in Partitions
    /\ p.lower % PartitionInterval = 0
    /\ p = Partition(p.lower, PartitionInterval)

-----------------------------------------------------------------------------
(* Arithmetic of the grid.                                                 *)

\* The quotient and the remainder of a division are unique.
LEMMA QuotientUnique ==
    ASSUME NEW n \in Nat \ {0}, NEW k \in Int, NEW r \in 0..(n - 1)
    PROVE  (k * n + r) % n = r /\ (k * n + r) \div n = k
  <1> DEFINE a == k * n + r
             q == a \div n
             s == a % n
  <1>1. a \in Int
    OBVIOUS
  <1>2. q \in Int /\ s \in 0..(n-1) /\ a = n * q + s
    BY <1>1
  <1> HIDE DEF q, s
  <1>3. (k - q) * n = s - r
    BY <1>2
  <1>4. ~(k - q >= 1)
    BY <1>2, <1>3
  <1>5. ~(k - q <= -1)
    BY <1>2, <1>3
  <1>6. k = q
    BY <1>2, <1>4, <1>5
  <1> QED
    BY <1>2, <1>6, <1>3 DEF q, s

\* A number on the grid is a multiple of its width.
LEMMA GridMultiple ==
    ASSUME NEW n \in Nat \ {0}, NEW t \in Int, t % n = 0
    PROVE  t \div n \in Int /\ t = (t \div n) * n
  OBVIOUS

LEMMA MultipleGrid ==
    ASSUME NEW n \in Nat \ {0}, NEW k \in Int
    PROVE  (k * n) % n = 0 /\ (k * n) \div n = k
  <1>1. (k * n + 0) % n = 0 /\ (k * n + 0) \div n = k
    BY QuotientUnique
  <1>2. k * n + 0 = k * n
    OBVIOUS
  <1> QED
    BY <1>1, <1>2

\* The next point of the grid.
LEMMA GridStep ==
    ASSUME NEW n \in Nat \ {0}, NEW t \in Int, t % n = 0
    PROVE  (t + n) % n = 0
  <1> DEFINE k == t \div n
  <1>1. k \in Int /\ t = k * n
    BY GridMultiple
  <1> HIDE DEF k
  <1>2. t + n = (k + 1) * n
    BY <1>1
  <1>3. ((k + 1) * n) % n = 0
    BY <1>1, MultipleGrid
  <1> QED
    BY <1>2, <1>3

\* Truncate finds the last point of the grid.
LEMMA GridTruncate ==
    ASSUME NEW n \in Nat \ {0}, NEW t \in Int
    PROVE  /\ Truncate(t, n) \in Int
           /\ Truncate(t, n) % n = 0
           /\ Truncate(t, n) <= t /\ t < Truncate(t, n) + n
  <1> DEFINE k == t \div n
             r == t % n
  <1>1. k \in Int /\ r \in 0..(n - 1) /\ t = n * k + r
    OBVIOUS
  <1>2. Truncate(t, n) = t - r
    BY DEF Truncate
  <1> HIDE DEF k, r
  <1>3. Truncate(t, n) = k * n
    BY <1>1, <1>2
  <1>4. (k * n) % n = 0
    BY <1>1, MultipleGrid
  <1> QED
    BY <1>1, <1>2, <1>3, <1>4

\* Two points of the grid less than its width apart are one.
LEMMA GridApart ==
    ASSUME NEW n \in Nat \ {0}, NEW t \in Int, NEW u \in Int, t % n = 0, u % n = 0,
           t < u + n, u < t + n
    PROVE  t = u
  <1> DEFINE j == t \div n
             k == u \div n
  <1>1. j \in Int /\ t = j * n /\ k \in Int /\ u = k * n
    BY GridMultiple
  <1> HIDE DEF j, k
  <1>2. (j - k) * n < n /\ (k - j) * n < n
    BY <1>1
  <1>3. ~(j - k >= 1) /\ ~(k - j >= 1)
    BY <1>1, <1>2
  <1>4. j = k
    BY <1>1, <1>3
  <1> QED
    BY <1>1, <1>4

\* The name of a partition on the grid keeps its lower bound whole (partitionName).
LEMMA NameIsLower ==
    ASSUME Aligned, NEW t \in Int, t % PartitionInterval = 0
    PROVE  t = ParsePartitionLower(PartitionName(t)) /\ PartitionName(t) \in Int
  <1> USE IntervalAssumption
  <1> DEFINE j == t \div PartitionInterval
             k == PartitionInterval \div Minute
  <1>1. j \in Int /\ t = j * PartitionInterval
    BY GridMultiple
  <1>2. k \in Int /\ PartitionInterval = k * Minute
    BY GridMultiple DEF Aligned
  <1> HIDE DEF j, k
  <1>3. t = (j * k) * Minute
    BY <1>1, <1>2
  <1>4. (j * k) \in Int
    BY <1>1, <1>2
  <1>5. ((j * k) * Minute) \div Minute = j * k
    BY <1>4, MultipleGrid
  <1> QED
    BY <1>3, <1>4, <1>5 DEF ParsePartitionLower, PartitionName

-----------------------------------------------------------------------------
(* Partitions of the grid.                                                 *)

LEMMA PartitionOnGrid ==
    ASSUME Aligned, NEW t \in Int, t % PartitionInterval = 0
    PROVE  OnGrid(Partition(t, PartitionInterval))
  BY NameIsLower, IntervalAssumption DEF OnGrid, Partition, Partitions

\* A name stands for one partition.
LEMMA NameDecides ==
    ASSUME Aligned, NEW p, NEW q, OnGrid(p), OnGrid(q), p.name = q.name
    PROVE  p = q
  <1>1. p.lower \in Int /\ q.lower \in Int
    BY DEF OnGrid, Partitions
  <1>2. p.name = PartitionName(p.lower) /\ q.name = PartitionName(q.lower)
    BY DEF OnGrid, Partition
  <1>3. p.lower = q.lower
    BY <1>1, <1>2, NameIsLower DEF OnGrid
  <1> QED
    BY <1>3 DEF OnGrid

\* No CREATE TABLE ... PARTITION OF meets an overlap.
LEMMA NeverRefused ==
    ASSUME Aligned, NEW S, \A q \in S : OnGrid(q), NEW p, OnGrid(p)
    PROVE  ~Refused(S, p)
  <1> SUFFICES ASSUME NEW q \in S, q.lower < p.upper, p.lower < q.upper
               PROVE  p.name \in Names(S)
    BY DEF Refused
  <1>1. p.lower \in Int /\ q.lower \in Int
    BY DEF OnGrid, Partitions
  <1>2. p.upper = p.lower + PartitionInterval /\ q.upper = q.lower + PartitionInterval
    BY DEF OnGrid, Partition
  <1>3. p.lower = q.lower
    BY <1>1, <1>2, GridApart, IntervalAssumption DEF OnGrid
  <1> QED
    BY <1>3 DEF OnGrid, Names

\* After CREATE TABLE IF NOT EXISTS the partition asked for is there, and no other is new.
LEMMA ThereAfter ==
    ASSUME Aligned, NEW S, \A q \in S : OnGrid(q), NEW p, OnGrid(p)
    PROVE  /\ p \in IfNotExists(S, p)
           /\ S \subseteq IfNotExists(S, p)
           /\ IfNotExists(S, p) \subseteq S \cup {p}
  <1>1. CASE p.name \in Names(S)
    <2>1. PICK q \in S : p.name = q.name
      BY <1>1 DEF Names
    <2>2. p = q
      BY <2>1, NameDecides
    <2> QED
      BY <1>1, <2>1, <2>2 DEF IfNotExists
  <1>2. CASE p.name \notin Names(S)
    BY <1>2 DEF IfNotExists
  <1> QED
    BY <1>1, <1>2

-----------------------------------------------------------------------------
(* Operators and their types.                                              *)

LEMMA LoopStartType ==
    ASSUME NEW t \in Int
    PROVE  /\ LoopStart(t) \in Int /\ LoopStart(t) % PartitionInterval = 0
           /\ LoopStart(t) <= t
  <1>1. t - PartitionInterval \in Int /\ t - PartitionInterval <= t
    BY IntervalAssumption
  <1> QED
    BY <1>1, GridTruncate, IntervalAssumption DEF LoopStart

LEMMA PartitionType ==
    ASSUME NEW t \in Int, NEW d \in Int
    PROVE  Partition(t, d) \in Partitions
  BY IntervalAssumption DEF Partition, Partitions, PartitionName

LEMMA IfNotExistsType ==
    ASSUME NEW S \in SUBSET Partitions, NEW p \in Partitions
    PROVE  IfNotExists(S, p) \in SUBSET Partitions
  BY DEF IfNotExists

LEMMA DropAllType ==
    ASSUME NEW S, NEW names
    PROVE  DropAll(S, names) \subseteq S
  BY DEF DropAll

LEMMA MaxIsOne ==
    ASSUME NEW a \in Int, NEW b \in Int
    PROVE  Max({a, b}) \in {a, b}
  <1> DEFINE m == IF a >= b THEN a ELSE b
  <1>1. m \in {a, b} /\ \A y \in {a, b} : m >= y
    OBVIOUS
  <1> QED
    BY <1>1 DEF Max

\* Where a driver that is in no loop is.
LEMMA ZeroOnGrid == 0 % PartitionInterval = 0 /\ 0 % Hour = 0
  BY IntervalAssumption

\* What has expired stays so, and what has not had not before.
LEMMA ExpiredStays ==
    ASSUME NEW x \in Int, NEW t \in Int, NEW u \in Int, t <= u, x <= t - PartitionRetention
    PROVE  x <= u - PartitionRetention
  BY IntervalAssumption

LEMMA CutoffAdvances ==
    ASSUME NEW x \in Int, NEW t \in Int, NEW u \in Int, t <= u, x >= u - PartitionRetention
    PROVE  x >= t - PartitionRetention
  BY IntervalAssumption

\* What is younger than everything that was dropped stays covered.
LEMMA CoveredKept ==
    ASSUME NEW S \in SUBSET Partitions, NEW T, NEW cutoff \in Int,
           \A p \in S \ T : p.upper <= cutoff,
           NEW x \in Int, x >= cutoff, Covers(S, x)
    PROVE  Covers(T, x)
  <1>1. PICK p \in S : Holds(p, x)
    BY DEF Covers
  <1>2. p.upper \in Int /\ x < p.upper
    BY <1>1 DEF Partitions, Holds
  <1>3. p \in T
    BY <1>2
  <1> QED
    BY <1>1, <1>3 DEF Covers
===============================================================================
