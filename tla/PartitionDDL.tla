---------------------------- MODULE PartitionDDL ----------------------------
(***************************************************************************)
(* What partition maintenance and pglg-setup share: the configuration, the *)
(* names and bounds of partitions, and the DDL of PostgreSQL they use.  A  *)
(* partition is the record of its name and bounds; times are integers.     *)
(***************************************************************************)
EXTENDS Integers, FiniteSets, FiniteSetsExt

CONSTANTS
    PartitionInterval, PartitionLookAhead, PartitionRetention,   \* Config
    Minute,          \* the resolution of a partition name
    Hour             \* the length of the partitions of pglg-setup

ASSUME IntervalAssumption ==
    /\ PartitionInterval \in Nat \ {0} /\ Minute \in Nat \ {0} /\ Hour \in Nat \ {0}
    /\ PartitionLookAhead \in Nat \ {0} /\ PartitionRetention \in Nat \ {0}

NoTime == -1

Truncate(t, d) == t - (t % d)

\* partitionName keeps the minutes of the lower bound and drops what is below them.
PartitionName(lower) == lower \div Minute

ParsePartitionLower(name) == name * Minute

Partition(lower, length) ==
    [name |-> PartitionName(lower), lower |-> lower, upper |-> lower + length]

Partitions == [name : Int, lower : Int, upper : Int]

Names(S) == {p.name : p \in S}

Holds(p, x) == p.lower <= x /\ x < p.upper

Covers(S, x) == \E p \in S : Holds(p, x)

\* CREATE TABLE IF NOT EXISTS ... PARTITION OF is refused: a new name, an old range.
Refused(S, p) ==
    p.name \notin Names(S) /\ \E q \in S : q.lower < p.upper /\ p.lower < q.upper

\* CREATE TABLE IF NOT EXISTS and INSERT ... ON CONFLICT DO NOTHING: the name decides.
IfNotExists(S, p) == IF p.name \in Names(S) THEN S ELSE S \cup {p}

\* DETACH PARTITION and DROP TABLE for each name in one transaction: all or none.
DropAll(S, names) == IF names \subseteq Names(S) THEN {p \in S : p.name \notin names} ELSE S

LoopStartMutant(t) == t - PartitionInterval

\* The loops of createPartitions and createReplicaPartitions: from one interval back to
\* the end of the look-ahead.
LoopStart(t) == Truncate(t - PartitionInterval, PartitionInterval)

LoopEnd(t) == t + PartitionLookAhead
=============================================================================
