----------------------------- MODULE Partitions -----------------------------
(***************************************************************************)
(* Partition maintenance on the primary: createPartitions and              *)
(* dropExpiredPartitions of every driver that believes to be the leader    *)
(* (Leadership shows that two can be in a pass at once), and the partition *)
(* of the current hour that pglg-setup creates.  One clock serves the      *)
(* drivers and the server.                                                 *)
(***************************************************************************)
EXTENDS PartitionDDL

CONSTANTS
    Drivers,
    MaxTime,         \* bound: the clock
    MaxFaults        \* bound: failures

ASSUME BoundsAssumption == MaxTime \in Nat /\ MaxFaults \in Nat

VARIABLES
    now,
    tables,      \* partitions attached to the outbox table
    meta,        \* rows of partition_meta
    pc, at, end, \* of each driver: where it is in a pass, t and end of the loop
    setup,       \* where pglg-setup is
    setupAt,     \* the hour it creates
    lastPass,    \* history: the clock at the last createPartitions no failure interrupted
    faults

clock  == <<now, faults>>
schema == <<tables, meta>>
loop   == <<pc, at, end>>
tool   == <<setup, setupAt>>
vars   == <<clock, schema, loop, tool, lastPass>>

Fault == faults < MaxFaults /\ faults' = faults + 1 /\ UNCHANGED now

Goes(m, step) == pc' = [pc EXCEPT ![m] = step]

NextBound(m) == at' = [at EXCEPT ![m] = @ + PartitionInterval]

InLoopMutant(m) == at[m] + PartitionInterval < end[m]

InLoop(m) == at[m] < end[m]

LeavesLoop(m) ==
    /\ Goes(m, "drop")
    /\ at' = [at EXCEPT ![m] = 0]
    /\ end' = [end EXCEPT ![m] = 0]

\* The partition the loop of m is at.
This(m) == Partition(at[m], PartitionInterval)

-----------------------------------------------------------------------------
StartPass(m) ==
    /\ pc[m] = "idle"
    /\ Goes(m, "check")
    /\ at' = [at EXCEPT ![m] = LoopStart(now)]
    /\ end' = [end EXCEPT ![m] = LoopEnd(now)]
    /\ UNCHANGED <<clock, schema, tool, lastPass>>

\* SELECT EXISTS ... FROM partition_meta: a registered partition is skipped.
CheckPartition(m) ==
    /\ pc[m] = "check"
    /\ InLoop(m)
    /\ IF This(m).name \in Names(meta)
       THEN NextBound(m) /\ UNCHANGED pc
       ELSE Goes(m, "create") /\ UNCHANGED at
    /\ UNCHANGED <<clock, schema, end, tool, lastPass>>

\* The transaction that creates and registers a partition commits.
Registers(p) ==
    /\ ~Refused(tables, p)
    /\ tables' = IfNotExists(tables, p)
    /\ meta' = IfNotExists(meta, p)

CreatePartition(m) ==
    /\ pc[m] = "create"
    /\ Registers(This(m))
    /\ NextBound(m)
    /\ Goes(m, "check")
    /\ UNCHANGED <<clock, end, tool, lastPass>>

\* createPartitions returns, at the end of its loop or because of an overlap.
CreateReturns(m) ==
    /\ \/ pc[m] = "check" /\ ~InLoop(m)
       \/ pc[m] = "create" /\ Refused(tables, This(m))
    /\ lastPass' = Max({lastPass, end[m] - PartitionLookAhead})
    /\ LeavesLoop(m)
    /\ UNCHANGED <<clock, schema, tool>>

\* A statement or a commit fails; the commit may have happened all the same.
CreateFails(m) ==
    /\ Fault
    /\ \/ pc[m] \in {"check", "create"} /\ UNCHANGED schema
       \/ pc[m] = "create" /\ Registers(This(m))
    /\ LeavesLoop(m)
    /\ UNCHANGED <<tool, lastPass>>

ExpiredMutant == {p \in meta : p.lower <= now - PartitionRetention}

\* SELECT ... WHERE upper_bound <= cutoff FOR UPDATE: a concurrent pass waits here.
Expired == {p \in meta : p.upper <= now - PartitionRetention}

DropExpiredMutant(m) ==
    /\ pc[m] = "drop"
    /\ tables' = DropAll(tables, Names(Expired))
    /\ Goes(m, "idle")
    /\ UNCHANGED <<clock, meta, at, end, tool, lastPass>>

DropExpiredUncommitted(m) ==
    /\ pc[m] = "drop"
    /\ Goes(m, "idle")
    /\ UNCHANGED <<clock, schema, at, end, tool, lastPass>>

\* One transaction; a registered partition that is not attached fails all of it.
DropExpired(m) ==
    /\ pc[m] = "drop"
    /\ tables' = DropAll(tables, Names(Expired))
    /\ meta' = IF Names(Expired) \subseteq Names(tables) THEN meta \ Expired ELSE meta
    /\ Goes(m, "idle")
    /\ UNCHANGED <<clock, at, end, tool, lastPass>>

DropFails(m) ==
    /\ Fault
    /\ pc[m] = "drop"
    /\ Goes(m, "idle")
    /\ UNCHANGED <<schema, at, end, tool, lastPass>>

\* The process stops in a pass; its open transaction is rolled back.
Crash(m) ==
    /\ Fault
    /\ pc[m] # "idle"
    /\ pc' = [pc EXCEPT ![m] = "idle"]
    /\ at' = [at EXCEPT ![m] = 0]
    /\ end' = [end EXCEPT ![m] = 0]
    /\ UNCHANGED <<schema, tool, lastPass>>

-----------------------------------------------------------------------------
(* pglg-setup create.                                                      *)

SetupCreates ==
    LET p == Partition(Truncate(now, Hour), Hour)
    IN  /\ setup = "create"
        /\ setupAt' = p.lower
        /\ IF Refused(tables, p)
           THEN setup' = "failed" /\ UNCHANGED tables
           ELSE setup' = "register" /\ tables' = IfNotExists(tables, p)
        /\ UNCHANGED <<clock, meta, loop, lastPass>>

SetupRegisters ==
    /\ setup = "register"
    /\ meta' = IfNotExists(meta, Partition(setupAt, Hour))
    /\ setup' = "done"
    /\ UNCHANGED <<clock, tables, loop, setupAt, lastPass>>

\* It stops between the two statements, which are no transaction.
SetupStops ==
    /\ Fault
    /\ setup = "register"
    /\ setup' = "failed"
    /\ UNCHANGED <<schema, loop, setupAt, lastPass>>

\* An operator runs it again.
SetupRuns ==
    /\ setup \in {"failed", "done"}
    /\ setup' = "create"
    /\ UNCHANGED <<clock, schema, loop, setupAt, lastPass>>

\* Its context ends after 30 seconds: it is not between two statements for an hour.
Tick ==
    /\ now < MaxTime
    /\ setup = "register" => now < setupAt + Hour
    /\ now' = now + 1
    /\ UNCHANGED <<schema, loop, tool, lastPass, faults>>

-----------------------------------------------------------------------------
Init ==
    /\ now \in PartitionInterval..(PartitionInterval + Hour - 1)
    /\ tables = {} /\ meta = {}
    /\ pc = [m \in Drivers |-> "idle"]
    /\ at = [m \in Drivers |-> 0]
    /\ end = [m \in Drivers |-> 0]
    /\ setup = "create" /\ setupAt = 0
    /\ lastPass = NoTime
    /\ faults = 0

Step(m) ==
    \/ StartPass(m) \/ CheckPartition(m) \/ CreatePartition(m) \/ CreateReturns(m)
    \/ DropExpired(m)

Next ==
    \/ \E m \in Drivers : Step(m) \/ CreateFails(m) \/ DropFails(m) \/ Crash(m)
    \/ SetupCreates \/ SetupRegisters \/ SetupStops \/ SetupRuns
    \/ Tick

Spec == Init /\ [][Next]_vars

\* A leader's maintenance goroutine keeps running passes (ticker.C), and pglg-setup goes
\* on unless it stops.
Fairness == (\A m \in Drivers : WF_vars(Step(m))) /\ WF_vars(SetupCreates \/ SetupRegisters)

FairSpec == Spec /\ Fairness

-----------------------------------------------------------------------------
(* Properties.                                                             *)

\* The types of the state; a pass (createPartitions) and pglg-setup (runCreate) stay on
\* their grids, from which partitions that other processes create have the same names.
TypeOK ==
    /\ now \in Nat /\ faults \in Nat
    /\ tables \subseteq Partitions /\ meta \subseteq Partitions
    /\ pc \in [Drivers -> {"idle", "check", "create", "drop"}]
    /\ at \in [Drivers -> {t \in Int : t % PartitionInterval = 0}]
    /\ end \in [Drivers -> Int]
    /\ setup \in {"create", "register", "done", "failed"}
    /\ setupAt \in {t \in Int : t % Hour = 0}
    /\ lastPass \in Int

\* partition_meta is true (createPartitions, dropExpiredPartitions, runCreate): every row
\* of it is an attached partition with just those bounds, whoever created the table and
\* whoever registered it; the next drop neither fails on a missing table nor takes one
\* whose rows are younger than its row says.
MetaTrue == meta \subseteq tables

Ahead(t) ==
    \A x \in t..(t + PartitionLookAhead - 1) :
        x >= now - PartitionRetention => Covers(tables, x)

\* Up to PartitionLookAhead after a pass (createPartitions), and as far back as the
\* retention, the primary has a partition for every created_at, whatever another pass
\* creates or drops at the same time: no outbox INSERT fails.
LookAheadCovered == lastPass # NoTime => Ahead(lastPass)

\* A table is dropped only when every row it can hold is older than the retention
\* (dropExpiredPartitions), by its own bounds and not only by those of partition_meta.
KeptForRetention ==
    [][\A p \in tables \ tables' : p.upper <= now - PartitionRetention]_vars

\* Partitions older than the retention are dropped in the end (README "Partition
\* Management"), whatever fails and whoever else is in a pass: no row of partition_meta
\* blocks the transaction of dropExpiredPartitions for good.  Only a partition that
\* pglg-setup attached and did not come to register stays.
ExpiredDropped == []<>(Expired \cap tables = {})
=============================================================================
