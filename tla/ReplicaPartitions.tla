-------------------------- MODULE ReplicaPartitions --------------------------
(***************************************************************************)
(* Partition maintenance on a logical replica, which mirrors the           *)
(* partitions of the primary: listReplicaPartitions,                       *)
(* createReplicaPartitions and dropExpiredReplicaPartitions of every       *)
(* driver that believes to be the leader, the hourly partitions of         *)
(* pglg-setup --replica --create-partitions, and the replica's apply       *)
(* worker, which fails on a row it has no partition for.  The replica part *)
(* of a pass uses nothing of the primary part (Partitions), and replicas   *)
(* nothing of one another: this is one of them.                            *)
(***************************************************************************)
EXTENDS PartitionDDL

CONSTANTS
    Drivers,
    BackfillAhead,   \* how far createPartitionRange goes: 13 hours
    MaxPending,      \* bound: rows the replica has yet to apply
    MaxTime,         \* bound: the clock
    MaxFaults        \* bound: failures

ASSUME BoundsAssumption ==
    /\ BackfillAhead \in Nat
    /\ MaxPending \in Nat /\ MaxTime \in Nat /\ MaxFaults \in Nat

VARIABLES
    now,
    replica,     \* partitions attached to the replica's outbox table
    unapplied,   \* created_at of the primary's rows it has not applied
    lastSend,    \* last_msg_send_time of its subscription, NoTime if NULL
    pc, at, end, \* of each driver: where it is in a pass, t and end of the loop
    existing,    \* of each driver: what listReplicaPartitions returned
    toDrop,      \* of each driver: the expired ones among them, once it has read the send time
    lastSync,    \* history: the clock at the last createReplicaPartitions no failure interrupted
    lastHeard,   \* history: the clock when the replica last received a message
    faults

clock  == <<now, faults>>
worker == <<unapplied, lastSend>>
loop   == <<pc, at, end>>
pass   == <<loop, existing, toDrop>>
vars   == <<clock, replica, worker, pass, lastSync, lastHeard>>

Fault == faults < MaxFaults /\ faults' = faults + 1 /\ UNCHANGED now

InLoopMutant(m) == at[m] + PartitionInterval < end[m]

InLoop(m) == at[m] < end[m]

\* The partition the loop of m is at.
This(m) == Partition(at[m], PartitionInterval)

LeavesLoop(m, step) ==
    /\ pc' = [pc EXCEPT ![m] = step]
    /\ at' = [at EXCEPT ![m] = 0]
    /\ end' = [end EXCEPT ![m] = 0]

EndsPass(m) ==
    /\ LeavesLoop(m, "idle")
    /\ existing' = [existing EXCEPT ![m] = {}]
    /\ toDrop' = [toDrop EXCEPT ![m] = {}]

-----------------------------------------------------------------------------
ListReplica(m) ==
    /\ pc[m] = "idle"
    /\ existing' = [existing EXCEPT ![m] = Names(replica)]
    /\ pc' = [pc EXCEPT ![m] = "create"]
    /\ at' = [at EXCEPT ![m] = LoopStart(now)]
    /\ end' = [end EXCEPT ![m] = LoopEnd(now)]
    /\ UNCHANGED <<clock, replica, worker, toDrop, lastSync, lastHeard>>

\* One partition, which is created unless it was listed.
CreateReplica(m) ==
    /\ pc[m] = "create"
    /\ InLoop(m)
    /\ IF This(m).name \in existing[m]
       THEN UNCHANGED replica
       ELSE ~Refused(replica, This(m)) /\ replica' = IfNotExists(replica, This(m))
    /\ at' = [at EXCEPT ![m] = @ + PartitionInterval]
    /\ UNCHANGED <<clock, worker, pc, end, existing, toDrop, lastSync, lastHeard>>

\* createReplicaPartitions returns, at the end of its loop or because of an overlap.
CreateReplicaReturns(m) ==
    /\ pc[m] = "create"
    /\ \/ ~InLoop(m)
       \/ InLoop(m) /\ This(m).name \notin existing[m] /\ Refused(replica, This(m))
    /\ lastSync' = Max({lastSync, end[m] - PartitionLookAhead})
    /\ LeavesLoop(m, "drop")
    /\ UNCHANGED <<clock, replica, worker, existing, toDrop, lastHeard>>

CutoffMutant == now - PartitionRetention

\* Retention counts from the send time of the last message the replica has received.
Cutoff == Min({lastSend, now}) - PartitionRetention

\* selectExpiredPartitions: the bounds are computed from the name.
SelectExpired(names, cutoff) ==
    {n \in names : ParsePartitionLower(n) + PartitionInterval <= cutoff}

\* Without a send time nothing is dropped.
ReadApplyTime(m) ==
    LET expired == IF lastSend = NoTime THEN {} ELSE SelectExpired(existing[m], Cutoff)
    IN  /\ pc[m] = "drop"
        /\ pc' = [pc EXCEPT ![m] = IF expired = {} THEN "idle" ELSE "dropping"]
        /\ toDrop' = [toDrop EXCEPT ![m] = expired]
        /\ existing' = [existing EXCEPT ![m] = {}]
        /\ UNCHANGED <<clock, replica, worker, at, end, lastSync, lastHeard>>

DropReplicaMutant(m) ==
    /\ pc[m] = "dropping"
    /\ EndsPass(m)
    /\ UNCHANGED <<clock, replica, worker, lastSync, lastHeard>>

\* The transaction of the drops, which fails if a listed partition is gone.
DropReplica(m) ==
    /\ pc[m] = "dropping"
    /\ replica' = DropAll(replica, toDrop[m])
    /\ EndsPass(m)
    /\ UNCHANGED <<clock, worker, lastSync, lastHeard>>

\* The replica cannot be reached: a CREATE fails, or reading the send time or the drops do.
ReplicaFails(m) ==
    /\ Fault
    /\ \/ pc[m] = "create" /\ LeavesLoop(m, "drop") /\ UNCHANGED <<existing, toDrop>>
       \/ pc[m] \in {"drop", "dropping"} /\ EndsPass(m)
    /\ UNCHANGED <<replica, worker, lastSync, lastHeard>>

\* The process stops in a pass; its open transaction is rolled back.
Crash(m) ==
    /\ Fault
    /\ pc[m] # "idle"
    /\ EndsPass(m)
    /\ UNCHANGED <<replica, worker, lastSync, lastHeard>>

\* createPartitionRange: hourly partitions from the hour of from on, as far as
\* BackfillAhead or until one fails.
Backfill ==
    /\ Fault
    /\ \E from \in {Truncate(x, Hour) : x \in 0..now},
          stop \in {Truncate(x, Hour) : x \in 0..(now + BackfillAhead)} :
          LET range == {Partition(t, Hour) : t \in {x \in from..(stop - 1) : x % Hour = 0}}
          IN  /\ \A p \in range : ~Refused(replica, p)
              /\ replica' = replica \cup {p \in range : p.name \notin Names(replica)}
    /\ UNCHANGED <<worker, pass, lastSync, lastHeard>>

-----------------------------------------------------------------------------
(* The primary's writers and the replica's subscription are outside.       *)

InsertRow ==
    /\ Cardinality(unapplied) < MaxPending
    /\ unapplied' = unapplied \cup {now}
    /\ UNCHANGED <<clock, replica, lastSend, pass, lastSync, lastHeard>>

\* The apply worker receives the oldest row and applies it if it finds a partition; if
\* not it fails and receives it again later.  The send time is that of the walsender, however
\* old the row is.
ReceiveRow ==
    /\ unapplied # {}
    /\ lastSend' = now /\ lastHeard' = now
    /\ unapplied' = {x \in unapplied : x # Min(unapplied) \/ ~Covers(replica, x)}
    /\ UNCHANGED <<clock, replica, pass, lastSync>>

\* A walsender with nothing to send.
Keepalive ==
    /\ unapplied = {}
    /\ lastSend' = now /\ lastHeard' = now
    /\ UNCHANGED <<clock, replica, unapplied, pass, lastSync>>

\* The worker stops or loses its connection.
WorkerStops ==
    /\ Fault
    /\ lastSend' = NoTime
    /\ UNCHANGED <<replica, unapplied, pass, lastSync, lastHeard>>

Tick ==
    /\ now < MaxTime
    /\ now' = now + 1
    /\ UNCHANGED <<replica, worker, pass, lastSync, lastHeard, faults>>

-----------------------------------------------------------------------------
Init ==
    /\ now \in PartitionInterval..(PartitionInterval + Hour - 1)
    /\ replica = {} /\ unapplied = {} /\ lastSend = NoTime
    /\ pc = [m \in Drivers |-> "idle"]
    /\ at = [m \in Drivers |-> 0]
    /\ end = [m \in Drivers |-> 0]
    /\ existing = [m \in Drivers |-> {}]
    /\ toDrop = [m \in Drivers |-> {}]
    /\ lastSync = NoTime /\ lastHeard = NoTime
    /\ faults = 0

Step(m) ==
    \/ ListReplica(m) \/ CreateReplica(m) \/ CreateReplicaReturns(m)
    \/ ReadApplyTime(m) \/ DropReplica(m)

Next ==
    \/ \E m \in Drivers : Step(m) \/ ReplicaFails(m) \/ Crash(m)
    \/ Backfill
    \/ InsertRow \/ ReceiveRow \/ Keepalive \/ WorkerStops
    \/ Tick

Spec == Init /\ [][Next]_vars

\* A leader's maintenance goroutine keeps running passes (ticker.C); a subscription that lost
\* its worker starts another, and the walsender sends it rows, or keepalives when there are none.
Fairness == (\A m \in Drivers : WF_vars(Step(m))) /\ WF_vars(ReceiveRow \/ Keepalive)

FairSpec == Spec /\ Fairness

-----------------------------------------------------------------------------
(* Properties.                                                             *)

\* Up to PartitionLookAhead after a pass (createReplicaPartitions), and as far back as the
\* retention, the replica has a partition for every created_at, although the pass skips
\* what it listed and another driver may have dropped that meanwhile.
ReplicaCovered ==
    lastSync # NoTime =>
        \A x \in lastSync..(lastSync + PartitionLookAhead - 1) :
            x >= now - PartitionRetention => Covers(replica, x)

\* A replica that hears nothing, however long, loses no partition for it
\* (dropExpiredReplicaPartitions): whatever a driver drops, from a list and a cutoff that may be
\* old by then, every row the replica has yet to apply that was written within the retention before
\* it last received a message, or later, keeps its partition.
ReplicaKeepsRecent ==
    [][\A p \in replica \ replica' : \A x \in unapplied :
           Holds(p, x) => x < lastHeard - PartitionRetention]_vars

\* The replica keeps, or is given by pglg-setup --create-partitions, the partition of every
\* row it has yet to apply until it has applied it, so that the apply worker can drain what
\* it is sent.  The code does not do this for a replica that catches up: see the README.
ReplicaKeepsPending ==
    [][\A p \in replica \ replica' : ~\E x \in unapplied : Holds(p, x)]_vars

\* Of two drivers that drop the same partitions one fails as a whole, and a cutoff that is
\* read before the worker stops or catches up may be old; all the same every partition that is
\* older than the retention is dropped in the end (dropExpiredReplicaPartitions), whether rows
\* keep arriving, are stuck for want of a partition, or there are none.
ReplicaExpiredDropped ==
    []<>(\A p \in replica : p.upper > now - PartitionRetention)
=============================================================================
