----------------------- MODULE ReplicaPartitionsProofs -----------------------
(***************************************************************************)
(* Proofs about ReplicaPartitions, for every number of drivers, failures   *)
(* and pending rows and every look-ahead and retention.                    *)
(***************************************************************************)
EXTENDS ReplicaPartitions, PartitionDDLProofs, TLAPS

-----------------------------------------------------------------------------
(* The inductive invariant, in parts.                                      *)

ReplicaTypeOK ==
    /\ now \in Nat /\ faults \in Nat
    /\ replica \subseteq Partitions
    /\ unapplied \subseteq Nat /\ lastSend \in Int
    /\ pc \in [Drivers -> {"idle", "create", "drop", "dropping"}]
    /\ at \in [Drivers -> {t \in Int : t % PartitionInterval = 0}]
    /\ end \in [Drivers -> Int]
    /\ existing \in [Drivers -> SUBSET Int] /\ toDrop \in [Drivers -> SUBSET Int]
    /\ lastSync \in Int /\ lastHeard \in Int

ReplicaOnGrid == \A p \in replica : OnGrid(p)

\* The partition of the name ended before the retention before t.
EndedBefore(n, t) == ParsePartitionLower(n) + PartitionInterval <= t - PartitionRetention

\* What a driver is about to drop had expired when the replica last received a message.
DropsHeard ==
    /\ NoTime <= lastHeard /\ lastHeard <= now
    /\ lastSend <= lastHeard
    /\ \A m \in Drivers : \A n \in toDrop[m] : EndedBefore(n, lastHeard)

ExpiredName(n) == ParsePartitionLower(n) + PartitionInterval <= now - PartitionRetention

\* What a driver has listed is there still, unless another has dropped it for its age.
ListedOrExpired ==
    \A m \in Drivers : \A n \in existing[m] : n \in Names(replica) \/ ExpiredName(n)

\* What the loop of a pass has passed is covered, as far back as the retention.
SyncCovered ==
    \A m \in Drivers : pc[m] = "create" =>
        \A x \in (end[m] - PartitionLookAhead)..(at[m] - 1) :
            x >= now - PartitionRetention => Covers(replica, x)

ReplicaInv ==
    /\ ReplicaTypeOK /\ ReplicaOnGrid /\ DropsHeard
    /\ ListedOrExpired /\ SyncCovered /\ ReplicaCovered

-----------------------------------------------------------------------------
(* The operators.                                                          *)

\* The cutoff is behind the clock and behind the send time.
LEMMA CutoffBehind ==
    ASSUME ReplicaTypeOK
    PROVE  /\ Cutoff \in Int
           /\ Cutoff <= now - PartitionRetention /\ Cutoff <= lastSend - PartitionRetention
  <1> DEFINE m == IF lastSend <= now THEN lastSend ELSE now
  <1>1. m \in {lastSend, now} /\ \A y \in {lastSend, now} : m <= y
    BY DEF ReplicaTypeOK
  <1>2. Min({lastSend, now}) \in {lastSend, now} /\ \A y \in {lastSend, now} : Min({lastSend, now}) <= y
    BY <1>1 DEF Min
  <1> QED
    BY <1>2, IntervalAssumption DEF ReplicaTypeOK, Cutoff

\* What a step may drop, as far as the clock is concerned.
DropsExpired == \A p \in replica \ replica' : p.upper <= now - PartitionRetention

\* The bounds that selectExpiredPartitions computes from a name are those of the partition.
LEMMA UpperOfName ==
    ASSUME Aligned, NEW p, OnGrid(p)
    PROVE  p.upper = ParsePartitionLower(p.name) + PartitionInterval
  <1>1. p.lower \in Int /\ p.name = PartitionName(p.lower) /\ p.upper = p.lower + PartitionInterval
    BY DEF OnGrid, Partition, Partitions
  <1> QED
    BY <1>1, NameIsLower DEF OnGrid

\* The transaction of dropExpiredReplicaPartitions takes only what had expired when the
\* replica last received a message.
LEMMA DropsBeforeHeard ==
    ASSUME Aligned, ReplicaTypeOK, ReplicaOnGrid, DropsHeard, NEW m \in Drivers, DropReplica(m)
    PROVE  /\ replica' \subseteq replica
           /\ \A p \in replica \ replica' : p.upper <= lastHeard - PartitionRetention
  <1>1. CASE replica' = replica
    BY <1>1
  <1>2. CASE replica' # replica
    <2>1. replica' = {p \in replica : p.name \notin toDrop[m]}
      BY <1>2 DEF DropReplica, DropAll
    <2>2. ASSUME NEW p \in replica, p.name \in toDrop[m]
          PROVE  p.upper <= lastHeard - PartitionRetention
      BY <2>2, UpperOfName DEF DropsHeard, EndedBefore, ReplicaOnGrid
    <2> QED
      BY <2>1, <2>2
  <1> QED
    BY <1>1, <1>2

-----------------------------------------------------------------------------
(* Types.                                                                  *)

LEMMA InitReplicaTypes == Init => ReplicaTypeOK
  <1> SUFFICES ASSUME Init PROVE ReplicaTypeOK
    OBVIOUS
  <1>1. now \in Nat
    BY IntervalAssumption DEF Init
  <1> QED
    BY <1>1, ZeroOnGrid DEF Init, ReplicaTypeOK, NoTime

LEMMA ThisType ==
    ASSUME ReplicaTypeOK, NEW m \in Drivers
    PROVE  This(m) \in Partitions
  BY PartitionType, IntervalAssumption DEF This, ReplicaTypeOK

LEMMA DriverReplicaTypes ==
    ASSUME ReplicaTypeOK, NEW m \in Drivers, Step(m) \/ ReplicaFails(m) \/ Crash(m)
    PROVE  ReplicaTypeOK'
  <1>0. at[m] \in Int /\ at[m] % PartitionInterval = 0 /\ end[m] \in Int /\ now \in Nat
    BY DEF ReplicaTypeOK
  <1>1. CASE ListReplica(m)
    <2>1. LoopStart(now) \in Int /\ LoopStart(now) % PartitionInterval = 0 /\ LoopEnd(now) \in Int
      BY <1>0, LoopStartType, IntervalAssumption DEF LoopEnd
    <2>2. Names(replica) \subseteq Int
      BY DEF ReplicaTypeOK, Names, Partitions
    <2> QED
      BY <1>1, <2>1, <2>2 DEF ListReplica, ReplicaTypeOK, clock, worker, loop
  <1>2. CASE CreateReplica(m)
    <2>1. at[m] + PartitionInterval \in Int /\ (at[m] + PartitionInterval) % PartitionInterval = 0
      BY <1>0, GridStep, IntervalAssumption
    <2>2. replica' \subseteq Partitions
      BY <1>2, ThisType, IfNotExistsType DEF CreateReplica, ReplicaTypeOK
    <2> QED
      BY <1>2, <2>1, <2>2 DEF CreateReplica, ReplicaTypeOK, clock, worker
  <1>3. CASE CreateReplicaReturns(m)
    <2>1. lastSync' \in Int
      <3>1. lastSync \in Int /\ end[m] - PartitionLookAhead \in Int
        BY <1>0, IntervalAssumption DEF ReplicaTypeOK
      <3> QED
        BY <1>3, <3>1, MaxIsOne DEF CreateReplicaReturns
    <2> QED
      BY <1>3, <2>1, ZeroOnGrid DEF CreateReplicaReturns, LeavesLoop, ReplicaTypeOK, clock, worker
  <1>4. CASE DropReplica(m)
    <2>1. replica' \subseteq replica
      BY <1>4, DropAllType DEF DropReplica
    <2> QED
      BY <1>4, <2>1, ZeroOnGrid
      DEF DropReplica, EndsPass, LeavesLoop, ReplicaTypeOK, clock, worker
  <1>7. CASE ReadApplyTime(m)
    <2>1. toDrop' = [toDrop EXCEPT ![m] = toDrop'[m]] /\ toDrop'[m] \subseteq existing[m]
      BY <1>7 DEF ReadApplyTime, ReplicaTypeOK, SelectExpired
    <2>2. pc' \in [Drivers -> {"idle", "create", "drop", "dropping"}]
      BY <1>7 DEF ReadApplyTime, ReplicaTypeOK
    <2>3. toDrop' \in [Drivers -> SUBSET Int]
      BY <2>1 DEF ReplicaTypeOK
    <2> QED
      BY <1>7, <2>2, <2>3 DEF ReadApplyTime, ReplicaTypeOK, clock, worker
  <1>5. CASE ReplicaFails(m)
    BY <1>5, ZeroOnGrid DEF ReplicaFails, EndsPass, LeavesLoop, ReplicaTypeOK, Fault, worker
  <1>6. CASE Crash(m)
    BY <1>6, ZeroOnGrid DEF Crash, EndsPass, LeavesLoop, ReplicaTypeOK, Fault, worker
  <1> QED
    BY <1>1, <1>2, <1>3, <1>4, <1>5, <1>6, <1>7 DEF Step

\* The partitions that createPartitionRange adds.
LEMMA BackfillAdds ==
    ASSUME Backfill
    PROVE  \A p \in replica' \ replica : \E t \in Int : t % Hour = 0 /\ p = Partition(t, Hour)
  <1>1. PICK from \in {Truncate(x, Hour) : x \in 0..now},
             stop \in {Truncate(x, Hour) : x \in 0..(now + BackfillAhead)} :
             replica' = replica \cup {p \in {Partition(t, Hour) : t \in {x \in from..(stop - 1) : x % Hour = 0}} :
                                        p.name \notin Names(replica)}
    BY DEF Backfill
  <1>2. TAKE p \in replica' \ replica
  <1>3. PICK t \in {x \in from..(stop - 1) : x % Hour = 0} : p = Partition(t, Hour)
    BY <1>1
  <1>4. t \in Int /\ t % Hour = 0
    BY <1>3
  <1> QED
    BY <1>3, <1>4

LEMMA OtherReplicaTypes ==
    ASSUME ReplicaTypeOK, Backfill \/ InsertRow \/ ReceiveRow \/ Keepalive \/ WorkerStops \/ Tick
    PROVE  ReplicaTypeOK'
  <1>1. CASE Backfill
    <2>1. replica' \subseteq Partitions
      BY <1>1, BackfillAdds, PartitionType, IntervalAssumption DEF ReplicaTypeOK
    <2> QED
      BY <1>1, <2>1 DEF Backfill, Fault, ReplicaTypeOK, worker, loop, pass
  <1>2. CASE InsertRow \/ ReceiveRow \/ Keepalive
    <2>1. /\ unapplied' \subseteq unapplied \cup {now} /\ lastSend' \in {lastSend, now}
          /\ lastHeard' \in {lastHeard, now}
      BY <1>2 DEF InsertRow, ReceiveRow, Keepalive
    <2>2. UNCHANGED <<clock, replica, pass, lastSync>>
      BY <1>2 DEF InsertRow, ReceiveRow, Keepalive
    <2> QED
      BY <2>1, <2>2 DEF ReplicaTypeOK, clock, loop, pass
  <1>3. CASE WorkerStops
    BY <1>3 DEF WorkerStops, Fault, ReplicaTypeOK, loop, pass, NoTime
  <1>4. CASE Tick
    BY <1>4 DEF Tick, ReplicaTypeOK, worker, loop, pass
  <1> QED
    BY <1>1, <1>2, <1>3, <1>4

LEMMA NextReplicaTypes == ReplicaTypeOK /\ [Next]_vars => ReplicaTypeOK'
  <1> SUFFICES ASSUME ReplicaTypeOK, [Next]_vars PROVE ReplicaTypeOK'
    OBVIOUS
  <1>1. CASE UNCHANGED vars
    BY <1>1 DEF vars, clock, worker, loop, pass, ReplicaTypeOK
  <1> QED
    BY <1>1, DriverReplicaTypes, OtherReplicaTypes DEF Next

-----------------------------------------------------------------------------
(* The replica's partitions and its subscription.                          *)

GridInv == ReplicaTypeOK /\ ReplicaOnGrid /\ DropsHeard

LEMMA ThisOnGrid ==
    ASSUME Aligned, ReplicaTypeOK, NEW m \in Drivers
    PROVE  OnGrid(This(m))
  BY PartitionOnGrid DEF ReplicaTypeOK, This

\* The clock never goes back.
LEMMA ClockAdvances ==
    ASSUME ReplicaTypeOK, [Next]_vars
    PROVE  now \in Int /\ now' \in Int /\ now <= now'
  <1>1. now' = now \/ now' = now + 1
    BY DEF Next, vars, Step, ListReplica, CreateReplica, CreateReplicaReturns, ReadApplyTime, DropReplica,
           ReplicaFails, Crash, Backfill, InsertRow, ReceiveRow, Keepalive, WorkerStops, Tick,
           Fault, clock
  <1> QED
    BY <1>1 DEF ReplicaTypeOK

\* Only dropExpiredReplicaPartitions drops.
LEMMA OnlyDropReplica ==
    ASSUME [Next]_vars, ~\E m \in Drivers : DropReplica(m)
    PROVE  replica \subseteq replica'
  <1>1. CASE Backfill
    BY <1>1 DEF Backfill
  <1>2. CASE \E m \in Drivers : CreateReplica(m)
    BY <1>2 DEF CreateReplica, IfNotExists
  <1> QED
    BY <1>1, <1>2
    DEF Next, vars, Step, ListReplica, CreateReplicaReturns, ReadApplyTime, ReplicaFails, Crash,
        InsertRow, ReceiveRow, Keepalive, WorkerStops, Tick

LEMMA NextOnGrid ==
    ASSUME Aligned, GridInv, [Next]_vars
    PROVE  ReplicaOnGrid' /\ DropsExpired
  <1>1. CASE \E m \in Drivers : DropReplica(m)
    <2>1. PICK m \in Drivers : DropReplica(m)
      BY <1>1
    <2>2. /\ replica' \subseteq replica
          /\ \A p \in replica \ replica' : p.upper <= lastHeard - PartitionRetention
      BY <2>1, DropsBeforeHeard DEF GridInv
    <2>3. lastHeard \in Int /\ now \in Int /\ lastHeard <= now
      BY DEF GridInv, DropsHeard, ReplicaTypeOK
    <2>4. ReplicaOnGrid'
      BY <2>2 DEF GridInv, ReplicaOnGrid
    <2>5. ASSUME NEW p \in replica \ replica'
          PROVE  p.upper <= now - PartitionRetention
      <3>1. p.upper \in Int
        BY DEF GridInv, ReplicaTypeOK, Partitions
      <3> QED
        BY <2>2, <2>3, <3>1, IntervalAssumption
    <2> QED
      BY <2>4, <2>5 DEF DropsExpired
  <1>2. CASE ~\E m \in Drivers : DropReplica(m)
    <2>1. DropsExpired
      BY <1>2, OnlyDropReplica DEF DropsExpired
    <2>2. CASE Backfill
      <3>1. \A p \in replica' \ replica : OnGrid(p)
        BY <2>2, BackfillAdds, PartitionOnGrid DEF Aligned
      <3> QED
        BY <2>1, <3>1 DEF GridInv, ReplicaOnGrid
    <2>3. CASE \E m \in Drivers : CreateReplica(m)
      <3>1. PICK m \in Drivers : replica' \subseteq replica \cup {This(m)}
        BY <2>3 DEF CreateReplica, IfNotExists
      <3> QED
        BY <2>1, <3>1, ThisOnGrid DEF GridInv, ReplicaOnGrid
    <2>4. CASE replica' = replica
      BY <2>1, <2>4 DEF GridInv, ReplicaOnGrid
    <2> QED
      BY <1>2, <2>2, <2>3, <2>4
      DEF Next, vars, Step, ListReplica, CreateReplicaReturns, ReadApplyTime, ReplicaFails, Crash,
          InsertRow, ReceiveRow, Keepalive, WorkerStops, Tick
  <1> QED
    BY <1>1, <1>2

\* A name that ended before a retention has ended before a later one.
LEMMA EndedStays ==
    ASSUME NEW n \in Int, NEW s \in Int, NEW t \in Int, s <= t, EndedBefore(n, s)
    PROVE  EndedBefore(n, t)
  <1>1. ParsePartitionLower(n) + PartitionInterval \in Int
    BY IntervalAssumption DEF ParsePartitionLower
  <1> QED
    BY <1>1, IntervalAssumption DEF EndedBefore

LEMMA NextHeard ==
    ASSUME GridInv, [Next]_vars
    PROVE  DropsHeard'
  <1>0. /\ now \in Nat /\ lastSend \in Int /\ lastHeard \in Int
        /\ toDrop \in [Drivers -> SUBSET Int] /\ existing \in [Drivers -> SUBSET Int]
        /\ NoTime <= lastHeard /\ lastHeard <= now /\ lastSend <= lastHeard
        /\ \A m \in Drivers : \A n \in toDrop[m] : EndedBefore(n, lastHeard)
    BY DEF GridInv, ReplicaTypeOK, DropsHeard
  <1>1. now' \in Int /\ now <= now'
    BY ClockAdvances DEF GridInv
  <1>2. /\ lastHeard' \in Int /\ lastHeard <= lastHeard'
        /\ NoTime <= lastHeard' /\ lastHeard' <= now' /\ lastSend' <= lastHeard'
    <2>1. CASE InsertRow \/ ReceiveRow \/ Keepalive
      BY <1>0, <2>1 DEF InsertRow, ReceiveRow, Keepalive, clock, NoTime
    <2>2. CASE WorkerStops
      BY <1>0, <2>2 DEF WorkerStops, Fault, NoTime
    <2>3. CASE UNCHANGED <<lastSend, lastHeard>>
      BY <1>0, <1>1, <2>3 DEF NoTime
    <2> QED
      BY <2>1, <2>2, <2>3
      DEF Next, vars, worker, Step, ListReplica, CreateReplica, CreateReplicaReturns, ReadApplyTime,
          DropReplica, ReplicaFails, Crash, Backfill, Tick
  <1>3. ASSUME NEW m \in Drivers, NEW n \in toDrop'[m]
        PROVE  EndedBefore(n, lastHeard')
    <2>1. CASE n \in toDrop[m]
      BY <1>0, <1>2, <2>1, EndedStays
    <2>2. CASE n \notin toDrop[m]
      <3>1. ReadApplyTime(m) \/ \E k \in Drivers : k # m /\ ReadApplyTime(k)
        BY <1>0, <2>2
        DEF Next, vars, pass, Step, ListReplica, CreateReplica, CreateReplicaReturns, DropReplica,
            ReplicaFails, Crash, EndsPass, Backfill, InsertRow, ReceiveRow, Keepalive, WorkerStops,
            Tick
      <3>2. ReadApplyTime(m)
        BY <1>0, <2>2, <3>1 DEF ReadApplyTime
      <3>3. n \in existing[m] /\ ParsePartitionLower(n) + PartitionInterval <= Cutoff
        BY <1>0, <3>2 DEF ReadApplyTime, SelectExpired
      <3>4. Cutoff \in Int /\ Cutoff <= lastSend - PartitionRetention
        BY CutoffBehind DEF GridInv
      <3>5. n \in Int /\ ParsePartitionLower(n) + PartitionInterval \in Int
        BY <1>0, <3>3, IntervalAssumption DEF ParsePartitionLower
      <3>6. EndedBefore(n, lastHeard)
        BY <1>0, <3>3, <3>4, <3>5, IntervalAssumption DEF EndedBefore
      <3> QED
        BY <1>0, <1>2, <3>5, <3>6, EndedStays
    <2> QED
      BY <2>1, <2>2
  <1> QED
    BY <1>2, <1>3 DEF DropsHeard, EndedBefore, ParsePartitionLower

LEMMA NextGrid ==
    ASSUME Aligned, GridInv, [Next]_vars
    PROVE  GridInv' /\ DropsExpired
  BY NextReplicaTypes, NextOnGrid, NextHeard DEF GridInv

LEMMA InitGrid == Init => GridInv
  <1> SUFFICES ASSUME Init PROVE GridInv
    OBVIOUS
  <1>1. ReplicaTypeOK
    BY InitReplicaTypes
  <1> QED
    BY <1>1 DEF Init, GridInv, ReplicaOnGrid, DropsHeard, NoTime, ReplicaTypeOK

LEMMA GridInvariant ==
    ASSUME Aligned
    PROVE  Spec => []GridInv
  <1>1. GridInv /\ [Next]_vars => GridInv'
    BY NextGrid
  <1> QED
    BY <1>1, InitGrid, PTL DEF Spec

\* Whatever a replica has received or not, and however old the list and the cutoff of a driver
\* are, no partition is dropped that holds a row the replica has yet to apply from within the
\* retention before its last message: the cutoff of dropExpiredReplicaPartitions counts from there.
THEOREM RecentKept ==
    ASSUME Aligned
    PROVE  Spec => ReplicaKeepsRecent
  <1> DEFINE Keeps == \A p \in replica \ replica' : \A x \in unapplied :
                          Holds(p, x) => x < lastHeard - PartitionRetention
  <1>1. GridInv /\ [Next]_vars => Keeps
    <2> SUFFICES ASSUME GridInv, [Next]_vars, NEW p \in replica \ replica', NEW x \in unapplied,
                        Holds(p, x)
                 PROVE  x < lastHeard - PartitionRetention
      OBVIOUS
    <2>1. PICK m \in Drivers : DropReplica(m)
      BY OnlyDropReplica
    <2>2. p.upper <= lastHeard - PartitionRetention
      BY <2>1, DropsBeforeHeard DEF GridInv
    <2>3. p.upper \in Int /\ x \in Nat /\ lastHeard \in Int
      BY DEF GridInv, ReplicaTypeOK, Partitions
    <2> QED
      BY <2>2, <2>3, IntervalAssumption DEF Holds
  <1>2. GridInv /\ [Next]_vars => [Keeps]_vars
    BY <1>1
  <1> HIDE DEF Keeps
  <1>3. Spec => [][Keeps]_vars
    BY <1>2, GridInvariant, PTL DEF Spec
  <1> QED
    BY <1>3 DEF Keeps, ReplicaKeepsRecent

-----------------------------------------------------------------------------
(* The look-ahead.                                                         *)

\* A listed name stays valid: its partition goes only when it has expired.
LEMMA ListedStays ==
    ASSUME Aligned, ReplicaInv, [Next]_vars, DropsExpired, NEW n \in Int,
           n \in Names(replica) \/ ExpiredName(n)
    PROVE  n \in Names(replica)' \/ ExpiredName(n)'
  <1>0. now \in Int /\ now' \in Int /\ now <= now'
    BY ClockAdvances DEF ReplicaInv
  <1> DEFINE upper == ParsePartitionLower(n) + PartitionInterval
  <1>1. upper \in Int
    BY IntervalAssumption DEF ParsePartitionLower
  <1>2. upper <= now - PartitionRetention => ExpiredName(n)'
    <2> HIDE DEF upper
    <2>1. upper <= now - PartitionRetention => upper <= now' - PartitionRetention
      BY <1>0, <1>1, ExpiredStays
    <2>2. ExpiredName(n)' <=> upper <= now' - PartitionRetention
      BY DEF ExpiredName, upper, ParsePartitionLower
    <2> QED
      BY <2>1, <2>2
  <1>3. CASE ExpiredName(n)
    BY <1>2, <1>3 DEF ExpiredName
  <1>4. CASE n \in Names(replica)
    <2>1. PICK p \in replica : p.name = n
      BY <1>4 DEF Names
    <2>2. CASE p \in replica'
      BY <2>1, <2>2 DEF Names
    <2>3. CASE p \notin replica'
      <3>1. p.upper <= now - PartitionRetention
        BY <2>3 DEF DropsExpired
      <3>2. p.upper = upper
        BY <2>1, UpperOfName DEF ReplicaInv, ReplicaOnGrid
      <3> QED
        BY <1>2, <3>1, <3>2
    <2> QED
      BY <2>2, <2>3
  <1> QED
    BY <1>3, <1>4

LEMMA NextListed ==
    ASSUME Aligned, ReplicaInv, [Next]_vars, DropsExpired
    PROVE  ListedOrExpired'
  <1> SUFFICES ASSUME NEW m \in Drivers, NEW n \in existing'[m]
               PROVE  n \in Names(replica)' \/ ExpiredName(n)'
    BY DEF ListedOrExpired
  <1>0. existing \in [Drivers -> SUBSET Int] /\ replica \subseteq Partitions
    BY DEF ReplicaInv, ReplicaTypeOK
  <1>1. n \in existing[m] \/ n \in Names(replica)
    BY <1>0
    DEF Next, vars, pass, Step, ListReplica, CreateReplica, CreateReplicaReturns, ReadApplyTime,
        DropReplica, EndsPass, ReplicaFails, Crash, Backfill, InsertRow, ReceiveRow, Keepalive, WorkerStops, Tick
  <1>2. n \in Int
    BY <1>0, <1>1 DEF Names, Partitions
  <1>3. n \in Names(replica) \/ ExpiredName(n)
    BY <1>1 DEF ReplicaInv, ListedOrExpired
  <1> QED
    BY <1>2, <1>3, ListedStays

\* What the retention still protects stays covered over a step.
LEMMA CoveredStays ==
    ASSUME ReplicaTypeOK, [Next]_vars, DropsExpired,
           NEW x \in Int, x >= now' - PartitionRetention,
           x >= now - PartitionRetention => Covers(replica, x)
    PROVE  Covers(replica', x)
  <1>1. now \in Int /\ now' \in Int /\ now <= now' /\ replica \in SUBSET Partitions
    BY ClockAdvances DEF ReplicaTypeOK
  <1>2. x >= now - PartitionRetention
    BY <1>1, CutoffAdvances
  <1>3. now - PartitionRetention \in Int
    BY <1>1, IntervalAssumption
  <1> QED
    BY <1>1, <1>2, <1>3, CoveredKept DEF DropsExpired

\* A pass goes on to the next bound when its partition is there, or was dropped for its age.
LEMMA BoundCovered ==
    ASSUME Aligned, ReplicaInv, [Next]_vars, DropsExpired, NEW m \in Drivers, CreateReplica(m),
           NEW x \in Int, at[m] <= x, x < at[m] + PartitionInterval,
           x >= now' - PartitionRetention
    PROVE  Covers(replica', x)
  <1>0. at[m] \in Int /\ now' = now /\ now \in Int
    BY DEF ReplicaInv, ReplicaTypeOK, CreateReplica, clock
  <1>1. OnGrid(This(m)) /\ \A q \in replica : OnGrid(q)
    BY ThisOnGrid DEF ReplicaInv, ReplicaOnGrid
  <1>2. Holds(This(m), x) /\ This(m).name = PartitionName(at[m])
    BY <1>0, IntervalAssumption DEF This, Partition, Holds
  <1>3. CASE This(m).name \notin existing[m]
    <2>1. This(m) \in replica'
      BY <1>1, <1>3, ThereAfter DEF CreateReplica
    <2> QED
      BY <1>2, <2>1 DEF Covers
  <1>4. CASE This(m).name \in existing[m] /\ This(m).name \in Names(replica)
    <2>1. PICK q \in replica : This(m).name = q.name
      BY <1>4 DEF Names
    <2>2. This(m) = q
      BY <1>1, <2>1, NameDecides
    <2> QED
      BY <1>2, <1>4, <2>2 DEF Covers, CreateReplica
  <1>5. CASE This(m).name \in existing[m] /\ This(m).name \notin Names(replica)
    <2>1. ExpiredName(PartitionName(at[m]))
      BY <1>2, <1>5 DEF ReplicaInv, ListedOrExpired
    <2>2. ParsePartitionLower(PartitionName(at[m])) = at[m]
      BY NameIsLower DEF ReplicaInv, ReplicaTypeOK
    <2>3. at[m] + PartitionInterval <= now - PartitionRetention
      BY <2>1, <2>2 DEF ExpiredName
    <2> QED
      BY <1>0, <2>3, IntervalAssumption
  <1> QED
    BY <1>3, <1>4, <1>5

LEMMA NextSyncCovered ==
    ASSUME Aligned, ReplicaInv, [Next]_vars, DropsExpired
    PROVE  SyncCovered'
  <1> SUFFICES ASSUME NEW m \in Drivers, pc'[m] = "create",
                      NEW x \in (end'[m] - PartitionLookAhead)..(at'[m] - 1),
                      x >= now' - PartitionRetention
               PROVE  Covers(replica', x)
    BY DEF SyncCovered, Covers
  <1>0. /\ ReplicaTypeOK /\ now \in Int
        /\ pc \in [Drivers -> {"idle", "create", "drop", "dropping"}]
        /\ at \in [Drivers -> Int] /\ end \in [Drivers -> Int]
    BY DEF ReplicaInv, ReplicaTypeOK
  <1>1. CASE ListReplica(m)
    <2>1. LoopStart(now) <= now /\ LoopStart(now) \in Int
      BY <1>0, LoopStartType
    <2>2. at'[m] = LoopStart(now) /\ end'[m] = now + PartitionLookAhead
      BY <1>0, <1>1 DEF ListReplica, LoopEnd
    <2> QED
      BY <1>0, <2>1, <2>2, IntervalAssumption
  <1>2. CASE CreateReplica(m)
    <2>1. pc[m] = "create" /\ at'[m] = at[m] + PartitionInterval /\ end'[m] = end[m]
      BY <1>0, <1>2 DEF CreateReplica
    <2>2. x \in Int /\ end[m] - PartitionLookAhead <= x /\ x < at[m] + PartitionInterval
      BY <1>0, <2>1, IntervalAssumption
    <2>3. CASE at[m] <= x
      BY <1>2, <2>2, <2>3, BoundCovered
    <2>4. CASE x < at[m]
      <3>1. x \in (end[m] - PartitionLookAhead)..(at[m] - 1)
        BY <1>0, <2>2, <2>4, IntervalAssumption
      <3>2. x >= now - PartitionRetention => Covers(replica, x)
        BY <2>1, <3>1 DEF ReplicaInv, SyncCovered
      <3> QED
        BY <1>0, <2>2, <3>2, CoveredStays
    <2> QED
      BY <1>0, <2>2, <2>3, <2>4
  <1>3. CASE ~ListReplica(m) /\ ~CreateReplica(m)
    <2>1. pc[m] = "create" /\ at'[m] = at[m] /\ end'[m] = end[m]
      <3>1. CASE UNCHANGED loop
        BY <3>1 DEF loop, pass
      <3>2. CASE \E k \in Drivers : k # m /\ (Step(k) \/ ReplicaFails(k) \/ Crash(k))
        BY <1>0, <3>2
        DEF Step, ListReplica, CreateReplica, CreateReplicaReturns, ReadApplyTime, DropReplica, ReplicaFails,
            Crash, LeavesLoop, EndsPass
      <3>3. CASE \/ CreateReplicaReturns(m) \/ ReadApplyTime(m) \/ DropReplica(m)
                 \/ ReplicaFails(m) \/ Crash(m)
        <4>1. pc'[m] \in {"drop", "dropping", "idle"}
          BY <1>0, <3>3 DEF CreateReplicaReturns, ReadApplyTime, DropReplica, ReplicaFails, Crash, LeavesLoop,
                            EndsPass
        <4> QED
          BY <4>1
      <3> QED
        BY <1>3, <3>1, <3>2, <3>3
        DEF Next, Step, vars, pass, Backfill, InsertRow, ReceiveRow, Keepalive, WorkerStops, Tick
    <2>2. x \in Int /\ x \in (end[m] - PartitionLookAhead)..(at[m] - 1)
      BY <1>0, <2>1, IntervalAssumption
    <2>3. x >= now - PartitionRetention => Covers(replica, x)
      BY <2>1, <2>2 DEF ReplicaInv, SyncCovered
    <2> QED
      BY <1>0, <2>2, <2>3, CoveredStays
  <1> QED
    BY <1>1, <1>2, <1>3

LEMMA NextReplicaCovered ==
    ASSUME Aligned, ReplicaInv, [Next]_vars, DropsExpired
    PROVE  ReplicaCovered'
  <1> SUFFICES ASSUME lastSync' # NoTime,
                      NEW x \in lastSync'..(lastSync' + PartitionLookAhead - 1),
                      x >= now' - PartitionRetention
               PROVE  Covers(replica', x)
    BY DEF ReplicaCovered, Covers
  <1>0. ReplicaTypeOK /\ lastSync \in Int /\ lastSync' \in Int
    BY NextReplicaTypes DEF ReplicaInv, ReplicaTypeOK
  <1>1. x \in Int
    BY <1>0, IntervalAssumption
  <1>2. CASE lastSync' = lastSync
    <2>1. x >= now - PartitionRetention => Covers(replica, x)
      BY <1>2 DEF ReplicaInv, ReplicaCovered
    <2> QED
      BY <1>0, <1>1, <2>1, CoveredStays
  <1>3. CASE lastSync' # lastSync
    <2>1. PICK m \in Drivers : CreateReplicaReturns(m)
      BY <1>3
      DEF Next, vars, Step, ListReplica, CreateReplica, ReadApplyTime, DropReplica, ReplicaFails,
          Crash, Backfill, InsertRow, ReceiveRow, Keepalive, WorkerStops, Tick
    <2>2. at[m] \in Int /\ end[m] \in Int /\ end[m] - PartitionLookAhead \in Int
      BY <1>0, IntervalAssumption DEF ReplicaTypeOK
    <2>3. lastSync' = end[m] - PartitionLookAhead
      BY <1>0, <1>3, <2>1, <2>2, MaxIsOne DEF CreateReplicaReturns
    <2>4. ~Refused(replica, This(m))
      BY ThisOnGrid, NeverRefused DEF ReplicaInv, ReplicaOnGrid
    <2>5. pc[m] = "create" /\ at[m] >= end[m]
      BY <2>1, <2>2, <2>4 DEF CreateReplicaReturns, InLoop
    <2>6. x \in (end[m] - PartitionLookAhead)..(at[m] - 1)
      BY <1>1, <2>2, <2>3, <2>5, IntervalAssumption
    <2>7. x >= now - PartitionRetention => Covers(replica, x)
      BY <2>5, <2>6 DEF ReplicaInv, SyncCovered
    <2> QED
      BY <1>0, <1>1, <2>7, CoveredStays
  <1> QED
    BY <1>2, <1>3

\* The inductive invariant: what a driver listed on the replica is there or has expired, and
\* each pass leaves behind it no created_at without a partition.
THEOREM ReplicaInvariant ==
    ASSUME Aligned
    PROVE  Spec => []ReplicaInv
  <1>1. Init => ReplicaInv
    BY InitGrid DEF Init, GridInv, ReplicaInv, ListedOrExpired, SyncCovered, ReplicaCovered
  <1>2. ReplicaInv /\ [Next]_vars => ReplicaInv'
    <2> SUFFICES ASSUME ReplicaInv, [Next]_vars PROVE ReplicaInv'
      OBVIOUS
    <2>1. GridInv' /\ DropsExpired
      BY NextGrid DEF ReplicaInv, GridInv
    <2>2. ListedOrExpired' /\ SyncCovered' /\ ReplicaCovered'
      BY <2>1, NextListed, NextSyncCovered, NextReplicaCovered
    <2> QED
      BY <2>1, <2>2 DEF ReplicaInv, GridInv
  <1> QED
    BY <1>1, <1>2, PTL DEF Spec

\* After a pass of createReplicaPartitions every created_at of the look-ahead, and as far back
\* as the retention, has its partition on the replica, although the pass skips what
\* listReplicaPartitions returned before and another driver may have dropped since.
THEOREM ReplicaIsCovered ==
    ASSUME Aligned
    PROVE  Spec => []ReplicaCovered
  <1>1. ReplicaInv => ReplicaCovered
    BY DEF ReplicaInv
  <1> QED
    BY <1>1, ReplicaInvariant, PTL
==============================================================================
