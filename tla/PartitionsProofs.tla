--------------------------- MODULE PartitionsProofs ---------------------------
(***************************************************************************)
(* Proofs about Partitions, for every number of drivers and failures and   *)
(* every look-ahead and retention.                                         *)
(***************************************************************************)
EXTENDS Partitions, PartitionDDLProofs, TLAPS

Passing(m) == pc[m] \in {"check", "create"}

-----------------------------------------------------------------------------
(* The inductive invariant, in parts.                                      *)

AllOnGrid == \A p \in tables \cup meta : OnGrid(p)

\* Between its two statements pglg-setup has its table, and no pass drops it.
SetupAttached ==
    setup = "register" =>
        Partition(setupAt, Hour) \in tables /\ now <= setupAt + Hour

\* What the loop of a pass has passed is covered, as far back as the retention.
PassCovered ==
    \A m \in Drivers : Passing(m) =>
        \A x \in (end[m] - PartitionLookAhead)..(at[m] - 1) :
            x >= now - PartitionRetention => Covers(tables, x)

PartitionsInv ==
    /\ TypeOK /\ AllOnGrid /\ MetaTrue /\ SetupAttached
    /\ PassCovered /\ LookAheadCovered

-----------------------------------------------------------------------------
(* Types.                                                                  *)

LEMMA InitTypes == Init => TypeOK
  <1> SUFFICES ASSUME Init PROVE TypeOK
    OBVIOUS
  <1>1. 0 % PartitionInterval = 0 /\ 0 % Hour = 0
    BY IntervalAssumption
  <1>2. now \in Nat
    BY IntervalAssumption DEF Init
  <1> QED
    BY <1>1, <1>2 DEF Init, TypeOK, NoTime

LEMMA RegistersTypes ==
    ASSUME TypeOK, NEW m \in Drivers, Registers(This(m))
    PROVE  tables' \subseteq Partitions /\ meta' \subseteq Partitions
  <1>1. at[m] \in Int
    BY DEF TypeOK
  <1>2. This(m) \in Partitions
    BY <1>1, PartitionType, IntervalAssumption DEF This
  <1> QED
    BY <1>2, IfNotExistsType DEF TypeOK, Registers

LEMMA DriverTypes ==
    ASSUME TypeOK, NEW m \in Drivers, Step(m) \/ CreateFails(m) \/ DropFails(m) \/ Crash(m)
    PROVE  TypeOK'
  <1>0. at[m] \in Int /\ at[m] % PartitionInterval = 0 /\ end[m] \in Int /\ now \in Nat
    BY DEF TypeOK
  <1>1. CASE StartPass(m)
    <2>1. LoopStart(now) \in Int /\ LoopStart(now) % PartitionInterval = 0
      BY <1>0, LoopStartType
    <2>2. LoopEnd(now) \in Int
      BY <1>0, IntervalAssumption DEF LoopEnd
    <2> QED
      BY <1>1, <2>1, <2>2 DEF StartPass, TypeOK, Goes, clock, schema, tool
  <1>2. at[m] + PartitionInterval \in Int /\ (at[m] + PartitionInterval) % PartitionInterval = 0
    BY <1>0, GridStep, IntervalAssumption
  <1>3. CASE CheckPartition(m)
    BY <1>2, <1>3 DEF CheckPartition, TypeOK, Goes, NextBound, clock, schema, tool
  <1>4. CASE CreatePartition(m)
    BY <1>2, <1>4, RegistersTypes DEF CreatePartition, TypeOK, Goes, NextBound, clock, tool
  <1>5. CASE CreateReturns(m)
    <2>1. lastPass \in Int /\ end[m] - PartitionLookAhead \in Int
      BY <1>0, IntervalAssumption DEF TypeOK
    <2>2. lastPass' \in Int
      BY <1>5, <2>1, MaxIsOne DEF CreateReturns
    <2> QED
      BY <1>5, <2>2, ZeroOnGrid DEF CreateReturns, TypeOK, LeavesLoop, Goes, clock, schema, tool
  <1>6. CASE CreateFails(m)
    <2>1. tables' \subseteq Partitions /\ meta' \subseteq Partitions
      BY <1>6, RegistersTypes DEF CreateFails, schema, TypeOK
    <2> QED
      BY <1>6, <2>1, ZeroOnGrid DEF CreateFails, TypeOK, LeavesLoop, Goes, Fault, tool
  <1>7. CASE DropExpired(m)
    <2>1. tables' \subseteq tables /\ meta' \subseteq meta
      BY <1>7, DropAllType DEF DropExpired
    <2> QED
      BY <1>7, <2>1 DEF DropExpired, TypeOK, Goes, clock, tool
  <1>8. CASE DropFails(m)
    BY <1>8 DEF DropFails, TypeOK, Goes, Fault, schema, tool
  <1>9. CASE Crash(m)
    BY <1>9, ZeroOnGrid DEF Crash, TypeOK, Fault, schema, tool
  <1> QED
    BY <1>1, <1>3, <1>4, <1>5, <1>6, <1>7, <1>8, <1>9 DEF Step

LEMMA ToolTypes ==
    ASSUME TypeOK, SetupCreates \/ SetupRegisters \/ SetupStops \/ SetupRuns \/ Tick
    PROVE  TypeOK'
  <1>1. CASE SetupCreates
    <2> DEFINE p == Partition(Truncate(now, Hour), Hour)
    <2>1. Truncate(now, Hour) \in Int /\ Truncate(now, Hour) % Hour = 0
      BY GridTruncate, IntervalAssumption DEF TypeOK
    <2>2. p \in Partitions /\ p.lower = Truncate(now, Hour)
      BY <2>1, PartitionType, IntervalAssumption DEF Partition
    <2> HIDE DEF p
    <2>3. /\ setupAt' = p.lower
          /\ setup' \in {"failed", "register"}
          /\ tables' = tables \/ tables' = IfNotExists(tables, p)
          /\ UNCHANGED <<clock, meta, loop, lastPass>>
      BY <1>1 DEF SetupCreates, p
    <2>4. tables' \subseteq Partitions
      BY <2>2, <2>3, IfNotExistsType DEF TypeOK
    <2> QED
      BY <2>1, <2>2, <2>3, <2>4 DEF TypeOK, clock, loop
  <1>2. CASE SetupRegisters
    <2>1. Partition(setupAt, Hour) \in Partitions
      BY PartitionType, IntervalAssumption DEF TypeOK
    <2>2. meta' \subseteq Partitions
      BY <1>2, <2>1, IfNotExistsType DEF TypeOK, SetupRegisters
    <2> QED
      BY <1>2, <2>2 DEF SetupRegisters, TypeOK, clock, loop
  <1>3. CASE SetupStops \/ SetupRuns
    BY <1>3 DEF SetupStops, SetupRuns, TypeOK, Fault, clock, schema, loop
  <1>4. CASE Tick
    BY <1>4 DEF Tick, TypeOK, schema, loop, tool
  <1> QED
    BY <1>1, <1>2, <1>3, <1>4

LEMMA NextTypes == TypeOK /\ [Next]_vars => TypeOK'
  <1> SUFFICES ASSUME TypeOK, [Next]_vars PROVE TypeOK'
    OBVIOUS
  <1>1. CASE UNCHANGED vars
    BY <1>1 DEF vars, clock, schema, loop, tool, TypeOK
  <1> QED
    BY <1>1, DriverTypes, ToolTypes DEF Next

\* A pass of createPartitions and pglg-setup (runCreate) stay on their grids, whatever
\* fails, crashes or runs beside them, for every length of partition.
THEOREM TypesHold == Spec => []TypeOK
  BY InitTypes, NextTypes, PTL DEF Spec

-----------------------------------------------------------------------------
(* The tables and partition_meta.                                          *)

\* What a step may drop: KeptForRetention says that every step does just this.
DropsExpired == \A p \in tables \ tables' : p.upper <= now - PartitionRetention

\* The part of the invariant that speaks of the schema.
SchemaInv == TypeOK /\ AllOnGrid /\ MetaTrue /\ SetupAttached

LEMMA ThisOnGrid ==
    ASSUME Aligned, TypeOK, NEW m \in Drivers
    PROVE  OnGrid(This(m))
  BY PartitionOnGrid DEF TypeOK, This

\* The transaction of createPartitions adds one partition to both, or finds it in them.
LEMMA RegistersGrows ==
    ASSUME Aligned, SchemaInv, NEW m \in Drivers, Registers(This(m))
    PROVE  /\ This(m) \in tables' /\ tables \subseteq tables'
           /\ AllOnGrid' /\ MetaTrue'
  <1>1. OnGrid(This(m))
    BY ThisOnGrid DEF SchemaInv
  <1>2. (\A q \in tables : OnGrid(q)) /\ (\A q \in meta : OnGrid(q))
    BY DEF SchemaInv, AllOnGrid
  <1>3. /\ This(m) \in tables' /\ tables \subseteq tables' /\ tables' \subseteq tables \cup {This(m)}
        /\ meta' \subseteq meta \cup {This(m)}
    BY <1>1, <1>2, ThereAfter DEF Registers
  <1>4. AllOnGrid'
    BY <1>1, <1>2, <1>3 DEF AllOnGrid
  <1> QED
    BY <1>3, <1>4 DEF SchemaInv, MetaTrue

\* The transaction of dropExpiredPartitions drops what partition_meta says has expired: the
\* names it read stand for just those tables.
LEMMA DropsByName ==
    ASSUME Aligned, SchemaInv, NEW m \in Drivers, DropExpired(m)
    PROVE  /\ tables' = tables \ Expired
           /\ meta' = meta \ Expired
  <1>1. Expired \subseteq meta /\ meta \subseteq tables /\ \A p \in tables : OnGrid(p)
    BY DEF Expired, SchemaInv, MetaTrue, AllOnGrid
  <1>2. Names(Expired) \subseteq Names(tables)
    BY <1>1 DEF Names
  <1>3. tables' = {p \in tables : p.name \notin Names(Expired)} /\ meta' = meta \ Expired
    BY <1>2 DEF DropExpired, DropAll
  <1>4. ASSUME NEW p \in tables, p.name \in Names(Expired)
        PROVE  p \in Expired
    <2>1. PICK q \in Expired : p.name = q.name
      BY <1>4 DEF Names
    <2> QED
      BY <2>1, <1>1, NameDecides
  <1>5. ASSUME NEW p \in Expired
        PROVE  p.name \in Names(Expired)
    BY DEF Names
  <1> QED
    BY <1>3, <1>4, <1>5

LEMMA DriverSchema ==
    ASSUME Aligned, SchemaInv, NEW m \in Drivers,
           Step(m) \/ CreateFails(m) \/ DropFails(m) \/ Crash(m)
    PROVE  AllOnGrid' /\ MetaTrue' /\ SetupAttached' /\ DropsExpired
  <1>1. now' = now /\ setup' = setup /\ setupAt' = setupAt
    BY DEF Step, StartPass, CheckPartition, CreatePartition, CreateReturns, DropExpired,
           CreateFails, DropFails, Crash, Fault, clock, tool
  <1>2. CASE UNCHANGED schema
    BY <1>1, <1>2 DEF schema, SchemaInv, AllOnGrid, MetaTrue, SetupAttached, DropsExpired
  <1>3. CASE Registers(This(m))
    <2>1. AllOnGrid' /\ MetaTrue' /\ tables \subseteq tables'
      BY <1>3, RegistersGrows
    <2>2. SetupAttached' /\ DropsExpired
      BY <1>1, <2>1 DEF SchemaInv, SetupAttached, DropsExpired
    <2> QED
      BY <2>1, <2>2
  <1>4. CASE DropExpired(m)
    <2>1. tables' = tables \ Expired /\ meta' = meta \ Expired
      BY <1>4, DropsByName
    <2>2. AllOnGrid' /\ MetaTrue'
      BY <2>1 DEF SchemaInv, AllOnGrid, MetaTrue
    <2>3. DropsExpired
      BY <2>1 DEF DropsExpired, Expired
    <2>4. ASSUME setup = "register"
          PROVE  Partition(setupAt, Hour) \notin Expired
      <3>1. now <= setupAt + Hour /\ setupAt \in Int /\ now \in Int
        BY <2>4 DEF SchemaInv, SetupAttached, TypeOK
      <3>2. Partition(setupAt, Hour).upper = setupAt + Hour
        BY DEF Partition
      <3> QED
        BY <3>1, <3>2, IntervalAssumption DEF Expired
    <2>5. SetupAttached'
      BY <1>1, <2>1, <2>4 DEF SchemaInv, SetupAttached
    <2> QED
      BY <2>2, <2>3, <2>5
  <1> QED
    BY <1>2, <1>3, <1>4
    DEF Step, StartPass, CheckPartition, CreatePartition, CreateReturns, CreateFails, DropFails,
        Crash

LEMMA ToolSchema ==
    ASSUME Aligned, SchemaInv, SetupCreates \/ SetupRegisters \/ SetupStops \/ SetupRuns \/ Tick
    PROVE  AllOnGrid' /\ MetaTrue' /\ SetupAttached' /\ DropsExpired
  <1>0. (\A q \in tables : OnGrid(q)) /\ (\A q \in meta : OnGrid(q)) /\ meta \subseteq tables
    BY DEF SchemaInv, AllOnGrid, MetaTrue
  <1>1. CASE SetupCreates
    <2> DEFINE t == Truncate(now, Hour)
               p == Partition(t, Hour)
    <2>1. t \in Int /\ t % Hour = 0 /\ now < t + Hour
      BY GridTruncate, IntervalAssumption DEF SchemaInv, TypeOK
    <2>2. OnGrid(p) /\ p.lower = t
      BY <2>1, PartitionOnGrid DEF Aligned, Partition
    <2>3. p \in IfNotExists(tables, p) /\ tables \subseteq IfNotExists(tables, p)
          /\ IfNotExists(tables, p) \subseteq tables \cup {p}
      BY <1>0, <2>2, ThereAfter
    <2>4. ~Refused(tables, p)
      BY <1>0, <2>2, NeverRefused
    <2>5. setupAt' = p.lower /\ setup' = "register" /\ tables' = IfNotExists(tables, p)
          /\ meta' = meta /\ now' = now
      BY <1>1, <2>4 DEF SetupCreates, clock
    <2> HIDE DEF t, p
    <2>6. AllOnGrid' /\ MetaTrue' /\ DropsExpired
      BY <1>0, <2>2, <2>3, <2>5 DEF AllOnGrid, MetaTrue, DropsExpired
    <2>7. Partition(setupAt', Hour) = p
      BY <2>2, <2>5 DEF p
    <2>8. now' <= setupAt' + Hour
      BY <2>1, <2>2, <2>5, IntervalAssumption DEF SchemaInv, TypeOK
    <2> QED
      BY <2>3, <2>5, <2>6, <2>7, <2>8 DEF SetupAttached
  <1>2. CASE SetupRegisters
    <2> DEFINE p == Partition(setupAt, Hour)
    <2>1. p \in tables
      BY <1>2 DEF SetupRegisters, SchemaInv, SetupAttached
    <2>2. meta' \subseteq meta \cup {p} /\ tables' = tables /\ setup' = "done"
      BY <1>2 DEF SetupRegisters, IfNotExists
    <2> HIDE DEF p
    <2> QED
      BY <1>0, <2>1, <2>2 DEF AllOnGrid, MetaTrue, SetupAttached, DropsExpired
  <1>3. CASE SetupStops \/ SetupRuns
    BY <1>3 DEF SetupStops, SetupRuns, SchemaInv, AllOnGrid, MetaTrue, SetupAttached,
                DropsExpired, schema
  <1>4. CASE Tick
    <2>1. tables' = tables /\ meta' = meta /\ setup' = setup /\ setupAt' = setupAt
      BY <1>4 DEF Tick, schema, tool
    <2>2. setup = "register" => now' <= setupAt + Hour
      BY <1>4, IntervalAssumption DEF Tick, SchemaInv, TypeOK
    <2> QED
      BY <2>1, <2>2 DEF SchemaInv, AllOnGrid, MetaTrue, SetupAttached, DropsExpired
  <1> QED
    BY <1>1, <1>2, <1>3, <1>4

LEMMA NextSchema ==
    ASSUME Aligned, SchemaInv, [Next]_vars
    PROVE  SchemaInv' /\ DropsExpired
  <1>1. TypeOK'
    BY NextTypes DEF SchemaInv
  <1>2. CASE UNCHANGED vars
    BY <1>1, <1>2 DEF vars, clock, schema, loop, tool, SchemaInv, AllOnGrid, MetaTrue,
                      SetupAttached, DropsExpired
  <1>3. CASE Next
    BY <1>1, <1>3, DriverSchema, ToolSchema DEF Next, SchemaInv
  <1> QED
    BY <1>2, <1>3

LEMMA InitSchema == Init => SchemaInv
  BY InitTypes DEF Init, SchemaInv, AllOnGrid, MetaTrue, SetupAttached

LEMMA SchemaInvariant ==
    ASSUME Aligned
    PROVE  Spec => []SchemaInv
  <1>1. SchemaInv /\ [Next]_vars => SchemaInv'
    BY NextSchema
  <1> QED
    BY <1>1, InitSchema, PTL DEF Spec

\* partition_meta is true for any number of drivers in a pass at once, pglg-setup between its
\* two statements, and any failures and crashes: each row is an attached partition with just
\* those bounds (createPartitions, dropExpiredPartitions, runCreate).
THEOREM MetaIsTrue ==
    ASSUME Aligned
    PROVE  Spec => []MetaTrue
  <1>1. SchemaInv => MetaTrue
    BY DEF SchemaInv
  <1> QED
    BY <1>1, SchemaInvariant, PTL

\* No step drops a table that can hold a row younger than the retention, though the
\* transaction of dropExpiredPartitions names the tables and sees only the bounds that
\* partition_meta has for those names.
THEOREM RetentionKept ==
    ASSUME Aligned
    PROVE  Spec => KeptForRetention
  <1>1. SchemaInv /\ [Next]_vars => [DropsExpired]_vars
    BY NextSchema
  <1> QED
    BY <1>1, SchemaInvariant, PTL DEF Spec, KeptForRetention, DropsExpired

-----------------------------------------------------------------------------
(* The look-ahead.                                                         *)

\* What the retention still protects stays covered over a step.
LEMMA CoveredStays ==
    ASSUME DropsExpired, tables \subseteq Partitions, now \in Int, now' \in Int, now <= now',
           NEW x \in Int, x >= now' - PartitionRetention, Covers(tables, x)
    PROVE  Covers(tables', x)
  <1>1. x >= now - PartitionRetention
    BY CutoffAdvances
  <1>2. now - PartitionRetention \in Int
    BY IntervalAssumption
  <1> QED
    BY <1>1, <1>2, CoveredKept DEF DropsExpired

\* The clock never goes back.
LEMMA ClockAdvances ==
    ASSUME TypeOK, [Next]_vars
    PROVE  now \in Int /\ now' \in Int /\ now <= now'
  <1>1. now' = now \/ now' = now + 1
    BY DEF Next, vars, Step, StartPass, CheckPartition, CreatePartition, CreateReturns,
           DropExpired, CreateFails, DropFails, Crash, SetupCreates, SetupRegisters, SetupStops,
           SetupRuns, Tick, Fault, clock
  <1> QED
    BY <1>1 DEF TypeOK

\* The loop of a pass goes on to the next bound when its partition is there.
LEMMA BoundPassed ==
    ASSUME Aligned, PartitionsInv, NEW m \in Drivers, [Next]_vars,
           Passing(m), This(m) \in tables', at'[m] = at[m] + PartitionInterval,
           end'[m] = end[m], DropsExpired
    PROVE  \A x \in (end'[m] - PartitionLookAhead)..(at'[m] - 1) :
               x >= now' - PartitionRetention => Covers(tables', x)
  <1>0. /\ at[m] \in Int /\ end[m] \in Int /\ tables \subseteq Partitions
        /\ now \in Int /\ now' \in Int /\ now <= now'
    BY ClockAdvances DEF PartitionsInv, TypeOK
  <1> SUFFICES ASSUME NEW x \in (end'[m] - PartitionLookAhead)..(at'[m] - 1),
                      x >= now' - PartitionRetention
               PROVE  Covers(tables', x)
    OBVIOUS
  <1>1. /\ x \in Int
        /\ end[m] - PartitionLookAhead <= x /\ x <= at[m] + PartitionInterval - 1
    BY <1>0, IntervalAssumption
  <1>2. CASE x >= at[m]
    <2>1. Holds(This(m), x)
      BY <1>0, <1>1, <1>2, IntervalAssumption DEF This, Partition, Holds
    <2> QED
      BY <2>1 DEF Covers
  <1>3. CASE x < at[m]
    <2>1. x \in (end[m] - PartitionLookAhead)..(at[m] - 1)
      BY <1>0, <1>1, <1>3, IntervalAssumption
    <2>2. x >= now - PartitionRetention
      BY <1>0, <1>1, CutoffAdvances
    <2>3. Covers(tables, x)
      BY <2>1, <2>2 DEF PartitionsInv, PassCovered
    <2> QED
      BY <1>0, <1>1, <2>3, CoveredStays
  <1> QED
    BY <1>0, <1>1, <1>2, <1>3

\* A driver whose loop a step leaves where it is stays covered as far.
LEMMA PassStays ==
    ASSUME PartitionsInv, [Next]_vars, DropsExpired, NEW m \in Drivers,
           Passing(m), at'[m] = at[m], end'[m] = end[m]
    PROVE  \A x \in (end'[m] - PartitionLookAhead)..(at'[m] - 1) :
               x >= now' - PartitionRetention => Covers(tables', x)
  <1>0. /\ at[m] \in Int /\ end[m] \in Int /\ tables \subseteq Partitions
        /\ now \in Int /\ now' \in Int /\ now <= now'
    BY ClockAdvances DEF PartitionsInv, TypeOK
  <1> SUFFICES ASSUME NEW x \in (end'[m] - PartitionLookAhead)..(at'[m] - 1),
                      x >= now' - PartitionRetention
               PROVE  Covers(tables', x)
    OBVIOUS
  <1>1. x \in Int /\ x \in (end[m] - PartitionLookAhead)..(at[m] - 1)
    BY <1>0, IntervalAssumption
  <1>2. x >= now - PartitionRetention
    BY <1>0, <1>1, CutoffAdvances
  <1>3. Covers(tables, x)
    BY <1>1, <1>2 DEF PartitionsInv, PassCovered
  <1> QED
    BY <1>0, <1>1, <1>3, CoveredStays

LEMMA NextPassCovered ==
    ASSUME Aligned, PartitionsInv, [Next]_vars, DropsExpired
    PROVE  PassCovered'
  <1> SUFFICES ASSUME NEW m \in Drivers, Passing(m)'
               PROVE  \A x \in (end'[m] - PartitionLookAhead)..(at'[m] - 1) :
                          x >= now' - PartitionRetention => Covers(tables', x)
    BY DEF PassCovered, Covers
  <1>0. SchemaInv
    BY DEF SchemaInv, PartitionsInv
  <1>1. CASE StartPass(m)
    <2>1. now \in Int /\ LoopStart(now) <= now /\ LoopStart(now) \in Int
      BY LoopStartType DEF PartitionsInv, TypeOK
    <2>2. at'[m] = LoopStart(now) /\ end'[m] = now + PartitionLookAhead
      BY <1>1 DEF StartPass, PartitionsInv, TypeOK, LoopEnd
    <2>3. end'[m] - PartitionLookAhead > at'[m] - 1
      BY <2>1, <2>2, IntervalAssumption
    <2> QED
      BY <2>1, <2>2, <2>3, IntervalAssumption
  <1>2. CASE CheckPartition(m) /\ This(m).name \in Names(meta)
    <2>1. PICK q \in meta : This(m).name = q.name
      BY <1>2 DEF Names
    <2>2. This(m) = q
      BY <2>1, <1>0, ThisOnGrid, NameDecides DEF SchemaInv, AllOnGrid
    <2>3. This(m) \in tables'
      BY <1>2, <2>2, <1>0 DEF SchemaInv, MetaTrue, CheckPartition, schema
    <2>4. Passing(m) /\ at'[m] = at[m] + PartitionInterval /\ end'[m] = end[m]
      BY <1>2 DEF CheckPartition, NextBound, Passing, PartitionsInv, TypeOK
    <2> QED
      BY <1>0, <2>3, <2>4, BoundPassed
  <1>3. CASE CreatePartition(m)
    <2>1. This(m) \in tables'
      BY <1>0, <1>3, RegistersGrows DEF CreatePartition
    <2>2. Passing(m) /\ at'[m] = at[m] + PartitionInterval /\ end'[m] = end[m]
      BY <1>3 DEF CreatePartition, NextBound, Passing, PartitionsInv, TypeOK
    <2> QED
      BY <1>0, <2>1, <2>2, BoundPassed
  <1>4. CASE ~StartPass(m) /\ ~CreatePartition(m)
             /\ ~(CheckPartition(m) /\ This(m).name \in Names(meta))
    <2>1. pc \in [Drivers -> {"idle", "check", "create", "drop"}] /\ at \in [Drivers -> Int]
          /\ end \in [Drivers -> Int]
      BY DEF PartitionsInv, TypeOK
    <2>2. Passing(m) /\ at'[m] = at[m] /\ end'[m] = end[m]
      <3>1. CASE UNCHANGED loop
        BY <3>1 DEF loop, Passing
      <3>2. CASE \E k \in Drivers : k # m /\ (Step(k) \/ CreateFails(k) \/ DropFails(k) \/ Crash(k))
        BY <2>1, <3>2
        DEF Step, StartPass, CheckPartition, CreatePartition, CreateReturns, CreateFails,
            DropExpired, DropFails, Crash, Goes, NextBound, LeavesLoop, Passing
      <3>3. CASE CheckPartition(m)
        BY <1>4, <2>1, <3>3 DEF CheckPartition, Goes, Passing
      <3>4. CASE CreateReturns(m) \/ CreateFails(m) \/ DropExpired(m) \/ DropFails(m) \/ Crash(m)
        <4>1. pc'[m] \in {"drop", "idle"}
          BY <2>1, <3>4 DEF CreateReturns, CreateFails, DropExpired, DropFails, Crash, Goes,
                            LeavesLoop
        <4> QED
          BY <4>1 DEF Passing
      <3> QED
        BY <1>4, <3>1, <3>2, <3>3, <3>4
        DEF Next, Step, vars, SetupCreates, SetupRegisters, SetupStops, SetupRuns, Tick
    <2> QED
      BY <2>2, PassStays
  <1> QED
    BY <1>1, <1>2, <1>3, <1>4

\* Ahead(t), kept over a step.
LEMMA AheadStays ==
    ASSUME PartitionsInv, [Next]_vars, DropsExpired, NEW t \in Int, Ahead(t)
    PROVE  \A x \in t..(t + PartitionLookAhead - 1) :
               x >= now' - PartitionRetention => Covers(tables', x)
  <1>0. tables \subseteq Partitions /\ now \in Int /\ now' \in Int /\ now <= now'
    BY ClockAdvances DEF PartitionsInv, TypeOK
  <1> SUFFICES ASSUME NEW x \in t..(t + PartitionLookAhead - 1), x >= now' - PartitionRetention
               PROVE  Covers(tables', x)
    OBVIOUS
  <1>1. x \in Int
    BY <1>0, IntervalAssumption
  <1>2. x >= now - PartitionRetention
    BY <1>0, <1>1, CutoffAdvances
  <1>3. Covers(tables, x)
    BY <1>2 DEF Ahead
  <1> QED
    BY <1>0, <1>1, <1>3, CoveredStays

LEMMA NextLookAhead ==
    ASSUME Aligned, PartitionsInv, [Next]_vars, DropsExpired
    PROVE  LookAheadCovered'
  <1> SUFFICES ASSUME lastPass' # NoTime
               PROVE  \A x \in lastPass'..(lastPass' + PartitionLookAhead - 1) :
                          x >= now' - PartitionRetention => Covers(tables', x)
    BY DEF LookAheadCovered, Ahead, Covers
  <1>0. lastPass \in Int
    BY DEF PartitionsInv, TypeOK
  <1>1. CASE lastPass' = lastPass
    <2>1. Ahead(lastPass)
      BY <1>1 DEF PartitionsInv, LookAheadCovered
    <2> QED
      BY <1>0, <1>1, <2>1, AheadStays
  <1>2. CASE lastPass' # lastPass
    <2>1. PICK m \in Drivers : CreateReturns(m)
      BY <1>2
      DEF Next, vars, Step, StartPass, CheckPartition, CreatePartition, DropExpired, CreateFails,
          DropFails, Crash, SetupCreates, SetupRegisters, SetupStops, SetupRuns, Tick
    <2>2. at[m] \in Int /\ end[m] \in Int /\ end[m] - PartitionLookAhead \in Int
      BY IntervalAssumption DEF PartitionsInv, TypeOK
    <2>3. lastPass' = end[m] - PartitionLookAhead
      BY <1>0, <1>2, <2>1, <2>2, MaxIsOne DEF CreateReturns
    <2>4. ~Refused(tables, This(m))
      BY ThisOnGrid, NeverRefused DEF PartitionsInv, AllOnGrid
    <2>5. Passing(m) /\ at[m] >= end[m]
      BY <2>1, <2>2, <2>4 DEF CreateReturns, InLoop, Passing
    <2>6. Ahead(end[m] - PartitionLookAhead)
      <3> SUFFICES ASSUME NEW x \in (end[m] - PartitionLookAhead)
                                        ..(end[m] - PartitionLookAhead + PartitionLookAhead - 1),
                          x >= now - PartitionRetention
                   PROVE  Covers(tables, x)
        BY DEF Ahead
      <3>1. x \in (end[m] - PartitionLookAhead)..(at[m] - 1)
        BY <2>2, <2>5, IntervalAssumption
      <3> QED
        BY <2>5, <3>1 DEF PartitionsInv, PassCovered
    <2> QED
      BY <2>2, <2>3, <2>6, AheadStays
  <1> QED
    BY <1>1, <1>2

\* The inductive invariant: on a shared grid partition_meta is true, and each pass leaves
\* behind it no created_at without a partition.
THEOREM PartitionsInvariant ==
    ASSUME Aligned
    PROVE  Spec => []PartitionsInv
  <1>1. Init => PartitionsInv
    BY InitSchema DEF Init, SchemaInv, PartitionsInv, PassCovered, Passing, LookAheadCovered
  <1>2. PartitionsInv /\ [Next]_vars => PartitionsInv'
    <2> SUFFICES ASSUME PartitionsInv, [Next]_vars PROVE PartitionsInv'
      OBVIOUS
    <2>1. SchemaInv' /\ DropsExpired
      BY NextSchema DEF PartitionsInv, SchemaInv
    <2>2. PassCovered' /\ LookAheadCovered'
      BY <2>1, NextPassCovered, NextLookAhead
    <2> QED
      BY <2>1, <2>2 DEF PartitionsInv, SchemaInv
  <1> QED
    BY <1>1, <1>2, PTL DEF Spec

\* After a pass of createPartitions every created_at of the look-ahead, and as far back as
\* the retention, has its partition on the primary, whatever other passes, pglg-setup,
\* failures and crashes do in the meantime.
THEOREM LookAheadIsCovered ==
    ASSUME Aligned
    PROVE  Spec => []LookAheadCovered
  <1>1. PartitionsInv => LookAheadCovered
    BY DEF PartitionsInv
  <1> QED
    BY <1>1, PartitionsInvariant, PTL
===============================================================================
