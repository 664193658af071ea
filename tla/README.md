# Verification of the courier driver

TLA+ models, model-checking runs and machine-checked proofs of the courier driver in this
repository: a Go program that reads an outbox table of PostgreSQL through a logical replication
slot, submits the rows to jack in batches, and records its progress so that it can fail over.

## The system

| Part | State it keeps | Operations | Source |
|---|---|---|---|
| Delivery path | locals of `processWALStream` (`buf`, `pendingInserts`, `pendingCommitLSN`, `inTx`, `nextBatchAt`), `dlqRows` | `Run`, `runOnce`, `startStreaming`, `processWALStream`, `flushBatch`, `persistFlushResult` | `driver.go` |
| WAL consumer | `clientXLogPos`, `flushLSN`, `relations` | `receiveMessage`, `standbyStatusUpdate`, `sendStandbyStatus` | `wal.go` |
| Parser | none | `parseWALMessage`, `parseInsertColumns`, `parseTimestamp` | `wal.go`, `wal_parser.go` |
| Cursor | one row of `{prefix}_cursor` | `readCursor`, `writeCursorTx` | `cursor.go` |
| Dead-letter queue | `{prefix}_dlq` | `mapResults`, `insertDLQRows`, cleanup goroutine | `dlq.go` |
| Leadership | `isLeader`, `maintWake` | `acquireLeadership`, `relinquishLeadership`, the retry loop of `Run` | `driver.go` |
| Partition maintenance | partitions of the outbox and their metadata table | create ahead, drop old, follow on replicas | `partition.go` |
| Backoff | attempt counter | `next`, `wait`, `reset` | `backoff.go` |
| Configuration | `Config` | `setDefaults`, `validate`, `ConfigFromEnv` | `driver.go` |
| `pglg-setup` | tables, publication, slot, first partition | `create` (also `--replica`, `--skip-publication`, `--create-partitions`), `destroy` | `cmd/pglg-setup`, `sql/` |
| `pglg-bench` | lag samples | `reset`, `runSteady`, statistics | `cmd/pglg-bench` |
| Metrics | none | gauges and counters | `driver.go` |

**How they interact.** Every replica runs the same loop: read the cursor, ask the server for the
slot from that position, stream. PostgreSQL lets one walsender at a time hold the slot, so one
replica delivers and the others poll. The one that delivers receives the messages of committed
transactions (Begin, Relation, Insert, Commit), collects the rows of a transaction in `buf`,
moves them to `pendingInserts` at its Commit, and flushes by size or by timer: submit to jack,
then one database transaction that writes the rejected rows to the DLQ and moves the cursor, then
a status update that lets the slot (and PostgreSQL's WAL) advance. While nothing is pending the
standby timer moves the cursor to what was received (the *idle flush*). The cursor and DLQ go
through a connection pool, the stream through a connection of its own: losing the slot does not
stop a replica from writing the cursor. `isLeader` and the channel `maintWake` connect the loop to
the maintenance goroutine.

**What is hard.** Two replicas that both believe to hold the slot; a crash, a lost answer or a lost
status update between any two of submit, persist and confirm; the position the idle flush may
claim; the zero flush position of a fresh slot; the cursor that is read before the slot is taken;
a wake that is sent before its receiver exists; retries that must eventually succeed; two
maintainers in a pass at once, each checking first and acting later; DDL that is interrupted and
run again; answers of jack in any order; text whose form depends on settings of the server; the
growth of delays. `PROJECT.json`
lists these hazards at the lines where they bite.

**What makes it correct.**

- delivery path: no row behind the cursor that is not done with; every committed row is
  eventually done with; rows are resubmitted only after a failure; the batch timer is armed;
- WAL consumer: the slot never confirms what the cursor does not have, and eventually confirms
  everything; the relation of a row is known when the row arrives;
- cursor: never goes back, whoever writes; DLQ: a row is recorded together with the cursor;
- leadership: no wake is lost, stale leaders stand down, a free slot is taken, shutdown ends;
- partitions: after a pass there is a partition for now and ahead, the metadata is true, a
  partition is dropped after its retention, not before, and in the end always; on a replica the
  same, where the retention stands still while the replica hears nothing;
- results: accepted answers are exactly those with one result per insert; parser: jack and the
  DLQ receive the row that was written; cleanup: prunes under every lasting leader;
- backoff: a free slot is taken within a bounded time;
- `pglg-setup`: what it says it did is done, in whatever order it is run and interrupted.

## Modules

| Module | What it is |
|---|---|
| `Outbox` | abstract specification: a durable mark that only passes rows that are done with |
| `Delivery` | delivery path, WAL consumer, cursor and DLQ inserts of all replicas, with the slot, the walsenders and jack |
| `MCDelivery` | instances of `Delivery` for TLC |
| `DeliveryProofs` | type correctness, the inductive invariants and what follows from them, `Delivery` implements `Outbox` |
| `Leadership` | slot, `isLeader`, `maintWake`, the loop of `Run` and the control of the maintenance goroutine |
| `MCLeadership`, `LeadershipProofs` | its instances and proofs |
| `DLQCleanup` | `Leadership` composed with the goroutine that prunes the DLQ |
| `Reconnect` | the same loop of `Run` with a clock: backoff and slot-busy waits |
| `PartitionDDL` | names and bounds of partitions, and the DDL semantics the next two share |
| `Partitions` | a maintenance pass on the primary, of several drivers at once, and the initial partition of `pglg-setup` |
| `ReplicaPartitions` | the replica part of a pass, the back-fill of `pglg-setup` and the apply worker |
| `RowParser` | one row from its text to a `parsedInsert`: operators, no state |
| `Batch` | a batch from its rows to jack, `mapResults` and the rows of the DLQ, on top of `RowParser` |
| `Setup` | `pglg-setup create` and `destroy` |
| `PartitionDDLProofs` | lemmas about the grid of partitions: bounds, names, overlaps, coverage |
| `PartitionsProofs`, `ReplicaPartitionsProofs` | proofs about the two kinds of pass, from these lemmas |
| `BatchProofs`, `ReconnectProofs`, `SetupProofs` | proofs about `Batch` with `RowParser`, `Reconnect` and `Setup` |

Each module with a specification has an `MC` module for TLC that gives the instance its values (`MCDLQCleanup` also that of `Leadership`
in the run `leadership`; `PartitionDDL` and `RowParser` are checked through the modules that extend them).

### Delivery and the code

*Positions.* The `log` is the sequence of committed transactions. An LSN is represented by the number
of commit records that start below it: this is all that `START_REPLICATION` looks at when it
decides whether to send a transaction. The end of transaction `i` is therefore `i`, and several
byte positions share a number. Transactions of `{}` are WAL that holds nothing of the publication.

*Message lengths.* `receiveMessage` sets `clientXLogPos` to `WALStart + len(WALData)`. The length
of a decoded message says nothing about distances in the WAL, so the result may lie past the start
of commit records that were not received; `MaxSpill` bounds how many. With `MaxSpill = 0` the
model is the program under the assumption that this never happens.

*Session.* One action per message (`RecvBegin`, `RecvRelation`, `RecvInsert`, `RecvCommit`,
`RecvKeepalive`) and one per timer (`BatchTimeout`, `StandbyTick`). `flushBatch` is cut at the two
points where the outside world can intervene: `SubmitSucceeds` (jack has answered) and `Persist`
(the database transaction has committed, `flushLSN` and the status update included).
`RunOnceReturns` is what any end of a session does: the consumer and the locals are gone, the cursor is
all that remains. `Receives` and `SendStandbyStatus` are parts of the actions that call them.

*Failures.* `Crash` covers the death of the process and every call that fails without an effect,
`SubmitFails` a submit that fails after jack has accepted some jobs or an answer that
`mapResults` refuses, `PersistAborts` and `TickAborts` a commit whose answer is lost, `LoseSlot` a
walsender that ends under a live session (the slot may also fall back to an older saved
`confirmed_flush_lsn`), `ReleaseSlot` the server noticing a closed connection. A session that
lost the slot may go on receiving what its socket holds; the model lets it receive as if its
walsender were still there, which is more than a socket can hold. A status update may be lost.

*Data.* Which rows parse is the parameter `Malformed`; which message kinds may fail to decode is
`Undecodable`. The model does not look into payloads. `MaxDLQRows` stands for the 65535 parameters a
statement may carry, ten of which a row takes. Waiting times are left out: a timer that is set
may fire at any time.

*History variables.* `dropped` (rows skipped because they do not parse or their relation is unknown), `overclaimed` (positions an idle flush persisted
beyond what was received), `faults` (failures so far). No action of the program depends on the first two.

*External.* The walsender, the slot, jack and pglogrepl are modelled from how the code uses them;
the map marks them. pglogrepl replaces a zero flush position by the write position, which is why
`standbyStatusUpdate` claims nothing before the first flush.

### Leadership and the code

`run` is where the loop of `Run` stands, `maint` where `partitionMaintenance` stands. The first
select of the goroutine has no ticker (`starting`, `blocked`), later ones have (`select`).
`acquireLeadership` leaves a token in the channel only when the replica was a standby; the
channel holds one. `relinquishLeadership` is part of `StartBusy` and `ReturnFromSession`;
`SessionFails` and `ReturnFromWait` do not call it, like the code. What a session delivers is left
to `Delivery`; what a maintenance pass does to `Partitions` and `ReplicaPartitions`.

`DLQCleanup` extends it with `dlqCleanup`: `CleanupTick` is a tick that finds `isLeader` set (a tick
of a standby changes nothing) and whose DELETE succeeds, `CleanupFails` one whose DELETE fails. The goroutine
keeps nothing between ticks, and after the end of its context it can change nothing, so it has no variable.
`Expires` is time passing for some row of the table.

`Reconnect` takes the same loop and adds a clock, `backoff.attempt` and the timers. Timers fire on
time and attempts take no time, so the bounds it checks are those of the waits alone. As in `Leadership` the
server keeps the slot of a failed session for any time (`ReleaseSlot`), or takes it from a live one (`LoseSlot`), whose
driver notices later (`StreamEnds`): `freeSince` is when the slot was free, not when the session failed.

### Partitions and the code

Times are integers; a partition is a record of its name, which keeps the minutes of its lower bound,
and its bounds. What PostgreSQL does is in `PartitionDDL`: `IF NOT EXISTS` and `ON CONFLICT DO NOTHING`
look at the name only, a new partition that overlaps another is refused, a transaction of drops is all
or nothing. All drivers and the server share one clock.

In `Partitions` a pass is cut where other processes can come in between: `StartPass` reads the clock,
`CheckPartition` the metadata, `CreatePartition` is the transaction that creates and registers,
`CreateReturns` the end of the loop or an overlap, `DropExpired` the transaction of
`dropExpiredPartitions`, whose `FOR UPDATE` makes passes wait for one another. `CreateFails` is any
error, a commit whose answer is lost included. `SetupCreates` and `SetupRegisters` are the two
statements of `pglg-setup`, `SetupStops` the interruption between them, `SetupRuns` another run.
`lastPass` is a history variable: when the last pass began that no failure cut short.

In `ReplicaPartitions` `ListReplica` reads `existing`, which both `CreateReplica` and `DropReplica` use
later. `ReadApplyTime` computes the `Cutoff` from `last_msg_send_time` and selects what to drop, `DropReplica` is the
transaction that drops it: the worker and the other driver can come in between. The apply worker (`ReceiveRow`) is external: it
takes the oldest row, applies it if there is a partition and fails if not; the send time is that of
the walsender, and a row may be of any age when it is sent. `lastHeard` is a history variable: the last send time the replica has
had, also after its worker stopped. `Backfill` is
`createPartitionRange`, one step since its statements are independent and may stop anywhere.

### Batch, RowParser and the code

`RowParser` is `parseInsertColumns` with `parseTimestamp` and `decodeBytea` as operators over what PostgreSQL
writes, which is external: a timestamp is what the layouts look at (style, local time, zone, whether the zone
has minutes or seconds), a bytea a sequence of tokens. Times are seconds, and `TimeZone` gives an offset for each time, since
clocks change. `Infinity` stands for every value that is not written as a year of four digits. An operation that may fail is the set of its results, empty or of
one element. `id` stands for all columns whose text is their value.

`Batch` receives rows under the settings of a session (`Receive`, which drops a row that does not parse),
turns them into jobs and submits them (`ToJob`, `Submit`), then steps through the two loops of
`mapResults`, one action per iteration, over every answer of bounded length: repeated and unknown ids, wrong
counts, any order, rejections with and without a reason. `InsertDLQRows` is what the rejected rows become.
The text of an error is left out. `received` and `dropped` are history variables. `Delivery` has the same batch
with all of its failures and none of its contents.

### Setup and the code

`Setup` executes the statements of `runCreate` and `runDestroy` one by one; any command may be cut
off between two (`CreateStops`, `DestroyStops`) and followed by any other, of any role. `Checked` is what `checkPrivileges` asks for.
What PostgreSQL asks for is external: the privileges of each statement (`Needs`), and the ownership of `jobs`, `dlq` and
`partition_meta` where a statement uses a table that is there (`NeedsToOwn`; the owner stands for everyone with `INSERT` on
`partition_meta`). Who creates an object owns it. `destroy` may fail at its first two
statements, which it ignores (`DestroyIgnores`), and ends at a table of another role (`DestroyDenied`). `AdminPublishes` is the role that manages the publication under
`--skip-publication`. `Maintain` is a whole pass of `createPartitions`. The database of a `--replica` run is
the same one: this allows more than separate ones. The history variable `leftovers` records the four ways in
which a command leaves something that a later `create` does not put right: a `"slot"` or a `"publication"` that
`destroy` could not drop, `"partition_meta"` when `destroy` ended after `jobs`, and `"slot first"` when
`--skip-publication` made a slot while there was no publication. The properties name the leftovers they depend
on, and so say that there is no fifth way.

## Runs

| Run | Instance | Checks | Result |
|---|---|---|---|
| `delivery_safety` | 2 replicas, 2 rows, 3 transactions, 2 failures, `MaxSpill = 0`, a Commit may fail to decode | `TypeOK`, `NoLoss`, `ConfirmedBehindCursor`, `DLQBehindCursor`, `BatchDeadline`, `DeliveryInv`, `CursorMonotone`, `ImplementsOutbox` | hold |
| `delivery_liveness` | 2 replicas, 3 rows (one malformed) in 2 partitions, 2 transactions, 1 failure, a Begin may fail to decode, fairness | `OnlyMalformedDropped`, `NoDuplicateWithoutFailure`, `EventuallyHandled`, `SlotCatchesUp` | hold |
| `delivery_spill_loss` | 1 replica, 1 failure, `MaxSpill = 1`, fairness | `EventuallyHandled` | violated, see findings |
| `delivery_dlq_limit` | 1 replica, no failure, a transaction of 2 rows and a DLQ statement of 1, fairness | `EventuallyHandled` | violated, see findings |
| `leadership` | 2 replicas, 2 failures, fairness (`DLQCleanup` with `Leadership`) | `TypeOK`, `FirstWakePending`, `StaleLeaderYields`, `LeaderMaintains`, `SlotTaken`, `ShutdownCompletes`, `ExpiredPruned` | hold |
| `leadership_slot` | 2 replicas, 1 failure | `MaintenanceHoldsSlot` | violated, see findings |
| `reconnect` | 2 drivers, delays 1 to 3, poll 1 ± 1, 4 failures, 12 time units | `TakeoverBounded`, `IdleBounded` | hold |
| `partitions` | 2 maintainers and `pglg-setup`, interval = hour, 1 failure, 6 time units, fairness | `TypeOK`, `MetaTrue`, `LookAheadCovered`, `KeptForRetention`, `ExpiredDropped` | hold |
| `replica_partitions` | 2 maintainers, 1 replica, rows of any age, 1 failure, 5 time units, fairness | `ReplicaCovered`, `ReplicaKeepsRecent`, `ReplicaExpiredDropped` | hold |
| `replica_catch_up` | 1 maintainer, 1 replica, 1 failure or back-fill, 5 time units, fairness | `ReplicaKeepsPending` | violated, see findings |
| `batch` | up to 3 inserts and 3 results, 4 rows (one with an infinite `run_at`), 3 zones (one with a change of clocks, one with minutes), 2 date styles, 2 bytea formats, 2 column orders | `EveryInsertAnswered`, `GoodAnswerAccepted`, `RowsAreTheRejected`, `JobIsTheRow`, `DLQRowIsTheRow`, `DroppedUnreadable` | hold |
| `setup` | 4 commands of 2 roles, 2 interruptions, every set of privileges of each | `SlotDecodes`, `SetupUsable`, `TeardownComplete`, `MaintainedCovered`, `PrivilegesSuffice` | hold |

**Bounds.** Two replicas are what it takes for a stale session to meet its successor. Two rows and
three transactions give batches of one and of two transactions, a batch filled by size and one
flushed by its timer, empty transactions between the others, and a transaction that arrives behind
a batch. `MaxBatchSize = 2` makes both flush conditions happen and `MaxDLQRows = 1` in `delivery_safety`
makes a refused DLQ statement happen. With two failures a session can lose the slot and its
successor fail as well. `MaxSpill = 1` in `delivery_spill_loss` is the shortest overrun; that `DeliveryInv` holds with overruns
and with every kind of message undecodable at once rests on its theorem. `MaxLog` and `MaxFaults` are the
only bounds in guards; the proofs do not depend on their values. `delivery_safety` treats replicas
and rows as interchangeable, `reconnect` drivers and `setup` roles; these have no liveness property. The deadlock check is off where the system
may come to rest: all processes may have stopped (`leadership`, `reconnect`), or a
sequential program has ended (`batch`, `setup`).

In the partition runs an interval and an hour are two units, so that times lie inside partitions, and the
look-ahead is not a multiple of it in `partitions`; the clock runs far enough for the first
partitions to expire during a later pass (on the replica the retention is one unit, so that it takes
fewer). One failure is enough to interrupt `pglg-setup` or to lose the answer of a commit. In `reconnect` the
backoff reaches its maximum at the third failure. Three inserts are the least with a result out of place that
is not the swap of two. Four commands of `pglg-setup` are create, destroy, create, and one more that finds
what these left.

**Fairness.** Weak fairness for what the goroutine of `Run` does on its own: the goroutine is
scheduled, its timers fire, jack and the database answer, the server sends what it has read.
Weak fairness for `ReleaseSlot`: the server notices a closed connection (TCP or
`wal_sender_timeout`). Failures are not fair, and finite: a driver whose every submit fails delivers
nothing. In `Leadership` the exit of the maintenance goroutine has strong fairness, since Go
chooses at random among the ready cases of a select and so does not pass over a done context
for ever. The ticker of `dlqCleanup` fires and its statements return (weak fairness). `Partitions` and `ReplicaPartitions` have weak
fairness for the steps of a pass: the ticker starts passes again and again, and a pass goes on. An uninterrupted
`pglg-setup` goes on, and the walsender of a connected replica sends rows, or keepalives when there are none.

## Findings

1. **A position that was not received can be persisted** (`delivery_spill_loss`, `wal.go:153`).
   `WALStart + len(message)` can exceed the start of the next commit record, for instance after a
   Commit message, whose `WALStart` is the end of its commit record, when another transaction's
   commit record follows directly. If the standby timer fires before that transaction
   arrives, the idle flush persists the position and a session that restarts there is never sent the
   transaction. `DeliveryInv` shows that this is the only way to lose a row.
2. **A large transaction of rejected rows blocks the slot** (`delivery_dlq_limit`, `dlq.go:103`).
   More rejected rows than one statement has parameters for make the flush roll back; the session
   starts again at the same cursor and meets the same batch.
3. **Maintenance runs on a replica that does not hold the slot** (`leadership_slot`,
   `partition.go:13`). `isLeader` outlives the slot until the next attempt finds it busy, and the
   first pass after a wake does not look at it.
4. **Back-filled partitions of a replica are dropped before their rows are applied** (`replica_catch_up`,
   `partition.go:397`). `pglg-setup --create-partitions` is there "so the apply worker can drain WAL referencing partitions
   the primary has already dropped" (`pglg-setup/main.go:41`). The driver counts the retention of a replica from
   `last_msg_send_time`, which is the present for a replica that is connected and behind; its next pass drops the partitions
   that were just created. What does hold is `ReplicaKeepsRecent`: the retention stands still while the replica hears nothing.

## Limits the models show

The properties of the newer modules hold under conditions, which are part of their statement or of the instance.
What happens outside of them was established with the same modules; changing the constant named shows it.

- *A partition interval other than one hour* (`Hour` other than `PartitionInterval` in `partitions`): the hour that
  `pglg-setup` creates overlaps the driver's grid, a pass returns at the first overlap (`partition.go:121-131`), and
  `LookAheadCovered` fails until a pass starts after that hour.
- *A setup that stops between its two statements* (`pglg-setup/main.go:234-243`) and does not run again within the hour
  leaves a partition that is attached and not registered. The driver drops what is registered: `ExpiredDropped` speaks
  of rows of `partition_meta`.
- *A database that another role has set up* (`pglg-setup/main.go:128`): `checkPrivileges` does not look at the owners of tables that
  are there. `create` then stops at the publication, the DLQ, the initial partition or its metadata, with what came before
  left in place. `PrivilegesSuffice` says that this is the only way; with one role in `Roles` no statement is ever denied.
- *`destroy`* (`pglg-setup/main.go:277-295`) ignores that a slot is in use or a publication is another's. A slot that stays
  holds back WAL and is older than the next publication; a publication that stays loses its table with `jobs` and
  is kept by the next `create`. If `destroy` ends between `jobs` and `partition_meta`, the rows that stay keep the driver from creating
  the partitions they name. `--skip-publication` on a fresh database makes the slot before a publication FOR TABLE can
  exist. These are the `leftovers` of `Setup`.
- *Settings of the server* (`wal_parser.go:165-192`): under a date style other than ISO or in a time zone with minutes no row parses,
  and under all settings a `run_at` that is infinite, before our era or past the year 9999 makes its row unparseable
  (`DroppedUnreadable`); under `bytea_output = escape` payloads with a backslash or a byte outside ASCII change (`Decoded`
  in `JobIsTheRow`). The replication connection sets none of them.
- *The backoff is never reset* (`backoff.go:28` has no caller): after a few failures in the life of the process every wait
  is the maximum. `TakeoverBounded` shows that a polling standby makes up for it, `IdleBounded` what it costs without one.
- *`Role()` after `Run`* (`driver.go:386`): cancelled in a backoff, `Run` returns without `relinquishLeadership` and `isLeader` stays
  true (`ReturnFromWait`).

## Proofs

Every theorem holds for all values of the constants of its module; the named assumptions there, and the hypotheses
stated with a theorem, are all that is used. Each inductive invariant was checked with TLC on an instance first.

| Theorem | Property | Hypothesis |
|---|---|---|
| `DeliveryProofs`: `TypeCorrect`, `InvariantHolds` | `TypeOK`, `DeliveryInv` | |
| `OnlySpillLoses`, `SlotBehindCursor`, `CursorNeverBack`, `BatchesHaveDeadline` | `NoUnclaimedLoss`, `ConfirmedBehindCursor`, `CursorMonotone`, `BatchDeadline` | |
| `OnlyMalformed`, `RowsPlaced`, `DLQRowsPassed` | `OnlyMalformedDropped`, `PlacedInv`, `DLQBehindCursor` | |
| `AtLeastOnce`, `DeliveryImplementsOutbox` | `NoLoss`, `ImplementsOutbox` | `MaxSpill = 0` |
| `NoDuplicates` | `NoDuplicateWithoutFailure` | a DLQ statement can carry all rows |
| `LeadershipProofs`: `TypeCorrect`, `WakeNotLost` | `TypeOK`, `FirstWakePending` | |
| `PartitionsProofs`: `TypesHold` | `TypeOK` | |
| `MetaIsTrue`, `RetentionKept`, `LookAheadIsCovered` | `MetaTrue`, `KeptForRetention`, `LookAheadCovered` | `Aligned` |
| `ReplicaPartitionsProofs`: `ReplicaIsCovered`, `RecentKept` | `ReplicaCovered`, `ReplicaKeepsRecent` | `Aligned` |
| `BatchProofs`: `AcceptedIsOneToOne`, `GoodAnswers`, `RejectedRows` | `EveryInsertAnswered`, `GoodAnswerAccepted`, `RowsAreTheRejected` | |
| `OnlyUnreadableDropped`, `JobsAreRows`, `DLQKeepsRows` | `DroppedUnreadable`, `JobIsTheRow`, `DLQRowIsTheRow` | |
| `ReconnectProofs`: `TakeoverIsBounded`, `IdleIsBounded` | `TakeoverBounded`, `IdleBounded` | |
| `SetupProofs`: `DeniedByOwnership`, `SlotAlwaysDecodes`, `CompleteIsUsable`, `TeardownIsComplete`, `PassCovers` | `PrivilegesSuffice`, `SlotDecodes`, `SetupUsable`, `TeardownComplete`, `MaintainedCovered` | |

The hypotheses are conditions of the program, and none can be left out: `MaxSpill = 0` and the statement limit are
findings 1 and 2 (a refused statement resubmits rows without any failure), the interval is in the list above. `Aligned` says that
the driver's partitions have the length of the one `pglg-setup` creates, an hour, and begin on whole minutes, which
is the default configuration.

**Delivery.** That no row behind the cursor is lost is not inductive: when a flush moves the cursor to
`pendingCommitLSN`, the rows below have to be in the batch (`BatchHeld`) and the batch has to be accepted or rejected
(`ResultsKnown`); when an idle flush moves it to `clientXLogPos`, everything that was sent has to be done
with (`SentHeld`, with nothing pending) and what was not sent has to be recorded in `overclaimed`
(`SpillBound`). `TxHeld` carries the transaction in flight, `SessionBehindCursor` links what sessions
start from and report to the cursor, so that a slot that is ahead of a session's start never
skips an unhandled row. Together they are `DeliveryInv`.

The proof that a step preserves it has two frame lemmas: every step only adds to the log,
to what is handled and to the cursor (`StepGrows`), and a step of one replica leaves the session
of every other alone (`OthersUntouched`). `SessionFrame` turns them into: the part of the invariant
about the other sessions is preserved. Each action is then a case about one session and the shared state.

The later theorems have invariants of their own on top of it. `BatchesHaveDeadline` needs `Armed`. `OnlyMalformed`, whose property speaks of the case that every Relation and Insert decodes, needs
that a session knows every relation its walsender has sent (`RelationsKnown`). `PlacedInv` is the converse of `DeliveryInv`:
not that what is in the log is held, but that what is held is in the log, below the session's positions, and
in one transaction only (`RowsOnce`); `DLQBehindCursor` follows because DLQ rows and cursor move in one step.
`NoDuplicates` needs `FreshInv`: before the first failure only the holder of the slot has a session, the first there is, and no
row it is still to submit has been accepted or dead-lettered or is held twice. The refinement maps `done` to `Handled` and `mark` to
`cursor`; it needs `DeliveryInv` and that every row a session holds is from the log (`FromLog`).

**Leadership.** `FirstWakePending` is inductive with the type invariant.

**Partitions.** `Aligned` makes a name determine its bounds (`NameDecides`, from the uniqueness of quotient and remainder), so
`IF NOT EXISTS`, which looks at names, and the overlap check, which looks at bounds, agree: a create is never refused
(`NeverRefused`) and afterwards the partition is there (`ThereAfter`). `MetaTrue` is inductive with `AllOnGrid` and `SetupAttached`: between
its two statements `pglg-setup` has an attached table that no pass can drop, since its hour is not over. For
`LookAheadCovered` the loop needs `PassCovered`, what it has passed so far and is younger than the retention is
covered, which other passes preserve because a drop takes nothing younger (`CoveredKept`).

**ReplicaPartitions.** The same argument, but the pass skips what it has listed earlier, and another driver may have dropped it since.
`ListedOrExpired` says what is left of a stale list: a name in it is there or so old that nothing younger
than the retention is in its partition. `RecentKept` rests on `DropsHeard`: what a driver has selected ended a retention before
the last message the replica has received, also when the worker has stopped or received more since.

**Batch.** `Progress` says what is known at each iteration of the two loops: `insertByID` is the index of the inserts so far, `seen`
the ids of the results so far, all different and all of inserts, `rows` the rejected among them in order. That an accepted answer leaves
no insert out is then counting (`DistinctCount`): as many different ids as there are inserts, all among their ids. Nothing of this depends on the parser.

What the parser returns is a loop over the columns, written as a recursive function. `ParsedAfter` is an explicit form of it, every field has
the value of its own column once that is passed and there is no result once a column failed; it satisfies the equation of the loop
(`ParsedStep`), and a least number of columns where the two differ cannot exist (`ParseIs`). `TimestampRoundTrip`
and `ByteaRoundTrip` say what happens to one value. `ContentInv` carries this from the rows received to the inserts, the rows of
`mapResults` and the DLQ. The assumptions are those of `Batch`: columns have the types and the `NOT NULL` of `sql/001_create_outbox.sql`, a
relation has the columns of its rows, pgoutput marks NULL apart from every text, and a zone has an offset for every time of the rows. An infinite timestamp is the one value that no
layout accepts (`InfinityUnread`).

**Reconnect.** Bounds on `wakeAt` in every wait (`BusyWakes`, `BackoffWakes`), and that an attempt takes place at the time its
wait ended (`AttemptsPrompt`): time does not pass a timer that is due. That nothing else is needed, in particular nothing about who
streams, is why the bounds survive a slot that is freed late or lost. `IdleBounded` leaves out the driver that has
not noticed the loss yet, for which the code has no bound.

**Setup.** `SetupInv` says for the command that runs what it has passed (`CreatedSoFar`, `DestroyedSoFar`) in terms of the statements it has left, with
the order between statements it relies on (`InOrder`) and the privileges it has (`Privileged`), and for all earlier ones what they left behind. The theorems
about `leftovers` are therefore complete: there is no further way to an unusable state.

**Only model-checked.** The liveness properties, since fairness is out of the prover's reach: `EventuallyHandled`, `SlotCatchesUp`,
`StaleLeaderYields`, `LeaderMaintains`, `SlotTaken`, `ShutdownCompletes`, `ExpiredPruned`, `ExpiredDropped` and `ReplicaExpiredDropped`.
Every safety property that a passing run checks is proved.

## Not modelled

- Configuration (`setDefaults`, `validate`, `ConfigFromEnv`): every field is defaulted, read or checked on its own and
  once; a model would repeat the assignments. That intervals are positive enters the modules as assumptions.
- `New`'s and `Run`'s handling of connection pools: sequential opening and closing without a state of its own;
  closing waits for connections inside pgxpool, which is outside the repository.
- Metrics, `leaderHeartbeat`, `emitPartitionMetrics`, logging: output only.
- `pglg-bench`: a load generator whose loop, statistics and output no other part depends on.
- Flags of `pglg-setup`, decimal ids, the text and truncation of error messages, the wire format of pgoutput, connection strings.
- Partition intervals below a minute, whose names collide: the models have the resolution of names (`Minute`), the
  runs use intervals of at least that.

## Plan

The system is modelled as far as the list above, and every safety property of the passing runs is proved. What is left:

1. `Leadership`: what each state of the loop of `Run` implies for `isLeader` and the slot, as the safety core of `StaleLeaderYields`
   and `SlotTaken`.
2. `DLQCleanup` and the liveness properties: the invariants and the steps they rest on (that a pass of `Partitions` drops all that has expired
   when it began), as far as they can be said without fairness.
