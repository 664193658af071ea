------------------------------ MODULE Delivery ------------------------------
(***************************************************************************)
(* The delivery path of the courier driver: replicas of the driver compete *)
(* for one logical replication slot (Run, runOnce), the one that holds it  *)
(* receives committed outbox rows from the walsender (receiveMessage,      *)
(* processWALStream), submits them to jack in batches (flushBatch) and     *)
(* records its progress in the cursor table and its rejections in the DLQ  *)
(* in one transaction (persistFlushResult).                                *)
(*                                                                         *)
(* WAL positions.  log is the sequence of committed transactions in commit *)
(* order, each the set of outbox rows it inserted ({}: WAL that holds      *)
(* nothing of the publication).  An LSN is the number of commit records    *)
(* that start below it, so START_REPLICATION at s skips log[i] for i <= s  *)
(* and the end of transaction i is the LSN i.                              *)
(***************************************************************************)
EXTENDS Integers, Sequences, FiniteSets

CONSTANTS
    Drivers,       \* the replicas of the courier
    NoDriver,      \* the slot is free
    Rows,          \* outbox rows
    Relations,     \* the partitions of the outbox table
    RelationOf,    \* the partition each row is stored in
    Malformed,     \* rows parseInsertColumns rejects
    Undecodable,   \* message kinds parseWALMessage may fail on
    MaxBatchSize,  \* Config.MaxBatchSize
    MaxDLQRows,    \* rows one DLQ statement can carry: 65535 / 10 parameters
    MaxSpill,      \* commit records below WALStart + len(message), past the message's own
    MaxLog,        \* bound: transactions committed
    MaxFaults      \* bound: failures

ASSUME DriversAssumption == NoDriver \notin Drivers
ASSUME RowsAssumption == Malformed \subseteq Rows /\ RelationOf \in [Rows -> Relations]
ASSUME FiniteAssumption == IsFiniteSet(Rows)
ASSUME BatchAssumption == MaxBatchSize \in Nat \ {0} /\ MaxDLQRows \in Nat
ASSUME SpillAssumption == MaxSpill \in Nat
ASSUME BoundAssumption == MaxLog \in Nat /\ MaxFaults \in Nat

VARIABLES
    \* PostgreSQL and jack
    log,               \* committed transactions, in commit order
    cursor,            \* last_lsn of {prefix}_cursor, 0 when there is no row
    dlq,               \* rows with a record in {prefix}_dlq
    active,            \* the driver whose walsender holds the slot
    confirmed,         \* confirmed_flush_lsn of the slot
    accepted,          \* rows jack has accepted
    \* the walsender of each driver
    sentPos,           \* transactions decoded and sent
    sendingTx,         \* is sending the messages of log[sentPos + 1]
    unsent,            \* rows of that transaction not sent yet
    sentRelations,     \* partitions whose Relation message has been sent
    \* walConsumer
    relations, clientXLogPos, flushLSN,
    \* the locals of processWALStream
    buf, pendingInserts, pendingCommitLSN, inTx,
    nextBatchAt,       \* the batch timer is set
    \* control of Run, runOnce and flushBatch
    pc, startLSN,
    rejected,          \* the dlqRows mapResults returned
    \* history and bounds
    dropped,           \* rows processWALStream skipped: unknown relation, or does not parse
    overclaimed,       \* positions an idle flush persisted without having received them
    faults

database  == <<cursor, dlq>>
slot      == <<active, confirmed>>
walsender == <<sentPos, sendingTx, unsent, sentRelations>>
consumer  == <<relations, clientXLogPos, flushLSN>>
batch     == <<buf, pendingInserts, pendingCommitLSN, inTx, nextBatchAt>>
control   == <<pc, startLSN, rejected>>
session   == <<walsender, consumer, batch, control>>
vars      == <<log, database, slot, accepted, session, dropped, overclaimed, faults>>

Kinds == {"Begin", "Relation", "Insert", "Commit"}
Steps == {"readCursor", "startStreaming", "receive", "submit", "persist"}

\* Every row the driver is done with.
Handled == accepted \cup dlq \cup dropped

\* Rows already in the log: ids are GENERATED ALWAYS AS IDENTITY, none returns.
Committed == UNION {log[i] : i \in DOMAIN log}

Later(a, b) == IF a > b THEN a ELSE b

Fault == faults < MaxFaults /\ faults' = faults + 1

-----------------------------------------------------------------------------
(* The walsender and jack are outside the repository.                      *)

\* A client transaction commits with the outbox rows S.
Commit(S) ==
    /\ Len(log) < MaxLog
    /\ S \cap Committed = {}
    /\ log' = Append(log, S)
    /\ UNCHANGED <<database, slot, accepted, session, dropped, overclaimed, faults>>

\* The walsender may move from p to the start of entry i: nothing between to send.
Skips(p, i) == \A j \in (p + 1)..(i - 1) : log[j] = {}

\* The server notices that the connection of d is gone and frees the slot.
ReleaseSlot(d) ==
    /\ active = d
    /\ pc[d] \in {"readCursor", "startStreaming"}
    /\ active' = NoDriver
    /\ UNCHANGED <<log, database, confirmed, accepted, session, dropped, overclaimed, faults>>

\* The server ends a live session (wal_sender_timeout, failover, restart): the
\* slot is free while d still works on what it has received, and confirmed_flush_lsn
\* falls back to the value last saved to disk.
LoseSlot(d) ==
    /\ Fault
    /\ active = d
    /\ pc[d] \notin {"readCursor", "startStreaming"}
    /\ active' = NoDriver
    /\ confirmed' \in 0..confirmed
    /\ UNCHANGED <<log, database, accepted, session, dropped, overclaimed>>

-----------------------------------------------------------------------------
(* Standby status updates.                                                 *)

WriteLSNMutant(client, flush) == Later(client, flush)

\* The write position of standbyStatusUpdate: nothing is claimed before the first flush.
WriteLSN(client, flush) == IF flush = 0 THEN 0 ELSE Later(client, flush)

\* pglogrepl.SendStandbyStatusUpdate replaces a zero flush by the write position.
ReportedFlush(write, flush) == IF flush = 0 THEN write ELSE flush

\* confirmed_flush_lsn after sendStandbyStatus: the message may be lost or come from
\* a dead session; PostgreSQL ignores 0, and before version 18 lets the slot go back.
SendStandbyStatus(d, client, flush) ==
    LET f == ReportedFlush(WriteLSN(client, flush), flush)
    IN  IF active = d /\ f # 0 THEN {confirmed, f, Later(confirmed, f)} ELSE {confirmed}

-----------------------------------------------------------------------------
(* The session: runOnce, startStreaming.                                   *)

\* runOnce returns, with whatever error, and Run starts over once its wait is over:
\* the walConsumer and the locals of processWALStream are gone.
RunOnceReturns(d) ==
    /\ sentPos'          = [sentPos EXCEPT ![d] = 0]
    /\ sendingTx'        = [sendingTx EXCEPT ![d] = FALSE]
    /\ unsent'           = [unsent EXCEPT ![d] = {}]
    /\ sentRelations'    = [sentRelations EXCEPT ![d] = {}]
    /\ relations'        = [relations EXCEPT ![d] = {}]
    /\ clientXLogPos'    = [clientXLogPos EXCEPT ![d] = 0]
    /\ flushLSN'         = [flushLSN EXCEPT ![d] = 0]
    /\ buf'              = [buf EXCEPT ![d] = {}]
    /\ pendingInserts'   = [pendingInserts EXCEPT ![d] = {}]
    /\ pendingCommitLSN' = [pendingCommitLSN EXCEPT ![d] = 0]
    /\ inTx'             = [inTx EXCEPT ![d] = FALSE]
    /\ nextBatchAt'      = [nextBatchAt EXCEPT ![d] = FALSE]
    /\ pc'               = [pc EXCEPT ![d] = "readCursor"]
    /\ startLSN'         = [startLSN EXCEPT ![d] = 0]
    /\ rejected'         = [rejected EXCEPT ![d] = {}]

ReadCursorMutant(d) ==
    /\ pc[d] = "readCursor"
    /\ startLSN' = [startLSN EXCEPT ![d] = cursor - 1]
    /\ pc' = [pc EXCEPT ![d] = "startStreaming"]
    /\ UNCHANGED <<log, database, slot, accepted, walsender, consumer, batch, rejected,
                   dropped, overclaimed, faults>>

ReadCursor(d) ==
    /\ pc[d] = "readCursor"
    /\ startLSN' = [startLSN EXCEPT ![d] = cursor]
    /\ pc' = [pc EXCEPT ![d] = "startStreaming"]
    /\ UNCHANGED <<log, database, slot, accepted, walsender, consumer, batch, rejected,
                   dropped, overclaimed, faults>>

\* START_REPLICATION takes the slot; the walsender starts at the later of the
\* position asked for and confirmed_flush_lsn.  Nothing reads startLSN after that.
StartStreaming(d) ==
    /\ pc[d] = "startStreaming"
    /\ active = NoDriver
    /\ active' = d
    /\ sentPos' = [sentPos EXCEPT ![d] = Later(startLSN[d], confirmed)]
    /\ clientXLogPos' = [clientXLogPos EXCEPT ![d] = startLSN[d]]
    /\ flushLSN' = [flushLSN EXCEPT ![d] = startLSN[d]]
    /\ pendingCommitLSN' = [pendingCommitLSN EXCEPT ![d] = startLSN[d]]
    /\ startLSN' = [startLSN EXCEPT ![d] = 0]
    /\ pc' = [pc EXCEPT ![d] = "receive"]
    /\ UNCHANGED <<log, database, confirmed, accepted, sendingTx, unsent, sentRelations,
                   relations, buf, pendingInserts, inTx, nextBatchAt, rejected,
                   dropped, overclaimed, faults>>

\* errSlotBusy: the slot is active for another walsender.
StartBusy(d) ==
    /\ pc[d] = "startStreaming"
    /\ active # NoDriver
    /\ RunOnceReturns(d)
    /\ UNCHANGED <<log, database, slot, accepted, dropped, overclaimed, faults>>

\* The process of d dies or is cancelled, or a call it makes fails without effect.
\* Its walsender may hold the slot for a while.
Crash(d) ==
    /\ Fault
    /\ pc[d] # "readCursor"
    /\ RunOnceReturns(d)
    /\ UNCHANGED <<log, database, slot, accepted, dropped, overclaimed>>

\* receiveMessage fails on the connection of a session that lost the slot.
ReceiveFails(d) ==
    /\ pc[d] = "receive"
    /\ active # d
    /\ RunOnceReturns(d)
    /\ UNCHANGED <<log, database, slot, accepted, dropped, overclaimed, faults>>

-----------------------------------------------------------------------------
(* receiveMessage and the message switch of processWALStream.  A session   *)
(* that lost the slot may still find messages in its socket.               *)

\* clientXLogPos moves to endPos = WALStart + len(WALData), an LSN in lo..hi.
Receives(d, lo, hi) ==
    \E endPos \in lo..hi : clientXLogPos' = [clientXLogPos EXCEPT ![d] = Later(@, endPos)]

\* Whether parseWALMessage decodes a message of the kind; if not it is skipped.
Decodes(kind) == IF kind \in Undecodable THEN BOOLEAN ELSE {TRUE}

RecvBegin(d) ==
    /\ pc[d] = "receive"
    /\ ~sendingTx[d]
    /\ \E i \in (sentPos[d] + 1)..Len(log) :
          /\ Skips(sentPos[d], i)
          /\ sentPos' = [sentPos EXCEPT ![d] = i - 1]
          /\ unsent' = [unsent EXCEPT ![d] = log[i]]
          /\ Receives(d, 0, i - 1 + MaxSpill)
    /\ sendingTx' = [sendingTx EXCEPT ![d] = TRUE]
    /\ \E ok \in Decodes("Begin") : inTx' = [inTx EXCEPT ![d] = @ \/ ok]
    /\ UNCHANGED <<log, database, slot, accepted, sentRelations, relations, flushLSN,
                   buf, pendingInserts, pendingCommitLSN, nextBatchAt, control,
                   dropped, overclaimed, faults>>

SetRelationMutant(known, rel) == {rel}

\* setRelation: what the session knows after a Relation message.
SetRelation(known, rel) == known \cup {rel}

\* Sent once per session and partition, before its first Insert.
RecvRelation(d) ==
    /\ pc[d] = "receive"
    /\ \E rel \in {RelationOf[r] : r \in unsent[d]} \ sentRelations[d] :
          /\ sentRelations' = [sentRelations EXCEPT ![d] = @ \cup {rel}]
          /\ \E ok \in Decodes("Relation") :
                relations' = [relations EXCEPT ![d] = IF ok THEN SetRelation(@, rel) ELSE @]
    /\ Receives(d, 0, sentPos[d] + MaxSpill)
    /\ UNCHANGED <<log, database, slot, accepted, sentPos, sendingTx, unsent, flushLSN,
                   batch, control, dropped, overclaimed, faults>>

\* parseInsert yields a job: the relation is known and every column parses.
Parses(d, r) == RelationOf[r] \in relations[d] /\ r \notin Malformed

RecvInsert(d) ==
    /\ pc[d] = "receive"
    /\ \E r \in unsent[d] :
          /\ RelationOf[r] \in sentRelations[d]
          /\ unsent' = [unsent EXCEPT ![d] = @ \ {r}]
          /\ \E ok \in Decodes("Insert") :
                IF ok /\ Parses(d, r)
                THEN buf' = [buf EXCEPT ![d] = @ \cup {r}] /\ UNCHANGED dropped
                ELSE dropped' = dropped \cup {r} /\ UNCHANGED buf
    /\ Receives(d, 0, sentPos[d] + MaxSpill)
    /\ UNCHANGED <<log, database, slot, accepted, sentPos, sendingTx, sentRelations,
                   relations, flushLSN, pendingInserts, pendingCommitLSN, inTx,
                   nextBatchAt, control, overclaimed, faults>>

ArmsMutant(d) == pendingInserts[d] = {} /\ buf[d] = {}

\* The commit sets the batch timer: it brings the first rows of a batch.
Arms(d) == pendingInserts[d] = {} /\ buf[d] # {}

\* The walCommit case: the transaction joins the batch, and a full batch is flushed.
BatchCommit(d, commitLSN) ==
    LET pending == pendingInserts[d] \cup buf[d]
    IN  /\ pendingInserts' = [pendingInserts EXCEPT ![d] = pending]
        /\ pendingCommitLSN' = [pendingCommitLSN EXCEPT ![d] = Later(@, commitLSN)]
        /\ buf' = [buf EXCEPT ![d] = {}]
        /\ inTx' = [inTx EXCEPT ![d] = FALSE]
        /\ nextBatchAt' = [nextBatchAt EXCEPT ![d] = @ \/ Arms(d)]
        /\ pc' = [pc EXCEPT ![d] = IF Cardinality(pending) >= MaxBatchSize
                                   THEN "submit" ELSE @]

RecvCommit(d) ==
    /\ pc[d] = "receive"
    /\ sendingTx[d]
    /\ unsent[d] = {}
    /\ sentPos' = [sentPos EXCEPT ![d] = @ + 1]
    /\ sendingTx' = [sendingTx EXCEPT ![d] = FALSE]
    /\ Receives(d, sentPos[d] + 1, sentPos[d] + 1 + MaxSpill)
    /\ \E ok \in Decodes("Commit") :
          IF ok THEN BatchCommit(d, sentPos[d] + 1) ELSE UNCHANGED <<batch, pc>>
    /\ UNCHANGED <<log, database, slot, accepted, unsent, sentRelations, relations, flushLSN,
                   startLSN, rejected, dropped, overclaimed, faults>>

\* A keepalive carries how far the walsender has read; it may ask for a status update.
RecvKeepalive(d) ==
    /\ pc[d] = "receive"
    /\ \E walEnd \in sentPos[d]..Len(log) :
          /\ sendingTx[d] => walEnd = sentPos[d]
          /\ Skips(sentPos[d], walEnd + 1)
          /\ sentPos' = [sentPos EXCEPT ![d] = walEnd]
          /\ Receives(d, walEnd, walEnd)
    /\ confirmed' \in SendStandbyStatus(d, clientXLogPos'[d], flushLSN[d])
    /\ UNCHANGED <<log, database, active, accepted, sendingTx, unsent, sentRelations,
                   relations, flushLSN, batch, control, dropped, overclaimed, faults>>

-----------------------------------------------------------------------------
(* The timers of processWALStream, flushBatch and persistFlushResult.      *)

WriteCursorMutant(l) == cursor' = l

\* writeCursorTx: the update is guarded, so the cursor never goes back.
WriteCursor(l) == cursor' = Later(cursor, l)

\* One transaction: the rejected rows go to the DLQ and the cursor advances.
PersistFlushResult(rows, l) == dlq' = dlq \cup rows /\ WriteCursor(l)

\* The batch deadline passed.
BatchTimeout(d) ==
    /\ pc[d] = "receive"
    /\ nextBatchAt[d]
    /\ IF pendingInserts[d] # {}
       THEN pc' = [pc EXCEPT ![d] = "submit"] /\ UNCHANGED nextBatchAt
       ELSE nextBatchAt' = [nextBatchAt EXCEPT ![d] = FALSE] /\ UNCHANGED pc
    /\ UNCHANGED <<log, database, slot, accepted, walsender, consumer, buf, pendingInserts,
                   pendingCommitLSN, inTx, startLSN, rejected, dropped, overclaimed, faults>>

\* What mapResults may return: jack rejects any of the jobs, in any order, and a
\* consistent answer names each job once.
MapResults(d) == SUBSET pendingInserts[d]

\* jack answers: each job is accepted or rejected, and mapResults returns the latter.
SubmitSucceeds(d) ==
    /\ pc[d] = "submit"
    /\ \E rej \in MapResults(d) :
          /\ accepted' = accepted \cup (pendingInserts[d] \ rej)
          /\ rejected' = [rejected EXCEPT ![d] = rej]
    /\ pc' = [pc EXCEPT ![d] = "persist"]
    /\ UNCHANGED <<log, database, slot, walsender, consumer, batch, startLSN,
                   dropped, overclaimed, faults>>

\* submit fails, or mapResults finds the answer inconsistent: jack may have
\* accepted some of the jobs.
SubmitFails(d) ==
    /\ Fault
    /\ pc[d] = "submit"
    /\ \E got \in SUBSET pendingInserts[d] : accepted' = accepted \cup got
    /\ RunOnceReturns(d)
    /\ UNCHANGED <<log, database, slot, dropped, overclaimed>>

FlushedLSNMutant(d) == clientXLogPos[d]

\* The position a flush persists: the end of the last transaction of the batch.
FlushedLSN(d) == pendingCommitLSN[d]

ClearsBatchMutant(d) ==
    /\ pendingInserts' = pendingInserts
    /\ nextBatchAt' = [nextBatchAt EXCEPT ![d] = FALSE]

\* What processWALStream does after flushBatch.
ClearsBatch(d) ==
    /\ pendingInserts' = [pendingInserts EXCEPT ![d] = {}]
    /\ nextBatchAt' = [nextBatchAt EXCEPT ![d] = FALSE]

\* insertDLQRows builds one statement, which carries a bounded number of rows.
FitsDLQ(d) == Cardinality(rejected[d]) <= MaxDLQRows

Persist(d) ==
    /\ pc[d] = "persist"
    /\ FitsDLQ(d)
    /\ PersistFlushResult(rejected[d], FlushedLSN(d))
    /\ flushLSN' = [flushLSN EXCEPT ![d] = Later(@, FlushedLSN(d))]
    /\ confirmed' \in SendStandbyStatus(d, clientXLogPos[d], flushLSN'[d])
    /\ ClearsBatch(d)
    /\ pc' = [pc EXCEPT ![d] = "receive"]
    /\ rejected' = [rejected EXCEPT ![d] = {}]
    /\ UNCHANGED <<log, active, accepted, walsender, relations, clientXLogPos, buf,
                   pendingCommitLSN, inTx, startLSN, dropped, overclaimed, faults>>

PersistAbortsMutant(d) ==
    /\ Fault
    /\ pc[d] = "persist"
    /\ FitsDLQ(d)
    /\ dlq' = dlq \cup rejected[d]
    /\ RunOnceReturns(d)
    /\ UNCHANGED <<log, cursor, slot, accepted, dropped, overclaimed>>

\* The transaction commits but its answer is lost: the session ends all the same.
PersistAborts(d) ==
    /\ Fault
    /\ pc[d] = "persist"
    /\ FitsDLQ(d)
    /\ PersistFlushResult(rejected[d], FlushedLSN(d))
    /\ RunOnceReturns(d)
    /\ UNCHANGED <<log, slot, accepted, dropped, overclaimed>>

\* The DLQ statement has too many parameters: the transaction rolls back.
PersistRefused(d) ==
    /\ pc[d] = "persist"
    /\ ~FitsDLQ(d)
    /\ RunOnceReturns(d)
    /\ UNCHANGED <<log, database, slot, accepted, dropped, overclaimed, faults>>

CanAdvanceIdleFlushMutant(d) == buf[d] = {} /\ ~inTx[d]

CanAdvanceIdleFlush(d) == pendingInserts[d] = {} /\ buf[d] = {} /\ ~inTx[d]

ReceivedPastFlushMutant(d) == clientXLogPos[d] > flushLSN[d] + 1

ReceivedPastFlush(d) == clientXLogPos[d] > flushLSN[d]

IdleFlush(d) == CanAdvanceIdleFlush(d) /\ ReceivedPastFlush(d)

\* The idle flush persists writePos(), whether or not what lies below it was received.
PersistWritePos(d) ==
    /\ PersistFlushResult({}, clientXLogPos[d])
    /\ overclaimed' = overclaimed \cup (sentPos[d] + 1)..clientXLogPos[d]

\* The standby timer: an idle session advances the cursor to what it received,
\* and every session reports its position.
StandbyTick(d) ==
    /\ pc[d] = "receive"
    /\ IF IdleFlush(d)
       THEN /\ PersistWritePos(d)
            /\ flushLSN' = [flushLSN EXCEPT ![d] = clientXLogPos[d]]
       ELSE UNCHANGED <<database, overclaimed, flushLSN>>
    /\ confirmed' \in SendStandbyStatus(d, clientXLogPos[d], flushLSN'[d])
    /\ UNCHANGED <<log, active, accepted, walsender, relations, clientXLogPos, batch,
                   control, dropped, faults>>

\* The idle flush commits, but its answer is lost or the status update after it fails.
TickAborts(d) ==
    /\ Fault
    /\ pc[d] = "receive"
    /\ IdleFlush(d)
    /\ PersistWritePos(d)
    /\ RunOnceReturns(d)
    /\ UNCHANGED <<log, slot, accepted, dropped>>

-----------------------------------------------------------------------------
Init ==
    /\ log = <<>>
    /\ cursor = 0
    /\ dlq = {}
    /\ active = NoDriver
    /\ confirmed = 0
    /\ accepted = {}
    /\ sentPos = [d \in Drivers |-> 0]
    /\ sendingTx = [d \in Drivers |-> FALSE]
    /\ unsent = [d \in Drivers |-> {}]
    /\ sentRelations = [d \in Drivers |-> {}]
    /\ relations = [d \in Drivers |-> {}]
    /\ clientXLogPos = [d \in Drivers |-> 0]
    /\ flushLSN = [d \in Drivers |-> 0]
    /\ buf = [d \in Drivers |-> {}]
    /\ pendingInserts = [d \in Drivers |-> {}]
    /\ pendingCommitLSN = [d \in Drivers |-> 0]
    /\ inTx = [d \in Drivers |-> FALSE]
    /\ nextBatchAt = [d \in Drivers |-> FALSE]
    /\ pc = [d \in Drivers |-> "readCursor"]
    /\ startLSN = [d \in Drivers |-> 0]
    /\ rejected = [d \in Drivers |-> {}]
    /\ dropped = {}
    /\ overclaimed = {}
    /\ faults = 0

Receive(d) ==
    RecvBegin(d) \/ RecvRelation(d) \/ RecvInsert(d) \/ RecvCommit(d) \/ RecvKeepalive(d)

\* What the goroutine of Run does on its own, the server delivering.
Step(d) ==
    \/ ReadCursor(d) \/ StartStreaming(d) \/ StartBusy(d) \/ ReceiveFails(d)
    \/ Receive(d)
    \/ BatchTimeout(d) \/ SubmitSucceeds(d) \/ Persist(d) \/ PersistRefused(d)
    \/ StandbyTick(d)

Failure(d) ==
    Crash(d) \/ LoseSlot(d) \/ SubmitFails(d) \/ PersistAborts(d) \/ TickAborts(d)

Next ==
    \/ \E S \in SUBSET Rows : Commit(S)
    \/ \E d \in Drivers : Step(d) \/ ReleaseSlot(d) \/ Failure(d)

Spec == Init /\ [][Next]_vars

\* The goroutine of Run is scheduled and its timers fire, the server delivers what it
\* has read and notices a closed connection; failures are finitely many (MaxFaults).
Fairness == \A d \in Drivers : WF_vars(Step(d)) /\ WF_vars(ReleaseSlot(d))

FairSpec == Spec /\ Fairness

-----------------------------------------------------------------------------
(* Properties.                                                             *)

\* The types of the state: positions are LSNs, batches hold outbox rows.
TypeOK ==
    /\ log \in Seq(SUBSET Rows)
    /\ cursor \in Nat /\ confirmed \in Nat /\ faults \in Nat
    /\ dlq \subseteq Rows /\ accepted \subseteq Rows /\ dropped \subseteq Rows
    /\ active \in Drivers \cup {NoDriver}
    /\ overclaimed \subseteq Nat
    /\ sentPos \in [Drivers -> Nat]
    /\ sendingTx \in [Drivers -> BOOLEAN]
    /\ unsent \in [Drivers -> SUBSET Rows]
    /\ sentRelations \in [Drivers -> SUBSET Relations]
    /\ relations \in [Drivers -> SUBSET Relations]
    /\ clientXLogPos \in [Drivers -> Nat]
    /\ flushLSN \in [Drivers -> Nat]
    /\ buf \in [Drivers -> SUBSET Rows]
    /\ pendingInserts \in [Drivers -> SUBSET Rows]
    /\ pendingCommitLSN \in [Drivers -> Nat]
    /\ inTx \in [Drivers -> BOOLEAN]
    /\ nextBatchAt \in [Drivers -> BOOLEAN]
    /\ pc \in [Drivers -> Steps]
    /\ startLSN \in [Drivers -> Nat]
    /\ rejected \in [Drivers -> SUBSET Rows]

\* Every entry up to p is in the log and its rows are in S, but for the positions an
\* idle flush claimed without having received them.
Covered(p, S) == \A i \in (1..p) \ overclaimed : i \in DOMAIN log /\ log[i] \subseteq S

\* At-least-once delivery (README "Delivery Guarantees", flushBatch): a row at or below
\* the persisted cursor, which no session will ever be sent again, was accepted by jack,
\* recorded in the DLQ, or skipped by processWALStream because it does not parse.
NoLoss ==
    \A i \in DOMAIN log : i <= cursor => log[i] \subseteq accepted \cup dlq \cup dropped

\* The same whatever receiveMessage makes of message lengths: only a position that an
\* idle flush persisted past what the session had received can hide a row.
NoUnclaimedLoss == Covered(cursor, Handled)

\* The slot never runs ahead of the cursor table (standbyStatusUpdate): PostgreSQL keeps
\* the WAL of everything the driver has not persisted, and a restart finds it.
ConfirmedBehindCursor == confirmed <= cursor

\* A session holds the slot, or has lost it and does not know.
InSession(d) == pc[d] \notin {"readCursor", "startStreaming"}

\* What a session was sent it still holds, or is done with.
SentHeld ==
    \A d \in Drivers : InSession(d) =>
        Covered(sentPos[d], Handled \cup pendingInserts[d] \cup buf[d])

\* The same for the transaction that is being sent.
TxHeld ==
    \A d \in Drivers : sendingTx[d] =>
        /\ InSession(d)
        /\ sentPos[d] + 1 \in DOMAIN log
        /\ log[sentPos[d] + 1] \subseteq Handled \cup pendingInserts[d] \cup buf[d] \cup unsent[d]

\* What lies below the position a flush would persist is in the batch, or done.
BatchHeld ==
    \A d \in Drivers : Covered(pendingCommitLSN[d], Handled \cup pendingInserts[d])

\* Once jack has answered, every row of the batch is accepted or to be dead-lettered.
ResultsKnown ==
    \A d \in Drivers : pc[d] = "persist" => pendingInserts[d] \subseteq accepted \cup rejected[d]

\* No session starts from, or reports, a position the cursor table does not have.
SessionBehindCursor ==
    \A d \in Drivers : startLSN[d] <= cursor /\ flushLSN[d] <= cursor

\* How far clientXLogPos can be ahead of what was received.
SpillBound ==
    /\ \A d \in Drivers : InSession(d) => clientXLogPos[d] <= sentPos[d] + MaxSpill
    /\ MaxSpill = 0 => overclaimed = {}

\* The argument for NoUnclaimedLoss: at every point of a session, interrupted or not,
\* each row below a position it may persist is held by the session or done with.  Each
\* step of flushBatch and of the idle flush relies on the parts before it.
DeliveryInv ==
    /\ NoUnclaimedLoss /\ ConfirmedBehindCursor
    /\ SentHeld /\ TxHeld /\ BatchHeld /\ ResultsKnown
    /\ SessionBehindCursor /\ SpillBound

\* A row reaches the DLQ only in the transaction that moves the cursor past it
\* (persistFlushResult), whatever fails and whoever else writes.
DLQBehindCursor ==
    \A i \in DOMAIN log : log[i] \cap dlq # {} => i <= cursor

\* A session that waits for messages with rows pending has its batch timer set
\* (processWALStream): no row waits for later traffic to be flushed.
BatchDeadline ==
    \A d \in Drivers : pc[d] = "receive" /\ pendingInserts[d] # {} => nextBatchAt[d]

\* Rows are submitted twice only after a failure: without one no batch holds a row that
\* jack has accepted or the DLQ has recorded, however many replicas compete.
NoDuplicateWithoutFailure ==
    faults = 0 => \A d \in Drivers :
        pc[d] = "submit" => pendingInserts[d] \cap (accepted \cup dlq) = {}

\* While Relation and Insert messages decode the only rows skipped are those whose columns
\* do not parse (parseInsert), whatever becomes of Begin and Commit messages: the relation
\* of a row is known in every session, restarted or not.
OnlyMalformedDropped ==
    Undecodable \cap {"Relation", "Insert"} = {} => dropped \subseteq Malformed

\* The cursor never goes back (writeCursorTx), not even when a session that lost the
\* slot persists its batch after its successor has.
CursorMonotone == [][cursor' >= cursor]_vars

AllHandled == Committed \subseteq Handled

\* Every committed row is eventually accepted, dead-lettered or dropped: batches flush by
\* size or by timer, and an interrupted one is streamed again by some replica.
EventuallyHandled == []<>AllHandled

\* Once traffic stops the slot confirms everything, WAL outside the publication included,
\* so PostgreSQL can discard it (the idle flush of processWALStream).
SlotCatchesUp == []<>(confirmed >= Len(log))

O == INSTANCE Outbox WITH done <- Handled, mark <- cursor

\* The replicas together keep the promise of Outbox, whatever the interleaving of their
\* sessions and failures, as long as message lengths stay below the next commit record.
ImplementsOutbox == O!Spec
=============================================================================
