--------------------------- MODULE DeliveryProofs ---------------------------
(***************************************************************************)
(* Proofs about Delivery, for every number of replicas, rows, batches,     *)
(* transactions, failures and, where not said otherwise, every MaxSpill.   *)
(***************************************************************************)
EXTENDS Delivery, FiniteSetTheorems, TLAPS

\* Later is the maximum of two LSNs.
LEMMA LaterIsMax ==
    ASSUME NEW a \in Nat, NEW b \in Nat
    PROVE  /\ Later(a, b) \in Nat
           /\ Later(a, b) >= a /\ Later(a, b) >= b
           /\ Later(a, b) = a \/ Later(a, b) = b
  BY DEF Later

\* receiveMessage leaves every other session alone and moves clientXLogPos to an LSN
\* that is not below the old one, and at or below hi if the old one was.
LEMMA ReceivesAdvances ==
    ASSUME TypeOK, NEW d \in Drivers, NEW lo \in Nat, NEW hi \in Nat, Receives(d, lo, hi)
    PROVE  /\ clientXLogPos' \in [Drivers -> Nat]
           /\ \A e \in Drivers \ {d} : clientXLogPos'[e] = clientXLogPos[e]
           /\ clientXLogPos'[d] <= Later(clientXLogPos[d], hi)
  <1>1. PICK endPos \in lo..hi :
            clientXLogPos' = [clientXLogPos EXCEPT ![d] = Later(clientXLogPos[d], endPos)]
    BY DEF Receives
  <1>2. endPos \in Nat /\ endPos <= hi /\ clientXLogPos \in [Drivers -> Nat]
    BY <1>1 DEF TypeOK
  <1>3. Later(clientXLogPos[d], endPos) \in Nat
    BY <1>2, LaterIsMax
  <1>4. Later(clientXLogPos[d], endPos) <= Later(clientXLogPos[d], hi)
    BY <1>2 DEF Later
  <1>. QED  BY <1>1, <1>2, <1>3, <1>4

\* A status update leaves an LSN in the slot that is at most the old one or the flush
\* position: a session that has not flushed anything reports nothing.
LEMMA StatusReportsFlush ==
    ASSUME NEW d, NEW client \in Nat, NEW flush \in Nat, confirmed \in Nat,
           NEW c \in SendStandbyStatus(d, client, flush)
    PROVE  c \in Nat /\ (c = confirmed \/ c <= Later(confirmed, flush))
  BY DEF SendStandbyStatus, ReportedFlush, WriteLSN, Later

\* The end of a session resets its state to values of the right type.
LEMMA ReturnTypes ==
    ASSUME TypeOK, NEW d \in Drivers, RunOnceReturns(d)
    PROVE  /\ sentPos' \in [Drivers -> Nat] /\ sendingTx' \in [Drivers -> BOOLEAN]
           /\ unsent' \in [Drivers -> SUBSET Rows]
           /\ sentRelations' \in [Drivers -> SUBSET Relations]
           /\ relations' \in [Drivers -> SUBSET Relations]
           /\ clientXLogPos' \in [Drivers -> Nat] /\ flushLSN' \in [Drivers -> Nat]
           /\ buf' \in [Drivers -> SUBSET Rows]
           /\ pendingInserts' \in [Drivers -> SUBSET Rows]
           /\ pendingCommitLSN' \in [Drivers -> Nat]
           /\ inTx' \in [Drivers -> BOOLEAN] /\ nextBatchAt' \in [Drivers -> BOOLEAN]
           /\ pc' \in [Drivers -> Steps] /\ startLSN' \in [Drivers -> Nat]
           /\ rejected' \in [Drivers -> SUBSET Rows]
  <1>1. /\ sentPos' \in [Drivers -> Nat] /\ clientXLogPos' \in [Drivers -> Nat]
        /\ flushLSN' \in [Drivers -> Nat] /\ pendingCommitLSN' \in [Drivers -> Nat]
        /\ startLSN' \in [Drivers -> Nat]
    BY DEF TypeOK, RunOnceReturns
  <1>2. /\ sendingTx' \in [Drivers -> BOOLEAN] /\ inTx' \in [Drivers -> BOOLEAN]
        /\ nextBatchAt' \in [Drivers -> BOOLEAN] /\ pc' \in [Drivers -> Steps]
    BY DEF TypeOK, RunOnceReturns, Steps
  <1>3. /\ unsent' \in [Drivers -> SUBSET Rows] /\ buf' \in [Drivers -> SUBSET Rows]
        /\ pendingInserts' \in [Drivers -> SUBSET Rows]
        /\ rejected' \in [Drivers -> SUBSET Rows]
    BY DEF TypeOK, RunOnceReturns
  <1>4. /\ sentRelations' \in [Drivers -> SUBSET Relations]
        /\ relations' \in [Drivers -> SUBSET Relations]
    BY DEF TypeOK, RunOnceReturns
  <1>. QED  BY <1>1, <1>2, <1>3, <1>4

LEMMA TypeInit == Init => TypeOK
  BY DEF Init, TypeOK, Steps

LEMMA TypeNext == TypeOK /\ [Next]_vars => TypeOK'
  <1>. SUFFICES ASSUME TypeOK, [Next]_vars PROVE TypeOK'
    OBVIOUS
  <1>. USE RowsAssumption, BatchAssumption, SpillAssumption, BoundAssumption
  <1>1. ASSUME NEW S \in SUBSET Rows, Commit(S) PROVE TypeOK'
    <2>1. log \in Seq(SUBSET Rows)
      BY DEF TypeOK
    <2>2. log' \in Seq(SUBSET Rows)
      BY <1>1, <2>1 DEF Commit
    <2>3. UNCHANGED <<cursor, dlq, active, confirmed, accepted, session, dropped, overclaimed, faults>>
      BY <1>1 DEF Commit, database, slot
    <2>. QED  BY <2>2, <2>3 DEF TypeOK, session, walsender, consumer, batch, control
  <1>2. ASSUME NEW d \in Drivers, ReadCursor(d) PROVE TypeOK'
    BY <1>2 DEF ReadCursor, TypeOK, Steps, database, slot, walsender, consumer, batch
  <1>3. ASSUME NEW d \in Drivers, StartStreaming(d) PROVE TypeOK'
    <2>1. Later(startLSN[d], confirmed) \in Nat /\ startLSN[d] \in Nat
      BY LaterIsMax DEF TypeOK
    <2>. QED  BY <1>3, <2>1 DEF StartStreaming, TypeOK, Steps, database
  <1>4. ASSUME NEW d \in Drivers, StartBusy(d) PROVE TypeOK'
    BY <1>4, ReturnTypes DEF StartBusy, TypeOK, database, slot
  <1>5. ASSUME NEW d \in Drivers, ReceiveFails(d) PROVE TypeOK'
    BY <1>5, ReturnTypes DEF ReceiveFails, TypeOK, database, slot
  <1>6. ASSUME NEW d \in Drivers, Crash(d) PROVE TypeOK'
    <2>1. RunOnceReturns(d) /\ faults' \in Nat
      BY <1>6 DEF Crash, Fault, TypeOK
    <2>. QED  BY <1>6, <2>1, ReturnTypes DEF Crash, TypeOK, database, slot
  <1>7. ASSUME NEW d \in Drivers, ReleaseSlot(d) PROVE TypeOK'
    BY <1>7 DEF ReleaseSlot, TypeOK, database, session, walsender, consumer, batch, control
  <1>8. ASSUME NEW d \in Drivers, LoseSlot(d) PROVE TypeOK'
    BY <1>8 DEF LoseSlot, Fault, TypeOK, database, session, walsender, consumer, batch, control
  <1>9. ASSUME NEW d \in Drivers, RecvBegin(d) PROVE TypeOK'
    <2>1. PICK i \in (sentPos[d] + 1)..Len(log) :
              /\ sentPos' = [sentPos EXCEPT ![d] = i - 1]
              /\ unsent' = [unsent EXCEPT ![d] = log[i]]
              /\ Receives(d, 0, i - 1 + MaxSpill)
      BY <1>9 DEF RecvBegin
    <2>2. i \in Nat \ {0} /\ i - 1 \in Nat /\ i - 1 + MaxSpill \in Nat /\ log[i] \in SUBSET Rows
      BY <2>1 DEF TypeOK
    <2>3. clientXLogPos' \in [Drivers -> Nat]
      BY <2>1, <2>2, ReceivesAdvances
    <2>4. sentPos' \in [Drivers -> Nat] /\ unsent' \in [Drivers -> SUBSET Rows]
      BY <2>1, <2>2 DEF TypeOK
    <2>5. inTx' \in [Drivers -> BOOLEAN]
      BY <1>9 DEF RecvBegin, Decodes, TypeOK
    <2>. QED  BY <1>9, <2>3, <2>4, <2>5
              DEF RecvBegin, TypeOK, database, slot, control
  <1>10. ASSUME NEW d \in Drivers, RecvRelation(d) PROVE TypeOK'
    <2>0. sentPos[d] + MaxSpill \in Nat
      BY DEF TypeOK
    <2>1. clientXLogPos' \in [Drivers -> Nat]
      BY <1>10, <2>0, ReceivesAdvances DEF RecvRelation
    <2>2. PICK rel \in {RelationOf[r] : r \in unsent[d]} :
              /\ sentRelations' = [sentRelations EXCEPT ![d] = sentRelations[d] \cup {rel}]
              /\ \/ relations' = [relations EXCEPT ![d] = relations[d] \cup {rel}]
                 \/ relations' = [relations EXCEPT ![d] = relations[d]]
      BY <1>10 DEF RecvRelation, SetRelation
    <2>3. rel \in Relations
      BY <2>2 DEF TypeOK
    <2>4. /\ sentRelations[d] \cup {rel} \in SUBSET Relations
          /\ relations[d] \cup {rel} \in SUBSET Relations
          /\ relations[d] \in SUBSET Relations
      BY <2>3 DEF TypeOK
    <2>5. /\ sentRelations' \in [Drivers -> SUBSET Relations]
          /\ relations' \in [Drivers -> SUBSET Relations]
      <3>1. /\ sentRelations \in [Drivers -> SUBSET Relations]
            /\ relations \in [Drivers -> SUBSET Relations]
        BY DEF TypeOK
      <3>. QED  BY <2>2, <2>4, <3>1
    <2>. QED  BY <1>10, <2>1, <2>5
              DEF RecvRelation, TypeOK, database, slot, batch, control
  <1>11. ASSUME NEW d \in Drivers, RecvInsert(d) PROVE TypeOK'
    <2>0. sentPos[d] + MaxSpill \in Nat
      BY DEF TypeOK
    <2>1. clientXLogPos' \in [Drivers -> Nat]
      BY <1>11, <2>0, ReceivesAdvances DEF RecvInsert
    <2>2. PICK r \in unsent[d] :
              /\ unsent' = [unsent EXCEPT ![d] = unsent[d] \ {r}]
              /\ \/ buf' = [buf EXCEPT ![d] = buf[d] \cup {r}] /\ UNCHANGED dropped
                 \/ dropped' = dropped \cup {r} /\ UNCHANGED buf
      BY <1>11 DEF RecvInsert
    <2>3. r \in Rows /\ unsent[d] \ {r} \in SUBSET Rows /\ buf[d] \cup {r} \in SUBSET Rows
      BY <2>2 DEF TypeOK
    <2>4. unsent' \in [Drivers -> SUBSET Rows]
      <3>1. unsent \in [Drivers -> SUBSET Rows]
        BY DEF TypeOK
      <3>. QED  BY <2>2, <2>3, <3>1
    <2>5. buf' \in [Drivers -> SUBSET Rows] /\ dropped' \subseteq Rows
      <3>1. buf \in [Drivers -> SUBSET Rows] /\ dropped \subseteq Rows
        BY DEF TypeOK
      <3>. QED  BY <2>2, <2>3, <3>1
    <2>. QED  BY <1>11, <2>1, <2>4, <2>5 DEF RecvInsert, TypeOK, database, slot, control
  <1>12. ASSUME NEW d \in Drivers, RecvCommit(d) PROVE TypeOK'
    <2>0. sentPos[d] \in Nat
      BY DEF TypeOK
    <2>1. sentPos[d] + 1 \in Nat /\ sentPos[d] + 1 + MaxSpill \in Nat
      BY <2>0
    <2>2. clientXLogPos' \in [Drivers -> Nat]
      BY <1>12, <2>1, ReceivesAdvances DEF RecvCommit
    <2>3. /\ pendingInserts' \in [Drivers -> SUBSET Rows] /\ buf' \in [Drivers -> SUBSET Rows]
          /\ pendingCommitLSN' \in [Drivers -> Nat] /\ inTx' \in [Drivers -> BOOLEAN]
          /\ nextBatchAt' \in [Drivers -> BOOLEAN] /\ pc' \in [Drivers -> Steps]
      <3>1. CASE UNCHANGED <<batch, pc>>
        BY <3>1 DEF batch, TypeOK
      <3>2. CASE BatchCommit(d, sentPos[d] + 1)
        <4>1. Later(pendingCommitLSN[d], sentPos[d] + 1) \in Nat
          BY <2>1, LaterIsMax DEF TypeOK
        <4>2. pendingCommitLSN' \in [Drivers -> Nat]
          BY <3>2, <4>1 DEF BatchCommit, TypeOK
        <4>3. pendingInserts' \in [Drivers -> SUBSET Rows] /\ buf' \in [Drivers -> SUBSET Rows]
          BY <3>2 DEF BatchCommit, TypeOK
        <4>4. inTx' \in [Drivers -> BOOLEAN] /\ pc' \in [Drivers -> Steps]
          BY <3>2 DEF BatchCommit, TypeOK, Steps
        <4>5. nextBatchAt' \in [Drivers -> BOOLEAN]
          BY <3>2 DEF BatchCommit, Arms, TypeOK
        <4>. QED  BY <4>2, <4>3, <4>4, <4>5
      <3>. QED  BY <1>12, <3>1, <3>2 DEF RecvCommit
    <2>. QED  BY <1>12, <2>1, <2>2, <2>3 DEF RecvCommit, TypeOK, database, slot
  <1>13. ASSUME NEW d \in Drivers, RecvKeepalive(d) PROVE TypeOK'
    <2>1. PICK walEnd \in sentPos[d]..Len(log) :
              /\ sentPos' = [sentPos EXCEPT ![d] = walEnd]
              /\ Receives(d, walEnd, walEnd)
      BY <1>13 DEF RecvKeepalive
    <2>2. walEnd \in Nat
      BY <2>1 DEF TypeOK
    <2>3. clientXLogPos' \in [Drivers -> Nat] /\ sentPos' \in [Drivers -> Nat]
      BY <2>1, <2>2, ReceivesAdvances DEF TypeOK
    <2>4. confirmed' \in Nat
      BY <1>13, <2>3, StatusReportsFlush DEF RecvKeepalive, TypeOK
    <2>. QED  BY <1>13, <2>3, <2>4 DEF RecvKeepalive, TypeOK, database, batch, control
  <1>14. ASSUME NEW d \in Drivers, BatchTimeout(d) PROVE TypeOK'
    BY <1>14 DEF BatchTimeout, TypeOK, Steps, database, slot, walsender, consumer
  <1>15. ASSUME NEW d \in Drivers, SubmitSucceeds(d) PROVE TypeOK'
    <2>1. accepted' \subseteq Rows /\ rejected' \in [Drivers -> SUBSET Rows]
      BY <1>15 DEF SubmitSucceeds, MapResults, TypeOK
    <2>. QED  BY <1>15, <2>1 DEF SubmitSucceeds, MapResults, TypeOK, Steps, database, slot, walsender,
                                 consumer, batch
  <1>16. ASSUME NEW d \in Drivers, SubmitFails(d) PROVE TypeOK'
    <2>1. RunOnceReturns(d) /\ faults' \in Nat
      BY <1>16 DEF SubmitFails, Fault, TypeOK
    <2>2. accepted' \subseteq Rows
      BY <1>16 DEF SubmitFails, TypeOK
    <2>. QED  BY <1>16, <2>1, <2>2, ReturnTypes DEF SubmitFails, TypeOK, database, slot
  <1>17. ASSUME NEW d \in Drivers, NEW rows \in SUBSET Rows, NEW l \in Nat,
                PersistFlushResult(rows, l)
         PROVE  cursor' \in Nat /\ dlq' \subseteq Rows
    BY <1>17, LaterIsMax DEF PersistFlushResult, WriteCursor, TypeOK
  <1>18. ASSUME NEW d \in Drivers, Persist(d) PROVE TypeOK'
    <2>1. cursor' \in Nat /\ dlq' \subseteq Rows
      BY <1>18, <1>17 DEF Persist, FlushedLSN, TypeOK
    <2>2. Later(flushLSN[d], FlushedLSN(d)) \in Nat
      BY LaterIsMax DEF FlushedLSN, TypeOK
    <2>3. flushLSN' \in [Drivers -> Nat]
      BY <1>18, <2>2 DEF Persist, TypeOK
    <2>4. confirmed' \in Nat
      BY <1>18, <2>3, StatusReportsFlush DEF Persist, TypeOK
    <2>5. /\ pendingInserts' \in [Drivers -> SUBSET Rows]
          /\ rejected' \in [Drivers -> SUBSET Rows]
      BY <1>18 DEF Persist, ClearsBatch, TypeOK
    <2>6. nextBatchAt' \in [Drivers -> BOOLEAN] /\ pc' \in [Drivers -> Steps]
      BY <1>18 DEF Persist, ClearsBatch, TypeOK, Steps
    <2>. QED  BY <1>18, <2>1, <2>3, <2>4, <2>5, <2>6 DEF Persist, TypeOK, walsender
  <1>19. ASSUME NEW d \in Drivers, PersistAborts(d) PROVE TypeOK'
    <2>1. RunOnceReturns(d) /\ faults' \in Nat
      BY <1>19 DEF PersistAborts, Fault, TypeOK
    <2>2. cursor' \in Nat /\ dlq' \subseteq Rows
      BY <1>19, <1>17 DEF PersistAborts, FlushedLSN, TypeOK
    <2>. QED  BY <1>19, <2>1, <2>2, ReturnTypes DEF PersistAborts, TypeOK, slot
  <1>20. ASSUME NEW d \in Drivers, PersistRefused(d) PROVE TypeOK'
    BY <1>20, ReturnTypes DEF PersistRefused, TypeOK, database, slot
  <1>21. ASSUME NEW d \in Drivers, PersistWritePos(d)
         PROVE  cursor' \in Nat /\ dlq' \subseteq Rows /\ overclaimed' \subseteq Nat
    <2>1. sentPos[d] \in Nat /\ clientXLogPos[d] \in Nat
      BY DEF TypeOK
    <2>2. (sentPos[d] + 1)..clientXLogPos[d] \subseteq Nat
      BY <2>1
    <2>. QED  BY <1>21, <1>17, <2>1, <2>2 DEF PersistWritePos, TypeOK
  <1>22. ASSUME NEW d \in Drivers, StandbyTick(d) PROVE TypeOK'
    <2>1. /\ cursor' \in Nat /\ dlq' \subseteq Rows /\ overclaimed' \subseteq Nat
          /\ flushLSN' \in [Drivers -> Nat]
      BY <1>22, <1>21 DEF StandbyTick, TypeOK, database
    <2>2. confirmed' \in Nat
      BY <1>22, <2>1, StatusReportsFlush DEF StandbyTick, TypeOK
    <2>. QED  BY <1>22, <2>1, <2>2 DEF StandbyTick, TypeOK, walsender, batch, control
  <1>23. ASSUME NEW d \in Drivers, TickAborts(d) PROVE TypeOK'
    <2>1. RunOnceReturns(d) /\ faults' \in Nat
      BY <1>23 DEF TickAborts, Fault, TypeOK
    <2>2. cursor' \in Nat /\ dlq' \subseteq Rows /\ overclaimed' \subseteq Nat
      BY <1>23, <1>21 DEF TickAborts
    <2>. QED  BY <1>23, <2>1, <2>2, ReturnTypes DEF TickAborts, TypeOK, slot
  <1>24. CASE UNCHANGED vars
    BY <1>24 DEF vars, TypeOK, database, slot, session, walsender, consumer, batch, control
  <1>. QED
    BY <1>1, <1>2, <1>3, <1>4, <1>5, <1>6, <1>7, <1>8, <1>9, <1>10, <1>11, <1>12, <1>13,
       <1>14, <1>15, <1>16, <1>18, <1>19, <1>20, <1>22, <1>23, <1>24
       DEF Next, Step, Receive, Failure

\* Every reachable state is well typed.
THEOREM TypeCorrect == Spec => []TypeOK
  BY TypeInit, TypeNext, PTL DEF Spec

-----------------------------------------------------------------------------
(* The frame: what no step takes back, and what a step of one driver       *)
(* leaves alone.                                                           *)

\* The log is only appended to, rows stay done, the cursor does not go back.
Grows ==
    /\ \A i \in DOMAIN log : i \in DOMAIN log' /\ log'[i] = log[i]
    /\ accepted \subseteq accepted' /\ dlq \subseteq dlq' /\ dropped \subseteq dropped'
    /\ overclaimed \subseteq overclaimed'
    /\ cursor <= cursor'

\* The session of e, as far as the invariant reads it, is untouched.
SameSession(e) ==
    /\ sentPos'[e] = sentPos[e] /\ sendingTx'[e] = sendingTx[e] /\ unsent'[e] = unsent[e]
    /\ clientXLogPos'[e] = clientXLogPos[e] /\ flushLSN'[e] = flushLSN[e]
    /\ buf'[e] = buf[e] /\ pendingInserts'[e] = pendingInserts[e]
    /\ pendingCommitLSN'[e] = pendingCommitLSN[e]
    /\ pc'[e] = pc[e] /\ startLSN'[e] = startLSN[e] /\ rejected'[e] = rejected[e]

DriverNext(d) == Step(d) \/ ReleaseSlot(d) \/ Failure(d)

LEMMA StepGrows ==
    ASSUME TypeOK, [Next]_vars
    PROVE  Grows
  <1>1. ASSUME NEW S \in SUBSET Rows, Commit(S) PROVE Grows
    <2>1. log' = Append(log, S) /\ log \in Seq(SUBSET Rows)
      BY <1>1 DEF Commit, TypeOK
    <2>2. \A i \in DOMAIN log : i \in DOMAIN log' /\ log'[i] = log[i]
      BY <2>1
    <2>. QED  BY <1>1, <2>2 DEF Commit, Grows, TypeOK, database
  <1>2. ASSUME NEW l \in Nat, NEW rows, PersistFlushResult(rows, l)
        PROVE  dlq \subseteq dlq' /\ cursor <= cursor'
    BY <1>2 DEF PersistFlushResult, WriteCursor, Later, TypeOK
  <1>3. ASSUME NEW d \in Drivers, DriverNext(d) PROVE Grows
    <2>1. log' = log
      BY <1>3 DEF DriverNext, Step, Receive, Failure, ReadCursor, StartStreaming, StartBusy,
           ReceiveFails, Crash, ReleaseSlot, LoseSlot, RecvBegin, RecvRelation, RecvInsert,
           RecvCommit, RecvKeepalive, BatchTimeout, SubmitSucceeds, SubmitFails, Persist,
           PersistAborts, PersistRefused, StandbyTick, TickAborts
    <2>2. accepted \subseteq accepted' /\ dropped \subseteq dropped'
      BY <1>3 DEF DriverNext, Step, Receive, Failure, ReadCursor, StartStreaming, StartBusy,
           ReceiveFails, Crash, ReleaseSlot, LoseSlot, RecvBegin, RecvRelation, RecvInsert,
           RecvCommit, RecvKeepalive, BatchTimeout, SubmitSucceeds, SubmitFails, Persist,
           PersistAborts, PersistRefused, StandbyTick, TickAborts
    <2>3. overclaimed \subseteq overclaimed'
      BY <1>3 DEF DriverNext, Step, Receive, Failure, ReadCursor, StartStreaming, StartBusy,
           ReceiveFails, Crash, ReleaseSlot, LoseSlot, RecvBegin, RecvRelation, RecvInsert,
           RecvCommit, RecvKeepalive, BatchTimeout, SubmitSucceeds, SubmitFails, Persist,
           PersistAborts, PersistRefused, StandbyTick, TickAborts, PersistWritePos
    <2>4. dlq \subseteq dlq' /\ cursor <= cursor'
      <3>1. CASE Persist(d) \/ PersistAborts(d)
        BY <3>1, <1>2 DEF Persist, PersistAborts, FlushedLSN, TypeOK
      <3>2. CASE StandbyTick(d) \/ TickAborts(d)
        BY <3>2, <1>2 DEF StandbyTick, TickAborts, PersistWritePos, TypeOK, database
      <3>3. CASE UNCHANGED database
        BY <3>3 DEF database, TypeOK
      <3>. QED
        BY <1>3, <3>1, <3>2, <3>3 DEF DriverNext, Step, Receive, Failure, ReadCursor,
           StartStreaming, StartBusy, ReceiveFails, Crash, ReleaseSlot, LoseSlot, RecvBegin,
           RecvRelation, RecvInsert, RecvCommit, RecvKeepalive, BatchTimeout,
           SubmitSucceeds, SubmitFails, PersistRefused
    <2>. QED  BY <2>1, <2>2, <2>3, <2>4 DEF Grows
  <1>4. CASE UNCHANGED vars
    BY <1>4 DEF vars, Grows, TypeOK, database
  <1>. QED  BY <1>1, <1>3, <1>4 DEF Next, DriverNext

\* The end of the session of d is no business of e.
LEMMA ReturnLeavesOthers ==
    ASSUME TypeOK, NEW d \in Drivers, RunOnceReturns(d), NEW e \in Drivers \ {d}
    PROVE  SameSession(e)
  BY DEF RunOnceReturns, SameSession, TypeOK

LEMMA OthersUntouched ==
    ASSUME TypeOK, NEW d \in Drivers, DriverNext(d), NEW e \in Drivers \ {d}
    PROVE  SameSession(e)
  <1>. USE DEF SameSession, TypeOK
  <1>1. CASE ReadCursor(d)
    BY <1>1 DEF ReadCursor, walsender, consumer, batch
  <1>2. CASE StartStreaming(d)
    BY <1>2 DEF StartStreaming
  <1>3. CASE RunOnceReturns(d)
    BY <1>3, ReturnLeavesOthers
  <1>4. CASE ReleaseSlot(d) \/ LoseSlot(d)
    BY <1>4 DEF ReleaseSlot, LoseSlot, session, walsender, consumer, batch, control
  <1>5. CASE RecvBegin(d)
    BY <1>5 DEF RecvBegin, Receives, control
  <1>6. CASE RecvRelation(d)
    BY <1>6 DEF RecvRelation, Receives, batch, control
  <1>7. CASE RecvInsert(d)
    BY <1>7 DEF RecvInsert, Receives, control
  <1>8. CASE RecvCommit(d)
    BY SMTT(20), <1>8 DEF RecvCommit, BatchCommit, Receives, batch
  <1>9. CASE RecvKeepalive(d)
    BY <1>9 DEF RecvKeepalive, Receives, batch, control
  <1>10. CASE BatchTimeout(d)
    BY <1>10 DEF BatchTimeout, walsender, consumer
  <1>11. CASE SubmitSucceeds(d)
    BY <1>11 DEF SubmitSucceeds, MapResults, walsender, consumer, batch
  <1>12. CASE Persist(d)
    BY <1>12 DEF Persist, ClearsBatch, walsender
  <1>13. CASE StandbyTick(d)
    BY <1>13 DEF StandbyTick, walsender, batch, control
  <1>. QED
    BY <1>1, <1>2, <1>3, <1>4, <1>5, <1>6, <1>7, <1>8, <1>9, <1>10, <1>11, <1>12, <1>13
       DEF DriverNext, Step, Receive, Failure, StartBusy, ReceiveFails, Crash, SubmitFails,
           PersistAborts, PersistRefused, TickAborts

-----------------------------------------------------------------------------
(* The inductive invariant.                                                *)

\* Covered in the next state, for values of this one.
CoveredNext(p, S) ==
    \A i \in (1..p) \ overclaimed' : i \in DOMAIN log' /\ log'[i] \subseteq S

\* The parts of DeliveryInv that speak of the session of d.
SessionInv(d) ==
    /\ InSession(d) => Covered(sentPos[d], Handled \cup pendingInserts[d] \cup buf[d])
    /\ sendingTx[d] =>
          /\ InSession(d)
          /\ sentPos[d] + 1 \in DOMAIN log
          /\ log[sentPos[d] + 1] \subseteq Handled \cup pendingInserts[d] \cup buf[d] \cup unsent[d]
    /\ Covered(pendingCommitLSN[d], Handled \cup pendingInserts[d])
    /\ pc[d] = "persist" => pendingInserts[d] \subseteq accepted \cup rejected[d]
    /\ startLSN[d] <= cursor /\ flushLSN[d] <= cursor
    /\ InSession(d) => clientXLogPos[d] <= sentPos[d] + MaxSpill

SharedInv == NoUnclaimedLoss /\ ConfirmedBehindCursor /\ (MaxSpill = 0 => overclaimed = {})

LEMMA InvParts == DeliveryInv <=> SharedInv /\ \A d \in Drivers : SessionInv(d)
  BY DEF DeliveryInv, SharedInv, SessionInv, SentHeld, TxHeld, BatchHeld, ResultsKnown,
         SessionBehindCursor, SpillBound

LEMMA InvPartsNext == DeliveryInv' <=> SharedInv' /\ \A d \in Drivers : SessionInv(d)'
  BY DEF DeliveryInv, SharedInv, SessionInv, SentHeld, TxHeld, BatchHeld, ResultsKnown,
         SessionBehindCursor, SpillBound

\* What is covered stays covered, also by more rows and up to a lower position.
LEMMA CoveredGrows ==
    ASSUME TypeOK, Grows, NEW p \in Nat, NEW q \in Nat, q <= p, NEW S, NEW T,
           Covered(p, S), S \subseteq T
    PROVE  CoveredNext(q, T)
  BY DEF Grows, Covered, CoveredNext

LEMMA HandledGrows == Grows => Handled \subseteq Handled'
  BY DEF Grows, Handled

\* A session that a step leaves alone keeps its part of the invariant.
LEMMA SessionFrame ==
    ASSUME TypeOK, Grows, NEW e \in Drivers, SessionInv(e), SameSession(e), cursor' \in Nat
    PROVE  SessionInv(e)'
  <1>1. InSession(e)' <=> InSession(e)
    BY DEF InSession, SameSession
  <1>2. /\ sentPos[e] \in Nat /\ pendingCommitLSN[e] \in Nat /\ cursor \in Nat
        /\ startLSN[e] \in Nat /\ flushLSN[e] \in Nat
    BY DEF TypeOK
  <1>3. Handled \subseteq Handled'
    BY HandledGrows
  <1>4. InSession(e) => CoveredNext(sentPos[e], Handled' \cup pendingInserts[e] \cup buf[e])
    BY <1>2, <1>3, CoveredGrows DEF SessionInv
  <1>5. CoveredNext(pendingCommitLSN[e], Handled' \cup pendingInserts[e])
    BY <1>2, <1>3, CoveredGrows DEF SessionInv
  <1>6. sendingTx[e] =>
          /\ sentPos[e] + 1 \in DOMAIN log'
          /\ log'[sentPos[e] + 1]
                \subseteq Handled' \cup pendingInserts[e] \cup buf[e] \cup unsent[e]
    BY <1>3 DEF SessionInv, Grows
  <1>7. pc[e] = "persist" => pendingInserts[e] \subseteq accepted' \cup rejected[e]
    BY DEF SessionInv, Grows
  <1>8. startLSN[e] <= cursor' /\ flushLSN[e] <= cursor'
    BY <1>2 DEF SessionInv, Grows
  <1>. QED
    BY <1>1, <1>4, <1>5, <1>6, <1>7, <1>8 DEF SessionInv, SameSession, Covered, CoveredNext

\* A session that has ended satisfies its part of the invariant.
LEMMA SessionEnded ==
    ASSUME TypeOK, NEW d \in Drivers, RunOnceReturns(d), cursor' \in Nat
    PROVE  SessionInv(d)'
  <1>1. /\ pc'[d] = "readCursor" /\ sendingTx'[d] = FALSE /\ pendingCommitLSN'[d] = 0
        /\ startLSN'[d] = 0 /\ flushLSN'[d] = 0
    BY DEF RunOnceReturns, TypeOK
  <1>2. 1..pendingCommitLSN'[d] = {}
    BY <1>1
  <1>. QED  BY <1>1, <1>2 DEF SessionInv, InSession, Covered

\* The cursor may move to any position that is covered by rows done with.
LEMMA CursorMoves ==
    ASSUME TypeOK, Grows, NoUnclaimedLoss, NEW l \in Nat, cursor' = Later(cursor, l),
           CoveredNext(l, Handled')
    PROVE  NoUnclaimedLoss'
  <1>1. cursor \in Nat /\ Handled \subseteq Handled'
    BY HandledGrows DEF TypeOK
  <1>2. CoveredNext(cursor, Handled')
    BY <1>1, CoveredGrows DEF NoUnclaimedLoss
  <1>3. cursor' = cursor \/ cursor' = l
    BY DEF Later
  <1>. QED  BY <1>2, <1>3 DEF NoUnclaimedLoss, Covered, CoveredNext

\* The slot stays behind the cursor when it moves to a flush position that is.
LEMMA StatusBehindCursor ==
    ASSUME TypeOK, ConfirmedBehindCursor, NEW d, NEW client \in Nat, NEW flush \in Nat,
           cursor' \in Nat, cursor <= cursor', flush <= cursor',
           confirmed' \in SendStandbyStatus(d, client, flush)
    PROVE  ConfirmedBehindCursor'
  <1>1. confirmed \in Nat /\ cursor \in Nat
    BY DEF TypeOK
  <1>2. confirmed' \in Nat /\ (confirmed' = confirmed \/ confirmed' <= Later(confirmed, flush))
    BY <1>1, StatusReportsFlush
  <1>. QED  BY <1>1, <1>2 DEF ConfirmedBehindCursor, Later

LEMMA InvInit == Init => DeliveryInv
  <1>. SUFFICES ASSUME Init PROVE DeliveryInv
    OBVIOUS
  <1>1. 1..0 = {}
    OBVIOUS
  <1>2. SharedInv
    BY <1>1 DEF Init, SharedInv, NoUnclaimedLoss, ConfirmedBehindCursor, Covered
  <1>3. ASSUME NEW d \in Drivers PROVE SessionInv(d)
    BY <1>1 DEF Init, SessionInv, InSession, Covered
  <1>. QED  BY <1>2, <1>3, InvParts

\* Steps that persist nothing and tell the slot nothing keep the shared part.
LEMMA SharedFrame ==
    ASSUME TypeOK, Grows, SharedInv, cursor' = cursor, overclaimed' = overclaimed,
           confirmed' \in 0..confirmed
    PROVE  SharedInv'
  <1>1. cursor \in Nat /\ confirmed \in Nat /\ Handled \subseteq Handled'
    BY HandledGrows DEF TypeOK
  <1>2. CoveredNext(cursor, Handled')
    BY <1>1, CoveredGrows DEF SharedInv, NoUnclaimedLoss
  <1>. QED
    BY <1>1, <1>2 DEF SharedInv, NoUnclaimedLoss, ConfirmedBehindCursor, Covered, CoveredNext

\* The walsender of d moves to p over entries that hold nothing of the publication.
LEMMA SkipsCovered ==
    ASSUME TypeOK, NEW d \in Drivers, NEW S, Covered(sentPos[d], S), NEW i \in Nat,
           Skips(sentPos[d], i), i - 1 <= Len(log), log' = log, overclaimed' = overclaimed,
           NEW T, S \subseteq T
    PROVE  CoveredNext(i - 1, T)
  <1>1. sentPos[d] \in Nat /\ DOMAIN log = 1..Len(log)
    BY DEF TypeOK
  <1>. SUFFICES ASSUME NEW j \in (1..(i - 1)) \ overclaimed
                PROVE  j \in DOMAIN log /\ log[j] \subseteq T
    BY DEF CoveredNext
  <1>2. CASE j <= sentPos[d]
    BY <1>1, <1>2 DEF Covered
  <1>3. CASE j > sentPos[d]
    <2>1. j \in (sentPos[d] + 1)..(i - 1) /\ j \in 1..Len(log)
      BY <1>1, <1>3
    <2>2. log[j] = {}
      BY <2>1 DEF Skips
    <2>. QED  BY <1>1, <2>1, <2>2
  <1>. QED  BY <1>1, <1>2, <1>3

LEMMA InvNext ==
    ASSUME TypeOK, TypeOK', DeliveryInv, [Next]_vars
    PROVE  DeliveryInv'
  <1>. USE SpillAssumption
  <1>1. SharedInv /\ \A e \in Drivers : SessionInv(e)
    BY InvParts
  <1>2. Grows /\ cursor' \in Nat /\ cursor \in Nat /\ confirmed \in Nat /\ confirmed' \in Nat
    BY StepGrows DEF TypeOK
  <1>. USE <1>1, <1>2
  <1>3. ASSUME NEW S \in SUBSET Rows, Commit(S) PROVE DeliveryInv'
    <2>1. SharedInv'
      BY <1>3, SharedFrame DEF Commit, database, slot
    <2>2. ASSUME NEW e \in Drivers PROVE SameSession(e)
      BY <1>3 DEF Commit, SameSession, session, walsender, consumer, batch, control
    <2>. QED  BY <2>1, <2>2, SessionFrame, InvPartsNext
  <1>4. ASSUME NEW d \in Drivers, DriverNext(d) PROVE DeliveryInv'
    <2>1. ASSUME SharedInv', SessionInv(d)' PROVE DeliveryInv'
      <3>1. ASSUME NEW e \in Drivers \ {d} PROVE SessionInv(e)'
        BY <1>4, OthersUntouched, SessionFrame
      <3>. QED  BY <2>1, <3>1, InvPartsNext
    <2>2. /\ sentPos[d] \in Nat /\ pendingCommitLSN[d] \in Nat /\ clientXLogPos[d] \in Nat
          /\ flushLSN[d] \in Nat /\ startLSN[d] \in Nat /\ DOMAIN log = 1..Len(log)
          /\ Handled \subseteq Handled' /\ SessionInv(d)
      BY HandledGrows DEF TypeOK
    <2>3. CASE ReadCursor(d)
      <3>1. SharedInv'
        BY <2>3, SharedFrame DEF ReadCursor, database, slot
      <3>2. pc'[d] = "startStreaming" /\ startLSN'[d] = cursor
        BY <2>3 DEF ReadCursor, TypeOK
      <3>3. CoveredNext(pendingCommitLSN[d], Handled' \cup pendingInserts[d])
        BY <2>2, CoveredGrows DEF SessionInv
      <3>4. SessionInv(d)'
        BY <2>2, <2>3, <3>2, <3>3, SessionFrame DEF ReadCursor, SessionInv, InSession,
           Covered, CoveredNext, Grows, walsender, consumer, batch, Handled
      <3>. QED  BY <2>1, <3>1, <3>4
    <2>4. CASE StartStreaming(d)
      <3>1. SharedInv'
        BY <2>4, SharedFrame DEF StartStreaming, database
      <3>2. /\ Later(startLSN[d], confirmed) \in Nat /\ Later(startLSN[d], confirmed) <= cursor
            /\ startLSN[d] <= Later(startLSN[d], confirmed) /\ startLSN[d] <= cursor
        <4>1. startLSN[d] <= cursor /\ confirmed <= cursor
          BY <2>2 DEF SessionInv, SharedInv, ConfirmedBehindCursor
        <4>. QED  BY <2>2, <4>1 DEF Later
      <3>3. /\ CoveredNext(Later(startLSN[d], confirmed),
                           Handled' \cup pendingInserts'[d] \cup buf'[d])
            /\ CoveredNext(startLSN[d], Handled' \cup pendingInserts'[d])
        BY <2>2, <3>2, CoveredGrows DEF SharedInv, NoUnclaimedLoss
      <3>4. /\ pc'[d] = "receive" /\ sentPos'[d] = Later(startLSN[d], confirmed)
            /\ clientXLogPos'[d] = startLSN[d] /\ flushLSN'[d] = startLSN[d]
            /\ pendingCommitLSN'[d] = startLSN[d] /\ startLSN'[d] = 0
            /\ sendingTx'[d] = sendingTx[d] /\ log' = log /\ cursor' = cursor
        BY <2>4 DEF StartStreaming, TypeOK, database
      <3>5. ~sendingTx[d]
        BY <2>2, <2>4 DEF StartStreaming, SessionInv, InSession
      <3>6. SessionInv(d)'
        BY SMTT(20), <2>2, <3>2, <3>3, <3>4, <3>5 DEF SessionInv, Covered, CoveredNext
      <3>. QED  BY <2>1, <3>1, <3>6
    <2>5. CASE /\ RunOnceReturns(d)
               /\ UNCHANGED <<database, slot, overclaimed>>
      BY <2>1, <2>5, SessionEnded, SharedFrame DEF database, slot
    <2>6. CASE ReleaseSlot(d) \/ LoseSlot(d)
      <3>1. SharedInv'
        BY <2>6, SharedFrame DEF ReleaseSlot, LoseSlot, database
      <3>2. SameSession(d)
        BY <2>6 DEF ReleaseSlot, LoseSlot, SameSession, session, walsender, consumer, batch,
                    control
      <3>. QED  BY <2>1, <3>1, <3>2, <2>2, SessionFrame
    <2>7. CASE RecvBegin(d)
      <3>1. SharedInv'
        BY <2>7, SharedFrame DEF RecvBegin, database, slot
      <3>2. PICK i \in (sentPos[d] + 1)..Len(log) :
                /\ Skips(sentPos[d], i)
                /\ sentPos' = [sentPos EXCEPT ![d] = i - 1]
                /\ unsent' = [unsent EXCEPT ![d] = log[i]]
                /\ Receives(d, 0, i - 1 + MaxSpill)
        BY <2>7 DEF RecvBegin
      <3>3. i \in Nat /\ i \in 1..Len(log) /\ i - 1 <= Len(log) /\ sentPos[d] <= i - 1
            /\ i - 1 + MaxSpill \in Nat
        <4>1. sentPos[d] \in Nat
          BY <2>2 DEF TypeOK
        <4>2. Len(log) \in Nat
          BY <2>2 DEF TypeOK
        <4>3. i \in (sentPos[d] + 1)..Len(log)
          BY <3>2
        <4>. QED  BY <4>1, <4>2, <4>3, SpillAssumption
      <3>4. /\ pc'[d] = "receive" /\ pc[d] = "receive" /\ ~sendingTx[d]
            /\ sentPos'[d] = i - 1 /\ unsent'[d] = log[i]
            /\ flushLSN' = flushLSN /\ buf' = buf /\ pendingInserts' = pendingInserts
            /\ pendingCommitLSN' = pendingCommitLSN /\ startLSN' = startLSN
            /\ log' = log /\ overclaimed' = overclaimed /\ cursor' = cursor
        BY SMTT(20), <2>7, <3>2 DEF RecvBegin, TypeOK, control, database
      <3>5. InSession(d)
        BY <3>4 DEF InSession
      <3>6. CoveredNext(i - 1, Handled' \cup pendingInserts[d] \cup buf[d])
        <4>1. Covered(sentPos[d], Handled \cup pendingInserts[d] \cup buf[d])
          BY <2>2, <3>5 DEF SessionInv
        <4>2. Handled \cup pendingInserts[d] \cup buf[d]
                \subseteq Handled' \cup pendingInserts[d] \cup buf[d]
          BY <2>2
        <4>. QED  BY <3>2, <3>3, <3>4, <4>1, <4>2, SkipsCovered
      <3>7. CoveredNext(pendingCommitLSN[d], Handled' \cup pendingInserts[d])
        BY <2>2, CoveredGrows DEF SessionInv
      <3>8. clientXLogPos'[d] <= i - 1 + MaxSpill
        <4>1. clientXLogPos'[d] <= Later(clientXLogPos[d], i - 1 + MaxSpill)
          BY <3>2, <3>3, ReceivesAdvances
        <4>2. clientXLogPos[d] <= i - 1 + MaxSpill
          BY SMTT(20), <2>2, <3>3, <3>5 DEF SessionInv
        <4>. QED  BY <2>2, <3>3, <4>1, <4>2 DEF Later
      <3>9. startLSN[d] <= cursor /\ flushLSN[d] <= cursor
        BY <2>2 DEF SessionInv
      <3>10. InSession(d)'
        BY <3>4 DEF InSession
      <3>11. sentPos'[d] + 1 = i
        BY <3>3, <3>4
      <3>12. SessionInv(d)'
        BY <2>2, <3>3, <3>4, <3>6, <3>7, <3>8, <3>9, <3>10, <3>11
           DEF SessionInv, Covered, CoveredNext
      <3>. QED  BY <2>1, <3>1, <3>12
    <2>8. CASE RecvRelation(d) \/ RecvInsert(d)
      <3>1. /\ pc' = pc /\ sentPos' = sentPos /\ sendingTx' = sendingTx
            /\ flushLSN' = flushLSN /\ pendingInserts' = pendingInserts
            /\ pendingCommitLSN' = pendingCommitLSN /\ startLSN' = startLSN
            /\ log' = log /\ overclaimed' = overclaimed /\ cursor' = cursor
            /\ confirmed' = confirmed /\ pc[d] = "receive"
        BY <2>8 DEF RecvRelation, RecvInsert, control, database, slot, batch
      <3>2. SharedInv'
        BY <3>1, SharedFrame
      <3>3. buf[d] \subseteq buf'[d] /\ unsent[d] \subseteq unsent'[d] \cup buf'[d] \cup dropped'
        <4>1. CASE RecvRelation(d)
          BY <4>1 DEF RecvRelation, batch
        <4>2. CASE RecvInsert(d)
          <5>1. PICK r \in unsent[d] :
                    /\ unsent' = [unsent EXCEPT ![d] = unsent[d] \ {r}]
                    /\ \/ buf' = [buf EXCEPT ![d] = buf[d] \cup {r}] /\ UNCHANGED dropped
                       \/ dropped' = dropped \cup {r} /\ UNCHANGED buf
            BY <4>2 DEF RecvInsert
          <5>2. unsent'[d] = unsent[d] \ {r}
            BY <5>1 DEF TypeOK
          <5>3. \/ buf'[d] = buf[d] \cup {r}
                \/ dropped' = dropped \cup {r} /\ buf'[d] = buf[d]
            BY <5>1 DEF TypeOK
          <5>. QED  BY <5>2, <5>3
        <4>. QED  BY <2>8, <4>1, <4>2
      <3>4. InSession(d) /\ InSession(d)' /\ dropped' \subseteq Handled'
        BY <3>1 DEF InSession, Handled
      <3>5. CoveredNext(sentPos[d], Handled' \cup pendingInserts[d] \cup buf'[d])
        <4>1. Covered(sentPos[d], Handled \cup pendingInserts[d] \cup buf[d])
          BY <2>2, <3>4 DEF SessionInv
        <4>. QED  BY <2>2, <3>3, <4>1, CoveredGrows
      <3>6. CoveredNext(pendingCommitLSN[d], Handled' \cup pendingInserts[d])
        BY <2>2, CoveredGrows DEF SessionInv
      <3>7. sendingTx[d] =>
              /\ sentPos[d] + 1 \in DOMAIN log
              /\ log[sentPos[d] + 1]
                    \subseteq Handled' \cup pendingInserts[d] \cup buf'[d] \cup unsent'[d]
        BY <2>2, <3>3, <3>4 DEF SessionInv
      <3>8. clientXLogPos'[d] <= sentPos[d] + MaxSpill
        <4>1. sentPos[d] + MaxSpill \in Nat /\ Receives(d, 0, sentPos[d] + MaxSpill)
          BY <2>2, <2>8 DEF RecvRelation, RecvInsert
        <4>2. clientXLogPos'[d] <= Later(clientXLogPos[d], sentPos[d] + MaxSpill)
          BY <4>1, ReceivesAdvances
        <4>3. clientXLogPos[d] <= sentPos[d] + MaxSpill
          BY <2>2, <3>4 DEF SessionInv
        <4>. QED  BY <2>2, <4>1, <4>2, <4>3 DEF Later
      <3>9. startLSN[d] <= cursor /\ flushLSN[d] <= cursor
        BY <2>2 DEF SessionInv
      <3>10. SessionInv(d)'
        BY <3>1, <3>4, <3>5, <3>6, <3>7, <3>8, <3>9 DEF SessionInv, Covered, CoveredNext
      <3>. QED  BY <2>1, <3>2, <3>10
    <2>9. CASE RecvCommit(d)
      <3>1. /\ pc[d] = "receive" /\ sendingTx[d] /\ unsent[d] = {}
            /\ sentPos'[d] = sentPos[d] + 1 /\ sendingTx'[d] = FALSE
            /\ flushLSN' = flushLSN /\ startLSN' = startLSN
            /\ log' = log /\ overclaimed' = overclaimed /\ cursor' = cursor
            /\ confirmed' = confirmed /\ Handled' = Handled
        BY <2>9 DEF RecvCommit, database, slot, TypeOK, Handled
      <3>2. SharedInv'
        BY <3>1, SharedFrame
      <3>3. /\ pendingInserts[d] \cup buf[d] = pendingInserts'[d] \cup buf'[d]
            /\ pc'[d] \in {"receive", "submit"}
            /\ \/ /\ pendingInserts'[d] = pendingInserts[d] \cup buf[d]
                  /\ pendingCommitLSN'[d] = Later(pendingCommitLSN[d], sentPos[d] + 1)
               \/ /\ pendingInserts'[d] = pendingInserts[d]
                  /\ pendingCommitLSN'[d] = pendingCommitLSN[d]
        <4>1. CASE BatchCommit(d, sentPos[d] + 1)
          BY <3>1, <4>1 DEF BatchCommit, TypeOK
        <4>2. CASE UNCHANGED <<batch, pc>>
          BY <3>1, <4>2 DEF batch
        <4>. QED  BY <2>9, <4>1, <4>2 DEF RecvCommit
      <3>4. InSession(d) /\ InSession(d)'
        BY <3>1, <3>3 DEF InSession
      <3>5. CoveredNext(sentPos[d] + 1, Handled \cup (pendingInserts[d] \cup buf[d]))
        <4>1. /\ sentPos[d] + 1 \in DOMAIN log
              /\ log[sentPos[d] + 1] \subseteq Handled \cup (pendingInserts[d] \cup buf[d])
          BY <2>2, <3>1 DEF SessionInv
        <4>2. Covered(sentPos[d], Handled \cup (pendingInserts[d] \cup buf[d]))
          BY <2>2, <3>4 DEF SessionInv, Covered
        <4>. QED  BY SMTT(20), <2>2, <3>1, <4>1, <4>2 DEF Covered, CoveredNext
      <3>6. CoveredNext(pendingCommitLSN'[d], Handled' \cup pendingInserts'[d])
        <4>1. CoveredNext(pendingCommitLSN[d], Handled \cup pendingInserts[d])
          BY <2>2, <3>1, CoveredGrows DEF SessionInv
        <4>2. CASE pendingInserts'[d] = pendingInserts[d] /\ pendingCommitLSN'[d] = pendingCommitLSN[d]
          BY <3>1, <4>1, <4>2
        <4>3. CASE /\ pendingInserts'[d] = pendingInserts[d] \cup buf[d]
                   /\ pendingCommitLSN'[d] = Later(pendingCommitLSN[d], sentPos[d] + 1)
          <5>1. CASE pendingCommitLSN'[d] = pendingCommitLSN[d]
            BY <3>1, <4>1, <4>3, <5>1 DEF CoveredNext
          <5>2. CASE pendingCommitLSN'[d] = sentPos[d] + 1
            BY <3>1, <3>5, <4>3, <5>2
          <5>. QED  BY <4>3, <5>1, <5>2 DEF Later
        <4>. QED  BY <3>3, <4>2, <4>3
      <3>7. clientXLogPos'[d] <= sentPos[d] + 1 + MaxSpill
        <4>1. /\ sentPos[d] + 1 \in Nat /\ sentPos[d] + 1 + MaxSpill \in Nat
              /\ Receives(d, sentPos[d] + 1, sentPos[d] + 1 + MaxSpill)
          BY SMTT(20), <2>2, <2>9 DEF RecvCommit
        <4>2. clientXLogPos'[d] <= Later(clientXLogPos[d], sentPos[d] + 1 + MaxSpill)
          BY <4>1, ReceivesAdvances
        <4>3. clientXLogPos[d] <= sentPos[d] + MaxSpill
          BY <2>2, <3>4 DEF SessionInv
        <4>. QED  BY SMTT(20), <2>2, <4>1, <4>2, <4>3 DEF Later
      <3>8. startLSN[d] <= cursor /\ flushLSN[d] <= cursor
        BY <2>2 DEF SessionInv
      <3>9. Covered(sentPos[d], Handled \cup pendingInserts[d] \cup buf[d])'
        BY <3>1, <3>3, <3>5 DEF Covered, CoveredNext
      <3>10. Covered(pendingCommitLSN[d], Handled \cup pendingInserts[d])'
        BY <3>6 DEF Covered, CoveredNext
      <3>11. SessionInv(d)'
        BY <2>2, <3>1, <3>3, <3>4, <3>7, <3>8, <3>9, <3>10 DEF SessionInv
      <3>. QED  BY <2>1, <3>2, <3>11
    <2>10. CASE RecvKeepalive(d)
      <3>1. PICK walEnd \in sentPos[d]..Len(log) :
                /\ sendingTx[d] => walEnd = sentPos[d]
                /\ Skips(sentPos[d], walEnd + 1)
                /\ sentPos' = [sentPos EXCEPT ![d] = walEnd]
                /\ Receives(d, walEnd, walEnd)
        BY <2>10 DEF RecvKeepalive
      <3>2. /\ walEnd \in Nat /\ walEnd + 1 \in Nat /\ (walEnd + 1) - 1 = walEnd
            /\ walEnd <= Len(log) /\ sentPos[d] <= walEnd
        BY <2>2, <3>1 DEF TypeOK
      <3>3. /\ pc' = pc /\ pc[d] = "receive" /\ sendingTx' = sendingTx /\ unsent' = unsent
            /\ flushLSN' = flushLSN /\ buf' = buf /\ pendingInserts' = pendingInserts
            /\ pendingCommitLSN' = pendingCommitLSN /\ startLSN' = startLSN
            /\ log' = log /\ overclaimed' = overclaimed /\ cursor' = cursor
            /\ Handled' = Handled /\ sentPos'[d] = walEnd
        BY <2>10, <3>1 DEF RecvKeepalive, batch, control, database, TypeOK, Handled
      <3>4. InSession(d) /\ InSession(d)'
        BY <3>3 DEF InSession
      <3>5. startLSN[d] <= cursor /\ flushLSN[d] <= cursor
        BY <2>2 DEF SessionInv
      <3>6. SharedInv'
        <4>1. ConfirmedBehindCursor'
          <5>1. clientXLogPos'[d] \in Nat
            BY DEF TypeOK
          <5>2. confirmed' \in SendStandbyStatus(d, clientXLogPos'[d], flushLSN[d])
            BY <2>10 DEF RecvKeepalive
          <5>3. flushLSN[d] <= cursor' /\ cursor <= cursor' /\ ConfirmedBehindCursor
            BY <3>3, <3>5 DEF SharedInv
          <5>. QED  BY <2>2, <5>1, <5>2, <5>3, StatusBehindCursor
        <4>2. NoUnclaimedLoss'
          BY <3>3 DEF SharedInv, NoUnclaimedLoss, Covered
        <4>. QED  BY <3>3, <4>1, <4>2 DEF SharedInv
      <3>7. CoveredNext(walEnd, Handled \cup pendingInserts[d] \cup buf[d])
        <4>1. Covered(sentPos[d], Handled \cup pendingInserts[d] \cup buf[d])
          BY <2>2, <3>4 DEF SessionInv
        <4>2. CoveredNext((walEnd + 1) - 1, Handled \cup pendingInserts[d] \cup buf[d])
          BY <3>1, <3>2, <3>3, <4>1, SkipsCovered
        <4>. QED  BY <3>2, <4>2
      <3>8. CoveredNext(pendingCommitLSN[d], Handled \cup pendingInserts[d])
        BY <2>2, CoveredGrows DEF SessionInv
      <3>9. clientXLogPos'[d] <= walEnd + MaxSpill
        <4>1. clientXLogPos'[d] <= Later(clientXLogPos[d], walEnd)
          BY <3>1, <3>2, ReceivesAdvances
        <4>2. clientXLogPos[d] <= walEnd + MaxSpill
          BY <2>2, <3>2, <3>4 DEF SessionInv
        <4>3. clientXLogPos'[d] \in Nat
          BY DEF TypeOK
        <4>. QED  BY <2>2, <3>2, <4>1, <4>2, <4>3 DEF Later
      <3>10. SessionInv(d)'
        BY <2>2, <3>1, <3>3, <3>4, <3>5, <3>7, <3>8, <3>9 DEF SessionInv, Covered, CoveredNext
      <3>. QED  BY <2>1, <3>6, <3>10
    <2>11. CASE BatchTimeout(d) \/ SubmitSucceeds(d)
      <3>1. /\ sentPos' = sentPos /\ sendingTx' = sendingTx /\ unsent' = unsent
            /\ clientXLogPos' = clientXLogPos /\ flushLSN' = flushLSN /\ buf' = buf
            /\ pendingInserts' = pendingInserts /\ pendingCommitLSN' = pendingCommitLSN
            /\ startLSN' = startLSN /\ log' = log /\ overclaimed' = overclaimed
            /\ cursor' = cursor /\ confirmed' = confirmed
        BY <2>11 DEF BatchTimeout, SubmitSucceeds, MapResults, walsender, consumer, batch, database, slot
      <3>2. SharedInv'
        BY <3>1, SharedFrame
      <3>3. InSession(d) /\ InSession(d)'
        <4>1. pc[d] \in {"receive", "submit"}
          BY <2>11 DEF BatchTimeout, SubmitSucceeds
        <4>2. pc'[d] \in {"receive", "submit", "persist"}
          BY <2>11, <4>1 DEF BatchTimeout, SubmitSucceeds, TypeOK
        <4>. QED  BY <4>1, <4>2 DEF InSession
      <3>4. pc'[d] = "persist" => pendingInserts[d] \subseteq accepted' \cup rejected'[d]
        BY <2>11 DEF BatchTimeout, SubmitSucceeds, MapResults, TypeOK
      <3>5. /\ CoveredNext(sentPos[d], Handled' \cup pendingInserts[d] \cup buf[d])
            /\ CoveredNext(pendingCommitLSN[d], Handled' \cup pendingInserts[d])
        <4>1. /\ Covered(sentPos[d], Handled \cup pendingInserts[d] \cup buf[d])
              /\ Covered(pendingCommitLSN[d], Handled \cup pendingInserts[d])
          BY <2>2, <3>3 DEF SessionInv
        <4>2. CoveredNext(sentPos[d], Handled' \cup pendingInserts[d] \cup buf[d])
          BY <2>2, <4>1, CoveredGrows
        <4>3. CoveredNext(pendingCommitLSN[d], Handled' \cup pendingInserts[d])
          BY <2>2, <4>1, CoveredGrows
        <4>. QED  BY <4>2, <4>3
      <3>6. sendingTx[d] =>
              /\ sentPos[d] + 1 \in DOMAIN log
              /\ log[sentPos[d] + 1]
                    \subseteq Handled' \cup pendingInserts[d] \cup buf[d] \cup unsent[d]
        BY <2>2 DEF SessionInv
      <3>7. /\ startLSN[d] <= cursor /\ flushLSN[d] <= cursor
            /\ clientXLogPos[d] <= sentPos[d] + MaxSpill
        BY <2>2, <3>3 DEF SessionInv
      <3>8. SessionInv(d)'
        BY <3>1, <3>3, <3>4, <3>5, <3>6, <3>7 DEF SessionInv, Covered, CoveredNext
      <3>. QED  BY <2>1, <3>2, <3>8
    <2>12. CASE Persist(d) \/ PersistAborts(d)
      <3>1. /\ pc[d] = "persist" /\ PersistFlushResult(rejected[d], pendingCommitLSN[d])
            /\ log' = log /\ overclaimed' = overclaimed /\ accepted' = accepted
            /\ dropped' = dropped
        BY <2>12 DEF Persist, PersistAborts, FlushedLSN
      <3>2. cursor' = Later(cursor, pendingCommitLSN[d]) /\ pendingInserts[d] \subseteq Handled'
        BY <2>2, <3>1 DEF PersistFlushResult, WriteCursor, SessionInv, Handled
      <3>3. CoveredNext(pendingCommitLSN[d], Handled')
        BY <2>2, <3>2, CoveredGrows DEF SessionInv
      <3>4. NoUnclaimedLoss'
        BY <2>2, <3>2, <3>3, CursorMoves DEF SharedInv
      <3>5. pendingCommitLSN[d] <= cursor' /\ cursor <= cursor'
        BY <2>2, <3>2, LaterIsMax
      <3>6. CASE PersistAborts(d)
        <4>1. RunOnceReturns(d) /\ confirmed' = confirmed
          BY <3>6 DEF PersistAborts, slot
        <4>2. SharedInv'
          BY <3>1, <3>4, <3>5, <4>1 DEF SharedInv, ConfirmedBehindCursor
        <4>. QED  BY <2>1, <4>1, <4>2, SessionEnded
      <3>7. CASE Persist(d)
        <4>1. /\ sentPos' = sentPos /\ sendingTx' = sendingTx /\ unsent' = unsent
              /\ clientXLogPos' = clientXLogPos /\ buf' = buf /\ startLSN' = startLSN
              /\ pendingCommitLSN' = pendingCommitLSN
              /\ flushLSN'[d] = Later(flushLSN[d], pendingCommitLSN[d])
              /\ pendingInserts'[d] = {} /\ pc'[d] = "receive"
              /\ confirmed' \in SendStandbyStatus(d, clientXLogPos[d], flushLSN'[d])
          BY <3>7 DEF Persist, ClearsBatch, FlushedLSN, walsender, TypeOK
        <4>2. InSession(d) /\ InSession(d)'
          BY <3>1, <4>1 DEF InSession
        <4>3. /\ startLSN[d] <= cursor /\ flushLSN[d] <= cursor
              /\ clientXLogPos[d] <= sentPos[d] + MaxSpill
          BY <2>2, <4>2 DEF SessionInv
        <4>4. flushLSN'[d] \in Nat /\ flushLSN'[d] <= cursor' /\ startLSN[d] <= cursor'
          BY <2>2, <3>5, <4>1, <4>3 DEF Later
        <4>5. ConfirmedBehindCursor'
          BY <2>2, <3>5, <4>1, <4>4, StatusBehindCursor DEF SharedInv
        <4>6. SharedInv'
          BY <3>1, <3>4, <4>5 DEF SharedInv
        <4>7. CoveredNext(sentPos[d], Handled' \cup buf[d])
          <5>1. Covered(sentPos[d], Handled \cup pendingInserts[d] \cup buf[d])
            BY <2>2, <4>2 DEF SessionInv
          <5>2. Handled \cup pendingInserts[d] \cup buf[d] \subseteq Handled' \cup buf[d]
            BY <2>2, <3>2
          <5>. QED  BY SMTT(20), <2>2, <5>1, <5>2, CoveredGrows
        <4>8. sendingTx[d] =>
                /\ sentPos[d] + 1 \in DOMAIN log
                /\ log[sentPos[d] + 1] \subseteq Handled' \cup buf[d] \cup unsent[d]
          BY <2>2, <3>2 DEF SessionInv
        <4>9. Covered(sentPos[d], Handled \cup pendingInserts[d] \cup buf[d])'
          BY <4>1, <4>7 DEF Covered, CoveredNext
        <4>10. Covered(pendingCommitLSN[d], Handled \cup pendingInserts[d])'
          BY <3>3, <4>1 DEF Covered, CoveredNext
        <4>11. SessionInv(d)'
          BY <3>1, <4>1, <4>2, <4>3, <4>4, <4>8, <4>9, <4>10 DEF SessionInv
        <4>. QED  BY <2>1, <4>6, <4>11
      <3>. QED  BY <2>12, <3>6, <3>7
    <2>13. ASSUME PersistWritePos(d), IdleFlush(d), InSession(d), UNCHANGED <<log, accepted, dropped>>
           PROVE  /\ NoUnclaimedLoss' /\ clientXLogPos[d] <= cursor' /\ cursor <= cursor'
                  /\ MaxSpill = 0 => overclaimed' = {}
      <3>1. /\ cursor' = Later(cursor, clientXLogPos[d])
            /\ overclaimed' = overclaimed \cup (sentPos[d] + 1)..clientXLogPos[d]
        BY <2>13 DEF PersistWritePos, PersistFlushResult, WriteCursor
      <3>2. Covered(sentPos[d], Handled)
        <4>1. pendingInserts[d] = {} /\ buf[d] = {}
          BY <2>13 DEF IdleFlush, CanAdvanceIdleFlush
        <4>. QED  BY <2>2, <2>13, <4>1 DEF SessionInv, Covered
      <3>3. CoveredNext(sentPos[d], Handled')
        BY <2>2, <3>2, CoveredGrows
      <3>4. CoveredNext(clientXLogPos[d], Handled')
        BY <2>2, <3>1, <3>3 DEF CoveredNext
      <3>5. NoUnclaimedLoss'
        BY <2>2, <3>1, <3>4, CursorMoves DEF SharedInv
      <3>6. clientXLogPos[d] <= cursor' /\ cursor <= cursor'
        BY <2>2, <3>1, LaterIsMax
      <3>7. ASSUME MaxSpill = 0 PROVE overclaimed' = {}
        <4>1. clientXLogPos[d] <= sentPos[d] /\ overclaimed = {}
          BY <2>2, <2>13, <3>7 DEF SessionInv, SharedInv
        <4>2. (sentPos[d] + 1)..clientXLogPos[d] = {}
          BY <2>2, <4>1
        <4>. QED  BY <3>1, <4>1, <4>2
      <3>. QED  BY <3>5, <3>6, <3>7
    <2>14. CASE TickAborts(d)
      <3>1. /\ RunOnceReturns(d) /\ PersistWritePos(d) /\ IdleFlush(d) /\ InSession(d)
            /\ UNCHANGED <<log, accepted, dropped>> /\ confirmed' = confirmed
        BY <2>14 DEF TickAborts, InSession, slot
      <3>2. SharedInv'
        BY <2>13, <3>1 DEF SharedInv, ConfirmedBehindCursor
      <3>. QED  BY <2>1, <3>1, <3>2, SessionEnded
    <2>15. CASE StandbyTick(d)
      <3>1. /\ pc' = pc /\ sentPos' = sentPos /\ sendingTx' = sendingTx /\ unsent' = unsent
            /\ clientXLogPos' = clientXLogPos /\ buf' = buf /\ startLSN' = startLSN
            /\ pendingCommitLSN' = pendingCommitLSN /\ pendingInserts' = pendingInserts
            /\ rejected' = rejected /\ log' = log /\ accepted' = accepted
            /\ dropped' = dropped /\ pc[d] = "receive"
            /\ confirmed' \in SendStandbyStatus(d, clientXLogPos[d], flushLSN'[d])
        BY <2>15 DEF StandbyTick, walsender, batch, control
      <3>2. InSession(d) /\ InSession(d)'
        BY <3>1 DEF InSession
      <3>3. /\ startLSN[d] <= cursor /\ flushLSN[d] <= cursor
            /\ clientXLogPos[d] <= sentPos[d] + MaxSpill
        BY <2>2, <3>2 DEF SessionInv
      <3>4. /\ NoUnclaimedLoss' /\ (MaxSpill = 0 => overclaimed' = {})
            /\ cursor <= cursor' /\ flushLSN'[d] <= cursor' /\ flushLSN'[d] \in Nat
        <4>1. CASE IdleFlush(d)
          <5>1. PersistWritePos(d) /\ flushLSN'[d] = clientXLogPos[d]
            BY <2>15, <4>1 DEF StandbyTick, TypeOK
          <5>. QED  BY <2>2, <2>13, <3>1, <3>2, <4>1, <5>1
        <4>2. CASE ~IdleFlush(d)
          <5>1. cursor' = cursor /\ dlq' = dlq /\ overclaimed' = overclaimed /\ flushLSN' = flushLSN
            BY <2>15, <4>2 DEF StandbyTick, database
          <5>. QED  BY <2>2, <3>1, <3>3, <5>1 DEF SharedInv, NoUnclaimedLoss, Covered, Handled
        <4>. QED  BY <4>1, <4>2
      <3>5. ConfirmedBehindCursor'
        BY <2>2, <3>1, <3>4, StatusBehindCursor DEF SharedInv
      <3>6. /\ CoveredNext(sentPos[d], Handled' \cup pendingInserts[d] \cup buf[d])
            /\ CoveredNext(pendingCommitLSN[d], Handled' \cup pendingInserts[d])
        <4>1. /\ Covered(sentPos[d], Handled \cup pendingInserts[d] \cup buf[d])
              /\ Covered(pendingCommitLSN[d], Handled \cup pendingInserts[d])
          BY <2>2, <3>2 DEF SessionInv
        <4>2. CoveredNext(sentPos[d], Handled' \cup pendingInserts[d] \cup buf[d])
          BY <2>2, <4>1, CoveredGrows
        <4>3. CoveredNext(pendingCommitLSN[d], Handled' \cup pendingInserts[d])
          BY <2>2, <4>1, CoveredGrows
        <4>. QED  BY <4>2, <4>3
      <3>7. sendingTx[d] =>
              /\ sentPos[d] + 1 \in DOMAIN log
              /\ log[sentPos[d] + 1]
                    \subseteq Handled' \cup pendingInserts[d] \cup buf[d] \cup unsent[d]
        BY <2>2 DEF SessionInv
      <3>8. startLSN[d] <= cursor'
        BY <2>2, <3>3, <3>4
      <3>9. SessionInv(d)'
        BY <3>1, <3>2, <3>3, <3>4, <3>6, <3>7, <3>8 DEF SessionInv, Covered, CoveredNext
      <3>. QED  BY <2>1, <3>4, <3>5, <3>9 DEF SharedInv
    <2>. QED
      BY <1>4, <2>3, <2>4, <2>5, <2>6, <2>7, <2>8, <2>9, <2>10, <2>11, <2>12, <2>14, <2>15
         DEF DriverNext, Step, Receive, Failure, StartBusy, ReceiveFails, Crash, SubmitFails,
             PersistRefused
  <1>5. CASE UNCHANGED vars
    <2>1. SharedInv'
      BY <1>5, SharedFrame DEF vars, database, slot
    <2>2. ASSUME NEW e \in Drivers PROVE SameSession(e)
      BY <1>5 DEF vars, SameSession, session, walsender, consumer, batch, control
    <2>. QED  BY <2>1, <2>2, SessionFrame, InvPartsNext
  <1>. QED  BY <1>3, <1>4, <1>5 DEF Next, DriverNext

\* The inductive invariant holds in every reachable state, for every MaxSpill.
THEOREM InvariantHolds == Spec => []DeliveryInv
  <1>1. Init => TypeOK /\ DeliveryInv
    BY TypeInit, InvInit
  <1>2. TypeOK /\ DeliveryInv /\ [Next]_vars => (TypeOK /\ DeliveryInv)'
    BY TypeNext, InvNext
  <1>. QED  BY <1>1, <1>2, PTL DEF Spec

\* Only a position that an idle flush persisted past what the session had received can
\* hide a row, however many replicas, batches and failures there are.
THEOREM OnlySpillLoses == Spec => []NoUnclaimedLoss
  <1>1. DeliveryInv => NoUnclaimedLoss
    BY DEF DeliveryInv
  <1>. QED  BY <1>1, InvariantHolds, PTL

\* PostgreSQL is never told to discard WAL that the cursor table has not passed.
THEOREM SlotBehindCursor == Spec => []ConfirmedBehindCursor
  <1>1. DeliveryInv => ConfirmedBehindCursor
    BY DEF DeliveryInv
  <1>. QED  BY <1>1, InvariantHolds, PTL

\* At-least-once delivery: if no message is longer than the distance to the next commit
\* record, no row behind the cursor is ever lost.
THEOREM AtLeastOnce == ASSUME MaxSpill = 0 PROVE Spec => []NoLoss
  <1>1. TypeOK /\ DeliveryInv => NoLoss
    <2>. SUFFICES ASSUME TypeOK, DeliveryInv, NEW i \in DOMAIN log, i <= cursor
                  PROVE  log[i] \subseteq Handled
      BY DEF NoLoss, Handled
    <2>1. overclaimed = {} /\ Covered(cursor, Handled)
      BY DEF DeliveryInv, SpillBound, NoUnclaimedLoss
    <2>2. i \in 1..cursor
      BY DEF TypeOK
    <2>. QED  BY <2>1, <2>2 DEF Covered
  <1>. QED  BY <1>1, TypeCorrect, InvariantHolds, PTL

\* No step of any replica, zombie or not, moves the cursor back.
THEOREM CursorNeverBack == Spec => CursorMonotone
  <1>1. TypeOK /\ [Next]_vars => [cursor' >= cursor]_vars
    <2>. SUFFICES ASSUME TypeOK, [Next]_vars PROVE cursor' >= cursor
      OBVIOUS
    <2>1. Grows /\ cursor \in Nat /\ cursor' \in Nat
      BY StepGrows, TypeNext DEF TypeOK
    <2>. QED  BY <2>1 DEF Grows
  <1>. QED  BY <1>1, TypeCorrect, PTL DEF Spec, CursorMonotone

-----------------------------------------------------------------------------
(* The batch timer.                                                        *)

\* BatchDeadline, also while the batch is being flushed.
Armed == \A d \in Drivers : pendingInserts[d] # {} => nextBatchAt[d]

LEMMA ArmedNext == ASSUME TypeOK, Armed, [Next]_vars PROVE Armed'
  <1>. SUFFICES ASSUME NEW e \in Drivers, pendingInserts'[e] # {} PROVE nextBatchAt'[e]
    BY DEF Armed
  <1>1. pendingInserts[e] # {} => nextBatchAt[e]
    BY DEF Armed
  <1>2. CASE UNCHANGED <<pendingInserts, nextBatchAt>>
    BY <1>1, <1>2
  <1>3. ASSUME NEW d \in Drivers, RunOnceReturns(d) PROVE nextBatchAt'[e]
    BY <1>1, <1>3 DEF RunOnceReturns, TypeOK
  <1>4. ASSUME NEW d \in Drivers, BatchCommit(d, sentPos[d] + 1) PROVE nextBatchAt'[e]
    \* The batch had rows, and the timer was set, or the commit brings the first ones.
    <2>1. CASE e = d
      <3>1. /\ pendingInserts'[d] = pendingInserts[d] \cup buf[d]
            /\ nextBatchAt'[d] = (nextBatchAt[d] \/ Arms(d))
        BY <1>4 DEF BatchCommit, TypeOK
      <3>. QED  BY <1>1, <2>1, <3>1 DEF Arms
    <2>2. CASE e # d
      BY <1>1, <1>4, <2>2 DEF BatchCommit, TypeOK
    <2>. QED  BY <2>1, <2>2
  <1>5. ASSUME NEW d \in Drivers, BatchTimeout(d) PROVE nextBatchAt'[e]
    BY <1>1, <1>5 DEF BatchTimeout, TypeOK
  <1>6. ASSUME NEW d \in Drivers, Persist(d) PROVE nextBatchAt'[e]
    BY <1>1, <1>6 DEF Persist, ClearsBatch, TypeOK
  <1>7. ASSUME NEW d \in Drivers, RecvCommit(d) PROVE nextBatchAt'[e]
    BY <1>2, <1>4, <1>7 DEF RecvCommit, batch
  <1>8. ASSUME NEW S \in SUBSET Rows, Commit(S) PROVE nextBatchAt'[e]
    BY <1>2, <1>8 DEF Commit, session, batch
  <1>9. ASSUME NEW d \in Drivers,
               ReadCursor(d) \/ StartStreaming(d) \/ RecvBegin(d) \/ RecvRelation(d)
               \/ RecvInsert(d) \/ RecvKeepalive(d) \/ SubmitSucceeds(d) \/ StandbyTick(d)
               \/ ReleaseSlot(d) \/ LoseSlot(d)
        PROVE  nextBatchAt'[e]
    BY <1>2, <1>9 DEF ReadCursor, StartStreaming, RecvBegin, RecvRelation, RecvInsert,
       RecvKeepalive, SubmitSucceeds, StandbyTick, ReleaseSlot, LoseSlot, session, batch
  <1>10. CASE UNCHANGED vars
    BY <1>2, <1>10 DEF vars, session, batch
  <1>. QED
    BY <1>3, <1>5, <1>6, <1>7, <1>8, <1>9, <1>10 DEF Next, Step, Receive, Failure, StartBusy,
       ReceiveFails, Crash, SubmitFails, PersistAborts, PersistRefused, TickAborts

\* No session waits for messages with rows pending and no deadline to flush them.
THEOREM BatchesHaveDeadline == Spec => []BatchDeadline
  <1>1. Init => Armed
    BY DEF Init, Armed
  <1>2. Armed => BatchDeadline
    BY DEF Armed, BatchDeadline
  <1>. QED  BY <1>1, <1>2, ArmedNext, TypeCorrect, PTL DEF Spec

-----------------------------------------------------------------------------
(* Which rows are dropped.                                                 *)

RowsDecode == "Relation" \notin Undecodable /\ "Insert" \notin Undecodable

\* If Relation messages decode a session knows each relation it was sent.
RelationsKnown == RowsDecode => \A d \in Drivers : sentRelations[d] \subseteq relations[d]

LEMMA RelationsKnownNext == ASSUME TypeOK, RelationsKnown, [Next]_vars PROVE RelationsKnown'
  <1>. SUFFICES ASSUME RowsDecode, NEW e \in Drivers
                PROVE  sentRelations'[e] \subseteq relations'[e]
    BY DEF RelationsKnown
  <1>1. sentRelations[e] \subseteq relations[e]
    BY DEF RelationsKnown
  <1>2. CASE UNCHANGED <<sentRelations, relations>>
    BY <1>1, <1>2
  <1>3. ASSUME NEW d \in Drivers, RunOnceReturns(d) PROVE sentRelations'[e] \subseteq relations'[e]
    BY <1>1, <1>3 DEF RunOnceReturns, TypeOK
  <1>4. ASSUME NEW d \in Drivers, RecvRelation(d) PROVE sentRelations'[e] \subseteq relations'[e]
    <2>1. PICK rel : /\ sentRelations' = [sentRelations EXCEPT ![d] = sentRelations[d] \cup {rel}]
                     /\ relations' = [relations EXCEPT ![d] = relations[d] \cup {rel}]
      BY <1>4 DEF RecvRelation, Decodes, SetRelation, RowsDecode
    <2>. QED  BY <1>1, <2>1 DEF TypeOK
  <1>5. ASSUME NEW S \in SUBSET Rows, Commit(S) PROVE UNCHANGED <<sentRelations, relations>>
    BY <1>5 DEF Commit, session, walsender, consumer
  <1>6. ASSUME NEW d \in Drivers,
               \/ ReadCursor(d) \/ StartStreaming(d) \/ RecvBegin(d) \/ RecvInsert(d)
               \/ RecvCommit(d) \/ RecvKeepalive(d) \/ BatchTimeout(d) \/ SubmitSucceeds(d)
               \/ Persist(d) \/ StandbyTick(d) \/ ReleaseSlot(d) \/ LoseSlot(d)
        PROVE  UNCHANGED <<sentRelations, relations>>
    BY <1>6 DEF ReadCursor, StartStreaming, RecvBegin, RecvInsert, RecvCommit, RecvKeepalive,
       BatchTimeout, SubmitSucceeds, Persist, StandbyTick, ReleaseSlot, LoseSlot, session,
       walsender, consumer
  <1>7. CASE UNCHANGED vars
    BY <1>2, <1>7 DEF vars, session, walsender, consumer
  <1>. QED
    BY <1>2, <1>3, <1>4, <1>5, <1>6, <1>7 DEF Next, Step, Receive, Failure, StartBusy,
       ReceiveFails, Crash, SubmitFails, PersistAborts, PersistRefused, TickAborts

\* While Relation and Insert messages decode a row is skipped only for its own columns: its
\* relation is known in every session, the restarted ones included, because a new session of the
\* walsender sends every Relation again.
THEOREM OnlyMalformed == Spec => []OnlyMalformedDropped
  <1>1. Init => RelationsKnown /\ OnlyMalformedDropped
    BY DEF Init, RelationsKnown, OnlyMalformedDropped
  <1>2. ASSUME TypeOK, RelationsKnown, OnlyMalformedDropped, [Next]_vars
        PROVE  OnlyMalformedDropped'
    <2>. SUFFICES ASSUME RowsDecode PROVE dropped' \subseteq Malformed
      BY DEF OnlyMalformedDropped, RowsDecode
    <2>1. dropped \subseteq Malformed
      BY <1>2 DEF OnlyMalformedDropped, RowsDecode
    <2>2. ASSUME NEW d \in Drivers, RecvInsert(d) PROVE dropped' \subseteq Malformed
      <3>1. PICK r \in unsent[d] :
                /\ RelationOf[r] \in sentRelations[d]
                /\ Parses(d, r) \/ dropped' = dropped \cup {r}
                /\ Parses(d, r) => dropped' = dropped
        BY <2>2 DEF RecvInsert, Decodes, RowsDecode
      <3>2. RelationOf[r] \in relations[d]
        BY <1>2, <3>1 DEF RelationsKnown
      <3>. QED  BY <2>1, <3>1, <3>2 DEF Parses
    <2>3. ASSUME NEW S \in SUBSET Rows, Commit(S) PROVE dropped' = dropped
      BY <2>3 DEF Commit
    <2>4. ASSUME NEW d \in Drivers, DriverNext(d), ~RecvInsert(d) PROVE dropped' = dropped
      BY <2>4 DEF DriverNext, Step, Receive, Failure, ReadCursor, StartStreaming, StartBusy,
         ReceiveFails, Crash, ReleaseSlot, LoseSlot, RecvBegin, RecvRelation, RecvCommit,
         RecvKeepalive, BatchTimeout, SubmitSucceeds, SubmitFails, Persist, PersistAborts,
         PersistRefused, StandbyTick, TickAborts
    <2>. QED  BY <1>2, <2>1, <2>2, <2>3, <2>4 DEF Next, DriverNext, vars
  <1>. QED  BY <1>1, <1>2, RelationsKnownNext, TypeCorrect, PTL DEF Spec

-----------------------------------------------------------------------------
(* Where in the log the rows of a session and of the DLQ are.              *)

\* Every row of S is in a transaction that ends at or below p.
InLog(S, p) == \A r \in S : \E i \in DOMAIN log : i <= p /\ r \in log[i]

\* The end of the last transaction of which the session of d may have rows.
Reached(d) == IF sendingTx[d] THEN sentPos[d] + 1 ELSE sentPos[d]

\* No row is in two transactions.
RowsOnce == \A i, j \in DOMAIN log : log[i] \cap log[j] # {} => i = j

\* The rows a session holds are where its positions say.
SessionPlaced(d) ==
    /\ ~InSession(d) => /\ pendingInserts[d] = {} /\ buf[d] = {} /\ unsent[d] = {}
                        /\ ~sendingTx[d]
    /\ sendingTx[d] => sentPos[d] + 1 \in DOMAIN log /\ unsent[d] \subseteq log[sentPos[d] + 1]
    /\ ~sendingTx[d] => unsent[d] = {}
    /\ InLog(buf[d], Reached(d))
    /\ InLog(pendingInserts[d], pendingCommitLSN[d])
    /\ rejected[d] \subseteq pendingInserts[d]

\* DLQBehindCursor with what it rests on.
PlacedInv == RowsOnce /\ InLog(dlq, cursor) /\ \A d \in Drivers : SessionPlaced(d)

\* InLog in the next state, for values of this one.
InLogNext(S, p) == \A r \in S : \E i \in DOMAIN log' : i <= p /\ r \in log'[i]

\* Rows stay where they are, also if fewer of them are asked for, below a later position.
LEMMA InLogGrows ==
    ASSUME TypeOK, Grows, NEW p \in Nat, NEW q \in Nat, p <= q, NEW S, NEW T,
           InLog(S, p), T \subseteq S
    PROVE  InLogNext(T, q)
  <1>. SUFFICES ASSUME NEW r \in T PROVE \E i \in DOMAIN log' : i <= q /\ r \in log'[i]
    BY DEF InLogNext
  <1>1. PICK i \in DOMAIN log : i <= p /\ r \in log[i]
    BY DEF InLog
  <1>2. i \in DOMAIN log' /\ log'[i] = log[i] /\ i \in Nat
    BY DEF Grows, TypeOK
  <1>. QED  BY <1>1, <1>2

LEMMA ReachedType == ASSUME TypeOK, NEW d \in Drivers PROVE Reached(d) \in Nat
  BY DEF TypeOK, Reached

\* A client transaction brings rows that were in no transaction before.
LEMMA RowsOnceNext == ASSUME TypeOK, RowsOnce, [Next]_vars PROVE RowsOnce'
  <1>1. ASSUME NEW S \in SUBSET Rows, Commit(S) PROVE RowsOnce'
    <2>. SUFFICES ASSUME NEW i \in DOMAIN log', NEW j \in DOMAIN log', NEW r,
                         r \in log'[i], r \in log'[j]
                  PROVE  i = j
      BY DEF RowsOnce
    <2>1. log' = Append(log, S) /\ log \in Seq(SUBSET Rows) /\ S \cap Committed = {}
      BY <1>1 DEF Commit, TypeOK
    <2>2. /\ DOMAIN log' = DOMAIN log \cup {Len(log) + 1} /\ log'[Len(log) + 1] = S
          /\ \A k \in DOMAIN log : log'[k] = log[k]
      BY <2>1
    <2>3. \A k \in DOMAIN log : r \in log[k] => r \notin S
      BY <2>1 DEF Committed
    <2>. QED  BY <2>2, <2>3 DEF RowsOnce
  <1>2. ASSUME NEW d \in Drivers, DriverNext(d) PROVE log' = log
    BY <1>2 DEF DriverNext, Step, Receive, Failure, ReadCursor, StartStreaming, StartBusy,
       ReceiveFails, Crash, ReleaseSlot, LoseSlot, RecvBegin, RecvRelation, RecvInsert,
       RecvCommit, RecvKeepalive, BatchTimeout, SubmitSucceeds, SubmitFails, Persist,
       PersistAborts, PersistRefused, StandbyTick, TickAborts
  <1>3. CASE log' = log
    BY <1>3 DEF RowsOnce
  <1>. QED  BY <1>1, <1>2, <1>3 DEF Next, DriverNext, vars

\* A session that a step leaves alone keeps its rows in their places.
LEMMA PlacedFrame ==
    ASSUME TypeOK, Grows, NEW e \in Drivers, SessionPlaced(e), SameSession(e)
    PROVE  SessionPlaced(e)'
  <1>1. InSession(e)' <=> InSession(e)
    BY DEF InSession, SameSession
  <1>2. Reached(e)' = Reached(e) /\ Reached(e) \in Nat /\ pendingCommitLSN[e] \in Nat
    BY ReachedType DEF Reached, SameSession, TypeOK
  <1>3. InLogNext(buf[e], Reached(e)) /\ InLogNext(pendingInserts[e], pendingCommitLSN[e])
    BY <1>2, InLogGrows DEF SessionPlaced
  <1>4. InLog(buf[e], Reached(e))' /\ InLog(pendingInserts[e], pendingCommitLSN[e])'
    BY <1>2, <1>3 DEF InLog, InLogNext, SameSession
  <1>5. sendingTx[e] => sentPos[e] + 1 \in DOMAIN log' /\ unsent[e] \subseteq log'[sentPos[e] + 1]
    BY DEF SessionPlaced, Grows
  <1>. QED  BY <1>1, <1>4, <1>5 DEF SessionPlaced, SameSession

\* A session that has ended holds nothing.
LEMMA PlacedEnded ==
    ASSUME TypeOK, NEW d \in Drivers, RunOnceReturns(d)
    PROVE  SessionPlaced(d)'
  <1>1. /\ pendingInserts'[d] = {} /\ buf'[d] = {} /\ unsent'[d] = {} /\ rejected'[d] = {}
        /\ sendingTx'[d] = FALSE
    BY DEF RunOnceReturns, TypeOK
  <1>. QED  BY <1>1 DEF SessionPlaced, InLog

\* The rows of the DLQ are behind the cursor: a step leaves both alone, or writes the
\* rejected rows of a batch together with the position of the batch.
LEMMA DLQPlacedNext ==
    ASSUME TypeOK, PlacedInv, [Next]_vars
    PROVE  InLog(dlq, cursor)'
  <1>1. Grows /\ cursor \in Nat /\ cursor' \in Nat
    BY StepGrows, TypeNext DEF TypeOK
  <1>2. InLogNext(dlq, cursor')
    BY <1>1, InLogGrows DEF PlacedInv, Grows
  <1>3. CASE dlq' = dlq
    BY <1>2, <1>3 DEF InLog, InLogNext
  <1>4. ASSUME NEW d \in Drivers, Persist(d) \/ PersistAborts(d) PROVE InLog(dlq, cursor)'
    <2>1. dlq' = dlq \cup rejected[d] /\ cursor' = Later(cursor, pendingCommitLSN[d])
      BY <1>4 DEF Persist, PersistAborts, PersistFlushResult, WriteCursor, FlushedLSN
    <2>2. pendingCommitLSN[d] \in Nat /\ pendingCommitLSN[d] <= cursor'
      BY <2>1, LaterIsMax DEF TypeOK
    <2>3. InLogNext(rejected[d], cursor')
      BY <1>1, <2>2, InLogGrows DEF PlacedInv, SessionPlaced
    <2>. QED  BY <1>2, <2>1, <2>3 DEF InLog, InLogNext
  <1>5. ASSUME NEW d \in Drivers, DriverNext(d), ~Persist(d), ~PersistAborts(d) PROVE dlq' = dlq
    BY <1>5 DEF DriverNext, Step, Receive, Failure, ReadCursor, StartStreaming, StartBusy,
       ReceiveFails, Crash, ReleaseSlot, LoseSlot, RecvBegin, RecvRelation, RecvInsert,
       RecvCommit, RecvKeepalive, BatchTimeout, SubmitSucceeds, SubmitFails,
       PersistRefused, StandbyTick, TickAborts, PersistWritePos, PersistFlushResult, database
  <1>6. ASSUME NEW S \in SUBSET Rows, Commit(S) PROVE dlq' = dlq
    BY <1>6 DEF Commit, database
  <1>7. CASE UNCHANGED vars
    BY <1>3, <1>7 DEF vars, database
  <1>. QED  BY <1>3, <1>4, <1>5, <1>6, <1>7 DEF Next, DriverNext

\* A step of d keeps the rows of its session in their places.
LEMMA SessionPlacedNext ==
    ASSUME TypeOK, Grows, NEW d \in Drivers, SessionPlaced(d), DriverNext(d)
    PROVE  SessionPlaced(d)'
  <1>0. /\ sentPos[d] \in Nat /\ Reached(d) \in Nat /\ pendingCommitLSN[d] \in Nat
        /\ sentPos[d] <= Reached(d) /\ startLSN[d] \in Nat
    BY ReachedType DEF TypeOK, Reached
  <1>1. CASE RunOnceReturns(d)
    BY <1>1, PlacedEnded
  <1>2. CASE SameSession(d)
    BY <1>2, PlacedFrame
  <1>3. CASE ReadCursor(d) \/ StartStreaming(d)
    <2>1. ~InSession(d)
      BY <1>3 DEF ReadCursor, StartStreaming, InSession
    <2>2. /\ pendingInserts' = pendingInserts /\ buf' = buf /\ unsent' = unsent
          /\ sendingTx' = sendingTx /\ rejected' = rejected
      BY <1>3 DEF ReadCursor, StartStreaming, walsender, batch
    <2>. QED  BY <2>1, <2>2 DEF SessionPlaced, InLog
  <1>4. ASSUME InSession(d), InSession(d)', UNCHANGED <<buf, pendingInserts, pendingCommitLSN>>,
               rejected'[d] \subseteq pendingInserts[d], Reached(d) <= Reached(d)',
               Reached(d)' \in Nat,
               sendingTx'[d] => /\ sentPos'[d] + 1 \in DOMAIN log'
                                /\ unsent'[d] \subseteq log'[sentPos'[d] + 1],
               ~sendingTx'[d] => unsent'[d] = {}
        PROVE  SessionPlaced(d)'
    <2>1. /\ InLogNext(buf[d], Reached(d)')
          /\ InLogNext(pendingInserts[d], pendingCommitLSN[d])
      BY <1>0, <1>4, InLogGrows DEF SessionPlaced
    <2>. QED  BY <1>4, <2>1 DEF SessionPlaced, InLog, InLogNext
  <1>5. CASE RecvBegin(d)
    <2>1. PICK n \in (sentPos[d] + 1)..Len(log) :
              /\ sentPos' = [sentPos EXCEPT ![d] = n - 1]
              /\ unsent' = [unsent EXCEPT ![d] = log[n]]
      BY <1>5 DEF RecvBegin
    <2>2. /\ ~sendingTx[d] /\ sendingTx'[d] /\ pc' = pc /\ pc[d] = "receive" /\ log' = log
          /\ UNCHANGED <<buf, pendingInserts, pendingCommitLSN, rejected>>
      BY <1>5 DEF RecvBegin, control, TypeOK
    <2>3. sentPos'[d] = n - 1 /\ unsent'[d] = log[n] /\ n \in DOMAIN log /\ n \in Nat
      BY <1>0, <2>1 DEF TypeOK
    <2>4. InSession(d) /\ InSession(d)'
      BY <2>2 DEF InSession
    <2>5. Reached(d) = sentPos[d] /\ Reached(d)' = n
      BY <2>2, <2>3 DEF Reached
    <2>6. sentPos'[d] + 1 = n /\ sentPos[d] <= n
      BY <1>0, <2>1, <2>3
    <2>7. rejected'[d] \subseteq pendingInserts[d]
      BY <2>2 DEF SessionPlaced
    <2>. QED  BY <1>4, <2>2, <2>3, <2>4, <2>5, <2>6, <2>7
  <1>6. CASE RecvRelation(d) \/ BatchTimeout(d) \/ StandbyTick(d) \/ SubmitSucceeds(d)
    <2>1. /\ UNCHANGED <<sentPos, sendingTx, unsent, buf, pendingInserts, pendingCommitLSN>>
          /\ log' = log /\ rejected'[d] \subseteq pendingInserts[d]
      BY <1>6 DEF RecvRelation, BatchTimeout, StandbyTick, SubmitSucceeds, MapResults,
         walsender, batch, control, SessionPlaced, TypeOK
    <2>2. InSession(d) /\ InSession(d)'
      BY <1>6 DEF RecvRelation, BatchTimeout, StandbyTick, SubmitSucceeds, InSession, control, TypeOK
    <2>3. Reached(d)' = Reached(d)
      BY <2>1 DEF Reached
    <2>. QED  BY <1>0, <1>4, <2>1, <2>2, <2>3 DEF SessionPlaced
  <1>7. CASE RecvKeepalive(d)
    <2>1. PICK walEnd \in sentPos[d]..Len(log) :
              /\ sendingTx[d] => walEnd = sentPos[d]
              /\ sentPos' = [sentPos EXCEPT ![d] = walEnd]
      BY <1>7 DEF RecvKeepalive
    <2>2. /\ UNCHANGED <<sendingTx, unsent, buf, pendingInserts, pendingCommitLSN, rejected, pc>>
          /\ log' = log /\ pc[d] = "receive"
      BY <1>7 DEF RecvKeepalive, batch, control
    <2>3. /\ sentPos'[d] = walEnd /\ walEnd \in Nat /\ sentPos[d] <= walEnd
      BY <1>0, <2>1 DEF TypeOK
    <2>4. InSession(d) /\ InSession(d)'
      BY <2>2 DEF InSession
    <2>5. Reached(d)' \in Nat /\ Reached(d) <= Reached(d)'
      BY <1>0, <2>1, <2>2, <2>3 DEF Reached
    <2>. QED  BY <1>4, <2>1, <2>2, <2>3, <2>4, <2>5 DEF SessionPlaced
  <1>8. CASE RecvInsert(d)
    <2>1. PICK r \in unsent[d] :
              /\ unsent' = [unsent EXCEPT ![d] = unsent[d] \ {r}]
              /\ \/ buf' = [buf EXCEPT ![d] = buf[d] \cup {r}]
                 \/ buf' = buf
      BY <1>8 DEF RecvInsert
    <2>2. /\ UNCHANGED <<sentPos, sendingTx, pendingInserts, pendingCommitLSN, rejected, pc>>
          /\ log' = log /\ pc[d] = "receive"
      BY <1>8 DEF RecvInsert, control
    <2>3. InSession(d) /\ InSession(d)'
      BY <2>2 DEF InSession
    <2>4. sendingTx[d] /\ sentPos[d] + 1 \in DOMAIN log /\ unsent[d] \subseteq log[sentPos[d] + 1]
      BY <2>1 DEF SessionPlaced
    <2>5. Reached(d) = sentPos[d] + 1 /\ Reached(d)' = Reached(d)
      BY <2>2, <2>4 DEF Reached
    <2>6. buf'[d] \subseteq buf[d] \cup {r} /\ unsent'[d] = unsent[d] \ {r}
      BY <2>1 DEF TypeOK
    <2>7. InLog(buf[d], Reached(d))'
      <3>1. InLog({r}, Reached(d)) /\ InLog(buf[d], Reached(d))
        BY <1>0, <2>4, <2>5 DEF InLog, SessionPlaced
      <3>. QED  BY <2>2, <2>5, <2>6, <3>1 DEF InLog
    <2>8. InLog(pendingInserts[d], pendingCommitLSN[d])'
      BY <2>2 DEF SessionPlaced, InLog
    <2>9. rejected'[d] \subseteq pendingInserts'[d]
      BY <2>2 DEF SessionPlaced
    <2>. QED  BY <2>2, <2>3, <2>4, <2>6, <2>7, <2>8, <2>9 DEF SessionPlaced
  <1>9. CASE RecvCommit(d)
    <2>1. /\ sendingTx[d] /\ sendingTx'[d] = FALSE /\ unsent' = unsent /\ unsent[d] = {}
          /\ sentPos'[d] = sentPos[d] + 1 /\ log' = log /\ rejected' = rejected
          /\ pc[d] = "receive"
      BY <1>9 DEF RecvCommit, TypeOK
    <2>2. Reached(d) = sentPos[d] + 1 /\ Reached(d)' = sentPos[d] + 1
      BY <2>1 DEF Reached
    <2>3. CASE UNCHANGED <<batch, pc>>
      <3>1. InSession(d) /\ InSession(d)' /\ UNCHANGED <<buf, pendingInserts, pendingCommitLSN>>
        BY <2>1, <2>3 DEF InSession, batch
      <3>. QED  BY <1>0, <1>4, <2>1, <2>2, <3>1 DEF SessionPlaced
    <2>4. CASE BatchCommit(d, sentPos[d] + 1)
      <3>1. /\ pendingInserts'[d] = pendingInserts[d] \cup buf[d] /\ buf'[d] = {}
            /\ pendingCommitLSN'[d] = Later(pendingCommitLSN[d], sentPos[d] + 1)
            /\ pc'[d] \in {"receive", "submit"}
        BY <2>1, <2>4 DEF BatchCommit, TypeOK
      <3>2. /\ pendingCommitLSN'[d] \in Nat /\ pendingCommitLSN[d] <= pendingCommitLSN'[d]
            /\ sentPos[d] + 1 <= pendingCommitLSN'[d]
        BY <1>0, <3>1, LaterIsMax
      <3>3. /\ InLogNext(pendingInserts[d], pendingCommitLSN'[d])
            /\ InLogNext(buf[d], pendingCommitLSN'[d])
        BY <1>0, <2>2, <3>2, InLogGrows DEF SessionPlaced
      <3>4. InLog(pendingInserts[d], pendingCommitLSN[d])'
        BY <3>1, <3>3 DEF InLog, InLogNext
      <3>5. InLog(buf[d], Reached(d))'
        BY <3>1 DEF InLog
      <3>6. InSession(d)'
        BY <3>1 DEF InSession
      <3>7. rejected'[d] \subseteq pendingInserts'[d]
        BY <2>1, <3>1 DEF SessionPlaced
      <3>. QED  BY <2>1, <3>4, <3>5, <3>6, <3>7 DEF SessionPlaced
    <2>. QED  BY <1>9, <2>3, <2>4 DEF RecvCommit
  <1>10. CASE Persist(d)
    <2>1. /\ UNCHANGED <<sentPos, sendingTx, unsent, buf, pendingCommitLSN>> /\ log' = log
          /\ pendingInserts'[d] = {} /\ rejected'[d] = {} /\ pc[d] = "persist"
          /\ pc'[d] = "receive"
      BY <1>10 DEF Persist, ClearsBatch, walsender, TypeOK
    <2>2. InSession(d) /\ InSession(d)' /\ Reached(d)' = Reached(d)
      BY <2>1 DEF InSession, Reached
    <2>. QED  BY <2>1, <2>2 DEF SessionPlaced, InLog
  <1>11. CASE ReleaseSlot(d) \/ LoseSlot(d)
    BY <1>2, <1>11 DEF ReleaseSlot, LoseSlot, SameSession, session, walsender, consumer, batch,
       control
  <1>. QED
    BY <1>1, <1>3, <1>5, <1>6, <1>7, <1>8, <1>9, <1>10, <1>11 DEF DriverNext, Step, Receive,
       Failure, StartBusy, ReceiveFails, Crash, SubmitFails, PersistAborts, PersistRefused,
       TickAborts

LEMMA PlacedNext == ASSUME TypeOK, PlacedInv, [Next]_vars PROVE PlacedInv'
  <1>1. Grows
    BY StepGrows
  <1>2. ASSUME NEW e \in Drivers PROVE SessionPlaced(e)'
    <2>0. SessionPlaced(e)
      BY DEF PlacedInv
    <2>1. ASSUME NEW d \in Drivers, DriverNext(d) PROVE SessionPlaced(e)'
      <3>1. CASE e = d
        BY <1>1, <2>0, <2>1, <3>1, SessionPlacedNext
      <3>2. CASE e # d
        BY <1>1, <2>0, <2>1, <3>2, OthersUntouched, PlacedFrame
      <3>. QED  BY <3>1, <3>2
    <2>2. CASE UNCHANGED session
      <3>1. SameSession(e)
        BY <2>2 DEF SameSession, session, walsender, consumer, batch, control
      <3>. QED  BY <1>1, <2>0, <3>1, PlacedFrame
    <2>. QED  BY <2>1, <2>2 DEF Next, DriverNext, Commit, vars
  <1>3. RowsOnce' /\ InLog(dlq, cursor)'
    BY RowsOnceNext, DLQPlacedNext DEF PlacedInv
  <1>. QED  BY <1>2, <1>3 DEF PlacedInv

LEMMA PlacedInit == Init => PlacedInv
  BY DEF Init, PlacedInv, RowsOnce, SessionPlaced, InLog, InSession

\* The rows a session holds, and those in the DLQ, are in the log where the positions say.
THEOREM RowsPlaced == Spec => []PlacedInv
  BY PlacedInit, PlacedNext, TypeCorrect, PTL DEF Spec

\* A row is in the DLQ only once the cursor has passed it, whatever fails: the two are
\* written in one transaction, and no later transaction holds a row that an earlier one did.
THEOREM DLQRowsPassed == Spec => []DLQBehindCursor
  <1>1. TypeOK /\ PlacedInv => DLQBehindCursor
    <2>. SUFFICES ASSUME TypeOK, PlacedInv, NEW i \in DOMAIN log, NEW r \in log[i] \cap dlq
                  PROVE  i <= cursor
      BY DEF DLQBehindCursor
    <2>1. PICK j \in DOMAIN log : j <= cursor /\ r \in log[j]
      BY DEF PlacedInv, InLog
    <2>2. i = j
      BY <2>1 DEF PlacedInv, RowsOnce
    <2>. QED  BY <2>1, <2>2
  <1>. QED  BY <1>1, TypeCorrect, RowsPlaced, PTL

-----------------------------------------------------------------------------
(* Duplicates.                                                             *)

Done == accepted \cup dlq

\* The one session there is without a failure: it holds nothing twice, and nothing that
\* is done unless jack has just answered.
FreshSession(d) ==
    /\ InLog(Done \cup pendingInserts[d], Reached(d))
    /\ unsent[d] \cap (Done \cup pendingInserts[d] \cup buf[d]) = {}
    /\ buf[d] \cap (Done \cup pendingInserts[d]) = {}
    /\ pc[d] # "persist" => pendingInserts[d] \cap Done = {}

FreshInv ==
    faults = 0 =>
        /\ \A d \in Drivers : InSession(d) <=> active = d
        /\ active = NoDriver => Done = {}
        /\ \A d \in Drivers : InSession(d) => FreshSession(d)

\* What comes later in the log than the rows of S is not among them.
LEMMA LaterIsNew ==
    ASSUME TypeOK, RowsOnce, NEW S, NEW p \in Nat, InLog(S, p), NEW n \in DOMAIN log, n > p
    PROVE  log[n] \cap S = {}
  <1>. SUFFICES ASSUME NEW r \in log[n] \cap S PROVE FALSE
    OBVIOUS
  <1>1. PICK i \in DOMAIN log : i <= p /\ r \in log[i]
    BY DEF InLog
  <1>2. i = n /\ i \in Nat
    BY <1>1 DEF RowsOnce, TypeOK
  <1>. QED  BY <1>1, <1>2

\* The steps of a session, none of which is a failure, keep it fresh.
LEMMA FreshSessionNext ==
    ASSUME TypeOK, PlacedInv, Grows, NEW d \in Drivers, InSession(d), FreshSession(d),
           \/ Receive(d) \/ BatchTimeout(d) \/ SubmitSucceeds(d) \/ Persist(d) \/ StandbyTick(d)
    PROVE  FreshSession(d)'
  <1>. DEFINE Mine == Done \cup pendingInserts[d]
  <1>0. /\ sentPos[d] \in Nat /\ Reached(d) \in Nat /\ SessionPlaced(d)
        /\ InLog(Mine, Reached(d)) /\ InLog(buf[d], Reached(d))
    BY ReachedType DEF TypeOK, PlacedInv, SessionPlaced, FreshSession
  <1>1. ASSUME UNCHANGED <<sentPos, sendingTx, buf, unsent>>, Done' \subseteq Mine,
               pendingInserts'[d] \subseteq pendingInserts[d],
               pc'[d] # "persist" => pendingInserts'[d] \cap Done' = {}
        PROVE  FreshSession(d)'
    <2>1. Reached(d)' = Reached(d)
      BY <1>1 DEF Reached
    <2>2. InLogNext(Mine, Reached(d))
      BY <1>0, InLogGrows
    <2>3. InLog(Done \cup pendingInserts[d], Reached(d))'
      BY <1>1, <2>1, <2>2 DEF InLog, InLogNext
    <2>. QED  BY <1>1, <2>3 DEF FreshSession
  <1>2. CASE RecvBegin(d)
    <2>1. PICK n \in (sentPos[d] + 1)..Len(log) :
              /\ sentPos' = [sentPos EXCEPT ![d] = n - 1]
              /\ unsent' = [unsent EXCEPT ![d] = log[n]]
      BY <1>2 DEF RecvBegin
    <2>2. /\ ~sendingTx[d] /\ sendingTx'[d] /\ pc' = pc
          /\ UNCHANGED <<buf, pendingInserts, accepted, dlq>>
      BY <1>2 DEF RecvBegin, control, database, TypeOK
    <2>3. sentPos'[d] = n - 1 /\ unsent'[d] = log[n] /\ n \in DOMAIN log /\ n \in Nat
      BY <1>0, <2>1 DEF TypeOK
    <2>4. Reached(d) = sentPos[d] /\ Reached(d)' = n /\ Reached(d) < n
      BY <1>0, <2>1, <2>2, <2>3 DEF Reached
    <2>5. log[n] \cap Mine = {} /\ log[n] \cap buf[d] = {}
      BY <1>0, <2>3, <2>4, LaterIsNew DEF PlacedInv
    <2>6. InLogNext(Mine, n)
      BY <1>0, <2>3, <2>4, InLogGrows
    <2>7. InLog(Done \cup pendingInserts[d], Reached(d))'
      BY <2>2, <2>4, <2>6 DEF InLog, InLogNext, Done
    <2>. QED  BY <2>2, <2>3, <2>5, <2>7 DEF FreshSession, Done
  <1>3. CASE RecvRelation(d) \/ BatchTimeout(d) \/ StandbyTick(d)
    <2>1. /\ UNCHANGED <<sentPos, sendingTx, buf, unsent, pendingInserts, accepted>>
          /\ dlq' = dlq
      BY <1>3 DEF RecvRelation, BatchTimeout, StandbyTick, PersistWritePos, PersistFlushResult,
         walsender, batch, database
    <2>2. pc[d] = "receive" /\ pc'[d] # "persist"
      BY <1>3 DEF RecvRelation, BatchTimeout, StandbyTick, control, TypeOK
    <2>. QED  BY <1>1, <2>1, <2>2 DEF FreshSession, Done
  <1>4. CASE RecvKeepalive(d)
    <2>1. PICK walEnd \in sentPos[d]..Len(log) :
              /\ sendingTx[d] => walEnd = sentPos[d]
              /\ sentPos' = [sentPos EXCEPT ![d] = walEnd]
      BY <1>4 DEF RecvKeepalive
    <2>2. UNCHANGED <<sendingTx, unsent, buf, pendingInserts, accepted, dlq, pc>>
      BY <1>4 DEF RecvKeepalive, batch, control, database
    <2>3. sentPos'[d] = walEnd /\ walEnd \in Nat /\ sentPos[d] <= walEnd
      BY <1>0, <2>1 DEF TypeOK
    <2>4. Reached(d)' \in Nat /\ Reached(d) <= Reached(d)'
      BY <1>0, <2>1, <2>2, <2>3 DEF Reached
    <2>5. InLogNext(Mine, Reached(d)')
      BY <1>0, <2>4, InLogGrows
    <2>6. InLog(Done \cup pendingInserts[d], Reached(d))'
      BY <2>2, <2>5 DEF InLog, InLogNext, Done
    <2>. QED  BY <2>2, <2>6 DEF FreshSession, Done
  <1>5. CASE RecvInsert(d)
    <2>1. PICK r \in unsent[d] :
              /\ unsent' = [unsent EXCEPT ![d] = unsent[d] \ {r}]
              /\ \/ buf' = [buf EXCEPT ![d] = buf[d] \cup {r}]
                 \/ buf' = buf
      BY <1>5 DEF RecvInsert
    <2>2. /\ UNCHANGED <<sentPos, sendingTx, pendingInserts, accepted, dlq, pc>> /\ log' = log
      BY <1>5 DEF RecvInsert, control, database
    <2>3. buf'[d] \subseteq buf[d] \cup {r} /\ unsent'[d] = unsent[d] \ {r}
      BY <2>1 DEF TypeOK
    <2>4. InLog(Done \cup pendingInserts[d], Reached(d))'
      BY <1>0, <2>2 DEF InLog, Done, Reached
    <2>5. Done' = Done /\ pendingInserts'[d] = pendingInserts[d] /\ pc'[d] = pc[d]
      BY <2>2 DEF Done
    <2>6. r \notin Mine /\ buf[d] \cap Mine = {} /\ unsent[d] \cap (Mine \cup buf[d]) = {}
      BY <2>1 DEF FreshSession
    <2>7. buf'[d] \cap Mine = {} /\ unsent'[d] \cap (Mine \cup buf'[d]) = {}
      BY <2>3, <2>6
    <2>. QED  BY <2>4, <2>5, <2>7 DEF FreshSession
  <1>6. CASE RecvCommit(d)
    <2>1. /\ sendingTx[d] /\ sendingTx'[d] = FALSE /\ unsent' = unsent /\ unsent[d] = {}
          /\ sentPos'[d] = sentPos[d] + 1 /\ log' = log /\ Done' = Done /\ pc[d] = "receive"
      BY <1>6 DEF RecvCommit, TypeOK, database, Done
    <2>2. Reached(d)' = Reached(d)
      BY <2>1 DEF Reached
    <2>3. CASE UNCHANGED <<batch, pc>>
      <3>1. UNCHANGED <<buf, pendingInserts, pc>>
        BY <2>3 DEF batch
      <3>2. InLog(Done \cup pendingInserts[d], Reached(d))'
        BY <1>0, <2>1, <2>2, <3>1 DEF InLog
      <3>. QED  BY <2>1, <3>1, <3>2 DEF FreshSession
    <2>4. CASE BatchCommit(d, sentPos[d] + 1)
      <3>1. pendingInserts'[d] = pendingInserts[d] \cup buf[d] /\ buf'[d] = {}
        BY <2>4 DEF BatchCommit, TypeOK
      <3>2. InLog(Done \cup pendingInserts[d], Reached(d))'
        BY <1>0, <2>1, <2>2, <3>1 DEF InLog
      <3>3. (pendingInserts[d] \cup buf[d]) \cap Done = {}
        BY <2>1 DEF FreshSession
      <3>. QED  BY <2>1, <3>1, <3>2, <3>3 DEF FreshSession
    <2>. QED  BY <1>6, <2>3, <2>4 DEF RecvCommit
  <1>7. CASE SubmitSucceeds(d)
    <2>1. /\ UNCHANGED <<sentPos, sendingTx, buf, unsent, pendingInserts, dlq>>
          /\ accepted' \subseteq accepted \cup pendingInserts[d] /\ pc'[d] = "persist"
      BY <1>7 DEF SubmitSucceeds, walsender, batch, database, TypeOK
    <2>. QED  BY <1>1, <2>1 DEF Done
  <1>8. CASE Persist(d)
    <2>1. /\ UNCHANGED <<sentPos, sendingTx, buf, unsent, accepted>>
          /\ dlq' = dlq \cup rejected[d] /\ pendingInserts'[d] = {}
      BY <1>8 DEF Persist, PersistFlushResult, ClearsBatch, walsender, TypeOK
    <2>. QED  BY <1>0, <1>1, <2>1 DEF Done, SessionPlaced
  <1>. QED  BY <1>2, <1>3, <1>4, <1>5, <1>6, <1>7, <1>8 DEF Receive

\* A step that touches neither the session of e nor what is done leaves it fresh.
LEMMA FreshFrame ==
    ASSUME TypeOK, Grows, NEW e \in Drivers, FreshSession(e), SameSession(e),
           UNCHANGED <<accepted, dlq>>
    PROVE  FreshSession(e)'
  <1>1. Done' = Done /\ Reached(e)' = Reached(e) /\ Reached(e) \in Nat
    BY ReachedType DEF Done, Reached, SameSession
  <1>2. InLogNext(Done \cup pendingInserts[e], Reached(e))
    BY <1>1, InLogGrows DEF FreshSession
  <1>3. InLog(Done \cup pendingInserts[e], Reached(e))'
    BY <1>1, <1>2 DEF InLog, InLogNext, SameSession
  <1>. QED  BY <1>1, <1>3 DEF FreshSession, SameSession

\* Without a failure the first session never ends, and a DLQ statement that can carry any
\* batch is never refused.
LEMMA FreshNext ==
    ASSUME TypeOK, PlacedInv, FreshInv, [Next]_vars, Cardinality(Rows) <= MaxDLQRows
    PROVE  FreshInv'
  <1>. SUFFICES ASSUME faults' = 0
                PROVE  /\ \A e \in Drivers : InSession(e)' <=> active' = e
                       /\ active' = NoDriver => Done' = {}
                       /\ \A e \in Drivers : InSession(e)' => FreshSession(e)'
    BY DEF FreshInv
  <1>0. Grows
    BY StepGrows
  <1>1. CASE UNCHANGED <<session, active, accepted, dlq, faults>>
    <2>1. /\ \A e \in Drivers : InSession(e) <=> active = e
          /\ active = NoDriver => Done = {}
          /\ \A e \in Drivers : InSession(e) => FreshSession(e)
      BY <1>1 DEF FreshInv
    <2>2. \A e \in Drivers : SameSession(e) /\ (InSession(e)' <=> InSession(e))
      BY <1>1 DEF SameSession, InSession, session, walsender, consumer, batch, control
    <2>3. Done' = Done
      BY <1>1 DEF Done
    <2>. QED  BY <1>0, <1>1, <2>1, <2>2, <2>3, FreshFrame
  <1>2. ASSUME NEW d \in Drivers, DriverNext(d)
        PROVE  /\ \A e \in Drivers : InSession(e)' <=> active' = e
               /\ active' = NoDriver => Done' = {}
               /\ \A e \in Drivers : InSession(e)' => FreshSession(e)'
    <2>1. Step(d) \/ ReleaseSlot(d)
      <3>1. ASSUME Fault PROVE FALSE
        BY <3>1 DEF Fault, TypeOK
      <3>. QED  BY <1>2, <3>1 DEF DriverNext, Failure, Crash, LoseSlot, SubmitFails,
                   PersistAborts, TickAborts
    <2>2. faults' = faults
      BY <2>1 DEF Step, Receive, ReadCursor, StartStreaming, StartBusy, ReceiveFails,
         RecvBegin, RecvRelation, RecvInsert, RecvCommit, RecvKeepalive, BatchTimeout,
         SubmitSucceeds, Persist, PersistRefused, StandbyTick, ReleaseSlot
    <2>3. /\ \A e \in Drivers : InSession(e) <=> active = e
          /\ active = NoDriver => Done = {}
          /\ \A e \in Drivers : InSession(e) => FreshSession(e)
      BY <2>2 DEF FreshInv
    <2>4. \A e \in Drivers \ {d} : SameSession(e) /\ (InSession(e)' <=> InSession(e))
      BY <1>2, OthersUntouched DEF SameSession, InSession
    <2>5. CASE ReadCursor(d) \/ StartBusy(d)
      <3>1. UNCHANGED <<active, accepted, dlq>> /\ ~InSession(d) /\ ~InSession(d)'
        BY <2>5 DEF ReadCursor, StartBusy, RunOnceReturns, InSession, TypeOK, slot, database
      <3>2. Done' = Done
        BY <3>1 DEF Done
      <3>. QED  BY <1>0, <2>3, <2>4, <3>1, <3>2, FreshFrame
    <2>6. CASE StartStreaming(d)
      <3>1. /\ active = NoDriver /\ active' = d /\ UNCHANGED <<accepted, dlq>>
            /\ ~InSession(d) /\ InSession(d)'
        BY <2>6 DEF StartStreaming, InSession, TypeOK, database
      <3>2. Done' = {} /\ \A e \in Drivers : ~InSession(e)
        BY <2>3, <3>1, DriversAssumption DEF Done
      <3>3. pendingInserts'[d] = {} /\ buf'[d] = {} /\ unsent'[d] = {}
        BY <2>6, <3>1 DEF StartStreaming, PlacedInv, SessionPlaced
      <3>4. FreshSession(d)'
        BY <3>2, <3>3 DEF FreshSession, InLog
      <3>. QED  BY <2>4, <3>1, <3>2, <3>4, DriversAssumption
    <2>7. CASE ReceiveFails(d) \/ ReleaseSlot(d)
      BY <2>3, <2>7 DEF ReceiveFails, ReleaseSlot, InSession
    <2>8. CASE PersistRefused(d)
      <3>1. rejected[d] \subseteq Rows /\ ~(Cardinality(rejected[d]) <= MaxDLQRows)
        BY <2>8 DEF PersistRefused, FitsDLQ, TypeOK
      <3>2. /\ Cardinality(rejected[d]) <= Cardinality(Rows)
            /\ Cardinality(rejected[d]) \in Nat /\ Cardinality(Rows) \in Nat
        BY <3>1, FiniteAssumption, FS_Subset, FS_CardinalityType
      <3>. QED  BY <3>1, <3>2, BatchAssumption
    <2>9. CASE Receive(d) \/ BatchTimeout(d) \/ SubmitSucceeds(d) \/ Persist(d) \/ StandbyTick(d)
      <3>1. InSession(d) /\ active' = active
        BY <2>9 DEF Receive, RecvBegin, RecvRelation, RecvInsert, RecvCommit, RecvKeepalive,
           BatchTimeout, SubmitSucceeds, Persist, StandbyTick, InSession, slot
      <3>2. InSession(d)'
        BY <2>9 DEF Receive, RecvBegin, RecvRelation, RecvInsert, RecvCommit, RecvKeepalive,
           BatchCommit, BatchTimeout, SubmitSucceeds, Persist, StandbyTick, InSession, control,
           TypeOK
      <3>3. FreshSession(d)'
        BY <1>0, <2>3, <2>9, <3>1, FreshSessionNext
      <3>. QED  BY <2>3, <2>4, <3>1, <3>2, <3>3, DriversAssumption
    <2>. QED  BY <2>1, <2>5, <2>6, <2>7, <2>8, <2>9 DEF Step
  <1>3. ASSUME NEW S \in SUBSET Rows, Commit(S)
        PROVE  UNCHANGED <<session, active, accepted, dlq, faults>>
    BY <1>3 DEF Commit, slot, database
  <1>4. CASE UNCHANGED vars
    BY <1>1, <1>4 DEF vars, slot, database
  <1>. QED  BY <1>1, <1>2, <1>3, <1>4 DEF Next, DriverNext

\* However many replicas compete for the slot, no row is submitted twice unless something
\* fails, provided that one DLQ statement can carry whatever jack rejects.
THEOREM NoDuplicates ==
    ASSUME Cardinality(Rows) <= MaxDLQRows
    PROVE  Spec => []NoDuplicateWithoutFailure
  <1>1. Init => FreshInv
    BY DriversAssumption DEF Init, FreshInv, InSession, Done
  <1>2. TypeOK /\ PlacedInv /\ FreshInv /\ [Next]_vars => FreshInv'
    BY FreshNext
  <1>3. FreshInv => NoDuplicateWithoutFailure
    BY DEF FreshInv, FreshSession, NoDuplicateWithoutFailure, InSession, Done
  <1>. QED  BY <1>1, <1>2, <1>3, TypeCorrect, RowsPlaced, PTL DEF Spec

-----------------------------------------------------------------------------
(* Delivery implements Outbox when no message is longer than the distance  *)
(* to the next commit record: with the inductive invariant at hand, what   *)
(* is left is that every row a replica works on comes from the log.        *)

\* The rows that the session of d holds.
HeldRows(d) == buf[d] \cup pendingInserts[d] \cup unsent[d] \cup rejected[d]

\* Nothing is made up: rows done with or held come from committed transactions.
FromLog == Handled \subseteq Committed /\ \A d \in Drivers : HeldRows(d) \subseteq Committed

\* The end of a session drops the rows it holds.
LEMMA ReturnHoldsNothing ==
    ASSUME TypeOK, NEW d \in Drivers, RunOnceReturns(d)
    PROVE  HeldRows(d)' = {}
  BY DEF RunOnceReturns, HeldRows, TypeOK

LEMMA CommittedGrows == ASSUME Grows PROVE Committed \subseteq Committed'
  BY DEF Grows, Committed

\* Rows enter a session from the log and leave it to jack, the DLQ or the void.
LEMMA RowFlow ==
    ASSUME TypeOK, NEW d \in Drivers, DriverNext(d)
    PROVE  /\ HeldRows(d)' \subseteq HeldRows(d) \cup Committed
           /\ Handled' \subseteq Handled \cup HeldRows(d)
  <1>1. CASE ReadCursor(d) \/ StartStreaming(d) \/ ReleaseSlot(d) \/ LoseSlot(d)
    BY <1>1 DEF ReadCursor, StartStreaming, ReleaseSlot, LoseSlot, HeldRows, Handled, database,
       session, walsender, consumer, batch, control
  <1>2. CASE /\ RunOnceReturns(d)
             /\ UNCHANGED <<database, accepted, dropped>>
    BY <1>2, ReturnHoldsNothing DEF Handled, database
  <1>3. CASE RecvBegin(d)
    <2>1. PICK i \in (sentPos[d] + 1)..Len(log) : unsent' = [unsent EXCEPT ![d] = log[i]]
      BY <1>3 DEF RecvBegin
    <2>2. unsent'[d] = log[i] /\ log[i] \subseteq Committed
      BY <2>1 DEF TypeOK, Committed
    <2>. QED  BY <1>3, <2>2 DEF RecvBegin, HeldRows, Handled, control, database
  <1>4. CASE RecvRelation(d) \/ RecvKeepalive(d) \/ BatchTimeout(d) \/ StandbyTick(d)
    <2>1. HeldRows(d)' = HeldRows(d)
      BY <1>4 DEF RecvRelation, RecvKeepalive, BatchTimeout, StandbyTick, HeldRows, walsender,
         batch, control
    <2>2. accepted' = accepted /\ dropped' = dropped /\ dlq' = dlq
      BY <1>4 DEF RecvRelation, RecvKeepalive, BatchTimeout, StandbyTick, PersistWritePos,
         PersistFlushResult, database
    <2>. QED  BY <2>1, <2>2 DEF Handled
  <1>5. CASE RecvInsert(d)
    <2>1. PICK r \in unsent[d] :
              /\ unsent' = [unsent EXCEPT ![d] = unsent[d] \ {r}]
              /\ \/ buf' = [buf EXCEPT ![d] = buf[d] \cup {r}] /\ UNCHANGED dropped
                 \/ dropped' = dropped \cup {r} /\ UNCHANGED buf
      BY <1>5 DEF RecvInsert
    <2>2. unsent'[d] \subseteq unsent[d] /\ buf'[d] \subseteq buf[d] \cup unsent[d]
      BY <2>1 DEF TypeOK
    <2>3. dropped' \subseteq dropped \cup unsent[d]
      BY <2>1
    <2>. QED  BY <1>5, <2>2, <2>3 DEF RecvInsert, HeldRows, Handled, control, database
  <1>6. CASE RecvCommit(d)
    <2>1. buf'[d] \cup pendingInserts'[d] \subseteq buf[d] \cup pendingInserts[d]
      <3>1. CASE BatchCommit(d, sentPos[d] + 1)
        BY <3>1 DEF BatchCommit, TypeOK
      <3>2. CASE UNCHANGED <<batch, pc>>
        BY <3>2 DEF batch
      <3>. QED  BY <1>6, <3>1, <3>2 DEF RecvCommit
    <2>. QED  BY <1>6, <2>1 DEF RecvCommit, HeldRows, Handled, database
  <1>7. CASE SubmitSucceeds(d)
    <2>1. PICK rej \in SUBSET pendingInserts[d] :
              /\ accepted' = accepted \cup (pendingInserts[d] \ rej)
              /\ rejected' = [rejected EXCEPT ![d] = rej]
      BY <1>7 DEF SubmitSucceeds, MapResults
    <2>2. rejected'[d] = rej
      BY <2>1 DEF TypeOK
    <2>. QED  BY <1>7, <2>1, <2>2 DEF SubmitSucceeds, MapResults, HeldRows, Handled, walsender, batch, database
  <1>8. CASE SubmitFails(d)
    <2>1. accepted' \subseteq accepted \cup pendingInserts[d]
      BY <1>8 DEF SubmitFails
    <2>2. HeldRows(d)' = {}
      BY <1>8, ReturnHoldsNothing DEF SubmitFails
    <2>. QED  BY <1>8, <2>1, <2>2 DEF SubmitFails, HeldRows, Handled, database
  <1>9. CASE Persist(d)
    <2>1. /\ dlq' = dlq \cup rejected[d] /\ accepted' = accepted /\ dropped' = dropped
          /\ pendingInserts'[d] = {} /\ rejected'[d] = {}
          /\ buf'[d] = buf[d] /\ unsent'[d] = unsent[d]
      BY <1>9 DEF Persist, PersistFlushResult, ClearsBatch, walsender, TypeOK
    <2>. QED  BY <2>1 DEF HeldRows, Handled
  <1>10. CASE PersistAborts(d) \/ TickAborts(d)
    <2>1. HeldRows(d)' = {}
      BY <1>10, ReturnHoldsNothing DEF PersistAborts, TickAborts
    <2>2. dlq' \subseteq dlq \cup rejected[d] /\ accepted' = accepted /\ dropped' = dropped
      BY <1>10 DEF PersistAborts, TickAborts, PersistWritePos, PersistFlushResult
    <2>. QED  BY <2>1, <2>2 DEF HeldRows, Handled
  <1>. QED
    BY <1>1, <1>2, <1>3, <1>4, <1>5, <1>6, <1>7, <1>8, <1>9, <1>10
       DEF DriverNext, Step, Receive, Failure, StartBusy, ReceiveFails, Crash, PersistRefused

LEMMA FromLogNext == ASSUME TypeOK, FromLog, [Next]_vars PROVE FromLog'
  <1>1. Committed \subseteq Committed'
    BY StepGrows, CommittedGrows
  <1>2. ASSUME NEW S \in SUBSET Rows, Commit(S) PROVE FromLog'
    <2>1. Handled' = Handled /\ \A e \in Drivers : HeldRows(e)' = HeldRows(e)
      BY <1>2 DEF Commit, Handled, HeldRows, database, session, walsender, batch, control
    <2>. QED  BY <1>1, <2>1 DEF FromLog
  <1>3. ASSUME NEW d \in Drivers, DriverNext(d) PROVE FromLog'
    <2>1. Handled' \subseteq Committed' /\ HeldRows(d)' \subseteq Committed'
      BY <1>1, <1>3, RowFlow DEF FromLog
    <2>2. ASSUME NEW e \in Drivers \ {d} PROVE HeldRows(e)' = HeldRows(e)
      BY <1>3, OthersUntouched DEF SameSession, HeldRows
    <2>. QED  BY <1>1, <2>1, <2>2 DEF FromLog
  <1>4. CASE UNCHANGED vars
    <2>1. Handled' = Handled /\ \A e \in Drivers : HeldRows(e)' = HeldRows(e)
      BY <1>4 DEF vars, Handled, HeldRows, database, session, walsender, batch, control
    <2>. QED  BY <1>1, <2>1 DEF FromLog
  <1>. QED  BY <1>2, <1>3, <1>4 DEF Next, DriverNext

\* Every step of the replicas is a step of the promise, or invisible to it.
LEMMA StepSimulates ==
    ASSUME MaxSpill = 0, TypeOK, TypeOK', DeliveryInv, DeliveryInv', FromLog, FromLog',
           [Next]_vars
    PROVE  [O!Next]_(O!vars)
  <1>1. ASSUME NEW S \in SUBSET Rows, Commit(S) PROVE O!Commit
    <2>1. S \cap O!Inserted = {} /\ log' = Append(log, S)
      BY <1>1 DEF Commit, Committed, O!Inserted
    <2>2. Handled' = Handled /\ cursor' = cursor
      BY <1>1 DEF Commit, Handled, database
    <2>. QED  BY <2>1, <2>2 DEF O!Commit
  <1>2. ASSUME log' = log PROVE O!Deliver
    <2>1. Grows
      BY StepGrows
    <2>2. Handled \subseteq Handled'
      BY <2>1, HandledGrows
    <2>3. Handled' \subseteq O!Inserted
      BY <1>2 DEF FromLog, Committed, O!Inserted
    <2>4. cursor' <= Len(log) /\ \A i \in 1..cursor' : log[i] \subseteq Handled'
      <3>1. overclaimed' = {} /\ \A i \in (1..cursor') \ overclaimed' :
                                   i \in DOMAIN log' /\ log'[i] \subseteq Handled'
        BY DEF DeliveryInv, SpillBound, NoUnclaimedLoss, Covered
      <3>2. cursor' \in Nat /\ Len(log) \in Nat /\ DOMAIN log = 1..Len(log)
        BY DEF TypeOK
      <3>3. cursor' = 0 \/ cursor' \in 1..cursor'
        BY <3>2
      <3>. QED  BY <1>2, <3>1, <3>2, <3>3
    <2>5. cursor' \in cursor..Len(log)
      BY <2>1, <2>4 DEF Grows, TypeOK
    <2>. QED  BY <1>2, <2>2, <2>3, <2>4, <2>5 DEF O!Deliver
  <1>3. ASSUME NEW d \in Drivers, DriverNext(d) PROVE log' = log
    BY <1>3 DEF DriverNext, Step, Receive, Failure, ReadCursor, StartStreaming, StartBusy,
       ReceiveFails, Crash, ReleaseSlot, LoseSlot, RecvBegin, RecvRelation, RecvInsert,
       RecvCommit, RecvKeepalive, BatchTimeout, SubmitSucceeds, SubmitFails, Persist,
       PersistAborts, PersistRefused, StandbyTick, TickAborts
  <1>4. UNCHANGED vars => log' = log
    BY DEF vars
  <1>. QED  BY <1>1, <1>2, <1>3, <1>4 DEF Next, DriverNext, O!Next

\* The replicas together keep the promise of Outbox: however sessions, batches and
\* failures interleave, the cursor passes only rows that are done with.
THEOREM DeliveryImplementsOutbox ==
    ASSUME MaxSpill = 0
    PROVE  Spec => ImplementsOutbox
  <1>1. Init => O!Init
    BY DEF Init, O!Init, Handled
  <1>2. Init => FromLog
    BY DEF Init, FromLog, HeldRows, Handled, Committed
  <1>3. TypeOK /\ FromLog /\ [Next]_vars => FromLog'
    BY FromLogNext
  <1>4. TypeOK /\ TypeOK' /\ DeliveryInv /\ DeliveryInv' /\ FromLog /\ FromLog' /\ [Next]_vars
            => [O!Next]_(O!vars)
    BY StepSimulates
  <1>. QED
    BY <1>1, <1>2, <1>3, <1>4, TypeCorrect, InvariantHolds, PTL DEF Spec, ImplementsOutbox, O!Spec
=============================================================================
