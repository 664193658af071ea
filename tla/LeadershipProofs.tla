-------------------------- MODULE LeadershipProofs --------------------------
(***************************************************************************)
(* Proofs about Leadership, for every number of replicas and failures.     *)
(***************************************************************************)
EXTENDS Leadership, TLAPS

LEMMA TypeInit == Init => TypeOK
  BY FaultsAssumption DEF Init, TypeOK, RunSteps, MaintSteps

LEMMA TypeNext == TypeOK /\ [Next]_vars => TypeOK'
  <1>. SUFFICES ASSUME TypeOK, [Next]_vars PROVE TypeOK'
    OBVIOUS
  <1>. USE FaultsAssumption DEF TypeOK, RunSteps, MaintSteps, Goes, MaintGoes, Fault
  <1>1. ASSUME NEW d \in Drivers, StartStreaming(d) PROVE TypeOK'
    BY <1>1 DEF StartStreaming
  <1>2. ASSUME NEW d \in Drivers, AcquireLeadership(d) PROVE TypeOK'
    BY <1>2 DEF AcquireLeadership
  <1>3. ASSUME NEW d \in Drivers, StartBusy(d) PROVE TypeOK'
    BY <1>3 DEF StartBusy
  <1>4. ASSUME NEW d \in Drivers, StreamEnds(d) PROVE TypeOK'
    BY <1>4 DEF StreamEnds
  <1>5. ASSUME NEW d \in Drivers, Retry(d) PROVE TypeOK'
    BY <1>5 DEF Retry
  <1>6. ASSUME NEW d \in Drivers, ReturnFromSession(d) PROVE TypeOK'
    BY <1>6 DEF ReturnFromSession
  <1>7. ASSUME NEW d \in Drivers, ReturnFromWait(d) PROVE TypeOK'
    BY <1>7 DEF ReturnFromWait
  <1>8. ASSUME NEW d \in Drivers, SessionFails(d) PROVE TypeOK'
    BY <1>8 DEF SessionFails
  <1>9. ASSUME NEW d \in Drivers, ReleaseSlot(d) PROVE TypeOK'
    BY <1>9 DEF ReleaseSlot
  <1>10. ASSUME NEW d \in Drivers, LoseSlot(d) PROVE TypeOK'
    BY <1>10 DEF LoseSlot
  <1>11. ASSUME NEW d \in Drivers, Cancel(d) PROVE TypeOK'
    BY <1>11 DEF Cancel
  <1>12. ASSUME NEW d \in Drivers, MaintStart(d) PROVE TypeOK'
    BY <1>12 DEF MaintStart
  <1>13. ASSUME NEW d \in Drivers, MaintFirst(d) PROVE TypeOK'
    BY <1>13 DEF MaintFirst
  <1>14. ASSUME NEW d \in Drivers, MaintWakes(d) PROVE TypeOK'
    BY <1>14 DEF MaintWakes
  <1>15. ASSUME NEW d \in Drivers, MaintDone(d) PROVE TypeOK'
    BY <1>15 DEF MaintDone
  <1>16. ASSUME NEW d \in Drivers, MaintExits(d) PROVE TypeOK'
    BY <1>16 DEF MaintExits
  <1>17. CASE UNCHANGED vars
    BY <1>17 DEF vars
  <1>. QED
    BY <1>1, <1>2, <1>3, <1>4, <1>5, <1>6, <1>7, <1>8, <1>9,
       <1>10, <1>11, <1>12, <1>13, <1>14, <1>15, <1>16, <1>17
       DEF Next, RunStep, RunReturns, MaintStep

\* Every reachable state is well typed: maintWake never holds a second token.
THEOREM TypeCorrect == Spec => []TypeOK
  BY TypeInit, TypeNext, PTL DEF Spec

LEMMA WakeNext == TypeOK /\ FirstWakePending /\ [Next]_vars => FirstWakePending'
  <1>. SUFFICES ASSUME TypeOK, FirstWakePending, [Next]_vars,
                       NEW e \in Drivers, isLeader'[e], maint'[e] \in {"starting", "blocked"}
                PROVE  maintWake'[e] = 1
    BY DEF FirstWakePending
  <1>1. isLeader[e] /\ maint[e] \in {"starting", "blocked"} => maintWake[e] = 1
    BY DEF FirstWakePending
  <1>. USE DEF TypeOK, Goes, MaintGoes
  <1>2. ASSUME NEW d \in Drivers, AcquireLeadership(d) PROVE maintWake'[e] = 1
    \* A standby leaves a token; a leader that reconnects has left one before.
    <2>1. CASE e = d
      BY <1>1, <1>2, <2>1 DEF AcquireLeadership
    <2>2. CASE e # d
      BY <1>1, <1>2, <2>2 DEF AcquireLeadership
    <2>. QED  BY <2>1, <2>2
  <1>3. ASSUME NEW d \in Drivers,
               StartStreaming(d) \/ StreamEnds(d) \/ Retry(d) \/ SessionFails(d)
               \/ ReturnFromWait(d) \/ ReleaseSlot(d) \/ LoseSlot(d) \/ Cancel(d)
        PROVE  maintWake'[e] = 1
    BY <1>1, <1>3 DEF StartStreaming, StreamEnds, Retry, SessionFails, ReturnFromWait,
       ReleaseSlot, LoseSlot, Cancel
  <1>4. ASSUME NEW d \in Drivers, StartBusy(d) \/ ReturnFromSession(d)
        PROVE  maintWake'[e] = 1
    BY <1>1, <1>4 DEF StartBusy, ReturnFromSession
  <1>5. ASSUME NEW d \in Drivers, MaintStep(d) \/ MaintExits(d) PROVE maintWake'[e] = 1
    \* The token of d is taken only as its goroutine leaves the first select for good.
    <2>1. CASE e = d
      BY <1>1, <1>5, <2>1 DEF MaintStep, MaintStart, MaintFirst, MaintWakes, MaintDone, MaintExits
    <2>2. CASE e # d
      BY <1>1, <1>5, <2>2 DEF MaintStep, MaintStart, MaintFirst, MaintWakes, MaintDone, MaintExits
    <2>. QED  BY <2>1, <2>2
  <1>6. CASE UNCHANGED vars
    BY <1>1, <1>6 DEF vars
  <1>. QED  BY <1>2, <1>3, <1>4, <1>5, <1>6 DEF Next, RunStep, RunReturns

\* The wake of acquireLeadership is never lost before the first maintenance pass.
THEOREM WakeNotLost == Spec => []FirstWakePending
  <1>1. Init => FirstWakePending
    BY DEF Init, FirstWakePending
  <1>. QED  BY <1>1, TypeInit, TypeNext, WakeNext, PTL DEF Spec
=============================================================================
