----------------------------- MODULE DLQCleanup -----------------------------
(***************************************************************************)
(* The goroutine dlqCleanup of every driver, composed with Leadership: it  *)
(* prunes the dead-letter table while its driver believes to be the        *)
(* leader.  Of the table only whether it has a row older than DLQRetention *)
(* matters.  Once ctx is done the goroutine returns, and a DELETE it still *)
(* starts fails: it has no state.                                          *)
(***************************************************************************)
EXTENDS Leadership

VARIABLE expired     \* the dead-letter table has a row older than the retention

allVars == <<vars, expired>>

-----------------------------------------------------------------------------
CleanupTickMutant(d) ==
    /\ ~cancelled[d]
    /\ ~isLeader[d]
    /\ expired' = FALSE
    /\ UNCHANGED vars

\* The ticker fires.  A standby waits for the next tick; the DELETE of a leader takes every
\* row older than the retention.
CleanupTick(d) ==
    /\ ~cancelled[d]
    /\ isLeader[d]
    /\ expired' = FALSE
    /\ UNCHANGED vars

\* The statement fails, which is logged.
CleanupFails(d) ==
    /\ Fault
    /\ ~cancelled[d]
    /\ isLeader[d]
    /\ UNCHANGED <<active, run, isLeader, maintWake, maint, cancelled, expired>>

\* Time passes: a row that was dead-lettered outlives the retention.
Expires ==
    /\ ~expired
    /\ expired' = TRUE
    /\ UNCHANGED vars

-----------------------------------------------------------------------------
CleanupInit == Init /\ expired = FALSE

CleanupNext ==
    \/ Next /\ UNCHANGED expired
    \/ \E d \in Drivers : CleanupTick(d) \/ CleanupFails(d)
    \/ Expires

\* As in Leadership; the ticker of dlqCleanup fires and its statements return.
CleanupSpec ==
    /\ CleanupInit /\ [][CleanupNext]_allVars
    /\ Fairness
    /\ \A d \in Drivers : WF_allVars(CleanupTick(d))

-----------------------------------------------------------------------------
(* Properties.                                                             *)

\* Rows older than DLQRetention are deleted again and again while a driver streams for
\* good (dlqCleanup), even one that was a standby for long or whose statements failed: the
\* cleanup of a leader depends neither on the wake of the maintenance goroutine nor on the
\* opinion of another replica.
ExpiredPruned ==
    \A d \in Drivers : <>[](run[d] = "streaming" /\ ~cancelled[d]) => []<>~expired
=============================================================================
