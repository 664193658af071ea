----------------------------- MODULE Leadership -----------------------------
(***************************************************************************)
(* Leadership of the replicas of the courier and the goroutine that depends*)
(* on it.  The replica whose walsender holds the replication slot is meant *)
(* to be the leader; each replica keeps its own opinion in isLeader, which *)
(* Run changes on the way in and out of a session and partitionMaintenance *)
(* reads on its own schedule.  What a session delivers is the subject of   *)
(* Delivery; here it either goes on or fails.                              *)
(***************************************************************************)
EXTENDS Naturals, FiniteSets

CONSTANTS
    Drivers,     \* the replicas of the courier
    NoDriver,    \* the slot is free
    MaxFaults    \* bound: connection, stream and server failures

ASSUME DriversAssumption == NoDriver \notin Drivers
ASSUME FaultsAssumption == MaxFaults \in Nat

VARIABLES
    active,      \* the driver whose walsender holds the slot
    run,         \* where the loop of Run is
    isLeader,    \* Driver.isLeader
    maintWake,   \* tokens in the channel, whose buffer holds one
    maint,       \* where partitionMaintenance is
    cancelled,   \* ctx is done
    faults

vars == <<active, run, isLeader, maintWake, maint, cancelled, faults>>

RunSteps == {"runOnce", "acquire", "streaming", "busyWait", "backoff", "returned"}
MaintSteps == {"starting", "blocked", "select", "working", "exited"}

Fault == faults < MaxFaults /\ faults' = faults + 1

\* The loop of Run moves on; the other goroutines do not.
Goes(d, step) == run' = [run EXCEPT ![d] = step]

-----------------------------------------------------------------------------
(* Run and runOnce.                                                        *)

\* START_REPLICATION succeeds.
StartStreaming(d) ==
    /\ run[d] = "runOnce"
    /\ ~cancelled[d]
    /\ active = NoDriver
    /\ active' = d
    /\ Goes(d, "acquire")
    /\ UNCHANGED <<isLeader, maintWake, maint, cancelled, faults>>

AcquireLeadershipMutant(d) ==
    /\ run[d] = "acquire"
    /\ isLeader' = [isLeader EXCEPT ![d] = TRUE]
    /\ maintWake' = [maintWake EXCEPT ![d] = IF isLeader[d] \/ maint[d] # "blocked" THEN @ ELSE 1]
    /\ Goes(d, "streaming")
    /\ UNCHANGED <<active, maint, cancelled, faults>>

AcquireLeadershipUnguarded(d) ==
    /\ run[d] = "acquire"
    /\ isLeader' = [isLeader EXCEPT ![d] = TRUE]
    /\ maintWake' = [maintWake EXCEPT ![d] = IF isLeader[d] THEN @ ELSE @ + 1]
    /\ Goes(d, "streaming")
    /\ UNCHANGED <<active, maint, cancelled, faults>>

\* acquireLeadership: a standby becomes leader and leaves a token for the maintenance
\* goroutine unless one is there already; a replica that never stood down does neither.
AcquireLeadership(d) ==
    /\ run[d] = "acquire"
    /\ isLeader' = [isLeader EXCEPT ![d] = TRUE]
    /\ maintWake' = [maintWake EXCEPT ![d] = IF isLeader[d] THEN @ ELSE 1]
    /\ Goes(d, "streaming")
    /\ UNCHANGED <<active, maint, cancelled, faults>>

StartBusyMutant(d) ==
    /\ run[d] = "runOnce"
    /\ ~cancelled[d]
    /\ active # NoDriver
    /\ Goes(d, "busyWait")
    /\ UNCHANGED <<active, isLeader, maintWake, maint, cancelled, faults>>

\* errSlotBusy: relinquishLeadership("slot_busy"), then a wait.  A replica can find the
\* slot held by its own previous walsender.
StartBusy(d) ==
    /\ run[d] = "runOnce"
    /\ ~cancelled[d]
    /\ active # NoDriver
    /\ isLeader' = [isLeader EXCEPT ![d] = FALSE]
    /\ Goes(d, "busyWait")
    /\ UNCHANGED <<active, maintWake, maint, cancelled, faults>>

\* Any other error of runOnce, in or before streaming, leads to the backoff; the
\* replica keeps its opinion on being the leader.
SessionFails(d) ==
    /\ Fault
    /\ run[d] \in {"runOnce", "streaming"}
    /\ ~cancelled[d]
    /\ Goes(d, "backoff")
    /\ UNCHANGED <<active, isLeader, maintWake, maint, cancelled>>

\* A session whose walsender is gone fails at the next receive.
StreamEnds(d) ==
    /\ run[d] = "streaming"
    /\ active # d
    /\ ~cancelled[d]
    /\ Goes(d, "backoff")
    /\ UNCHANGED <<active, isLeader, maintWake, maint, cancelled, faults>>

RetryMutant(d) ==
    /\ run[d] = "backoff"
    /\ Goes(d, "runOnce")
    /\ UNCHANGED <<active, isLeader, maintWake, maint, cancelled, faults>>

\* The timer of busyWait or of bo.wait fires.
Retry(d) ==
    /\ run[d] \in {"busyWait", "backoff"}
    /\ Goes(d, "runOnce")
    /\ UNCHANGED <<active, isLeader, maintWake, maint, cancelled, faults>>

\* ctx is done when runOnce returns: relinquishLeadership("shutdown").
ReturnFromSession(d) ==
    /\ cancelled[d]
    /\ run[d] \in {"runOnce", "streaming"}
    /\ isLeader' = [isLeader EXCEPT ![d] = FALSE]
    /\ Goes(d, "returned")
    /\ UNCHANGED <<active, maintWake, maint, cancelled, faults>>

\* ctx is done during a wait: Run returns as it is.
ReturnFromWait(d) ==
    /\ cancelled[d]
    /\ run[d] \in {"busyWait", "backoff"}
    /\ Goes(d, "returned")
    /\ UNCHANGED <<active, isLeader, maintWake, maint, cancelled, faults>>

-----------------------------------------------------------------------------
(* The server and the operator are outside the repository.                 *)

\* The server frees the slot of a connection that was closed.
ReleaseSlot(d) ==
    /\ active = d
    /\ run[d] \notin {"acquire", "streaming"}
    /\ active' = NoDriver
    /\ UNCHANGED <<run, isLeader, maintWake, maint, cancelled, faults>>

\* The server ends a live session: timeout, failover, restart.
LoseSlot(d) ==
    /\ Fault
    /\ active = d
    /\ run[d] \in {"acquire", "streaming"}
    /\ active' = NoDriver
    /\ UNCHANGED <<run, isLeader, maintWake, maint, cancelled>>

\* The process is asked to stop.
Cancel(d) ==
    /\ ~cancelled[d]
    /\ cancelled' = [cancelled EXCEPT ![d] = TRUE]
    /\ UNCHANGED <<active, run, isLeader, maintWake, maint, faults>>

-----------------------------------------------------------------------------
(* partitionMaintenance.                                                   *)

MaintGoes(d, step) == maint' = [maint EXCEPT ![d] = step]

\* The goroutine is scheduled and reaches its first select, which has no ticker case.
MaintStart(d) ==
    /\ maint[d] = "starting"
    /\ MaintGoes(d, "blocked")
    /\ UNCHANGED <<active, run, isLeader, maintWake, cancelled, faults>>

\* The first token starts a pass without a look at isLeader.
MaintFirst(d) ==
    /\ maint[d] = "blocked"
    /\ maintWake[d] = 1
    /\ maintWake' = [maintWake EXCEPT ![d] = 0]
    /\ MaintGoes(d, "working")
    /\ UNCHANGED <<active, run, isLeader, cancelled, faults>>

MaintWakesMutant(d) ==
    /\ maint[d] = "select"
    /\ maintWake[d] = 1
    /\ maintWake' = [maintWake EXCEPT ![d] = 0]
    /\ MaintGoes(d, IF isLeader[d] THEN "working" ELSE "select")
    /\ UNCHANGED <<active, run, isLeader, cancelled, faults>>

\* Later the ticker or a token wakes it, and it starts a pass if it finds itself leader.
MaintWakes(d) ==
    /\ maint[d] = "select"
    /\ maintWake' \in {maintWake, [maintWake EXCEPT ![d] = 0]}
    /\ MaintGoes(d, IF isLeader[d] THEN "working" ELSE "select")
    /\ UNCHANGED <<active, run, isLeader, cancelled, faults>>

\* runPartitionMaintenance returns; errors are logged.
MaintDone(d) ==
    /\ maint[d] = "working"
    /\ MaintGoes(d, "select")
    /\ UNCHANGED <<active, run, isLeader, maintWake, cancelled, faults>>

MaintExitsMutant(d) ==
    /\ cancelled[d]
    /\ maint[d] = "select"
    /\ MaintGoes(d, "exited")
    /\ UNCHANGED <<active, run, isLeader, maintWake, cancelled, faults>>

MaintExits(d) ==
    /\ cancelled[d]
    /\ maint[d] \in {"blocked", "select"}
    /\ MaintGoes(d, "exited")
    /\ UNCHANGED <<active, run, isLeader, maintWake, cancelled, faults>>

-----------------------------------------------------------------------------
Init ==
    /\ active = NoDriver
    /\ run = [d \in Drivers |-> "runOnce"]
    /\ isLeader = [d \in Drivers |-> FALSE]
    /\ maintWake = [d \in Drivers |-> 0]
    /\ maint = [d \in Drivers |-> "starting"]
    /\ cancelled = [d \in Drivers |-> FALSE]
    /\ faults = 0

RunStep(d) ==
    \/ StartStreaming(d) \/ AcquireLeadership(d) \/ StartBusy(d) \/ StreamEnds(d) \/ Retry(d)

RunReturns(d) == ReturnFromSession(d) \/ ReturnFromWait(d)

MaintStep(d) ==
    MaintStart(d) \/ MaintFirst(d) \/ MaintWakes(d) \/ MaintDone(d)

Next ==
    \E d \in Drivers :
        \/ RunStep(d) \/ RunReturns(d) \/ SessionFails(d)
        \/ ReleaseSlot(d) \/ LoseSlot(d) \/ Cancel(d)
        \/ MaintStep(d) \/ MaintExits(d)

Spec == Init /\ [][Next]_vars

\* Goroutines are scheduled, timers fire, the server frees the slot of a closed
\* connection.  Go picks at random among the ready cases of a select, so the maintenance
\* goroutine does not pass over a done ctx forever: strong fairness for its exit.
Fairness ==
    \A d \in Drivers :
        /\ WF_vars(RunStep(d)) /\ WF_vars(RunReturns(d)) /\ WF_vars(ReleaseSlot(d))
        /\ WF_vars(MaintStep(d)) /\ SF_vars(MaintExits(d))

FairSpec == Spec /\ Fairness

-----------------------------------------------------------------------------
(* Properties.                                                             *)

\* The types of the state.
TypeOK ==
    /\ active \in Drivers \cup {NoDriver}
    /\ run \in [Drivers -> RunSteps]
    /\ isLeader \in [Drivers -> BOOLEAN]
    /\ maintWake \in [Drivers -> 0..1]
    /\ maint \in [Drivers -> MaintSteps]
    /\ cancelled \in [Drivers -> BOOLEAN]
    /\ faults \in Nat

\* The wake of acquireLeadership is never lost: a leader whose maintenance goroutine has
\* not got past its first select, which has no ticker, has a token waiting in maintWake,
\* even if it stood down and came back before the goroutine was scheduled.
FirstWakePending ==
    \A d \in Drivers :
        isLeader[d] /\ maint[d] \in {"starting", "blocked"} => maintWake[d] = 1

\* A leader that lost the slot stands down: as long as another replica holds the slot,
\* its next attempt finds it busy (or it stops).
StaleLeaderYields ==
    \A d, e \in Drivers :
        d # e => (isLeader[d] /\ active = e
                    ~> ~isLeader[d] \/ active # e \/ run[d] = "returned")

\* A replica that streams for good runs partition maintenance again and again.
LeaderMaintains ==
    \A d \in Drivers :
        <>[](run[d] = "streaming" /\ ~cancelled[d]) => []<>(maint[d] = "working")

\* The slot does not stay free while a replica is up: a standby keeps trying.
SlotTaken ==
    active = NoDriver ~> active # NoDriver \/ \A d \in Drivers : cancelled[d]

\* Cancelling ctx ends Run and the maintenance goroutine, that of a standby too.
ShutdownCompletes ==
    \A d \in Drivers :
        cancelled[d] ~> run[d] = "returned" /\ maint[d] = "exited"

\* partitionMaintenance's comment: it "runs only while this instance is the leader (i.e.
\* holds the replication slot)": at the very least no pass starts on one replica while
\* another one holds the slot.
MaintenanceHoldsSlot ==
    [][\A d \in Drivers :
          maint[d] # "working" /\ maint'[d] = "working" => active \in {d, NoDriver}]_vars
=============================================================================
