------------------------------ MODULE Reconnect ------------------------------
(***************************************************************************)
(* The waits of Run: the backoff after a failure (backoff.next, wait) and  *)
(* the wait of a standby that finds the slot busy.  A clock counts whole   *)
(* units, timers fire on time, and an attempt to start a session takes     *)
(* none.  The server may take any time to free the slot of a closed        *)
(* connection, and a driver any time to notice that its slot is gone.      *)
(* Delivery and Leadership treat the same loop without time.               *)
(***************************************************************************)
EXTENDS Integers, FiniteSets, FiniteSetsExt

CONSTANTS
    Drivers, NoDriver,
    ReconnectInitialDelay, ReconnectMaxDelay,   \* Config
    SlotBusyRetryDelay, SlotBusyRetryJitter,    \* Config
    MaxTime,     \* bound: the clock
    MaxFaults    \* bound: failures and lost slots

ASSUME DriversAssumption == NoDriver \notin Drivers
ASSUME DelaysAssumption ==
    /\ ReconnectInitialDelay \in Nat \ {0} /\ ReconnectMaxDelay \in Nat \ {0}
    /\ SlotBusyRetryDelay \in Nat \ {0} /\ SlotBusyRetryJitter \in Nat \ {0}
ASSUME BoundsAssumption == MaxTime \in Nat /\ MaxFaults \in Nat

VARIABLES
    now,
    active,      \* the driver whose walsender holds the slot
    run,         \* where the loop of Run is
    wakeAt,      \* when the timer of a wait fires
    attempt,     \* backoff.attempt
    freeSince,   \* history: when the slot became free
    failedAt,    \* history: when each driver last failed
    faults

vars == <<now, active, run, wakeAt, attempt, freeSince, failedAt, faults>>

-----------------------------------------------------------------------------
(* backoff.                                                                *)

DelayMutant(n) == ReconnectInitialDelay * 2^n

Delay(n) == Min({ReconnectInitialDelay * 2^n, ReconnectMaxDelay})

\* The jitter is 75 to 100 per cent of the delay.
Jittered(delay) == {w \in 0..delay : 4 * w >= 3 * delay}

-----------------------------------------------------------------------------
(* Run.                                                                    *)

\* runOnce takes a free slot.
Connect(d) ==
    /\ run[d] = "runOnce"
    /\ active = NoDriver
    /\ active' = d
    /\ run' = [run EXCEPT ![d] = "streaming"]
    /\ UNCHANGED <<now, wakeAt, attempt, freeSince, failedAt, faults>>

SlotBusyMutant(d) ==
    /\ run[d] = "runOnce"
    /\ active # NoDriver
    /\ \E w \in Jittered(Delay(attempt[d])) : wakeAt' = [wakeAt EXCEPT ![d] = now + w]
    /\ attempt' = [attempt EXCEPT ![d] = @ + 1]
    /\ run' = [run EXCEPT ![d] = "busyWait"]
    /\ UNCHANGED <<now, active, freeSince, failedAt, faults>>

\* errSlotBusy: a wait of SlotBusyRetryDelay +/- SlotBusyRetryJitter.
SlotBusy(d) ==
    /\ run[d] = "runOnce"
    /\ active # NoDriver
    /\ \E j \in (-SlotBusyRetryJitter)..SlotBusyRetryJitter :
          wakeAt' = [wakeAt EXCEPT ![d] = Max({now, now + SlotBusyRetryDelay + j})]
    /\ run' = [run EXCEPT ![d] = "busyWait"]
    /\ UNCHANGED <<now, active, attempt, freeSince, failedAt, faults>>

BacksOff(d) ==
    /\ \E w \in Jittered(Delay(attempt[d])) : wakeAt' = [wakeAt EXCEPT ![d] = now + w]
    /\ attempt' = [attempt EXCEPT ![d] = @ + 1]
    /\ run' = [run EXCEPT ![d] = "backoff"]
    /\ failedAt' = [failedAt EXCEPT ![d] = now]
    /\ UNCHANGED <<now, active, freeSince>>

\* Any other error of runOnce: bo.wait.  The server may still hold the slot for the session.
Fails(d) ==
    /\ faults < MaxFaults
    /\ faults' = faults + 1
    /\ run[d] \in {"runOnce", "streaming"}
    /\ BacksOff(d)

\* A session whose slot was lost fails at a later receive or status update.
StreamEnds(d) ==
    /\ run[d] = "streaming"
    /\ active # d
    /\ BacksOff(d)
    /\ UNCHANGED faults

TimerFires(d) ==
    /\ run[d] \in {"busyWait", "backoff"}
    /\ wakeAt[d] = now
    /\ run' = [run EXCEPT ![d] = "runOnce"]
    /\ UNCHANGED <<now, active, wakeAt, attempt, freeSince, failedAt, faults>>

\* ctx is done, in a session or in a wait.
Stops(d) ==
    /\ run[d] # "returned"
    /\ run' = [run EXCEPT ![d] = "returned"]
    /\ UNCHANGED <<now, active, wakeAt, attempt, freeSince, failedAt, faults>>

SlotFreed ==
    /\ active' = NoDriver
    /\ freeSince' = now
    /\ UNCHANGED <<now, run, wakeAt, attempt, failedAt>>

\* The server frees the slot of a connection that was closed.
ReleaseSlot(d) ==
    /\ active = d
    /\ run[d] # "streaming"
    /\ SlotFreed
    /\ UNCHANGED faults

\* The server ends a live session: timeout, failover, restart.
LoseSlot(d) ==
    /\ faults < MaxFaults
    /\ faults' = faults + 1
    /\ active = d
    /\ run[d] = "streaming"
    /\ SlotFreed

\* Time passes while every driver streams or waits.
Tick ==
    /\ now < MaxTime
    /\ \A d \in Drivers :
          run[d] \in {"streaming", "returned"} \/ (run[d] \in {"busyWait", "backoff"} /\ now < wakeAt[d])
    /\ now' = now + 1
    /\ UNCHANGED <<active, run, wakeAt, attempt, freeSince, failedAt, faults>>

-----------------------------------------------------------------------------
Init ==
    /\ now = 0
    /\ active = NoDriver
    /\ run = [d \in Drivers |-> "runOnce"]
    /\ wakeAt = [d \in Drivers |-> 0]
    /\ attempt = [d \in Drivers |-> 0]
    /\ freeSince = 0
    /\ failedAt = [d \in Drivers |-> 0]
    /\ faults = 0

Next ==
    \/ \E d \in Drivers :
          \/ Connect(d) \/ SlotBusy(d) \/ Fails(d) \/ StreamEnds(d) \/ TimerFires(d) \/ Stops(d)
          \/ ReleaseSlot(d) \/ LoseSlot(d)
    \/ Tick

Spec == Init /\ [][Next]_vars

-----------------------------------------------------------------------------
(* Properties.                                                             *)

\* While a standby polls, a slot that becomes free is taken within one wait of it, however
\* far the backoff of the failed leader, or that of the standby, has grown (Run), and however
\* the slot became free: released late after a failure, or lost under a session.
TakeoverBounded ==
    active = NoDriver /\ (\E d \in Drivers : run[d] = "busyWait")
        => now <= freeSince + SlotBusyRetryDelay + SlotBusyRetryJitter

\* A driver that waits or tries leaves a free slot idle for one of its waits at most, counted
\* from when the slot became free or from its own last failure (backoff.next).  For a driver
\* that has yet to notice that its slot is gone there is no bound: a receive that reaches its
\* deadline is no error.
IdleBounded ==
    \A d \in Drivers :
        active = NoDriver /\ run[d] \in {"runOnce", "busyWait", "backoff"}
            => now <= Max({freeSince, failedAt[d]})
                      + Max({ReconnectMaxDelay, SlotBusyRetryDelay + SlotBusyRetryJitter})
=============================================================================
