--------------------------- MODULE ReconnectProofs ---------------------------
(***************************************************************************)
(* Proofs about Reconnect, for every number of drivers and failures and    *)
(* every choice of the delays.                                             *)
(***************************************************************************)
EXTENDS Reconnect, FiniteSetTheorems, TLAPS

\* The longest wait for a busy slot.
BusyWait == SlotBusyRetryDelay + SlotBusyRetryJitter

-----------------------------------------------------------------------------
(* The inductive invariant, in parts.                                      *)

ReconnectTypeOK ==
    /\ now \in Nat /\ freeSince \in Nat /\ faults \in Nat
    /\ active \in Drivers \cup {NoDriver}
    /\ run \in [Drivers -> {"runOnce", "streaming", "busyWait", "backoff", "returned"}]
    /\ wakeAt \in [Drivers -> Nat]
    /\ attempt \in [Drivers -> Nat]
    /\ failedAt \in [Drivers -> Nat]

HistoryPast == freeSince <= now /\ \A d \in Drivers : failedAt[d] <= now

\* No timer is overdue.
TimersAhead ==
    \A d \in Drivers : run[d] \in {"busyWait", "backoff"} => now <= wakeAt[d]

\* A wait for a busy slot began before the slot was freed, so it ends one wait after that.
BusyWakes ==
    \A d \in Drivers : run[d] = "busyWait" =>
        /\ wakeAt[d] <= now + BusyWait
        /\ active = NoDriver => wakeAt[d] <= freeSince + BusyWait

\* A backoff ends at most its longest delay after the failure it began with.
BackoffWakes ==
    \A d \in Drivers : run[d] = "backoff" => wakeAt[d] <= failedAt[d] + ReconnectMaxDelay

\* An attempt on a free slot follows the wait that led to it without delay.
AttemptsPrompt ==
    \A d \in Drivers : run[d] = "runOnce" /\ active = NoDriver =>
        \/ now <= freeSince + BusyWait
        \/ now <= failedAt[d] + ReconnectMaxDelay

ReconnectInv ==
    /\ ReconnectTypeOK /\ HistoryPast
    /\ TimersAhead /\ BusyWakes /\ BackoffWakes /\ AttemptsPrompt

-----------------------------------------------------------------------------
(* The operators.                                                          *)

\* The greater of two numbers.
LEMMA MaxOfTwo ==
    ASSUME NEW a \in Int, NEW b \in Int
    PROVE  Max({a, b}) = IF a >= b THEN a ELSE b
  <1> DEFINE m == IF a >= b THEN a ELSE b
  <1>1. m \in {a, b} /\ \A y \in {a, b} : m >= y
    OBVIOUS
  <1>2. \A x \in {a, b} : (\A y \in {a, b} : x >= y) => x = m
    OBVIOUS
  <1> QED
    BY <1>1, <1>2 DEF Max

\* The smaller of two numbers.
LEMMA MinOfTwo ==
    ASSUME NEW a \in Int, NEW b \in Int
    PROVE  Min({a, b}) = IF a <= b THEN a ELSE b
  <1> DEFINE m == IF a <= b THEN a ELSE b
  <1>1. m \in {a, b} /\ \A y \in {a, b} : m <= y
    OBVIOUS
  <1>2. \A x \in {a, b} : (\A y \in {a, b} : x <= y) => x = m
    OBVIOUS
  <1> QED
    BY <1>1, <1>2 DEF Min

\* A power of two is a number: it counts the subsets of a finite set.
LEMMA PowerOfTwo ==
    ASSUME NEW n \in Nat
    PROVE  2^n \in Nat
  <1>1. IsFiniteSet(1..n) /\ Cardinality(1..n) = n
    BY FS_Interval
  <1>2. IsFiniteSet(SUBSET (1..n)) /\ Cardinality(SUBSET (1..n)) = 2^n
    BY <1>1, FS_SUBSET
  <1> QED
    BY <1>2, FS_CardinalityType

\* The backoff stays within its maximum, however many attempts failed (backoff.next).
LEMMA DelayBounded ==
    ASSUME NEW n \in Nat, NEW w \in Jittered(Delay(n))
    PROVE  w \in Nat /\ w <= ReconnectMaxDelay
  <1>1. 2^n \in Nat
    BY PowerOfTwo
  <1>2. ReconnectInitialDelay * 2^n \in Nat
    BY <1>1, DelaysAssumption
  <1>3. Delay(n) \in Nat /\ Delay(n) <= ReconnectMaxDelay
    BY <1>2, MinOfTwo, DelaysAssumption DEF Delay
  <1> QED
    BY <1>3, DelaysAssumption DEF Jittered

-----------------------------------------------------------------------------
(* The invariant is kept.                                                  *)

LEMMA InitReconnect == Init => ReconnectInv
  BY DriversAssumption, DelaysAssumption
  DEF Init, ReconnectInv, ReconnectTypeOK, HistoryPast, TimersAhead, BusyWakes,
      BackoffWakes, AttemptsPrompt, BusyWait

LEMMA BusyWaitType == BusyWait \in Nat
  BY DelaysAssumption DEF BusyWait

LEMMA ConnectKeeps ==
    ASSUME ReconnectInv, NEW d \in Drivers, Connect(d)
    PROVE  ReconnectInv'
  <1> USE DriversAssumption, DelaysAssumption, BusyWaitType
      DEF ReconnectInv, ReconnectTypeOK, Connect
  <1>1. ReconnectTypeOK'
    OBVIOUS
  <1>2. HistoryPast' /\ TimersAhead' /\ BackoffWakes'
    BY DEF HistoryPast, TimersAhead, BackoffWakes
  <1>3. BusyWakes' /\ AttemptsPrompt'
    BY DEF BusyWakes, AttemptsPrompt, BusyWait
  <1> QED
    BY <1>1, <1>2, <1>3

LEMMA SlotBusyKeeps ==
    ASSUME ReconnectInv, NEW d \in Drivers, SlotBusy(d)
    PROVE  ReconnectInv'
  <1> USE DriversAssumption, DelaysAssumption DEF ReconnectInv, ReconnectTypeOK, SlotBusy
  <1>1. PICK j \in (-SlotBusyRetryJitter)..SlotBusyRetryJitter :
            wakeAt' = [wakeAt EXCEPT ![d] = Max({now, now + SlotBusyRetryDelay + j})]
    BY DEF SlotBusy
  <1> DEFINE w == Max({now, now + SlotBusyRetryDelay + j})
  <1>2. w \in Nat /\ now <= w /\ w <= now + BusyWait
    <2>1. now \in Int /\ now + SlotBusyRetryDelay + j \in Int
      BY <1>1
    <2> QED
      BY <2>1, MaxOfTwo DEF BusyWait
  <1> HIDE DEF w
  <1>3. wakeAt' = [wakeAt EXCEPT ![d] = w]
    BY <1>1 DEF w
  <1>4. ReconnectTypeOK'
    BY <1>2, <1>3
  <1>5. HistoryPast' /\ TimersAhead' /\ BackoffWakes'
    BY <1>2, <1>3 DEF HistoryPast, TimersAhead, BackoffWakes
  <1>6. BusyWakes' /\ AttemptsPrompt'
    BY <1>2, <1>3, BusyWaitType DEF BusyWakes, AttemptsPrompt
  <1> QED
    BY <1>4, <1>5, <1>6

LEMMA BacksOffKeeps ==
    ASSUME ReconnectInv, NEW d \in Drivers, Fails(d) \/ StreamEnds(d)
    PROVE  ReconnectInv'
  <1> USE DriversAssumption, DelaysAssumption DEF ReconnectInv, ReconnectTypeOK
  <1>0. BacksOff(d) /\ faults' \in {faults, faults + 1}
    BY DEF Fails, StreamEnds
  <1>1. PICK w \in Jittered(Delay(attempt[d])) : wakeAt' = [wakeAt EXCEPT ![d] = now + w]
    BY <1>0 DEF BacksOff
  <1>2. w \in Nat /\ w <= ReconnectMaxDelay
    BY <1>1, DelayBounded
  <1>3. /\ attempt' = [attempt EXCEPT ![d] = @ + 1]
        /\ run' = [run EXCEPT ![d] = "backoff"]
        /\ failedAt' = [failedAt EXCEPT ![d] = now]
        /\ UNCHANGED <<now, active, freeSince>>
    BY <1>0 DEF BacksOff
  <1>4. ReconnectTypeOK'
    BY <1>0, <1>1, <1>2, <1>3
  <1>5. HistoryPast' /\ TimersAhead' /\ BackoffWakes'
    BY <1>1, <1>2, <1>3 DEF HistoryPast, TimersAhead, BackoffWakes
  <1>6. BusyWakes'
    BY <1>1, <1>2, <1>3, BusyWaitType DEF BusyWakes
  <1>7. AttemptsPrompt'
    BY <1>3, BusyWaitType DEF AttemptsPrompt
  <1> QED
    BY <1>4, <1>5, <1>6, <1>7

LEMMA TimerFiresKeeps ==
    ASSUME ReconnectInv, NEW d \in Drivers, TimerFires(d)
    PROVE  ReconnectInv'
  <1> USE DriversAssumption, DelaysAssumption, BusyWaitType
      DEF ReconnectInv, ReconnectTypeOK, TimerFires
  <1>1. ReconnectTypeOK'
    OBVIOUS
  <1>2. HistoryPast' /\ TimersAhead' /\ BackoffWakes' /\ BusyWakes'
    BY DEF HistoryPast, TimersAhead, BackoffWakes, BusyWakes
  <1>3. AttemptsPrompt'
    BY DEF AttemptsPrompt, BusyWakes, BackoffWakes
  <1> QED
    BY <1>1, <1>2, <1>3

LEMMA StopsKeeps ==
    ASSUME ReconnectInv, NEW d \in Drivers, Stops(d)
    PROVE  ReconnectInv'
  <1> USE DriversAssumption, DelaysAssumption, BusyWaitType
      DEF ReconnectInv, ReconnectTypeOK, Stops
  <1>1. ReconnectTypeOK'
    OBVIOUS
  <1>2. HistoryPast' /\ TimersAhead' /\ BackoffWakes'
    BY DEF HistoryPast, TimersAhead, BackoffWakes
  <1>3. BusyWakes' /\ AttemptsPrompt'
    BY DEF BusyWakes, AttemptsPrompt
  <1> QED
    BY <1>1, <1>2, <1>3

\* The slot becomes free: every wait for it has begun, so it ends one wait from now.
LEMMA FreedKeeps ==
    ASSUME ReconnectInv, NEW d \in Drivers, ReleaseSlot(d) \/ LoseSlot(d)
    PROVE  ReconnectInv'
  <1> USE DriversAssumption, DelaysAssumption, BusyWaitType DEF ReconnectInv, ReconnectTypeOK
  <1>0. SlotFreed /\ faults' \in {faults, faults + 1}
    BY DEF ReleaseSlot, LoseSlot
  <1>1. ReconnectTypeOK'
    BY <1>0 DEF SlotFreed
  <1>2. HistoryPast' /\ TimersAhead' /\ BackoffWakes'
    BY <1>0 DEF SlotFreed, HistoryPast, TimersAhead, BackoffWakes
  <1>3. BusyWakes' /\ AttemptsPrompt'
    BY <1>0 DEF SlotFreed, BusyWakes, AttemptsPrompt
  <1> QED
    BY <1>1, <1>2, <1>3

LEMMA TickKeeps ==
    ASSUME ReconnectInv, Tick
    PROVE  ReconnectInv'
  <1> USE DriversAssumption, DelaysAssumption, BusyWaitType
      DEF ReconnectInv, ReconnectTypeOK, Tick
  <1>1. ReconnectTypeOK' /\ HistoryPast'
    BY DEF HistoryPast
  <1>2. TimersAhead' /\ BackoffWakes' /\ BusyWakes'
    BY DEF TimersAhead, BackoffWakes, BusyWakes
  <1>3. AttemptsPrompt'
    BY DEF AttemptsPrompt
  <1> QED
    BY <1>1, <1>2, <1>3

-----------------------------------------------------------------------------
(* The theorems.                                                           *)

\* Every wait of Run ends when it should: a busy slot is asked for again within one wait of
\* the moment it became free, a failed driver within the longest backoff of its failure.
THEOREM ReconnectInvariant == Spec => []ReconnectInv
  <1>1. ReconnectInv /\ [Next]_vars => ReconnectInv'
    <2> SUFFICES ASSUME ReconnectInv, [Next]_vars
                 PROVE  ReconnectInv'
      OBVIOUS
    <2>1. CASE \E d \in Drivers :
                  \/ Connect(d) \/ SlotBusy(d) \/ Fails(d) \/ StreamEnds(d) \/ TimerFires(d)
                  \/ Stops(d) \/ ReleaseSlot(d) \/ LoseSlot(d)
      BY <2>1, ConnectKeeps, SlotBusyKeeps, BacksOffKeeps, TimerFiresKeeps, StopsKeeps,
         FreedKeeps
    <2>2. CASE Tick
      BY <2>2, TickKeeps
    <2>3. CASE UNCHANGED vars
      BY <2>3
      DEF vars, ReconnectInv, ReconnectTypeOK, HistoryPast, TimersAhead,
          BusyWakes, BackoffWakes, AttemptsPrompt
    <2> QED
      BY <2>1, <2>2, <2>3 DEF Next
  <1> QED
    BY InitReconnect, <1>1, PTL DEF Spec

\* A standby that polls takes over within one wait of the slot becoming free, whatever the
\* backoffs of the drivers have grown to and however it became free (Run, errSlotBusy).
THEOREM TakeoverIsBounded == Spec => []TakeoverBounded
  <1>1. ReconnectInv => TakeoverBounded
    BY DelaysAssumption
    DEF ReconnectInv, ReconnectTypeOK, TimersAhead, BusyWakes, BusyWait, TakeoverBounded
  <1> QED
    BY ReconnectInvariant, <1>1, PTL

\* No driver that waits or tries leaves a free slot idle for longer than its longest wait, counted
\* from when the slot became free or from its own last failure (backoff.next, wait).
THEOREM IdleIsBounded == Spec => []IdleBounded
  <1>1. ReconnectInv => IdleBounded
    <2> SUFFICES ASSUME ReconnectInv, NEW d \in Drivers, active = NoDriver,
                        run[d] \in {"runOnce", "busyWait", "backoff"}
                 PROVE  now <= Max({freeSince, failedAt[d]}) + Max({ReconnectMaxDelay, BusyWait})
      BY DEF IdleBounded, BusyWait
    <2> USE DelaysAssumption, BusyWaitType DEF ReconnectInv, ReconnectTypeOK
    <2>1. /\ Max({freeSince, failedAt[d]}) \in Nat
          /\ Max({freeSince, failedAt[d]}) >= freeSince
          /\ Max({freeSince, failedAt[d]}) >= failedAt[d]
      BY MaxOfTwo
    <2>2. /\ Max({ReconnectMaxDelay, BusyWait}) \in Nat
          /\ Max({ReconnectMaxDelay, BusyWait}) >= ReconnectMaxDelay
          /\ Max({ReconnectMaxDelay, BusyWait}) >= BusyWait
      BY MaxOfTwo
    <2>3. \/ now <= freeSince + BusyWait
          \/ now <= failedAt[d] + ReconnectMaxDelay
      <3>1. CASE run[d] = "runOnce"
        BY <3>1 DEF AttemptsPrompt
      <3>2. CASE run[d] = "busyWait"
        BY <3>2 DEF TimersAhead, BusyWakes
      <3>3. CASE run[d] = "backoff"
        BY <3>3 DEF TimersAhead, BackoffWakes
      <3> QED
        BY <3>1, <3>2, <3>3
    <2> QED
      BY <2>1, <2>2, <2>3
  <1> QED
    BY ReconnectInvariant, <1>1, PTL
=============================================================================
