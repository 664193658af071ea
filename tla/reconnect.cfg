\* Two drivers; the backoff reaches its maximum at the third failure. They may all be stopped,
\* and the clock ends.
SPECIFICATION Spec
CONSTANTS
    d1 = d1  d2 = d2  none = none
    Drivers = {d1, d2}
    NoDriver = none
    ReconnectInitialDelay = 1
    ReconnectMaxDelay = 3
    SlotBusyRetryDelay = 1
    SlotBusyRetryJitter = 1
    MaxTime = 12
    MaxFaults = 4
SYMMETRY Symmetric
CHECK_DEADLOCK FALSE
INVARIANTS
    TakeoverBounded
    IdleBounded
