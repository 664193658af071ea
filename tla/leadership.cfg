\* Two replicas; all processes may be stopped, so the system may come to rest.
SPECIFICATION CleanupSpec
CONSTANTS
    d1 = d1  d2 = d2
    Drivers = {d1, d2}
    NoDriver = NoDriver
    MaxFaults = 2
CHECK_DEADLOCK FALSE
INVARIANTS
    TypeOK
    FirstWakePending
PROPERTIES
    StaleLeaderYields
    LeaderMaintains
    SlotTaken
    ShutdownCompletes
    ExpiredPruned
