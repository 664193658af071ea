\* Two drivers in a pass at once, and a replica that may be away for any time and is sent rows
\* of any age. An hour, and a partition, is two units.
SPECIFICATION FairSpec
CONSTANTS
    d1 = d1  d2 = d2
    Drivers = {d1, d2}
    PartitionInterval = 2
    PartitionLookAhead = 2
    PartitionRetention = 1
    Minute = 1
    Hour = 2
    BackfillAhead = 2
    MaxPending = 1
    MaxTime = 5
    MaxFaults = 1
INVARIANT ReplicaCovered
PROPERTIES
    ReplicaKeepsRecent
    ReplicaExpiredDropped
