\* One driver, and a replica that is given the partition of a row it could not apply.
SPECIFICATION FairSpec
CONSTANTS
    d1 = d1  d2 = d2
    Drivers = {d1}
    PartitionInterval = 2
    PartitionLookAhead = 2
    PartitionRetention = 1
    Minute = 1
    Hour = 2
    BackfillAhead = 2
    MaxPending = 1
    MaxTime = 5
    MaxFaults = 1
PROPERTY ReplicaKeepsPending
