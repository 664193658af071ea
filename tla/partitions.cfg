\* Two drivers in a pass at once and pglg-setup, which may stop halfway and be run again.
\* An hour, and a partition, is two units.
SPECIFICATION FairSpec
CONSTANTS
    d1 = d1  d2 = d2
    Drivers = {d1, d2}
    PartitionInterval = 2
    PartitionLookAhead = 3
    PartitionRetention = 2
    Minute = 1
    Hour = 2
    MaxTime = 6
    MaxFaults = 1
INVARIANTS
    TypeOK
    MetaTrue
    LookAheadCovered
PROPERTIES
    KeptForRetention
    ExpiredDropped
