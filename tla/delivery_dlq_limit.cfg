\* One replica, no failures; a transaction with more rejected rows than one DLQ statement holds.
SPECIFICATION FairSpec
CONSTANTS
    d1 = d1  d2 = d2  r1 = r1  r2 = r2  r3 = r3  part1 = part1  part2 = part2
    Drivers = {d1}
    NoDriver = NoDriver
    Rows = {r1, r2}
    Relations = {part1}
    RelationOf <- OneRelation
    Malformed = {}
    Undecodable = {}
    MaxBatchSize = 1
    MaxDLQRows = 1
    MaxSpill = 0
    MaxLog = 1
    MaxFaults = 0
PROPERTY EventuallyHandled
