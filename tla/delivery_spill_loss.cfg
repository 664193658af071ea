\* One replica, one failure, messages that reach one commit record further than their own.
SPECIFICATION FairSpec
CONSTANTS
    d1 = d1  d2 = d2  r1 = r1  r2 = r2  r3 = r3  part1 = part1  part2 = part2
    Drivers = {d1}
    NoDriver = NoDriver
    Rows = {r1, r2}
    Relations = {part1}
    RelationOf <- OneRelation
    Malformed = {}
    Undecodable = {}
    MaxBatchSize = 1
    MaxDLQRows = 2
    MaxSpill = 1
    MaxLog = 2
    MaxFaults = 1
PROPERTY EventuallyHandled
