\* Two replicas under fairness, one failure; r3 does not parse, and a Begin may not decode.
SPECIFICATION FairSpec
CONSTANTS
    d1 = d1  d2 = d2  r1 = r1  r2 = r2  r3 = r3  part1 = part1  part2 = part2
    Drivers = {d1, d2}
    NoDriver = NoDriver
    Rows = {r1, r2, r3}
    Relations = {part1, part2}
    RelationOf <- TwoRelations
    Malformed = {r3}
    Undecodable = {"Begin"}
    MaxBatchSize = 2
    MaxDLQRows = 2
    MaxSpill = 0
    MaxLog = 2
    MaxFaults = 1
INVARIANTS
    OnlyMalformedDropped
    NoDuplicateWithoutFailure
PROPERTIES
    EventuallyHandled
    SlotCatchesUp
