\* Two replicas, either of which may outlive its hold on the slot; no message reaches the next
\* commit record, and a Commit may not decode. Drivers and rows are interchangeable.
SPECIFICATION Spec
CONSTANTS
    d1 = d1  d2 = d2  r1 = r1  r2 = r2  r3 = r3  part1 = part1  part2 = part2
    Drivers = {d1, d2}
    NoDriver = NoDriver
    Rows = {r1, r2}
    Relations = {part1}
    RelationOf <- OneRelation
    Malformed = {}
    Undecodable = {"Commit"}
    MaxBatchSize = 2
    MaxDLQRows = 1
    MaxSpill = 0
    MaxLog = 3
    MaxFaults = 2
SYMMETRY Symmetric
INVARIANTS
    TypeOK
    NoLoss
    ConfirmedBehindCursor
    DLQBehindCursor
    BatchDeadline
    DeliveryInv
PROPERTIES
    CursorMonotone
    ImplementsOutbox
