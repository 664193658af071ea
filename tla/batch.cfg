\* Every answer of up to three results to every batch of up to three inserts, under three time
\* zones, two date styles and two bytea formats. A row with an infinite run_at is never in a
\* batch, so its id is unknown to mapResults. A batch ends.
SPECIFICATION Spec
CONSTANTS
    NULL = NULL
    Infinity = Infinity
    Rows <- SomeRows
    SessionSettings <- SomeSettings
    Relations <- SomeRelations
    UnknownIds = {}
    Reasons = {"invalid"}
    MaxBatch = 3
CHECK_DEADLOCK FALSE
INVARIANTS
    EveryInsertAnswered
    GoodAnswerAccepted
    RowsAreTheRejected
    JobIsTheRow
    DLQRowIsTheRow
    DroppedUnreadable
