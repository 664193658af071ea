-------------------------------- MODULE Batch --------------------------------
(***************************************************************************)
(* One batch, row by row: the inserts are parsed (RowParser), submitted as *)
(* jobs (toJob), and the answer of submit, whose results jack may return   *)
(* in any order, with any CorrelationIDs and in any number, is matched to  *)
(* them (mapResults); the rejected rows are written to the DLQ             *)
(* (insertDLQRows).  Delivery takes from it that a row is dropped or       *)
(* delivered as it was written and that an accepted answer says of every   *)
(* row whether it was rejected; what becomes of the batch as a whole is    *)
(* the subject of Delivery.                                                *)
(***************************************************************************)
EXTENDS RowParser, FiniteSets

CONSTANTS
    Rows,             \* rows of {prefix}_jobs: id, created_at, payload, run_at, shadow, note
    SessionSettings,  \* of the walsender: offset at each time (TimeZone), dateStyle, byteaOutput
    Relations,        \* the orders the columns of the table may have
    UnknownIds,       \* CorrelationIDs of no row
    Reasons,          \* reasons jack gives
    MaxBatch          \* bound: inserts, and results

\* id stands for the columns whose text is their value (producer_id, job_type, trace_id),
\* note for one the driver does not know.
Columns == {"id", "created_at", "payload", "run_at", "shadow", "note"}

Ids == {row.id : row \in Rows}

\* The types of 001_create_outbox.sql; run_at is the one column of it that may be NULL, and
\* created_at cannot be infinite, since no partition has such a bound.
ASSUME RowsAssumption ==
    \A row \in Rows :
        /\ DOMAIN row = Columns
        /\ \A c \in Columns \ {"run_at", "note"} : row[c] # NULL
        /\ row.created_at \in Int \ {ZeroTime}
        /\ row.run_at \in {NULL, Infinity} \cup (Int \ {ZeroTime})
        /\ row.payload \in Seq(0..255)
        /\ row.shadow \in BOOLEAN
ASSUME SettingsAssumption ==
    \A s \in SessionSettings, row \in Rows :
        \A t \in {row.created_at, row.run_at} \ {NULL, Infinity} : s.offset[t] \in Int
\* pgoutput marks a NULL apart from every text.
ASSUME NullAssumption ==
    \A row \in Rows, c \in Columns, s \in SessionSettings : Text(row, c, s) = NULL => row[c] = NULL
ASSUME RelationsAssumption ==
    \A columns \in Relations : columns \in Seq(Columns) /\ ToSet(columns) = Columns
ASSUME IdsAssumption == Ids \cap UnknownIds = {}
ASSUME ReasonsAssumption == {"", "unspecified"} \cap Reasons = {}
ASSUME MaxBatchAssumption == MaxBatch \in Nat \ {0}

VARIABLES
    settings, columns,
    received,     \* history: the rows that were not dropped, in their order
    dropped,      \* history: the rows that were
    inserts,      \* the parsedInserts of the batch
    results,      \* what submit returned
    pc,
    i,            \* index of the loop
    insertByID, seen, rows,
    dlq           \* what was written to the DLQ

session == <<settings, columns, received, dropped>>
vars == <<session, inserts, results, pc, i, insertByID, seen, rows, dlq>>

-----------------------------------------------------------------------------
(* processWALStream and flushBatch.                                        *)

\* A row that does not parse is dropped.
Receive(row) ==
    LET outcome == ParseInsertColumns(columns, row, settings)
    IN  /\ pc = "receive"
        /\ Len(inserts) < MaxBatch
        /\ IF outcome = {}
           THEN dropped' = dropped \cup {row} /\ UNCHANGED <<inserts, received>>
           ELSE /\ \E parsed \in outcome : inserts' = Append(inserts, parsed)
                /\ received' = Append(received, row)
                /\ UNCHANGED dropped
        /\ UNCHANGED <<settings, columns, results, pc, i, insertByID, seen, rows, dlq>>

ToJob(parsed) ==
    [CorrelationID |-> parsed.id, Payload |-> parsed.payload, RunAt |-> parsed.run_at,
     Shadow |-> parsed.shadow]

Jobs == [k \in DOMAIN inserts |-> ToJob(inserts[k])]

\* An accepted job has Err ""; a rejected one may come without a reason.
Result == [CorrelationID : Ids \cup UnknownIds, rejected : {FALSE}, reason : {""}]
          \cup [CorrelationID : Ids \cup UnknownIds, rejected : {TRUE}, reason : Reasons \cup {""}]

SeqsUpTo(S, n) == UNION {[1..k -> S] : k \in 0..n}

\* submit returns Jobs' results, or what jack makes of them; an empty batch is not submitted.
Submit ==
    /\ pc = "receive"
    /\ inserts # <<>>
    /\ results' \in SeqsUpTo(Result, MaxBatch)
    /\ pc' = "count"
    /\ UNCHANGED <<session, inserts, i, insertByID, seen, rows, dlq>>

-----------------------------------------------------------------------------
(* mapResults.                                                             *)

CountMutant == TRUE

Count == Len(results) = Len(inserts)

CheckCount ==
    /\ pc = "count"
    /\ Count
    /\ pc' = "index"
    /\ UNCHANGED <<session, inserts, results, i, insertByID, seen, rows, dlq>>

\* for i := range inserts: one entry of insertByID.
IndexInsert ==
    /\ pc = "index"
    /\ i <= Len(inserts)
    /\ inserts[i].id \notin DOMAIN insertByID
    /\ insertByID' = [c \in DOMAIN insertByID \cup {inserts[i].id} |->
                         IF c = inserts[i].id THEN i ELSE insertByID[c]]
    /\ i' = i + 1
    /\ UNCHANGED <<session, inserts, results, pc, seen, rows, dlq>>

IndexDone ==
    /\ pc = "index"
    /\ i > Len(inserts)
    /\ pc' = "match"
    /\ i' = 1
    /\ UNCHANGED <<session, inserts, results, insertByID, seen, rows, dlq>>

DuplicateMutant(r) == inserts[i].id # r.CorrelationID

Duplicate(r) == r.CorrelationID \in seen

Reason(r) == IF r.reason = "" THEN "unspecified" ELSE r.reason

DLQRowMutant(r) == [insert |-> inserts[i], reason |-> Reason(r)]

DLQRow(r) == [insert |-> inserts[insertByID[r.CorrelationID]], reason |-> Reason(r)]

\* for _, r := range results: one result.
MatchResult ==
    LET r == results[i]
    IN  /\ pc = "match"
        /\ i <= Len(results)
        /\ ~Duplicate(r)
        /\ seen' = seen \cup {r.CorrelationID}
        /\ r.CorrelationID \in DOMAIN insertByID
        /\ rows' = IF r.rejected THEN Append(rows, DLQRow(r)) ELSE rows
        /\ i' = i + 1
        /\ UNCHANGED <<session, inserts, results, pc, insertByID, dlq>>

MatchDone ==
    /\ pc = "match"
    /\ i > Len(results)
    /\ pc' = "accepted"
    /\ UNCHANGED <<session, inserts, results, i, insertByID, seen, rows, dlq>>

\* The four errors; rows is dropped and flushBatch does not move the cursor.
Mismatch ==
    /\ \/ pc = "count" /\ ~Count
       \/ pc = "index" /\ i <= Len(inserts) /\ inserts[i].id \in DOMAIN insertByID
       \/ /\ pc = "match" /\ i <= Len(results)
          /\ Duplicate(results[i]) \/ results[i].CorrelationID \notin DOMAIN insertByID
    /\ pc' = "refused"
    /\ UNCHANGED <<session, inserts, results, i, insertByID, seen, rows, dlq>>

InsertDLQRowsMutant ==
    /\ pc = "accepted"
    /\ dlq' = rows
    /\ pc' = "persisted"
    /\ UNCHANGED <<session, inserts, results, i, insertByID, seen, rows>>

\* One INSERT for all of them; a zero runAt is written as NULL.
InsertDLQRows ==
    /\ pc = "accepted"
    /\ dlq' = [k \in DOMAIN rows |->
                  [rows[k] EXCEPT !.insert.run_at = IF @ = ZeroTime THEN NULL ELSE @]]
    /\ pc' = "persisted"
    /\ UNCHANGED <<session, inserts, results, i, insertByID, seen, rows>>

-----------------------------------------------------------------------------
Init ==
    /\ settings \in SessionSettings
    /\ columns \in Relations
    /\ received = <<>> /\ dropped = {}
    /\ inserts = <<>> /\ results = <<>>
    /\ pc = "receive" /\ i = 1
    /\ insertByID = <<>> /\ seen = {} /\ rows = <<>> /\ dlq = <<>>

Next ==
    \/ \E row \in Rows : Receive(row)
    \/ Submit
    \/ CheckCount \/ IndexInsert \/ IndexDone \/ MatchResult \/ MatchDone \/ Mismatch
    \/ InsertDLQRows

Spec == Init /\ [][Next]_vars

-----------------------------------------------------------------------------
(* Properties.                                                             *)

InsertIds == {inserts[k].id : k \in DOMAIN inserts}

\* Every insert has one result of its own, and there is no other.
OneResultEach ==
    /\ Len(results) = Len(inserts)
    /\ {results[k].CorrelationID : k \in DOMAIN results} = InsertIds
    /\ Cardinality(InsertIds) = Len(inserts)

\* mapResults never looks for an insert without a result: that an answer it accepts has
\* one for every insert follows from the counts and the duplicates it refuses.  A row
\* without a verdict would be behind the cursor for good.
EveryInsertAnswered == pc \in {"accepted", "persisted"} => OneResultEach

\* An answer with one result for each insert is accepted in any order, so mapResults does
\* not stall the slot on it; only a batch that repeats an id is refused whatever jack says.
GoodAnswerAccepted == pc = "refused" => ~OneResultEach

\* The rows for the DLQ (mapResults) are the rejected inserts, each once and in the order
\* of the results, made from the insert with the id of the result wherever courier-lib
\* moved it, and none is without a reason.
RowsAreTheRejected ==
    pc = "accepted" =>
        /\ {rows[k].insert.id : k \in DOMAIN rows}
              = {results[k].CorrelationID : k \in {n \in DOMAIN results : results[n].rejected}}
        /\ \A k \in DOMAIN rows : rows[k].reason # ""
        /\ \A j, k \in DOMAIN rows :
              j < k => \E m, n \in DOMAIN results :
                          /\ m < n
                          /\ results[m].CorrelationID = rows[j].insert.id
                          /\ results[n].CorrelationID = rows[k].insert.id

\* decodeBytea reads the hex format, and of the escape format what looks the same.
Decoded(row) == settings.byteaOutput = "hex" \/ \A k \in DOMAIN row.payload : Plain(row.payload[k])

\* jack receives each row as it was written (parseInsertColumns, toJob), whatever the order
\* of the columns and the time zone of the session, and under bytea_output = hex whatever
\* the bytes of the payload.
JobIsTheRow ==
    \A k \in DOMAIN Jobs :
        LET job == Jobs[k]  row == received[k]
        IN  /\ job.CorrelationID = row.id /\ job.Shadow = row.shadow
            /\ job.RunAt = IF row.run_at = NULL THEN ZeroTime ELSE row.run_at
            /\ Decoded(row) => job.Payload = row.payload

\* The DLQ keeps each rejected row as it was written, and not another one of the batch
\* (insertDLQRows): a run_at that was NULL is NULL again after its way through Go's zero
\* time.
DLQRowIsTheRow ==
    \A k \in DOMAIN dlq : \E n \in DOMAIN received :
        \A c \in DOMAIN EmptyRow :
            c # "payload" \/ Decoded(received[n]) => dlq[k].insert[c] = received[n][c]

\* A time of the row that TimeZone does not put a whole number of hours from UTC.
OddZone(row) ==
    \E t \in {row.created_at, row.run_at} \ {NULL, Infinity} : settings.offset[t] % 3600 # 0

\* A row is dropped (parseTimestamp) only under a date style other than ISO, because of a zone
\* that is not a whole hour at one of its times, or for a run_at that is infinite or has no
\* year of four digits; all other rows reach jack, whatever came before them.
DroppedUnreadable ==
    \A row \in dropped :
        settings.dateStyle # "ISO" \/ OddZone(row) \/ row.run_at = Infinity
=============================================================================
