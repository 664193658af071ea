----------------------------- MODULE BatchProofs -----------------------------
(***************************************************************************)
(* Proofs about Batch, for batches of any size and any rows, columns,      *)
(* settings and answers: first mapResults, of which nothing depends on     *)
(* the parser, then what the parser makes of a row (RowParser) and what    *)
(* jack and the DLQ receive.                                               *)
(***************************************************************************)
EXTENDS Batch, FiniteSetTheorems, SequenceTheorems, WellFoundedInduction, TLAPS

\* What the parser may return.
Inserts ==
    UNION {ParseInsertColumns(c, row, s) : c \in Relations, row \in Rows, s \in SessionSettings}

DLQRows == [insert : Inserts, reason : Reasons \cup {"unspecified"}]

-----------------------------------------------------------------------------
(* The inductive invariant, in parts.                                      *)

BatchTypeOK ==
    /\ settings \in SessionSettings /\ columns \in Relations
    /\ inserts \in Seq(Inserts) /\ results \in Seq(Result)
    /\ pc \in {"receive", "count", "index", "match", "accepted", "persisted", "refused"}
    /\ i \in Nat \ {0}
    /\ rows \in Seq(DLQRows)

\* The first n inserts are in insertByID, each under an id of its own.
Indexed(n) ==
    /\ DOMAIN insertByID = {inserts[k].id : k \in 1..n}
    /\ \A k \in 1..n : insertByID[inserts[k].id] = k

\* The first n results have been seen, each for an insert of its own.
Seen(n) ==
    /\ seen = {results[k].CorrelationID : k \in 1..n}
    /\ seen \subseteq DOMAIN insertByID
    /\ \A j, k \in 1..n : results[j].CorrelationID = results[k].CorrelationID => j = k

RowIds(R) == {R[k].insert.id : k \in DOMAIN R}

\* The ids of the rejections among the first n results.
RejectedIds(answer, n) == {answer[k].CorrelationID : k \in {m \in 1..n : answer[m].rejected}}

\* The rows are in the order of the first n results.
InOrderOf(R, answer, n) ==
    \A j, k \in DOMAIN R :
        j < k => \E l, m \in 1..n : /\ l < m
                                    /\ answer[l].CorrelationID = R[j].insert.id
                                    /\ answer[m].CorrelationID = R[k].insert.id

\* rows has the rejected among the first n results, in their order.
Collected(n) == RowIds(rows) = RejectedIds(results, n) /\ InOrderOf(rows, results, n)

Fresh == i = 1 /\ insertByID = <<>> /\ seen = {} /\ rows = <<>>

\* What mapResults knows at each of its loops.
Progress ==
    /\ pc \in {"receive", "count"} => Fresh
    /\ pc \in {"index", "match", "accepted", "persisted"} => Len(results) = Len(inserts)
    /\ pc = "index" => i <= Len(inserts) + 1 /\ Indexed(i - 1) /\ seen = {} /\ rows = <<>>
    /\ pc = "match" => /\ i <= Len(results) + 1
                       /\ Indexed(Len(inserts)) /\ Seen(i - 1) /\ Collected(i - 1)
    /\ pc \in {"accepted", "persisted"} =>
          Indexed(Len(inserts)) /\ Seen(Len(results)) /\ Collected(Len(results))

BatchInv == BatchTypeOK /\ Progress /\ GoodAnswerAccepted

-----------------------------------------------------------------------------
(* Counting.                                                               *)

\* A sequence of ids without repetition has as many as it is long.
LEMMA DistinctCount ==
    ASSUME NEW n \in Nat, NEW f, DOMAIN f = 1..n, NEW S, S = {f[k] : k \in 1..n}
    PROVE  /\ IsFiniteSet(S) /\ Cardinality(S) \in Nat
           /\ Cardinality(S) = n <=> \A j, k \in 1..n : f[j] = f[k] => j = k
  <1> DEFINE g == [k \in 1..n |-> f[k]]
  <1>1. g \in Surjection(1..n, S)
    BY DEF Surjection
  <1>2. IsFiniteSet(1..n) /\ Cardinality(1..n) = n
    BY FS_Interval
  <1>3. IsFiniteSet(S) /\ (Cardinality(S) = n <=> g \in Injection(1..n, S))
    BY <1>1, <1>2, FS_Surjection
  <1>4. g \in Injection(1..n, S) <=> \A j, k \in 1..n : f[j] = f[k] => j = k
    BY DEF Injection, IsInjective
  <1> QED
    BY <1>3, <1>4, FS_CardinalityType

\* As many different elements of a set as it has are all of it.
LEMMA DistinctFill ==
    ASSUME NEW S, IsFiniteSet(S), NEW T, T \subseteq S, Cardinality(T) = Cardinality(S)
    PROVE  T = S
  BY FS_Subset

LEMMA OneResultEachIs ==
    ASSUME BatchTypeOK, Len(results) = Len(inserts)
    PROVE  OneResultEach <=>
             /\ {results[k].CorrelationID : k \in 1..Len(results)} = {inserts[k].id : k \in 1..Len(inserts)}
             /\ \A j, k \in 1..Len(inserts) : inserts[j].id = inserts[k].id => j = k
             /\ \A j, k \in 1..Len(results) :
                   results[j].CorrelationID = results[k].CorrelationID => j = k
  <1> DEFINE n == Len(inserts)
             f == [k \in 1..n |-> inserts[k].id]
             g == [k \in 1..n |-> results[k].CorrelationID]
             S == {f[k] : k \in 1..n}
             T == {g[k] : k \in 1..n}
  <1>1. n \in Nat /\ DOMAIN inserts = 1..n /\ DOMAIN results = 1..n
    BY DEF BatchTypeOK
  <1>2. InsertIds = S /\ {results[k].CorrelationID : k \in DOMAIN results} = T
    BY <1>1 DEF InsertIds
  <1> HIDE DEF n
  <1>3. Cardinality(S) = n <=> \A j, k \in 1..n : f[j] = f[k] => j = k
    BY <1>1, DistinctCount
  <1>4. Cardinality(T) = n <=> \A j, k \in 1..n : g[j] = g[k] => j = k
    BY <1>1, DistinctCount
  <1> HIDE DEF S, T
  <1>5. OneResultEach <=> T = S /\ Cardinality(S) = n
    BY <1>2 DEF OneResultEach, n
  <1>6. OneResultEach <=> /\ T = S
                          /\ \A j, k \in 1..n : f[j] = f[k] => j = k
                          /\ \A j, k \in 1..n : g[j] = g[k] => j = k
    BY <1>3, <1>4, <1>5
  <1>7. S = {inserts[k].id : k \in 1..n} /\ T = {results[k].CorrelationID : k \in 1..n}
    BY DEF S, T
  <1>8. /\ \A k \in 1..n : f[k] = inserts[k].id
        /\ \A k \in 1..n : g[k] = results[k].CorrelationID
    OBVIOUS
  <1>9. Len(results) = n /\ Len(inserts) = n
    BY DEF n
  <1> HIDE DEF f, g
  <1>10. (\A j, k \in 1..n : f[j] = f[k] => j = k)
            <=> \A j, k \in 1..n : inserts[j].id = inserts[k].id => j = k
    BY <1>8
  <1>11. (\A j, k \in 1..n : g[j] = g[k] => j = k)
            <=> \A j, k \in 1..n : results[j].CorrelationID = results[k].CorrelationID => j = k
    BY <1>8
  <1>12. OneResultEach <=>
             /\ T = S
             /\ \A j, k \in 1..n : inserts[j].id = inserts[k].id => j = k
             /\ \A j, k \in 1..n : results[j].CorrelationID = results[k].CorrelationID => j = k
    BY <1>6, <1>10, <1>11
  <1> QED
    BY <1>7, <1>9, <1>12, Zenon

-----------------------------------------------------------------------------
(* Types.                                                                  *)

LEMMA AnswerType ==
    ASSUME NEW S, NEW n \in Nat, NEW s \in SeqsUpTo(S, n)
    PROVE  s \in Seq(S)
  <1>1. PICK k \in 0..n : s \in [1..k -> S]
    BY DEF SeqsUpTo
  <1>2. k \in Nat
    BY <1>1
  <1> QED
    BY <1>1, <1>2, SeqDef

\* insertByID leads to an insert of the batch.
LEMMA DLQRowType ==
    ASSUME BatchTypeOK, Progress, MatchResult
    PROVE  DLQRow(results[i]) \in DLQRows
  <1> DEFINE r == results[i]
  <1>1. pc = "match" /\ i <= Len(results) /\ r.CorrelationID \in DOMAIN insertByID
    BY DEF MatchResult
  <1>2. r \in Result
    BY <1>1 DEF BatchTypeOK
  <1>3. insertByID[r.CorrelationID] \in 1..Len(inserts)
    BY <1>1 DEF Progress, Indexed
  <1>4. DLQRow(r).insert \in Inserts
    BY <1>3 DEF DLQRow, BatchTypeOK
  <1>5. Reason(r) \in Reasons \cup {"unspecified"}
    BY <1>2 DEF Reason, Result
  <1> QED
    BY <1>4, <1>5 DEF DLQRow, DLQRows

LEMMA BatchTypes == BatchTypeOK /\ Progress /\ [Next]_vars => BatchTypeOK'
  <1> SUFFICES ASSUME BatchTypeOK, Progress, [Next]_vars PROVE BatchTypeOK'
    OBVIOUS
  <1>1. ASSUME NEW row \in Rows, Receive(row) PROVE BatchTypeOK'
    <2> DEFINE outcome == ParseInsertColumns(columns, row, settings)
    <2>1. outcome \subseteq Inserts
      BY DEF Inserts, BatchTypeOK
    <2>2. inserts' = inserts \/ \E parsed \in outcome : inserts' = Append(inserts, parsed)
      BY <1>1 DEF Receive
    <2>3. UNCHANGED <<settings, columns, results, pc, i, rows>>
      BY <1>1 DEF Receive
    <2> HIDE DEF outcome
    <2>4. inserts' \in Seq(Inserts)
      BY <2>1, <2>2 DEF BatchTypeOK
    <2> QED
      BY <2>3, <2>4 DEF BatchTypeOK
  <1>2. CASE Submit
    <2>1. results' \in Seq(Result)
      BY <1>2, AnswerType, MaxBatchAssumption DEF Submit
    <2> QED
      BY <1>2, <2>1 DEF Submit, BatchTypeOK, session
  <1>3. CASE CheckCount \/ IndexInsert \/ IndexDone \/ MatchDone \/ Mismatch \/ InsertDLQRows
    BY <1>3
    DEF CheckCount, IndexInsert, IndexDone, MatchDone, Mismatch, InsertDLQRows, BatchTypeOK, session
  <1>4. CASE MatchResult
    <2>1. /\ rows' = IF results[i].rejected THEN Append(rows, DLQRow(results[i])) ELSE rows
          /\ i' = i + 1
          /\ UNCHANGED <<session, inserts, results, pc>>
      BY <1>4 DEF MatchResult
    <2>2. rows' \in Seq(DLQRows)
      BY <1>4, <2>1, DLQRowType DEF BatchTypeOK
    <2> QED
      BY <2>1, <2>2 DEF BatchTypeOK, session
  <1>5. CASE UNCHANGED vars
    BY <1>5 DEF vars, session, BatchTypeOK
  <1> QED
    BY <1>1, <1>2, <1>3, <1>4, <1>5 DEF Next

-----------------------------------------------------------------------------
(* The loops of mapResults.                                                *)

\* The loop over the inserts: one more is indexed.
LEMMA IndexInsertKeeps ==
    ASSUME BatchTypeOK, Progress, IndexInsert
    PROVE  Progress'
  <1>1. /\ i \in Nat \ {0} /\ i <= Len(inserts) /\ i' = i + 1
        /\ inserts[i].id \notin DOMAIN insertByID
        /\ insertByID' = [c \in DOMAIN insertByID \cup {inserts[i].id} |->
                             IF c = inserts[i].id THEN i ELSE insertByID[c]]
        /\ UNCHANGED <<inserts, results, pc, seen, rows>>
        /\ pc = "index" /\ Len(inserts) \in Nat
    BY DEF BatchTypeOK, IndexInsert
  <1>2. /\ DOMAIN insertByID = {inserts[k].id : k \in 1..(i - 1)}
        /\ \A k \in 1..(i - 1) : insertByID[inserts[k].id] = k
        /\ Len(results) = Len(inserts) /\ seen = {} /\ rows = <<>>
    BY <1>1 DEF Progress, Indexed
  <1>3. 1..i = 1..(i - 1) \cup {i} /\ i' - 1 = i /\ i' <= Len(inserts) + 1
    BY <1>1
  <1>4. DOMAIN insertByID' = {inserts[k].id : k \in 1..i}
    BY <1>1, <1>2, <1>3
  <1>5. ASSUME NEW k \in 1..i
        PROVE  insertByID'[inserts[k].id] = k
    <2>1. CASE k = i
      BY <1>1, <2>1
    <2>2. CASE k \in 1..(i - 1)
      <3>1. inserts[k].id \in DOMAIN insertByID
        BY <1>2, <2>2
      <3> QED
        BY <1>1, <1>2, <2>2, <3>1
    <2> QED
      BY <1>3, <2>1, <2>2
  <1>6. Indexed(i - 1)'
    <2>1. inserts' = inserts /\ i' - 1 = i
      BY <1>1, <1>3
    <2> QED
      BY <1>4, <1>5, <2>1 DEF Indexed
  <1> QED
    BY <1>1, <1>2, <1>3, <1>6 DEF Progress

LEMMA RowIdsAppend ==
    ASSUME NEW S, NEW R \in Seq(S), NEW e \in S
    PROVE  RowIds(Append(R, e)) = RowIds(R) \cup {e.insert.id}
  <1> DEFINE n == Len(R)
             Q == Append(R, e)
  <1>1. /\ n \in Nat /\ DOMAIN R = 1..n /\ DOMAIN Q = 1..(n + 1)
        /\ Q[n + 1] = e /\ \A k \in 1..n : Q[k] = R[k]
    OBVIOUS
  <1> HIDE DEF n, Q
  <1>2. 1..(n + 1) = 1..n \cup {n + 1}
    BY <1>1
  <1> QED
    BY <1>1, <1>2 DEF RowIds, Q

LEMMA RejectedNext ==
    ASSUME NEW answer, NEW n \in Nat \ {0}
    PROVE  /\ answer[n].rejected =>
                 RejectedIds(answer, n) = RejectedIds(answer, n - 1) \cup {answer[n].CorrelationID}
           /\ ~answer[n].rejected => RejectedIds(answer, n) = RejectedIds(answer, n - 1)
  <1>1. 1..n = 1..(n - 1) \cup {n}
    OBVIOUS
  <1> QED
    BY <1>1 DEF RejectedIds

\* A row made from the next result comes after those that were made before it.
LEMMA OrderAppend ==
    ASSUME NEW S, NEW R \in Seq(S), NEW e \in S, NEW answer, NEW n \in Nat \ {0},
           e.insert.id = answer[n].CorrelationID,
           RowIds(R) = RejectedIds(answer, n - 1), InOrderOf(R, answer, n - 1)
    PROVE  InOrderOf(Append(R, e), answer, n)
  <1> DEFINE c == Len(R)
             Q == Append(R, e)
  <1>1. /\ c \in Nat /\ DOMAIN R = 1..c /\ DOMAIN Q = 1..(c + 1)
        /\ Q[c + 1] = e /\ \A k \in 1..c : Q[k] = R[k]
    OBVIOUS
  <1> SUFFICES InOrderOf(Q, answer, n)
    OBVIOUS
  <1> HIDE DEF c, Q
  <1> SUFFICES ASSUME NEW j \in DOMAIN Q, NEW k \in DOMAIN Q, j < k
               PROVE  \E l, m \in 1..n : /\ l < m
                                         /\ answer[l].CorrelationID = Q[j].insert.id
                                         /\ answer[m].CorrelationID = Q[k].insert.id
    BY Zenon DEF InOrderOf
  <1>2. j \in 1..c /\ Q[j] = R[j] /\ (k \in 1..c \/ k = c + 1)
    BY <1>1
  <1>3. CASE k \in 1..c
    <2>1. PICK l \in 1..(n - 1), m \in 1..(n - 1) :
              /\ l < m
              /\ answer[l].CorrelationID = R[j].insert.id
              /\ answer[m].CorrelationID = R[k].insert.id
      BY <1>1, <1>2, <1>3 DEF InOrderOf
    <2>2. l \in 1..n /\ m \in 1..n /\ Q[k] = R[k]
      BY <1>1, <1>3
    <2> QED
      BY <1>2, <2>1, <2>2
  <1>4. CASE k = c + 1
    <2>1. R[j].insert.id \in RejectedIds(answer, n - 1)
      BY <1>1, <1>2 DEF RowIds
    <2>2. PICK l \in 1..(n - 1) : answer[l].CorrelationID = R[j].insert.id
      BY <2>1 DEF RejectedIds
    <2>3. l \in 1..n /\ n \in 1..n /\ l < n
      OBVIOUS
    <2> QED
      BY <1>1, <1>2, <1>4, <2>2, <2>3
  <1> QED
    BY <1>2, <1>3, <1>4

\* The loop over the results: one more is seen and, if it is a rejection, collected.
LEMMA MatchResultKeeps ==
    ASSUME BatchTypeOK, Progress, MatchResult
    PROVE  Progress'
  <1> DEFINE r == results[i]
             id(k) == results[k].CorrelationID
  <1>1. /\ i \in Nat \ {0} /\ i <= Len(results) /\ i' = i + 1 /\ Len(results) \in Nat
        /\ r.CorrelationID \notin seen /\ seen' = seen \cup {r.CorrelationID}
        /\ r.CorrelationID \in DOMAIN insertByID
        /\ rows' = IF r.rejected THEN Append(rows, DLQRow(r)) ELSE rows
        /\ UNCHANGED <<inserts, results, pc, insertByID>>
        /\ pc = "match"
    BY DEF BatchTypeOK, MatchResult, Duplicate
  <1>2. /\ Len(results) = Len(inserts)
        /\ Indexed(Len(inserts)) /\ Seen(i - 1) /\ Collected(i - 1)
    BY <1>1 DEF Progress
  <1>3. 1..i = 1..(i - 1) \cup {i} /\ i \notin 1..(i - 1) /\ i' - 1 = i /\ i' <= Len(results) + 1
    BY <1>1
  <1>4. Seen(i - 1)'
    <2>1. seen' = {id(k) : k \in 1..i}
      BY <1>1, <1>2, <1>3 DEF Seen
    <2>2. seen' \subseteq DOMAIN insertByID
      BY <1>1, <1>2 DEF Seen
    <2>3. \A k \in 1..(i - 1) : id(k) # id(i)
      BY <1>1, <1>2 DEF Seen
    <2>4. \A j, k \in 1..(i - 1) : id(j) = id(k) => j = k
      BY <1>2 DEF Seen
    <2>5. \A j, k \in 1..i : id(j) = id(k) => j = k
      BY <1>3, <2>3, <2>4
    <2> QED
      BY <1>1, <1>3, <2>1, <2>2, <2>5 DEF Seen
  <1>5. DLQRow(r).insert.id = id(i)
    BY <1>1, <1>2 DEF Indexed, DLQRow
  <1>6. rows \in Seq(DLQRows) /\ DLQRow(r) \in DLQRows
    BY DLQRowType DEF BatchTypeOK
  <1>7. Collected(i - 1)'
    <2>1. RowIds(rows) = RejectedIds(results, i - 1) /\ InOrderOf(rows, results, i - 1)
      BY <1>2 DEF Collected
    <2>2. RowIds(rows') = RejectedIds(results, i) /\ InOrderOf(rows', results, i)
      <3>1. CASE r.rejected
        <4>1. rows' = Append(rows, DLQRow(r)) /\ r.CorrelationID = DLQRow(r).insert.id
          BY <1>1, <1>5, <3>1
        <4> HIDE DEF r
        <4>2. RowIds(rows') = RowIds(rows) \cup {r.CorrelationID}
          BY <1>6, <4>1, RowIdsAppend
        <4>3. InOrderOf(rows', results, i)
          BY <1>1, <1>6, <2>1, <4>1, OrderAppend DEF r
        <4> QED
          BY <1>1, <2>1, <3>1, <4>2, <4>3, RejectedNext DEF r
      <3>2. CASE ~r.rejected
        <4>1. InOrderOf(rows, results, i)
          BY <1>3, <2>1 DEF InOrderOf
        <4> QED
          BY <1>1, <2>1, <3>2, <4>1, RejectedNext
      <3> QED
        BY <3>1, <3>2
    <2>3. results' = results /\ i' - 1 = i
      BY <1>1, <1>3
    <2> QED
      BY <2>2, <2>3 DEF Collected
  <1>8. Indexed(Len(inserts))'
    BY <1>1, <1>2 DEF Indexed
  <1> QED
    BY <1>1, <1>2, <1>3, <1>4, <1>7, <1>8 DEF Progress

LEMMA OtherKeeps ==
    ASSUME BatchTypeOK, Progress,
           \/ \E row \in Rows : Receive(row)
           \/ Submit \/ CheckCount \/ IndexDone \/ MatchDone \/ Mismatch \/ InsertDLQRows
           \/ UNCHANGED vars
    PROVE  Progress'
  <1>0. i \in Nat \ {0} /\ Len(inserts) \in Nat /\ Len(results) \in Nat
    BY DEF BatchTypeOK
  <1>1. CASE \E row \in Rows : Receive(row)
    BY <1>1 DEF Receive, Progress, Fresh
  <1>2. CASE Submit
    BY <1>2 DEF Submit, Progress, Fresh
  <1>3. CASE CheckCount
    <2>1. pc' = "index" /\ Fresh /\ Fresh' /\ Len(results)' = Len(inserts)'
      BY <1>3 DEF CheckCount, Count, Progress, Fresh
    <2>2. 1..(i' - 1) = {} /\ i' <= Len(inserts)' + 1
      BY <1>0, <1>3, <2>1 DEF Fresh, CheckCount
    <2>3. Indexed(i - 1)'
      BY <2>1, <2>2 DEF Indexed, Fresh
    <2> QED
      BY <2>1, <2>2, <2>3 DEF Progress, Fresh
  <1>4. CASE IndexDone
    <2>1. /\ pc = "index" /\ pc' = "match" /\ i' = 1 /\ i > Len(inserts)
          /\ UNCHANGED <<inserts, results, insertByID, seen, rows>>
      BY <1>4 DEF IndexDone
    <2>2. /\ i = Len(inserts) + 1 /\ Indexed(i - 1) /\ seen = {} /\ rows = <<>>
          /\ Len(results) = Len(inserts)
      BY <1>0, <2>1 DEF Progress
    <2>3. i - 1 = Len(inserts) /\ 1..(i' - 1) = {} /\ i' <= Len(results) + 1
      BY <1>0, <2>1, <2>2
    <2>4. Indexed(Len(inserts))'
      BY <2>1, <2>2, <2>3 DEF Indexed
    <2>5. Seen(i - 1)'
      BY <2>1, <2>2, <2>3 DEF Seen
    <2>6. Collected(i - 1)'
      <3>1. DOMAIN rows' = {}
        BY <2>1, <2>2
      <3>2. RowIds(rows') = {} /\ RejectedIds(results', i' - 1) = {}
        BY <2>3, <3>1 DEF RowIds, RejectedIds
      <3>3. InOrderOf(rows', results', i' - 1)
        BY <3>1 DEF InOrderOf
      <3> QED
        BY <3>2, <3>3 DEF Collected
    <2> QED
      BY <2>1, <2>2, <2>3, <2>4, <2>5, <2>6 DEF Progress
  <1>5. CASE MatchDone
    <2>1. /\ pc = "match" /\ pc' = "accepted" /\ i > Len(results)
          /\ UNCHANGED <<inserts, results, insertByID, seen, rows>>
      BY <1>5 DEF MatchDone
    <2>2. /\ i - 1 = Len(results) /\ Len(results) = Len(inserts)
          /\ Indexed(Len(inserts)) /\ Seen(i - 1) /\ Collected(i - 1)
      BY <1>0, <2>1 DEF Progress
    <2>3. Indexed(Len(inserts))'
      BY <2>1, <2>2 DEF Indexed
    <2>4. Seen(Len(results))'
      BY <2>1, <2>2 DEF Seen
    <2>5. Collected(Len(results))'
      BY <2>1, <2>2 DEF Collected
    <2> QED
      BY <2>1, <2>2, <2>3, <2>4, <2>5 DEF Progress
  <1>6. CASE Mismatch
    BY <1>6 DEF Mismatch, Progress
  <1>7. CASE InsertDLQRows
    <2>1. /\ pc = "accepted" /\ pc' = "persisted"
          /\ UNCHANGED <<inserts, results, insertByID, seen, rows>>
      BY <1>7 DEF InsertDLQRows
    <2>2. Indexed(Len(inserts))' /\ Seen(Len(results))' /\ Collected(Len(results))'
      BY <2>1 DEF Progress, Indexed, Seen, Collected
    <2> QED
      BY <2>1, <2>2 DEF Progress
  <1>8. CASE UNCHANGED vars
    BY <1>8 DEF vars, Progress, Fresh, Indexed, Seen, Collected
  <1> QED
    BY <1>1, <1>2, <1>3, <1>4, <1>5, <1>6, <1>7, <1>8

\* Each of the four errors of mapResults is an answer, or a batch, that is not one to one.
LEMMA RefusalJustified ==
    ASSUME BatchTypeOK, Progress, Mismatch
    PROVE  ~OneResultEach
  <1> SUFFICES ASSUME OneResultEach PROVE FALSE
    OBVIOUS
  <1>0. i \in Nat \ {0} /\ Len(inserts) \in Nat /\ Len(results) = Len(inserts)
    BY DEF BatchTypeOK, OneResultEach
  <1>1. /\ {results[k].CorrelationID : k \in 1..Len(results)} = {inserts[k].id : k \in 1..Len(inserts)}
        /\ \A j, k \in 1..Len(inserts) : inserts[j].id = inserts[k].id => j = k
        /\ \A j, k \in 1..Len(results) :
              results[j].CorrelationID = results[k].CorrelationID => j = k
    BY <1>0, OneResultEachIs
  <1>2. CASE pc = "count" /\ ~Count
    BY <1>0, <1>2 DEF Count
  <1>3. CASE pc = "index" /\ i <= Len(inserts) /\ inserts[i].id \in DOMAIN insertByID
    <2>1. PICK k \in 1..(i - 1) : inserts[i].id = inserts[k].id
      BY <1>3 DEF Progress, Indexed
    <2>2. i \in 1..Len(inserts) /\ k \in 1..Len(inserts) /\ i # k
      BY <1>0, <1>3, <2>1
    <2> QED
      BY <1>1, <2>1, <2>2
  <1>4. CASE pc = "match" /\ i <= Len(results) /\ results[i].CorrelationID \in seen
    <2>1. PICK k \in 1..(i - 1) : results[i].CorrelationID = results[k].CorrelationID
      BY <1>4 DEF Progress, Seen
    <2>2. i \in 1..Len(results) /\ k \in 1..Len(results) /\ i # k
      BY <1>0, <1>4, <2>1
    <2> QED
      BY <1>1, <2>1, <2>2
  <1>5. CASE pc = "match" /\ i <= Len(results) /\ results[i].CorrelationID \notin DOMAIN insertByID
    <2>1. i \in 1..Len(results)
      BY <1>0, <1>5
    <2>2. DOMAIN insertByID = {inserts[k].id : k \in 1..Len(inserts)}
      BY <1>5 DEF Progress, Indexed
    <2> QED
      BY <1>1, <1>5, <2>1, <2>2
  <1> QED
    BY <1>2, <1>3, <1>4, <1>5 DEF Mismatch, Duplicate

LEMMA SameVerdict ==
    ASSUME inserts' = inserts, results' = results
    PROVE  OneResultEach' <=> OneResultEach
  <1>1. InsertIds' = InsertIds
    BY DEF InsertIds
  <1> QED
    BY <1>1, Zenon DEF OneResultEach

LEMMA BatchStep ==
    ASSUME BatchInv, [Next]_vars
    PROVE  BatchInv'
  <1>1. BatchTypeOK'
    BY BatchTypes DEF BatchInv
  <1>2. Progress'
    BY IndexInsertKeeps, MatchResultKeeps, OtherKeeps DEF BatchInv, Next
  <1>3. GoodAnswerAccepted'
    <2>1. CASE Mismatch
      <3>1. ~OneResultEach /\ inserts' = inserts /\ results' = results
        BY <2>1, RefusalJustified DEF BatchInv, Mismatch
      <3> QED
        BY <3>1, SameVerdict DEF GoodAnswerAccepted
    <2>2. CASE UNCHANGED vars
      BY <2>2, SameVerdict DEF BatchInv, vars, GoodAnswerAccepted
    <2>3. CASE ~Mismatch /\ ~UNCHANGED vars
      <3>1. pc' # "refused"
        BY <2>3
        DEF Next, Receive, Submit, CheckCount, IndexInsert, IndexDone, MatchResult, MatchDone,
            InsertDLQRows
      <3> QED
        BY <3>1 DEF GoodAnswerAccepted
    <2> QED
      BY <2>1, <2>2, <2>3
  <1> QED
    BY <1>1, <1>2, <1>3 DEF BatchInv

-----------------------------------------------------------------------------
(* The theorems.                                                           *)

\* What mapResults knows at each of its loops: insertByID is the index of the inserts, seen
\* the ids of the results so far, rows the rejected among them.
THEOREM BatchInvariant == Spec => []BatchInv
  <1>1. Init => BatchInv
    <2> SUFFICES ASSUME Init PROVE BatchInv
      OBVIOUS
    <2>1. BatchTypeOK
      BY DEF Init, BatchTypeOK
    <2>2. Progress /\ GoodAnswerAccepted
      BY DEF Init, Progress, Fresh, GoodAnswerAccepted
    <2> QED
      BY <2>1, <2>2 DEF BatchInv
  <1>2. BatchInv /\ [Next]_vars => BatchInv'
    BY BatchStep
  <1> QED
    BY <1>1, <1>2, PTL DEF Spec

\* An answer that mapResults accepts has one result for each insert of the batch, though it
\* never looks for an insert without one: so many different ids, all of them of inserts, leave
\* none out.
THEOREM AcceptedIsOneToOne == Spec => []EveryInsertAnswered
  <1>1. BatchInv => EveryInsertAnswered
    <2> SUFFICES ASSUME BatchInv, pc \in {"accepted", "persisted"}
                 PROVE  OneResultEach
      BY DEF EveryInsertAnswered
    <2> DEFINE n == Len(inserts)
               S == {inserts[k].id : k \in 1..n}
               T == {results[k].CorrelationID : k \in 1..n}
    <2>1. n \in Nat /\ Len(results) = n
      BY DEF BatchInv, BatchTypeOK, Progress
    <2>2. /\ DOMAIN insertByID = S /\ \A k \in 1..n : insertByID[inserts[k].id] = k
          /\ seen = T /\ seen \subseteq DOMAIN insertByID
          /\ \A j, k \in 1..n : results[j].CorrelationID = results[k].CorrelationID => j = k
      BY <2>1 DEF BatchInv, Progress, Indexed, Seen
    <2>3. \A j, k \in 1..n : inserts[j].id = inserts[k].id => j = k
      BY <2>2
    <2>4. IsFiniteSet(S) /\ Cardinality(S) = n
      <3> DEFINE f == [k \in 1..n |-> inserts[k].id]
      <3>1. DOMAIN f = 1..n /\ S = {f[k] : k \in 1..n}
        OBVIOUS
      <3>2. \A j, k \in 1..n : f[j] = f[k] => j = k
        BY <2>3
      <3> HIDE DEF f, S, n
      <3> QED
        BY <2>1, <3>1, <3>2, DistinctCount
    <2>5. Cardinality(T) = n
      <3> DEFINE f == [k \in 1..n |-> results[k].CorrelationID]
      <3>1. DOMAIN f = 1..n /\ T = {f[k] : k \in 1..n}
        OBVIOUS
      <3>2. \A j, k \in 1..n : f[j] = f[k] => j = k
        BY <2>2
      <3> HIDE DEF f, T, n
      <3> QED
        BY <2>1, <3>1, <3>2, DistinctCount
    <2>6. T = S
      <3> HIDE DEF S, T
      <3> QED
        BY <2>2, <2>4, <2>5, DistinctFill
    <2>7. DOMAIN inserts = 1..n /\ DOMAIN results = 1..n
      BY <2>1 DEF BatchInv, BatchTypeOK
    <2> QED
      BY <2>1, <2>4, <2>6, <2>7 DEF OneResultEach, InsertIds
  <1> QED
    BY <1>1, BatchInvariant, PTL

\* mapResults refuses no answer that has one result for each insert, in whatever order: it
\* does not stall the slot on a good answer.
THEOREM GoodAnswers == Spec => []GoodAnswerAccepted
  <1>1. BatchInv => GoodAnswerAccepted
    BY DEF BatchInv
  <1> QED
    BY <1>1, BatchInvariant, PTL

\* The rows for the DLQ are the rejected inserts in the order of the results, none of them
\* under another insert's id and none without a reason.
THEOREM RejectedRows == Spec => []RowsAreTheRejected
  <1>1. BatchInv => RowsAreTheRejected
    <2> SUFFICES ASSUME BatchInv, pc = "accepted"
                 PROVE  /\ {rows[k].insert.id : k \in DOMAIN rows}
                              = {results[k].CorrelationID : k \in {n \in DOMAIN results : results[n].rejected}}
                        /\ \A k \in DOMAIN rows : rows[k].reason # ""
                        /\ \A j, k \in DOMAIN rows :
                              j < k => \E m, n \in DOMAIN results :
                                          /\ m < n
                                          /\ results[m].CorrelationID = rows[j].insert.id
                                          /\ results[n].CorrelationID = rows[k].insert.id
      BY DEF RowsAreTheRejected
    <2>1. Collected(Len(results)) /\ DOMAIN results = 1..Len(results)
      BY DEF BatchInv, Progress, BatchTypeOK
    <2>2. \A k \in DOMAIN rows : rows[k].reason # ""
      <3> SUFFICES ASSUME NEW k \in DOMAIN rows PROVE rows[k].reason # ""
        OBVIOUS
      <3>1. rows[k] \in DLQRows
        BY DEF BatchInv, BatchTypeOK
      <3> QED
        BY <3>1, ReasonsAssumption DEF DLQRows
    <2>3. RowIds(rows) = {rows[k].insert.id : k \in DOMAIN rows}
      BY DEF RowIds
    <2>4. RejectedIds(results, Len(results))
             = {results[k].CorrelationID : k \in {n \in DOMAIN results : results[n].rejected}}
      BY <2>1 DEF RejectedIds
    <2>5. \A j, k \in DOMAIN rows :
              j < k => \E m, n \in DOMAIN results :
                          /\ m < n
                          /\ results[m].CorrelationID = rows[j].insert.id
                          /\ results[n].CorrelationID = rows[k].insert.id
      BY <2>1 DEF Collected, InOrderOf
    <2> QED
      BY <2>1, <2>2, <2>3, <2>4, <2>5, Zenon DEF Collected
  <1> QED
    BY <1>1, BatchInvariant, PTL

-----------------------------------------------------------------------------
(* The parser: what the loop of parseInsertColumns has after each column.  *)

Fields == {"id", "created_at", "payload", "run_at", "shadow"}

\* The column stops the parser.
Fails(row, c, s) ==
    c \in Fields /\ Text(row, c, s) # NULL /\ Value(c, Text(row, c, s)) = {}

\* What its field has after the column.
FieldValue(row, c, s) ==
    IF Text(row, c, s) = NULL THEN EmptyRow[c] ELSE CHOOSE v : v \in Value(c, Text(row, c, s))

\* The fields after the first n columns.
FieldsAfter(cols, row, s, n) ==
    [c \in Fields |-> IF \E j \in 1..n : cols[j] = c THEN FieldValue(row, c, s) ELSE EmptyRow[c]]

ParsedAfter(cols, row, s, n) ==
    IF \E j \in 1..n : Fails(row, cols[j], s) THEN {} ELSE {FieldsAfter(cols, row, s, n)}

LEMMA EmptyRowFields ==
    /\ DOMAIN EmptyRow = Fields
    /\ EmptyRow = [c \in Fields |-> EmptyRow[c]]
    /\ EmptyRow.run_at = ZeroTime
  BY DEF EmptyRow, Fields

\* parseTimestamp has one result at most.
LEMMA OneTimestamp ==
    ASSUME NEW text
    PROVE  ParseTimestamp(text) = {} \/ \E v : ParseTimestamp(text) = {v}
  <1> DEFINE S == First({n \in DOMAIN Layouts : Accepts(Layouts[n], text)})
             f(k) == text.local - (IF Layouts[k] = "space_00" THEN 0 ELSE text.zone)
  <1>0. DOMAIN Layouts = 1..4
    BY DEF Layouts
  <1>1. S \subseteq 1..4
    BY <1>0 DEF First
  <1>2. \A j, k \in S : j = k
    BY <1>1 DEF First
  <1>3. ParseTimestamp(text) = {f(k) : k \in S}
    BY DEF ParseTimestamp
  <1> HIDE DEF S, f
  <1>4. CASE S = {}
    BY <1>3, <1>4
  <1>5. CASE S # {}
    <2>1. PICK k \in S : TRUE
      BY <1>5
    <2>2. S = {k}
      BY <1>2
    <2>3. ParseTimestamp(text) = {f(k)}
      BY <1>3, <2>2
    <2> QED
      BY <2>3
  <1> QED
    BY <1>4, <1>5

LEMMA OneValue ==
    ASSUME NEW c \in Fields, NEW text
    PROVE  Value(c, text) = {} \/ Value(c, text) = {CHOOSE v : v \in Value(c, text)}
  <1>1. Value(c, text) = {} \/ \E v : Value(c, text) = {v}
    BY OneTimestamp, Zenon DEF Value, Fields
  <1> QED
    BY <1>1

\* One column more.
LEMMA ParsedStep ==
    ASSUME NEW cols, NEW row, NEW s, NEW n \in Nat \ {0}
    PROVE  ParsedAfter(cols, row, s, n)
             = UNION {SetField(parsed, cols[n], Text(row, cols[n], s)) :
                         parsed \in ParsedAfter(cols, row, s, n - 1)}
  <1> DEFINE c == cols[n]
             text == Text(row, c, s)
             p == FieldsAfter(cols, row, s, n - 1)
             q == FieldsAfter(cols, row, s, n)
  <1>1. 1..n = 1..(n - 1) \cup {n}
    OBVIOUS
  <1>2. CASE \E j \in 1..(n - 1) : Fails(row, cols[j], s)
    BY <1>1, <1>2 DEF ParsedAfter
  <1>3. CASE ~\E j \in 1..(n - 1) : Fails(row, cols[j], s)
    <2>1. /\ ParsedAfter(cols, row, s, n - 1) = {p}
          /\ ParsedAfter(cols, row, s, n) = IF Fails(row, c, s) THEN {} ELSE {q}
      BY <1>1, <1>3 DEF ParsedAfter
    <2>2. DOMAIN p = Fields
      BY DEF FieldsAfter
    <2>3. \A d \in Fields : q[d] = IF d = c THEN FieldValue(row, d, s) ELSE p[d]
      BY <1>1 DEF FieldsAfter
    <2>4. q = [d \in Fields |-> q[d]] /\ p = [d \in Fields |-> p[d]]
      BY DEF FieldsAfter
    <2>5. c \in Fields /\ text = NULL => p[c] = FieldValue(row, c, s)
      BY DEF FieldsAfter, FieldValue
    <2> HIDE DEF p, q
    <2>6. SetField(p, c, text) = IF Fails(row, c, s) THEN {} ELSE {q}
      <3>1. CASE text = NULL \/ c \notin Fields
        <4>1. SetField(p, c, text) = {p} /\ ~Fails(row, c, s)
          BY <2>2, <3>1 DEF SetField, Fails
        <4>2. \A d \in Fields : q[d] = p[d]
          BY <2>3, <2>5, <3>1
        <4>3. q = p
          BY <2>4, <4>2
        <4> QED
          BY <4>1, <4>3
      <3>2. CASE text # NULL /\ c \in Fields
        <4>1. SetField(p, c, text) = {[p EXCEPT ![c] = v] : v \in Value(c, text)}
          BY <2>2, <3>2 DEF SetField
        <4>2. Fails(row, c, s) <=> Value(c, text) = {}
          BY <3>2 DEF Fails
        <4>3. FieldValue(row, c, s) = CHOOSE v : v \in Value(c, text)
          BY <3>2 DEF FieldValue
        <4>4. q = [p EXCEPT ![c] = FieldValue(row, c, s)]
          BY <2>2, <2>3, <2>4, <3>2
        <4>5. Value(c, text) = {} \/ Value(c, text) = {FieldValue(row, c, s)}
          BY <3>2, <4>3, OneValue
        <4> QED
          BY <4>1, <4>2, <4>4, <4>5
      <3> QED
        BY <3>1, <3>2
    <2> QED
      BY <2>1, <2>6
  <1> QED
    BY <1>2, <1>3

\* parseInsertColumns gives each field what its column says, wherever the column stands.
LEMMA ParseIs ==
    ASSUME NEW cols, Len(cols) \in Nat, NEW row, NEW s
    PROVE  ParseInsertColumns(cols, row, s) = ParsedAfter(cols, row, s, Len(cols))
  <1> DEFINE L == Len(cols)
             step(S, n) == UNION {SetField(parsed, cols[n], Text(row, cols[n], s)) : parsed \in S}
             IsParse(f) == f = [n \in 0..L |-> IF n = 0 THEN {EmptyRow} ELSE step(f[n - 1], n)]
             parse == CHOOSE f : IsParse(f)
             g == [n \in 0..L |-> ParsedAfter(cols, row, s, n)]
  <1>1. ParseInsertColumns(cols, row, s) = parse[L]
    BY DEF ParseInsertColumns
  <1>2. ParsedAfter(cols, row, s, 0) = {EmptyRow}
    <2>1. 1..0 = {}
      OBVIOUS
    <2> QED
      BY <2>1, EmptyRowFields, Zenon DEF ParsedAfter, FieldsAfter
  <1>3. \A n \in Nat \ {0} : ParsedAfter(cols, row, s, n) = step(ParsedAfter(cols, row, s, n - 1), n)
    BY ParsedStep
  <1> HIDE DEF step
  <1>4. IsParse(g)
    <2>1. \A n \in 0..L : g[n] = IF n = 0 THEN {EmptyRow} ELSE step(g[n - 1], n)
      <3> TAKE n \in 0..L
      <3>1. CASE n = 0
        BY <1>2, <3>1
      <3>2. CASE n # 0
        <4>1. n \in Nat \ {0} /\ n - 1 \in 0..L
          BY <3>2
        <4> QED
          BY <1>3, <3>2, <4>1
      <3> QED
        BY <3>1, <3>2
    <2> QED
      BY <2>1
  <1>5. IsParse(parse)
    <2> HIDE DEF g, IsParse
    <2> QED
      BY <1>4
  <1> HIDE DEF parse
  <1>6. parse = [n \in 0..L |-> IF n = 0 THEN {EmptyRow} ELSE step(parse[n - 1], n)]
    BY <1>5
  <1> DEFINE Bad == {n \in 0..L : parse[n] # ParsedAfter(cols, row, s, n)}
  <1>7. Bad = {}
    <2> SUFFICES ASSUME Bad # {} PROVE FALSE
      OBVIOUS
    <2>1. Bad \subseteq Nat
      OBVIOUS
    <2> HIDE DEF Bad
    <2>2. PICK n \in Bad : \A m \in Bad : ~(<<m, n>> \in OpToRel(<, Nat))
      BY <2>1, NatLessThanWellFounded, WFMin
    <2>3. n \in Nat /\ n \in 0..L /\ parse[n] # ParsedAfter(cols, row, s, n)
      BY <2>1 DEF Bad
    <2>4. CASE n = 0
      BY <1>2, <1>6, <2>3, <2>4
    <2>5. CASE n # 0
      <3>1. n - 1 \in Nat /\ n - 1 \in 0..L /\ n - 1 < n
        BY <2>3, <2>5
      <3>2. n - 1 \notin Bad
        BY <2>2, <2>3, <3>1 DEF OpToRel
      <3>3. parse[n - 1] = ParsedAfter(cols, row, s, n - 1)
        BY <3>1, <3>2 DEF Bad
      <3>4. parse[n] = step(parse[n - 1], n)
        BY <1>6, <2>3, <2>5
      <3> QED
        BY <1>3, <2>3, <2>5, <3>3, <3>4
    <2> QED
      BY <2>4, <2>5
  <1> QED
    BY <1>1, <1>7

\* parseTimestamp gives back the instant that was written, or nothing; with ISO dates and
\* whole hours it gives it back.
LEMMA TimestampRoundTrip ==
    ASSUME NEW t \in Int, NEW s, s.offset[t] \in Int
    PROVE  /\ ParseTimestamp(TimestampText(t, s)) \subseteq {t}
           /\ s.dateStyle = "ISO" /\ s.offset[t] % 3600 = 0 => ParseTimestamp(TimestampText(t, s)) = {t}
  <1> DEFINE text == TimestampText(t, s)
             whole == s.offset[t] % 3600 = 0
             A == {n \in DOMAIN Layouts : Accepts(Layouts[n], text)}
             f(k) == text.local - (IF Layouts[k] = "space_00" THEN 0 ELSE text.zone)
  <1>1. /\ DOMAIN Layouts = 1..4
        /\ Layouts[1] = "space_00" /\ Layouts[2] = "space_07"
        /\ Layouts[3] = "space_Z" /\ Layouts[4] = "T_Z07"
    BY DEF Layouts
  <1>2. /\ text.style = s.dateStyle /\ text.local = t + s.offset[t] /\ text.zone = s.offset[t]
        /\ text.minutes = ~whole
    <2>1. t # Infinity
      BY InfinityAssumption
    <2>2. text = [style |-> s.dateStyle, local |-> t + s.offset[t], zone |-> s.offset[t],
                  minutes |-> s.offset[t] % 3600 # 0]
      BY <2>1 DEF TimestampText
    <2> QED
      BY <2>2
  <1>3. ParseTimestamp(text) = {f(k) : k \in First(A)}
    BY DEF ParseTimestamp
  <1> HIDE DEF text, whole
  <1>4. /\ Accepts("space_00", text) <=> s.dateStyle = "ISO" /\ s.offset[t] = 0
        /\ Accepts("space_07", text) <=> s.dateStyle = "ISO" /\ whole
        /\ ~Accepts("space_Z", text) /\ ~Accepts("T_Z07", text)
    BY <1>2, Zenon DEF Accepts
  <1>5. /\ A \subseteq 1..2
        /\ 1 \in A => s.offset[t] = 0
        /\ 2 \in A <=> s.dateStyle = "ISO" /\ whole
    BY <1>1, <1>4
  <1>6. (s.offset[t] = 0 => f(1) = t) /\ f(2) = t
    BY <1>1, <1>2
  <1> HIDE DEF A, f
  <1>7. First(A) \subseteq A /\ \A k \in First(A) : f(k) = t
    <2>1. First(A) \subseteq A
      BY DEF First
    <2>2. A \subseteq 1..2 /\ (1 \in A => s.offset[t] = 0)
      BY <1>5
    <2>3. \A k \in First(A) : (k = 1 /\ s.offset[t] = 0) \/ k = 2
      <3> TAKE k \in First(A)
      <3>1. k \in A /\ k \in 1..2
        BY <2>1, <2>2
      <3> QED
        BY <2>2, <3>1
    <2> QED
      BY <1>6, <2>1, <2>3
  <1>8. ParseTimestamp(text) \subseteq {t}
    BY <1>3, <1>7
  <1>9. ASSUME s.dateStyle = "ISO", whole
        PROVE  First(A) # {}
    <2>1. 2 \in A
      BY <1>5, <1>9
    <2>2. CASE 1 \in A
      BY <1>5, <2>2 DEF First
    <2>3. CASE 1 \notin A
      BY <1>5, <2>1, <2>3 DEF First
    <2> QED
      BY <2>2, <2>3
  <1>10. ASSUME First(A) # {} PROVE ParseTimestamp(text) = {t}
    BY <1>3, <1>7, <1>10
  <1> QED
    BY <1>8, <1>9, <1>10 DEF text, whole

\* No layout reads a timestamp that is infinite or has no year of four digits.
LEMMA InfinityUnread ==
    ASSUME NEW s
    PROVE  ParseTimestamp(TimestampText(Infinity, s)) = {}
  <1>1. \A layout : ~Accepts(layout, TimestampText(Infinity, s))
    BY DEF Accepts, TimestampText
  <1>2. First({}) = {}
    BY DEF First
  <1> QED
    BY <1>1, <1>2 DEF ParseTimestamp

\* A sequence of one-element sequences, put together.
LEMMA FlattenSingles ==
    ASSUME NEW T, NEW bytes \in Seq(T)
    PROVE  FlattenSeq([k \in DOMAIN bytes |-> <<bytes[k]>>]) = bytes
  <1> DEFINE q == [k \in DOMAIN bytes |-> <<bytes[k]>>]
             L == Len(bytes)
             IsFlat(f) == f = [n \in 1..L |-> IF n = 1 THEN q[n] ELSE f[n - 1] \o q[n]]
             flat == CHOOSE f : IsFlat(f)
             part(n) == [k \in 1..n |-> bytes[k]]
             g == [n \in 1..L |-> part(n)]
  <1>1. L \in Nat /\ DOMAIN bytes = 1..L /\ bytes = part(L)
    OBVIOUS
  <1>0. q \in Seq(Seq(T)) /\ Len(q) = L
    <2>1. q \in [1..L -> Seq(T)]
      BY <1>1
    <2> QED
      BY <1>1, <2>1
  <1>2. CASE L = 0
    <2>1. q = bytes
      BY <1>1, <1>2
    <2> QED
      BY <1>0, <1>1, <1>2, <2>1 DEF FlattenSeq
  <1>3. CASE L # 0
    <2>1. FlattenSeq(q) = flat[L]
      BY <1>0, <1>1, <1>3 DEF FlattenSeq
    <2>2. \A n \in 1..L : q[n] = <<bytes[n]>> /\ bytes[n] \in T
      BY <1>1
    <2>3. q[1] = part(1)
      BY <1>1, <1>3, <2>2
    <2>4. ASSUME NEW n \in 2..L PROVE part(n) = part(n - 1) \o q[n]
      <3>1. part(n - 1) \in Seq(T) /\ Len(part(n - 1)) = n - 1
        BY <1>1
      <3>2. q[n] = <<bytes[n]>>
        BY <1>1, <2>2
      <3> QED
        BY <1>1, <3>1, <3>2
    <2> HIDE DEF q, part
    <2>5. IsFlat(g)
      <3>1. \A n \in 1..L : g[n] = IF n = 1 THEN q[n] ELSE g[n - 1] \o q[n]
        <4> TAKE n \in 1..L
        <4>1. CASE n = 1
          BY <2>3, <4>1
        <4>2. CASE n # 1
          <5>1. n \in 2..L /\ n - 1 \in 1..L
            BY <1>1, <4>2
          <5> QED
            BY <2>4, <4>2, <5>1
        <4> QED
          BY <4>1, <4>2
      <3> QED
        BY <3>1
    <2>6. IsFlat(flat)
      <3> HIDE DEF g, IsFlat
      <3> QED
        BY <2>5
    <2> HIDE DEF flat
    <2>7. flat = [n \in 1..L |-> IF n = 1 THEN q[n] ELSE flat[n - 1] \o q[n]]
      BY <2>6
    <2> DEFINE Bad == {n \in 1..L : flat[n] # part(n)}
    <2>8. Bad = {}
      <3> SUFFICES ASSUME Bad # {} PROVE FALSE
        OBVIOUS
      <3>1. Bad \subseteq Nat
        OBVIOUS
      <3> HIDE DEF Bad
      <3>2. PICK n \in Bad : \A m \in Bad : ~(<<m, n>> \in OpToRel(<, Nat))
        BY <3>1, NatLessThanWellFounded, WFMin
      <3>3. n \in Nat /\ n \in 1..L /\ flat[n] # part(n)
        BY <3>1 DEF Bad
      <3>4. CASE n = 1
        BY <2>3, <2>7, <3>3, <3>4
      <3>5. CASE n # 1
        <4>1. n - 1 \in Nat /\ n - 1 \in 1..L /\ n - 1 < n /\ n \in 2..L
          BY <1>1, <3>3, <3>5
        <4>2. n - 1 \notin Bad
          BY <3>2, <3>3, <4>1 DEF OpToRel
        <4>3. flat[n - 1] = part(n - 1)
          BY <4>1, <4>2 DEF Bad
        <4>4. flat[n] = flat[n - 1] \o q[n]
          BY <2>7, <3>3, <3>5
        <4> QED
          BY <2>4, <3>3, <4>1, <4>3, <4>4
      <3> QED
        BY <3>4, <3>5
    <2>9. L \in 1..L
      BY <1>1, <1>3
    <2>10. flat[L] = part(L)
      BY <2>8, <2>9
    <2> QED
      BY <1>1, <2>1, <2>10 DEF q
  <1> QED
    BY <1>2, <1>3

\* decodeBytea gives back the bytes that were written in hex, and those that the escape format
\* writes as they are.
LEMMA ByteaRoundTrip ==
    ASSUME NEW bytes \in Seq(0..255), NEW s,
           s.byteaOutput = "hex" \/ \A k \in DOMAIN bytes : Plain(bytes[k])
    PROVE  DecodeBytea(ByteaText(bytes, s)) = bytes
  <1> DEFINE L == Len(bytes)
             text == ByteaText(bytes, s)
             Token == [form : {"prefix", "hex", "char"}, byte : 0..255]
  <1>1. L \in Nat /\ DOMAIN bytes = 1..L /\ bytes = [k \in 1..L |-> bytes[k]]
    OBVIOUS
  <1>0. \A k \in 1..L : bytes[k] \in 0..255
    BY ElementOfSeq
  <1>2. CASE s.byteaOutput = "hex"
    <2> DEFINE h == [k \in DOMAIN bytes |-> [form |-> "hex", byte |-> bytes[k]]]
               prefix == <<[form |-> "prefix", byte |-> 0]>>
    <2>1. text = prefix \o h
      BY <1>2 DEF ByteaText
    <2>2. h \in Seq(Token) /\ Len(h) = L /\ \A k \in 1..L : h[k].byte = bytes[k]
      <3>1. \A k \in 1..L : [form |-> "hex", byte |-> bytes[k]] \in Token
        BY <1>0
      <3> HIDE DEF Token
      <3>2. h \in [1..L -> Token]
        BY <1>1, <3>1
      <3>3. h \in Seq(Token) /\ Len(h) = L
        BY <1>1, <3>2
      <3> QED
        BY <1>1, <3>3
    <2>3. prefix \in Seq(Token) /\ Len(prefix) = 1 /\ prefix[1].form = "prefix"
      BY <1>1
    <2> HIDE DEF h, prefix, Token, text
    <2>4. /\ text \in Seq(Token) /\ Len(text) = L + 1 /\ text[1] = prefix[1]
          /\ \A k \in 1..L : text[k + 1] = h[k]
      <3>1. /\ text \in Seq(Token) /\ Len(text) = 1 + L
            /\ \A k \in 1..(1 + L) : text[k] = IF k <= 1 THEN prefix[k] ELSE h[k - 1]
        <4>1. /\ prefix \o h \in Seq(Token) /\ Len(prefix \o h) = Len(prefix) + Len(h)
              /\ \A k \in 1..(Len(prefix) + Len(h)) :
                    (prefix \o h)[k] = IF k <= Len(prefix) THEN prefix[k] ELSE h[k - Len(prefix)]
          BY <2>2, <2>3, ConcatProperties, Zenon
        <4> QED
          BY <2>1, <2>2, <2>3, <4>1, Zenon
      <3>2. text[1] = prefix[1]
        BY <1>1, <3>1
      <3>3. ASSUME NEW k \in 1..L PROVE text[k + 1] = h[k]
        BY <1>1, <3>1
      <3> QED
        BY <1>1, <3>1, <3>2, <3>3
    <2>5. DecodeBytea(text) = [k \in 1..L |-> text[k + 1].byte]
      BY <1>1, <2>3, <2>4 DEF DecodeBytea
    <2>6. \A k \in 1..L : text[k + 1].byte = bytes[k]
      BY <2>2, <2>4
    <2>7. DecodeBytea(text) = [k \in 1..L |-> bytes[k]]
      BY <2>5, <2>6
    <2> QED
      BY <1>1, <2>7 DEF text
  <1>3. CASE s.byteaOutput # "hex"
    <2>1. \A k \in 1..L : Plain(bytes[k]) /\ bytes[k] # 92
      BY <1>1, <1>3 DEF Plain
    <2>2. text = [k \in DOMAIN bytes |-> [form |-> "char", byte |-> bytes[k]]]
      BY <1>1, <1>3, <2>1 DEF ByteaText
    <2>3. /\ DOMAIN text = 1..L
          /\ \A k \in 1..L : text[k].form = "char" /\ text[k].byte = bytes[k]
      BY <1>1, <2>2
    <2>4. text # <<>> => text[1].form # "prefix"
      <3>1. CASE L = 0
        BY <1>1, <2>2, <3>1
      <3>2. CASE L # 0
        BY <1>1, <2>3, <3>2
      <3> QED
        BY <3>1, <3>2
    <2> HIDE DEF text
    <2>5. \A k \in 1..L : Verbatim(text[k]) = <<bytes[k]>>
      BY <2>3 DEF Verbatim
    <2>6. [k \in DOMAIN text |-> Verbatim(text[k])] = [k \in DOMAIN bytes |-> <<bytes[k]>>]
      BY <1>1, <2>3, <2>5
    <2>7. DecodeBytea(text) = FlattenSeq([k \in DOMAIN bytes |-> <<bytes[k]>>])
      BY <2>4, <2>6 DEF DecodeBytea
    <2> QED
      BY <2>7, FlattenSingles DEF text
  <1> QED
    BY <1>2, <1>3

\* What the texts of a row are parsed to.
LEMMA ParsedValues ==
    ASSUME NEW row \in Rows, NEW s \in SessionSettings
    PROVE  /\ Text(row, "id", s) = row.id
           /\ Value("id", Text(row, "id", s)) = {row.id}
           /\ Value("shadow", Text(row, "shadow", s)) = {row.shadow}
           /\ Value("payload", Text(row, "payload", s)) = {DecodeBytea(ByteaText(row.payload, s))}
           /\ \A c \in {"created_at", "run_at"} : row[c] # NULL =>
                 Value(c, Text(row, c, s)) = ParseTimestamp(TimestampText(row[c], s))
           /\ row.run_at = NULL <=> Text(row, "run_at", s) = NULL
           /\ \A c \in {"id", "created_at", "payload", "shadow"} : Text(row, c, s) # NULL
  <1>1. Text(row, "id", s) = row.id /\ Value("id", Text(row, "id", s)) = {row.id}
    BY DEF Text, Value
  <1>2. Value("shadow", Text(row, "shadow", s)) = {row.shadow}
    BY RowsAssumption DEF Text, Value
  <1>3. Value("payload", Text(row, "payload", s)) = {DecodeBytea(ByteaText(row.payload, s))}
    BY DEF Text, Value
  <1>4. ASSUME NEW c \in {"created_at", "run_at"}, row[c] # NULL
        PROVE  Value(c, Text(row, c, s)) = ParseTimestamp(TimestampText(row[c], s))
    BY <1>4 DEF Text, Value
  <1>5. row.run_at = NULL <=> Text(row, "run_at", s) = NULL
    <2>1. row.run_at = NULL => Text(row, "run_at", s) = NULL
      BY DEF Text
    <2>2. Text(row, "run_at", s) = NULL => row.run_at = NULL
      BY NullAssumption DEF Columns
    <2> QED
      BY <2>1, <2>2
  <1>6. ASSUME NEW c \in {"id", "created_at", "payload", "shadow"}
        PROVE  Text(row, c, s) # NULL
    <2>1. c \in Columns /\ row[c] # NULL
      BY <1>6, RowsAssumption DEF Columns
    <2> QED
      BY <2>1, NullAssumption
  <1> QED
    BY <1>1, <1>2, <1>3, <1>4, <1>5, <1>6

\* Every field of a parsedInsert has the value of its column.
LEMMA ParsedRow ==
    ASSUME NEW cols \in Relations, NEW row \in Rows, NEW s \in SessionSettings,
           NEW p \in ParseInsertColumns(cols, row, s)
    PROVE  /\ DOMAIN p = Fields
           /\ p.id = row.id /\ p.shadow = row.shadow /\ p.created_at = row.created_at
           /\ p.run_at = IF row.run_at = NULL THEN ZeroTime ELSE row.run_at
           /\ row.run_at \in {NULL} \cup (Int \ {ZeroTime})
           /\ s.byteaOutput = "hex" \/ (\A k \in DOMAIN row.payload : Plain(row.payload[k]))
                 => p.payload = row.payload
  <1> DEFINE L == Len(cols)
  <1>1. /\ cols \in Seq(Columns) /\ ToSet(cols) = Columns
        /\ L \in Nat /\ DOMAIN cols = 1..L
    BY RelationsAssumption
  <1>2. \A c \in Fields : \E j \in 1..L : cols[j] = c
    BY <1>1 DEF ToSet, Fields, Columns
  <1>3. p \in ParsedAfter(cols, row, s, L)
    BY <1>1, ParseIs
  <1>4. /\ p = FieldsAfter(cols, row, s, L)
        /\ \A j \in 1..L : ~Fails(row, cols[j], s)
    BY <1>3 DEF ParsedAfter
  <1>5. /\ DOMAIN p = Fields
        /\ \A c \in Fields : p[c] = FieldValue(row, c, s) /\ ~Fails(row, c, s)
    BY <1>2, <1>4 DEF FieldsAfter
  <1>6. ASSUME NEW c \in Fields, Text(row, c, s) # NULL
        PROVE  p[c] \in Value(c, Text(row, c, s))
    <2>1. Value(c, Text(row, c, s)) # {}
      BY <1>5, <1>6 DEF Fails
    <2> QED
      BY <1>5, <1>6, <2>1 DEF FieldValue
  <1>7. p["id"] = row.id /\ p["shadow"] = row.shadow
    BY <1>6, ParsedValues DEF Fields
  <1>8. p["payload"] = DecodeBytea(ByteaText(row.payload, s))
    BY <1>6, ParsedValues DEF Fields
  <1>9. ASSUME NEW c \in {"created_at", "run_at"}, row[c] # NULL
        PROVE  p[c] = row[c] /\ row[c] \in Int
    <2>1. c \in Fields /\ c \in Columns /\ row[c] \in Int \cup {Infinity}
      BY <1>9, RowsAssumption DEF Fields, Columns
    <2>2. Text(row, c, s) # NULL
      BY <1>9, <2>1, NullAssumption
    <2>3. p[c] \in ParseTimestamp(TimestampText(row[c], s))
      BY <1>6, <1>9, <2>1, <2>2, ParsedValues
    <2>4. row[c] \in Int /\ row[c] # Infinity
      BY <2>1, <2>3, InfinityUnread, InfinityAssumption
    <2>5. s.offset[row[c]] \in Int
      BY <1>9, <2>4, SettingsAssumption
    <2> QED
      BY <2>3, <2>4, <2>5, TimestampRoundTrip
  <1>10. row.run_at = NULL => p["run_at"] = ZeroTime
    BY <1>5, ParsedValues, EmptyRowFields DEF FieldValue, Fields
  <1>11. row["created_at"] # NULL
    BY RowsAssumption DEF Columns
  <1>12. row.payload \in Seq(0..255)
    BY RowsAssumption
  <1>13. row.run_at \in {NULL} \cup (Int \ {ZeroTime})
    <2>1. row.run_at \in {NULL, Infinity} \cup (Int \ {ZeroTime})
      BY RowsAssumption
    <2>2. row.run_at # NULL => row.run_at \in Int
      BY <1>9
    <2> QED
      BY <2>1, <2>2, InfinityAssumption
  <1> QED
    BY <1>5, <1>7, <1>8, <1>9, <1>10, <1>11, <1>12, <1>13, ByteaRoundTrip

\* With ISO dates and a zone of whole hours every row parses whose run_at is not infinite.
LEMMA RowParses ==
    ASSUME NEW cols \in Relations, NEW row \in Rows, NEW s \in SessionSettings,
           s.dateStyle = "ISO", row.run_at # Infinity,
           \A t \in {row.created_at, row.run_at} \ {NULL, Infinity} : s.offset[t] % 3600 = 0
    PROVE  ParseInsertColumns(cols, row, s) # {}
  <1>1. Len(cols) \in Nat
    BY RelationsAssumption
  <1>2. ASSUME NEW c, Fails(row, c, s) PROVE FALSE
    <2>1. c \in Fields /\ Text(row, c, s) # NULL /\ Value(c, Text(row, c, s)) = {}
      BY <1>2 DEF Fails
    <2>2. CASE c \in {"id", "payload", "shadow"}
      BY <2>1, <2>2, ParsedValues
    <2>3. CASE c \in {"created_at", "run_at"}
      <3>1. row[c] # NULL
        BY <2>1, <2>3 DEF Text
      <3>2. /\ row[c] \in Int
            /\ row[c] \in {row.created_at, row.run_at} \ {NULL, Infinity}
        BY <2>3, <3>1, RowsAssumption, InfinityAssumption
      <3>4. s.offset[row[c]] \in Int /\ s.offset[row[c]] % 3600 = 0
        BY <3>2, SettingsAssumption
      <3>3. ParseTimestamp(TimestampText(row[c], s)) = {row[c]}
        BY <3>2, <3>4, TimestampRoundTrip
      <3> QED
        BY <2>1, <2>3, <3>1, <3>3, ParsedValues
    <2> QED
      BY <2>1, <2>2, <2>3 DEF Fields
  <1>3. ParsedAfter(cols, row, s, Len(cols)) # {}
    BY <1>2 DEF ParsedAfter
  <1> QED
    BY <1>1, <1>3, ParseIs

-----------------------------------------------------------------------------
(* What jack and the DLQ receive.                                          *)

\* Each insert is what the parser made of the row received in its place.
AsReceived ==
    /\ received \in Seq(Rows) /\ Len(received) = Len(inserts)
    /\ \A k \in 1..Len(inserts) : inserts[k] \in ParseInsertColumns(columns, received[k], settings)

\* A zero runAt as NULL.
Nulled(p) == [p EXCEPT !.run_at = IF @ = ZeroTime THEN NULL ELSE @]

\* What is bound for the DLQ, or in it, is from the batch.
FromBatch ==
    /\ \A k \in DOMAIN rows : \E n \in 1..Len(inserts) : rows[k].insert = inserts[n]
    /\ \A k \in DOMAIN dlq : \E n \in 1..Len(inserts) : dlq[k].insert = Nulled(inserts[n])

ContentInv == AsReceived /\ FromBatch /\ DroppedUnreadable

LEMMA ReceiveKeeps ==
    ASSUME BatchTypeOK, ContentInv, NEW row \in Rows, Receive(row)
    PROVE  ContentInv'
  <1> DEFINE outcome == ParseInsertColumns(columns, row, settings)
             L == Len(inserts)
  <1>1. /\ settings \in SessionSettings /\ columns \in Relations /\ L \in Nat
        /\ inserts \in Seq(Inserts)
        /\ UNCHANGED <<settings, columns, rows, dlq>>
    BY DEF BatchTypeOK, Receive
  <1>2. CASE outcome = {}
    <2>1. UNCHANGED <<inserts, received>> /\ dropped' = dropped \cup {row}
      BY <1>2 DEF Receive
    <2>2. settings.dateStyle # "ISO" \/ OddZone(row) \/ row.run_at = Infinity
      BY <1>1, <1>2, RowParses DEF OddZone
    <2>3. DroppedUnreadable'
      BY <1>1, <2>1, <2>2 DEF ContentInv, DroppedUnreadable, OddZone
    <2>4. AsReceived' /\ FromBatch'
      BY <1>1, <2>1 DEF ContentInv, AsReceived, FromBatch
    <2> QED
      BY <2>3, <2>4 DEF ContentInv
  <1>3. CASE outcome # {}
    <2>1. PICK parsed \in outcome : inserts' = Append(inserts, parsed)
      BY <1>3 DEF Receive
    <2>2. received' = Append(received, row) /\ UNCHANGED dropped
      BY <1>3 DEF Receive
    <2>3. received \in Seq(Rows) /\ Len(received) = L
      BY DEF ContentInv, AsReceived
    <2>4. parsed \in Inserts
      BY <1>1, <2>1 DEF Inserts
    <2> HIDE DEF outcome
    <2>5. /\ Len(inserts') = L + 1 /\ inserts'[L + 1] = parsed
          /\ \A k \in 1..L : inserts'[k] = inserts[k]
      BY <1>1, <2>1, <2>4, AppendProperties
    <2>6. /\ received' \in Seq(Rows) /\ Len(received') = L + 1 /\ received'[L + 1] = row
          /\ \A k \in 1..L : received'[k] = received[k]
      BY <1>1, <2>2, <2>3, AppendProperties
    <2>7. 1..(L + 1) = 1..L \cup {L + 1}
      BY <1>1
    <2>8. AsReceived'
      <3>1. \A k \in 1..L : inserts[k] \in ParseInsertColumns(columns, received[k], settings)
        BY DEF ContentInv, AsReceived
      <3>2. \A k \in 1..(L + 1) :
               inserts'[k] \in ParseInsertColumns(columns, received'[k], settings)
        BY <2>1, <2>5, <2>6, <2>7, <3>1 DEF outcome
      <3> QED
        BY <1>1, <2>5, <2>6, <3>2 DEF AsReceived
    <2>9. FromBatch'
      BY <1>1, <2>5, <2>7 DEF ContentInv, FromBatch
    <2>10. DroppedUnreadable'
      BY <1>1, <2>2 DEF ContentInv, DroppedUnreadable, OddZone
    <2> QED
      BY <2>8, <2>9, <2>10 DEF ContentInv
  <1> QED
    BY <1>2, <1>3

LEMMA ContentStep ==
    ASSUME BatchInv, ContentInv, [Next]_vars
    PROVE  ContentInv'
  <1>1. CASE \E row \in Rows : Receive(row)
    BY <1>1, ReceiveKeeps DEF BatchInv
  <1>2. CASE MatchResult
    <2> DEFINE r == results[i]
    <2>1. /\ UNCHANGED <<session, inserts, dlq>> /\ pc = "match" /\ i <= Len(results)
          /\ r.CorrelationID \in DOMAIN insertByID
          /\ rows' = IF r.rejected THEN Append(rows, DLQRow(r)) ELSE rows
      BY <1>2 DEF MatchResult
    <2>2. PICK n \in 1..Len(inserts) : DLQRow(r).insert = inserts[n]
      <3>1. Indexed(Len(inserts))
        BY <2>1 DEF BatchInv, Progress
      <3>2. PICK n \in 1..Len(inserts) : r.CorrelationID = inserts[n].id
        BY <2>1, <3>1 DEF Indexed
      <3>3. insertByID[r.CorrelationID] = n
        BY <3>1, <3>2 DEF Indexed
      <3> QED
        BY <3>3 DEF DLQRow
    <2>3. rows \in Seq(DLQRows) /\ DLQRow(r) \in DLQRows
      BY <1>2, DLQRowType DEF BatchInv, BatchTypeOK
    <2>4. FromBatch'
      <3>1. CASE r.rejected
        <4> DEFINE R == Append(rows, DLQRow(r))
        <4>1. /\ Len(rows) \in Nat /\ DOMAIN rows = 1..Len(rows)
              /\ DOMAIN R = 1..(Len(rows) + 1) /\ R[Len(rows) + 1] = DLQRow(r)
              /\ \A k \in 1..Len(rows) : R[k] = rows[k]
          BY <2>3, AppendProperties
        <4> HIDE DEF R
        <4>2. rows' = R
          BY <2>1, <3>1 DEF R
        <4>3. \A k \in DOMAIN R : k \in DOMAIN rows \/ k = Len(rows) + 1
          BY <4>1
        <4>4. \A k \in DOMAIN R : \E m \in 1..Len(inserts) : R[k].insert = inserts[m]
          BY <2>2, <4>1, <4>3 DEF ContentInv, FromBatch
        <4> QED
          BY <2>1, <4>2, <4>4 DEF ContentInv, FromBatch
      <3>2. CASE ~r.rejected
        BY <2>1, <3>2 DEF ContentInv, FromBatch
      <3> QED
        BY <3>1, <3>2
    <2> QED
      BY <2>1, <2>4 DEF ContentInv, AsReceived, DroppedUnreadable, OddZone, session
  <1>3. CASE InsertDLQRows
    <2>1. /\ UNCHANGED <<session, inserts, rows>>
          /\ dlq' = [k \in DOMAIN rows |->
                        [rows[k] EXCEPT !.insert.run_at = IF @ = ZeroTime THEN NULL ELSE @]]
      BY <1>3 DEF InsertDLQRows
    <2>2. ASSUME NEW k \in DOMAIN dlq'
          PROVE  \E n \in 1..Len(inserts) : dlq'[k].insert = Nulled(inserts[n])
      <3>1. k \in DOMAIN rows /\ rows[k] \in DLQRows
        BY <2>1, <2>2 DEF BatchInv, BatchTypeOK
      <3>2. dlq'[k].insert = Nulled(rows[k].insert)
        BY <2>1, <3>1 DEF DLQRows, Nulled
      <3> QED
        BY <3>1, <3>2 DEF ContentInv, FromBatch
    <2>3. FromBatch'
      BY <2>1, <2>2 DEF ContentInv, FromBatch
    <2>4. AsReceived' /\ DroppedUnreadable'
      BY <2>1 DEF ContentInv, AsReceived, DroppedUnreadable, OddZone, session
    <2> QED
      BY <2>3, <2>4 DEF ContentInv
  <1>4. CASE UNCHANGED <<session, inserts, rows, dlq>>
    BY <1>4 DEF ContentInv, AsReceived, FromBatch, DroppedUnreadable, OddZone, session
  <1> QED
    BY <1>1, <1>2, <1>3, <1>4
    DEF Next, vars, Submit, CheckCount, IndexInsert, IndexDone, MatchDone, Mismatch

\* Each insert of a batch is the row received in its place, and what goes to the DLQ is from
\* the batch.
THEOREM ContentInvariant == Spec => []ContentInv
  <1>1. Init => ContentInv
    <2> SUFFICES ASSUME Init PROVE ContentInv
      OBVIOUS
    <2>1. 1..Len(inserts) = {} /\ DOMAIN rows = {} /\ DOMAIN dlq = {}
      BY DEF Init
    <2> QED
      BY <2>1 DEF Init, ContentInv, AsReceived, FromBatch, DroppedUnreadable
  <1> QED
    BY <1>1, ContentStep, BatchInvariant, PTL DEF Spec

\* parseInsertColumns drops a row only under a date style other than ISO, in a zone that is not
\* a whole hour at one of its times, or for a run_at that is infinite or out of the years the
\* layouts have.
THEOREM OnlyUnreadableDropped == Spec => []DroppedUnreadable
  <1>1. ContentInv => DroppedUnreadable
    BY DEF ContentInv
  <1> QED
    BY <1>1, ContentInvariant, PTL

\* jack receives each row as it was written, for columns in any order and any number and
\* payloads of any bytes and length.
THEOREM JobsAreRows == Spec => []JobIsTheRow
  <1>1. BatchInv /\ ContentInv => JobIsTheRow
    <2> SUFFICES ASSUME BatchInv, ContentInv, NEW k \in DOMAIN inserts
                 PROVE  LET job == ToJob(inserts[k])  row == received[k]
                        IN  /\ job.CorrelationID = row.id /\ job.Shadow = row.shadow
                            /\ job.RunAt = IF row.run_at = NULL THEN ZeroTime ELSE row.run_at
                            /\ Decoded(row) => job.Payload = row.payload
      BY DEF JobIsTheRow, Jobs
    <2>1. k \in 1..Len(inserts) /\ settings \in SessionSettings /\ columns \in Relations
      BY DEF BatchInv, BatchTypeOK
    <2>2. received[k] \in Rows /\ inserts[k] \in ParseInsertColumns(columns, received[k], settings)
      BY <2>1 DEF ContentInv, AsReceived
    <2> QED
      BY <2>1, <2>2, ParsedRow DEF ToJob, Decoded
  <1> QED
    BY <1>1, BatchInvariant, ContentInvariant, PTL

\* The DLQ keeps each rejected row as it was written, a run_at of NULL included, although it
\* goes through Go's zero time on its way.
THEOREM DLQKeepsRows == Spec => []DLQRowIsTheRow
  <1>1. BatchInv /\ ContentInv => DLQRowIsTheRow
    <2> SUFFICES ASSUME BatchInv, ContentInv, NEW k \in DOMAIN dlq
                 PROVE  \E n \in DOMAIN received :
                           \A c \in DOMAIN EmptyRow :
                              c # "payload" \/ Decoded(received[n]) => dlq[k].insert[c] = received[n][c]
      BY DEF DLQRowIsTheRow
    <2>1. PICK n \in 1..Len(inserts) : dlq[k].insert = Nulled(inserts[n])
      BY DEF ContentInv, FromBatch
    <2> DEFINE p == inserts[n]
               row == received[n]
    <2>2. /\ n \in DOMAIN received /\ row \in Rows
          /\ p \in ParseInsertColumns(columns, row, settings)
          /\ settings \in SessionSettings /\ columns \in Relations
      BY <2>1 DEF BatchInv, BatchTypeOK, ContentInv, AsReceived
    <2>3. /\ DOMAIN p = Fields
          /\ p["id"] = row["id"] /\ p["shadow"] = row["shadow"] /\ p["created_at"] = row["created_at"]
          /\ p["run_at"] = IF row["run_at"] = NULL THEN ZeroTime ELSE row["run_at"]
          /\ Decoded(row) => p["payload"] = row["payload"]
      BY <2>2, ParsedRow DEF Decoded
    <2>4. row["run_at"] \in {NULL} \cup (Int \ {ZeroTime})
      BY <2>2, ParsedRow
    <2> HIDE DEF p, row
    <2>5. /\ \A c \in Fields \ {"run_at"} : Nulled(p)[c] = p[c]
          /\ Nulled(p)["run_at"] = IF p["run_at"] = ZeroTime THEN NULL ELSE p["run_at"]
      BY <2>3 DEF Nulled, Fields
    <2>6. \A c \in Fields : c # "payload" \/ Decoded(row) => Nulled(p)[c] = row[c]
      BY <2>3, <2>4, <2>5 DEF Fields
    <2> QED
      BY <2>1, <2>2, <2>6, EmptyRowFields DEF p, row
  <1> QED
    BY <1>1, BatchInvariant, ContentInvariant, PTL
==============================================================================
