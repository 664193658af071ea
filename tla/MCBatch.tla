------------------------------ MODULE MCBatch ------------------------------
(***************************************************************************)
(* A small instance of Batch for TLC.                                      *)
(***************************************************************************)
EXTENDS Batch

Row(id, payload, runAt, shadow) ==
    [id |-> id, created_at |-> 1441, payload |-> payload, run_at |-> runAt, shadow |-> shadow,
     note |-> "note"]

\* Payloads: text, the prefix of the hex format as text, a byte that is not printable.
SomeRows ==
    {Row(1, <<65>>, NULL, FALSE), Row(2, <<92, 120, 52>>, 3000, TRUE), Row(3, <<65, 200>>, NULL, FALSE),
     Row(4, <<65>>, Infinity, FALSE)}

\* UTC, New York with the change of its clocks between created_at and run_at, India.
SomeZones ==
    {[t \in {1441, 3000} |-> 0], [t \in {1441, 3000} |-> IF t = 1441 THEN -18000 ELSE -14400],
     [t \in {1441, 3000} |-> 19800]}

SomeSettings ==
    [offset : SomeZones, dateStyle : {"ISO", "SQL"}, byteaOutput : {"hex", "escape"}]

\* As 001_create_outbox.sql has them, and with a column of the user's first.
SomeRelations ==
    {<<"id", "created_at", "payload", "run_at", "shadow", "note">>,
     <<"note", "shadow", "run_at", "payload", "created_at", "id">>}
=============================================================================
