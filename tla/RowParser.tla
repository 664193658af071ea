------------------------------ MODULE RowParser ------------------------------
(***************************************************************************)
(* An outbox row on its way through the text format of pgoutput:           *)
(* parseInsertColumns with parseTimestamp and decodeBytea.  The walsender  *)
(* writes values as the settings of its session say (TimeZone, DateStyle,  *)
(* bytea_output); connect sets none of them, so they are those of the      *)
(* role, the database or the server.                                       *)
(*                                                                         *)
(* Times are seconds.  The text of a timestamp is the record of what       *)
(* parseTimestamp's layouts look at; that of a bytea a sequence of tokens. *)
(* What may fail is the set of its results, empty or of one element.       *)
(***************************************************************************)
EXTENDS Integers, SequencesExt

CONSTANTS
    NULL,
    Infinity   \* a timestamp that is not written YYYY-MM-DD: infinity, BC, a year past 9999

ASSUME InfinityAssumption == Infinity \notin Int

\* Go's zero time.
ZeroTime == 0

-----------------------------------------------------------------------------
(* PostgreSQL's output functions.                                          *)

\* The zone is +HH, or +HH:MM or +HH:MM:SS if it is not a whole hour; it is the one in force
\* at t.
TimestampText(t, settings) ==
    IF t = Infinity
    THEN [style |-> "other", local |-> 0, zone |-> 0, minutes |-> FALSE]
    ELSE [style |-> settings.dateStyle, local |-> t + settings.offset[t],
          zone |-> settings.offset[t], minutes |-> settings.offset[t] % 3600 # 0]

\* A byte that the escape format writes as it is.
Plain(b) == b \in 32..126 /\ b # 92

\* Hex: a prefix and two digits per byte. Escape: a byte as it is, a doubled backslash, or
\* a backslash and three octal digits.
ByteaText(bytes, settings) ==
    IF settings.byteaOutput = "hex"
    THEN <<[form |-> "prefix", byte |-> 0]>> \o [k \in DOMAIN bytes |-> [form |-> "hex", byte |-> bytes[k]]]
    ELSE [k \in DOMAIN bytes |-> [form |-> IF bytes[k] = 92 THEN "double"
                                           ELSE IF Plain(bytes[k]) THEN "char" ELSE "octal",
                                  byte |-> bytes[k]]]

\* The value of column c of a row; a Relation has just the columns of its rows.
Text(row, c, settings) ==
    CASE c \in {"created_at", "run_at"} -> IF row[c] = NULL THEN NULL ELSE TimestampText(row[c], settings)
      [] c = "payload" -> ByteaText(row[c], settings)
      [] c = "shadow" -> IF row[c] THEN "t" ELSE "f"
      [] OTHER -> row[c]

-----------------------------------------------------------------------------
(* The parser.                                                             *)

LayoutsMutant == <<"space_00", "space_Z", "T_Z07">>

\* The layouts in the order parseTimestamp tries them, named for what stands between date and
\* time and for the zone (+00, -07, Z, Z07:00), without their precision: time.Parse takes a
\* fraction of a second after any of them.
Layouts == <<"space_00", "space_07", "space_Z", "T_Z07">>

\* time.Parse accepts the text: every layout is ISO with a year of four digits and the zone in
\* one form, and PostgreSQL writes a space between date and time and never a Z.
Accepts(layout, text) ==
    /\ text.style = "ISO"
    /\ \/ layout = "space_00" /\ text.zone = 0
       \/ layout = "space_07" /\ ~text.minutes

First(S) == {n \in S : \A m \in S : n <= m}

ParseTimestampMutant(text) == IF text.style = "ISO" THEN {text.local} ELSE {}

\* The instant the first layout that accepts the text gives it (+00 is literal text).
ParseTimestamp(text) ==
    {text.local - (IF Layouts[k] = "space_00" THEN 0 ELSE text.zone) :
        k \in First({n \in DOMAIN Layouts : Accepts(Layouts[n], text)})}

\* What []byte(s) makes of one token of a text without the prefix.
Verbatim(token) ==
    CASE token.form = "char" -> <<token.byte>>
      [] token.form = "double" -> <<92, 92>>
      [] token.form = "octal" -> <<92, 48 + (token.byte \div 64), 48 + ((token.byte \div 8) % 8),
                                   48 + (token.byte % 8)>>

DecodeBytea(text) ==
    IF text # <<>> /\ text[1].form = "prefix"
    THEN [k \in 1..(Len(text) - 1) |-> text[k + 1].byte]
    ELSE FlattenSeq([k \in DOMAIN text |-> Verbatim(text[k])])

EmptyRow == [id |-> 0, created_at |-> ZeroTime, payload |-> <<>>, run_at |-> ZeroTime, shadow |-> FALSE]

Value(c, text) ==
    CASE c \in {"created_at", "run_at"} -> ParseTimestamp(text)
      [] c = "payload" -> {DecodeBytea(text)}
      [] c = "shadow" -> {text = "t"}
      [] OTHER -> {text}

\* One column of the loop of parseInsertColumns: a NULL leaves the field as it is, and a
\* column that is not a field of the parsedInsert is skipped.
SetField(parsed, c, text) ==
    IF text = NULL \/ c \notin DOMAIN parsed
    THEN {parsed}
    ELSE {[parsed EXCEPT ![c] = v] : v \in Value(c, text)}

\* The loop over the columns; a column that fails ends it without a result.
ParseInsertColumns(columns, row, settings) ==
    LET parse[n \in 0..Len(columns)] ==
            IF n = 0 THEN {EmptyRow}
            ELSE UNION {SetField(parsed, columns[n], Text(row, columns[n], settings)) :
                           parsed \in parse[n - 1]}
    IN  parse[Len(columns)]
=============================================================================
