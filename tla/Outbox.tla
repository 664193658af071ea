------------------------------- MODULE Outbox -------------------------------
(***************************************************************************)
(* What the courier promises to the writers of the outbox table: a durable *)
(* mark moves along the log of committed transactions, and a row is behind *)
(* it only when it is done with: accepted by jack, recorded in the DLQ, or *)
(* dropped because it does not parse.  Nothing is done that was not        *)
(* committed.  How many replicas there are, how rows are batched and what  *)
(* fails on the way is not part of the promise.                            *)
(***************************************************************************)
EXTENDS Naturals, Sequences

CONSTANT Rows

VARIABLES
    log,    \* committed transactions, each the set of rows it inserted
    done,   \* rows that need no further delivery
    mark    \* transactions that will not be delivered again

vars == <<log, done, mark>>

Inserted == UNION {log[i] : i \in DOMAIN log}

Init == log = <<>> /\ done = {} /\ mark = 0

Commit ==
    /\ \E S \in SUBSET Rows : S \cap Inserted = {} /\ log' = Append(log, S)
    /\ UNCHANGED <<done, mark>>

\* Rows get done, and the mark moves over transactions all of whose rows are.
Deliver ==
    /\ done \subseteq done'
    /\ done' \subseteq Inserted
    /\ mark' \in mark..Len(log)
    /\ \A i \in 1..mark' : log[i] \subseteq done'
    /\ UNCHANGED log

Next == Commit \/ Deliver

Spec == Init /\ [][Next]_vars
=============================================================================
