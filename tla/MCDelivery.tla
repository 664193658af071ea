----------------------------- MODULE MCDelivery -----------------------------
(***************************************************************************)
(* Small instances of Delivery for TLC.                                    *)
(***************************************************************************)
EXTENDS Delivery, TLC

CONSTANTS d1, d2, r1, r2, r3, part1, part2

OneRelation == [r \in {r1, r2, r3} \cap Rows |-> part1]

TwoRelations == [r \in {r1, r2, r3} \cap Rows |-> IF r = r1 THEN part1 ELSE part2]

Symmetric == Permutations(Drivers) \cup Permutations(Rows)
=============================================================================
