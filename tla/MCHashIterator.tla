--------------------------- MODULE MCHashIterator ---------------------------
(* HashIterator with three keys, of which two share every bucket. *)
EXTENDS HashIterator, TLC

CONSTANTS n1, n2, n3, n4

Nodes == {n1, n2, n3, n4}
Keys == n1 :> "a" @@ n2 :> "a" @@ n3 :> "b" @@ n4 :> "c"
Hashes == [a |-> 0, b |-> 4, c |-> 4]

CarefulPlans == {{"insert"}, {"insert", "restrict"}}
CarelessPlans == {{"insert", "restrict anywhere"}}
=============================================================================
