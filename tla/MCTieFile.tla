----------------------------- MODULE MCTieFile -----------------------------
(* TieFile with three places, two records, and an empty file or one that
   ends in the middle of a record. *)
EXTENDS TieFile

CONSTANTS byteA, newline

Recs == {<<newline>>, <<byteA, newline>>}
SomeFiles == {<<>>, <<byteA, newline, byteA>>}
=============================================================================
