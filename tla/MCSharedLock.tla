---------------------------- MODULE MCSharedLock ----------------------------
(* SharedLock on a small instance. *)
EXTENDS SharedLock, TLC

CONSTANTS v1, v2

Vars == {v1, v2}

\* lock() nests on one variable; the other serves as a condition variable.
Depths == v1 :> 2 @@ v2 :> 0
=============================================================================
