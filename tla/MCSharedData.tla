---------------------------- MODULE MCSharedData ----------------------------
(* SharedData, for the instance in which threads go on during a creation. *)
EXTENDS SharedData
=============================================================================
