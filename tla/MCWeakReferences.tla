-------------------------- MODULE MCWeakReferences --------------------------
(* WeakReferences with four references. *)
EXTENDS WeakReferences
=============================================================================
