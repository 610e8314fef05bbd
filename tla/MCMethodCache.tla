---------------------------- MODULE MCMethodCache ----------------------------
(* MethodCache with three packages, of which one may have two parents. *)
EXTENDS MethodCache, TLC

CONSTANTS pA, pB, pC, pU

Packages == {pA, pB, pC, pU}

\* The values @ISA may have.
Isas ==
  pA :> {<<>>} @@ pB :> {<<>>, <<pA>>} @@ pC :> {<<>>, <<pB>>, <<pA, pB>>}
  @@ pU :> {<<>>, <<pA>>}
=============================================================================
