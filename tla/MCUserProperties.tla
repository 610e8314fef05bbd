-------------------------- MODULE MCUserProperties --------------------------
(* UserProperties with a few programs. *)
EXTENDS UserProperties, TLC

CONSTANTS c1, c2, c3, pA, pB, pC

Compilers == {c1, c2, c3}
Properties == {pA, pB, pC}

P(uses, subs, compiles, defers) ==
  [uses |-> uses, subs |-> subs, compiles |-> compiles, defers |-> defers]

\* A chain of three, any of which may die when it is asked for.
Chain ==
  P(pA :> <<pB>> @@ pB :> <<pC>> @@ pC :> <<>>,
    [k \in Properties |-> {"lines", "dies"}],
    c1 :> {pA} @@ c2 :> {pA, pB} @@ c3 :> {pC}, {FALSE})

\* Two that lead to each other, and one that needs both.
Circle ==
  P(pA :> <<pB>> @@ pB :> <<pA>> @@ pC :> <<pA, pB>>,
    [k \in Properties |-> {"lines"}],
    c1 :> {pA, pB} @@ c2 :> {pA, pB} @@ c3 :> {pC}, {FALSE})

\* Subs that are not ready yet, each wanted by one thread only.
Apart ==
  P(pA :> <<>> @@ pB :> <<>> @@ pC :> <<>>,
    [k \in Properties |-> {"empty", "unknown", "lines"}],
    c1 :> {pA} @@ c2 :> {pB} @@ c3 :> {pC}, BOOLEAN)

UserPrograms == {Chain, Circle, Apart}
=============================================================================
