--------------------------- MODULE MCSafeSignals ---------------------------
(***************************************************************************)
(* SafeSignals for TLC.                                                    *)
(***************************************************************************)
EXTENDS SafeSignals

\* No handler dies, and the main code deletes handlers.
Calm == [dies |-> FALSE, deletes |-> {"main"},
         budget |-> [sets |-> 1, masks |-> 1, forks |-> 1]]
\* Handlers die, and anybody deletes handlers.
Rough == [dies |-> TRUE, deletes |-> {"main", "handler"},
          budget |-> [sets |-> 2, masks |-> 0, forks |-> 0]]
\* Handlers die.
Deadly == [dies |-> TRUE, deletes |-> {},
           budget |-> [sets |-> 0, masks |-> 0, forks |-> 0]]

CalmAndRough == {Calm, Rough}
OnlyDeadly == {Deadly}
=============================================================================
