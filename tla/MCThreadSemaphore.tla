------------------------- MODULE MCThreadSemaphore -------------------------
(* ThreadSemaphore with small sets of threads and of calls they may make. *)
EXTENDS ThreadSemaphore, TLC

CONSTANTS t1, t2, t3

Threads == {t1, t2, t3}

C(op, n) == [op |-> op, n |-> n]
Downs(n) == {C("down", n), C("down_timed", n)}

\* Two waiters for different amounts, and one thread that raises, forces and
\* polls; from a count below, at and above zero.
Mixed(start) ==
  [calls |-> t1 :> (Downs(1) \cup {C("up", 1)}) @@ t2 :> Downs(2)
             @@ t3 :> {C("up", 1), C("up", 2), C("down_force", 2),
                       C("down_nb", 1), C("up", 0), C("down", 0)},
   count |-> start]

\* Three workers that take one unit and give it back.
Workers ==
  [calls |-> [t \in Threads |-> {C("down", 1), C("up", 1), C("down_nb", 2)}],
   count |-> 1]

Scenarios == {Mixed(-1), Mixed(0), Mixed(1), Workers}
=============================================================================
