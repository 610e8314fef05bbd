------------------------- MODULE CountingSemaphore -------------------------
(***************************************************************************)
(* What Thread::Semaphore promises (the METHODS section of Semaphore.pm):  *)
(* a count and calls that take effect in one indivisible step, some time   *)
(* between the call and the return.  There is no lock, no condition        *)
(* variable and no wake-up here: a call of down is granted when the count  *)
(* suffices, and that is all.                                              *)
(***************************************************************************)
EXTENDS Integers

CONSTANT Caller

VARIABLES
  count,     \* the units that are there; negative after a down_force
  request    \* what each thread is asking for: a record op, n; or Nothing

Nothing == [op |-> "none", n |-> 0]

Init == count \in Int /\ request = [t \in Caller |-> Nothing]

Ops == {"down", "down_nb", "down_timed", "down_force", "up"}

Ask(t) ==
  /\ request[t] = Nothing
  /\ request'[t] \in [op : Ops, n : Int]
  /\ request' = [request EXCEPT ![t] = request'[t]]
  /\ UNCHANGED count

Answer(t) == request' = [request EXCEPT ![t] = Nothing]

\* Takes n units, all at once and only if they are there.
Grant(t) ==
  /\ request[t].op \in {"down", "down_nb", "down_timed"}
  /\ request[t].n \in 1..count
  /\ count' = count - request[t].n
  /\ Answer(t)

\* down_nb says no only when the units are not there; down_timed may also say
\* no because its time is up.  Arguments below 1 are never accepted.
Refuse(t) ==
  /\ \/ request[t].op = "down_nb" /\ count < request[t].n
     \/ request[t].op = "down_timed"
     \/ request[t].op # "none" /\ request[t].n < 1
  /\ UNCHANGED count
  /\ Answer(t)

Force(t) ==
  /\ request[t].op = "down_force" /\ request[t].n >= 1
  /\ count' = count - request[t].n
  /\ Answer(t)

Raise(t) ==
  /\ request[t].op = "up" /\ request[t].n >= 1
  /\ count' = count + request[t].n
  /\ Answer(t)

Next ==
  \E t \in Caller : Ask(t) \/ Grant(t) \/ Refuse(t) \/ Force(t) \/ Raise(t)

Spec == Init /\ [][Next]_<<count, request>>
=============================================================================
