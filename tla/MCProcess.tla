------------------------------ MODULE MCProcess ------------------------------
(***************************************************************************)
(* The life of threads and the signals of a process, on small instances,   *)
(* for one run of TLC.  The parts do not interact, so an execution is one  *)
(* of one part; the variables of the other stay as they are.               *)
(***************************************************************************)
EXTENDS MCIthreads, MCSafeSignals

VARIABLE part  \* never changes

prVars == <<part, itVars, sgVars>>

PrInit ==
  /\ part \in {"ithreads", "signals"}
  /\ ItInit /\ (part # "ithreads" => itScenario = Farm)
  /\ SgInit /\ (part # "signals" => sgScenario = Calm)

IthreadsNext == part = "ithreads" /\ ItNext /\ UNCHANGED <<part, sgVars>>
SignalsNext == part = "signals" /\ SgNext /\ UNCHANGED <<part, itVars>>

PrNext == IthreadsNext \/ SignalsNext

\* The interpreter runs on where signals are the subject.
PrSpec ==
  PrInit /\ [][PrNext]_prVars /\ WF_sgVars(part = "signals" /\ Interpreter)

\* Every variable of every part keeps its type.
PrTypeOK ==
  ItTypeOK /\ SgTypeOK
=============================================================================
