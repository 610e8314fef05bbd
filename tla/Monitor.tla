------------------------------ MODULE Monitor ------------------------------
(***************************************************************************)
(* What lock(), scope exit, cond_wait() and cond_signal() promise a Perl   *)
(* program (threads::shared): every shared variable is a re-entrant        *)
(* monitor.  A thread holds a monitor from its outermost lock() to the end *)
(* of that lock's scope, except while it is in cond_wait(): then the       *)
(* monitor is free, and the thread gets it back, at the same depth, before *)
(* cond_wait() returns.                                                    *)
(*                                                                         *)
(* Nothing here says how: there are no condition variables, no owner       *)
(* fields, no wake-ups to lose.  SharedLock is shown to implement it.      *)
(***************************************************************************)
EXTENDS Naturals

CONSTANTS Thread, Var, NoThread, NoVar

VARIABLES
  holder,     \* holder[v]: the thread that is inside monitor v, or NoThread
  depth,      \* depth[t][v]: open lock() scopes of thread t on v
  waitingFor, \* waitingFor[t]: the monitor t left in cond_wait(), or NoVar
  dozing      \* the threads in cond_wait() that nothing has woken yet

mvars == <<holder, depth, waitingFor, dozing>>

MonitorTypeOK ==
  /\ holder \in [Var -> Thread \cup {NoThread}]
  /\ depth \in [Thread -> [Var -> Nat]]
  /\ waitingFor \in [Thread -> Var \cup {NoVar}]
  /\ dozing \subseteq Thread

MonitorInit ==
  /\ holder = [v \in Var |-> NoThread]
  /\ depth = [t \in Thread |-> [v \in Var |-> 0]]
  /\ waitingFor = [t \in Thread |-> NoVar]
  /\ dozing = {}

\* lock(v): only into a free monitor, or deeper into one's own.
Acquire(t, v) ==
  /\ waitingFor[t] = NoVar
  /\ holder[v] \in {NoThread, t}
  /\ holder' = [holder EXCEPT ![v] = t]
  /\ depth' = [depth EXCEPT ![t][v] = @ + 1]
  /\ UNCHANGED <<waitingFor, dozing>>

\* The scope of one lock(v) ends; the outermost one frees the monitor.
Leave(t, v) ==
  /\ holder[v] = t
  /\ depth[t][v] > 0
  /\ depth' = [depth EXCEPT ![t][v] = @ - 1]
  /\ holder' = [holder EXCEPT ![v] = IF depth[t][v] = 1 THEN NoThread ELSE t]
  /\ UNCHANGED <<waitingFor, dozing>>

\* cond_wait: frees the monitor whatever the depth, and falls asleep, at once.
BeginWait(t, v) ==
  /\ waitingFor[t] = NoVar
  /\ holder[v] = t
  /\ holder' = [holder EXCEPT ![v] = NoThread]
  /\ waitingFor' = [waitingFor EXCEPT ![t] = v]
  /\ dozing' = dozing \cup {t}
  /\ UNCHANGED depth

\* A signal, a broadcast, a timeout or nothing at all ends the sleep.
EndSleep(S) ==
  /\ dozing' = dozing \ S
  /\ UNCHANGED <<holder, depth, waitingFor>>

\* cond_wait returns inside the monitor again.
EndWait(t, v) ==
  /\ waitingFor[t] = v
  /\ t \notin dozing
  /\ holder[v] = NoThread
  /\ holder' = [holder EXCEPT ![v] = t]
  /\ waitingFor' = [waitingFor EXCEPT ![t] = NoVar]
  /\ UNCHANGED <<depth, dozing>>

MonitorNext ==
  \/ \E t \in Thread, v \in Var :
       \/ Acquire(t, v) \/ Leave(t, v)
       \/ BeginWait(t, v) \/ EndWait(t, v)
  \/ \E S \in SUBSET Thread : EndSleep(S)

MonitorSpec == MonitorInit /\ [][MonitorNext]_mvars
=============================================================================
