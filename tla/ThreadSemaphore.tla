-------------------------- MODULE ThreadSemaphore --------------------------
(***************************************************************************)
(* Thread::Semaphore (dist/Thread-Semaphore/lib/Thread/Semaphore.pm): a    *)
(* shared scalar that is the count, its lock, and its condition variable   *)
(* for all the threads that are short of units, whatever number of units   *)
(* each of them is waiting for.                                            *)
(*                                                                         *)
(* Every method holds the lock from its first look at the count to its     *)
(* return or cond_wait, so each of these stretches is one action.  The     *)
(* locks themselves are SharedLock's subject.                              *)
(***************************************************************************)
EXTENDS Integers

CONSTANTS
  Caller,
  TsScenario,    \* what the program may do, see SemaphoreAssumption
  MaxChanges   \* bound on the calls of up and down_force

Methods == {"down", "down_nb", "down_timed", "down_force", "up"}

\* n is the argument of the method; new accepts any integer as the count.
Call == [op : Methods, n : Int]

ASSUME SemaphoreAssumption ==
  /\ TsScenario \subseteq [calls : [Caller -> SUBSET Call], count : Int]
  /\ MaxChanges \in Nat

VARIABLES
  tsScenario,  \* never changes
  count,     \* $$sema
  stage,        \* "idle"; "enter": called, without the lock; "wait": in
             \* cond_wait or cond_timedwait; "late": the deadline has passed
             \* in cond_timedwait and the lock is not yet got back
  call,      \* the call that t is making, or NoCall
  asleep,    \* threads in cond_wait or cond_timedwait that nothing has woken
  changes    \* calls of up and down_force so far

tsVars == <<tsScenario, count, stage, call, asleep, changes>>

NoCall == [op |-> "none", n |-> 0]

TsInit ==
  /\ tsScenario \in TsScenario
  /\ count = tsScenario.count
  /\ stage = [t \in Caller |-> "idle"]
  /\ call = [t \in Caller |-> NoCall]
  /\ asleep = {}
  /\ changes = 0

\* $validate_arg, as far as integers go.
Valid(n) == n >= 1

Entering(t, op) == stage[t] = "enter" /\ call[t].op = op /\ Valid(call[t].n)
Resuming(t, op) == stage[t] = "wait" /\ t \notin asleep /\ call[t].op = op

Returns(t) ==
  /\ stage' = [stage EXCEPT ![t] = "idle"]
  /\ call' = [call EXCEPT ![t] = NoCall]
  /\ UNCHANGED <<tsScenario, changes>>

CondWaits(t) ==
  /\ stage' = [stage EXCEPT ![t] = "wait"]
  /\ asleep' = asleep \cup {t}
  /\ UNCHANGED <<tsScenario, count, call, changes>>

Enough(t) == count >= call[t].n

Take(t) == count' = count - call[t].n /\ Returns(t) /\ UNCHANGED asleep
-----------------------------------------------------------------------------
CallMethod(t, c) ==
  /\ stage[t] = "idle"
  /\ c \in tsScenario.calls[t]
  /\ IF c.op \in {"up", "down_force"}
     THEN changes < MaxChanges /\ changes' = changes + 1
     ELSE UNCHANGED changes
  /\ stage' = [stage EXCEPT ![t] = "enter"]
  /\ call' = [call EXCEPT ![t] = c]
  /\ UNCHANGED <<tsScenario, count, asleep>>

\* $validate_arg croaks, before the lock.
Croak(t) ==
  /\ stage[t] = "enter" /\ ~Valid(call[t].n)
  /\ Returns(t)
  /\ UNCHANGED <<count, asleep>>

\* Mutant of Down: "if" for "until".
DownNoLoop(t) ==
  \/ /\ Entering(t, "down")
     /\ IF Enough(t) THEN Take(t) ELSE CondWaits(t)
  \/ Resuming(t, "down") /\ Take(t)

\* cond_wait($$sema) until ($$sema >= $dec)
Down(t) ==
  /\ Entering(t, "down") \/ Resuming(t, "down")
  /\ IF Enough(t) THEN Take(t) ELSE CondWaits(t)

DownNb(t) ==
  /\ Entering(t, "down_nb")
  /\ IF Enough(t) THEN Take(t)
                  ELSE Returns(t) /\ UNCHANGED <<count, asleep>>

DownForce(t) == Entering(t, "down_force") /\ Take(t)

\* A cond_timedwait that has timed out is the end of it, even if an up has
\* come between the deadline and the lock.
DownTimed(t) ==
  \/ /\ Entering(t, "down_timed") \/ Resuming(t, "down_timed")
     /\ IF Enough(t) THEN Take(t) ELSE CondWaits(t)
  \/ stage[t] = "late" /\ Returns(t) /\ UNCHANGED <<count, asleep>>

\* Mutants of Up: cond_signal for cond_broadcast; a broadcast only when the
\* count comes up from zero or below.
UpSignals(t) ==
  /\ Entering(t, "up")
  /\ count' = count + call[t].n
  /\ IF count' > 0 /\ asleep # {} THEN \E u \in asleep : asleep' = asleep \ {u}
                                  ELSE UNCHANGED asleep
  /\ Returns(t)

UpFromZero(t) ==
  /\ Entering(t, "up")
  /\ count' = count + call[t].n
  /\ asleep' = IF count <= 0 /\ count' > 0 THEN {} ELSE asleep
  /\ Returns(t)

\* Nobody waits for less than one unit: no broadcast unless the count is > 0.
Up(t) ==
  /\ Entering(t, "up")
  /\ count' = count + call[t].n
  /\ asleep' = IF count' > 0 THEN {} ELSE asleep
  /\ Returns(t)

DeadlinePasses(t) ==
  /\ t \in asleep /\ call[t].op = "down_timed"
  /\ asleep' = asleep \ {t}
  /\ stage' = [stage EXCEPT ![t] = "late"]
  /\ UNCHANGED <<tsScenario, count, call, changes>>

Rouse(t) ==
  /\ t \in asleep
  /\ asleep' = asleep \ {t}
  /\ UNCHANGED <<tsScenario, count, stage, call, changes>>

\* What thread t does once it is in a method and not asleep.
Step(t) ==
  \/ Croak(t)
  \/ Down(t) \/ DownNb(t) \/ DownForce(t) \/ DownTimed(t)
  \/ Up(t)

TsNext ==
  \E t \in Caller :
    \/ \E c \in tsScenario.calls[t] : CallMethod(t, c)
    \/ Step(t)
    \/ DeadlinePasses(t)
    \/ Rouse(t)

TsSpec == TsInit /\ [][TsNext]_tsVars

\* A thread inside a method gets the lock and goes on.  Nothing makes a thread
\* call a method, and no deadline need pass.
TsFairness == \A t \in Caller : WF_tsVars(Step(t))
TsFairSpec == TsSpec /\ TsFairness
-----------------------------------------------------------------------------
TsTypeOK ==
  /\ tsScenario \in TsScenario
  /\ count \in Int
  /\ stage \in [Caller -> {"idle", "enter", "wait", "late"}]
  /\ call \in [Caller -> Call \cup {NoCall}]
  /\ \A t \in Caller : (stage[t] = "idle") <=> (call[t] = NoCall)
  /\ \A t \in Caller : stage[t] = "wait" => call[t].op \in {"down", "down_timed"}
  /\ \A t \in Caller : stage[t] = "late" => call[t].op = "down_timed"
  /\ \A t \in Caller : stage[t] \in {"wait", "late"} => call[t].n >= 1
  /\ asleep \subseteq {t \in Caller : stage[t] = "wait"}
  /\ changes \in 0..MaxChanges

\* Nobody sleeps with enough units on the semaphore, whatever mixture of
\* amounts the sleepers wait for and whatever takes place between an up and
\* the moment a woken thread has the lock.  up may skip its broadcast at a
\* count of zero or less only because of this.
NoLostWakeup == \A t \in asleep : count < call[t].n

\* Seen from outside, every method takes effect at one moment, is refused only
\* for the documented reasons, and takes all of its units or none; only
\* down_force goes below zero.
Promise == INSTANCE CountingSemaphore WITH request <- call
ImplementsPromise == Promise!Spec

\* A blocked down or down_timed whose units are there, and are not taken by
\* others, returns.
UnitsUnblock ==
  \A t \in Caller :
    (call[t].op \in {"down", "down_timed"} /\ Enough(t)) ~>
      (call[t].op \notin {"down", "down_timed"} \/ ~Enough(t))
=============================================================================
