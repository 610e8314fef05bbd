----------------------------- MODULE SharedLock -----------------------------
(***************************************************************************)
(* The user-level locks and condition variables of threads::shared         *)
(* (dist/threads-shared/shared.xs).  Every shared variable that is locked  *)
(* or waited on carries a user_lock: a recursive_lock_t (mutex, owner,     *)
(* locks, cond) and a user_cond.                                           *)
(*                                                                         *)
(* A stretch of C code between MUTEX_LOCK and MUTEX_UNLOCK of one          *)
(* recursive_lock_t is one action; COND_WAIT ends an action, with the      *)
(* thread in "sleeping", and the rest of the loop is an action of its own. *)
(* A woken thread is one that is no longer in "sleeping" but has not yet   *)
(* got the mutex back: any other thread may run in between.                *)
(***************************************************************************)
EXTENDS Naturals, FiniteSets

CONSTANTS
  Thread,        \* interpreters (aTHX)
  Var,           \* shared variables
  NoThread,      \* the NULL owner
  NoVar,
  MaxDepth,      \* bound on the nesting of lock() on each variable
  BadDeadline    \* may a program pass a deadline that pthreads rejects?

ASSUME SharedLockAssumption ==
  /\ NoThread \notin Thread
  /\ NoVar \notin Var
  /\ MaxDepth \in [Var -> Nat]
  /\ BadDeadline \in BOOLEAN

VARIABLES
  owner,      \* lock.owner
  locks,      \* lock.locks
  mutex,      \* who left lock.mutex locked between two actions, or NoThread
  scope,      \* scope[t][v]: recursive_lock_release calls queued by
              \* SAVEDESTRUCTOR_X on t's save stack for v's lock
  pc,         \* where thread t is, see PCs
  lockVar,    \* the variable whose lock t is acquiring or waiting under
  condVar,    \* the variable on whose user_cond t waits
  timed,      \* is it cond_timedwait?
  saved,      \* the C local "locks" of cond_wait
  sleeping    \* threads inside COND_WAIT

slVars == <<owner, locks, mutex, scope, pc, lockVar, condVar, timed, saved,
          sleeping>>

\* "run": in Perl code.  "acquire": in the while loop of
\* recursive_lock_acquire.  "wait": in the COND_WAIT on user_cond.
\* "reacquire": in the while loop that ends cond_wait.  "panic": unwinding
\* after Perl_croak_nocontext("panic: cond_timedwait").
PCs == {"run", "acquire", "wait", "reacquire", "panic"}

InCondWait(t) == pc[t] \in {"wait", "reacquire"}

\* Threads asleep on v's lock.cond, and on c's user_cond.
LockSleepers(v) ==
  {t \in sleeping : pc[t] \in {"acquire", "reacquire"} /\ lockVar[t] = v}
UserSleepers(c) == {t \in sleeping : pc[t] = "wait" /\ condVar[t] = c}

\* What COND_SIGNAL does to the set "asleep" when those in S sleep on the
\* condition variable: one of them wakes; with none there is no effect.
Signalled(asleep, S) ==
  IF S = {} THEN {asleep} ELSE {asleep \ {t} : t \in S}

Idle(t) == pc[t] = "run"
MutexFree(v) == mutex[v] = NoThread
-----------------------------------------------------------------------------
SlInit ==
  /\ owner = [v \in Var |-> NoThread]
  /\ locks = [v \in Var |-> 0]
  /\ mutex = [v \in Var |-> NoThread]
  /\ scope = [t \in Thread |-> [v \in Var |-> 0]]
  /\ pc = [t \in Thread |-> "run"]
  /\ lockVar = [t \in Thread |-> NoVar]
  /\ condVar = [t \in Thread |-> NoVar]
  /\ timed = [t \in Thread |-> FALSE]
  /\ saved = [t \in Thread |-> 0]
  /\ sleeping = {}

\* recursive_lock_acquire of a lock that is one's own: locks++.
LockAgain(t, v) ==
  /\ Idle(t) /\ MutexFree(v)
  /\ owner[v] = t
  /\ scope[t][v] < MaxDepth[v]
  /\ locks' = [locks EXCEPT ![v] = @ + 1]
  /\ scope' = [scope EXCEPT ![t][v] = @ + 1]
  /\ UNCHANGED <<owner, mutex, pc, lockVar, condVar, timed, saved, sleeping>>

\* The end of recursive_lock_acquire for a lock without an owner.
TakeLock(t, v) ==
  /\ locks' = [locks EXCEPT ![v] = 1]
  /\ owner' = [owner EXCEPT ![v] = t]
  /\ scope' = [scope EXCEPT ![t][v] = @ + 1]

\* recursive_lock_acquire of a free lock.
LockFree(t, v) ==
  /\ Idle(t) /\ MutexFree(v)
  /\ owner[v] = NoThread
  /\ scope[t][v] < MaxDepth[v]
  /\ TakeLock(t, v)
  /\ UNCHANGED <<mutex, pc, lockVar, condVar, timed, saved, sleeping>>

\* recursive_lock_acquire of a lock of another thread: COND_WAIT(lock.cond).
LockBusy(t, v) ==
  /\ Idle(t) /\ MutexFree(v)
  /\ owner[v] \notin {NoThread, t}
  /\ scope[t][v] < MaxDepth[v]
  /\ pc' = [pc EXCEPT ![t] = "acquire"]
  /\ lockVar' = [lockVar EXCEPT ![t] = v]
  /\ sleeping' = sleeping \cup {t}
  /\ UNCHANGED <<owner, locks, mutex, scope, condVar, timed, saved>>

\* A thread woken from that COND_WAIT tests lock->owner again: it takes the
\* lock, or goes back to sleep behind a thread that was faster.
AcquireLoop(t, v) ==
  /\ pc[t] = "acquire" /\ lockVar[t] = v /\ t \notin sleeping
  /\ MutexFree(v)
  /\ \/ /\ owner[v] = NoThread
        /\ TakeLock(t, v)
        /\ pc' = [pc EXCEPT ![t] = "run"]
        /\ lockVar' = [lockVar EXCEPT ![t] = NoVar]
        /\ UNCHANGED sleeping
     \/ /\ owner[v] # NoThread
        /\ sleeping' = sleeping \cup {t}
        /\ UNCHANGED <<owner, locks, scope, pc, lockVar>>
  /\ UNCHANGED <<mutex, condVar, timed, saved>>
-----------------------------------------------------------------------------
\* Mutant of Release: nobody is woken.
ReleaseWithoutSignal(t, v) ==
  /\ pc[t] = "run" /\ MutexFree(v) /\ scope[t][v] > 0 /\ owner[v] = t
  /\ scope' = [scope EXCEPT ![t][v] = @ - 1]
  /\ locks' = [locks EXCEPT ![v] = @ - 1]
  /\ owner' = [owner EXCEPT ![v] = IF locks[v] = 1 THEN NoThread ELSE t]
  /\ UNCHANGED <<mutex, pc, lockVar, condVar, timed, saved, sleeping>>

\* recursive_lock_release, run when a scope with a lock(v) in it is left,
\* normally or while an exception unwinds it.  A release by a thread that is
\* not the owner is ignored by the code.
Release(t, v) ==
  /\ pc[t] \in {"run", "panic"} /\ MutexFree(v)
  /\ scope[t][v] > 0
  /\ scope' = [scope EXCEPT ![t][v] = @ - 1]
  /\ \/ /\ owner[v] = t /\ locks[v] = 1
        /\ locks' = [locks EXCEPT ![v] = 0]
        /\ owner' = [owner EXCEPT ![v] = NoThread]
        /\ sleeping' \in Signalled(sleeping, LockSleepers(v))
     \/ /\ owner[v] = t /\ locks[v] # 1
        /\ locks' = [locks EXCEPT ![v] = @ - 1]
        /\ UNCHANGED <<owner, sleeping>>
     \/ /\ owner[v] # t
        /\ UNCHANGED <<owner, locks, sleeping>>
  /\ UNCHANGED <<mutex, pc, lockVar, condVar, timed, saved>>
-----------------------------------------------------------------------------
\* Mutant of GiveUpLock: the depth is not read from the lock.
GiveUpLockOnce(t, v) ==
  /\ Idle(t) /\ MutexFree(v)
  /\ owner[v] = t
  /\ owner' = [owner EXCEPT ![v] = NoThread]
  /\ saved' = [saved EXCEPT ![t] = 1]
  /\ locks' = [locks EXCEPT ![v] = 0]
  /\ lockVar' = [lockVar EXCEPT ![t] = v]

\* The first half of cond_wait and cond_timedwait: the lock is given up
\* whole, its depth kept in a local, and one thread that waits for it woken.
\* (Not being the owner is a croak that changes nothing.)
GiveUpLock(t, v) ==
  /\ Idle(t) /\ MutexFree(v)
  /\ owner[v] = t
  /\ owner' = [owner EXCEPT ![v] = NoThread]
  /\ saved' = [saved EXCEPT ![t] = locks[v]]
  /\ locks' = [locks EXCEPT ![v] = 0]
  /\ lockVar' = [lockVar EXCEPT ![t] = v]

\* Mutant of CondWait: those who wait for the lock are not told.
CondWaitWithoutSignal(t, c, v, isTimed) ==
  /\ GiveUpLock(t, v)
  /\ condVar' = [condVar EXCEPT ![t] = c]
  /\ timed' = [timed EXCEPT ![t] = isTimed]
  /\ pc' = [pc EXCEPT ![t] = "wait"]
  /\ sleeping' = sleeping \cup {t}
  /\ UNCHANGED <<mutex, scope>>

\* cond_wait(c, v) and cond_timedwait(c, abs, v), with c = v in the short
\* form, up to the COND_WAIT on c's user_cond.
CondWait(t, c, v, isTimed) ==
  /\ GiveUpLock(t, v)
  /\ condVar' = [condVar EXCEPT ![t] = c]
  /\ timed' = [timed EXCEPT ![t] = isTimed]
  /\ pc' = [pc EXCEPT ![t] = "wait"]
  /\ \E s \in Signalled(sleeping, LockSleepers(v)) : sleeping' = s \cup {t}
  /\ UNCHANGED <<mutex, scope>>

\* cond_timedwait with a deadline that pthread_cond_timedwait answers with
\* EINVAL, such as -0.5 (tv_nsec = -500000000): it returns at once with the
\* mutex still locked, and Perl_sharedsv_cond_timedwait croaks.
CondTimedWaitPanic(t, v) ==
  /\ BadDeadline
  /\ GiveUpLock(t, v)
  /\ pc' = [pc EXCEPT ![t] = "panic"]
  /\ mutex' = [mutex EXCEPT ![v] = t]
  /\ sleeping' \in Signalled(sleeping, LockSleepers(v))
  /\ UNCHANGED <<scope, condVar, timed>>

\* Mutants of CondWaitLoop: lock.owner is not tested again after the wait; the
\* recursion count is not written back.
CondWaitNoLoop(t, v) ==
  /\ InCondWait(t) /\ lockVar[t] = v /\ t \notin sleeping /\ MutexFree(v)
  /\ owner' = [owner EXCEPT ![v] = t]
  /\ locks' = [locks EXCEPT ![v] = saved[t]]
  /\ pc' = [pc EXCEPT ![t] = "run"]
  /\ lockVar' = [lockVar EXCEPT ![t] = NoVar]
  /\ UNCHANGED <<mutex, scope, condVar, timed, saved, sleeping>>

CondWaitForgetsDepth(t, v) ==
  /\ InCondWait(t) /\ lockVar[t] = v /\ t \notin sleeping /\ MutexFree(v)
  /\ owner[v] = NoThread
  /\ owner' = [owner EXCEPT ![v] = t]
  /\ pc' = [pc EXCEPT ![t] = "run"]
  /\ lockVar' = [lockVar EXCEPT ![t] = NoVar]
  /\ UNCHANGED <<locks, mutex, scope, condVar, timed, saved, sleeping>>

\* The end of both: test lock.owner, sleep on lock.cond while there is one,
\* then take the lock back at the depth it was given up at.
CondWaitLoop(t, v) ==
  /\ InCondWait(t) /\ lockVar[t] = v /\ t \notin sleeping
  /\ MutexFree(v)
  /\ \/ /\ owner[v] = NoThread
        /\ owner' = [owner EXCEPT ![v] = t]
        /\ locks' = [locks EXCEPT ![v] = saved[t]]
        /\ pc' = [pc EXCEPT ![t] = "run"]
        /\ lockVar' = [lockVar EXCEPT ![t] = NoVar]
        /\ condVar' = [condVar EXCEPT ![t] = NoVar]
        /\ timed' = [timed EXCEPT ![t] = FALSE]
        /\ saved' = [saved EXCEPT ![t] = 0]
        /\ UNCHANGED sleeping
     \/ /\ owner[v] # NoThread
        /\ pc' = [pc EXCEPT ![t] = "reacquire"]
        /\ sleeping' = sleeping \cup {t}
        /\ UNCHANGED <<owner, locks, lockVar, condVar, timed, saved>>
  /\ UNCHANGED <<mutex, scope>>

\* cond_signal(c): no lock is needed (only a warning), no mutex is taken.
CondSignal(t, c) ==
  /\ Idle(t)
  /\ sleeping' \in Signalled(sleeping, UserSleepers(c))
  /\ UNCHANGED <<owner, locks, mutex, scope, pc, lockVar, condVar, timed, saved>>

CondBroadcast(t, c) ==
  /\ Idle(t)
  /\ sleeping' = sleeping \ UserSleepers(c)
  /\ UNCHANGED <<owner, locks, mutex, scope, pc, lockVar, condVar, timed, saved>>
-----------------------------------------------------------------------------
\* ETIMEDOUT.
Timeout(t) ==
  /\ pc[t] = "wait" /\ timed[t] /\ t \in sleeping
  /\ sleeping' = sleeping \ {t}
  /\ UNCHANGED <<owner, locks, mutex, scope, pc, lockVar, condVar, timed, saved>>

\* POSIX lets any COND_WAIT return without a signal.
SpuriousWakeup(t) ==
  /\ t \in sleeping
  /\ sleeping' = sleeping \ {t}
  /\ UNCHANGED <<owner, locks, mutex, scope, pc, lockVar, condVar, timed, saved>>

LockStep(t, v) ==
  \/ LockAgain(t, v) \/ LockFree(t, v) \/ LockBusy(t, v)
  \/ AcquireLoop(t, v)
  \/ Release(t, v)
  \/ CondTimedWaitPanic(t, v)
  \/ CondWaitLoop(t, v)

SlNext ==
  \E t \in Thread :
    \/ \E v \in Var : LockStep(t, v)
    \/ \E c, v \in Var, isTimed \in BOOLEAN : CondWait(t, c, v, isTimed)
    \/ \E c \in Var : CondSignal(t, c) \/ CondBroadcast(t, c)
    \/ Timeout(t)
    \/ SpuriousWakeup(t)

SlSpec == SlInit /\ [][SlNext]_slVars

\* The operating system lets a woken thread run and a deadline pass, and a
\* thread that unwinds keeps unwinding.  Nothing makes a program leave a
\* scope or send a signal.
SlFairness ==
  /\ \A t \in Thread, v \in Var :
       /\ WF_slVars(AcquireLoop(t, v))
       /\ WF_slVars(CondWaitLoop(t, v))
       /\ WF_slVars(pc[t] = "panic" /\ Release(t, v))
  /\ \A t \in Thread : WF_slVars(Timeout(t))

SlFairSpec == SlSpec /\ SlFairness
-----------------------------------------------------------------------------
SlTypeOK ==
  /\ owner \in [Var -> Thread \cup {NoThread}]
  /\ locks \in [Var -> Nat]
  /\ mutex \in [Var -> Thread \cup {NoThread}]
  /\ scope \in [Thread -> [Var -> Nat]]
  /\ pc \in [Thread -> PCs]
  /\ lockVar \in [Thread -> Var \cup {NoVar}]
  /\ condVar \in [Thread -> Var \cup {NoVar}]
  /\ timed \in [Thread -> BOOLEAN]
  /\ saved \in [Thread -> Nat]
  /\ sleeping \subseteq Thread

\* t gave v's lock up in cond_wait and has not got it back.
Lent(t, v) == pc[t] \in {"wait", "reacquire", "panic"} /\ lockVar[t] = v

\* A thread with an open lock(v) scope that is not in cond_wait for v owns v,
\* and the recursion count is the number of its open scopes: the release at
\* the end of each scope (shared.xs recursive_lock_release) is never a "bad
\* shared lock release", and only the outermost one frees the lock.
ScopeOwnsLock ==
  \A t \in Thread, v \in Var :
    scope[t][v] > 0 /\ ~Lent(t, v) => owner[v] = t /\ locks[v] = scope[t][v]

\* A lock with an owner is one some scope of the owner will release: a lock
\* never outlives the scopes that took it.
OwnerHasScope ==
  \A v \in Var : owner[v] # NoThread =>
    scope[owner[v]][v] > 0 /\ ~Lent(owner[v], v)

\* The depth cond_wait keeps in its local is the number of scopes that are
\* still open, so what it writes back to lock.locks fits them.
SavedDepth ==
  \A t \in Thread, v \in Var :
    Lent(t, v) => saved[t] = scope[t][v] /\ saved[t] > 0

\* Scopes, owner fields, recursion counts and what cond_wait has put by fit
\* each other at any nesting.
LocksFollowScopes == ScopeOwnsLock /\ OwnerHasScope /\ SavedDepth

\* No wake-up on lock.cond is lost: when a lock is free and some thread
\* sleeps on its lock.cond, another thread that waits for it is awake already
\* (release and cond_wait send one COND_SIGNAL each, a woken thread that is
\* overtaken goes back to sleep).
NoLostLockWakeup ==
  \A v \in Var :
    owner[v] = NoThread /\ LockSleepers(v) # {} =>
      \E t \in Thread \ sleeping :
        pc[t] \in {"acquire", "wait", "reacquire"} /\ lockVar[t] = v

\* A free lock that threads sleep for is taken by someone, unless its mutex
\* was left locked by a panic (there may be no bound on who is overtaken).
FreeLockIsTaken ==
  \A v \in Var :
    (owner[v] = NoThread /\ LockSleepers(v) # {} /\ MutexFree(v))
      ~> (owner[v] # NoThread \/ ~MutexFree(v))

\* shared.pm, cond_timedwait: "A false value is returned if the timeout is
\* reached, and a true value otherwise.  In either case, the variable is
\* re-locked upon return."  Whatever the deadline, a thread that has given
\* its lock up and is not asleep any more gets it back or closes its scopes.
UnwindingEnds ==
  \A t \in Thread, v \in Var :
    (pc[t] = "panic" /\ lockVar[t] = v) ~> (scope[t][v] = 0 \/ owner[v] = t)

\* The monitor the Perl program sees.
M == INSTANCE Monitor WITH
       holder <- owner,
       depth <- scope,
       waitingFor <- [t \in Thread |->
                        IF InCondWait(t) \/ pc[t] = "panic"
                        THEN lockVar[t] ELSE NoVar],
       dozing <- {t \in Thread : \/ pc[t] = "wait" /\ t \in sleeping
                                 \/ pc[t] = "panic"}

\* Locks and condition variables together implement the re-entrant monitor
\* of shared.pm (a thread lost in a panic is one that never wakes up).
ImplementsMonitor == M!MonitorSpec
=============================================================================
