---------------------------- MODULE ThreadsProofs ----------------------------
(***************************************************************************)
(* Proofs about the locks of threads, in the order of the components: the  *)
(* user locks of threads::shared and the reference counts of its data,     *)
(* Thread::Semaphore, and the interpreter's read-write locks.  They have   *)
(* no state in common, and no lemma.                                       *)
(***************************************************************************)
EXTENDS SharedLock, SharedData, ThreadSemaphore, ReadWriteLock, FiniteSetTheorems, TLAPS

-----------------------------------------------------------------------------
(***************************************************************************)
(* Proofs about the two halves of threads::shared: its locks (SharedLock), *)
(* for any threads, variables and nesting bound, and, after them, the      *)
(* reference counts of its data (SharedData).                              *)
(*                                                                         *)
(* The safety properties of SharedLock are inductive once two facts about  *)
(* where a thread is are added (Placement).  The argument, in one line: a  *)
(* thread gives v's owner field up only in GiveUpLock and in its outermost *)
(* Release, and both wake one of v's sleepers.                             *)
(***************************************************************************)
\* A thread that is acquiring or waiting does so for a variable, only such a
\* thread sleeps, and a thread in a panic has left the mutex locked.
Placement ==
  \A t \in Thread :
    /\ pc[t] # "run" => lockVar[t] \in Var
    /\ t \in sleeping => pc[t] \in {"acquire", "wait", "reacquire"}
    /\ pc[t] = "panic" => mutex[lockVar[t]] # NoThread

LockInv ==
  /\ SlTypeOK
  /\ Placement
  /\ ScopeOwnsLock
  /\ OwnerHasScope
  /\ SavedDepth
  /\ NoLostLockWakeup

\* All that the proofs need of the constants.
LEMMA Distinct == NoThread \notin Thread /\ NoVar \notin Var
  BY SharedLockAssumption

USE Distinct

LEMMA LockInit == SlInit => LockInv
  BY DEF SlInit, LockInv, SlTypeOK, Placement, ScopeOwnsLock, OwnerHasScope,
         SavedDepth, NoLostLockWakeup, PCs, Lent, LockSleepers

-----------------------------------------------------------------------------
\* What COND_SIGNAL does: nobody falls asleep, and if anybody slept on the
\* condition variable then one of them is awake afterwards.
LEMMA SignalWakes ==
  ASSUME NEW dozing, NEW S, S \subseteq dozing,
         NEW after, after \in Signalled(dozing, S)
  PROVE  /\ after \subseteq dozing
         /\ S # {} => \E t \in S : t \notin after
         /\ \A t \in dozing : t \notin after => t \in S
  <1>1. CASE S = {}
    BY <1>1 DEF Signalled
  <1>2. CASE S # {}
    <2>1. PICK t \in S : after = dozing \ {t}
      BY <1>2 DEF Signalled
    <2> QED BY <2>1, <1>2
  <1> QED BY <1>1, <1>2

\* Steps that only wake threads keep every part of the invariant.
LEMMA WakingKeeps ==
  ASSUME LockInv, sleeping' \subseteq sleeping,
         UNCHANGED <<owner, locks, mutex, scope, pc, lockVar, condVar, timed,
                     saved>>
  PROVE  LockInv'
  <1>1. SlTypeOK' /\ Placement' /\ ScopeOwnsLock' /\ OwnerHasScope' /\ SavedDepth'
    BY DEF LockInv, SlTypeOK, Placement, ScopeOwnsLock, OwnerHasScope, SavedDepth,
           Lent
  <1>2. NoLostLockWakeup'
    BY DEF LockInv, NoLostLockWakeup, LockSleepers
  <1> QED BY <1>1, <1>2 DEF LockInv

LEMMA LockAgainKeeps ==
  ASSUME NEW t \in Thread, NEW v \in Var, LockInv, LockAgain(t, v)
  PROVE  LockInv'
  <1> USE DEF LockAgain, Idle, LockInv, SlTypeOK
  <1>1. SlTypeOK'  OBVIOUS
  <1>2. Placement'  BY DEF Placement
  <1>3. ScopeOwnsLock'  BY DEF ScopeOwnsLock, OwnerHasScope, Lent
  <1>4. OwnerHasScope'  BY DEF OwnerHasScope, Lent
  <1>5. SavedDepth'  BY DEF SavedDepth, Lent
  <1>6. NoLostLockWakeup'  BY DEF NoLostLockWakeup, LockSleepers
  <1> QED BY <1>1, <1>2, <1>3, <1>4, <1>5, <1>6

LEMMA LockFreeKeeps ==
  ASSUME NEW t \in Thread, NEW v \in Var, LockInv, LockFree(t, v)
  PROVE  LockInv'
  <1> USE DEF LockFree, TakeLock, Idle, LockInv, SlTypeOK
  <1>1. SlTypeOK'  OBVIOUS
  <1>2. Placement'  BY DEF Placement
  <1>3. ScopeOwnsLock'  BY DEF ScopeOwnsLock, Lent
  <1>4. OwnerHasScope'  BY DEF OwnerHasScope, Lent
  <1>5. SavedDepth'  BY DEF SavedDepth, Lent
  <1>6. NoLostLockWakeup'
    <2>1. owner'[v] = t /\ t # NoThread
      BY SharedLockAssumption
    <2>2. ASSUME NEW w \in Var, owner'[w] = NoThread, LockSleepers(w)' # {}
          PROVE  \E u \in Thread \ sleeping' :
                   pc'[u] \in {"acquire", "wait", "reacquire"} /\ lockVar'[u] = w
      <3>1. owner[w] = NoThread /\ LockSleepers(w) # {}
        BY <2>1, <2>2 DEF LockSleepers
      <3>. QED BY <3>1 DEF NoLostLockWakeup
    <2>. QED BY <2>2 DEF NoLostLockWakeup
  <1> QED BY <1>1, <1>2, <1>3, <1>4, <1>5, <1>6

LEMMA LockBusyKeeps ==
  ASSUME NEW t \in Thread, NEW v \in Var, LockInv, LockBusy(t, v)
  PROVE  LockInv'
  <1> USE DEF LockBusy, Idle, LockInv, SlTypeOK
  <1>1. SlTypeOK'  BY DEF PCs
  <1>2. Placement'  BY DEF Placement
  <1>3. ScopeOwnsLock'  BY DEF ScopeOwnsLock, Lent
  <1>4. OwnerHasScope'  BY DEF OwnerHasScope, Lent
  <1>5. SavedDepth'  BY DEF SavedDepth, Lent
  <1>6. NoLostLockWakeup'
    <2> SUFFICES ASSUME NEW w \in Var, owner'[w] = NoThread, LockSleepers(w)' # {}
                 PROVE  \E u \in Thread \ sleeping' :
                          /\ pc'[u] \in {"acquire", "wait", "reacquire"}
                          /\ lockVar'[u] = w
      BY DEF NoLostLockWakeup
    <2>1. w # v /\ owner[w] = NoThread
      OBVIOUS
    <2>2. LockSleepers(w) # {}
      BY <2>1 DEF LockSleepers
    <2>3. PICK u \in Thread \ sleeping :
            pc[u] \in {"acquire", "wait", "reacquire"} /\ lockVar[u] = w
      BY <2>1, <2>2 DEF NoLostLockWakeup
    <2> QED BY <2>1, <2>3
  <1> QED BY <1>1, <1>2, <1>3, <1>4, <1>5, <1>6

LEMMA AcquireLoopKeeps ==
  ASSUME NEW t \in Thread, NEW v \in Var, LockInv, AcquireLoop(t, v)
  PROVE  LockInv'
  <1> USE DEF LockInv, SlTypeOK
  <1>1. CASE /\ owner[v] = NoThread /\ TakeLock(t, v)
             /\ pc' = [pc EXCEPT ![t] = "run"]
             /\ lockVar' = [lockVar EXCEPT ![t] = NoVar]
             /\ UNCHANGED sleeping
    <2> USE <1>1 DEF AcquireLoop, TakeLock
    <2>1. SlTypeOK'  BY DEF PCs
    <2>2. Placement'  BY DEF Placement
    <2>3. ScopeOwnsLock'  BY DEF ScopeOwnsLock, Lent
    <2>4. OwnerHasScope'  BY DEF OwnerHasScope, Lent
    <2>5. SavedDepth'  BY DEF SavedDepth, Lent
    <2>6. NoLostLockWakeup'  BY DEF NoLostLockWakeup, LockSleepers
    <2> QED BY <2>1, <2>2, <2>3, <2>4, <2>5, <2>6
  <1>2. CASE /\ owner[v] # NoThread /\ sleeping' = sleeping \cup {t}
             /\ UNCHANGED <<owner, locks, scope, pc, lockVar>>
    <2> USE <1>2 DEF AcquireLoop
    <2>1. SlTypeOK'  OBVIOUS
    <2>2. Placement'  BY DEF Placement
    <2>3. ScopeOwnsLock' /\ OwnerHasScope' /\ SavedDepth'
      BY DEF ScopeOwnsLock, OwnerHasScope, SavedDepth, Lent
    <2>4. NoLostLockWakeup'
      <3> SUFFICES ASSUME NEW w \in Var, owner'[w] = NoThread,
                          LockSleepers(w)' # {}
                   PROVE  \E u \in Thread \ sleeping' :
                            /\ pc'[u] \in {"acquire", "wait", "reacquire"}
                            /\ lockVar'[u] = w
        BY DEF NoLostLockWakeup
      <3>1. w # v /\ owner[w] = NoThread /\ LockSleepers(w) # {}
        BY DEF LockSleepers
      <3> QED BY <3>1 DEF NoLostLockWakeup
    <2> QED BY <2>1, <2>2, <2>3, <2>4
  <1> QED BY <1>1, <1>2 DEF AcquireLoop

\* A step that hands v's lock back and signals its lock.cond: whoever sleeps
\* for another variable is undisturbed, and of v's sleepers one is awake.
LEMMA HandBackWakes ==
  ASSUME LockInv, NEW t \in Thread, NEW v \in Var,
         NEW s, s \in Signalled(sleeping, LockSleepers(v)),
         sleeping' \in {s, s \cup {t}},
         t \notin sleeping, pc[t] \in {"run", "panic"}, pc'[t] # "acquire",
         pc'[t] # "reacquire",
         \A u \in Thread \ {t} : pc'[u] = pc[u] /\ lockVar'[u] = lockVar[u],
         \A w \in Var \ {v} : owner'[w] = owner[w]
  PROVE  NoLostLockWakeup'
  <1> SUFFICES ASSUME NEW w \in Var, owner'[w] = NoThread, LockSleepers(w)' # {}
               PROVE  \E u \in Thread \ sleeping' :
                        /\ pc'[u] \in {"acquire", "wait", "reacquire"}
                        /\ lockVar'[u] = w
    BY DEF NoLostLockWakeup
  <1>1. LockSleepers(v) \subseteq sleeping
    BY DEF LockSleepers
  <1>2. /\ s \subseteq sleeping
        /\ LockSleepers(v) # {} => \E u \in LockSleepers(v) : u \notin s
    <2>1. CASE LockSleepers(v) = {}
      BY <2>1 DEF Signalled
    <2>2. CASE LockSleepers(v) # {}
      <3>1. PICK u \in LockSleepers(v) : s = sleeping \ {u}
        BY <2>2 DEF Signalled
      <3> QED BY <3>1
    <2> QED BY <2>1, <2>2
  <1> USE DEF LockInv, SlTypeOK
  <1>3. LockSleepers(w)' \subseteq LockSleepers(w)
    BY <1>2 DEF LockSleepers
  <1>4. CASE w = v
    <2>1. PICK u \in LockSleepers(v) : u \notin s
      BY <1>2, <1>3, <1>4
    <2>2. u \in Thread /\ u # t /\ pc[u] \in {"acquire", "reacquire"} /\ lockVar[u] = v
      BY <2>1 DEF LockSleepers
    <2> QED BY <2>1, <2>2, <1>4
  <1>5. CASE w # v
    <2>1. PICK u \in Thread \ sleeping :
            pc[u] \in {"acquire", "wait", "reacquire"} /\ lockVar[u] = w
      BY <1>3, <1>5 DEF NoLostLockWakeup
    <2> QED BY <2>1, <1>2
  <1> QED BY <1>4, <1>5

LEMMA ReleaseKeeps ==
  ASSUME NEW t \in Thread, NEW v \in Var, LockInv, Release(t, v)
  PROVE  LockInv'
  <1> USE DEF LockInv, SlTypeOK
  <1>1. ~Lent(t, v)
    BY DEF Release, MutexFree, Lent, Placement
  <1>2. owner[v] = t /\ locks[v] = scope[t][v]
    BY <1>1 DEF Release, ScopeOwnsLock
  <1>3. t \notin sleeping
    BY DEF Release, Placement
  <1>4. CASE locks[v] = 1
    <2>1. /\ scope' = [scope EXCEPT ![t][v] = @ - 1]
          /\ locks' = [locks EXCEPT ![v] = 0]
          /\ owner' = [owner EXCEPT ![v] = NoThread]
          /\ sleeping' \in Signalled(sleeping, LockSleepers(v))
          /\ UNCHANGED <<mutex, pc, lockVar, condVar, timed, saved>>
      BY <1>2, <1>4 DEF Release
    <2>2. sleeping' \subseteq sleeping
      BY SMTT(30), <2>1, SignalWakes DEF LockSleepers
    <2>3. SlTypeOK'
      <3>1. scope[t][v] = 1
        BY <1>2, <1>4
      <3>2. scope' \in [Thread -> [Var -> Nat]]
        BY <2>1, <3>1
      <3> QED BY <2>1, <2>2, <3>2
    <2>4. Placement'
      BY <2>1, <2>2 DEF Placement
    <2>5. ScopeOwnsLock'
      BY <1>2, <1>4, <2>1 DEF ScopeOwnsLock, Lent
    <2>6. OwnerHasScope'
      BY <2>1 DEF OwnerHasScope, Lent
    <2>7. SavedDepth'
      BY <1>1, <2>1 DEF SavedDepth, Lent
    <2>8. NoLostLockWakeup'
      BY <1>3, <2>1, HandBackWakes DEF Release
    <2> QED BY <2>3, <2>4, <2>5, <2>6, <2>7, <2>8
  <1>5. CASE locks[v] # 1
    <2>1. /\ scope' = [scope EXCEPT ![t][v] = @ - 1]
          /\ locks' = [locks EXCEPT ![v] = @ - 1]
          /\ UNCHANGED <<owner, sleeping, mutex, pc, lockVar, condVar, timed,
                         saved>>
      BY <1>2, <1>5 DEF Release
    <2>2. scope[t][v] > 1
      BY <1>2, <1>5 DEF Release
    <2>3. SlTypeOK'
      BY <1>2, <2>1, <2>2
    <2>4. Placement'
      BY <2>1 DEF Placement
    <2>5. ScopeOwnsLock'
      BY <1>2, <2>1, <2>2 DEF ScopeOwnsLock, Lent
    <2>6. OwnerHasScope'
      BY <1>2, <2>1, <2>2 DEF OwnerHasScope, Lent
    <2>7. SavedDepth'
      BY <1>1, <2>1 DEF SavedDepth, Lent
    <2>8. NoLostLockWakeup'
      BY <2>1 DEF NoLostLockWakeup, LockSleepers
    <2> QED BY <2>3, <2>4, <2>5, <2>6, <2>7, <2>8
  <1> QED BY <1>4, <1>5

LEMMA CondWaitKeeps ==
  ASSUME NEW t \in Thread, NEW c \in Var, NEW v \in Var,
         NEW isTimed \in BOOLEAN, LockInv, CondWait(t, c, v, isTimed)
  PROVE  LockInv'
  <1> USE DEF LockInv, SlTypeOK, CondWait, GiveUpLock, Idle
  <1>1. locks[v] = scope[t][v] /\ scope[t][v] > 0 /\ t \notin sleeping
    BY DEF ScopeOwnsLock, OwnerHasScope, Placement
  <1>2. PICK s \in Signalled(sleeping, LockSleepers(v)) :
          sleeping' = s \cup {t}
    OBVIOUS
  <1>3. s \subseteq sleeping
    <2>1. LockSleepers(v) \subseteq sleeping
      BY DEF LockSleepers
    <2> QED BY <1>2, <2>1 DEF Signalled
  <1>4. SlTypeOK'
    BY <1>2, <1>3 DEF PCs
  <1>5. Placement'
    BY <1>2, <1>3 DEF Placement
  <1>6. ScopeOwnsLock' /\ OwnerHasScope'
    BY DEF ScopeOwnsLock, OwnerHasScope, Lent
  <1>7. SavedDepth'
    BY <1>1 DEF SavedDepth, Lent
  <1>8. NoLostLockWakeup'
    BY <1>1, <1>2, HandBackWakes
  <1> QED BY <1>4, <1>5, <1>6, <1>7, <1>8

LEMMA CondTimedWaitPanicKeeps ==
  ASSUME NEW t \in Thread, NEW v \in Var, LockInv, CondTimedWaitPanic(t, v)
  PROVE  LockInv'
  <1> USE DEF LockInv, SlTypeOK, CondTimedWaitPanic, GiveUpLock, Idle
  <1>1. locks[v] = scope[t][v] /\ scope[t][v] > 0 /\ t \notin sleeping
    BY DEF ScopeOwnsLock, OwnerHasScope, Placement
  <1>2. sleeping' \subseteq sleeping
    BY SignalWakes DEF LockSleepers
  <1>3. SlTypeOK'
    BY <1>2 DEF PCs
  <1>4. Placement'
    BY <1>1, <1>2 DEF Placement
  <1>5. ScopeOwnsLock' /\ OwnerHasScope'
    BY DEF ScopeOwnsLock, OwnerHasScope, Lent
  <1>6. SavedDepth'
    BY <1>1 DEF SavedDepth, Lent
  <1>7. NoLostLockWakeup'
    BY <1>1, HandBackWakes
  <1> QED BY <1>3, <1>4, <1>5, <1>6, <1>7

LEMMA CondWaitLoopKeeps ==
  ASSUME NEW t \in Thread, NEW v \in Var, LockInv, CondWaitLoop(t, v)
  PROVE  LockInv'
  <1> USE DEF LockInv, SlTypeOK, CondWaitLoop, InCondWait
  <1>1. CASE owner[v] = NoThread
    <2> HIDE DEF CondWaitLoop
    <2>0. /\ owner' = [owner EXCEPT ![v] = t]
          /\ locks' = [locks EXCEPT ![v] = saved[t]]
          /\ pc' = [pc EXCEPT ![t] = "run"]
          /\ lockVar' = [lockVar EXCEPT ![t] = NoVar]
          /\ condVar' = [condVar EXCEPT ![t] = NoVar]
          /\ timed' = [timed EXCEPT ![t] = FALSE]
          /\ saved' = [saved EXCEPT ![t] = 0]
          /\ UNCHANGED <<sleeping, mutex, scope>>
          /\ pc[t] \in {"wait", "reacquire"} /\ lockVar[t] = v
          /\ t \notin sleeping
      BY <1>1 DEF CondWaitLoop
    <2> USE <1>1, <2>0
    <2>1. saved[t] = scope[t][v] /\ scope[t][v] > 0
      BY DEF SavedDepth, Lent
    <2>2. SlTypeOK'
      <3>1. locks' \in [Var -> Nat] /\ saved' \in [Thread -> Nat]
        OBVIOUS
      <3>2. pc' \in [Thread -> PCs] /\ timed' \in [Thread -> BOOLEAN]
        BY DEF PCs
      <3> QED BY <3>1, <3>2
    <2>3. Placement'
      BY DEF Placement
    <2>4. ScopeOwnsLock'
      BY <2>1 DEF ScopeOwnsLock, Lent
    <2>5. OwnerHasScope'
      BY <2>1 DEF OwnerHasScope, Lent
    <2>6. SavedDepth'
      BY DEF SavedDepth, Lent
    <2>7. NoLostLockWakeup'
      <3> SUFFICES ASSUME NEW w \in Var, owner'[w] = NoThread,
                          LockSleepers(w)' # {}
                   PROVE  \E u \in Thread \ sleeping' :
                            /\ pc'[u] \in {"acquire", "wait", "reacquire"}
                            /\ lockVar'[u] = w
        BY DEF NoLostLockWakeup
      <3>1. w # v /\ owner[w] = NoThread /\ LockSleepers(w) # {}
        BY DEF LockSleepers
      <3> QED BY <3>1 DEF NoLostLockWakeup
    <2> QED BY <2>2, <2>3, <2>4, <2>5, <2>6, <2>7
  <1>2. CASE owner[v] # NoThread
    <2> USE <1>2
    <2>1. SlTypeOK'
      BY DEF PCs
    <2>2. Placement'
      BY DEF Placement
    <2>3. ScopeOwnsLock' /\ OwnerHasScope' /\ SavedDepth'
      BY DEF ScopeOwnsLock, OwnerHasScope, SavedDepth, Lent
    <2>4. NoLostLockWakeup'
      <3> SUFFICES ASSUME NEW w \in Var, owner'[w] = NoThread,
                          LockSleepers(w)' # {}
                   PROVE  \E u \in Thread \ sleeping' :
                            /\ pc'[u] \in {"acquire", "wait", "reacquire"}
                            /\ lockVar'[u] = w
        BY DEF NoLostLockWakeup
      <3>1. w # v /\ owner[w] = NoThread /\ LockSleepers(w) # {}
        BY DEF LockSleepers
      <3> QED BY <3>1 DEF NoLostLockWakeup
    <2> QED BY <2>1, <2>2, <2>3, <2>4
  <1> QED BY <1>1, <1>2

-----------------------------------------------------------------------------
\* Signals, broadcasts, timeouts and spurious wake-ups only wake threads.
LEMMA WakeStepOnlyWakes ==
  ASSUME NEW t \in Thread,
         \/ \E c \in Var : CondSignal(t, c) \/ CondBroadcast(t, c)
         \/ Timeout(t)
         \/ SpuriousWakeup(t)
  PROVE  /\ sleeping' \subseteq sleeping
         /\ UNCHANGED <<owner, locks, mutex, scope, pc, lockVar, condVar, timed,
                        saved>>
  <1>1. CASE \E c \in Var : CondSignal(t, c)
    <2>1. PICK c \in Var : CondSignal(t, c)
      BY <1>1
    <2>2. UserSleepers(c) \subseteq sleeping
      BY DEF UserSleepers
    <2> QED BY <2>1, <2>2 DEF CondSignal, Signalled
  <1>2. CASE \E c \in Var : CondBroadcast(t, c)
    BY <1>2 DEF CondBroadcast
  <1>3. CASE Timeout(t) \/ SpuriousWakeup(t)
    BY <1>3 DEF Timeout, SpuriousWakeup
  <1> QED BY <1>1, <1>2, <1>3

LEMMA LockNext == LockInv /\ [SlNext]_slVars => LockInv'
  <1> SUFFICES ASSUME LockInv, [SlNext]_slVars PROVE LockInv'
    OBVIOUS
  <1>1. CASE UNCHANGED slVars
    BY <1>1, WakingKeeps DEF slVars
  <1>2. ASSUME NEW t \in Thread, NEW v \in Var, LockStep(t, v)
        PROVE  LockInv'
    BY <1>2, LockAgainKeeps, LockFreeKeeps, LockBusyKeeps, AcquireLoopKeeps,
       ReleaseKeeps, CondTimedWaitPanicKeeps, CondWaitLoopKeeps DEF LockStep
  <1>3. ASSUME NEW t \in Thread, NEW c \in Var, NEW v \in Var,
               NEW isTimed \in BOOLEAN, CondWait(t, c, v, isTimed)
        PROVE  LockInv'
    BY <1>3, CondWaitKeeps
  <1>4. ASSUME NEW t \in Thread,
               \/ \E c \in Var : CondSignal(t, c) \/ CondBroadcast(t, c)
               \/ Timeout(t)
               \/ SpuriousWakeup(t)
        PROVE  LockInv'
    BY <1>4, WakeStepOnlyWakes, WakingKeeps
  <1> QED BY <1>1, <1>2, <1>3, <1>4 DEF SlNext

THEOREM LockInvariance == SlSpec => []LockInv
  BY LockInit, LockNext, PTL DEF SlSpec

\* Every variable keeps its type in every reachable state.
THEOREM LockTypes == SlSpec => []SlTypeOK
  BY LockInvariance, PTL DEF LockInv

\* shared.xs recursive_lock_acquire/release, cond_wait: an open lock() scope
\* outside cond_wait owns the lock, at a recursion count that is the number
\* of open scopes, for any number of threads, variables and nested scopes.
THEOREM ScopesOwnLocks == SlSpec => []LocksFollowScopes
  BY LockInvariance, PTL DEF LockInv, LocksFollowScopes

\* A lock never stays free while all the threads that want it sleep.
THEOREM LockWakeupsReach == SlSpec => []NoLostLockWakeup
  BY LockInvariance, PTL DEF LockInv

-----------------------------------------------------------------------------
(***************************************************************************)
(* LocksAreMonitors.  WaitingFor and Dozing name the refinement mapping; the two *)
(* lemmas say that a step of the monitor (or a stutter) is recognised by   *)
(* what it does to pc, lockVar and sleeping.                               *)
(***************************************************************************)
WaitingFor ==
  [t \in Thread |-> IF InCondWait(t) \/ pc[t] = "panic" THEN lockVar[t] ELSE NoVar]
Dozing == {t \in Thread : (pc[t] = "wait" /\ t \in sleeping) \/ pc[t] = "panic"}

LEMMA LockInitRefines == SlInit => M!MonitorInit
  BY DEF SlInit, M!MonitorInit, InCondWait

LEMMA LockRefines ==
  ASSUME NEW t \in Thread, NEW v \in Var, LockInv,
         LockAgain(t, v) \/ LockFree(t, v)
  PROVE  M!Acquire(t, v)
  <1> USE DEF LockInv, SlTypeOK, LockAgain, LockFree, TakeLock, Idle
  <1>1. pc[t] = "run" /\ owner[v] \in {NoThread, t}
    OBVIOUS
  <1>2. owner' = [owner EXCEPT ![v] = t] /\ scope' = [scope EXCEPT ![t][v] = @ + 1]
    OBVIOUS
  <1>3. UNCHANGED <<pc, lockVar, sleeping>>
    OBVIOUS
  <1> QED BY <1>1, <1>2, <1>3 DEF M!Acquire, InCondWait

LEMMA LockBusyRefines ==
  ASSUME NEW t \in Thread, NEW v \in Var, LockInv, LockBusy(t, v)
  PROVE  UNCHANGED M!mvars
  <1> USE DEF LockInv, SlTypeOK, LockBusy, Idle
  <1>1. UNCHANGED <<owner, scope>>
    OBVIOUS
  <1>2. UNCHANGED WaitingFor
    BY DEF WaitingFor, InCondWait
  <1>3. UNCHANGED Dozing
    BY DEF Dozing
  <1> QED BY <1>1, <1>2, <1>3 DEF M!mvars, WaitingFor, Dozing

LEMMA AcquireLoopRefines ==
  ASSUME NEW t \in Thread, NEW v \in Var, LockInv, AcquireLoop(t, v)
  PROVE  M!Acquire(t, v) \/ UNCHANGED M!mvars
  <1> USE DEF LockInv, SlTypeOK
  <1>1. CASE owner[v] = NoThread
    <2>1. /\ pc[t] = "acquire" /\ TakeLock(t, v)
          /\ pc' = [pc EXCEPT ![t] = "run"]
          /\ lockVar' = [lockVar EXCEPT ![t] = NoVar]
          /\ UNCHANGED sleeping
      BY <1>1 DEF AcquireLoop
    <2>2. UNCHANGED WaitingFor /\ WaitingFor[t] = NoVar
      BY <2>1 DEF WaitingFor, InCondWait
    <2>3. UNCHANGED Dozing
      BY <2>1 DEF Dozing
    <2> QED BY <1>1, <2>1, <2>2, <2>3 DEF M!Acquire, TakeLock, WaitingFor, Dozing
  <1>2. CASE owner[v] # NoThread
    <2>1. /\ pc[t] = "acquire" /\ sleeping' = sleeping \cup {t}
          /\ UNCHANGED <<owner, locks, scope, pc, lockVar>>
      BY <1>2 DEF AcquireLoop
    <2>2. UNCHANGED WaitingFor
      BY <2>1 DEF WaitingFor, InCondWait
    <2>3. UNCHANGED Dozing
      BY <2>1 DEF Dozing
    <2> QED BY <2>1, <2>2, <2>3 DEF M!mvars, WaitingFor, Dozing
  <1> QED BY <1>1, <1>2

LEMMA ReleaseRefines ==
  ASSUME NEW t \in Thread, NEW v \in Var, LockInv, Release(t, v)
  PROVE  M!Leave(t, v)
  <1> USE DEF LockInv, SlTypeOK
  <1>1. owner[v] = t /\ locks[v] = scope[t][v] /\ scope[t][v] > 0
    <2>1. ~Lent(t, v)
      BY DEF Release, MutexFree, Lent, Placement
    <2> QED BY <2>1 DEF Release, ScopeOwnsLock
  <1>2. /\ scope' = [scope EXCEPT ![t][v] = @ - 1]
        /\ owner' = [owner EXCEPT ![v] = IF scope[t][v] = 1 THEN NoThread ELSE t]
        /\ UNCHANGED <<pc, lockVar>>
    BY <1>1 DEF Release
  <1>3. UNCHANGED WaitingFor
    BY <1>2 DEF WaitingFor, InCondWait
  <1>4. UNCHANGED Dozing
    <2>1. \A u \in sleeping : pc[u] = "wait" => u \in sleeping'
      BY DEF Release, Signalled, LockSleepers
    <2>2. sleeping' \subseteq sleeping
      BY DEF Release, Signalled
    <2> QED BY <1>2, <2>1, <2>2 DEF Dozing
  <1> QED BY <1>1, <1>2, <1>3, <1>4 DEF M!Leave, WaitingFor, Dozing

LEMMA CondWaitRefines ==
  ASSUME NEW t \in Thread, NEW c \in Var, NEW v \in Var,
         NEW isTimed \in BOOLEAN, LockInv,
         CondWait(t, c, v, isTimed) \/ CondTimedWaitPanic(t, v)
  PROVE  M!BeginWait(t, v)
  <1> USE DEF LockInv, SlTypeOK
  <1>1. /\ pc[t] = "run" /\ owner[v] = t
        /\ owner' = [owner EXCEPT ![v] = NoThread]
        /\ lockVar' = [lockVar EXCEPT ![t] = v]
        /\ UNCHANGED scope
        /\ \/ pc' = [pc EXCEPT ![t] = "wait"] /\ t \in sleeping'
           \/ pc' = [pc EXCEPT ![t] = "panic"]
    BY DEF CondWait, CondTimedWaitPanic, GiveUpLock, Idle
  <1>2. WaitingFor[t] = NoVar /\ WaitingFor' = [WaitingFor EXCEPT ![t] = v]
    BY <1>1 DEF WaitingFor, InCondWait
  <1>3. \A u \in sleeping : pc[u] = "wait" => u \in sleeping'
    BY DEF CondWait, CondTimedWaitPanic, Signalled, LockSleepers
  <1>4. sleeping' \subseteq sleeping \cup {t}
    BY DEF CondWait, CondTimedWaitPanic, Signalled
  <1>5. Dozing' = Dozing \cup {t}
    BY <1>1, <1>3, <1>4 DEF Dozing
  <1> QED BY <1>1, <1>2, <1>5 DEF M!BeginWait, WaitingFor, Dozing

LEMMA CondWaitLoopRefines ==
  ASSUME NEW t \in Thread, NEW v \in Var, LockInv, CondWaitLoop(t, v)
  PROVE  M!EndWait(t, v) \/ UNCHANGED M!mvars
  <1> USE DEF LockInv, SlTypeOK
  <1>1. CASE owner[v] = NoThread
    <2>1. /\ pc[t] \in {"wait", "reacquire"} /\ lockVar[t] = v /\ t \notin sleeping
          /\ owner' = [owner EXCEPT ![v] = t]
          /\ pc' = [pc EXCEPT ![t] = "run"]
          /\ lockVar' = [lockVar EXCEPT ![t] = NoVar]
          /\ UNCHANGED <<sleeping, scope>>
      BY <1>1 DEF CondWaitLoop, InCondWait
    <2>2. WaitingFor[t] = v /\ WaitingFor' = [WaitingFor EXCEPT ![t] = NoVar]
      BY <2>1 DEF WaitingFor, InCondWait
    <2>3. t \notin Dozing /\ UNCHANGED Dozing
      BY <2>1 DEF Dozing
    <2> QED BY <1>1, <2>1, <2>2, <2>3 DEF M!EndWait, WaitingFor, Dozing
  <1>2. CASE owner[v] # NoThread
    <2>1. /\ pc[t] \in {"wait", "reacquire"} /\ t \notin sleeping
          /\ pc' = [pc EXCEPT ![t] = "reacquire"]
          /\ sleeping' = sleeping \cup {t}
          /\ UNCHANGED <<owner, scope, lockVar>>
      BY <1>2 DEF CondWaitLoop, InCondWait
    <2>2. UNCHANGED WaitingFor
      BY <2>1 DEF WaitingFor, InCondWait
    <2>3. UNCHANGED Dozing
      BY <2>1 DEF Dozing
    <2> QED BY <2>1, <2>2, <2>3 DEF M!mvars, WaitingFor, Dozing
  <1> QED BY <1>1, <1>2

LEMMA WakeStepRefines ==
  ASSUME LockInv, sleeping' \subseteq sleeping, UNCHANGED <<owner, scope, pc, lockVar>>
  PROVE  \E S \in SUBSET Thread : M!EndSleep(S)
  <1>1. UNCHANGED WaitingFor
    BY DEF WaitingFor, InCondWait
  <1>2. Dozing' \subseteq Dozing /\ Dozing \subseteq Thread
    BY DEF Dozing
  <1>3. PICK S \in SUBSET Thread : Dozing' = Dozing \ S
    BY <1>2
  <1>4. M!EndSleep(S)
    BY <1>1, <1>3 DEF M!EndSleep, WaitingFor, Dozing
  <1> QED BY <1>4

LEMMA LockNextRefines == LockInv /\ [SlNext]_slVars => [M!MonitorNext]_(M!mvars)
  <1> SUFFICES ASSUME LockInv, [SlNext]_slVars
               PROVE  M!MonitorNext \/ UNCHANGED M!mvars
    OBVIOUS
  <1>1. CASE UNCHANGED slVars
    BY <1>1 DEF slVars, M!mvars, InCondWait
  <1>2. ASSUME NEW t \in Thread, NEW v \in Var, LockStep(t, v)
        PROVE  M!MonitorNext \/ UNCHANGED M!mvars
    <2>1. CASE LockAgain(t, v) \/ LockFree(t, v)
      BY <2>1, LockRefines DEF M!MonitorNext
    <2>2. CASE LockBusy(t, v)
      BY <2>2, LockBusyRefines
    <2>3. CASE AcquireLoop(t, v)
      BY <2>3, AcquireLoopRefines DEF M!MonitorNext
    <2>4. CASE Release(t, v)
      BY <2>4, ReleaseRefines DEF M!MonitorNext
    <2>5. CASE CondTimedWaitPanic(t, v)
      <3>1. \A c \in Var : M!BeginWait(t, v)
        BY <2>5, CondWaitRefines
      <3> QED BY <3>1 DEF M!MonitorNext
    <2>6. CASE CondWaitLoop(t, v)
      BY <2>6, CondWaitLoopRefines DEF M!MonitorNext
    <2> QED BY <1>2, <2>1, <2>2, <2>3, <2>4, <2>5, <2>6 DEF LockStep
  <1>3. ASSUME NEW t \in Thread, NEW c \in Var, NEW v \in Var,
               NEW isTimed \in BOOLEAN, CondWait(t, c, v, isTimed)
        PROVE  M!MonitorNext
    BY <1>3, CondWaitRefines DEF M!MonitorNext
  <1>4. ASSUME NEW t \in Thread,
               \/ \E c \in Var : CondSignal(t, c) \/ CondBroadcast(t, c)
               \/ Timeout(t)
               \/ SpuriousWakeup(t)
        PROVE  M!MonitorNext
    <2>1. sleeping' \subseteq sleeping /\ UNCHANGED <<owner, scope, pc, lockVar>>
      BY <1>4, WakeStepOnlyWakes
    <2> QED BY <2>1, WakeStepRefines DEF M!MonitorNext
  <1> QED BY <1>1, <1>2, <1>3, <1>4 DEF SlNext

\* The locks and condition variables of shared.xs implement the re-entrant
\* monitor: mutual exclusion, release by the outermost scope only, and the
\* lock back at its old depth when cond_wait returns.
THEOREM LocksAreMonitors == SlSpec => ImplementsMonitor
  BY LockInitRefines, LockNextRefines, LockInvariance, PTL
     DEF SlSpec, ImplementsMonitor, M!MonitorSpec

-----------------------------------------------------------------------------
(***************************************************************************)
(* The data half, SharedData, for any finite set of threads and any        *)
(* objects.  The counts are inductive together with what keeps them right  *)
(* while a thread copies its proxies: it is alone (CopyingAlone), and it   *)
(* copies only what is there (OnlyMade).                                   *)
(***************************************************************************)
\* The proxies of x, and the threads that are freeing one.
Holders(x) == {t \in User : x \in proxies[t]}
Droppers(x) == {t \in User : dropping[t] = x}

Counted == \A x \in Shared : refcnt[x] = Referrers(x)

Copies == [to : User \cup {NoObject}, todo : SUBSET Shared, sv : Shared \cup {NoObject},
           seen : Nat]

\* Only what was made is referred to, and threads that do not exist refer to nothing.
OnlyMade ==
  /\ copying \in [User -> Copies]
  /\ \A t \in User : proxies[t] \cup copying[t].todo \subseteq made \cup {Scalar}
  /\ \A t \in User \ live :
       proxies[t] = {} /\ dropping[t] = NoObject /\ copying[t] = NoCopy

\* While a thread is created nothing else happens, so what was read of a count is
\* still the count, and the new thread has no proxy yet for what is still to copy.
CopyingAlone ==
  \A t \in User : copying[t] # NoCopy =>
    /\ habit # "busy"
    /\ copying[t].to \in live \ {t} /\ copying[t].todo \cap proxies[copying[t].to] = {}
    /\ copying[t].sv # NoObject =>
         copying[t].sv \in copying[t].todo /\ copying[t].seen = refcnt[copying[t].sv]
    /\ \A u \in User : dropping[u] = NoObject /\ (u # t => copying[u] = NoCopy)

\* Where proxies are freed in turns one is being freed at a time, and the last one of an
\* object has had the destructor called.
DroppedDestroyed ==
  habit = "turns" =>
    /\ FreedAfterDestroy
    /\ \A t \in User : dropping[t] # NoObject =>
         /\ refcnt[dropping[t]] <= 1 => destroyed[dropping[t]] > 0
         /\ \A u \in User : u # t => dropping[u] = NoObject

\* x can still be got at: $s refers to it, or a thread has a proxy for it or is copying one.
Reached(x) == content = x \/ \E u \in User : x \in proxies[u] \cup copying[u].todo

\* An object whose destructor was called is out of reach, so it is called once.
DestroyedIsGone ==
  \A o \in Object : destroyed[o] # 0 => destroyed[o] = 1 /\ o \in made /\ ~Reached(o)

SdInv ==
  habit # "busy" =>
    SdTypeOK /\ OnlyMade /\ Counted /\ CopyingAlone /\ DroppedDestroyed /\ DestroyedIsGone

LEMMA SdConstants ==
  /\ IsFiniteSet(User) /\ MainThread \in User /\ Scalar \notin Object
  /\ NoObject \notin User /\ NoObject \notin Shared /\ Scalar \in Shared /\ Object \subseteq Shared
  BY SdAssumption DEF Shared

\* Numbers of threads: with one more, with one less.
LEMMA Numbers ==
  ASSUME NEW S \in SUBSET User
  PROVE  /\ Cardinality(S) \in Nat
         /\ S # {} => Cardinality(S) >= 1
         /\ \A t \in User : /\ t \notin S => Cardinality(S \cup {t}) = Cardinality(S) + 1
                            /\ t \in S => Cardinality(S \ {t}) = Cardinality(S) - 1
<1>1. IsFiniteSet(S)
  BY SdConstants, FS_Subset
<1>2. Cardinality(S) \in Nat
  BY <1>1, FS_CardinalityType
<1>3. \A t \in User : /\ t \notin S => Cardinality(S \cup {t}) = Cardinality(S) + 1
                      /\ t \in S => Cardinality(S \ {t}) = Cardinality(S) - 1
  BY <1>1, FS_AddElement, FS_RemoveElement
<1>4. ASSUME S # {} PROVE Cardinality(S) >= 1
  <2>1. Cardinality(S) # 0
    BY <1>1, <1>4, FS_EmptySet
  <2>. QED BY <1>2, <2>1
<1>. QED BY <1>2, <1>3, <1>4

LEMMA ReferrersAre ==
  ASSUME NEW x PROVE
  Referrers(x) = Cardinality(Holders(x)) + Cardinality(Droppers(x))
                   + (IF content = x THEN 1 ELSE 0)
  BY DEF Referrers, Holders, Droppers


LEMMA ReferrersBecome ==
  ASSUME NEW x
  PROVE  Referrers(x)' = Cardinality(Holders(x)') + Cardinality(Droppers(x)')
                           + (IF content' = x THEN 1 ELSE 0)
  BY DEF Referrers, Holders, Droppers

SdGood == SdTypeOK /\ OnlyMade /\ Counted /\ CopyingAlone /\ DroppedDestroyed

\* What a count is, in a good state.
LEMMA CountIs ==
  ASSUME SdGood, NEW x \in Shared
  PROVE  /\ refcnt[x] = Cardinality(Holders(x)) + Cardinality(Droppers(x))
                          + (IF content = x THEN 1 ELSE 0)
         /\ Cardinality(Holders(x)) \in Nat /\ Cardinality(Droppers(x)) \in Nat
         /\ Holders(x) # {} => Cardinality(Holders(x)) >= 1
         /\ Droppers(x) # {} => Cardinality(Droppers(x)) >= 1
         /\ refcnt[x] \in Nat
<1>1. Holders(x) \in SUBSET User /\ Droppers(x) \in SUBSET User
  BY DEF Holders, Droppers
<1>. QED BY <1>1, Numbers, ReferrersAre DEF SdGood, Counted, SdTypeOK

\* A thread runs only when none is being created.
LEMMA NobodyCopies ==
  ASSUME SdGood, habit # "busy" => copying = [u \in User |-> NoCopy]
  PROVE  \A u \in User : copying[u] = NoCopy
  BY DEF SdGood, CopyingAlone

\* In a good state where proxies are freed in turns: what is freed has been destroyed.
LEMMA TurnsAre ==
  ASSUME SdGood, habit = "turns"
  PROVE  /\ \A x \in made : refcnt[x] = 0 => destroyed[x] > 0
         /\ \A t \in User : dropping[t] # NoObject =>
              /\ refcnt[dropping[t]] <= 1 => destroyed[dropping[t]] > 0
              /\ \A u \in User : u # t => dropping[u] = NoObject
  BY DEF SdGood, DroppedDestroyed, FreedAfterDestroy

\* There a thread runs only when nobody is freeing a proxy.
LEMMA NobodyDrops ==
  ASSUME habit = "turns", NEW t \in User, Runs(t)
  PROVE  \A u \in User : dropping[u] = NoObject
  BY DEF Runs

\* Steps that free no proxy, and let no count become zero.
LEMMA NothingFreed ==
  ASSUME SdGood, UNCHANGED <<habit, made, dropping, destroyed>>,
         \A u \in User : dropping[u] = NoObject \/ habit # "turns",
         \A x \in made : refcnt'[x] = 0 => refcnt[x] = 0
  PROVE  DroppedDestroyed'
<1>. SUFFICES ASSUME habit = "turns" PROVE DroppedDestroyed'
  BY DEF DroppedDestroyed
<1>1. FreedAfterDestroy'
  BY TurnsAre DEF FreedAfterDestroy
<1>. QED BY <1>1 DEF DroppedDestroyed

\* Steps taken when none is being created.
LEMMA NobodyCopiesStill ==
  ASSUME \A u \in User : copying[u] = NoCopy, copying' = copying PROVE CopyingAlone'
  BY DEF CopyingAlone

LEMMA ShareKeeps ==
  ASSUME SdGood, NEW t \in User, NEW o \in Object, Share(t, o)
  PROVE  SdGood'
<1>1. /\ o \notin made /\ made' = made \cup {o} /\ refcnt' = [refcnt EXCEPT ![o] = 1]
      /\ proxies' = [proxies EXCEPT ![t] = @ \cup {o}] /\ t \in live
      /\ UNCHANGED <<habit, live, content, dropping, destroyed, copying>>
      /\ \A u \in User : copying[u] = NoCopy
      /\ Runs(t)
  BY NobodyCopies DEF Share, Runs
<1>2. o \in Shared /\ o # Scalar /\ o # NoObject
  BY SdConstants
<1>3. SdTypeOK' /\ OnlyMade'
  BY <1>1, <1>2 DEF SdGood, SdTypeOK, OnlyMade
<1>4. \A x \in Shared : refcnt'[x] = IF x = o THEN 1 ELSE refcnt[x]
  BY <1>1 DEF SdGood, SdTypeOK
<1>5. Counted'
  <2>. SUFFICES ASSUME NEW x \in Shared PROVE refcnt'[x] = Referrers(x)'
    BY DEF Counted
  <2>0. proxies \in [User -> SUBSET Shared]
    BY DEF SdGood, SdTypeOK
  <2>1. Droppers(x)' = Droppers(x) /\ content' = content
    BY <1>1 DEF Droppers
  <2>2. CASE x # o
    <3>1. Holders(x)' = Holders(x)
      BY <1>1, <2>0, <2>2 DEF Holders
    <3>. QED BY <1>4, <2>1, <2>2, <3>1, CountIs, ReferrersBecome
  <2>3. CASE x = o
    <3>1. Holders(o) = {} /\ Droppers(o) = {} /\ content # o
      BY <1>1, <1>2 DEF SdGood, SdTypeOK, OnlyMade, Holders, Droppers
    <3>2. Holders(o)' = {} \cup {t}
      BY <1>1, <2>0, <3>1 DEF Holders
    <3>3. Cardinality({} \cup {t}) = Cardinality({}) + 1 /\ Cardinality({}) = 0
      BY Numbers, FS_EmptySet
    <3>. QED BY <1>1, <1>4, <2>1, <2>3, <3>1, <3>2, <3>3, ReferrersBecome
  <2>. QED BY <2>2, <2>3
<1>6. CopyingAlone'
  BY <1>1, NobodyCopiesStill
<1>7. DroppedDestroyed'
  <2>. SUFFICES ASSUME habit = "turns" PROVE DroppedDestroyed'
    BY <1>1 DEF DroppedDestroyed
  <2>1. \A u \in User : dropping'[u] = NoObject
    BY <1>1, NobodyDrops
  <2>2. \A x \in made : x \in Shared
    BY SdConstants DEF SdGood, SdTypeOK
  <2>3. FreedAfterDestroy'
    BY <1>1, <1>2, <1>4, <2>2, TurnsAre DEF FreedAfterDestroy
  <2>. QED BY <2>1, <2>3 DEF DroppedDestroyed
<1>. QED BY <1>3, <1>5, <1>6, <1>7 DEF SdGood

LEMMA FetchRefKeeps ==
  ASSUME SdGood, NEW t \in User, FetchRef(t)
  PROVE  SdGood'
<1>1. /\ content # NoObject /\ content \notin proxies[t]
      /\ proxies' = [proxies EXCEPT ![t] = @ \cup {content}]
      /\ refcnt' = [refcnt EXCEPT ![content] = @ + 1] /\ t \in live /\ dropping[t] = NoObject
      /\ UNCHANGED <<habit, live, made, content, dropping, destroyed, copying>>
      /\ \A u \in User : copying[u] = NoCopy
      /\ Runs(t)
  BY NobodyCopies DEF FetchRef, Runs
<1>2. /\ content \in Shared /\ content \in made /\ proxies \in [User -> SUBSET Shared]
      /\ refcnt \in [Shared -> Nat]
  BY <1>1, SdConstants DEF SdGood, SdTypeOK
<1>3. SdTypeOK' /\ OnlyMade'
  BY <1>1, <1>2 DEF SdGood, SdTypeOK, OnlyMade
<1>4. \A x \in Shared : refcnt'[x] = IF x = content THEN refcnt[x] + 1 ELSE refcnt[x]
  BY <1>1, <1>2
<1>5. Counted'
  <2>. SUFFICES ASSUME NEW x \in Shared PROVE refcnt'[x] = Referrers(x)'
    BY DEF Counted
  <2>1. Droppers(x)' = Droppers(x) /\ content' = content
    BY <1>1 DEF Droppers
  <2>2. CASE x # content
    <3>1. Holders(x)' = Holders(x)
      BY <1>1, <1>2, <2>2 DEF Holders
    <3>. QED BY <1>4, <2>1, <2>2, <3>1, CountIs, ReferrersBecome
  <2>3. CASE x = content
    <3>1. Holders(x)' = Holders(x) \cup {t} /\ t \notin Holders(x) /\ Holders(x) \in SUBSET User
      BY <1>1, <1>2, <2>3 DEF Holders
    <3>2. Cardinality(Holders(x)') = Cardinality(Holders(x)) + 1
      BY <3>1, Numbers
    <3>. QED BY <1>4, <2>1, <2>3, <3>2, CountIs, ReferrersBecome
  <2>. QED BY <2>2, <2>3
<1>6. CopyingAlone'
  BY <1>1, NobodyCopiesStill
<1>7. DroppedDestroyed'
  <2>1. \A x \in made : refcnt'[x] = 0 => refcnt[x] = 0
    <3>1. \A x \in made : x \in Shared
      BY SdConstants DEF SdGood, SdTypeOK
    <3>. QED BY <1>2, <1>4, <3>1
  <2>. QED BY <1>1, <2>1, NobodyDrops, NothingFreed
<1>. QED BY <1>3, <1>5, <1>6, <1>7 DEF SdGood

LEMMA StoreRefKeeps ==
  ASSUME SdGood, NEW t \in User, NEW new \in Object \cup {NoObject}, StoreRef(t, new)
  PROVE  SdGood'
<1>0. PICK old : old = content
  OBVIOUS
<1>1. /\ new = NoObject \/ new \in proxies[t] \cap Object
      /\ t \in live /\ dropping[t] = NoObject
      /\ UNCHANGED <<habit, live, made, dropping, destroyed, copying>>
      /\ \A u \in User : copying[u] = NoCopy
      /\ Refer(t, new)
      /\ Runs(t)
  BY NobodyCopies DEF StoreRef, Runs
<1>2. /\ proxies \in [User -> SUBSET Shared] /\ refcnt \in [Shared -> Nat]
      /\ old \in made \cup {NoObject} /\ made \subseteq Object
      /\ \A x \in made : x \in Shared /\ x # NoObject
  BY <1>0, SdConstants DEF SdGood, SdTypeOK
<1>3. new \in made \cup {NoObject}
  <2>1. new # NoObject => new \in proxies[t] /\ new # Scalar
    BY <1>1, SdConstants
  <2>. QED BY <1>1, <2>1 DEF SdGood, OnlyMade
<1>4. CopyingAlone'
  BY <1>1, NobodyCopiesStill
<1>5. CASE new = old
  <2>1. UNCHANGED <<content, refcnt, proxies>>
    BY <1>0, <1>1, <1>5 DEF Refer
  <2>2. SdTypeOK' /\ OnlyMade'
    BY <1>1, <2>1 DEF SdGood, SdTypeOK, OnlyMade
  <2>3. Counted'
    BY <1>1, <2>1 DEF SdGood, Counted, Referrers
  <2>4. DroppedDestroyed'
    BY <1>1, <2>1 DEF SdGood, DroppedDestroyed, FreedAfterDestroy
  <2>. QED BY <1>4, <2>2, <2>3, <2>4 DEF SdGood
<1>6. CASE new # old
  <2>0. PICK last \in BOOLEAN : last <=> old # NoObject /\ refcnt[old] = 1
    OBVIOUS
  <2>1. /\ content' = new
        /\ refcnt' = [x \in Shared |-> IF x = new THEN refcnt[x] + 1
                                       ELSE IF x = old /\ ~last THEN refcnt[x] - 1
                                       ELSE refcnt[x]]
        /\ proxies' = [proxies EXCEPT ![t] = IF last THEN @ \cup {old} ELSE @]
    BY <1>0, <1>1, <1>6, <2>0 DEF Refer
  <2>2. ASSUME NEW x \in Shared
        PROVE  /\ refcnt'[x] = Referrers(x)' /\ refcnt'[x] \in Nat
               /\ refcnt'[x] = 0 => refcnt[x] = 0
    <3>1. Droppers(x)' = Droppers(x)
      BY <1>1 DEF Droppers
    <3>2. CASE x # old
      <4>1. Holders(x)' = Holders(x)
        BY <1>2, <2>1, <3>2 DEF Holders
      <4>2. content # x
        BY <1>0, <3>2
      <4>3. refcnt'[x] = IF x = new THEN refcnt[x] + 1 ELSE refcnt[x]
        BY <2>1, <3>2
      <4>. QED BY <2>1, <3>1, <4>1, <4>2, <4>3, CountIs, ReferrersBecome
    <3>3. CASE x = old /\ ~last
      <4>1. Holders(x)' = Holders(x)
        BY <1>2, <2>1, <3>3 DEF Holders
      <4>2. refcnt'[x] = refcnt[x] - 1 /\ refcnt[x] # 1 /\ content = x /\ content' # x
        BY <1>0, <1>2, <1>6, <2>0, <2>1, <3>3, SdConstants
      <4>. QED BY <3>1, <4>1, <4>2, CountIs, ReferrersBecome
    <3>4. CASE x = old /\ last
      <4>1. refcnt'[x] = refcnt[x] /\ refcnt[x] = 1 /\ content = x /\ content' # x
        BY <1>0, <1>6, <2>0, <2>1, <3>4
      <4>2. Holders(x) = {}
        BY <4>1, CountIs
      <4>3. Holders(x)' = Holders(x) \cup {t} /\ t \notin Holders(x) /\ Holders(x) \in SUBSET User
        BY <1>2, <2>1, <3>4, <4>2 DEF Holders
      <4>4. Cardinality(Holders(x)') = Cardinality(Holders(x)) + 1
        BY <4>3, Numbers
      <4>. QED BY <3>1, <4>1, <4>4, CountIs, ReferrersBecome
    <3>. QED BY <3>2, <3>3, <3>4
  <2>3. Counted'
    BY <2>2 DEF Counted
  <2>4. SdTypeOK' /\ OnlyMade'
    <3>1. refcnt' \in [Shared -> Nat]
      BY <2>1, <2>2
    <3>2. last => old \in made
      BY <1>2, <2>0
    <3>3. proxies' \in [User -> SUBSET Shared]
      BY <1>2, <2>1, <3>2
    <3>4. \A u \in User : proxies'[u] \subseteq proxies[u] \cup made
      BY <1>2, <2>1, <3>2
    <3>5. \A u \in User \ live : proxies'[u] = proxies[u]
      BY <1>1, <1>2, <2>1
    <3>6. SdTypeOK'
      BY <1>1, <1>3, <2>1, <3>1, <3>3 DEF SdGood, SdTypeOK
    <3>7. OnlyMade'
      BY <1>1, <3>4, <3>5 DEF SdGood, OnlyMade
    <3>. QED BY <3>6, <3>7
  <2>5. DroppedDestroyed'
    BY <1>1, <1>2, <2>2, NobodyDrops, NothingFreed
  <2>. QED BY <1>4, <2>3, <2>4, <2>5 DEF SdGood
<1>. QED BY <1>5, <1>6

LEMMA CurseKeeps ==
  ASSUME SdGood, NEW t \in User, NEW o \in Object, Curse(t, o)
  PROVE  SdGood'
<1>1. /\ o \in proxies[t] /\ t \in live /\ dropping[t] = NoObject
      /\ proxies' = [proxies EXCEPT ![t] = @ \ {o}]
      /\ dropping' = [dropping EXCEPT ![t] = o]
      /\ destroyed' = [destroyed EXCEPT ![o] = IF refcnt[o] <= 1 THEN @ + 1 ELSE @]
      /\ UNCHANGED <<habit, live, refcnt, made, content, copying>>
      /\ \A u \in User : copying[u] = NoCopy
      /\ Runs(t)
  BY NobodyCopies DEF Curse, Runs
<1>2. /\ o \in Shared /\ o \in made /\ o # NoObject
      /\ proxies \in [User -> SUBSET Shared] /\ refcnt \in [Shared -> Nat]
      /\ dropping \in [User -> made \cup {NoObject}]
  BY <1>1, SdConstants DEF SdGood, SdTypeOK, OnlyMade
<1>0. /\ destroyed' \in [Object -> Nat]
      /\ \A x \in Object : destroyed'[x] >= destroyed[x] /\ destroyed[x] \in Nat
      /\ refcnt[o] <= 1 => destroyed'[o] > 0
  <2>1. destroyed \in [Object -> Nat]
    BY DEF SdGood, SdTypeOK
  <2>. QED BY <1>1, <2>1
<1>3. SdTypeOK' /\ OnlyMade'
  BY <1>0, <1>1, <1>2 DEF SdGood, SdTypeOK, OnlyMade
<1>4. Counted'
  <2>. SUFFICES ASSUME NEW x \in Shared PROVE refcnt'[x] = Referrers(x)'
    BY DEF Counted
  <2>1. content' = content /\ refcnt'[x] = refcnt[x]
    BY <1>1
  <2>2. CASE x # o
    <3>0. x \in Shared /\ NoObject \notin Shared
      BY SdConstants
    <3>1. Holders(x)' = Holders(x) /\ Droppers(x)' = Droppers(x)
      BY <1>1, <1>2, <2>2, <3>0 DEF Holders, Droppers
    <3>. QED BY <2>1, <2>2, <3>1, CountIs, ReferrersBecome
  <2>3. CASE x = o
    <3>1. /\ Holders(x)' = Holders(x) \ {t} /\ t \in Holders(x) /\ Holders(x) \in SUBSET User
          /\ Droppers(x)' = Droppers(x) \cup {t} /\ t \notin Droppers(x)
          /\ Droppers(x) \in SUBSET User
      BY <1>1, <1>2, <2>3 DEF Holders, Droppers
    <3>2. /\ Cardinality(Holders(x)') = Cardinality(Holders(x)) - 1
          /\ Cardinality(Droppers(x)') = Cardinality(Droppers(x)) + 1
      BY <3>1, Numbers
    <3>. QED BY <2>1, <2>3, <3>2, CountIs, ReferrersBecome
  <2>. QED BY <2>2, <2>3
<1>5. CopyingAlone'
  BY <1>1, NobodyCopiesStill
<1>6. DroppedDestroyed'
  <2>. SUFFICES ASSUME habit = "turns" PROVE DroppedDestroyed'
    BY <1>1 DEF DroppedDestroyed
  <2>1. \A u \in User : dropping'[u] = IF u = t THEN o ELSE NoObject
    BY <1>1, <1>2, NobodyDrops
  <2>2. FreedAfterDestroy'
    <3>1. \A x \in made : x \in Object
      BY DEF SdGood, SdTypeOK
    <3>. QED BY <1>0, <1>1, <3>1, TurnsAre DEF FreedAfterDestroy
  <2>. QED BY <1>0, <1>1, <2>1, <2>2, TurnsAre DEF DroppedDestroyed
<1>. QED BY <1>3, <1>4, <1>5, <1>6 DEF SdGood


LEMMA FreeProxyKeeps ==
  ASSUME SdGood, NEW t \in User, FreeProxy(t)
  PROVE  SdGood'
<1>0. PICK o : o = dropping[t]
  OBVIOUS
<1>1. /\ o # NoObject /\ refcnt' = [refcnt EXCEPT ![o] = @ - 1]
      /\ dropping' = [dropping EXCEPT ![t] = NoObject]
      /\ UNCHANGED <<habit, live, made, proxies, content, destroyed, copying>>
      /\ \A u \in User : copying[u] = NoCopy
  BY <1>0, NobodyCopies DEF FreeProxy
<1>2. /\ o \in Shared /\ o \in made /\ refcnt \in [Shared -> Nat] /\ t \in Droppers(o)
      /\ dropping \in [User -> made \cup {NoObject}]
      /\ \A x \in made : x \in Shared /\ x # NoObject
  BY <1>0, <1>1, SdConstants DEF SdGood, SdTypeOK, Droppers
<1>3. \A x \in Shared : refcnt'[x] = IF x = o THEN refcnt[x] - 1 ELSE refcnt[x]
  BY <1>1, <1>2
<1>4. ASSUME NEW x \in Shared PROVE refcnt'[x] = Referrers(x)' /\ refcnt'[x] \in Nat
  <2>1. Holders(x)' = Holders(x) /\ content' = content /\ x # NoObject
    BY <1>1, SdConstants DEF Holders
  <2>2. CASE x # o
    <3>1. Droppers(x)' = Droppers(x)
      BY <1>0, <1>1, <1>2, <2>1, <2>2 DEF Droppers
    <3>. QED BY <1>3, <2>1, <2>2, <3>1, CountIs, ReferrersBecome
  <2>3. CASE x = o
    <3>1. /\ Droppers(x)' = Droppers(x) \ {t} /\ t \in Droppers(x) /\ Droppers(x) \in SUBSET User
      BY <1>1, <1>2, <2>1, <2>3 DEF Droppers
    <3>2. Cardinality(Droppers(x)') = Cardinality(Droppers(x)) - 1
      BY <3>1, Numbers
    <3>3. refcnt'[x] = refcnt[x] - 1 /\ Droppers(x) # {}
      BY <1>3, <2>3, <3>1
    <3>. QED BY <2>1, <3>2, <3>3, CountIs, ReferrersBecome
  <2>. QED BY <2>2, <2>3
<1>5. SdTypeOK' /\ OnlyMade'
  <2>1. refcnt' \in [Shared -> Nat]
    BY <1>1, <1>2, <1>4
  <2>. QED BY <1>1, <1>2, <2>1 DEF SdGood, SdTypeOK, OnlyMade
<1>6. CopyingAlone'
  BY <1>1, NobodyCopiesStill
<1>7. DroppedDestroyed'
  <2>. SUFFICES ASSUME habit = "turns" PROVE DroppedDestroyed'
    BY <1>1 DEF DroppedDestroyed
  <2>1. \A u \in User : dropping'[u] = NoObject
    <3>1. \A u \in User : u # t => dropping[u] = NoObject
      BY <1>0, <1>1, TurnsAre
    <3>. QED BY <1>0, <1>1, <1>2, <3>1
  <2>2. FreedAfterDestroy'
    <3>1. refcnt[o] <= 1 => destroyed[o] > 0
      BY <1>0, <1>1, TurnsAre
    <3>2. refcnt'[o] = 0 => refcnt[o] <= 1
      BY <1>2, <1>3
    <3>3. \A x \in made : x # o => refcnt'[x] = refcnt[x]
      BY <1>2, <1>3
    <3>. QED BY <1>1, <3>1, <3>2, <3>3, TurnsAre DEF FreedAfterDestroy
  <2>. QED BY <1>1, <2>1, <2>2, TurnsAre DEF DroppedDestroyed
<1>. QED BY <1>4, <1>5, <1>6, <1>7 DEF SdGood, Counted

LEMMA FreeScalarKeeps ==
  ASSUME SdGood, NEW t \in User, FreeScalar(t)
  PROVE  SdGood'
<1>a. PICK old : old = content
  OBVIOUS
<1>b. PICK gone \in BOOLEAN : gone <=> refcnt[Scalar] = 1
  OBVIOUS
<1>c. PICK last \in BOOLEAN : last <=> old # NoObject /\ refcnt[old] = 1
  OBVIOUS
<1>0. /\ old = content /\ (gone <=> refcnt[Scalar] = 1)
      /\ (last <=> old # NoObject /\ refcnt[old] = 1)
  BY <1>a, <1>b, <1>c
<1>1. /\ t \in live /\ dropping[t] = NoObject /\ Scalar \in proxies[t]
      /\ content' = IF gone THEN NoObject ELSE old
      /\ refcnt' = [x \in Shared |->
                    IF x = Scalar THEN refcnt[x] - 1
                    ELSE IF x # old THEN refcnt[x]
                    ELSE refcnt[x] + (IF last THEN 1 ELSE 0) - (IF gone THEN 1 ELSE 0)]
      /\ proxies' = [proxies EXCEPT ![t] = (@ \ {Scalar}) \cup (IF last THEN {old} ELSE {})]
      /\ UNCHANGED <<habit, live, made, dropping, destroyed, copying>>
      /\ \A u \in User : copying[u] = NoCopy
      /\ Runs(t)
  BY <1>0, NobodyCopies DEF FreeScalar, Runs
<1>2. /\ proxies \in [User -> SUBSET Shared] /\ refcnt \in [Shared -> Nat]
      /\ old \in made \cup {NoObject} /\ made \subseteq Object
      /\ \A x \in made : x \in Shared /\ x # NoObject /\ x # Scalar
      /\ old # Scalar
  BY <1>0, SdConstants DEF SdGood, SdTypeOK
<1>3. ASSUME NEW x \in Shared
      PROVE  /\ refcnt'[x] = Referrers(x)' /\ refcnt'[x] \in Nat
             /\ x # Scalar /\ refcnt'[x] = 0 => refcnt[x] = 0
  <2>0. Droppers(x)' = Droppers(x) /\ x # NoObject
    BY <1>1, SdConstants DEF Droppers
  <2>1. CASE x = Scalar
    <3>1. Holders(x)' = Holders(x) \ {t} /\ t \in Holders(x) /\ Holders(x) \in SUBSET User
      BY <1>1, <1>2, <2>1 DEF Holders
    <3>2. Cardinality(Holders(x)') = Cardinality(Holders(x)) - 1
      BY <3>1, Numbers
    <3>3. refcnt'[x] = refcnt[x] - 1 /\ content # x /\ content' # x /\ Holders(x) # {}
      BY <1>0, <1>1, <1>2, <2>0, <2>1, <3>1
    <3>. QED BY <2>0, <2>1, <3>2, <3>3, CountIs, ReferrersBecome
  <2>2. CASE x # Scalar /\ x # old
    <3>1. Holders(x)' = Holders(x)
      BY <1>1, <1>2, <2>2 DEF Holders
    <3>2. refcnt'[x] = refcnt[x] /\ content # x /\ content' # x
      BY <1>0, <1>1, <2>0, <2>2
    <3>. QED BY <2>0, <3>1, <3>2, CountIs, ReferrersBecome
  <2>3. CASE x = old /\ ~last
    <3>1. Holders(x)' = Holders(x)
      BY <1>1, <1>2, <2>3 DEF Holders
    <3>2. /\ refcnt'[x] = refcnt[x] - (IF gone THEN 1 ELSE 0) /\ refcnt[x] # 1 /\ content = x
          /\ content' = (IF gone THEN NoObject ELSE x)
      <4>1. refcnt'[x] = refcnt[x] + 0 - (IF gone THEN 1 ELSE 0)
        BY <1>1, <1>2, <2>3
      <4>2. refcnt[x] \in Nat
        BY <1>2
      <4>3. refcnt[x] # 1 /\ content = x /\ content' = (IF gone THEN NoObject ELSE x)
        BY <1>0, <1>1, <2>0, <2>3
      <4>. QED BY <4>1, <4>2, <4>3
    <3>. QED BY <2>0, <3>1, <3>2, CountIs, ReferrersBecome
  <2>4. CASE x = old /\ last
    <3>2. /\ refcnt'[x] = 2 - (IF gone THEN 1 ELSE 0) /\ refcnt[x] = 1 /\ content = x
          /\ content' = (IF gone THEN NoObject ELSE x)
      BY <1>0, <1>1, <1>2, <2>0, <2>4
    <3>3. Holders(x) = {}
      BY <3>2, CountIs
    <3>4. Holders(x)' = Holders(x) \cup {t} /\ t \notin Holders(x) /\ Holders(x) \in SUBSET User
      BY <1>1, <1>2, <2>4, <3>3 DEF Holders
    <3>5. Cardinality(Holders(x)') = Cardinality(Holders(x)) + 1
      BY <3>4, Numbers
    <3>. QED BY <2>0, <3>2, <3>5, CountIs, ReferrersBecome
  <2>. QED BY <2>1, <2>2, <2>3, <2>4
<1>4. SdTypeOK' /\ OnlyMade'
  <2>1. refcnt' \in [Shared -> Nat]
    BY <1>1, <1>3
  <2>2. last => old \in made
    BY <1>0, <1>2
  <2>3. proxies' \in [User -> SUBSET Shared] /\ content' \in made \cup {NoObject}
    BY <1>1, <1>2, <2>2
  <2>4. \A u \in User : proxies'[u] \subseteq proxies[u] \cup made
    BY <1>1, <1>2, <2>2
  <2>5. \A u \in User \ live : proxies'[u] = proxies[u]
    BY <1>1, <1>2
  <2>6. SdTypeOK'
    BY <1>1, <2>1, <2>3 DEF SdGood, SdTypeOK
  <2>7. OnlyMade'
    BY <1>1, <2>4, <2>5 DEF SdGood, OnlyMade
  <2>. QED BY <2>6, <2>7
<1>5. CopyingAlone'
  BY <1>1, NobodyCopiesStill
<1>6. DroppedDestroyed'
  BY <1>1, <1>2, <1>3, NobodyDrops, NothingFreed
<1>. QED BY <1>3, <1>4, <1>5, <1>6 DEF SdGood, Counted

\* The thread that copies is the only one that does anything.
LEMMA OneCopies ==
  ASSUME SdGood, NEW t \in User, copying[t] # NoCopy
  PROVE  /\ habit # "busy" /\ copying[t] \in Copies
         /\ copying[t].to \in live \ {t} /\ copying[t].to \in User
         /\ copying[t].todo \cap proxies[copying[t].to] = {}
         /\ copying[t].sv # NoObject =>
              copying[t].sv \in copying[t].todo /\ copying[t].seen = refcnt[copying[t].sv]
         /\ \A u \in User : dropping[u] = NoObject /\ (u # t => copying[u] = NoCopy)
  BY DEF SdGood, CopyingAlone, OnlyMade, SdTypeOK

LEMMA CloneBeginKeeps ==
  ASSUME SdGood, habit # "busy", NEW t \in User, NEW u \in User, CloneBegin(t, u)
  PROVE  SdGood'
<1>0. PICK c : c = [NoCopy EXCEPT !.to = u, !.todo = proxies[t]]
  OBVIOUS
<1>1. /\ t \in live /\ u \notin live /\ habit # "busy"
      /\ \A v \in User : dropping[v] = NoObject /\ copying[v] = NoCopy
      /\ copying' = [copying EXCEPT ![t] = c] /\ live' = live \cup {u}
      /\ UNCHANGED <<habit, refcnt, made, proxies, content, dropping, destroyed>>
  <2>2. \A v \in User : copying[v] = NoCopy
    BY NobodyCopies DEF CloneBegin, Runs
  <2>3. t \in live /\ u \notin live /\ \A v \in User : dropping[v] = NoObject
    BY DEF CloneBegin, Runs
  <2>4. /\ copying' = [copying EXCEPT ![t] = c] /\ live' = live \cup {u}
        /\ UNCHANGED <<habit, refcnt, made, proxies, content, dropping, destroyed>>
    BY <1>0 DEF CloneBegin
  <2>. QED BY <2>2, <2>3, <2>4
<1>2. /\ proxies \in [User -> SUBSET Shared] /\ copying \in [User -> Copies]
      /\ proxies[t] \subseteq made \cup {Scalar} /\ proxies[u] = {}
  BY <1>1 DEF SdGood, SdTypeOK, OnlyMade
<1>3. c \in Copies /\ c.to = u /\ c.todo = proxies[t] /\ c.sv = NoObject
  BY <1>0, <1>2 DEF NoCopy, Copies
<1>4. \A v \in User : copying'[v] = IF v = t THEN c ELSE NoCopy
  BY <1>1, <1>2
<1>5. SdTypeOK'
  BY <1>1, <1>3, <1>4, SdConstants DEF SdGood, SdTypeOK, NoCopy
<1>6. OnlyMade'
  <2>1. copying' \in [User -> Copies]
    BY <1>1, <1>2, <1>3
  <2>2. \A v \in User : proxies[v] \cup copying'[v].todo \subseteq made \cup {Scalar}
    BY <1>2, <1>3, <1>4 DEF SdGood, OnlyMade, NoCopy
  <2>3. \A v \in User \ live' : v \in User \ live /\ v # t
    BY <1>1
  <2>. QED BY <1>1, <1>4, <2>1, <2>2, <2>3 DEF SdGood, OnlyMade
<1>7. CopyingAlone'
  BY <1>1, <1>2, <1>3, <1>4 DEF CopyingAlone
<1>8. Counted' /\ DroppedDestroyed'
  <2>1. Counted'
    BY <1>1 DEF SdGood, Counted, Referrers
  <2>. QED BY <1>1, <2>1, NothingFreed
<1>. QED BY <1>5, <1>6, <1>7, <1>8 DEF SdGood

LEMMA CloneReadKeeps ==
  ASSUME SdGood, NEW t \in User, NEW x \in Shared, CloneRead(t, x)
  PROVE  SdGood'
<1>0. copying[t] # NoCopy
  BY DEF CloneRead, NoCopy
<1>1. PICK c \in Copies : /\ c = [copying[t] EXCEPT !.sv = x, !.seen = refcnt[x]]
                          /\ c.to = copying[t].to /\ c.todo = copying[t].todo /\ c.sv = x
                          /\ c.seen = refcnt[x]
  <2>1. refcnt[x] \in Nat /\ copying[t] \in Copies
    BY DEF SdGood, SdTypeOK, OnlyMade
  <2>2. ASSUME NEW h \in Copies, NEW n \in Nat
        PROVE  LET d == [h EXCEPT !.sv = x, !.seen = n]
               IN  d \in Copies /\ d.to = h.to /\ d.todo = h.todo /\ d.sv = x /\ d.seen = n
    BY DEF Copies
  <2>. QED BY <2>1, <2>2
<1>2. /\ copying' = [copying EXCEPT ![t] = c] /\ x \in copying[t].todo
      /\ UNCHANGED <<habit, live, refcnt, made, proxies, content, dropping, destroyed>>
      /\ copying \in [User -> Copies]
  BY <1>1 DEF CloneRead, SdGood, OnlyMade
<1>3. \A v \in User : copying'[v] = IF v = t THEN c ELSE copying[v]
  BY <1>2
<1>4. SdTypeOK'
  BY <1>1, <1>2, <1>3 DEF SdGood, SdTypeOK
<1>5. OnlyMade'
  <2>1. t \in live
    BY <1>0 DEF SdGood, OnlyMade
  <2>. QED BY <1>1, <1>2, <1>3, <2>1 DEF SdGood, OnlyMade
<1>6. CopyingAlone'
  BY <1>0, <1>1, <1>2, <1>3, OneCopies DEF CopyingAlone
<1>7. Counted' /\ DroppedDestroyed'
  <2>1. Counted'
    BY <1>2 DEF SdGood, Counted, Referrers
  <2>. QED BY <1>0, <1>2, <2>1, OneCopies, NothingFreed
<1>. QED BY <1>4, <1>5, <1>6, <1>7 DEF SdGood

LEMMA CloneWriteKeeps ==
  ASSUME SdGood, NEW t \in User, CloneWrite(t)
  PROVE  SdGood'
<1>0. copying[t] # NoCopy
  BY DEF CloneWrite, NoCopy
<1>1. PICK u \in User, x \in Shared :
         /\ u = copying[t].to /\ u \in live \ {t} /\ x = copying[t].sv /\ x \in copying[t].todo
         /\ x \notin proxies[u] /\ copying[t].seen = refcnt[x]
         /\ copying[t].todo \cap proxies[u] = {}
  BY <1>0, OneCopies DEF CloneWrite, Copies
<1>2. PICK c \in Copies : /\ c = [copying[t] EXCEPT !.sv = NoObject, !.todo = @ \ {x}]
                          /\ c.to = u /\ c.todo = copying[t].todo \ {x} /\ c.sv = NoObject
  <2>1. copying[t] \in Copies
    BY <1>0, OneCopies
  <2>2. ASSUME NEW h \in Copies
        PROVE  LET d == [h EXCEPT !.sv = NoObject, !.todo = @ \ {x}]
               IN  d \in Copies /\ d.to = h.to /\ d.todo = h.todo \ {x} /\ d.sv = NoObject
    BY DEF Copies
  <2>. QED BY <1>1, <2>1, <2>2
<1>3. /\ refcnt' = [refcnt EXCEPT ![x] = refcnt[x] + 1]
      /\ proxies' = [proxies EXCEPT ![u] = @ \cup {x}]
      /\ copying' = [copying EXCEPT ![t] = c]
      /\ UNCHANGED <<habit, live, made, content, dropping, destroyed>>
  BY <1>1, <1>2 DEF CloneWrite
<1>4. /\ proxies \in [User -> SUBSET Shared] /\ refcnt \in [Shared -> Nat]
      /\ copying \in [User -> Copies] /\ copying[t].todo \subseteq made \cup {Scalar}
  BY DEF SdGood, SdTypeOK, OnlyMade
<1>5. /\ \A v \in User : copying'[v] = IF v = t THEN c ELSE copying[v]
      /\ \A v \in User : proxies'[v] = IF v = u THEN proxies[v] \cup {x} ELSE proxies[v]
      /\ \A y \in Shared : refcnt'[y] = IF y = x THEN refcnt[y] + 1 ELSE refcnt[y]
  BY <1>3, <1>4
<1>6. SdTypeOK'
  <2>1. refcnt' \in [Shared -> Nat] /\ proxies' \in [User -> SUBSET Shared]
    BY <1>3, <1>4
  <2>. QED BY <1>1, <1>2, <1>3, <1>5, <2>1 DEF SdGood, SdTypeOK
<1>7. OnlyMade'
  <2>1. t \in live
    BY <1>0 DEF SdGood, OnlyMade
  <2>2. copying' \in [User -> Copies]
    BY <1>3, <1>4
  <2>3. \A v \in User : proxies'[v] \cup copying'[v].todo \subseteq made \cup {Scalar}
    <3>. SUFFICES ASSUME NEW v \in User
                  PROVE  proxies'[v] \cup copying'[v].todo \subseteq made \cup {Scalar}
      OBVIOUS
    <3>1. proxies[v] \cup copying[v].todo \subseteq made \cup {Scalar}
      BY DEF SdGood, OnlyMade
    <3>2. x \in made \cup {Scalar}
      BY <1>1, <1>4
    <3>3. proxies'[v] \subseteq proxies[v] \cup {x}
      BY <1>5
    <3>4. copying'[v].todo \subseteq copying[v].todo
      BY <1>2, <1>5
    <3>. QED BY <3>1, <3>2, <3>3, <3>4
  <2>4. \A v \in User \ live : v # t /\ v # u
    BY <1>1, <2>1
  <2>. QED BY <1>3, <1>5, <2>2, <2>3, <2>4 DEF SdGood, OnlyMade
<1>8. CopyingAlone'
  <2>1. \A v \in User : dropping[v] = NoObject /\ (v # t => copying'[v] = NoCopy)
    BY <1>0, <1>5, OneCopies
  <2>2. c.todo \cap proxies'[u] = {}
    BY <1>1, <1>2, <1>5
  <2>3. habit # "busy"
    BY <1>0, OneCopies
  <2>4. copying'[t] = c
    BY <1>5
  <2>. SUFFICES ASSUME NEW v \in User, copying'[v] # NoCopy
                PROVE  /\ habit # "busy" /\ copying'[v].to \in live \ {v}
                       /\ copying'[v].todo \cap proxies'[copying'[v].to] = {}
                       /\ copying'[v].sv = NoObject
                       /\ \A w \in User : dropping[w] = NoObject /\ (w # v => copying'[w] = NoCopy)
    BY <1>3 DEF CopyingAlone
  <2>5. v = t
    BY <2>1
  <2>. QED BY <1>1, <1>2, <2>1, <2>2, <2>3, <2>4, <2>5
<1>9. Counted'
  <2>. SUFFICES ASSUME NEW y \in Shared PROVE refcnt'[y] = Referrers(y)'
    BY DEF Counted
  <2>1. Droppers(y)' = Droppers(y) /\ content' = content
    BY <1>3 DEF Droppers
  <2>2. CASE y # x
    <3>1. Holders(y)' = Holders(y)
      BY <1>5, <2>2 DEF Holders
    <3>. QED BY <1>5, <2>1, <2>2, <3>1, CountIs, ReferrersBecome
  <2>3. CASE y = x
    <3>1. Holders(y)' = Holders(y) \cup {u} /\ u \notin Holders(y) /\ Holders(y) \in SUBSET User
      BY <1>1, <1>5, <2>3 DEF Holders
    <3>2. Cardinality(Holders(y)') = Cardinality(Holders(y)) + 1
      BY <3>1, Numbers
    <3>. QED BY <1>5, <2>1, <2>3, <3>2, CountIs, ReferrersBecome
  <2>. QED BY <2>2, <2>3
<1>10. DroppedDestroyed'
  <2>1. \A y \in made : refcnt'[y] = 0 => refcnt[y] = 0
    <3>1. \A y \in made : y \in Shared
      BY SdConstants DEF SdGood, SdTypeOK
    <3>. QED BY <1>4, <1>5, <3>1
  <2>. QED BY <1>0, <1>3, <2>1, OneCopies, NothingFreed
<1>. QED BY <1>6, <1>7, <1>8, <1>9, <1>10 DEF SdGood

LEMMA CloneEndKeeps ==
  ASSUME SdGood, NEW t \in User, CloneEnd(t)
  PROVE  SdGood'
<1>0. copying[t] # NoCopy
  BY DEF CloneEnd, NoCopy
<1>1. /\ copying' = [copying EXCEPT ![t] = NoCopy] /\ copying \in [User -> Copies]
      /\ UNCHANGED <<habit, live, refcnt, made, proxies, content, dropping, destroyed>>
  BY DEF CloneEnd, SdGood, OnlyMade
<1>2. NoCopy \in Copies /\ NoCopy.to = NoObject /\ NoCopy.todo = {}
  BY DEF NoCopy, Copies
<1>3. \A v \in User : copying'[v] = NoCopy
  BY <1>0, <1>1, OneCopies
<1>4. SdTypeOK' /\ OnlyMade' /\ CopyingAlone'
  BY <1>1, <1>2, <1>3 DEF SdGood, SdTypeOK, OnlyMade, CopyingAlone
<1>5. Counted' /\ DroppedDestroyed'
  <2>1. Counted'
    BY <1>1 DEF SdGood, Counted, Referrers
  <2>. QED BY <1>0, <1>1, <2>1, OneCopies, NothingFreed
<1>. QED BY <1>4, <1>5 DEF SdGood

LEMMA InitGood == SdInit => SdGood
<1>. SUFFICES ASSUME SdInit PROVE SdGood
  OBVIOUS
<1>1. /\ habit \in Habit /\ live = {MainThread} /\ made = {} /\ content = NoObject
      /\ destroyed = [o \in Object |-> 0]
      /\ refcnt = [x \in Shared |-> IF x = Scalar THEN 1 ELSE 0]
      /\ proxies = [t \in User |-> IF t = MainThread THEN {Scalar} ELSE {}]
      /\ dropping = [t \in User |-> NoObject] /\ copying = [t \in User |-> NoCopy]
  BY DEF SdInit
<1>2. NoCopy \in Copies /\ NoCopy.to = NoObject /\ NoCopy.todo = {}
  BY DEF NoCopy, Copies
<1>3. SdTypeOK
  BY <1>1, <1>2, SdConstants DEF SdTypeOK
<1>4. OnlyMade
  BY <1>1, <1>2 DEF OnlyMade
<1>5. Counted
  <2>. SUFFICES ASSUME NEW x \in Shared PROVE refcnt[x] = Referrers(x)
    BY DEF Counted
  <2>1. Droppers(x) = {} /\ content # x
    BY <1>1, SdConstants DEF Droppers
  <2>2. Cardinality({}) = 0 /\ Cardinality({} \cup {MainThread}) = Cardinality({}) + 1
    BY Numbers, SdConstants, FS_EmptySet
  <2>3. CASE x = Scalar
    <3>1. Holders(x) = {} \cup {MainThread} /\ refcnt[x] = 1
      BY <1>1, <2>3, SdConstants DEF Holders
    <3>. QED BY <2>1, <2>2, <3>1, ReferrersAre
  <2>4. CASE x # Scalar
    <3>1. Holders(x) = {} /\ refcnt[x] = 0
      BY <1>1, <2>4 DEF Holders
    <3>. QED BY <2>1, <2>2, <3>1, ReferrersAre
  <2>. QED BY <2>3, <2>4
<1>6. CopyingAlone /\ DroppedDestroyed
  BY <1>1 DEF CopyingAlone, DroppedDestroyed, FreedAfterDestroy
<1>. QED BY <1>3, <1>4, <1>5, <1>6 DEF SdGood

\* Steps that call no destructor, and reach nothing that was made and out of reach.
LEMMA StaysGone ==
  ASSUME DestroyedIsGone, destroyed' = destroyed, made \subseteq made',
         \A x \in made : Reached(x)' => Reached(x)
  PROVE  DestroyedIsGone'
  BY DEF DestroyedIsGone

LEMMA CurseDestroys ==
  ASSUME SdGood, DestroyedIsGone, NEW t \in User, NEW o \in Object, Curse(t, o)
  PROVE  /\ DestroyedIsGone'
         /\ \A x \in Object : destroyed'[x] # destroyed[x] =>
              destroyed[x] = 0 /\ destroyed'[x] = 1 /\ Referrers(x) = 1
<1>1. /\ o \in proxies[t] /\ proxies' = [proxies EXCEPT ![t] = @ \ {o}]
      /\ destroyed' = [destroyed EXCEPT ![o] = IF refcnt[o] <= 1 THEN @ + 1 ELSE @]
      /\ UNCHANGED <<made, content, copying>>
      /\ \A u \in User : copying[u] = NoCopy
  BY NobodyCopies DEF Curse, Runs
<1>2. /\ o \in Shared /\ o \in made /\ proxies \in [User -> SUBSET Shared]
      /\ refcnt \in [Shared -> Nat] /\ destroyed \in [Object -> Nat]
  BY <1>1, SdConstants DEF SdGood, SdTypeOK, OnlyMade
<1>3. \A x \in Object :
        destroyed'[x] = IF x = o /\ refcnt[o] <= 1 THEN destroyed[x] + 1 ELSE destroyed[x]
  BY <1>1, <1>2
<1>4. \A x \in Object : Reached(x)' => Reached(x)
  BY <1>1, <1>2 DEF Reached
<1>5. destroyed[o] = 0
  BY <1>1 DEF DestroyedIsGone, Reached
<1>6. ASSUME refcnt[o] <= 1 PROVE Referrers(o) = 1 /\ ~Reached(o)'
  <2>1. Holders(o)' = Holders(o) \ {t} /\ t \in Holders(o) /\ Holders(o) \in SUBSET User
    BY <1>1, <1>2 DEF Holders
  <2>2. refcnt[o] = 1 /\ Cardinality(Holders(o)) = 1 /\ content # o
    BY <1>2, <1>6, <2>1, CountIs
  <2>3. Cardinality(Holders(o)') = 0
    BY <2>1, <2>2, Numbers
  <2>4. Holders(o)' = {}
    <3>1. Holders(o)' \in SUBSET User
      BY <2>1
    <3>2. PICK H \in SUBSET User : H = Holders(o)'
      BY <3>1
    <3>3. H # {} => Cardinality(H) >= 1
      BY Numbers
    <3>. QED BY <2>3, <3>2, <3>3
  <2>5. \A u \in User : o \notin proxies'[u] /\ copying'[u].todo = {}
    BY <1>1, <2>4 DEF Holders, NoCopy
  <2>. QED BY <1>1, <1>2, <2>2, <2>5 DEF SdGood, Counted, Reached
<1>7. DestroyedIsGone'
  <2>. SUFFICES ASSUME NEW x \in Object, destroyed'[x] # 0
                PROVE  destroyed'[x] = 1 /\ x \in made /\ ~Reached(x)'
    BY <1>1 DEF DestroyedIsGone
  <2>1. CASE x = o /\ refcnt[o] <= 1
    BY <1>2, <1>3, <1>5, <1>6, <2>1
  <2>2. CASE ~(x = o /\ refcnt[o] <= 1)
    BY <1>3, <1>4, <2>2 DEF DestroyedIsGone
  <2>. QED BY <2>1, <2>2
<1>. QED BY <1>3, <1>5, <1>6, <1>7

LEMMA OthersDestroyNothing ==
  ASSUME [SdNext]_sdVars, \A t \in User, o \in Object : ~Curse(t, o)
  PROVE  destroyed' = destroyed
  BY DEF SdNext, sdVars, Share, StoreRef, FetchRef, FreeProxy, FreeScalar, CloneBegin, CloneRead,
         CloneWrite, CloneEnd

LEMMA GoneStays ==
  ASSUME SdGood, DestroyedIsGone, [SdNext]_sdVars
  PROVE  DestroyedIsGone'
<1>0. /\ proxies \in [User -> SUBSET Shared] /\ copying \in [User -> Copies]
      /\ \A x \in made : x \in Object /\ x # NoObject /\ x # Scalar
  BY SdConstants DEF SdGood, SdTypeOK, OnlyMade
<1>1. CASE \E t \in User, o \in Object : Curse(t, o)
  BY <1>1, CurseDestroys
<1>2. ASSUME NEW t \in User, NEW o \in Object, Share(t, o) PROVE DestroyedIsGone'
  <2>1. /\ o \notin made /\ proxies' = [proxies EXCEPT ![t] = @ \cup {o}]
        /\ made \subseteq made' /\ UNCHANGED <<content, destroyed, copying>>
    BY <1>2 DEF Share
  <2>2. \A x \in made : Reached(x)' => Reached(x)
    BY <1>0, <2>1 DEF Reached
  <2>. QED BY <2>1, <2>2, StaysGone
<1>3. ASSUME NEW t \in User, NEW new \in Object \cup {NoObject}, StoreRef(t, new)
      PROVE  DestroyedIsGone'
  <2>1. /\ new = NoObject \/ new \in proxies[t]
        /\ content' = content \/ content' = new
        /\ proxies' = proxies \/ proxies' = [proxies EXCEPT ![t] = @ \cup {content}]
        /\ UNCHANGED <<made, destroyed, copying>>
    <3>1. /\ new = NoObject \/ new \in proxies[t]
          /\ UNCHANGED <<made, destroyed, copying>> /\ Refer(t, new)
      BY <1>3 DEF StoreRef
    <3>2. [proxies EXCEPT ![t] = @] = proxies
      BY <1>0
    <3>. QED BY <3>1, <3>2 DEF Refer
  <2>2. \A x \in made : Reached(x)' => Reached(x)
    BY <1>0, <2>1 DEF Reached
  <2>. QED BY <2>1, <2>2, StaysGone
<1>4. ASSUME NEW t \in User, FetchRef(t) \/ FreeProxy(t) \/ FreeScalar(t) PROVE DestroyedIsGone'
  <2>1. /\ content' = content \/ content' = NoObject
        /\ \A u \in User : proxies'[u] \subseteq proxies[u] \cup {content}
        /\ UNCHANGED <<made, destroyed, copying>>
    BY <1>0, <1>4 DEF FetchRef, FreeProxy, FreeScalar
  <2>2. \A x \in made : Reached(x)' => Reached(x)
    BY <1>0, <2>1 DEF Reached
  <2>. QED BY <2>1, <2>2, StaysGone
<1>5. ASSUME NEW t \in User,
             \/ \E u \in User : CloneBegin(t, u)
             \/ \E x \in Shared : CloneRead(t, x)
             \/ CloneEnd(t)
      PROVE  DestroyedIsGone'
  <2>1. /\ UNCHANGED <<made, proxies, content, destroyed>>
        /\ \A u \in User : copying'[u].todo \subseteq copying[u].todo \cup proxies[t]
    <3>1. CASE \E u \in User : CloneBegin(t, u)
      <4>1. PICK c : c.todo = proxies[t] /\ copying' = [copying EXCEPT ![t] = c]
        BY <3>1 DEF CloneBegin, NoCopy
      <4>. QED BY <1>0, <3>1, <4>1 DEF CloneBegin
    <3>2. CASE \E x \in Shared : CloneRead(t, x)
      BY <1>0, <3>2 DEF CloneRead, Copies
    <3>3. CASE CloneEnd(t)
      BY <1>0, <3>3 DEF CloneEnd, NoCopy
    <3>. QED BY <1>5, <3>1, <3>2, <3>3
  <2>2. \A x \in made : Reached(x)' => Reached(x)
    BY <2>1 DEF Reached
  <2>. QED BY <2>1, <2>2, StaysGone
<1>6. ASSUME NEW t \in User, CloneWrite(t) PROVE DestroyedIsGone'
  <2>1. copying[t] # NoCopy /\ copying[t].sv # NoObject
    BY <1>6 DEF CloneWrite, NoCopy
  <2>2. PICK x : x = copying[t].sv /\ x \in copying[t].todo
    BY <2>1, OneCopies
  <2>3. /\ UNCHANGED <<made, content, destroyed>>
        /\ \A u \in User : proxies'[u] \subseteq proxies[u] \cup {x}
        /\ \A u \in User : copying'[u].todo \subseteq copying[u].todo
    BY <1>0, <1>6, <2>2 DEF CloneWrite, Copies
  <2>4. \A y \in made : Reached(y)' => Reached(y)
    BY <2>2, <2>3 DEF Reached
  <2>. QED BY <2>3, <2>4, StaysGone
<1>7. CASE UNCHANGED sdVars
  BY <1>7 DEF sdVars, DestroyedIsGone, Reached
<1>. QED BY <1>1, <1>2, <1>3, <1>4, <1>5, <1>6, <1>7 DEF SdNext

LEMMA HabitStays == [SdNext]_sdVars => habit' = habit
  BY DEF SdNext, sdVars, Share, Curse, StoreRef, FetchRef, FreeProxy, FreeScalar, CloneBegin,
         CloneRead, CloneWrite, CloneEnd

LEMMA StepKeepsGood ==
  ASSUME SdGood, habit # "busy", [SdNext]_sdVars
  PROVE  SdGood'
<1>1. ASSUME NEW t \in User, NEW o \in Object, Share(t, o) \/ Curse(t, o) PROVE SdGood'
  BY <1>1, ShareKeeps, CurseKeeps
<1>2. ASSUME NEW t \in User, NEW o \in Object \cup {NoObject}, StoreRef(t, o) PROVE SdGood'
  BY <1>2, StoreRefKeeps
<1>3. ASSUME NEW t \in User, FetchRef(t) \/ FreeProxy(t) \/ FreeScalar(t) PROVE SdGood'
  BY <1>3, FetchRefKeeps, FreeProxyKeeps, FreeScalarKeeps
<1>4. ASSUME NEW t \in User, NEW u \in User, CloneBegin(t, u) PROVE SdGood'
  BY <1>4, CloneBeginKeeps
<1>5. ASSUME NEW t \in User, NEW x \in Shared, CloneRead(t, x) PROVE SdGood'
  BY <1>5, CloneReadKeeps
<1>6. ASSUME NEW t \in User, CloneWrite(t) \/ CloneEnd(t) PROVE SdGood'
  BY <1>6, CloneWriteKeeps, CloneEndKeeps
<1>7. CASE UNCHANGED sdVars
  BY <1>7 DEF sdVars, SdGood, SdTypeOK, OnlyMade, Counted, Referrers, CopyingAlone,
              DroppedDestroyed, FreedAfterDestroy
<1>. QED BY <1>1, <1>2, <1>3, <1>4, <1>5, <1>6, <1>7 DEF SdNext

\* Where nobody touches shared data while a thread is created, every count is right.
LEMMA GoodStays == SdSpec => []SdInv
<1>1. SdInit => SdInv
  BY InitGood DEF SdInv, SdGood, SdInit, DestroyedIsGone
<1>2. ASSUME SdInv, [SdNext]_sdVars PROVE SdInv'
  <2>. SUFFICES ASSUME habit # "busy" PROVE SdInv'
    BY <1>2, HabitStays DEF SdInv
  <2>1. SdGood /\ DestroyedIsGone
    BY <1>2 DEF SdInv, SdGood
  <2>2. SdGood' /\ DestroyedIsGone'
    BY <1>2, <2>1, StepKeepsGood, GoneStays
  <2>. QED BY <2>2 DEF SdInv, SdGood
<1>. QED BY <1>1, <1>2, PTL DEF SdSpec

\* SharedCountsHold: the count of a shared SV is the number of proxies and references to
\* it, whatever threads share, store, fetch, drop and create, as long as nobody touches
\* shared data while a thread is created (threads::shared keeps the counts with
\* SvREFCNT_inc and S_sharedsv_dec); and where proxies are freed in turns nothing is freed
\* without its destructor.
THEOREM CountsStayRight == SdSpec => []SharedCountsHold
<1>1. SdInv => SharedCountsHold
  BY DEF SdInv, SharedCountsHold, CountsProxies, Counted, DroppedDestroyed, FreedAfterDestroy
<1>. QED BY <1>1, GoodStays, PTL

\* DestroyedOnce: under the same condition a shared object's destructor is called once at
\* most, by the step that drops the last proxy, when nothing else refers to the object
\* (Perl_shared_object_destroy, whose look at the count takes no lock).
THEOREM DestructorRunsOnce == SdSpec => DestroyedOnce
<1>1. ASSUME SdInv, [SdNext]_sdVars, habit # "busy", NEW o \in Object, destroyed'[o] # destroyed[o]
      PROVE  destroyed[o] = 0 /\ destroyed'[o] = 1 /\ Referrers(o) = 1
  <2>1. PICK t \in User, p \in Object : Curse(t, p)
    BY <1>1, OthersDestroyNothing
  <2>. QED BY <1>1, <2>1, CurseDestroys DEF SdInv, SdGood
<1>2. SdInv /\ [SdNext]_sdVars =>
        [habit # "busy" => \A o \in Object : destroyed'[o] # destroyed[o] =>
           destroyed[o] = 0 /\ destroyed'[o] = 1 /\ Referrers(o) = 1]_sdVars
  BY <1>1
<1>. QED BY <1>2, GoodStays, PTL DEF SdSpec, DestroyedOnce

-----------------------------------------------------------------------------
(***************************************************************************)
(* Proofs about Thread::Semaphore, for any set of threads and any calls:   *)
(* types, no sleeper with its units on the semaphore, and the              *)
(* implementation of CountingSemaphore.                                    *)
(***************************************************************************)
SemaphoreInv == TsTypeOK /\ NoLostWakeup

\* The start: nobody is in a method.
LEMMA SemaphoreInit == TsInit => SemaphoreInv
  BY SemaphoreAssumption DEF TsInit, SemaphoreInv, TsTypeOK, NoLostWakeup, NoCall, Call, Methods

\* A call of any of the methods starts.
LEMMA MethodCallKeeps ==
  ASSUME SemaphoreInv, NEW t \in Caller, NEW c \in tsScenario.calls[t], CallMethod(t, c)
  PROVE  SemaphoreInv'
<1>1. c \in Call
  BY SemaphoreAssumption DEF SemaphoreInv, TsTypeOK
<1>2. c # NoCall
  BY <1>1 DEF Call, Methods, NoCall
<1>3. changes' \in 0..MaxChanges
  BY SemaphoreAssumption DEF SemaphoreInv, TsTypeOK, CallMethod
<1>4. TsTypeOK'
  BY <1>1, <1>2, <1>3 DEF SemaphoreInv, TsTypeOK, CallMethod
<1>5. NoLostWakeup'
  BY DEF SemaphoreInv, TsTypeOK, NoLostWakeup, CallMethod
<1>. QED BY <1>4, <1>5 DEF SemaphoreInv

\* The ways in which a method returns keep the types, whatever they do to the
\* count and the sleepers.
LEMMA ReturnKeepsTypes ==
  ASSUME TsTypeOK, NEW t \in Caller, t \notin asleep, Returns(t),
         count' \in Int, asleep' \subseteq asleep
  PROVE  TsTypeOK'
  BY DEF TsTypeOK, Returns, Call, NoCall, Methods

\* Taking units off the count, or leaving it, cannot leave a sleeper with
\* enough; the other calls are as they were.
LEMMA LowerKeeps ==
  ASSUME SemaphoreInv, NEW t \in Caller, t \notin asleep, Returns(t),
         count' \in Int, count' <= count, asleep' = asleep
  PROVE  SemaphoreInv'
<1>1. TsTypeOK'
  BY ReturnKeepsTypes DEF SemaphoreInv
<1>2. ASSUME NEW u \in asleep PROVE count' < call'[u].n
  <2>1. u \in Caller /\ u # t
    BY DEF SemaphoreInv, TsTypeOK
  <2>2. call'[u] = call[u]
    BY <2>1 DEF SemaphoreInv, TsTypeOK, Returns
  <2>3. call[u].n \in Int
    BY <2>1 DEF SemaphoreInv, TsTypeOK, Call, NoCall
  <2>. QED BY <2>2, <2>3 DEF SemaphoreInv, TsTypeOK, NoLostWakeup
<1>. QED BY <1>1, <1>2 DEF SemaphoreInv, NoLostWakeup

\* A call's argument is an integer, and at least 1 once it is past Valid.
LEMMA Argument == ASSUME TsTypeOK, NEW t \in Caller PROVE call[t].n \in Int
  BY DEF TsTypeOK, Call, NoCall

LEMMA TakeKeeps ==
  ASSUME SemaphoreInv, NEW t \in Caller, t \notin asleep, Take(t), call[t].n >= 1
  PROVE  SemaphoreInv'
<1>1. call[t].n \in Int
  BY Argument DEF SemaphoreInv
<1>2. count' \in Int /\ count' <= count
  BY <1>1 DEF Take, SemaphoreInv, TsTypeOK
<1>. QED BY <1>2, LowerKeeps DEF Take

\* A thread goes to sleep only when it is short.
LEMMA WaitKeeps ==
  ASSUME SemaphoreInv, NEW t \in Caller, CondWaits(t), ~Enough(t),
         call[t].op \in {"down", "down_timed"}, call[t].n >= 1
  PROVE  SemaphoreInv'
<1>1. call[t].n \in Int
  BY Argument DEF SemaphoreInv
<1>2. TsTypeOK'
  BY DEF SemaphoreInv, TsTypeOK, CondWaits, NoCall
<1>3. NoLostWakeup'
  BY <1>1 DEF SemaphoreInv, TsTypeOK, NoLostWakeup, CondWaits, Enough
<1>. QED BY <1>2, <1>3 DEF SemaphoreInv

\* up: either everybody is woken, or the count stays at or below zero, which
\* is short for every sleeper, since nobody waits for less than one unit.
LEMMA UpKeeps ==
  ASSUME SemaphoreInv, NEW t \in Caller, Up(t) PROVE SemaphoreInv'
<1>1. call[t].n \in Int /\ t \notin asleep
  BY Argument DEF SemaphoreInv, TsTypeOK, Up, Entering
<1>2. count' \in Int /\ asleep' \subseteq asleep /\ Returns(t)
  BY <1>1 DEF Up, SemaphoreInv, TsTypeOK
<1>3. TsTypeOK'
  BY <1>1, <1>2, ReturnKeepsTypes DEF SemaphoreInv
<1>4. ASSUME NEW u \in asleep' PROVE count' < call'[u].n
  <2>1. u \in asleep /\ u \in Caller /\ u # t /\ ~(count' > 0)
    BY <1>1 DEF Up, SemaphoreInv, TsTypeOK
  <2>2. call'[u] = call[u]
    BY <2>1, <1>2 DEF SemaphoreInv, TsTypeOK, Returns
  <2>3. call[u].n \in Int /\ call[u].n >= 1
    BY <2>1, Argument DEF SemaphoreInv, TsTypeOK
  <2>. QED BY <1>2, <2>1, <2>2, <2>3
<1>. QED BY <1>3, <1>4 DEF SemaphoreInv, NoLostWakeup

LEMMA StepKeeps ==
  ASSUME SemaphoreInv, NEW t \in Caller, Step(t) PROVE SemaphoreInv'
<1>0. count \in Int /\ count <= count
  BY DEF SemaphoreInv, TsTypeOK
<1>1. CASE Croak(t)
  <2>1. t \notin asleep /\ Returns(t) /\ count' = count /\ asleep' = asleep
    BY <1>1 DEF Croak, SemaphoreInv, TsTypeOK
  <2>. QED BY <2>1, <1>0, LowerKeeps
<1>2. CASE Down(t)
  <2>1. call[t].op = "down" /\ call[t].n >= 1 /\ t \notin asleep
    BY <1>2 DEF Down, Entering, Resuming, Valid, SemaphoreInv, TsTypeOK
  <2>. QED BY <1>2, <2>1, TakeKeeps, WaitKeeps DEF Down
<1>3. CASE DownNb(t)
  <2>1. t \notin asleep /\ call[t].n >= 1
    BY <1>3 DEF DownNb, Entering, Valid, SemaphoreInv, TsTypeOK
  <2>. QED BY <1>0, <1>3, <2>1, TakeKeeps, LowerKeeps DEF DownNb
<1>4. CASE DownForce(t)
  <2>1. t \notin asleep /\ call[t].n >= 1
    BY <1>4 DEF DownForce, Entering, Valid, SemaphoreInv, TsTypeOK
  <2>. QED BY <1>4, <2>1, TakeKeeps DEF DownForce
<1>5. CASE DownTimed(t)
  <2>1. CASE Entering(t, "down_timed") \/ Resuming(t, "down_timed")
    <3>1. call[t].op = "down_timed" /\ call[t].n >= 1 /\ t \notin asleep
      BY <2>1 DEF Entering, Resuming, Valid, SemaphoreInv, TsTypeOK
    <3>2. stage[t] # "late"
      BY <2>1 DEF Entering, Resuming
    <3>. QED BY <1>5, <3>1, <3>2, TakeKeeps, WaitKeeps DEF DownTimed
  <2>2. CASE stage[t] = "late" /\ Returns(t) /\ UNCHANGED <<count, asleep>>
    <3>1. t \notin asleep
      BY <2>2 DEF SemaphoreInv, TsTypeOK
    <3>. QED BY <1>0, <2>2, <3>1, LowerKeeps
  <2>. QED BY <1>5, <2>1, <2>2 DEF DownTimed
<1>6. CASE Up(t)
  BY <1>6, UpKeeps
<1>. QED BY <1>1, <1>2, <1>3, <1>4, <1>5, <1>6 DEF Step

LEMMA SemaphoreNext == ASSUME SemaphoreInv, [TsNext]_tsVars PROVE SemaphoreInv'
<1>1. ASSUME NEW t \in Caller, NEW c \in tsScenario.calls[t], CallMethod(t, c)
      PROVE SemaphoreInv'
  BY <1>1, MethodCallKeeps
<1>2. ASSUME NEW t \in Caller, Step(t) PROVE SemaphoreInv'
  BY <1>2, StepKeeps
<1>3. ASSUME NEW t \in Caller, DeadlinePasses(t) PROVE SemaphoreInv'
  BY <1>3 DEF SemaphoreInv, TsTypeOK, NoLostWakeup, DeadlinePasses, NoCall
<1>4. ASSUME NEW t \in Caller, Rouse(t) PROVE SemaphoreInv'
  BY <1>4 DEF SemaphoreInv, TsTypeOK, NoLostWakeup, Rouse
<1>5. CASE UNCHANGED tsVars
  BY <1>5 DEF SemaphoreInv, TsTypeOK, NoLostWakeup, tsVars
<1>. QED BY <1>1, <1>2, <1>3, <1>4, <1>5 DEF TsNext

THEOREM SemaphoreInvariance == TsSpec => []SemaphoreInv
<1>1. TsInit => SemaphoreInv
  BY SemaphoreInit
<1>2. SemaphoreInv /\ [TsNext]_tsVars => SemaphoreInv'
  BY SemaphoreNext
<1>. QED BY <1>1, <1>2, PTL DEF TsSpec

\* The variables of Semaphore.pm's methods keep their types, and only down and
\* down_timed ever sleep.
THEOREM SemaphoreTypes == TsSpec => []TsTypeOK
  BY SemaphoreInvariance, PTL DEF SemaphoreInv

\* For any number of threads waiting for any amounts, nobody sleeps while the
\* count is enough for it: up may skip its broadcast at zero or below.
THEOREM DownersAreWoken == TsSpec => []NoLostWakeup
  BY SemaphoreInvariance, PTL DEF SemaphoreInv
-----------------------------------------------------------------------------
\* Every step of the methods is a step of CountingSemaphore, or changes
\* nothing that it speaks of.
LEMMA StepImplements ==
  ASSUME SemaphoreInv, NEW t \in Caller, Step(t)
  PROVE  Promise!Next \/ UNCHANGED <<count, call>>
<1>0. count \in Int /\ call[t].n \in Int /\ call' \in [Caller -> Call \cup {NoCall}]
  BY Argument, StepKeeps DEF SemaphoreInv, TsTypeOK
<1>1. NoCall = Promise!Nothing
  BY DEF NoCall, Promise!Nothing
<1>2. CASE Croak(t)
  <2>1. call[t] # NoCall /\ call[t] \in Call \cup {NoCall}
    BY <1>2 DEF Croak, SemaphoreInv, TsTypeOK
  <2>2. call[t].op # "none"
    BY <2>1 DEF Call, Methods
  <2>3. ~(call[t].n >= 1) /\ count' = count /\ Promise!Answer(t)
    BY <1>1, <1>2 DEF Croak, Returns, Valid, Promise!Answer
  <2>4. Promise!Refuse(t)
    BY <1>0, <2>2, <2>3 DEF Promise!Refuse
  <2>. QED BY <2>4 DEF Promise!Next
<1>3. CASE Take(t) /\ call[t].n >= 1 /\ Enough(t)
           /\ call[t].op \in {"down", "down_nb", "down_timed"}
  <2>1. Promise!Grant(t)
    BY <1>0, <1>1, <1>3 DEF Take, Returns, Enough, Promise!Grant, Promise!Answer
  <2>. QED BY <2>1 DEF Promise!Next
<1>4. CASE UNCHANGED <<count, call>>
  BY <1>4
<1>5. CASE Down(t)
  <2>1. call[t].op = "down" /\ call[t].n >= 1
    BY <1>5 DEF Down, Entering, Resuming, Valid, SemaphoreInv, TsTypeOK
  <2>. QED BY <1>3, <1>4, <1>5, <2>1 DEF Down, CondWaits
<1>6. CASE DownNb(t)
  <2>1. call[t].op = "down_nb" /\ call[t].n >= 1
    BY <1>6 DEF DownNb, Entering, Valid
  <2>2. CASE Enough(t)
    BY <1>3, <1>6, <2>1, <2>2 DEF DownNb
  <2>3. CASE ~Enough(t)
    <3>1. Promise!Refuse(t)
      BY <1>0, <1>1, <1>6, <2>1, <2>3 DEF DownNb, Returns, Enough,
         Promise!Refuse, Promise!Answer
    <3>. QED BY <3>1 DEF Promise!Next
  <2>. QED BY <2>2, <2>3
<1>7. CASE DownForce(t)
  <2>1. Promise!Force(t)
    BY <1>0, <1>1, <1>7 DEF DownForce, Entering, Valid, Take, Returns,
       Promise!Force, Promise!Answer
  <2>. QED BY <2>1 DEF Promise!Next
<1>8. CASE DownTimed(t)
  <2>1. CASE Entering(t, "down_timed") \/ Resuming(t, "down_timed")
    <3>1. call[t].op = "down_timed" /\ call[t].n >= 1 /\ stage[t] # "late"
      BY <2>1 DEF Entering, Resuming, Valid, SemaphoreInv, TsTypeOK
    <3>. QED BY <1>3, <1>4, <1>8, <3>1 DEF DownTimed, CondWaits
  <2>2. CASE stage[t] = "late" /\ Returns(t) /\ UNCHANGED <<count, asleep>>
    <3>1. Promise!Refuse(t)
      BY <1>1, <2>2 DEF Returns, Promise!Refuse, Promise!Answer, SemaphoreInv, TsTypeOK
    <3>. QED BY <3>1 DEF Promise!Next
  <2>. QED BY <1>8, <2>1, <2>2 DEF DownTimed
<1>9. CASE Up(t)
  <2>1. Promise!Raise(t)
    BY <1>0, <1>1, <1>9 DEF Up, Entering, Valid, Returns, Promise!Raise,
       Promise!Answer
  <2>. QED BY <2>1 DEF Promise!Next
<1>. QED BY <1>2, <1>5, <1>6, <1>7, <1>8, <1>9 DEF Step

LEMMA CallImplements ==
  ASSUME SemaphoreInv, NEW t \in Caller, NEW c \in tsScenario.calls[t], CallMethod(t, c)
  PROVE  Promise!Next
<1>1. c \in [op : Promise!Ops, n : Int]
  BY SemaphoreAssumption DEF SemaphoreInv, TsTypeOK, Call, Methods, Promise!Ops
<1>2. call[t] = Promise!Nothing /\ call' = [call EXCEPT ![t] = c]
  BY DEF SemaphoreInv, TsTypeOK, CallMethod, NoCall, Promise!Nothing
<1>3. call'[t] = c
  BY <1>2 DEF SemaphoreInv, TsTypeOK
<1>4. Promise!Ask(t)
  BY <1>1, <1>2, <1>3 DEF Promise!Ask, CallMethod
<1>. QED BY <1>4 DEF Promise!Next

\* Thread::Semaphore implements the counting semaphore: each call takes effect
\* at one moment, with all of its units or none.
THEOREM SemaphoreIsCounting == TsSpec => ImplementsPromise
<1>1. TsInit => Promise!Init
  BY SemaphoreInit DEF TsInit, SemaphoreInv, TsTypeOK, NoCall, Promise!Init, Promise!Nothing
<1>2. SemaphoreInv /\ [TsNext]_tsVars => [Promise!Next]_<<count, call>>
  <2>. SUFFICES ASSUME SemaphoreInv, [TsNext]_tsVars
       PROVE  Promise!Next \/ UNCHANGED <<count, call>>
    OBVIOUS
  <2>1. ASSUME NEW t \in Caller, DeadlinePasses(t) \/ Rouse(t)
        PROVE UNCHANGED <<count, call>>
    BY <2>1 DEF DeadlinePasses, Rouse
  <2>2. CASE UNCHANGED tsVars
    BY <2>2 DEF tsVars
  <2>. QED BY <2>1, <2>2, StepImplements, CallImplements DEF TsNext
<1>. QED BY <1>1, <1>2, SemaphoreInvariance, PTL DEF TsSpec, ImplementsPromise, Promise!Spec

-----------------------------------------------------------------------------
(***************************************************************************)
(* Proofs about ReadWriteLock, for any finite set of threads and any bound *)
(* on the nesting of locale sections.  The counter is a cardinality, so    *)
(* the set of readers is kept apart from the rest (ReadersCount).  The     *)
(* argument for the sleepers, in one line: readers reaches zero only in    *)
(* ReadUnlock and a writer leaves only in WriteUnlock, and both signal.    *)
(***************************************************************************)
Readers == {t \in Locker : env[t] = "reading"}

\* Who is about to lock the locale has room for one more section.
RoomForSection == \A t \in Locker : env[t] = "locking" => localeDepth[t] < MaxLocale

SectionInv == RwTypeOK /\ RoomForSection /\ SectionsAreSound

LEMMA ReadersFinite == IsFiniteSet(Readers)
  BY RwAssumption, FS_Subset DEF Readers

LEMMA SectionInit == RwInit => SectionInv
<1> SUFFICES ASSUME RwInit PROVE SectionInv
  OBVIOUS
<1>1. RwTypeOK /\ RoomForSection /\ NoWriterForgotten /\ LocaleNested
  BY RwAssumption DEF RwInit, RwTypeOK, RoomForSection, NoWriterForgotten, LocaleNested, EnvPlaces
<1>2. {t \in Locker : env[t] = "reading"} = {}
  BY DEF RwInit
<1>3. ReadersCounted
  BY <1>2, FS_EmptySet DEF RwInit, ReadersCounted
<1>. QED BY <1>1, <1>3 DEF SectionInv, SectionsAreSound

\* A counter at zero is nobody reading.
LEMMA NoReaders ==
  ASSUME SectionInv PROVE readers <= 0 <=> \A t \in Locker : env[t] # "reading"
<1>1. readers = Cardinality(Readers) /\ readers \in Nat
  BY DEF SectionInv, RwTypeOK, SectionsAreSound, ReadersCounted, Readers
<1>2. readers = 0 <=> Readers = {}
  BY <1>1, ReadersFinite, FS_EmptySet
<1>. QED BY <1>1, <1>2 DEF Readers

\* COND_SIGNAL takes one sleeper off, if there is any.
LEMMA WriterSignalWakes ==
  ASSUME SectionInv, SignalWriter
  PROVE  /\ dozers' \subseteq dozers
         /\ dozers # {} => \E u \in dozers : u \notin dozers'
  BY DEF SignalWriter

\* Steps of t to and from places that are not a writer's or a reader's, with
\* the counter and the sleepers left alone.
LEMMA ElsewhereKeeps ==
  ASSUME SectionInv, NEW t \in Locker, NEW p \in EnvPlaces, env' = [env EXCEPT ![t] = p],
         env[t] \notin {"reading", "waiting", "writing"},
         p \notin {"reading", "waiting", "writing"},
         UNCHANGED <<readers, dozers>>
  PROVE  ReadersCounted' /\ NoWriterForgotten' /\ dozers' \subseteq {u \in Locker : env'[u] = "waiting"}
<1>1. \A u \in Locker : env'[u] = IF u = t THEN p ELSE env[u]
  BY DEF SectionInv, RwTypeOK
<1>2. {u \in Locker : env'[u] = "reading"} = {u \in Locker : env[u] = "reading"}
  BY <1>1
<1>3. \A u \in Locker : env'[u] \in {"reading", "waiting", "writing"} \/ env[u] \in {"reading", "waiting", "writing"} => env'[u] = env[u]
  BY <1>1
<1>4. ReadersCounted'
  <2>1. readers' = Cardinality({u \in Locker : env'[u] = "reading"})
    BY <1>2 DEF SectionInv, SectionsAreSound, ReadersCounted
  <2>2. \A u \in Locker : env'[u] = "writing" =>
          \A v \in Locker \ {u} : env'[v] \notin {"reading", "writing"}
    BY <1>3 DEF SectionInv, SectionsAreSound, ReadersCounted
  <2>. QED BY <2>1, <2>2 DEF ReadersCounted
<1>5. NoWriterForgotten'
  BY <1>3 DEF SectionInv, SectionsAreSound, NoWriterForgotten
<1>6. dozers' \subseteq {u \in Locker : env'[u] = "waiting"}
  BY <1>3 DEF SectionInv, RwTypeOK
<1>. QED BY <1>4, <1>5, <1>6

LEMMA LocaleCallKeeps ==
  ASSUME SectionInv, NEW t \in Locker, NEW b \in BOOLEAN, CallLocaleLock(t, b)
  PROVE  SectionInv'
<1>1. ReadersCounted' /\ NoWriterForgotten' /\ dozers' \subseteq {u \in Locker : env'[u] = "waiting"}
  BY ElsewhereKeeps DEF CallLocaleLock, EnvPlaces
<1>2. RwTypeOK' /\ RoomForSection'
  BY <1>1 DEF SectionInv, RwTypeOK, RoomForSection, CallLocaleLock, EnvPlaces
<1>3. LocaleNested'
  BY DEF SectionInv, RwTypeOK, SectionsAreSound, LocaleNested, CallLocaleLock
<1>. QED BY <1>1, <1>2, <1>3 DEF SectionInv, SectionsAreSound

LEMMA LocaleLockedKeeps ==
  ASSUME SectionInv, NEW t \in Locker, LocaleLocked(t) PROVE SectionInv'
<1>1. ReadersCounted' /\ NoWriterForgotten' /\ dozers' \subseteq {u \in Locker : env'[u] = "waiting"}
  BY ElsewhereKeeps DEF LocaleLocked, EnvPlaces
<1>2. localeDepth[t] \in Nat /\ localeDepth[t] < MaxLocale /\ MaxLocale \in Nat
  BY RwAssumption DEF SectionInv, RwTypeOK, RoomForSection, LocaleLocked
<1>3. /\ localeDepth' = [localeDepth EXCEPT ![t] = localeDepth[t] + 1]
      /\ localeOwner' = t
      /\ localeDepth[t] = 0 => localeOwner = Nobody
  <2>1. (IF localeDepth[t] <= 0 THEN 1 ELSE localeDepth[t] + 1) = localeDepth[t] + 1
    BY <1>2
  <2>2. localeDepth[t] = 0 => localeDepth[t] <= 0
    BY <1>2
  <2>. QED BY <2>1, <2>2 DEF LocaleLocked, LocaleLock
<1>4. RwTypeOK' /\ RoomForSection'
  BY <1>1, <1>2, <1>3 DEF SectionInv, RwTypeOK, RoomForSection, LocaleLocked, EnvPlaces
<1>5. \A u \in Locker : localeDepth[u] > 0 => u = t
  BY <1>2, <1>3, RwAssumption DEF SectionInv, SectionsAreSound, LocaleNested
<1>6. \A u \in Locker : localeDepth'[u] > 0 <=> u = t
  BY <1>2, <1>3, <1>5 DEF SectionInv, RwTypeOK
<1>7. LocaleNested'
  BY <1>3, <1>5, <1>6 DEF SectionInv, RwTypeOK, SectionsAreSound, LocaleNested, LocaleLocked
<1>. QED BY <1>1, <1>4, <1>7 DEF SectionInv, SectionsAreSound

\* Giving one locale section up, by a thread that is in no section of both
\* then.
LEMMA UnlockNests ==
  ASSUME SectionInv, NEW t \in Locker, LocaleUnlock(t), both' = both \ {t},
         NEW p \in {"out"}, env' = [env EXCEPT ![t] = p],
         env[t] \in {"out", "leaving"}
  PROVE  LocaleNested' /\ localeOwner' \in Locker \cup {Nobody} /\ localeDepth' \in [Locker -> 0..MaxLocale]
<1>1. localeDepth[t] \in 0..MaxLocale /\ localeDepth[t] >= 1 /\ localeOwner = t
  BY DEF SectionInv, RwTypeOK, LocaleUnlock, SectionsAreSound, LocaleNested
<1>2. /\ localeDepth' = [localeDepth EXCEPT ![t] = localeDepth[t] - 1]
      /\ localeOwner' = IF localeDepth[t] = 1 THEN Nobody ELSE t
  BY <1>1 DEF LocaleUnlock
<1>3. localeDepth' \in [Locker -> 0..MaxLocale]
  BY <1>1, <1>2, RwAssumption DEF SectionInv, RwTypeOK
<1>4. \A u \in Locker : localeDepth'[u] > 0 <=> localeOwner' = u
  BY <1>1, <1>2, RwAssumption DEF SectionInv, RwTypeOK, SectionsAreSound, LocaleNested
<1>5. \A u \in Locker : u # t => env'[u] = env[u] /\ localeDepth'[u] = localeDepth[u]
  BY <1>2 DEF SectionInv, RwTypeOK
<1>6. env'[t] = "out"
  BY DEF SectionInv, RwTypeOK
<1>7. LocaleNested'
  BY <1>4, <1>5, <1>6 DEF SectionInv, RwTypeOK, SectionsAreSound, LocaleNested
<1>. QED BY <1>1, <1>2, <1>3, <1>7

LEMMA EndLocaleKeeps ==
  ASSUME SectionInv, NEW t \in Locker, EndLocale(t) \/ EndBoth(t) PROVE SectionInv'
<1>1. /\ both' = both \ {t} /\ env' = [env EXCEPT ![t] = "out"]
      /\ LocaleUnlock(t) /\ env[t] \in {"out", "leaving"} /\ UNCHANGED <<readers, dozers>>
  BY DEF EndLocale, EndBoth, SectionInv, RwTypeOK, SectionsAreSound, LocaleNested
<1>2. ReadersCounted' /\ NoWriterForgotten' /\ dozers' \subseteq {u \in Locker : env'[u] = "waiting"}
  BY <1>1, ElsewhereKeeps DEF EnvPlaces
<1>3. LocaleNested' /\ localeOwner' \in Locker \cup {Nobody} /\ localeDepth' \in [Locker -> 0..MaxLocale]
  BY <1>1, UnlockNests
<1>4. RwTypeOK'
  BY <1>1, <1>2, <1>3 DEF SectionInv, RwTypeOK, EnvPlaces
<1>5. RoomForSection'
  <2>1. \A u \in Locker : env'[u] = "locking" => u # t /\ env[u] = "locking"
    BY <1>1 DEF SectionInv, RwTypeOK
  <2>2. \A u \in Locker : u # t => localeDepth'[u] = localeDepth[u]
    BY <1>1 DEF SectionInv, RwTypeOK, LocaleUnlock
  <2>. QED BY <2>1, <2>2 DEF SectionInv, RoomForSection
<1>. QED BY <1>2, <1>3, <1>4, <1>5 DEF SectionInv, SectionsAreSound

\* Steps that leave the locale alone and t's section of both open or closed.
LEMMA NestingStays ==
  ASSUME SectionInv, NEW t \in Locker, NEW p \in EnvPlaces \ {"locking"}, env' = [env EXCEPT ![t] = p],
         UNCHANGED <<both, localeOwner, localeDepth>>,
         p \in {"entering", "leaving"} => t \in both,
         t \in both => p \in {"entering", "reading", "leaving"} /\ env[t] # "locking"
  PROVE  LocaleNested' /\ RoomForSection'
<1>1. \A u \in Locker : env'[u] = IF u = t THEN p ELSE env[u]
  BY DEF SectionInv, RwTypeOK
<1>2. t \in both => localeDepth[t] > 0
  BY DEF SectionInv, SectionsAreSound, LocaleNested
<1>. QED BY <1>1, <1>2 DEF SectionInv, RoomForSection, SectionsAreSound, LocaleNested

LEMMA ReadLockKeeps ==
  ASSUME SectionInv, NEW t \in Locker, ReadLock(t) PROVE SectionInv'
<1>1. \A u \in Locker : env'[u] = IF u = t THEN "reading" ELSE env[u]
  BY DEF SectionInv, RwTypeOK, ReadLock
<1>2. Readers' = Readers \cup {t} /\ t \notin Readers
  BY <1>1 DEF Readers, ReadLock
<1>3. readers = Cardinality(Readers) /\ readers \in Nat /\ readers' = readers + 1
  BY DEF SectionInv, RwTypeOK, SectionsAreSound, ReadersCounted, Readers, ReadLock
<1>4. readers' = Cardinality(Readers')
  BY <1>2, <1>3, ReadersFinite, FS_AddElement
<1>5. ReadersCounted'
  <2>1. \A u \in Locker : env'[u] # "writing"
    BY <1>1 DEF ReadLock, EnvMutexFree
  <2>. QED BY <1>4, <2>1 DEF ReadersCounted, Readers
<1>6. NoWriterForgotten'
  BY <1>3 DEF NoWriterForgotten
<1>7. RwTypeOK'
  BY <1>1, <1>3 DEF SectionInv, RwTypeOK, EnvPlaces, ReadLock
<1>8. LocaleNested' /\ RoomForSection'
  <2>1. t \in both => env[t] = "entering"
    BY DEF SectionInv, SectionsAreSound, LocaleNested, ReadLock
  <2>. QED BY <2>1, NestingStays DEF ReadLock, EnvPlaces
<1>. QED BY <1>5, <1>6, <1>7, <1>8 DEF SectionInv, SectionsAreSound

LEMMA ReadUnlockKeeps ==
  ASSUME SectionInv, NEW t \in Locker, ReadUnlock(t) PROVE SectionInv'
<1>. DEFINE p == IF t \in both THEN "leaving" ELSE "out"
<1>1. \A u \in Locker : env'[u] = IF u = t THEN p ELSE env[u]
  BY DEF SectionInv, RwTypeOK, ReadUnlock
<1>2. Readers' = Readers \ {t} /\ t \in Readers
  BY <1>1 DEF Readers, ReadUnlock
<1>3. readers = Cardinality(Readers) /\ readers \in Nat /\ readers # 0
  <2>1. readers = Cardinality(Readers) /\ readers \in Nat
    BY DEF SectionInv, RwTypeOK, SectionsAreSound, ReadersCounted, Readers
  <2>2. Readers # {}
    BY <1>2
  <2>. QED BY <2>1, <2>2, ReadersFinite, FS_EmptySet
<1>4. readers' = readers - 1
  BY <1>3 DEF ReadUnlock
<1>5. readers' = Cardinality(Readers')
  BY <1>2, <1>3, <1>4, ReadersFinite, FS_RemoveElement
<1>6. ReadersCounted'
  <2>1. \A u \in Locker : env'[u] # "writing"
    BY <1>1 DEF ReadUnlock, EnvMutexFree
  <2>. QED BY <1>5, <2>1 DEF ReadersCounted, Readers
<1>7. dozers' \subseteq dozers
  BY WriterSignalWakes DEF ReadUnlock
<1>8. \A u \in dozers : u # t /\ u \in Locker /\ env'[u] = "waiting"
  BY <1>1 DEF SectionInv, RwTypeOK, ReadUnlock
<1>9. NoWriterForgotten'
  <2> SUFFICES ASSUME readers' = 0, dozers' # {}
      PROVE \E u \in Locker \ dozers' : env'[u] \in {"waiting", "writing"}
    BY DEF NoWriterForgotten
  <2>1. SignalWriter
    BY <1>3, <1>4 DEF ReadUnlock
  <2>2. PICK u \in dozers : u \notin dozers'
    BY <1>7, <2>1, WriterSignalWakes
  <2>. QED BY <1>8, <2>2
<1>10. RwTypeOK'
  BY <1>1, <1>3, <1>4, <1>7, <1>8 DEF SectionInv, RwTypeOK, EnvPlaces, ReadUnlock
<1>11. LocaleNested' /\ RoomForSection'
  BY NestingStays DEF ReadUnlock, EnvPlaces
<1>. QED BY <1>6, <1>9, <1>10, <1>11 DEF SectionInv, SectionsAreSound

LEMMA WriteLoopKeeps ==
  ASSUME SectionInv, NEW t \in Locker, WriteLock(t) \/ WriteLockAgain(t) PROVE SectionInv'
<1>1. WriteLoop(t) /\ t \notin dozers /\ env[t] \in {"out", "waiting"} /\ t \notin both
  BY DEF WriteLock, WriteLockAgain, SectionInv, RwTypeOK, SectionsAreSound, LocaleNested
<1>2. readers \in Nat /\ UNCHANGED <<both, readers, localeOwner, localeDepth>>
  BY <1>1 DEF WriteLoop, SectionInv, RwTypeOK
<1>3. CASE readers <= 0
  <2>1. env' = [env EXCEPT ![t] = "writing"] /\ dozers' = dozers
    BY <1>1, <1>3 DEF WriteLoop
  <2>2. \A u \in Locker : env'[u] = IF u = t THEN "writing" ELSE env[u]
    BY <2>1 DEF SectionInv, RwTypeOK
  <2>3. \A u \in Locker : env[u] \notin {"reading", "writing"}
    BY <1>1, <1>3, NoReaders DEF WriteLoop, EnvMutexFree
  <2>4. Readers' = Readers
    BY <2>2, <2>3 DEF Readers
  <2>5. ReadersCounted'
    <3>1. readers' = Cardinality(Readers')
      BY <1>2, <2>4 DEF SectionInv, SectionsAreSound, ReadersCounted, Readers
    <3>. QED BY <2>2, <2>3, <3>1 DEF ReadersCounted, Readers
  <2>6. NoWriterForgotten'
    BY <1>1, <2>1, <2>2 DEF NoWriterForgotten
  <2>7. RwTypeOK'
    BY <1>1, <1>2, <2>1, <2>2 DEF SectionInv, RwTypeOK, EnvPlaces
  <2>8. LocaleNested' /\ RoomForSection'
    BY <1>1, <1>2, <2>1, NestingStays DEF EnvPlaces
  <2>. QED BY <2>5, <2>6, <2>7, <2>8 DEF SectionInv, SectionsAreSound
<1>4. CASE ~(readers <= 0)
  <2>1. env' = [env EXCEPT ![t] = "waiting"] /\ dozers' = dozers \cup {t}
    BY <1>1, <1>4 DEF WriteLoop
  <2>2. \A u \in Locker : env'[u] = IF u = t THEN "waiting" ELSE env[u]
    BY <2>1 DEF SectionInv, RwTypeOK
  <2>3. Readers' = Readers
    BY <1>1, <2>2 DEF Readers
  <2>4. ReadersCounted'
    <3>1. readers' = Cardinality(Readers')
      BY <1>2, <2>3 DEF SectionInv, SectionsAreSound, ReadersCounted, Readers
    <3>. QED BY <2>2, <3>1 DEF SectionInv, SectionsAreSound, ReadersCounted, Readers
  <2>5. NoWriterForgotten'
    BY <1>2, <1>4 DEF NoWriterForgotten
  <2>6. RwTypeOK'
    BY <1>2, <2>1, <2>2 DEF SectionInv, RwTypeOK, EnvPlaces
  <2>7. LocaleNested' /\ RoomForSection'
    BY <1>1, <1>2, <2>1, NestingStays DEF EnvPlaces
  <2>. QED BY <2>4, <2>5, <2>6, <2>7 DEF SectionInv, SectionsAreSound
<1>. QED BY <1>3, <1>4

LEMMA WriteUnlockKeeps ==
  ASSUME SectionInv, NEW t \in Locker, WriteUnlock(t) PROVE SectionInv'
<1>1. \A u \in Locker : env'[u] = IF u = t THEN "out" ELSE env[u]
  BY DEF SectionInv, RwTypeOK, WriteUnlock
<1>2. Readers' = Readers
  BY <1>1 DEF Readers, WriteUnlock
<1>3. ReadersCounted'
  <2>1. readers' = Cardinality(Readers')
    BY <1>2 DEF SectionInv, SectionsAreSound, ReadersCounted, Readers, WriteUnlock
  <2>. QED BY <1>1, <2>1 DEF SectionInv, SectionsAreSound, ReadersCounted, Readers
<1>4. dozers' \subseteq dozers
  BY WriterSignalWakes DEF WriteUnlock
<1>5. \A u \in dozers : u # t /\ u \in Locker /\ env'[u] = "waiting"
  BY <1>1 DEF SectionInv, RwTypeOK, WriteUnlock
<1>6. NoWriterForgotten'
  <2> SUFFICES ASSUME dozers' # {}
      PROVE \E u \in Locker \ dozers' : env'[u] \in {"waiting", "writing"}
    BY DEF NoWriterForgotten
  <2>1. PICK u \in dozers : u \notin dozers'
    BY <1>4, WriterSignalWakes DEF WriteUnlock
  <2>. QED BY <1>5, <2>1
<1>7. RwTypeOK'
  BY <1>1, <1>4, <1>5 DEF SectionInv, RwTypeOK, EnvPlaces, WriteUnlock
<1>8. LocaleNested' /\ RoomForSection'
  <2>1. t \notin both
    BY DEF SectionInv, SectionsAreSound, LocaleNested, WriteUnlock
  <2>. QED BY <2>1, NestingStays DEF WriteUnlock, EnvPlaces
<1>. QED BY <1>3, <1>6, <1>7, <1>8 DEF SectionInv, SectionsAreSound

LEMMA SpuriousKeeps ==
  ASSUME SectionInv, NEW t \in Locker, SpuriousWakeupOfWriter(t) PROVE SectionInv'
<1>1. t \in dozers /\ t \in Locker \ dozers' /\ env[t] = "waiting"
  BY DEF SpuriousWakeupOfWriter, SectionInv, RwTypeOK
<1>2. NoWriterForgotten'
  BY <1>1 DEF NoWriterForgotten, SpuriousWakeupOfWriter
<1>3. RwTypeOK' /\ RoomForSection' /\ ReadersCounted' /\ LocaleNested'
  BY DEF SpuriousWakeupOfWriter, SectionInv, RwTypeOK, RoomForSection, SectionsAreSound, ReadersCounted, LocaleNested
<1>. QED BY <1>2, <1>3 DEF SectionInv, SectionsAreSound

LEMMA SectionNext == ASSUME SectionInv, [RwNext]_rwVars PROVE SectionInv'
<1>1. CASE UNCHANGED rwVars
  BY <1>1 DEF rwVars, SectionInv, RwTypeOK, RoomForSection, SectionsAreSound, ReadersCounted, NoWriterForgotten, LocaleNested
<1>2. CASE RwNext
  BY <1>2, LocaleCallKeeps, LocaleLockedKeeps, EndLocaleKeeps, ReadLockKeeps, ReadUnlockKeeps,
     WriteLoopKeeps, WriteUnlockKeeps, SpuriousKeeps DEF RwNext
<1>. QED BY <1>1, <1>2

LEMMA SectionInvariance == RwSpec => []SectionInv
  BY SectionInit, SectionNext, PTL DEF RwSpec

\* Every variable keeps its type, for any threads and nesting.
THEOREM SectionTypes == RwSpec => []RwTypeOK
  BY SectionInvariance, PTL DEF SectionInv

\* The counter of readers is exact, a writer is alone, no sleeping writer is
\* without another that will wake it, and the locale's mutex goes with its
\* sections.
THEOREM SectionsKept == RwSpec => []SectionsAreSound
  BY SectionInvariance, PTL DEF SectionInv

-----------------------------------------------------------------------------
(* The refinement.  What of env the abstract lock sees. *)
Side(e) == IF e \in {"reading", "writing"} THEN e ELSE "out"
Inside == [t \in Locker |-> Side(env[t])]

\* A step of t that does not enter or leave.
LEMMA StaysOutside ==
  ASSUME RwTypeOK, NEW t \in Locker, NEW p, env' = [env EXCEPT ![t] = p], Side(p) = Side(env[t])
  PROVE  Inside' = Inside
  BY DEF RwTypeOK, Inside

\* A step of t that does.
LEMMA Moves ==
  ASSUME RwTypeOK, NEW t \in Locker, NEW p, env' = [env EXCEPT ![t] = p]
  PROVE  Inside' = [Inside EXCEPT ![t] = Side(p)]
  BY DEF RwTypeOK, Inside

LEMMA StepRefines ==
  ASSUME SectionInv, [RwNext]_rwVars PROVE [Room!RoomNext]_Inside
<1>. USE DEF SectionInv
<1>1. ASSUME NEW t \in Locker, NEW b \in BOOLEAN, CallLocaleLock(t, b) PROVE Inside' = Inside
  BY <1>1, StaysOutside DEF CallLocaleLock, Side
<1>2. ASSUME NEW t \in Locker, LocaleLocked(t) PROVE Inside' = Inside
  BY <1>2, StaysOutside DEF LocaleLocked, Side
<1>3. ASSUME NEW t \in Locker, EndLocale(t) \/ SpuriousWakeupOfWriter(t) PROVE Inside' = Inside
  BY <1>3 DEF EndLocale, SpuriousWakeupOfWriter, Inside
<1>4. ASSUME NEW t \in Locker, EndBoth(t) PROVE Inside' = Inside
  BY <1>4, StaysOutside DEF EndBoth, Side
<1>5. ASSUME NEW t \in Locker, ReadLock(t) PROVE Room!RoomNext
  <2>1. Inside' = [Inside EXCEPT ![t] = "reading"]
    BY <1>5, Moves DEF ReadLock, Side
  <2>2. Inside[t] = "out" /\ \A u \in Locker : Inside[u] # "writing"
    BY <1>5 DEF ReadLock, EnvMutexFree, Inside, Side
  <2>3. Room!EnterToRead(t)
    BY <2>1, <2>2 DEF Room!EnterToRead, Inside, Side
  <2>. QED BY <2>3 DEF Room!RoomNext
<1>6. ASSUME NEW t \in Locker, ReadUnlock(t) \/ WriteUnlock(t) PROVE Room!RoomNext
  <2>1. Inside' = [Inside EXCEPT ![t] = "out"]
    BY <1>6, Moves DEF ReadUnlock, WriteUnlock, Side
  <2>2. Inside[t] # "out"
    BY <1>6 DEF ReadUnlock, WriteUnlock, Inside, Side
  <2>3. Room!Leave(t)
    BY <2>1, <2>2 DEF Room!Leave, Inside, Side
  <2>. QED BY <2>3 DEF Room!RoomNext
<1>7. ASSUME NEW t \in Locker, WriteLock(t) \/ WriteLockAgain(t)
      PROVE Room!RoomNext \/ Inside' = Inside
  <2>1. WriteLoop(t) /\ env[t] \in {"out", "waiting"}
    BY <1>7 DEF WriteLock, WriteLockAgain
  <2>2. CASE readers <= 0
    <3>1. Inside' = [Inside EXCEPT ![t] = "writing"]
      BY <2>1, <2>2, Moves DEF WriteLoop, Side
    <3>2. \A u \in Locker : Inside[u] = "out"
      BY <2>1, <2>2, NoReaders DEF WriteLoop, EnvMutexFree, Inside, Side
    <3>3. Room!EnterToWrite(t)
      BY <3>1, <3>2 DEF Room!EnterToWrite, Inside, Side
    <3>. QED BY <3>3 DEF Room!RoomNext
  <2>3. CASE ~(readers <= 0)
    BY <2>1, <2>3, StaysOutside DEF WriteLoop, Side
  <2>. QED BY <2>2, <2>3
<1>8. CASE UNCHANGED rwVars
  BY <1>8 DEF rwVars, Inside
<1>. QED BY <1>1, <1>2, <1>3, <1>4, <1>5, <1>6, <1>7, <1>8 DEF RwNext

\* The counter, the mutex and the condition variable implement the lock with
\* many readers or one writer.
THEOREM SectionsAreReadersWriter == RwSpec => ImplementsReadersWriter
<1>1. RwInit => Room!RoomInit
  BY DEF RwInit, Room!RoomInit
<1>2. SectionInv /\ [RwNext]_rwVars =>
        [Room!RoomNext]_[t \in Locker |-> IF env[t] \in {"reading", "writing"} THEN env[t] ELSE "out"]
  BY StepRefines DEF Inside, Side
<1>. QED BY <1>1, <1>2, SectionInvariance, PTL DEF RwSpec, ImplementsReadersWriter, Room!RoomSpec

=============================================================================
