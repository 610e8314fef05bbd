------------------------------ MODULE Ithreads ------------------------------
(***************************************************************************)
(* The life of a thread in dist/threads/threads.xs: creation, the run of   *)
(* its code, join, detach, the thread objects that interpreters hold, and  *)
(* the reference count that decides when the ithread structure is freed.   *)
(*                                                                         *)
(* Two kinds of mutex guard it: create_destruct_mutex (the pool's), for    *)
(* the list of threads and the counters, and one mutex in each structure.  *)
(* Neither is recursive (thread.h, MUTEX_INIT).  A stretch of code between *)
(* two lock operations is one action; a mutex that is taken and released   *)
(* with nothing in between that can block is not shown as held.            *)
(*                                                                         *)
(* Freeing nests: taking an interpreter apart frees the thread objects in  *)
(* it, and the last reference to another thread frees that one.  So what   *)
(* an OS thread is doing is a stack of frames.                             *)
(***************************************************************************)
EXTENDS Integers, Sequences, FiniteSets

CONSTANTS
  MaxThreads,   \* bound on the threads that are created
  MaxObjects,   \* bound on the objects for one thread in one interpreter
  ItScenario      \* what the program may do, see IthreadsAssumption

Main == 0
Tid == 1..MaxThreads
Actor == 0..MaxThreads      \* an OS thread, its interpreter, its structure
NoActor == -1

Ops == {"create", "fail", "join", "detach", "self", "list", "object",
        "destroy", "return", "die", "exit", "keep"}

\* A scenario is the set of calls that the code of each thread may make;
\* "fail", that pthread_create may fail for it; "keep", that the thread may
\* end with thread objects left in its interpreter.
ASSUME IthreadsAssumption ==
  /\ MaxThreads \in Nat /\ MaxObjects \in Nat
  /\ ItScenario \subseteq [Actor -> SUBSET Ops]

VARIABLES
  itScenario, \* never changes
  thread,   \* the ithread structures: count, state flags, interp, mutex
  pool,     \* MY_POOL: the owner of create_destruct_mutex, and the counters
  list,     \* the structures linked behind main_thread, in their order
  obj,      \* obj[i][x]: the objects for thread x in interpreter i
  stack,    \* stack[p]: what OS thread p is doing, innermost last; <<>>
            \* before it starts and after it has ended
  tid_counter,
  freed,    \* structures given back with PerlMemShared_free
  process   \* "up"; "exiting": someone has called exit; "cleaned": main has
            \* torn down what the threads share

itVars == <<itScenario, thread, pool, list, obj, stack, tid_counter, freed, process>>

Flags == {"DETACHED", "JOINED", "FINISHED", "DIED", "NONVIABLE"}
UNCALLABLE == {"DETACHED", "JOINED"}

NoTid == [count |-> 0, state |-> {}, interp |-> "none", mutex |-> NoActor]

ItFrame(at, x) == [at |-> at, x |-> x]
Inner(p) == stack[p][Len(stack[p])]
Outer(frames) == SubSeq(frames, 1, Len(frames) - 1)

Now(p, at) == stack[p] # <<>> /\ Inner(p).at = at
InCode(p, op) == Now(p, "code") /\ op \in itScenario[p]
Target(p) == Inner(p).x

Push(p, at, x) == stack' = [stack EXCEPT ![p] = Append(@, ItFrame(at, x))]
Pop(p) == stack' = [stack EXCEPT ![p] = Outer(@)]
GotoAt(p, at, x) == stack' = [stack EXCEPT ![p] = Append(Outer(@), ItFrame(at, x))]
Goto(p, at) == GotoAt(p, at, Target(p))

Is(x, flag) == flag \in thread[x].state
Callable(x) == thread[x].state \cap UNCALLABLE = {}
Unlocked(x) == thread[x].mutex = NoActor
PoolUnlocked == pool.mutex = NoActor

\* BOOT: the main thread is detached and immortal.
ItInit ==
  /\ itScenario \in ItScenario
  /\ thread = [x \in Actor |->
                 IF x = Main
                 THEN [count |-> 1, state |-> {"DETACHED"},
                       interp |-> "live", mutex |-> NoActor]
                 ELSE NoTid]
  /\ pool = [mutex |-> NoActor, running |-> 0, joinable |-> 0, detached |-> 0,
             total |-> 0]
  /\ list = <<>>
  /\ obj = [i \in Actor |-> [x \in Actor |-> 0]]
  /\ stack = [p \in Actor |-> IF p = Main THEN <<ItFrame("code", p)>> ELSE <<>>]
  /\ tid_counter = 1
  /\ freed = {}
  /\ process = "up"
-----------------------------------------------------------------------------
\* threads->create, up to the clone: the structure is linked and counted, with
\* one reference for the run, one for the object to be returned, one for
\* join or detach.  Both mutexes stay locked.
Create(p) ==
  /\ InCode(p, "create")
  /\ tid_counter \in Tid
  /\ PoolUnlocked
  /\ thread' = [thread EXCEPT ![tid_counter] =
                  [count |-> 3, state |-> {}, interp |-> "none", mutex |-> p]]
  /\ pool' = [pool EXCEPT !.mutex = p, !.total = @ + 1]
  /\ list' = Append(list, tid_counter)
  /\ tid_counter' = tid_counter + 1
  /\ Push(p, "clone", tid_counter)
  /\ UNCHANGED <<itScenario, obj, freed, process>>

\* ithread_mg_dup, for each object in the interpreter that is being cloned.
Dup(p, x) ==
  thread' = [y \in Actor |->
    IF y = x THEN [thread[x] EXCEPT !.interp = "live"]
             ELSE [thread[y] EXCEPT !.count = @ + obj[p][y]]]

\* perl_clone, then pthread_create.  The new thread waits for its mutex.
CloneAndStart(p) ==
  /\ Now(p, "clone")
  /\ \A y \in Actor : obj[p][y] > 0 => Unlocked(y)
  /\ Dup(p, Target(p))
  /\ obj' = [obj EXCEPT ![Target(p)] = obj[p]]
  /\ pool' = [pool EXCEPT !.mutex = NoActor, !.running = @ + 1]
  /\ stack' = [stack EXCEPT
                 ![p] = Append(Outer(@), ItFrame("give", Target(p))),
                 ![Target(p)] = <<ItFrame("start", Target(p))>>]
  /\ UNCHANGED <<itScenario, list, tid_counter, freed, process>>

\* pthread_create fails: the pool is unlocked before anything else.
CloneAndFail(p) ==
  /\ Now(p, "clone") /\ "fail" \in itScenario[p]
  /\ \A y \in Actor : obj[p][y] > 0 => Unlocked(y)
  /\ Dup(p, Target(p))
  /\ obj' = [obj EXCEPT ![Target(p)] = obj[p]]
  /\ pool' = [pool EXCEPT !.mutex = NoActor]
  /\ Goto(p, "nonviable")
  /\ UNCHANGED <<itScenario, list, tid_counter, freed, process>>

Nonviable(p) ==
  /\ Now(p, "nonviable")
  /\ thread' = [thread EXCEPT ![Target(p)].state = @ \cup {"NONVIABLE"}]
  /\ Goto(p, "free")
  /\ UNCHANGED <<itScenario, pool, list, obj, tid_counter, freed, process>>

\* The object is made, and the new thread let loose.
GiveObject(p) ==
  /\ Now(p, "give")
  /\ obj' = [obj EXCEPT ![p][Target(p)] = @ + 1]
  /\ thread' = [thread EXCEPT ![Target(p)].mutex = NoActor]
  /\ Pop(p)
  /\ UNCHANGED <<itScenario, pool, list, tid_counter, freed, process>>
-----------------------------------------------------------------------------
\* S_ithread_run, up to the call of the code.
Start(p) ==
  /\ Now(p, "start") /\ Unlocked(p)
  /\ Goto(p, "code")
  /\ UNCHANGED <<itScenario, thread, pool, list, obj, tid_counter, freed, process>>

\* The code returns, dies or calls exit; S_ithread_run locks the pool.
EndCode(p, how) ==
  /\ p # Main /\ InCode(p, how)
  /\ "keep" \in itScenario[p] \/ \A y \in Actor : obj[p][y] = 0
  /\ PoolUnlocked
  /\ pool' = [pool EXCEPT !.mutex = p]
  /\ Goto(p, how)
  /\ UNCHANGED <<itScenario, thread, list, obj, tid_counter, freed, process>>

\* The mark, and the counters that go with it.
Finish(p, how) ==
  /\ how \in {"return", "die", "exit"}
  /\ Now(p, how) /\ Unlocked(p)
  /\ thread' = [thread EXCEPT ![p].state = @ \cup {"FINISHED"}
                  \cup (IF how = "die" THEN {"DIED"} ELSE {})]
  /\ pool' = IF Is(p, "DETACHED")
             THEN [pool EXCEPT !.mutex = NoActor, !.detached = @ - 1]
             ELSE [pool EXCEPT !.mutex = NoActor, !.running = @ - 1,
                               !.joinable = @ + 1]
  /\ Goto(p, IF how = "exit" THEN "exit_app" ELSE "drop")
  /\ UNCHANGED <<itScenario, list, obj, tid_counter, freed, process>>

\* exit in a thread that is not thread-exit-only ends the application.
ExitApp(p) ==
  /\ Now(p, "exit_app") /\ PoolUnlocked
  /\ Goto(p, "gone")
  /\ process' = IF process = "up" THEN "exiting" ELSE process
  /\ UNCHANGED <<itScenario, thread, pool, list, obj, tid_counter, freed>>

\* The main program ends: perl_destruct asks Perl_ithread_hook, which vetoes
\* the cleanup while any structure exists.
MainExit ==
  /\ InCode(Main, "exit") /\ PoolUnlocked
  /\ process' = IF pool.total > 0 \/ process # "up" THEN "exiting" ELSE "cleaned"
  /\ Goto(Main, "gone")
  /\ UNCHANGED <<itScenario, thread, pool, list, obj, tid_counter, freed>>
-----------------------------------------------------------------------------
\* S_ithread_free, up to the unlock: with the mutex locked by the caller
\* ("free"), or after ithread_mg_free or S_ithread_run has locked it ("drop").
Free(p) ==
  LET x == Target(p)
      last == Is(x, "NONVIABLE") \/ thread[x].count = 1
  IN  /\ Now(p, "free") \/ (Now(p, "drop") /\ Unlocked(x))
      /\ thread' = [thread EXCEPT ![x].mutex = NoActor,
                      ![x].count = IF Is(x, "NONVIABLE") THEN @ ELSE @ - 1]
      /\ IF last THEN Goto(p, "unlink") ELSE Pop(p)
      /\ UNCHANGED <<itScenario, pool, list, obj, tid_counter, freed, process>>

\* The place of x in the list.
Place(x) == CHOOSE i \in DOMAIN list : list[i] = x

Unlink(p) ==
  /\ Now(p, "unlink") /\ PoolUnlocked
  /\ LET i == Place(Target(p))
     IN  list' = SubSeq(list, 1, i - 1) \o SubSeq(list, i + 1, Len(list))
  /\ Goto(p, "dispose")
  /\ UNCHANGED <<itScenario, thread, pool, obj, tid_counter, freed, process>>

\* Locks x's mutex, clears x, and goes on at "at", with the mutex.
LockAndClear(p, x, at) ==
  /\ thread' = [thread EXCEPT ![x].mutex = p]
  /\ stack' = [stack EXCEPT ![p] = Outer(@) \o <<ItFrame(at, x), ItFrame("clear", x)>>]

Dispose(p) ==
  /\ Now(p, "dispose") /\ Unlocked(Target(p))
  /\ LockAndClear(p, Target(p), "release")
  /\ UNCHANGED <<itScenario, pool, list, obj, tid_counter, freed, process>>

\* S_ithread_clear: perl_destruct frees the objects in the interpreter, in an
\* order of its own, each with an ithread_mg_free ...
ClearObject(p, y) ==
  /\ Now(p, "clear") /\ thread[Target(p)].interp = "live"
  /\ obj[Target(p)][y] > 0
  /\ obj' = [obj EXCEPT ![Target(p)][y] = @ - 1]
  /\ Push(p, "drop", y)
  /\ UNCHANGED <<itScenario, thread, pool, list, tid_counter, freed, process>>

\* ... and the interpreter is freed, unless it already was.
ClearDone(p) ==
  LET x == Target(p)
  IN  /\ Now(p, "clear")
      /\ thread[x].interp = "live" => \A y \in Actor : obj[x][y] = 0
      /\ thread' = [thread EXCEPT ![x].interp = "none"]
      /\ Pop(p)
      /\ UNCHANGED <<itScenario, pool, list, obj, tid_counter, freed, process>>

\* The mutex is destroyed and the structure given back.
Unlock(p) ==
  /\ Now(p, "release")
  /\ thread' = [thread EXCEPT ![Target(p)].mutex = NoActor]
  /\ freed' = freed \cup {Target(p)}
  /\ Goto(p, "uncount")
  /\ UNCHANGED <<itScenario, pool, list, obj, tid_counter, process>>

\* The very last thing: the main thread may clean up now.
Uncount(p) ==
  /\ Now(p, "uncount") /\ PoolUnlocked
  /\ pool' = [pool EXCEPT !.total = @ - 1]
  /\ Pop(p)
  /\ UNCHANGED <<itScenario, thread, list, obj, tid_counter, freed, process>>
-----------------------------------------------------------------------------
\* Mutant of JoinMark: the mutex is kept until the thread has been joined.
JoinMarkKeepsMutex(p, x) ==
  /\ InCode(p, "join") /\ obj[p][x] > 0
  /\ Unlocked(x) /\ Callable(x) /\ x # p
  /\ thread' = [thread EXCEPT ![x].state = @ \cup {"JOINED"}, ![x].mutex = p]
  /\ Push(p, "join", x)
  /\ UNCHANGED <<itScenario, pool, list, obj, tid_counter, freed, process>>

\* $thr->join (which croaks on a thread that is not callable, or is itself).
JoinMark(p, x) ==
  /\ InCode(p, "join") /\ obj[p][x] > 0
  /\ Unlocked(x) /\ Callable(x) /\ x # p
  /\ thread' = [thread EXCEPT ![x].state = @ \cup {"JOINED"}]
  /\ Push(p, "join", x)
  /\ UNCHANGED <<itScenario, pool, list, obj, tid_counter, freed, process>>

\* Mutant of JoinCount: joinable_threads is changed without the pool's mutex.
JoinCountUnlocked(p) ==
  /\ Now(p, "join")
  /\ pool' = [pool EXCEPT !.joinable = @ - 1]
  /\ Goto(p, "join_wait")
  /\ UNCHANGED <<itScenario, thread, list, obj, tid_counter, freed, process>>

\* Even if the thread still runs: its end will count it.
JoinCount(p) ==
  /\ Now(p, "join") /\ PoolUnlocked
  /\ pool' = [pool EXCEPT !.joinable = @ - 1]
  /\ Goto(p, "join_wait")
  /\ UNCHANGED <<itScenario, thread, list, obj, tid_counter, freed, process>>

\* pthread_join; the interpreter of a thread that died is kept for err.
JoinWait(p) ==
  LET x == Target(p)
  IN  /\ Now(p, "join_wait") /\ stack[x] = <<>> /\ Unlocked(x)
      /\ IF Is(x, "DIED")
         THEN Goto(p, "free") /\ thread' = [thread EXCEPT ![x].mutex = p]
         ELSE LockAndClear(p, x, "free")
      /\ UNCHANGED <<itScenario, pool, list, obj, tid_counter, freed, process>>

\* $thr->detach, or threads->detach for the thread itself: first the pool.
Detach(p, x) ==
  /\ InCode(p, "detach") /\ (obj[p][x] > 0 \/ x = p)
  /\ PoolUnlocked
  /\ pool' = [pool EXCEPT !.mutex = p]
  /\ Push(p, "detach", x)
  /\ UNCHANGED <<itScenario, thread, list, obj, tid_counter, freed, process>>

\* Mutant of DetachMark: a joined thread may be detached.
DetachMarkJoined(p) ==
  LET x == Target(p)
  IN  /\ Now(p, "detach") /\ Unlocked(x)
      /\ IF ~Is(x, "DETACHED")
         THEN /\ thread' = [thread EXCEPT ![x].state = @ \cup {"DETACHED"}]
              /\ pool' = IF Is(x, "FINISHED")
                         THEN [pool EXCEPT !.mutex = NoActor, !.joinable = @ - 1]
                         ELSE [pool EXCEPT !.mutex = NoActor, !.running = @ - 1,
                                           !.detached = @ + 1]
              /\ Goto(p, "detached")
         ELSE /\ pool' = [pool EXCEPT !.mutex = NoActor]
              /\ Pop(p)
              /\ UNCHANGED thread
      /\ UNCHANGED <<itScenario, list, obj, tid_counter, freed, process>>

\* With both mutexes: the mark and the counters, or a croak.
DetachMark(p) ==
  LET x == Target(p)
  IN  /\ Now(p, "detach") /\ Unlocked(x)
      /\ IF Callable(x)
         THEN /\ thread' = [thread EXCEPT ![x].state = @ \cup {"DETACHED"}]
              /\ pool' = IF Is(x, "FINISHED")
                         THEN [pool EXCEPT !.mutex = NoActor, !.joinable = @ - 1]
                         ELSE [pool EXCEPT !.mutex = NoActor, !.running = @ - 1,
                                           !.detached = @ + 1]
              /\ Goto(p, "detached")
         ELSE /\ pool' = [pool EXCEPT !.mutex = NoActor]
              /\ Pop(p)
              /\ UNCHANGED thread
      /\ UNCHANGED <<itScenario, list, obj, tid_counter, freed, process>>

\* If the thread has finished, its interpreter goes, and its reference.
DetachFree(p) ==
  LET x == Target(p)
  IN  /\ Now(p, "detached") /\ Unlocked(x)
      /\ IF Is(x, "FINISHED") /\ ~Is(x, "DIED")
         THEN LockAndClear(p, x, "free")
         ELSE Goto(p, "free") /\ thread' = [thread EXCEPT ![x].mutex = p]
      /\ UNCHANGED <<itScenario, pool, list, obj, tid_counter, freed, process>>
-----------------------------------------------------------------------------
\* S_ithread_to_SV with its count_inc: p gets an object for x.
NewObject(p, x) ==
  /\ Unlocked(x)
  /\ thread' = [thread EXCEPT ![x].count = @ + 1]
  /\ obj' = [obj EXCEPT ![p][x] = @ + 1]

\* threads->self
Self(p) ==
  /\ InCode(p, "self") /\ obj[p][p] < MaxObjects
  /\ NewObject(p, p)
  /\ UNCHANGED <<itScenario, pool, list, stack, tid_counter, freed, process>>

\* The walks of threads->list and threads->object: with the pool locked, from
\* one structure to the next, or to the one that was asked for.
Taking == [all |-> "take_all", running |-> "take_running",
           joinable |-> "take_joinable", object |-> "take_object"]
Walks == DOMAIN Taking

Walk(p, want, x) ==
  /\ InCode(p, IF want = "object" THEN "object" ELSE "list")
  /\ PoolUnlocked
  /\ list # <<>>
  /\ IF want = "object" THEN x \in {list[i] : i \in DOMAIN list} \ {p}
                        ELSE x = Head(list)
  /\ \A y \in Actor : obj[p][y] < MaxObjects
  /\ pool' = [pool EXCEPT !.mutex = p]
  /\ Push(p, want, x)
  /\ UNCHANGED <<itScenario, thread, list, obj, tid_counter, freed, process>>

\* On to the structure behind Target(p), or out of the walk.
Advance(p, want) ==
  LET i == Place(Target(p))
  IN  IF want = "object" \/ i = Len(list)
      THEN Pop(p) /\ pool' = [pool EXCEPT !.mutex = NoActor]
      ELSE GotoAt(p, want, list[i + 1]) /\ UNCHANGED pool

Wanted(x, want) ==
  /\ Callable(x)
  /\ want = "running" => ~Is(x, "FINISHED")
  /\ want = "joinable" => Is(x, "FINISHED")

\* The state is read under the structure's mutex, which is unlocked again ...
Look(p, want) ==
  /\ Now(p, want) /\ Unlocked(Target(p))
  /\ IF Wanted(Target(p), want)
     THEN Goto(p, Taking[want]) /\ UNCHANGED pool
     ELSE Advance(p, want)
  /\ UNCHANGED <<itScenario, thread, list, obj, tid_counter, freed, process>>

\* ... and locked once more for the count.
TakeObject(p, want) ==
  /\ Now(p, Taking[want])
  /\ NewObject(p, Target(p))
  /\ Advance(p, want)
  /\ UNCHANGED <<itScenario, list, tid_counter, freed, process>>

\* The last Perl reference to an object goes: DESTROY, ithread_mg_free.
Destroy(p, x) ==
  /\ InCode(p, "destroy") /\ obj[p][x] > 0
  /\ obj' = [obj EXCEPT ![p][x] = @ - 1]
  /\ Push(p, "drop", x)
  /\ UNCHANGED <<itScenario, thread, pool, list, tid_counter, freed, process>>
-----------------------------------------------------------------------------
ItNext ==
  \/ \E p \in Actor :
       \/ Create(p) \/ CloneAndStart(p) \/ CloneAndFail(p) \/ Nonviable(p)
       \/ GiveObject(p)
       \/ Start(p) \/ ExitApp(p)
       \/ \E how \in {"return", "die", "exit"} : EndCode(p, how) \/ Finish(p, how)
       \/ Free(p) \/ Unlink(p) \/ Dispose(p) \/ ClearDone(p) \/ Unlock(p)
       \/ Uncount(p)
       \/ JoinCount(p) \/ JoinWait(p) \/ DetachMark(p) \/ DetachFree(p)
       \/ Self(p)
       \/ \E want \in Walks : Look(p, want) \/ TakeObject(p, want)
       \/ \E x \in Actor :
            \/ ClearObject(p, x)
            \/ JoinMark(p, x) \/ Detach(p, x) \/ Destroy(p, x)
            \/ \E want \in Walks : Walk(p, want, x)
  \/ MainExit

ItSpec == ItInit /\ [][ItNext]_itVars
-----------------------------------------------------------------------------
\* Frames that own a reference to their thread, and those that own two.
Running == {"start", "code", "return", "die", "exit", "exit_app", "gone"}
Owning == Running \cup {"drop", "free", "give", "join", "join_wait", "detached"}
OwningTwo == {"clone", "nonviable"}
Labels == Owning \cup OwningTwo \cup Walks \cup {Taking[w] : w \in Walks}
          \cup {"unlink", "dispose", "clear", "release", "uncount", "detach"}

ItTypeOK ==
  /\ itScenario \in ItScenario
  /\ thread \in [Actor -> [count : Nat, state : SUBSET Flags,
                          interp : {"none", "live"}, mutex : Actor \cup {NoActor}]]
  /\ pool \in [mutex : Actor \cup {NoActor}, running : Nat, joinable : Int,
               detached : Nat, total : Nat]
  /\ list \in Seq(Tid)
  /\ obj \in [Actor -> [Actor -> Nat]]
  /\ stack \in [Actor -> Seq([at : Labels, x : Actor])]
  /\ tid_counter \in 1..(MaxThreads + 1)
  /\ freed \subseteq Tid
  /\ process \in {"up", "exiting", "cleaned"}

Created == 1..(tid_counter - 1)
Frames(p) == {stack[p][k] : k \in DOMAIN stack[p]}

\* The objects for x, and the frames that own a reference to it, or two.
Objects(x) == UNION {{<<i, n>> : n \in 1..obj[i][x]} : i \in Actor}
FramesAt(x, labels) ==
  UNION {{<<p, k>> : k \in {k \in DOMAIN stack[p] :
                             stack[p][k].x = x /\ stack[p][k].at \in labels}} : p \in Actor}

\* Everything that refers to x: objects, frames, and the duty of a join or a
\* detach that is still to come.
References(x) ==
  (IF Callable(x) THEN 1 ELSE 0) + Cardinality(Objects(x))
    + Cardinality(FramesAt(x, Owning \cup OwningTwo)) + Cardinality(FramesAt(x, OwningTwo))

\* The count in a structure is the number of references to it, through clones
\* of the interpreters that hold the objects, joins, detaches and nested
\* destruction ("See S_ithread_create", threads.xs:87 and 814-820).
CountsReferences ==
  \A x \in Created \cup {Main} :
    ~Is(x, "NONVIABLE") => thread[x].count = References(x)

\* Nobody is left with a reference to a structure that has been freed: no
\* object, and no OS thread in the middle of something with it.
NoDangling ==
  \A x \in freed :
    /\ \A i \in Actor : obj[i][x] = 0
    /\ \A p \in Actor : \A f \in Frames(p) : f.x = x => f.at = "uncount"

\* The assertions of S_ithread_clear (221) and S_ithread_free (297): what is
\* taken apart has finished, and nobody can join or detach it any more.
AssertionsHold ==
  \A p \in Actor : \A f \in Frames(p) :
    f.at \in {"clear", "unlink", "dispose", "release"} =>
      Is(f.x, "NONVIABLE") \/ (Is(f.x, "FINISHED") /\ ~Callable(f.x))

\* The assertion before a structure is unlinked (threads.xs:306): it is in the
\* list, so nobody has unlinked it already.
UnlinkedOnce ==
  \A p \in Actor : \A f \in Frames(p) :
    f.at = "unlink" => \E i \in DOMAIN list : list[i] = f.x

\* Once the main thread has cleaned up what all threads share, no other OS
\* thread is left that could touch it ("veto_cleanup", threads.xs:333).
CleanupComesLast ==
  process = "cleaned" => \A p \in Actor \ {Main} : stack[p] = <<>>

Viable == {x \in Created : ~Is(x, "NONVIABLE") /\ \A p \in Actor :
                              ItFrame("clone", x) \notin Frames(p)
                              /\ ItFrame("nonviable", x) \notin Frames(p)}
Joined == {x \in Viable : Is(x, "JOINED") /\ \A p \in Actor :
                             ItFrame("join", x) \notin Frames(p)}

\* The counters of the warning "Perl exited with active threads" say what the
\* structures say, up to a join of a running thread, which is counted before
\* the thread's end: joinable_threads is then short by one.
CountersAgree ==
  PoolUnlocked =>
    /\ pool.running = Cardinality({x \in Viable :
                        ~Is(x, "FINISHED") /\ ~Is(x, "DETACHED")})
    /\ pool.detached = Cardinality({x \in Viable :
                        ~Is(x, "FINISHED") /\ Is(x, "DETACHED")})
    /\ pool.joinable = Cardinality({x \in Viable :
                        Is(x, "FINISHED") /\ ~Is(x, "DETACHED")})
                      - Cardinality(Joined)

\* A structure lives exactly as long as something refers to it, what all
\* structures share outlives the other OS threads, and both are counted right.
LivesAreCounted ==
  /\ CountsReferences /\ NoDangling /\ AssertionsHold /\ UnlinkedOnce
  /\ CleanupComesLast /\ CountersAgree

\* The mutex that p must have to go on is q's.
BlockedBy(p, q) ==
  /\ stack[p] # <<>>
  /\ LET f == Inner(p)
     IN  \/ f.at \in {"join", "unlink", "uncount", "exit_app"} /\ pool.mutex = q
         \/ /\ f.at \in Walks \cup {Taking[w] : w \in Walks}
                        \cup {"start", "return", "die", "exit", "drop", "dispose",
                              "join_wait", "detach", "detached"}
            /\ thread[f.x].mutex = q
         \/ f.at = "clone" /\ \E y \in Actor : obj[p][y] > 0 /\ thread[y].mutex = q

\* No circle of OS threads each of which waits for a mutex that the next one
\* has.  (A thread alone can be one: the mutexes are not recursive.)
NoLockCycle ==
  \A S \in (SUBSET Actor) \ {{}} :
    \E p \in S : \A q \in S : ~BlockedBy(p, q)
=============================================================================
