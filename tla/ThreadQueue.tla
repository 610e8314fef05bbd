---------------------------- MODULE ThreadQueue ----------------------------
(***************************************************************************)
(* Thread::Queue (dist/Thread-Queue/lib/Thread/Queue.pm): a shared array,  *)
(* a LIMIT and an ENDED flag in one shared hash, guarded by the hash's     *)
(* lock, with the hash's one condition variable for everybody: dequeuers   *)
(* short of items, enqueuers at the limit.                                 *)
(*                                                                         *)
(* Every method starts with lock(%$self), so what it does up to a          *)
(* cond_wait or its return is one action, and what it does after a wake-up *)
(* another.  The exception is the limit: "$q->limit = N" assigns through   *)
(* an lvalue after the method has returned and its lock is gone, so the    *)
(* two reads of LIMIT in enqueue's loop are two actions.                   *)
(*                                                                         *)
(* The locks themselves are SharedLock's subject.                          *)
(***************************************************************************)
EXTENDS Integers, Sequences, FiniteSets

CONSTANTS
  Thread,
  Scenario,    \* what the program may do, see QueueAssumption
  MaxItems     \* bound on the items handed to enqueue and insert

Ops == {"enqueue", "insert", "dequeue", "dequeue_nb", "dequeue_timed",
        "extract", "limit", "end"}

\* n: COUNT, or the length of LIST; at: INDEX, or the new limit.
Call == [op : Ops, n : Nat, at : Int]

\* A scenario is the calls that each thread may make, in any order and any
\* number of times, and the limit set before the threads start (0 for none).
ASSUME QueueAssumption ==
  /\ Scenario \subseteq [calls : [Thread -> SUBSET Call], limit : Nat]
  /\ \A s \in Scenario, t \in Thread :
       \A c \in s.calls[t] : c.op = "limit" => c.at \in Nat
  /\ MaxItems \in Nat

VARIABLES
  scenario, \* never changes
  queue,    \* @{$$self{'queue'}}: items are numbered in the order in which
            \* calls ask for them to be added
  limit,    \* $$self{'LIMIT'}; undef and 0 are both "no limit"
  ended,    \* $$self{'ENDED'}
  pc,       \* "idle"; "enter": called, without the lock; "wait": in
            \* cond_wait or cond_timedwait; "test": in enqueue's while
            \* condition, with the lock, between the two reads of LIMIT;
            \* "late": out of a cond_timedwait whose deadline has passed
  call,     \* the call that t is making, or NoCall
  first,    \* the number of the first item of that call
  asleep,   \* threads in cond_wait or cond_timedwait that nothing has woken
  asked,    \* items handed to enqueue and insert so far
  added,    \* items that have been on the queue
  removed   \* items that have been taken off it

vars == <<scenario, queue, limit, ended, pc, call, first, asleep, asked, added,
          removed>>

NoCall == [op |-> "end", n |-> 0, at |-> 0]

Items(s) == {s[i] : i \in DOMAIN s}
Smaller(a, b) == IF a < b THEN a ELSE b
Larger(a, b) == IF a > b THEN a ELSE b

Init ==
  /\ queue = <<>>
  /\ scenario \in Scenario
  /\ limit = scenario.limit
  /\ ended = FALSE
  /\ pc = [t \in Thread |-> "idle"]
  /\ call = [t \in Thread |-> NoCall]
  /\ first = [t \in Thread |-> 0]
  /\ asleep = {}
  /\ asked = 0 /\ added = {} /\ removed = {}

\* Nobody holds the hash's lock between two actions except in enqueue's test.
LockFree == \A t \in Thread : pc[t] # "test"

\* t runs in method op: it has just got the lock, or is back from cond_wait.
Entering(t, op) == pc[t] = "enter" /\ call[t].op = op /\ LockFree
Resuming(t, op) ==
  pc[t] = "wait" /\ t \notin asleep /\ call[t].op = op /\ LockFree
Running(t, op) == Entering(t, op) \/ Resuming(t, op)

\* cond_signal(%$self): one sleeper, if there is one.
CondSignal ==
  IF asleep = {} THEN UNCHANGED asleep
                 ELSE \E t \in asleep : asleep' = asleep \ {t}

Returns(t) ==
  /\ pc' = [pc EXCEPT ![t] = "idle"]
  /\ call' = [call EXCEPT ![t] = NoCall]
  /\ first' = [first EXCEPT ![t] = 0]

CondWaits(t) ==
  /\ pc' = [pc EXCEPT ![t] = "wait"]
  /\ asleep' = asleep \cup {t}
  /\ UNCHANGED <<scenario, queue, limit, ended, call, first, asked, added,
                 removed>>

\* A croak, or a return that touches nothing.
ReturnsAtOnce(t) ==
  /\ Returns(t)
  /\ UNCHANGED <<scenario, queue, limit, ended, asleep, asked, added, removed>>
-----------------------------------------------------------------------------
\* A thread calls a method.  The items of enqueue and insert are numbered here.
CallMethod(t, c) ==
  /\ pc[t] = "idle"
  /\ c \in scenario.calls[t]
  /\ LET n == IF c.op \in {"enqueue", "insert"} THEN c.n ELSE 0
     IN  /\ asked + n <= MaxItems
         /\ asked' = asked + n
         /\ first' = [first EXCEPT ![t] = asked + 1]
  /\ pc' = [pc EXCEPT ![t] = "enter"]
  /\ call' = [call EXCEPT ![t] = c]
  /\ UNCHANGED <<scenario, queue, limit, ended, asleep, added, removed>>

\* Mutant of NewItems: counts from the wrong end.
NewItemsShifted(t) == [i \in 1..call[t].n |-> first[t] + i]

NewItems(t) == [i \in 1..call[t].n |-> first[t] + i - 1]

\* push(@$queue, LIST) and cond_signal: push returns the new length, so
\* nothing is signalled when the queue is still empty.
Push(t) ==
  /\ queue' = queue \o NewItems(t)
  /\ added' = added \cup Items(NewItems(t))
  /\ IF queue' = <<>> THEN UNCHANGED asleep ELSE CondSignal
  /\ Returns(t)
  /\ UNCHANGED <<scenario, limit, ended, asked, removed>>

\* Mutant of EnqueueTest: a woken enqueuer does not look at the length again.
EnqueueTestOnce(t) ==
  /\ Running(t, "enqueue")
  /\ \/ pc[t] = "enter" /\ ended /\ ReturnsAtOnce(t)
     \/ (pc[t] = "wait" \/ limit = 0) /\ Push(t)
     \/ /\ pc[t] = "enter" /\ ~ended /\ limit # 0
        /\ pc' = [pc EXCEPT ![t] = "test"]
        /\ UNCHANGED <<scenario, queue, limit, ended, call, first, asleep,
                       asked, added, removed>>

\* The first read of LIMIT in enqueue's loop, after the ENDED check on entry
\* (which is not made again after a cond_wait).
EnqueueTest(t) ==
  /\ Running(t, "enqueue")
  /\ IF pc[t] = "enter" /\ ended
     THEN ReturnsAtOnce(t)
     ELSE \/ limit = 0 /\ Push(t)
          \/ /\ limit # 0
             /\ pc' = [pc EXCEPT ![t] = "test"]
             /\ UNCHANGED <<scenario, queue, limit, ended, call, first, asleep,
                            asked, added, removed>>

\* The second read.
EnqueueCompare(t) ==
  /\ pc[t] = "test"
  /\ IF Len(queue) >= limit THEN CondWaits(t) ELSE Push(t)
-----------------------------------------------------------------------------
\* Mutants of TakeHead: no cond_signal; one item too many is shifted off.
TakeHeadSilently(t, n) ==
  LET k == Smaller(n, Len(queue))
  IN  /\ queue' = SubSeq(queue, k + 1, Len(queue))
      /\ removed' = removed \cup Items(SubSeq(queue, 1, k))
      /\ Returns(t)
      /\ UNCHANGED <<scenario, limit, ended, asleep, asked, added>>

TakeHeadTooMuch(t, n) ==
  LET k == Smaller(n, Len(queue))
  IN  /\ queue' = SubSeq(queue, k + 2, Len(queue))
      /\ removed' = removed \cup Items(SubSeq(queue, 1, k))
      /\ CondSignal
      /\ Returns(t)
      /\ UNCHANGED <<scenario, limit, ended, asked, added>>

\* Takes n items, or as many as there are, off the head, and signals.
TakeHead(t, n) ==
  LET k == Smaller(n, Len(queue))
  IN  /\ queue' = SubSeq(queue, k + 1, Len(queue))
      /\ removed' = removed \cup Items(SubSeq(queue, 1, k))
      /\ CondSignal
      /\ Returns(t)
      /\ UNCHANGED <<scenario, limit, ended, asked, added>>

\* _validate_count: at least 1, and no more than a limit.
BadCount(t) == call[t].n < 1 \/ (limit # 0 /\ call[t].n > limit)

Short(t) == Len(queue) < call[t].n /\ ~ended

\* Mutant of Dequeue: "if" for "while", a woken thread takes what there is.
DequeueNoLoop(t) ==
  /\ Running(t, "dequeue")
  /\ \/ pc[t] = "enter" /\ BadCount(t) /\ ReturnsAtOnce(t)
     \/ pc[t] = "enter" /\ ~BadCount(t) /\ Short(t) /\ CondWaits(t)
     \/ (pc[t] = "wait" \/ ~(BadCount(t) \/ Short(t))) /\ TakeHead(t, call[t].n)

\* dequeue(COUNT).  After end it hands over to dequeue_nb, which validates the
\* count again (the limit may have changed while it waited).
Dequeue(t) ==
  LET croaks == (pc[t] = "enter" \/ ended) /\ BadCount(t)
  IN  /\ Running(t, "dequeue")
      /\ \/ croaks /\ ReturnsAtOnce(t)
         \/ ~croaks /\ Short(t) /\ CondWaits(t)
         \/ ~croaks /\ ~Short(t) /\ TakeHead(t, call[t].n)

DequeueNb(t) ==
  /\ Entering(t, "dequeue_nb")
  /\ IF BadCount(t) THEN ReturnsAtOnce(t) ELSE TakeHead(t, call[t].n)

\* dequeue_timed(TIMEOUT, COUNT): wait while short, but only until the
\* deadline; then dequeue_nb, which validates the count again.
DequeueTimed(t) ==
  /\ \/ Running(t, "dequeue_timed")
     \/ pc[t] = "late" /\ LockFree
  /\ LET waits == Short(t) /\ pc[t] # "late" /\ (pc[t] = "wait" \/ ~BadCount(t))
     IN  \/ waits /\ CondWaits(t)
         \/ ~waits /\ BadCount(t) /\ ReturnsAtOnce(t)
         \/ ~waits /\ ~BadCount(t) /\ TakeHead(t, call[t].n)
-----------------------------------------------------------------------------
\* Mutant of Insert: the items behind the index are not pushed back.
InsertCutsTail(t) ==
  /\ Entering(t, "insert") /\ ~ended /\ call[t].n > 0 /\ call[t].at >= 0
  /\ queue' = SubSeq(queue, 1, Smaller(call[t].at, Len(queue))) \o NewItems(t)
  /\ added' = added \cup Items(NewItems(t))
  /\ CondSignal
  /\ Returns(t)
  /\ UNCHANGED <<scenario, limit, ended, asked, removed>>

\* insert(INDEX, LIST): a negative index counts from the end and stops at the
\* head; one beyond the tail is the tail.
Insert(t) ==
  /\ Entering(t, "insert")
  /\ IF ended \/ call[t].n = 0
     THEN ReturnsAtOnce(t)
     ELSE LET at == call[t].at
              i  == IF at < 0 THEN Larger(at + Len(queue), 0)
                              ELSE Smaller(at, Len(queue))
          IN  /\ queue' = SubSeq(queue, 1, i) \o NewItems(t)
                          \o SubSeq(queue, i + 1, Len(queue))
              /\ added' = added \cup Items(NewItems(t))
              /\ CondSignal
              /\ Returns(t)
              /\ UNCHANGED <<scenario, limit, ended, asked, removed>>

\* What extract cuts out: items i+1 .. i+n, as far as they exist.
CutOut(t, i, n) ==
  LET len  == Len(queue)
      from == Smaller(i, len)
      to   == Smaller(i + n, len)
  IN  /\ queue' = SubSeq(queue, 1, from) \o SubSeq(queue, to + 1, len)
      /\ removed' = removed \cup Items(SubSeq(queue, from + 1, to))
      /\ CondSignal
      /\ Returns(t)
      /\ UNCHANGED <<scenario, limit, ended, asked, added>>

\* Mutant of Extract: a negative index beyond the head is taken as the head,
\* without shortening the count.
ExtractFromHead(t) ==
  /\ Entering(t, "extract")
  /\ IF BadCount(t) THEN ReturnsAtOnce(t)
     ELSE CutOut(t, IF call[t].at < 0 THEN Larger(call[t].at + Len(queue), 0)
                    ELSE call[t].at, call[t].n)

\* extract(INDEX, COUNT).  A negative index beyond the head leaves the part of
\* the count that overlaps the queue to dequeue_nb (whose own check of the
\* smaller count cannot fail).
Extract(t) ==
  /\ Entering(t, "extract")
  /\ LET at == call[t].at
         n  == call[t].n
         i  == IF at < 0 THEN at + Len(queue) ELSE at
     IN  \/ /\ BadCount(t) \/ (i < 0 /\ n + i <= 0)
            /\ ReturnsAtOnce(t)
         \/ ~BadCount(t) /\ i < 0 /\ n + i > 0 /\ TakeHead(t, n + i)
         \/ ~BadCount(t) /\ i >= 0 /\ CutOut(t, i, n)
-----------------------------------------------------------------------------
\* "$q->limit = N": limit() locks, returns the lvalue and unlocks; the
\* assignment comes after that, with no lock held and no signal.
SetLimit(t) ==
  /\ pc[t] = "enter" /\ call[t].op = "limit"
  /\ limit' = call[t].at
  /\ Returns(t)
  /\ UNCHANGED <<scenario, queue, ended, asleep, asked, added, removed>>

\* Mutant of End: nobody is told.
EndSilently(t) ==
  /\ Entering(t, "end")
  /\ ended' = TRUE
  /\ Returns(t)
  /\ UNCHANGED <<scenario, queue, limit, asleep, asked, added, removed>>

End(t) ==
  /\ Entering(t, "end")
  /\ ended' = TRUE
  /\ CondSignal
  /\ Returns(t)
  /\ UNCHANGED <<scenario, queue, limit, asked, added, removed>>

\* The deadline of dequeue_timed passes; or cond_wait returns for no reason.
Timeout(t) ==
  /\ t \in asleep /\ call[t].op = "dequeue_timed"
  /\ asleep' = asleep \ {t}
  /\ pc' = [pc EXCEPT ![t] = "late"]
  /\ UNCHANGED <<scenario, queue, limit, ended, call, first, asked, added,
                 removed>>

SpuriousWakeup(t) ==
  /\ t \in asleep
  /\ asleep' = asleep \ {t}
  /\ UNCHANGED <<scenario, queue, limit, ended, pc, call, first, asked, added,
                 removed>>

\* What thread t does once it is in a method and not asleep.
Step(t) ==
  \/ EnqueueTest(t) \/ EnqueueCompare(t)
  \/ Dequeue(t) \/ DequeueNb(t) \/ DequeueTimed(t)
  \/ Insert(t) \/ Extract(t)
  \/ SetLimit(t) \/ End(t)

Next ==
  \E t \in Thread :
    \/ \E c \in scenario.calls[t] : CallMethod(t, c)
    \/ Step(t)
    \/ Timeout(t)
    \/ SpuriousWakeup(t)

Spec == Init /\ [][Next]_vars

\* A thread inside a method gets the lock and goes on; deadlines pass.
\* Nothing makes a thread call a method.
FairSpec ==
  Spec /\ \A t \in Thread : WF_vars(Step(t)) /\ WF_vars(Timeout(t))
-----------------------------------------------------------------------------
TypeOK ==
  /\ scenario \in Scenario
  /\ queue \in Seq(1..MaxItems)
  /\ limit \in Nat
  /\ ended \in BOOLEAN
  /\ pc \in [Thread -> {"idle", "enter", "wait", "late", "test"}]
  /\ call \in [Thread -> Call]
  /\ first \in [Thread -> Nat]
  /\ asleep \subseteq {t \in Thread : pc[t] = "wait"}
  /\ asked \in 0..MaxItems
  /\ added \subseteq 1..MaxItems
  /\ removed \subseteq added

\* The queue holds, once each, the items that were added and not removed:
\* nothing is lost or doubled by enqueue, insert and extract at any index,
\* or by a dequeue that takes less than its count.
NothingLost ==
  /\ Items(queue) = added \ removed
  /\ Len(queue) = Cardinality(Items(queue))

\* insert puts its items side by side in front of the item at its index, where
\* a negative index counts from the end and anything out of range means the
\* head or the tail; extract takes the items whose positions the index and the
\* count cover, even when the index lies before the head.
IndexesMeanPositions ==
  [][\A t \in Thread :
       LET at == call[t].at
           n  == call[t].n
           i  == IF at < 0 THEN at + Len(queue) ELSE at
       IN  pc[t] = "enter" /\ pc'[t] = "idle" =>
             /\ call[t].op = "insert" /\ queue' # queue =>
                  \E p \in 0..Len(queue) :
                    /\ \A q \in 0..Len(queue) :
                         Larger(p - i, i - p) <= Larger(q - i, i - q)
                    /\ \A k \in 1..Len(queue) :
                         queue'[IF k <= p THEN k ELSE k + n] = queue[k]
             /\ call[t].op = "extract" /\ ~BadCount(t) =>
                  removed' \ removed =
                    {queue[k] : k \in {j \in 1..Len(queue) :
                                        i < j /\ j <= i + n}}]_vars

\* A blocking dequeue(COUNT) that removes items before the queue is ended
\* removes exactly COUNT, from the head, however often it was woken and
\* overtaken (Queue.pm dequeue, "Wait for requisite number of items").
DequeueGetsItsCount ==
  [][\A t \in Thread :
       /\ call[t].op = "dequeue" /\ pc[t] \in {"enter", "wait"}
       /\ pc'[t] = "idle" /\ queue' # queue /\ ~ended
       => /\ Len(queue) >= call[t].n
          /\ queue = SubSeq(queue, 1, call[t].n) \o queue']_vars

MayCall(t, op) == \E c \in scenario.calls[t] : c.op = op

\* A limit set before the threads start, and not changed, is exceeded only by
\* the batch of one enqueue (the loop tests the length before the push) when
\* nobody inserts.  (An empty queue proves no enqueue: the limit is then free.)
LimitHolds ==
  /\ limit > 0 /\ queue # <<>>
  /\ \A t \in Thread : ~MayCall(t, "limit") /\ ~MayCall(t, "insert")
  => \E t \in Thread : \E c \in scenario.calls[t] :
      c.op = "enqueue" /\ Len(queue) < limit + c.n

\* What t waits for has happened.
CanGo(t) ==
  IF call[t].op = "enqueue" THEN limit = 0 \/ Len(queue) < limit ELSE ~Short(t)

\* All threads that can block wait for the same thing: there is no limit, and
\* blocking dequeues ask for one and the same count.
SameWait ==
  /\ scenario.limit = 0
  /\ \A t \in Thread : ~MayCall(t, "limit")
  /\ \A t, u \in Thread : \A c \in scenario.calls[t], d \in scenario.calls[u] :
       {c.op, d.op} \subseteq {"dequeue", "dequeue_timed"} => c.n = d.n

\* Where all wait for the same thing, cond_signal loses no wake-up: when what
\* a sleeper waits for has happened, some thread is on its way out of
\* cond_wait, and will signal in its turn.
NoLostWakeup ==
  SameWait =>
    \A t \in asleep : CanGo(t) =>
      \E u \in Thread \ asleep : pc[u] \in {"wait", "late"}

\* Queue.pm, dequeue: "If the queue contains fewer than the requested number
\* of items, then the thread will be blocked until the requisite number of
\* items are available".  A dequeuer is not asleep with its count on the queue
\* and nobody else inside a method to wake it.
BlockedOnlyWhileShort ==
  (\A u \in Thread : pc[u] = "idle" \/ u \in asleep) =>
    \A t \in asleep : call[t].op = "dequeue" => Len(queue) < call[t].n

\* At most one thread can wait at the limit, which stays, and one for items.
OneOfEach ==
  /\ \A t \in Thread : ~MayCall(t, "limit")
  /\ \A t, u \in Thread : MayCall(t, "enqueue") /\ MayCall(u, "enqueue") => t = u
  /\ \A t, u \in Thread :
       /\ MayCall(t, "dequeue") \/ MayCall(t, "dequeue_timed")
       /\ MayCall(u, "dequeue") \/ MayCall(u, "dequeue_timed")
       => t = u

Steady == SameWait \/ OneOfEach

\* Queue.pm, end: "All threads blocking on dequeue() calls will be unblocked";
\* where the one signal of end and the chain of signals that follows it cannot
\* be spent on an enqueuer.
EndUnblocks ==
  (Steady /\ ended) ~> \A t \in Thread : ~(t \in asleep /\ call[t].op = "dequeue")

\* With one producer and one consumer, or without a limit and with one count,
\* a sleeper that could go on does not sleep for ever.
SleepersProceed ==
  \A t \in Thread :
    (Steady /\ t \in asleep /\ CanGo(t)) ~> (t \notin asleep \/ ~CanGo(t))
=============================================================================
