--------------------------- MODULE MCThreadQueue ---------------------------
(* ThreadQueue with small sets of threads and of calls they may make. *)
EXTENDS ThreadQueue, TLC

CONSTANTS t1, t2, t3

C(op, n, at) == [op |-> op, n |-> n, at |-> at]
S(calls, lim) == [calls |-> calls, limit |-> lim]

\* One thread that enqueues single items and pairs and ends the queue, one
\* that enqueues and takes, and one that only takes.
Unlimited ==
  LET takes == {C("dequeue", 1, 0), C("dequeue_timed", 1, 0)}
  IN  S(t1 :> {C("enqueue", 1, 0), C("enqueue", 2, 0), C("end", 0, 0)}
        @@ t2 :> takes \cup {C("enqueue", 1, 0), C("dequeue_nb", 1, 0)}
        @@ t3 :> takes, 0)

\* The same with blocking dequeues of two items.
Pairs ==
  LET takes == {C("dequeue", 2, 0), C("dequeue_timed", 2, 0)}
  IN  S(t1 :> {C("enqueue", 0, 0), C("enqueue", 1, 0), C("end", 0, 0)}
        @@ t2 :> takes \cup {C("enqueue", 1, 0), C("dequeue_nb", 1, 0)}
        @@ t3 :> takes, 0)

\* insert and extract at every kind of index, beside a blocking dequeue.
Anywhere ==
  S(t1 :> {C("enqueue", 2, 0), C("insert", 0, 0)}
          \cup {C("insert", n, at) : n \in 1..2, at \in {-2, 0, 1}}
    @@ t2 :> {C("extract", 2, at) : at \in {-4, -3, -2, 0, 1}}
             \cup {C("extract", 0, 0), C("end", 0, 0)}
    @@ t3 :> {C("dequeue", 1, 0)}, 0)

\* A limit that comes and goes under producers and consumers.
Changing ==
  S(t1 :> {C("enqueue", 1, 0), C("enqueue", 2, 0)}
    @@ t2 :> {C("limit", 0, 0), C("limit", 0, 2)} \cup {C("dequeue_nb", 1, 0)}
    @@ t3 :> {C("dequeue", 2, 0), C("dequeue_timed", 1, 0), C("end", 0, 0)}, 1)

\* Two producers at a limit of one, with batches of one and two.
Producers ==
  S(t1 :> {C("enqueue", 1, 0)}
    @@ t2 :> {C("enqueue", 2, 0), C("dequeue_nb", 1, 0)}
    @@ t3 :> {C("dequeue", n, 0) : n \in 1..2}, 1)

\* One producer and one blocking consumer, and one that only polls.
Pair ==
  S(t1 :> {C("enqueue", 1, 0), C("enqueue", 2, 0), C("end", 0, 0)}
    @@ t2 :> {C("dequeue", 1, 0), C("dequeue", 2, 0), C("dequeue_timed", 2, 0)}
    @@ t3 :> {C("dequeue_nb", 1, 0)}, 2)

Scenarios == {Unlimited, Pairs, Anywhere, Changing, Producers, Pair}

\* Two producers at the limit, one consumer; anyone but it may end the queue.
TwoToOne ==
  {S(t1 :> {C("enqueue", 1, 0)} @@ t2 :> {C("enqueue", 1, 0), C("end", 0, 0)}
     @@ t3 :> {C("dequeue", 1, 0)}, 1)}

Threads == {t1, t2, t3}
=============================================================================
