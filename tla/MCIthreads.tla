----------------------------- MODULE MCIthreads -----------------------------
(* Ithreads with two or three threads and what each of them may do. *)
EXTENDS Ithreads, TLC

\* Only the main program creates, lists and joins; pthread_create may fail it.
\* Threads end with the objects that they got from it by cloning, or with some
\* of them.
Farm ==
  Main :> {"create", "fail", "join", "detach", "list", "destroy", "exit"}
  @@ [x \in Tid |-> {"return", "die", "destroy", "keep"}]

\* Everybody does everything that takes a thread object, and drops the objects
\* before the end.
Peers ==
  [x \in Actor |-> {"create", "join", "detach", "list", "object", "destroy",
                    "return", "exit"}]

\* Threads hold objects for themselves, and join, detach and drop each other
\* and themselves; the main program lists.
Selves ==
  Main :> {"create", "join", "detach", "list", "object", "destroy", "exit"}
  @@ [x \in Tid |-> {"create", "join", "detach", "self", "destroy", "return",
                     "exit"}]

SafetyScenarios == {Farm, Peers, Selves}

\* Thread 1 creates and joins a thread and leaves the object behind when it
\* ends; another thread lists all threads while the main program joins 1.
Keeper ==
  {Main :> {"create", "join"} @@ 1 :> {"create", "join", "return", "keep"}
   @@ 2 :> {"list", "return"} @@ 3 :> {"return"}}
=============================================================================
