--------------------------- MODULE ReadersWriter ---------------------------
(***************************************************************************)
(* What a many-reader/one-writer lock promises (thread.h:288-296): any     *)
(* number of threads may be inside to read, a thread inside to write is    *)
(* alone.  ReadWriteLock is shown to implement it.                         *)
(***************************************************************************)
CONSTANT Locker

VARIABLE inside  \* inside[t]: "out", "reading" or "writing"

RoomInit == inside = [t \in Locker |-> "out"]

EnterToRead(t) ==
  /\ inside[t] = "out"
  /\ \A u \in Locker : inside[u] # "writing"
  /\ inside' = [inside EXCEPT ![t] = "reading"]

EnterToWrite(t) ==
  /\ \A u \in Locker : inside[u] = "out"
  /\ inside' = [inside EXCEPT ![t] = "writing"]

Leave(t) ==
  /\ inside[t] # "out"
  /\ inside' = [inside EXCEPT ![t] = "out"]

RoomNext == \E t \in Locker : EnterToRead(t) \/ EnterToWrite(t) \/ Leave(t)

RoomSpec == RoomInit /\ [][RoomNext]_inside
=============================================================================
