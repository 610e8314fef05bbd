------------------------------ MODULE MCThreads ------------------------------
(***************************************************************************)
(* What threads share, on small instances, for one run of TLC.  The parts  *)
(* do not interact, so an execution is one of one part; the variables of   *)
(* the others stay as they are.                                            *)
(***************************************************************************)
EXTENDS MCSharedLock, MCThreadSemaphore, ReadWriteLock, MCSharedData, MCUserProperties

VARIABLE part  \* never changes

thVars == <<part, slVars, tsVars, rwVars, upVars, sdVars>>

ThInit ==
  /\ part \in {"lock", "semaphore", "read-write lock", "user property", "shared data"}
  /\ SlInit
  /\ TsInit /\ (part # "semaphore" => tsScenario = Mixed(0))
  /\ RwInit
  /\ UpInit /\ (part # "user property" => program = Chain)
  /\ SdInit /\ (part # "shared data" => habit = "quiet")

LockNext ==
  part = "lock" /\ SlNext /\ UNCHANGED <<part, tsVars, rwVars, upVars, sdVars>>
SemaphoreNext ==
  part = "semaphore" /\ TsNext /\ UNCHANGED <<part, slVars, rwVars, upVars, sdVars>>
ReadWriteNext ==
  part = "read-write lock" /\ RwNext /\ UNCHANGED <<part, slVars, tsVars, upVars, sdVars>>
UserPropertyNext ==
  part = "user property" /\ UpNext /\ UNCHANGED <<part, slVars, tsVars, rwVars, sdVars>>
SharedDataNext ==
  part = "shared data" /\ SdNext /\ UNCHANGED <<part, slVars, tsVars, rwVars, upVars>>
ThNext ==
  \/ LockNext \/ SemaphoreNext \/ ReadWriteNext
  \/ UserPropertyNext \/ SharedDataNext

\* Each part's fairness.  In a part that stands still nothing that is fair is
\* enabled: nobody is in a lock, in a method or in a compilation.
ThSpec ==
  /\ ThInit /\ [][ThNext]_thVars
  /\ SlFairness /\ TsFairness /\ RwFairness /\ UpFairness

\* Every variable of every part keeps its type.
ThTypeOK ==
  SlTypeOK /\ TsTypeOK /\ RwTypeOK /\ UpTypeOK /\ SdTypeOK
=============================================================================
