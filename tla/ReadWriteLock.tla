--------------------------- MODULE ReadWriteLock ---------------------------
(***************************************************************************)
(* The read-write lock that perl builds out of a mutex, a condition        *)
(* variable and a counter (PERL_READ_LOCK and its fellows in thread.h), as *)
(* the lock of the environment, together with the re-entrant mutex of the  *)
(* locale (LOCALE_LOCK_ in perl.h) and the macros that take both           *)
(* (gwENVr_LOCALEr_LOCK, ENVr_LOCALEr_LOCK), in a threaded build without   *)
(* thread-safe locales.                                                    *)
(*                                                                         *)
(* A reader holds the mutex for one step only.  A writer holds it until    *)
(* PERL_WRITE_UNLOCK, so that mutex is held between two steps exactly      *)
(* while somebody is writing.                                              *)
(***************************************************************************)
EXTENDS Integers, FiniteSets

CONSTANTS
  Locker,     \* threads
  Nobody,     \* no thread owns PL_locale_mutex
  MaxLocale   \* bound on the nesting of locale sections

ASSUME RwAssumption ==
  /\ IsFiniteSet(Locker)
  /\ Nobody \notin Locker
  /\ MaxLocale \in Nat

VARIABLES
  env,          \* where a thread stands with PL_env_mutex, see EnvPlaces
  both,         \* threads whose read section is one of environment and locale
  readers,      \* PL_env_mutex.readers_count
  dozers,       \* threads in COND_WAIT(&wakeup) that nothing has woken
  localeOwner,  \* who has locked PL_locale_mutex
  localeDepth   \* PL_locale_mutex_depth of each thread

rwVars == <<env, both, readers, dozers, localeOwner, localeDepth>>

\* "locking": in LOCALE_LOCK_.  "entering", "leaving": between the two locks of gwENVr_LOCALEr_LOCK, and of
\* its UNLOCK.  "waiting": in the loop of PERL_WRITE_LOCK, after a COND_WAIT.
EnvPlaces ==
  {"out", "locking", "entering", "reading", "leaving", "waiting", "writing"}

RwInit ==
  /\ env = [t \in Locker |-> "out"]
  /\ both = {}
  /\ readers = 0
  /\ dozers = {}
  /\ localeOwner = Nobody
  /\ localeDepth = [t \in Locker |-> 0]

EnvMutexFree == \A t \in Locker : env[t] # "writing"

\* COND_SIGNAL(&wakeup)
SignalWriter ==
  IF dozers = {} THEN UNCHANGED dozers
                 ELSE \E u \in dozers : dozers' = dozers \ {u}

\* Mutant of LocaleLock: PL_locale_mutex_depth is not looked at.
LocaleLockPlain(t) ==
  /\ localeOwner = Nobody
  /\ localeOwner' = t
  /\ localeDepth' = [localeDepth EXCEPT ![t] = 1]

\* LOCALE_LOCK_(0): only the outermost of nested calls locks the mutex.
LocaleLock(t) ==
  /\ localeDepth[t] <= 0 => localeOwner = Nobody
  /\ localeOwner' = t
  /\ localeDepth' = [localeDepth EXCEPT ![t] = IF @ <= 0 THEN 1 ELSE @ + 1]

\* LOCALE_UNLOCK_; unlocking an unlocked one croaks, which LocaleNested rules out.
LocaleUnlock(t) ==
  /\ localeDepth[t] >= 1
  /\ localeOwner' = IF localeDepth[t] = 1 THEN Nobody ELSE localeOwner
  /\ localeDepth' = [localeDepth EXCEPT ![t] = @ - 1]
-----------------------------------------------------------------------------
\* gwLOCALE_LOCK or LC_NUMERIC_LOCK, for a section that needs the locale only,
\* and gwENVr_LOCALEr_LOCK or ENVr_LOCALEr_LOCK, which begin with the locale.
CallLocaleLock(t, b) ==
  /\ env[t] = "out" /\ localeDepth[t] < MaxLocale
  /\ env' = [env EXCEPT ![t] = "locking"]
  /\ both' = IF b THEN both \cup {t} ELSE both
  /\ UNCHANGED <<readers, dozers, localeOwner, localeDepth>>

LocaleLocked(t) ==
  /\ env[t] = "locking"
  /\ LocaleLock(t)
  /\ env' = [env EXCEPT ![t] = IF t \in both THEN "entering" ELSE "out"]
  /\ UNCHANGED <<both, readers, dozers>>

EndLocale(t) ==
  /\ env[t] = "out" /\ localeDepth[t] > 0
  /\ LocaleUnlock(t)
  /\ UNCHANGED <<env, both, readers, dozers>>

\* PERL_READ_LOCK: alone (ENV_READ_LOCK), or in a section of both.
ReadLock(t) ==
  /\ env[t] \in {"out", "entering"}
  /\ EnvMutexFree
  /\ readers' = readers + 1
  /\ env' = [env EXCEPT ![t] = "reading"]
  /\ UNCHANGED <<both, dozers, localeOwner, localeDepth>>

\* PERL_READ_UNLOCK
ReadUnlock(t) ==
  /\ env[t] = "reading" /\ EnvMutexFree
  /\ IF readers - 1 <= 0 THEN readers' = 0 /\ SignalWriter
                         ELSE readers' = readers - 1 /\ UNCHANGED dozers
  /\ env' = [env EXCEPT ![t] = IF t \in both THEN "leaving" ELSE "out"]
  /\ UNCHANGED <<both, localeOwner, localeDepth>>

\* The end of gwENVr_LOCALEr_UNLOCK: the locale's lock goes last.
EndBoth(t) ==
  /\ env[t] = "leaving"
  /\ LocaleUnlock(t)
  /\ env' = [env EXCEPT ![t] = "out"]
  /\ both' = both \ {t}
  /\ UNCHANGED <<readers, dozers>>

\* Mutant of WriteLoop: "if" for "do ... while (1)".
WriteLoopOnce(t) ==
  /\ EnvMutexFree
  /\ IF readers <= 0 \/ env[t] = "waiting"
     THEN env' = [env EXCEPT ![t] = "writing"] /\ UNCHANGED dozers
     ELSE /\ env' = [env EXCEPT ![t] = "waiting"]
          /\ dozers' = dozers \cup {t}
  /\ UNCHANGED <<both, readers, localeOwner, localeDepth>>

\* One turn of the loop in PERL_WRITE_LOCK, with the mutex: break out and keep
\* it, or COND_WAIT.
WriteLoop(t) ==
  /\ EnvMutexFree
  /\ IF readers <= 0
     THEN env' = [env EXCEPT ![t] = "writing"] /\ UNCHANGED dozers
     ELSE /\ env' = [env EXCEPT ![t] = "waiting"]
          /\ dozers' = dozers \cup {t}
  /\ UNCHANGED <<both, readers, localeOwner, localeDepth>>

\* PERL_WRITE_LOCK (ENV_LOCK, STRFTIME_LOCK), the first turn and the others.
WriteLock(t) == env[t] = "out" /\ WriteLoop(t)
WriteLockAgain(t) == env[t] = "waiting" /\ t \notin dozers /\ WriteLoop(t)

\* Mutant of WriteUnlock: no signal, as if only readers kept writers waiting.
WriteUnlockSilently(t) ==
  /\ env[t] = "writing"
  /\ env' = [env EXCEPT ![t] = "out"]
  /\ UNCHANGED <<dozers, both, readers, localeOwner, localeDepth>>

\* PERL_WRITE_UNLOCK
WriteUnlock(t) ==
  /\ env[t] = "writing"
  /\ SignalWriter
  /\ env' = [env EXCEPT ![t] = "out"]
  /\ UNCHANGED <<both, readers, localeOwner, localeDepth>>

SpuriousWakeupOfWriter(t) ==
  /\ t \in dozers
  /\ dozers' = dozers \ {t}
  /\ UNCHANGED <<env, both, readers, localeOwner, localeDepth>>

\* What a thread does that has begun to lock or to unlock.
RwStep(t) ==
  \/ LocaleLocked(t)
  \/ env[t] = "entering" /\ ReadLock(t)
  \/ EndBoth(t)
  \/ WriteLockAgain(t)

\* The end of a section.
RwEnd(t) == EndLocale(t) \/ ReadUnlock(t) \/ WriteUnlock(t)

RwNext ==
  \E t \in Locker :
    \/ \E b \in BOOLEAN : CallLocaleLock(t, b)
    \/ LocaleLocked(t) \/ EndLocale(t) \/ EndBoth(t)
    \/ ReadLock(t) \/ ReadUnlock(t)
    \/ WriteLock(t) \/ WriteLockAgain(t) \/ WriteUnlock(t)
    \/ SpuriousWakeupOfWriter(t)

RwSpec == RwInit /\ [][RwNext]_rwVars

\* What is between two locks goes on, and sections end: they are libc calls
\* (perl.h:7658, "such a low level that its just a libc call").  No section
\* need begin.
RwFairness ==
  \A t \in Locker : /\ WF_rwVars(RwStep(t))
                    /\ WF_rwVars(RwEnd(t))
-----------------------------------------------------------------------------
RwTypeOK ==
  /\ env \in [Locker -> EnvPlaces]
  /\ both \subseteq Locker
  /\ readers \in Nat
  /\ dozers \subseteq {t \in Locker : env[t] = "waiting"}
  /\ localeOwner \in Locker \cup {Nobody}
  /\ localeDepth \in [Locker -> 0..MaxLocale]

\* The counter is the number of open read sections, through all the nesting
\* of the two locks: a writer that trusts it is alone (thread.h:291, "Any
\* writer will run only when the count of readers is 0").
ReadersCounted ==
  /\ readers = Cardinality({t \in Locker : env[t] = "reading"})
  /\ \A t \in Locker : env[t] = "writing" =>
       \A u \in Locker \ {t} : env[u] \notin {"reading", "writing"}

\* When there is no reader, a sleeping writer has another thread before it
\* that will signal: one that is writing, or a writer that has been woken.
\* The signal of PERL_WRITE_UNLOCK is what makes this true when the reader's
\* signal went to another writer.
NoWriterForgotten ==
  readers = 0 /\ dozers # {} =>
    \E t \in Locker \ dozers : env[t] \in {"waiting", "writing"}

\* The locale's mutex belongs to the thread with open locale sections, and
\* a thread in a section of both locks has one.
LocaleNested ==
  /\ \A t \in Locker : localeDepth[t] > 0 <=> localeOwner = t
  /\ \A t \in Locker : env[t] \in {"entering", "leaving"} => t \in both
  /\ \A t \in both : \/ env[t] = "locking"
                     \/ env[t] \in {"entering", "reading", "leaving"} /\ localeDepth[t] > 0

\* The counter, the sleepers and the nesting of the two locks fit the sections
\* that are open.
SectionsAreSound == ReadersCounted /\ NoWriterForgotten /\ LocaleNested

\* perl.h:7656: "To avoid deadlock, this is always done in the same order."
\* While anybody is in a section or on its way into one, somebody can go on.
SomebodyCanGo ==
  (\E t \in Locker : env[t] # "out" \/ localeDepth[t] > 0) =>
    \E t \in Locker : ENABLED (RwStep(t) \/ RwEnd(t))

Room == INSTANCE ReadersWriter WITH
          inside <- [t \in Locker |->
                       IF env[t] \in {"reading", "writing"} THEN env[t] ELSE "out"]

\* The counter, the mutex and the condition variable make a many-reader,
\* one-writer lock (thread.h:288, "These emulate native many-reader/1-writer
\* locks").
ImplementsReadersWriter == Room!RoomSpec

\* A writer does not sleep for ever while there are no readers.
WriterWakes ==
  \A t \in Locker : (t \in dozers /\ readers = 0) ~> (t \notin dozers \/ readers > 0)
=============================================================================
