# A verification project for this perl: its threads, and what one interpreter keeps

The repository is a perl 5 source tree (`src/matrix/gnu/lib/perl5`) with a few
unrelated files beside it. Paths below are relative to that directory unless
they start with `src/`. Most of perl is a sequential interpreter, and what is
hard to test in it is of two kinds. Several actors meet: interpreter threads
and their locks, the queue and the semaphore built on those, the life of a
thread, data and tables that threads share, signals that arrive between any two
machine instructions. Or code is called back in the middle of something: the
walk over a list of magic, a scope that is being left, a hash under its
iterator, a cache that a change elsewhere makes stale. Both kinds are modelled
here in TLA+, checked with TLC, and in part proved with TLAPS.

`PROJECT.json` is the index: every component, run, mutant, theorem, hazard and
finding, and for every definition that models code the lines it models.

## 1. Inventory

| Component (source) | State it keeps | Operations | What is hard | What makes it correct |
|---|---|---|---|---|
| **User locks and condition variables** of `threads::shared` (`dist/threads-shared/shared.xs`) | per variable: `recursive_lock_t` (mutex, owner, locks, cond) and `user_cond`; per thread: the releases queued on its save stack | `lock`, scope exit, `cond_wait`, `cond_timedwait` (one or two variables), `cond_signal`, `cond_broadcast` | interleaving, overtaking of woken threads, the nesting depth across `cond_wait`, failing pthread calls | mutual exclusion, depth = open scopes, no lost wake-up, a free lock is taken |
| **Thread::Queue** (`dist/Thread-Queue/lib/Thread/Queue.pm`) | a shared array, LIMIT, ENDED; one lock and one condition variable for all | `enqueue`, `dequeue`, `dequeue_nb`, `dequeue_timed`, `insert`, `extract`, `limit`, `end`, `peek`, `pending` | one condition variable for different conditions, a limit that changes without the lock, index arithmetic | no item lost or doubled, counts and positions respected, sleepers proceed, `end` frees all |
| **Thread::Semaphore** (`dist/Thread-Semaphore/lib/Thread/Semaphore.pm`) | a shared count | `down`, `down_nb`, `down_force`, `down_timed`, `up` | sleepers that wait for different amounts, counts below zero, late deadlines | every call takes effect at one moment, nobody sleeps on units that are there |
| **Life of an ithread** (`dist/threads/threads.xs`) | the pool (mutex, list, four counters); per thread: count, state flags, interpreter, mutex; the objects in every interpreter | `create`, `join`, `detach`, `self`, `list`, `object`, DESTROY, the end of the code, `exit`, the main thread's exit | two kinds of non-recursive mutex, destruction that nests, creation that fails half-way | counts equal references, nothing dangling, no circle of waiting threads, clean-up comes last |
| **Shared data** (`shared.xs`) | values in an interpreter of their own, a reference count each; proxies in every thread; one global lock | making, fetching, storing and dropping of proxies, DESTROY, the copying of proxies for a new thread | what is done without the lock: the test for DESTROY and the counting of copies | a count is the number of proxies and shared references; nothing is freed or destroyed early |
| **Safe signals** (`mg.c`; `perl.h`, `pp_sys.c`, `ext/POSIX/POSIX.xs` where they touch it) | `PL_psig_pend`, `PL_sig_pending`, `PL_psig_ptr`, the signal mask, the nesting of handlers | the C handler, `despatch_signals`, assignment to `%SIG`, `sigprocmask`, `fork` | a signal between any two steps, handlers that nest, die and change `%SIG` | counted signals are handled, once; handlers of one signal do not nest; the mask follows the nesting |
| **Interpreter-wide locks** (`thread.h`, `perl.h`, `locale.c`) | mutex, condition variable and count of readers of the environment's lock; mutex and depth of the locale's | READ and WRITE LOCK and UNLOCK, LOCALE_LOCK, the macros that take both | a woken writer is overtaken; nesting; the order of two locks | readers counted, writers alone, sleepers woken, no deadlock |
| **User-defined properties** (`regcomp.c`) | one table of all threads, with placeholders | compiling and running a pattern with `\p{IsFoo}` | a Perl sub runs between two critical sections; definitions that need each other | one thread expands a property at a time, circles fail, every compilation ends |
| **Inversion lists** (`regcomp_invlist.c`) | a sorted list, the index of the last search | add range, union, intersection, invert, search | adjoining and overlapping ranges, the open end, the remembered index | the list means the set, in its one normal form |
| **Magic of a variable** (`mg.c`, `sv.c`) | the list of magic, the flags that announce it | `mg_get`, `mg_set`, `sv_magicext`, `sv_unmagic`, `save_magic`, `restore_magic`, `mg_magical` | callbacks change the list that is being walked | each entry is called once, none after it is freed, flags come back right |
| **Weak references** (`sv.c`) | the referent's list of back-references, in three shapes | weaken, unweaken, assign, undef, free, `sv_kill_backrefs` | entries leave at the head, the end and in the middle | the list holds each weak reference once; none dangles |
| **Hashes** (`hv.c`) | chains of entries, the iterator, the mark for an entry that waits to be freed | store, delete, clear, split, `each`, restricted hashes | deletion under the iterator | nothing freed is read, nothing is seen twice or left out |
| **Save stack and context stack** (`scope.c`, `pp_ctl.c`, `mg.c`) | saved values, scopes, the callbacks running | local, leave, die, destructors, FETCH and STORE of tied variables | Perl code runs, and dies, between two pops | values come back to their scope's owner, are freed once |
| **Arrays** (`av.c`) | a block of cells, the part of it that is the array, whether it owns its elements | store, push, pop, shift, unshift, extend, fill, delete, clear, undef, entry to and exit from a sub (`@_`) | the start of the array moves; which cells are new, old or never owned | no junk and no stale pointers; behaves as a list of places |
| **Method caches** (`mro_core.c`, `gv.c`, `sv.c`) | the method found in each glob, for SUPER, for DESTROY; linearisations; `PL_isarev`; generations | definition, deletion, assignment to `@ISA`, lookup, destruction | which caches a change makes stale | a cached answer is the one that a fresh search gives |
| **Tie::File** (`dist/Tie-File/lib/Tie/File.pm`) | the file, the offset of each record seen, a cache of records, writes that are deferred | the methods of a tied array, `defer`, `flush`, `discard`, `autodefer`, `flock` | records that move under the cache and the offsets, two uses of one memory, deferring that starts and stops by a guess | the program has the array that its calls made, and the file holds it when nothing is deferred |
| Sorting, lexer, parser, op trees, regular-expression matching, built-in functions, PerlIO, `malloc.c`, classes, build tools, bundled libraries | | | | not modelled, see section 7 and `PROJECT.json` |
| `src/matrix/gnu/bin` | | | | fragments of an editor's sources with their words replaced; they do not parse, there is nothing to model |

How they interact. Thread::Queue and Thread::Semaphore are Perl code over
`lock` and `cond_wait`; they rely on exactly what `Monitor` promises, and
`SharedLock` is shown to keep that promise. That justifies modelling a method
of theirs, from `lock` to its return or its `cond_wait`, as one action.
`threads.xs` uses plain mutexes of its own; it and `shared.xs` meet where a thread
is created, when the proxies of the creator are copied, which `SharedData` has as
its Clone actions. `SafeSignals` concerns one thread: only the first one may set
handlers. The structures of one interpreter call each other (an array frees
elements, a destructor runs `leave_scope`); each is modelled with what callbacks
can do to it, which is all that it can see of the others.

## 2. Modules

| Module | Kind | Models or proves |
|---|---|---|
| `Monitor` | abstract | the re-entrant monitor that `threads::shared` documents |
| `SharedLock` | component | `recursive_lock_*`, `cond_*` in `shared.xs`; implements `Monitor` |
| `ThreadQueue` | component | `Queue.pm` |
| `CountingSemaphore` | abstract | a semaphore whose calls are indivisible |
| `ThreadSemaphore` | component | `Semaphore.pm`; implements `CountingSemaphore` |
| `Ithreads` | component | `threads.xs` |
| `SharedData` | component | reference counts and proxies in `shared.xs` |
| `SafeSignals` | component | signal delivery in `mg.c` |
| `ReadersWriter` | abstract | readers and a writer that exclude each other |
| `ReadWriteLock` | component | the locks of environment and locale; implements `ReadersWriter` |
| `UserProperties` | component | `PL_user_def_props` in `regcomp.c` |
| `InversionList` | component | `regcomp_invlist.c` against sets |
| `MagicChain` | component | the walks over a list of magic |
| `WeakReferences` | component | back-references in `sv.c` |
| `HashIterator` | component | hash and iterator in `hv.c` |
| `SaveStack` | component | `scope.c` and the unwinding of `die` |
| `PerlArray` | abstract | a list of places |
| `ArrayStorage` | component | `av.c`; implements `PerlArray` |
| `MethodCache` | component | method lookup and its caches |
| `TieFile` | component | the tied array of `Tie::File`, its offsets, cache and deferred writes, against the array a program has in mind |
| `MC...` | instances | constants for TLC: *scenarios*, *habits*, *plans* or *programs*, i.e. which actor may make which calls |
| `MCThreads`, `MCProcess`, `MCInterpreter` | instances | several components in one run |
| `ThreadsProofs` (`SharedLock`, `SharedData`, `ThreadSemaphore`, `ReadWriteLock`), `ThreadQueueProofs`, `IthreadsInvariant` and `IthreadsProofs`, `ArrayStorageProofs`, `UserPropertiesProofs`, `InterpreterProofs` (`WeakReferences`, `SaveStack`), `SafeSignalsProofs` | proofs | theorems, see section 5 |

A *scenario* (and its like) is a constant that says which calls, with which
arguments, each actor may make, in any order and any number of times up to the
bounds. A variable picks one in `Init` and never changes, so one run covers
several programs. The proofs hold for any set of scenarios.

`MCThreads`, `MCProcess` and `MCInterpreter` put the instances of components that
do not interact into one run. Their variable `part` chooses the component in
`Init`; the variables of the others stay as they are, so the states searched are
the sum and not the product of the parts', and each property is about its own
part. Definitions that several parts would share by name carry two letters of
the module (`SlInit`, `TsNext`, `ItTypeOK`).

The definitions called "Mutant of ..." are not used by any specification. Each
stands for a plausible mistake in the code (a wake-up forgotten, a counter not
reset), and `PROJECT.json` names the property that it breaks. Where a property is a
conjunction, such as `LivesAreCounted`, its conjuncts are named definitions with
comments of their own.

### SharedLock

One action is what C does between `MUTEX_LOCK` and `MUTEX_UNLOCK` of one
`recursive_lock_t`. `COND_WAIT` ends an action with the thread in `sleeping`;
`AcquireLoop` and `CondWaitLoop` are the rest of the two while loops, in which a
woken thread may find that it was overtaken. `owner`, `locks` are the fields of
the same names; `scope[t][v]` counts the `recursive_lock_release` calls on t's
save stack; `saved` is the C local `locks` of `cond_wait`. `CondTimedWaitPanic`
is `pthread_cond_timedwait` failing with EINVAL: the croak leaves the function
with the mutex locked (`mutex`). `SpuriousWakeup` is what POSIX allows.
Abstractions: scopes of different variables may end in any order (perl ends
them last first: the model allows more); `S_get_userlock` and its global lock,
which only make the structure, are not shown.

### ThreadQueue

Items are numbered in the order in which they are handed to `enqueue` or
`insert`, so that "nothing lost" and "the right positions" can be stated. A
method is one action up to a `cond_wait` or its return (`Dequeue`, `DequeueNb`,
`Insert`, ...). The limit is different: `$q->limit = N` assigns through an lvalue
after the method has dropped its lock. `SetLimit` can therefore fall between the
two reads of LIMIT in enqueue's loop, which are `EnqueueTest` and
`EnqueueCompare`. `dequeue_timed` after its deadline is `pc = "late"`: the thread
still has to get the lock back. The two reads of LIMIT in `_validate_count` are
one; `peek` and `pending`, which change nothing, are left out.

### ThreadSemaphore

The same shape, with `Croak` for arguments that `$validate_arg` refuses. Counts
start below, at and above zero (`new` accepts any integer).

### Ithreads

`thread[x]` is the ithread structure; `pool`, `list` and `tid_counter` are the
pool; `obj[i][x]` counts the Perl objects for x in interpreter i. What an OS
thread does is a stack of frames, the innermost last, because freeing nests: taking an
interpreter apart (`ClearObject`) frees objects, the last of which frees another thread
(`Free`, `Unlink`, `Dispose`, `Unlock`, `Uncount`, in the order of the C code). A
stretch between two mutex operations is one action. A mutex is shown as held
only when something that can block happens under it. Left out: stack sizes,
`threads->exit` only, `kill`, `err`, return values. `CloneAndStart` waits for the
mutexes of all cloned objects at once. `object` with a thread's own number is
`Self`. "keep" in a scenario means that a thread may end with objects left in
its interpreter, "fail" that `pthread_create` may fail for it. When the process
exits the other threads just run on; a real exit stops them at some point, and
every prefix of a behaviour is a behaviour of the model.

### SharedData

`refcnt` is `SvREFCNT` of the values in the shared interpreter; a thread's
`proxies` each hold one count, and `$s`, the one shared scalar, may hold one.
Whatever happens between `ENTER_LOCK` and `LEAVE_LOCK` is one action. Freeing a
proxy takes two: `Curse` (`sv_clear` calls DESTROY when
`Perl_shared_object_destroy` saw a count of 1) and `FreeProxy` (the magic's free
callback); `destroyed` counts the calls for each object. The destructor itself is
taken not to store its object anywhere, which would make it live again. A new
thread's proxies are counted one by one by the creator, `CloneRead` and
`CloneWrite`, without the lock (`shared.xs:907`). The habit "quiet" keeps other
threads from using shared data during that copying; the habit "busy" does not,
and is the subject of `shareddata_busy`. The habit "turns" also keeps them from it
between `Curse` and `FreeProxy`.

### SafeSignals

A stack of frames of C functions over the main code: `despatch` (the loop of
`Perl_despatch_signals`, at signal `sig`), `handler` (a `%SIG` handler), `setsig` and
`set` (`Perl_magic_setsig` before and after its `PERL_ASYNC_CHECK`). `Send` and
`Csighandler` are the kernel's actions and may come between any two others, as
long as the signal is not in `mask`. `HandlerDies` unwinds through the frames as
`die_sv` does, running the two save-stack destructors that restore the mask.
`Fork` follows the child, `Sigprocmask` is the main code's. `SetSig(s, "NULL")` is
`delete $SIG{s}`. Left out: destructors of replaced handlers, signals that stand for faults and
`PERL_SIGNALS=unsafe` (handlers at once), C handlers that interrupt each other,
`sigsuspend`, `sigprocmask` inside handlers, `__WARN__` and `__DIE__`.

### ReadWriteLock

`env[t]` says where a thread stands with the environment's lock, `readers` is the
counter, `dozers` are the writers asleep in `COND_WAIT`. The mutex is not a
variable: a reader has it for one step, a writer from `WriteLock` to
`WriteUnlock`, which is when somebody's `env` is "writing". `both` marks the
threads inside one of the macros that take the two locks in order. The build
modelled is the threaded one without thread-safe locales.

### UserProperties, InversionList

`frames[t]` is the recursion of `parse_uniprop_string`, `entry` the shared table.
`LeaveScope` is the second run of `S_delete_recursion_entry`, at LEAVE and without
the mutex. A program (`program`) says which properties name which others and what
the subs may do. `InversionList` keeps the set that the list is meant to denote
beside it (`contents`); its operations are the loops of the C code written as
recursive operators, which is why nothing is proved about it.

### MagicChain

One turn of the loop of `mg_get` or `mg_set`, callback included, is one action.
`walk` holds the C locals (`mg`, `cur`, `head`, `newmg`) and what `save_magic` put on
the save stack (`old`). What callbacks do is a *habit*: nothing, adding magic
to the head, deleting their own entry, or both. `cached` is the cache of UTF-8 lengths.

### WeakReferences

`cells`, `first`, `fill` are the AV of back-references, or its single entry in place
(`backrefs = "one"`). `DelBackref` has the three cases of `sv_del_backref`;
`KillBackref` is a turn of the loop of `sv_kill_backrefs`, `svp` its pointers.

### HashIterator

`hv` holds `HvMAX`, `HvARRAY`, the iterator and `HvLAZYDEL`; `heap` is the set of
entries that are allocated. Bucket order is scrambled by `xhv_rand` as in
`hv_iternext`. `seen` and `grown` are kept for the property EachOnce only.

### SaveStack

`frames` is the C stack of `leave_scope` and callbacks, `scopes` the context stack,
`saved` the save stack; `Die` unwinds to the innermost eval as `die_unwind` and
`dounwind` do, through `leave_scope` frames that it cuts off (JMPENV). `before` in a
scope is the value each variable had on entry, kept for the property Restored.

### ArrayStorage

`av.cell` is the memory from `AvALLOC` on, `offset` is `AvARRAY - AvALLOC`, `max` and
`fill` are `AvMAX` and `AvFILLp`, `real` is `AvREAL`. Memory that nobody wrote holds
`Junk`. `Extended` is `av_extend_guts` with its four cases, `Reified` is `av_reify`.
The constants 3, 10 and 5 of the code are `NewMinKey`, `Margin` and `Spare`, so
that TLC reaches every case with small arrays; the proofs hold for all values.

### MethodCache

One method name in packages whose `@ISA` may change. `glob` and `super` are the
cached entries with their generation; `linear` the linearisations, `isarev`
`PL_isarev`, `destroy` the cached destructors. `SetIsa` is
`mro_isa_changed_in` with its two passes. `Uncovered` and `Resolved` are the search
without any cache, which the properties compare with.

### TieFile

`tf` is the object with its file, one record; a method of the code is an operator
from the object before the call to the object after it, and an action applies it
and says what the program means by it (`array`). `cache` is in the order in which
the heap would give records up; `bytes` and `limit` are BYTES and MAX of the cache. A record is a
sequence of bytes that ends in `RecSep`, so that offsets and the bytes that
`_mtwrite` moves about (`WriteChunks`) are the real ones. `deferred_max = NoMax` is its
undef. Abstractions: the record separator is one byte; `FETCH` gives records with
it; blocks of 8192 bytes are copied in one piece (`_upcopy`, `_downcopy`); the order of
the cache is kept as a list instead of a heap. Left out: read-only files, text
mode, `discard_offsets`, a file that another process changes. `Careless` says
which calls that are known to go wrong (section 4) a program makes: "gaps",
deferred writes past the end of the file that leave records out; "deletes", of a
last record that is only deferred; "shrinks", assigning a smaller size while writes are
deferred; "locks late", `flock` after the end of the file has been seen. The pass run
has none of them.

## 3. Runs

Every instance is small enough to be searched completely: an invariant that
holds holds in every reachable state of the instance. The bounds are named
constants (`MaxDepth`, `MaxItems`, `MaxChanges`, `MaxThreads`, `MaxObjects`,
`MaxSent`, `MaxLocale`, `MaxAdded`, `MaxSaves`, `MaxDeaths`, `MaxKey`, `Highest`, `MaxRecords`,
`MaxInserted` and others) and bound counters and sizes, nothing else.

| Run | Instance | Shows |
|---|---|---|
| `threads`, part lock | 3 threads; two variables, one that is locked up to depth 2, one that only serves as condition variable; rejected deadlines and spurious wake-ups happen | LocksFollowScopes, NoLostLockWakeup, the refinement ImplementsMonitor, FreeLockIsTaken |
| part semaphore | 3 threads, at most 3 calls of `up` or `down_force`, counts from -1 to 1, waiters for different amounts; three workers | NoLostWakeup, the refinement ImplementsPromise, UnitsUnblock |
| part read-write lock | 3 threads that read, write, nest the locale's lock to depth 2 and take both | SectionsAreSound, SomebodyCanGo, the refinement ImplementsReadersWriter, WriterWakes |
| part user property | 3 threads, 3 properties: a chain, a circle, subs that are not ready; one retry | ExpansionsAreSound, CompilationEnds |
| part shared data | 3 threads, `$s` and 2 objects; programs that are quiet while a thread is created, and programs that also free proxies in turns | SharedCountsHold, DestroyedOnce |
| `queue` | 3 threads, up to 3 items, in scenarios of single items, batches of two, `insert` and `extract` at every kind of index, a limit that comes and goes, producers at the limit, consumers of a queue that is ended | NothingLost, NoLostWakeup, LimitHolds, DequeueGetsItsCount, IndexesMeanPositions, SleepersProceed, EndUnblocks |
| `process`, part ithreads | the main thread and 2 threads, one object for each thread in each interpreter; `Farm`: only the main program creates and creation may fail; `Peers`: everybody creates, joins, detaches, lists; `Selves`: threads hold themselves | LivesAreCounted, NoLockCycle |
| part signals | 2 signals sent twice each, a maximal count of 3; a program that masks, forks and deletes handlers, and one whose handlers nest, set and delete each other and die | SignalsAreKept, PendingIsHandled |
| `interpreter`, part magic | five lists of two or three entries, four habits, up to 2 additions in a walk, read-only or not | WalksAreSound |
| part weak references | 4 references | BackrefsAreRight |
| part hash | 3 keys, two of which always share a bucket, a split from 4 to 8 buckets, two orders of buckets, restricted or not | IterationIsSafe |
| part save stack | 2 variables, one tied, 2 things saved, 4 scopes, 4 frames, 2 deaths | UnwindingIsRight |
| part array | indexes up to 3, small growth constants, `@_` and ordinary arrays | StorageIsClean, the refinement ImplementsPerlArray |
| part methods | 3 packages and UNIVERSAL, one with two parents, 3 changes; lookups in the lowest class, objects of the middle one | CachesAreRight |
| part inversion list | code points 0 to 5 | ListMeansItsSet |
| part tied file | an empty file or one whose last record lacks its end, 2 records of different lengths, up to 3 of them; a memory for 4 bytes, 3 of them for deferred writes; deferring starts at the second STORE in a row | FileIsIndexed, ArrayIsKept |
| `sharedlock_panic` | 2 threads, the same variables | violated: UnwindingEnds |
| `queue_lost` | two producers at a limit of 1, one consumer | violated: BlockedOnlyWhileShort |
| `ithreads_cycle` | 3 threads; one leaves an object behind in its interpreter | violated: NoLockCycle |
| `signals_died` | 2 signals, handlers may die | violated: HandledBeforeNextOp |
| `shareddata_busy` | 3 threads that go on while one creates another | violated: NoFreedReferent |
| `hash_locked` | keys are locked without starting the iterator again | violated: NoFreedEntry |
| `tiefile_gaps` | the instance of `interpreter`; the program writes past the end of the file with records left out | violated: OffsetsAreTrue |
| `methodcache_destructor` | objects of a class two levels below the changed `@ISA` | violated: DestructorIsRight |

Each run of several parts also checks one type invariant (`ThTypeOK`, `PrTypeOK`,
`InTypeOK`, and `TypeOK` in `queue`).

Why these bounds are enough to be interesting. Losing a wake-up takes a sleeper,
a thread that changes the state and one that overtakes: three threads. Depth 2
is the least at which "the count across `cond_wait`" differs from "one". Three
items and batches of two let an index fall before, inside and beyond the queue,
and let a signal be spent on a waiter that needs more than there is. Nested
destruction needs a thread that holds the last object of another, while the
main program holds the first: two threads; the circle of mutexes needs a third,
hence the larger instance of `ithreads_cycle`. For signals the order of the two
numbers matters (the loop has or has not passed the other one), and sending one
twice reaches the second count during a handler, and the maximal count. Four
back-references are the least with an inner entry beside another inner entry;
a hash that splits while two keys share a chain has a deleted entry's successor
move; two saves and two deaths let a callback die within the unwinding of an
outer death; three levels of classes separate the class that changes, the one
in between and the one that remembers. In arrays `key > whole - Margin`,
`offset # 0` and both kinds of ownership all occur at index 3.
In a tied file three records are a first, an inner and a last one; with records
of one and two bytes a write is longer than, as long as or shorter than what it
replaces; 3 bytes of buffer and 4 of memory overflow at the second or third write,
with cached records or without. The theorems of
section 5 do away with the bounds for ten components.

`CHECK_DEADLOCK FALSE` is set in every configuration because every program
modelled may really stop: all threads may be blocked by the program's own doing,
nobody is obliged to call anything, a process may exit or be killed, and the
bounds run out. What must not stop is said as liveness or as an invariant about
who waits for whom.

Fairness. `SharedLock` and the two classes on it: a thread that has been woken
and a thread inside a method run on (`WF` on `AcquireLoop` and `CondWaitLoop`, or on
`Step`): the operating system schedules runnable threads and grants free
mutexes. Deadlines pass (`WF(Timeout)`) in `SharedLock` and `ThreadQueue`;
`ThreadSemaphore` does without. `ReadWriteLock`: a thread between two locks goes
on, and a section ends, since it is a call of libc (`perl.h:7658`).
`UserProperties`: subs return and sleeps end. `SafeSignals`: the interpreter runs
on, so safe points are reached and handlers return (`WF(Interpreter)`).
`MagicChain`: a walk goes on. A spurious wake-up, a call of a method, the
beginning or end of a scope or a signal is never fair: nothing makes a program
do it. All fairness is weak, since nothing in pthreads promises that a thread
is not overtaken for ever.

## 4. Findings

Eight runs show the code doing what a sentence of its documentation or comments
rules out. Each is one property in a run of its own.

| Run | Where | What happens |
|---|---|---|
| `sharedlock_panic` | `shared.xs:717` | `cond_timedwait` with a deadline that pthreads rejects (for instance -0.5) croaks after it has given up the lock and with the mutex locked; unwinding the scope then blocks on that mutex for ever |
| `queue_lost` | `Queue.pm:41` | the one `cond_signal` of an `enqueue` wakes another enqueuer at the limit, which sleeps again; the consumer sleeps with an item on the queue |
| `ithreads_cycle` | `threads.xs:1414` | `join` and `detach` take an interpreter apart under its structure's mutex, which can need the pool's mutex, which others hold while they wait for the first |
| `signals_died` | `mg.c:1668` | a handler that dies leaves `despatch_signals` with the flag down and later signals still counted |
| `shareddata_busy` | `shared.xs:907` | the proxies that a new thread gets are counted without the lock of the shared interpreter; a count is lost, and a value freed that a proxy refers to |
| `hash_locked` | `hv.c:2041` | clearing a restricted hash takes the iterator off a deleted entry without the mark; the mark then falls on a living entry |
| `tiefile_gaps` | `File.pm:1116` | deferred writes of two runs of records past the end of the file: the second run's blanks are written before the first run's records, which then push them on; the file has too many records and the offsets are wrong |
| `methodcache_destructor` | `mro_core.c:564` | an assignment to `@ISA` forgets the cached destructor of that class and not of those below |

Met on the way, without a run of their own:

- *Queue.* An `enqueue` blocked at the limit pushes its items after `end`
  (`Queue.pm:37` against `:522`). `end` wakes one thread with `cond_signal`, which can
  be an enqueuer at the limit; setting `limit` to 0 wakes nobody; blocking
  dequeues of different counts can lose a signal to each other (all of these are
  why NoLostWakeup is stated under `SameWait`).
- *Semaphore.* A timeout "must be an integer >= 0" (`Semaphore.pm:215`), and 0 is refused.
- *Threads.* When `pthread_create` fails (`threads.xs:1042`) another thread's `list`
  can have made an object for the structure, which is then freed under it. A
  `detach` that sees a finished thread frees the interpreter in which a thread
  that called `exit` still runs (`threads.xs:1481`, `:695`). An object for a thread
  itself, left in its interpreter, is freed under that thread's own,
  non-recursive mutex.
- *Signals.* A handler that deletes the `%SIG` element of another pending signal
  makes `despatch_signals` exit the process (`mg.c:3683`). The croak at the maximal
  count of pending signals leaves its signal blocked (`scope.h:23` says that jumps
  do not restore the mask).
- *User-defined properties.* `S_delete_recursion_entry` runs a second time at
  LEAVE (`regcomp.c:15339`, `:15442`) and deletes whatever placeholder is there. After
  a definition that had to be deferred this can be another thread's, and the
  property is then expanded by two threads at once; ExpansionsAreSound is
  checked where such a property is wanted by one thread only, and proved where
  nothing is deferred. The same call reads the table without the mutex.
- *Shared data.* The manual says that a shared object's destructor "may get called
  multiple times, once for each thread's scope exit, or may not get called at all
  if it is embedded inside another shared object" (`lib/threads/shared.pm:573`). The
  first half is not what the code does, and DestroyedOnce says the opposite: a scope exit calls no
  destructor while another thread has the object (`shared.xs:1263`; the
  comment at `shared.xs:1252` agrees), and it is called once at most. The second half
  leaves a case out. Two threads that drop the last two proxies of an object may both
  see a count of 2, since the look takes no lock and comes before the proxy's own reference is
  given up: DESTROY is never called, embedded or not. FreedAfterDestroy is stated
  where proxies are freed in turns; there an object inside another one has its
  destructor called too, through the proxy that `sharedsv_scalar_store` makes
  (`shared.xs:810`).
- *Weak references.* When set magic of one weak reference makes another one undef
  from within `sv_kill_backrefs` (`sv.c:6410`), perl dies with "panic:
  del_backref"; NoPanic is stated without such magic.
- *Magic.* Callbacks that delete their own entry in one turn and add one in
  another may have an entry skipped or called twice, against `mg.c:178`;
  EachEntryRead is stated for callbacks of one kind. A read-only value that is
  walked comes back without its magic flags when an entry is skipped.
  `mg->mg_flags` is read after the callback may have freed the entry (`mg.c:209`).
- *Save stack.* `PL_localizing` keeps its value when the callback that it surrounds
  dies (`scope.c:1170`), against `intrpvar.h:133`; LocalizingEnds is stated for
  programs without deaths.
- *Tie::File.* `flock` throws the offsets away and leaves `eof` set (`File.pm:1020`): a
  file whose end had been seen is then empty for the program, and `push` puts
  its records in front. `Cache::update` subtracts the length of the old record twice when
  the new one does not fit (`File.pm:1607`); this needs a record longer than
  all the memory, which the instance does not have. `delete` of a last record that is only
  deferred takes the offset of a real record away (`File.pm:389`). Making the array
  shorter while records past the end of the file are deferred dies in `_seek`
  (`File.pm:311`) after `deferred_max` has been set.

## 5. Theorems

All are checked by TLAPS for every value of the constants that the named
assumption of the component allows: any set of threads, variables, properties
or cells, any bound, any scenarios. Where a counter is a cardinality
(`ReadWriteLock`, `WeakReferences`, `SharedData`, `SaveStack`) the assumption says
that the set counted over is finite. `SaveStack` also asks for a value for each
variable (`Cardinality(Var) <= MaxValue`), without which there is no initial
state. Otherwise the assumptions only give the constants their types.

**ThreadsProofs**, user locks. `LockInv` is SlTypeOK together with ScopeOwnsLock, OwnerHasScope,
SavedDepth, NoLostLockWakeup and `Placement`, which says that a thread
outside Perl code is there for a variable, that only such a thread sleeps and
that one in a panic has left the mutex locked. Neither of the first two is
inductive without the others: while a thread is in `cond_wait` its open scopes do
not own the lock, and only SavedDepth says that they will fit again when it
writes `locks` back. There is one lemma per action. `LockInvariance` gives
`LockTypes`, `ScopesOwnLocks` and `LockWakeupsReach`; `LocksAreMonitors` maps every step
to one of `Monitor` or to a stutter and needs the invariant, because `Leave` frees
the monitor at depth 1 while the code looks at `locks`.

**ThreadsProofs**, shared data, the other half of `threads::shared`. `SdInv`
says that only values that were made are referred to, and only by living threads
(`OnlyMade`), that every count is the number of proxies, of proxies being freed and of
the shared scalar's reference (`Counted`), that while a thread copies its proxies
nobody else copies or frees one, and what it read of a count still holds
(`CopyingAlone`), and, where proxies are freed in turns, that one is being freed at a time and the last
one of an object has had its destructor called (`DroppedDestroyed`). `CopyingAlone` is what the
habit "quiet" buys: `CloneRead` and `CloneWrite` are two steps without the lock, and
Counted would not survive a change of the count in between, which is the finding
`shareddata_busy`. `CountsStayRight` follows. For `DestructorRunsOnce` the invariant also says
that an object whose destructor was called is out of reach (`DestroyedIsGone`): at that
step the count is 1, by Counted the reference is the proxy of the thread that drops it, and
nothing brings an object back that neither a proxy, nor `$s`, nor a copy under way names.

**ThreadQueueProofs.** `Inv` is TypeOK with `CallsOK` (who is where in which call),
`NumbersOK` (items in flight are numbered apart), `Stored` (the queue's items are
different and are those added and not removed) and `LimitOK`. Lemmas about
concatenation, cutting out and heads of sequences carry `NoItemIsLost` and
`DequeueTakesItsCount`. `NoWakeupIsLost` needs in addition that under `SameWait`
only takers wait; its argument classifies what a step can do to the sleepers
(fall asleep, add items and wake one, take items and wake one, or nothing).
`LimitIsKept`: a limit that nobody changes is exceeded by less than the batch of one
`enqueue`, provided nobody inserts; an empty queue is exempt, since a limit says nothing of
programs that never enqueue. `IndexesArePositions` is an action property: what `insert` and
`extract` do to the sequence is what the documentation says of their
indexes, for every index, negative and too large ones included.

**ThreadsProofs**, semaphore. TsTypeOK and NoLostWakeup are inductive together:
`up` broadcasts whenever the count becomes positive, and below that no sleeper
(each waits for at least one unit) could go. `SemaphoreIsCounting` maps a return to the
indivisible call of `CountingSemaphore`.

**ThreadsProofs**, read-write locks. `SectionInv` is RwTypeOK, SectionsAreSound and `RoomForSection`
(who is about to lock the locale has not reached the bound). The set of
readers is kept apart from the other places (`ElsewhereKeeps`), since the counter
is its cardinality. `readers` reaches zero only in `ReadUnlock` and a writer leaves
only in `WriteUnlock`; both signal, and so a sleeping writer always has somebody
to wake it. `SectionsAreReadersWriter`: a reader is in the room while it reads, a writer while it
writes.

**IthreadsInvariant** and **IthreadsProofs**, under `QuietFailure`: where `pthread_create` may
fail for a thread, no other thread calls `list` or `object`. Without the hypothesis the
theorem is false for a reason that the code has, not the model: after the failure the
pool is unlocked before the structure is marked NONVIABLE (`threads.xs:1042`), so a list
walk can take an object for it, and it is then freed with that object outstanding (section
4). The scenarios of the run `process` all meet the hypothesis.
`LivesStayCounted` says that the count of a structure is the number of references to
it, and four things that follow from who refers to what. The inductive invariant `ItIInv`
has, besides the types and that count:

- where a frame may lie (`Shape`: each OS thread has a bottom frame of its own thread, a
  `clear` lies on the `release` or `free` of the structure that it clears, and so on) and which
  frames have the pool's mutex (`PoolIsHeld`);
- that nothing is about a thread not yet created (`OnlyKnown`), a thread being cloned is
  known to its maker only (`CloneIsFresh`), and so is one that failed to start, until its end
  (`DoomedIsAlone`, where QuietFailure is used);
- that one frame sees a structure to its end (`EndIsOne`) and that nothing refers to the structure by then
  (`EndIsLast`); this is what a count of zero means, and what keeps NoDangling and UnlinkedOnce;
- that the list has the structures that are not unlinked, once each (`ListIsRight`), and a walk
  is at one of them (`WalksAreInList`);
- what the flags say of the frames (`RunsAreMarked`: FINISHED is set exactly when the run is past its
  mark; `JoinsAreMarked`: one join for each JOINED, and an object or the thread itself under each
  `detach`), AssertionsHold, that `total` counts the structures (`TotalIsRight`), that
  main cleans up alone (`CleanedAlone`) and that the counters agree with the flags also while
  the pool is locked (`CountersAreRight`).

The steps are of three kinds, each with lemmas of its own: *ordinary* ones, which move, push or
pop frames about structures that are neither being made nor ended (`Ordinary`), the steps of
an end (`EndStep`, from `Unlink` to `Uncount`) and those of a creation (`MakeStep`). What a step does to
the count is worked out once for each way in which the top of a stack changes
(`ReplacedHeld`, `PushedHeld`, `PoppedHeld`, `CoveredHeld`), with `OneDiffers`, on two finite sets
that agree but for one element. TLC checked ItIInv on small instances before it was proved.
`ThreadLifeTypes` is the part about types: the counters that the code takes down without
looking stay at or above zero.

`MutexesNeverCycle` is NoLockCycle for any number of threads, under one more hypothesis:
no thread ends with thread objects left in its interpreter (`NoKeepers`). With
such objects NoLockCycle is false (`ithreads_cycle`): they are freed under the mutex of
the structure whose interpreter is taken apart, and that may need the pool's mutex or the
mutex of another structure. The scenarios `Peers` and `Selves` of the run `process` meet the
hypothesis; for `Farm`, whose threads may keep objects, NoLockCycle stays a result of TLC. The
argument is `HoldersAreRight`, invariant together with ItIInv:

- a mutex that is locked is locked by somebody with a frame that has it: `clone`, `nonviable`, `give`,
  `free` or `release` for a structure's (`MutexIsHeld`), one of HavePool for the pool's (`PoolHasHolder`);
- once its code is over, a thread's interpreter has no objects (`NothingKept`, where NoKeepers
  is used), so that a `clear` with further frames on it is about a thread that never
  ran (`ClearsAreLast`).

So whoever has a structure's mutex that others wait for is at a step that waits for
nobody (`HolderRuns`), and whoever has the pool's mutex waits at most for a structure's
(`PoolHolderWaits`): a chain of waiting threads has at most two links, and no circle.
The same kind of summary as for ItIInv, `FramesMove`, says of each step which frames it moves and
which mutexes change hands.

**ArrayStorageProofs.** The first part is about the operations of `av.c` alone: for
each, a lemma says what it makes of any sound array (`Reified`, `Extended` with its
four cases, `Grown`, `Storing`, and so on), `Sound` being that the block, the start
of the array and its sizes fit together, that no place holds junk, and that the
spare cells of a real array are NULL. The second part lifts the lemmas to the
actions; `IInv` is `Sound(av)` with `fill` within the bound. The cells beyond `AvFILLp`
must be in the invariant: an array grows into them by a change of `AvFILLp` only.
`Refinement` needs `Sound` as well, because the contents that it maps to are the
cells, and only where they are owned and clean do they follow the abstract array.

**UserPropertiesProofs**, under `NoDeferral`: no pattern may put a property off to
the time of the match. `FrameOK` says of each call of `parse_uniprop_string` what
the shared table holds for it (its own placeholder, or, before LEAVE, its result),
and of an expansion which lines are done. `TableStep` is what a thread may do to the
table, and is shown to leave the calls of the others alone. Then the second
`S_delete_recursion_entry` has nothing to delete (`LeaveScopeKeeps`), and a list closes no
circle (`StoreKeeps`): the members of a circle would each have needed another one's
list first. Without the hypothesis the theorem is false, see section 4.

**InterpreterProofs**, weak references. `Lists(c, lo, hi, h)`: the cells from lo to hi
hold each weak reference once. It is kept by `AddBackref` and by the three cases of
`DelBackref`, is what `sv_kill_backrefs` starts with, and holds at each of its steps for
the cells still to be visited; with none left, nothing dangles. The count is the
cardinality of the strong references, which is why the walk starts only when
there are none.

**InterpreterProofs**, save stack. `UnwindingStaysRight` says that the values come back
and that the counts are right whatever destructors, FETCH and STORE do in the middle
of a `leave_scope`, deaths included. `SsIInv` has, besides the types, four parts. `Stacks` relates the C
stack to the context stack: every `leave_scope` that is running has popped, or is about
to pop, the scopes above its base, frames that a death has passed by (`Doomed`) lie above
the `leave_scope` that unwinds for it, and callbacks have the scopes that
were open when they were called. `Restores` says of every scope and variable that the
value on entry is that of the lowest entry of the save stack above the scope's base, or,
if there is none, the present one; so a pop restores exactly one scope's value. `Counts`: the
count of a value is the number of slots and of entries of both kinds that refer to it.
`Localizes`: as long as nothing has died, `PL_localizing` is up only while a method runs that
will be followed by its reset. Counting over a sequence (`Values`, `Frees`) is done with sets of positions.

**SafeSignalsProofs.** `IInv` describes the stack of frames: which may lie on which
(`Nesting`), that each saved the mask as it was below it (`MasksNest`, `SavedRight`), that what a
frame has blocked stays blocked while others lie on it (`StaysBlocked`), that a signal
whose handler runs is not counted (`RunningAreQuiet`), and that where handlers neither
die nor delete, nothing is counted for a handler that is gone: the `despatch_signals` called
before the deletion is still to see what has come since (`GoneAreQuiet`, `LastIsSeen`). A death cuts the stack, and the mask becomes the one
that the lowest of the frames cut off had saved: with MasksNest that is the mask
of the frame that is left. `SignalsStayKept` is SignalsAreKept for any number of signals, any
maximal count and any nesting.

A remark for whoever changes these modules: tlapm 1.4.5 takes an `@` in the second of two
changes of one point (`[f EXCEPT ![a] = @ - 1, ![a] = @ - 1]`) to be the original value,
against the language and TLC. Where two points may coincide, as in `PopValue`, the model
nests two EXCEPTs. And tlapm reads `SUBSET S \ T` as `SUBSET (S \ T)`, TLC as `(SUBSET S) \ T`:
write the parentheses.

Only model-checked:

- all liveness, and SomebodyCanGo, which speaks of ENABLED: out of the prover's reach;
- `InversionList` and `TieFile`, whose loops are recursive operators, `MethodCache`,
  whose search is a fold over linearisations, and `MagicChain` and `HashIterator`, whose lists
  change by filters and folds: what these compute is known by induction only;
- NoLockCycle of `Ithreads` where threads end with objects left in their interpreters: false in
  general (see `ithreads_cycle`), true for the scenario `Farm` of the instance;
- the type invariants of the composed runs as such (`ThTypeOK`, `InTypeOK`, `PrTypeOK`). Their
  parts are proved for the components that have a theorem about types: `TypeCorrect`, `LockTypes`,
  `SemaphoreTypes`, `SectionTypes`, `SignalTypes`, `ThreadLifeTypes`.

## 6. Plan

What would come next, in the order of importance.

1. The race of `exit` with `detach` (`threads.xs:1481`, `:695`) as a run of its own; the
   model has both steps, and the hazard has no property yet.
2. More of the components that are modelled in part: other types of save-stack
   entries and `last`/`next`, magic of hashes and arrays (`mg_copy`), elements of
   shared arrays and hashes, C3 and AUTOLOAD in method lookup.
3. The merge sort of `pp_sort.c` against a reference definition.

## 7. Not modelled, and why

- *Lexer, parser, op-tree construction, pattern compilation and matching* are
  sequential translations and searches over program text; their state space is
  that of the language, and a small instance would say little. The two parts of
  the regular-expression compiler with state of their own, the shared table of
  user-defined properties and the inversion lists, are modelled.
- *Built-in operations, string and number conversion, classes, interpreter construction*:
  one C function per operator, without shared state. What matters of them to
  another component is in it (`pp_fork` in `SafeSignals`, `perl_clone` and
  `perl_destruct` in `Ithreads`).
- *PerlIO*: buffers over system calls; the reference counts of its table of file
  descriptors are plain counters under one mutex.
- *`malloc.c`*: an optional allocator that the default build leaves out.
- *Sorting*: a sequential algorithm; a candidate for later, see the plan.
- *Bundled libraries* (`cpan/`, `ext/`, most of `dist/`): maintained elsewhere or
  bindings to C libraries, without state shared with the core's.
- *Build and porting tools, generated tables, `vms/`, `win32/`*: scripts that run once, data,
  and ports.
- *`src/matrix/gnu/bin` and the like*: fragments whose words have been replaced; they
  do not parse.

The modelled parts are a small share of the source because perl is large; they
were chosen for the behaviours that its tests do not reach.

## 8. How to run it

    tlc -config Threads.cfg MCThreads.tla          # 3 threads and their locks, ~1-2 min
    tlc -config ThreadQueue.cfg MCThreadQueue.tla  # ~2 min
    tlc -config Process.cfg MCProcess.tla          # ~2 min
    tlc -config Interpreter.cfg MCInterpreter.tla  # ~2-3 min
    tlc -config SharedLock_panic.cfg MCSharedLock.tla   # and the other violations: seconds
    tlapm ArrayStorageProofs.tla                   # a proof module: one to five minutes each

`PROJECT.json` lists for each run its module and configuration.
