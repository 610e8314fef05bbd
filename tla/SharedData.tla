----------------------------- MODULE SharedData -----------------------------
(***************************************************************************)
(* The data half of threads::shared (shared.xs).  A shared value lives in  *)
(* an interpreter of its own; a thread reaches it through a proxy, a       *)
(* private SV whose magic holds one reference to it.  One shared scalar,   *)
(* $s, holds a reference to at most one of several shared objects, whose   *)
(* class has a destructor, which does not store its object anywhere.       *)
(*                                                                         *)
(* Everything under the global lock (ENTER_LOCK to LEAVE_LOCK) is one      *)
(* action.  Two things happen without it: the look at the reference count  *)
(* that decides whether DESTROY is called, and the counting of the copies  *)
(* that a new thread gets of its creator's proxies.                        *)
(***************************************************************************)
EXTENDS Integers, FiniteSets

CONSTANTS
  User,     \* threads
  MainThread,     \* the first of them
  Scalar,   \* the shared scalar $s
  Object,   \* shared objects
  NoObject,  \* no object, no thread
  Habit     \* what programs do, see SdAssumption

\* "quiet": while a thread is being created the others do nothing.  "turns": nor
\* do they while one frees a proxy.  "busy": they always go on.
ASSUME SdAssumption ==
  /\ IsFiniteSet(User) /\ MainThread \in User /\ Scalar \notin Object
  /\ NoObject \notin User \cup Object \cup {Scalar}
  /\ Habit \subseteq {"turns", "quiet", "busy"}

VARIABLES
  habit,      \* never changes
  live,       \* threads that have been created
  refcnt,      \* SvREFCNT of each shared SV; 0 before it is made and after it
              \* is freed
  made,       \* shared objects made so far
  proxies,    \* the shared SVs that each thread has a proxy for
  content,    \* the object that $s refers to, or NoObject
  dropping,   \* the object whose proxy the thread is freeing, between curse
              \* and mg_free, or NoObject
  destroyed,  \* how often DESTROY was called for each object
  copying     \* copying[t]: the thread that t is creating, the proxies not yet
              \* copied, and the count read for the one being copied

sdVars == <<habit, live, refcnt, made, proxies, content, dropping, destroyed,
            copying>>

Shared == Object \cup {Scalar}
NoCopy == [to |-> NoObject, todo |-> {}, sv |-> NoObject, seen |-> 0]

SdInit ==
  /\ habit \in Habit
  /\ live = {MainThread}
  /\ refcnt = [x \in Shared |-> IF x = Scalar THEN 1 ELSE 0]
  /\ made = {}
  /\ proxies = [t \in User |-> IF t = MainThread THEN {Scalar} ELSE {}]
  /\ content = NoObject
  /\ dropping = [t \in User |-> NoObject]
  /\ destroyed = [o \in Object |-> 0]
  /\ copying = [t \in User |-> NoCopy]

\* Thread t may take its next step.
Runs(t) ==
  /\ t \in live
  /\ dropping[t] = NoObject /\ copying[t] = NoCopy
  /\ habit # "busy" => copying = [u \in User |-> NoCopy]
  /\ habit = "turns" => dropping = [u \in User |-> NoObject]

\* $s is made to refer to new, with the mortal proxy for an object that would
\* otherwise lose its last reference inside the shared interpreter, where no
\* destructor can run.
Refer(t, new) ==
  LET old  == content
      last == old # NoObject /\ refcnt[old] = 1
  IN  IF new = old THEN UNCHANGED <<content, refcnt, proxies>>
      ELSE /\ content' = new
           /\ refcnt' = [x \in Shared |->
                         IF x = new THEN refcnt[x] + 1
                         ELSE IF x = old /\ ~last THEN refcnt[x] - 1
                         ELSE refcnt[x]]
           /\ proxies' = [proxies EXCEPT ![t] = IF last THEN @ \cup {old} ELSE @]
-----------------------------------------------------------------------------
\* share({}): sharedsv_new_shared, and its first proxy.
Share(t, o) ==
  /\ Runs(t) /\ o \notin made
  /\ made' = made \cup {o}
  /\ refcnt' = [refcnt EXCEPT ![o] = 1]
  /\ proxies' = [proxies EXCEPT ![t] = @ \cup {o}]
  /\ UNCHANGED <<habit, live, content, dropping, destroyed, copying>>

\* sharedsv_scalar_mg_set: $s = $object, or $s = undef.
StoreRef(t, new) ==
  /\ Runs(t) /\ Scalar \in proxies[t]
  /\ new = NoObject \/ new \in proxies[t] \cap Object
  /\ Refer(t, new)
  /\ UNCHANGED <<habit, live, made, dropping, destroyed, copying>>

\* Mutant of FetchRef: the new proxy is not counted.
FetchRefUncounted(t) ==
  /\ Runs(t) /\ Scalar \in proxies[t]
  /\ content # NoObject /\ content \notin proxies[t]
  /\ proxies' = [proxies EXCEPT ![t] = @ \cup {content}]
  /\ UNCHANGED <<habit, live, refcnt, made, content, dropping, destroyed, copying>>

\* sharedsv_scalar_mg_get and S_get_RV: a proxy for what $s refers to.
FetchRef(t) ==
  /\ Runs(t) /\ Scalar \in proxies[t]
  /\ content # NoObject /\ content \notin proxies[t]
  /\ proxies' = [proxies EXCEPT ![t] = @ \cup {content}]
  /\ refcnt' = [refcnt EXCEPT ![content] = @ + 1]
  /\ UNCHANGED <<habit, live, made, content, dropping, destroyed, copying>>

\* Mutant of Curse: the private SV's own count decides.
CurseAlways(t, o) ==
  /\ Runs(t) /\ o \in proxies[t] \cap Object
  /\ proxies' = [proxies EXCEPT ![t] = @ \ {o}]
  /\ dropping' = [dropping EXCEPT ![t] = o]
  /\ destroyed' = [destroyed EXCEPT ![o] = @ + 1]
  /\ UNCHANGED <<habit, live, refcnt, made, content, copying>>

\* A proxy goes out of scope: DESTROY is called if Perl_shared_object_destroy
\* sees, without the lock, no other reference.
Curse(t, o) ==
  /\ Runs(t) /\ o \in proxies[t] \cap Object
  /\ proxies' = [proxies EXCEPT ![t] = @ \ {o}]
  /\ dropping' = [dropping EXCEPT ![t] = o]
  /\ destroyed' = [destroyed EXCEPT ![o] = IF refcnt[o] <= 1 THEN @ + 1 ELSE @]
  /\ UNCHANGED <<habit, live, refcnt, made, content, copying>>

\* sharedsv_array_mg_free and S_sharedsv_dec
FreeProxy(t) ==
  /\ dropping[t] # NoObject
  /\ habit # "busy" => copying = [u \in User |-> NoCopy]
  /\ refcnt' = [refcnt EXCEPT ![dropping[t]] = @ - 1]
  /\ dropping' = [dropping EXCEPT ![t] = NoObject]
  /\ UNCHANGED <<habit, live, made, proxies, content, destroyed, copying>>

\* sharedsv_scalar_mg_free: the thread's $s goes; with the last one the scalar
\* itself, and its reference.
FreeScalar(t) ==
  LET gone == refcnt[Scalar] = 1
      last == content # NoObject /\ refcnt[content] = 1
  IN  /\ Runs(t) /\ Scalar \in proxies[t]
      /\ content' = IF gone THEN NoObject ELSE content
      /\ refcnt' = [x \in Shared |->
                    IF x = Scalar THEN refcnt[x] - 1
                    ELSE IF x # content THEN refcnt[x]
                    ELSE refcnt[x] + (IF last THEN 1 ELSE 0) - (IF gone THEN 1 ELSE 0)]
      /\ proxies' = [proxies EXCEPT ![t] = (@ \ {Scalar})
                                           \cup (IF last THEN {content} ELSE {})]
      /\ UNCHANGED <<habit, live, made, dropping, destroyed, copying>>

\* threads->create clones every proxy of the creator ...
CloneBegin(t, u) ==
  /\ Runs(t) /\ u \notin live
  /\ habit # "busy" => \A v \in User : dropping[v] = NoObject
  /\ copying' = [copying EXCEPT ![t] = [NoCopy EXCEPT !.to = u, !.todo = proxies[t]]]
  /\ live' = live \cup {u}
  /\ UNCHANGED <<habit, refcnt, made, proxies, content, dropping, destroyed>>

\* ... with sharedsv_scalar_mg_dup or sharedsv_array_mg_dup, which count it by
\* SvREFCNT_inc_void: a read ...
CloneRead(t, x) ==
  /\ x \in copying[t].todo /\ copying[t].sv = NoObject
  /\ copying' = [copying EXCEPT ![t].sv = x, ![t].seen = refcnt[x]]
  /\ UNCHANGED <<habit, live, refcnt, made, proxies, content, dropping, destroyed>>

\* ... and a write.
CloneWrite(t) ==
  LET c == copying[t]
  IN  /\ c.sv # NoObject
      /\ refcnt' = [refcnt EXCEPT ![c.sv] = c.seen + 1]
      /\ proxies' = [proxies EXCEPT ![c.to] = @ \cup {c.sv}]
      /\ copying' = [copying EXCEPT ![t].sv = NoObject, ![t].todo = @ \ {c.sv}]
      /\ UNCHANGED <<habit, live, made, content, dropping, destroyed>>

\* The new thread starts.
CloneEnd(t) ==
  /\ copying[t].to # NoObject /\ copying[t].todo = {}
  /\ copying' = [copying EXCEPT ![t] = NoCopy]
  /\ UNCHANGED <<habit, live, refcnt, made, proxies, content, dropping, destroyed>>

SdNext ==
  \E t \in User :
    \/ \E o \in Object : Share(t, o) \/ Curse(t, o)
    \/ \E o \in Object \cup {NoObject} : StoreRef(t, o)
    \/ FetchRef(t) \/ FreeProxy(t) \/ FreeScalar(t)
    \/ \E u \in User : CloneBegin(t, u)
    \/ \E x \in Shared : CloneRead(t, x)
    \/ CloneWrite(t) \/ CloneEnd(t)

SdSpec == SdInit /\ [][SdNext]_sdVars
-----------------------------------------------------------------------------
SdTypeOK ==
  /\ habit \in Habit /\ live \subseteq User /\ made \subseteq Object
  /\ refcnt \in [Shared -> Nat]
  /\ proxies \in [User -> SUBSET Shared]
  /\ content \in made \cup {NoObject}
  /\ dropping \in [User -> made \cup {NoObject}]
  /\ destroyed \in [Object -> Nat]
  /\ \A t \in User : copying[t].to \in User \cup {NoObject}

Referrers(x) ==
  Cardinality({t \in User : x \in proxies[t]}) + Cardinality({t \in User : dropping[t] = x})
  + (IF content = x THEN 1 ELSE 0)

\* Where nobody touches shared data while a thread is created, a shared SV's
\* count is the number of proxies of all threads and of references from other
\* shared SVs.
CountsProxies == habit # "busy" => \A x \in Shared : refcnt[x] = Referrers(x)

\* The destructor runs once at most, whatever number of threads had the object,
\* and only for its last reference (shared.xs:1252, "True ... if destroying last
\* proxy on a shared object"): nobody can reach the object any more.  The manual
\* (shared.pm:573) says that it "may get called multiple times, once for each
\* thread's scope exit": the code has no such case.
DestroyedOnce ==
  [][habit # "busy" => \A o \in Object : destroyed'[o] # destroyed[o] =>
       destroyed[o] = 0 /\ destroyed'[o] = 1 /\ Referrers(o) = 1]_sdVars

\* Where proxies are freed in turns no object is freed without its destructor,
\* whatever number of threads had it, and however its last reference went away:
\* by a new value of $s, with $s, or with a proxy.  (Threads that drop the last
\* two proxies at once may both see two.)
FreedAfterDestroy ==
  habit = "turns" => \A o \in made : refcnt[o] = 0 => destroyed[o] > 0

\* Counts of shared SVs, up to the last reference and its destructor.
SharedCountsHold == CountsProxies /\ FreedAfterDestroy

\* "Only one thread at a time is allowed to mess with shared space."
\* (shared.xs:183): no shared SV is freed that a proxy or $s still refers to.
NoFreedReferent == \A x \in Shared : refcnt[x] = 0 => Referrers(x) = 0
=============================================================================
