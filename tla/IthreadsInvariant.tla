-------------------------- MODULE IthreadsInvariant -------------------------
(***************************************************************************)
(* The inductive invariant of Ithreads (ItIInv), for any number of threads *)
(* and any programs with QuietFailure, lemmas about stacks of frames and   *)
(* about counting, and the proof that the steps which neither make nor end *)
(* a structure keep it.  IthreadsProofs has the others and the theorems.   *)
(***************************************************************************)
EXTENDS Ithreads, FiniteSetTheorems, FunctionTheorems, SequenceTheorems, TLAPS

(***************************************************************************)
(* The life of threads, for any number of threads and any programs in      *)
(* which a failure of pthread_create is not met by another thread's list   *)
(* or object (QuietFailure; see the note at threads.xs:1042 in the README).*)
(*                                                                         *)
(* The count of a structure is the number of references to it.  That needs *)
(* to know which frame may lie on which (Shape), who has the pool's mutex, *)
(* and that a structure in whose frames the last reference went, or that   *)
(* could not be started, is nobody else's any more.                        *)
(***************************************************************************)
QuietFailure ==
  \A s \in ItScenario : \A p, q \in Actor :
    p # q /\ "fail" \in s[p] => s[q] \cap {"list", "object"} = {}

Takes == {Taking[w] : w \in Walks}
Stages == {"start", "code", "return", "die", "exit"}
Ends == {"unlink", "dispose", "release", "uncount"}
OnClear == Ends \cup {"drop"}
OnCode == {"clone", "nonviable", "give", "join", "join_wait", "detach", "detached", "free"}
          \cup Walks \cup Takes
Owners == Owning \cup OwningTwo

Known == Created \cup {Main}
Listed == {list[i] : i \in DOMAIN list}

\* Somebody is at f.
Somewhere(f) == \E p \in Actor : \E k \in 1..Len(stack[p]) : stack[p][k] = f

\* Frame f may be the outermost one of p; frame f may lie directly on g.
IsBottom(p, f) == f.x = p /\ f.at \in Running \cup OnClear
MayLie(f, g) ==
  \/ g.at = "code" /\ f.at \in OnCode \cup OnClear
  \/ g.at = "clear" /\ f.at \in OnClear
  \/ g.at \in {"release", "free"} /\ f.at = "clear" /\ f.x = g.x

Shape ==
  /\ \A p \in Actor : Len(stack[p]) > 0 => IsBottom(p, stack[p][1])
  /\ \A p \in Actor : \A k \in 2..Len(stack[p]) : MayLie(stack[p][k], stack[p][k - 1])
  /\ Len(stack[Main]) > 0 /\ stack[Main][1].at \in {"code", "gone"}

\* These frames have the pool's mutex.
PoolIsHeld ==
  \A p \in Actor : \A k \in 1..Len(stack[p]) :
    stack[p][k].at \in {"clone", "detach", "return", "die", "exit"} \cup Walks \cup Takes
      => pool.mutex = p

\* Nothing is about a thread that is still to be created.
OnlyKnown ==
  /\ \A p \in Actor : \A k \in 1..Len(stack[p]) : stack[p][k].x \in Known
  /\ \A i, x \in Actor : obj[i][x] > 0 => i \in Known /\ x \in Known
  /\ freed \subseteq Created

\* A thread that is being made is known to its maker only, in frame k of p.
MadeBy(p, k, x) ==
  /\ x \in Created /\ thread[x].state = {} /\ stack[x] = <<>>
  /\ \A y \in Actor : obj[x][y] = 0 /\ obj[y][x] = 0
  /\ \A q \in Actor : \A l \in 1..Len(stack[q]) : stack[q][l].x = x => q = p /\ l = k

CloneIsFresh ==
  \A p \in Actor : \A k \in 1..Len(stack[p]) :
    stack[p][k].at = "clone" => MadeBy(p, k, stack[p][k].x)

\* x could not be started, or is about to be marked so.
Doomed(x) == Is(x, "NONVIABLE") \/ Somewhere(ItFrame("nonviable", x))

\* Only p, which has failed to start x, has to do with it.
DoomedBy(p, x) ==
  /\ "fail" \in itScenario[p]
  /\ \A q \in Actor : \A k \in 1..Len(stack[q]) : stack[q][k].x = x =>
       /\ q = p
       /\ \/ k = 2 /\ stack[q][k].at \in {"nonviable", "free"} \cup Ends
          \/ k = 3 /\ stack[q][k].at = "clear"
  /\ x \in Listed <=>
       /\ Len(stack[p]) > 1 /\ stack[p][2].x = x
       /\ stack[p][2].at \in {"nonviable", "free", "unlink"}

DoomedIsAlone ==
  \A x \in Actor : Doomed(x) =>
    /\ x \in Created /\ stack[x] = <<>> /\ \A i \in Actor : obj[i][x] = 0
    /\ \E p \in Actor : DoomedBy(p, x)

Unreferenced(x) ==
  /\ ~Callable(x) /\ \A i \in Actor : obj[i][x] = 0
  /\ \A p \in Actor : \A k \in 1..Len(stack[p]) :
       stack[p][k].x = x => stack[p][k].at \notin Owners

\* One frame sees a structure to its end, and without references.
EndIsOne ==
  \A p, q \in Actor : \A k \in 1..Len(stack[p]), l \in 1..Len(stack[q]) :
    /\ stack[p][k].at \in Ends /\ stack[q][l].at \in Ends /\ stack[p][k].x = stack[q][l].x
    => p = q /\ k = l

EndIsLast ==
  /\ \A p \in Actor : \A k \in 1..Len(stack[p]) : stack[p][k].at \in Ends =>
       LET x == stack[p][k].x
       IN /\ x \in Created /\ (Is(x, "NONVIABLE") \/ Unreferenced(x))
          /\ (x \in freed <=> stack[p][k].at = "uncount")
  /\ \A x \in freed : Is(x, "NONVIABLE") \/ Unreferenced(x)

Unlinked(x) ==
  x \in freed \/ Somewhere(ItFrame("dispose", x)) \/ Somewhere(ItFrame("release", x))

ListIsRight ==
  /\ \A i, j \in DOMAIN list : list[i] = list[j] => i = j
  /\ \A x \in Actor : x \in Listed <=> x \in Created /\ ~Unlinked(x)

\* A walk is at a structure in the list; the thread may call list or object.
WalksAreInList ==
  \A p \in Actor : \A k \in 1..Len(stack[p]) :
    stack[p][k].at \in Walks \cup Takes =>
      stack[p][k].x \in Listed /\ itScenario[p] \cap {"list", "object"} # {}

RunsAreMarked ==
  /\ thread[Main].state = {"DETACHED"}
  /\ \A x \in Created :
       IF stack[x] # <<>>
       THEN Is(x, "FINISHED") <=> stack[x][1].at \notin Stages
       ELSE Is(x, "FINISHED") \/ Doomed(x) \/ Somewhere(ItFrame("clone", x))

JoinsAreMarked ==
  /\ \A p \in Actor : \A k \in 1..Len(stack[p]) :
       LET f == stack[p][k]
       IN  /\ f.at \in {"join", "join_wait"} => Is(f.x, "JOINED")
           /\ f.at = "detached" => Is(f.x, "DETACHED")
           /\ f.at = "detach" => obj[p][f.x] > 0 \/ f.x = p
           /\ f.at \in Takes => Callable(f.x) \/ Somewhere(ItFrame("join", f.x))
  /\ \A p, q \in Actor : \A k \in 1..Len(stack[p]), l \in 1..Len(stack[q]) :
       stack[p][k].at = "join" /\ stack[q][l] = stack[p][k] => p = q /\ k = l

\* The structures that still exist, or are still counted.
Alive == {x \in Created : x \notin freed \/ Somewhere(ItFrame("uncount", x))}
TotalIsRight == pool.total = Cardinality(Alive)

CleanedAlone ==
  process = "cleaned" =>
    \A p \in Actor : stack[p] # <<>> => p = Main /\ stack[p][1].at = "gone"

\* CountersAgree, also while the pool is locked.
CountersAreRight ==
  /\ pool.running = Cardinality({x \in Viable : ~Is(x, "FINISHED") /\ ~Is(x, "DETACHED")})
  /\ pool.detached = Cardinality({x \in Viable : ~Is(x, "FINISHED") /\ Is(x, "DETACHED")})
  /\ pool.joinable = Cardinality({x \in Viable : Is(x, "FINISHED") /\ ~Is(x, "DETACHED")})
                       - Cardinality(Joined)

ItIInv ==
  /\ ItTypeOK /\ Shape /\ PoolIsHeld /\ OnlyKnown /\ CloneIsFresh /\ DoomedIsAlone
  /\ EndIsOne /\ EndIsLast /\ ListIsRight /\ WalksAreInList /\ RunsAreMarked
  /\ JoinsAreMarked /\ AssertionsHold /\ TotalIsRight /\ CleanedAlone
  /\ CountersAreRight /\ CountsReferences

FrameSet == [at : Labels, x : Actor]

\* What the constants are: the main thread is no Tid, and the sets are finite.
LEMMA ItConstants ==
  /\ MaxThreads \in Nat /\ MaxObjects \in Nat
  /\ Main \in Actor /\ Main \notin Tid /\ Tid \subseteq Actor /\ Actor = Tid \cup {Main}
  /\ NoActor \notin Actor /\ Tid \subseteq Nat \ {0}
  /\ IsFiniteSet(Actor) /\ IsFiniteSet(Tid)
<1>1. MaxThreads \in Nat /\ MaxObjects \in Nat
  BY IthreadsAssumption
<1>2. /\ Main \in Actor /\ Main \notin Tid /\ Tid \subseteq Actor /\ Actor = Tid \cup {Main}
      /\ NoActor \notin Actor /\ Tid \subseteq Nat \ {0}
  BY <1>1 DEF Main, Actor, Tid, NoActor
<1>3. IsFiniteSet(Actor) /\ IsFiniteSet(Tid)
  BY <1>1, FS_Interval DEF Actor, Tid
<1>. QED BY <1>1, <1>2, <1>3

LEMMA WalkLabels ==
  /\ Walks = {"all", "running", "joinable", "object"}
  /\ Takes = {"take_all", "take_running", "take_joinable", "take_object"}
  /\ Taking["all"] = "take_all" /\ Taking["running"] = "take_running"
  /\ Taking["joinable"] = "take_joinable" /\ Taking["object"] = "take_object"
<1>1. Walks = {"all", "running", "joinable", "object"}
  BY DEF Walks, Taking
<1>2. /\ Taking["all"] = "take_all" /\ Taking["running"] = "take_running"
      /\ Taking["joinable"] = "take_joinable" /\ Taking["object"] = "take_object"
  BY DEF Taking
<1>3. Takes = {"take_all", "take_running", "take_joinable", "take_object"}
  BY <1>1, <1>2 DEF Takes
<1>. QED BY <1>1, <1>2, <1>3

\* What is known of each variable.
LEMMA Typed ==
  ASSUME ItTypeOK
  PROVE  /\ \A p \in Actor : /\ stack[p] \in Seq(FrameSet) /\ Len(stack[p]) \in Nat
                             /\ (stack[p] = <<>> <=> Len(stack[p]) = 0)
                             /\ \A k \in 1..Len(stack[p]) :
                                  /\ stack[p][k] \in FrameSet /\ stack[p][k].x \in Actor
                                  /\ stack[p][k].at \in Labels
                                  /\ stack[p][k] = ItFrame(stack[p][k].at, stack[p][k].x)
         /\ \A i, x \in Actor : obj[i][x] \in Nat
         /\ \A x \in Actor : /\ thread[x].count \in Nat /\ thread[x].state \subseteq Flags
                             /\ thread[x].mutex \in Actor \cup {NoActor}
                             /\ thread[x].interp \in {"none", "live"}
         /\ Created \subseteq Tid /\ Created \subseteq Actor /\ Main \notin Created
         /\ IsFiniteSet(Created) /\ Known \subseteq Actor /\ Known = Created \cup {Main}
<1>1. ASSUME NEW p \in Actor
      PROVE  /\ stack[p] \in Seq(FrameSet) /\ Len(stack[p]) \in Nat
             /\ (stack[p] = <<>> <=> Len(stack[p]) = 0)
             /\ \A k \in 1..Len(stack[p]) :
                  /\ stack[p][k] \in FrameSet /\ stack[p][k].x \in Actor
                  /\ stack[p][k].at \in Labels
                  /\ stack[p][k] = ItFrame(stack[p][k].at, stack[p][k].x)
  <2>1. stack[p] \in Seq(FrameSet)
    BY DEF ItTypeOK, FrameSet
  <2>2. Len(stack[p]) \in Nat /\ (stack[p] = <<>> <=> Len(stack[p]) = 0)
    BY <2>1, EmptySeq, LenProperties
  <2>3. \A k \in 1..Len(stack[p]) : stack[p][k] \in FrameSet
    BY <2>1, ElementOfSeq
  <2>4. \A f \in FrameSet : f.x \in Actor /\ f.at \in Labels /\ f = ItFrame(f.at, f.x)
    BY DEF FrameSet, ItFrame
  <2>. QED BY <2>1, <2>2, <2>3, <2>4
<1>2. \A i, x \in Actor : obj[i][x] \in Nat
  BY DEF ItTypeOK
<1>3. \A x \in Actor : /\ thread[x].count \in Nat /\ thread[x].state \subseteq Flags
                       /\ thread[x].mutex \in Actor \cup {NoActor}
                       /\ thread[x].interp \in {"none", "live"}
  BY DEF ItTypeOK
<1>4. Created \subseteq Tid
  BY ItConstants DEF ItTypeOK, Created, Tid
<1>5. IsFiniteSet(Created)
  BY <1>4, ItConstants, FS_Subset
<1>. QED BY <1>1, <1>2, <1>3, <1>4, <1>5, ItConstants DEF Known

(***************************************************************************)
(* What an action does to the stacks: d is s with another innermost frame  *)
(* of p, one more, or one less.                                            *)
(***************************************************************************)
Replaced(s, d, p, f) ==
  /\ \A q \in Actor : q # p => d[q] = s[q]
  /\ Len(s[p]) > 0 /\ Len(d[p]) = Len(s[p]) /\ d[p][Len(s[p])] = f
  /\ \A k \in 1..Len(s[p]) : k < Len(s[p]) => d[p][k] = s[p][k]
Pushed(s, d, p, f) ==
  /\ \A q \in Actor : q # p => d[q] = s[q]
  /\ Len(d[p]) = Len(s[p]) + 1 /\ d[p][Len(s[p]) + 1] = f
  /\ \A k \in 1..Len(s[p]) : d[p][k] = s[p][k]
Popped(s, d, p) ==
  /\ \A q \in Actor : q # p => d[q] = s[q]
  /\ Len(s[p]) > 0 /\ Len(d[p]) = Len(s[p]) - 1
  /\ \A k \in 1..Len(s[p]) : k < Len(s[p]) => d[p][k] = s[p][k]
\* Another innermost frame and one on it.
Covered(s, d, p, f, g) ==
  /\ \A q \in Actor : q # p => d[q] = s[q]
  /\ Len(s[p]) > 0 /\ Len(d[p]) = Len(s[p]) + 1
  /\ d[p][Len(s[p])] = f /\ d[p][Len(s[p]) + 1] = g
  /\ \A k \in 1..Len(s[p]) : k < Len(s[p]) => d[p][k] = s[p][k]

LEMMA OuterIs ==
  ASSUME NEW S, NEW s \in Seq(S), Len(s) > 0
  PROVE  /\ Outer(s) \in Seq(S) /\ Len(Outer(s)) = Len(s) - 1
         /\ \A k \in 1..Len(s) : k < Len(s) => Outer(s)[k] = s[k]
<1>1. Len(s) \in Nat /\ Len(s) - 1 \in Int
  BY LenProperties
<1>2. \A k \in 1..(Len(s) - 1) : s[k] \in S
  BY <1>1, ElementOfSeq
<1>3. /\ SubSeq(s, 1, Len(s) - 1) \in Seq(S)
      /\ Len(SubSeq(s, 1, Len(s) - 1)) = IF 1 <= Len(s) - 1 THEN (Len(s) - 1) - 1 + 1 ELSE 0
      /\ \A k \in 1..((Len(s) - 1) - 1 + 1) : SubSeq(s, 1, Len(s) - 1)[k] = s[1 + k - 1]
  BY <1>1, <1>2, SubSeqProperties
<1>4. \A k \in 1..(Len(s) - 1) : SubSeq(s, 1, Len(s) - 1)[k] = s[k]
  BY <1>1, <1>3
<1>5. Len(SubSeq(s, 1, Len(s) - 1)) = Len(s) - 1
  <2>1. PICK n \in Nat : n = Len(s) /\ n > 0
    BY <1>1
  <2>2. Len(SubSeq(s, 1, n - 1)) = IF 1 <= n - 1 THEN (n - 1) - 1 + 1 ELSE 0
    BY ONLY <1>3, <2>1
  <2>. QED BY ONLY <2>1, <2>2
<1>6. \A k \in 1..Len(s) : k < Len(s) => k \in 1..(Len(s) - 1)
  BY <1>1
<1>. QED BY ONLY <1>3, <1>4, <1>5, <1>6 DEF Outer

\* What the operations on stacks do to the sequence of frames.
LEMMA StackOperations ==
  ASSUME ItTypeOK, NEW p \in Actor
  PROVE  /\ \A at \in Labels, x \in Actor :
              /\ Push(p, at, x) =>
                   /\ stack' \in [Actor -> Seq(FrameSet)]
                   /\ Pushed(stack, stack', p, ItFrame(at, x))
              /\ stack[p] # <<>> /\ GotoAt(p, at, x) =>
                   /\ stack' \in [Actor -> Seq(FrameSet)]
                   /\ Replaced(stack, stack', p, ItFrame(at, x))
         /\ stack[p] # <<>> /\ Pop(p) =>
              stack' \in [Actor -> Seq(FrameSet)] /\ Popped(stack, stack', p)
<1>1. stack \in [Actor -> Seq(FrameSet)] /\ Len(stack[p]) \in Nat /\ stack[p] \in Seq(FrameSet)
  BY Typed DEF ItTypeOK, FrameSet
<1>2. ASSUME NEW at \in Labels, NEW x \in Actor, Push(p, at, x)
      PROVE  stack' \in [Actor -> Seq(FrameSet)] /\ Pushed(stack, stack', p, ItFrame(at, x))
  <2>1. ItFrame(at, x) \in FrameSet
    BY DEF ItFrame, FrameSet
  <2>2. stack' = [stack EXCEPT ![p] = Append(stack[p], ItFrame(at, x))]
    BY <1>2 DEF Push
  <2>3. /\ Append(stack[p], ItFrame(at, x)) \in Seq(FrameSet)
        /\ Len(Append(stack[p], ItFrame(at, x))) = Len(stack[p]) + 1
        /\ Append(stack[p], ItFrame(at, x))[Len(stack[p]) + 1] = ItFrame(at, x)
        /\ \A k \in 1..Len(stack[p]) : Append(stack[p], ItFrame(at, x))[k] = stack[p][k]
    BY <1>1, <2>1, AppendProperties
  <2>. QED BY <1>1, <2>2, <2>3 DEF Pushed
<1>3. ASSUME stack[p] # <<>>
      PROVE  /\ Len(stack[p]) > 0 /\ Outer(stack[p]) \in Seq(FrameSet)
             /\ Len(Outer(stack[p])) = Len(stack[p]) - 1
             /\ \A k \in 1..Len(stack[p]) : k < Len(stack[p]) => Outer(stack[p])[k] = stack[p][k]
  <2>1. Len(stack[p]) > 0
    BY <1>1, <1>3, EmptySeq
  <2>. QED BY <2>1, <1>1, OuterIs
<1>4. ASSUME NEW at \in Labels, NEW x \in Actor, stack[p] # <<>>, GotoAt(p, at, x)
      PROVE  stack' \in [Actor -> Seq(FrameSet)] /\ Replaced(stack, stack', p, ItFrame(at, x))
  <2>1. ItFrame(at, x) \in FrameSet
    BY DEF ItFrame, FrameSet
  <2>2. stack' = [stack EXCEPT ![p] = Append(Outer(stack[p]), ItFrame(at, x))]
    BY <1>4 DEF GotoAt
  <2>3. /\ Append(Outer(stack[p]), ItFrame(at, x)) \in Seq(FrameSet)
        /\ Len(Append(Outer(stack[p]), ItFrame(at, x))) = Len(Outer(stack[p])) + 1
        /\ Append(Outer(stack[p]), ItFrame(at, x))[Len(Outer(stack[p])) + 1] = ItFrame(at, x)
        /\ \A k \in 1..Len(Outer(stack[p])) :
             Append(Outer(stack[p]), ItFrame(at, x))[k] = Outer(stack[p])[k]
    BY <1>3, <1>4, <2>1, AppendProperties
  <2>4. /\ Len(stack[p]) > 0 /\ Len(stack'[p]) = Len(stack[p])
        /\ stack'[p][Len(stack[p])] = ItFrame(at, x)
        /\ \A k \in 1..Len(stack[p]) : k < Len(stack[p]) => stack'[p][k] = stack[p][k]
    BY <1>1, <1>3, <1>4, <2>2, <2>3
  <2>. QED BY <1>1, <2>2, <2>3, <2>4 DEF Replaced
<1>5. ASSUME stack[p] # <<>>, Pop(p)
      PROVE  stack' \in [Actor -> Seq(FrameSet)] /\ Popped(stack, stack', p)
  <2>1. stack' = [stack EXCEPT ![p] = Outer(stack[p])]
    BY <1>5 DEF Pop
  <2>. QED BY <1>1, <1>3, <1>5, <2>1 DEF Popped
<1>. QED BY <1>2, <1>4, <1>5

(***************************************************************************)
(* Counting frames.                                                        *)
(***************************************************************************)
Stacks == [Actor -> Seq(FrameSet)]

\* Frame k of p is there, about x, with one of some labels.
IsAt(s, p, k, x, labels) ==
  k \in 1..Len(s[p]) /\ s[p][k].x = x /\ s[p][k].at \in labels
At(s, x, labels) ==
  UNION {{<<p, k>> : k \in {k \in DOMAIN s[p] :
                             s[p][k].x = x /\ s[p][k].at \in labels}} : p \in Actor}

Weight(f, x) ==
  IF f.x # x \/ f.at \notin Owners THEN 0 ELSE IF f.at \in OwningTwo THEN 2 ELSE 1
Held(s, x) == Cardinality(At(s, x, Owners)) + Cardinality(At(s, x, OwningTwo))

\* Two sets that agree but for c: their sizes.
LEMMA OneDiffers ==
  ASSUME NEW S, NEW T, IsFiniteSet(S), NEW c, \A z : z # c => (z \in S <=> z \in T)
  PROVE  /\ IsFiniteSet(T)
         /\ Cardinality(T) =
              Cardinality(S) - (IF c \in S THEN 1 ELSE 0) + (IF c \in T THEN 1 ELSE 0)
<1>1. /\ IsFiniteSet(S \ {c}) /\ Cardinality(S) \in Nat
      /\ Cardinality(S \ {c}) = IF c \in S THEN Cardinality(S) - 1 ELSE Cardinality(S)
  BY FS_RemoveElement, FS_CardinalityType
<1>2. S \ {c} = T \ {c}
  OBVIOUS
<1>3. CASE c \in T
  <2>1. T = (S \ {c}) \cup {c} /\ c \notin S \ {c}
    BY <1>2, <1>3
  <2>2. IsFiniteSet(T) /\ Cardinality(T) = Cardinality(S \ {c}) + 1
    BY <1>1, <2>1, FS_AddElement
  <2>. QED BY <1>1, <1>3, <2>2
<1>4. CASE c \notin T
  <2>1. T = S \ {c}
    BY <1>2, <1>4
  <2>. QED BY <1>1, <1>4, <2>1
<1>. QED BY <1>3, <1>4

LEMMA SeqDomain == ASSUME NEW s \in Stacks, NEW p \in Actor
  PROVE DOMAIN s[p] = 1..Len(s[p]) /\ Len(s[p]) \in Nat /\ s[p] \in Seq(FrameSet)
<1>1. s[p] \in Seq(FrameSet)
  BY DEF Stacks
<1>. QED BY <1>1, LenProperties

LEMMA AtIs ==
  ASSUME NEW s \in Stacks, NEW x, NEW labels
  PROVE  /\ IsFiniteSet(At(s, x, labels))
         /\ \A z : z \in At(s, x, labels) <=>
                     \E p \in Actor : \E k \in 1..Len(s[p]) :
                       z = <<p, k>> /\ s[p][k].x = x /\ s[p][k].at \in labels
<1> DEFINE F == [p \in Actor |-> {<<p, k>> : k \in {k \in DOMAIN s[p] :
                                    s[p][k].x = x /\ s[p][k].at \in labels}}]
           R == {F[p] : p \in Actor}
<1>1. At(s, x, labels) = UNION R
  BY DEF At
<1>2. ASSUME NEW p \in Actor PROVE IsFiniteSet(F[p])
  <2> DEFINE K == {k \in DOMAIN s[p] : s[p][k].x = x /\ s[p][k].at \in labels}
             g == [k \in K |-> <<p, k>>]
  <2>1. DOMAIN s[p] = 1..Len(s[p]) /\ Len(s[p]) \in Nat
    BY SeqDomain
  <2>2. IsFiniteSet(K)
    <3>1. IsFiniteSet(1..Len(s[p]))
      BY <2>1, FS_Interval
    <3>2. K \subseteq 1..Len(s[p])
      BY <2>1
    <3>. QED BY <3>1, <3>2, FS_Subset
  <2>3. F[p] = {<<p, k>> : k \in K}
    OBVIOUS
  <2>4. g \in Surjection(K, F[p])
    <3> HIDE DEF K
    <3>1. g \in [K -> F[p]] /\ \A t \in F[p] : \E k \in K : g[k] = t
      BY <2>3
    <3>. QED BY <3>1, Fun_IsSurj
  <2>. QED BY <2>2, <2>4, FS_Surjection
<1>3. IsFiniteSet(R)
  <2> HIDE DEF F
  <2> DEFINE h == [p \in Actor |-> F[p]]
  <2>1. h \in [Actor -> R] /\ \A t \in R : \E p \in Actor : h[p] = t
    OBVIOUS
  <2>2. h \in Surjection(Actor, R)
    BY <2>1, Fun_IsSurj
  <2>. QED BY <2>2, ItConstants, FS_Surjection
<1>4. IsFiniteSet(At(s, x, labels))
  <2>1. \A T \in R : IsFiniteSet(T)
    BY <1>2
  <2> HIDE DEF R
  <2>. QED BY <1>1, <1>3, <2>1, FS_UNION
<1>5. \A z : z \in At(s, x, labels) <=>
               \E p \in Actor : \E k \in DOMAIN s[p] :
                 z = <<p, k>> /\ s[p][k].x = x /\ s[p][k].at \in labels
  BY DEF At
<1>6. \A p \in Actor : DOMAIN s[p] = 1..Len(s[p])
  BY SeqDomain
<1>. QED BY <1>4, <1>5, <1>6

LEMMA IsAtIs ==
  ASSUME NEW s \in Stacks, NEW x, NEW labels, NEW p \in Actor, NEW k
  PROVE  <<p, k>> \in At(s, x, labels) <=> IsAt(s, p, k, x, labels)
  BY AtIs DEF IsAt

LEMMA AtDiffers ==
  ASSUME NEW s \in Stacks, NEW d \in Stacks, NEW x, NEW labels, NEW p \in Actor, NEW n,
         \A q \in Actor : \A k : q # p \/ k # n =>
           (IsAt(s, q, k, x, labels) <=> IsAt(d, q, k, x, labels))
  PROVE  /\ Cardinality(At(d, x, labels)) =
              Cardinality(At(s, x, labels)) - (IF IsAt(s, p, n, x, labels) THEN 1 ELSE 0)
                                            + (IF IsAt(d, p, n, x, labels) THEN 1 ELSE 0)
         /\ Cardinality(At(s, x, labels)) \in Nat
<1>1. ASSUME NEW z, z # <<p, n>>
      PROVE  z \in At(s, x, labels) <=> z \in At(d, x, labels)
  <2>1. CASE \E q \in Actor : \E k : z = <<q, k>>
    <3>0. PICK q \in Actor : \E k : z = <<q, k>>
      BY <2>1
    <3>1. PICK k : z = <<q, k>>
      BY <3>0
    <3>2. q # p \/ k # n
      BY <1>1, <3>1
    <3>. QED BY <3>1, <3>2, IsAtIs
  <2>2. CASE ~\E q \in Actor : \E k : z = <<q, k>>
    BY <2>2, AtIs
  <2>. QED BY <2>1, <2>2
<1>2. IsFiniteSet(At(s, x, labels))
  BY AtIs
<1>3. Cardinality(At(d, x, labels)) =
        Cardinality(At(s, x, labels)) - (IF <<p, n>> \in At(s, x, labels) THEN 1 ELSE 0)
                                      + (IF <<p, n>> \in At(d, x, labels) THEN 1 ELSE 0)
  <2>1. PICK S, T, c : S = At(s, x, labels) /\ T = At(d, x, labels) /\ c = <<p, n>>
    OBVIOUS
  <2>2. /\ IsFiniteSet(S)
        /\ \A z : z # c => (z \in S <=> z \in T)
    BY <1>1, <1>2, <2>1
  <2>3. Cardinality(T) =
          Cardinality(S) - (IF c \in S THEN 1 ELSE 0) + (IF c \in T THEN 1 ELSE 0)
    BY ONLY <2>2, OneDiffers
  <2>. QED BY ONLY <2>1, <2>3
<1>4. /\ <<p, n>> \in At(s, x, labels) <=> IsAt(s, p, n, x, labels)
      /\ <<p, n>> \in At(d, x, labels) <=> IsAt(d, p, n, x, labels)
  BY IsAtIs
<1>5. Cardinality(At(s, x, labels)) \in Nat
  BY <1>2, FS_CardinalityType
<1>. QED BY ONLY <1>3, <1>4, <1>5

LEMMA LabelsOfOwners == OwningTwo \subseteq Owners /\ "clear" \notin Owners
  BY DEF Owners, OwningTwo, Owning, Running

\* The share of one frame, if it is there.
Share(s, p, n, x) == IF n \in 1..Len(s[p]) THEN Weight(s[p][n], x) ELSE 0

\* Two families of stacks that agree but for one frame: how many frames hold x.
LEMMA HeldDiffers ==
  ASSUME NEW s \in Stacks, NEW d \in Stacks, NEW p \in Actor, NEW n, NEW x,
         \A q \in Actor : \A k : \A labels \in {Owners, OwningTwo} : q # p \/ k # n =>
           (IsAt(s, q, k, x, labels) <=> IsAt(d, q, k, x, labels))
  PROVE  Held(d, x) = Held(s, x) - Share(s, p, n, x) + Share(d, p, n, x) /\ Held(s, x) \in Nat
<1>1. /\ Cardinality(At(d, x, Owners)) =
           Cardinality(At(s, x, Owners)) - (IF IsAt(s, p, n, x, Owners) THEN 1 ELSE 0)
                                         + (IF IsAt(d, p, n, x, Owners) THEN 1 ELSE 0)
      /\ Cardinality(At(s, x, Owners)) \in Nat
  BY AtDiffers
<1>2. /\ Cardinality(At(d, x, OwningTwo)) =
           Cardinality(At(s, x, OwningTwo)) - (IF IsAt(s, p, n, x, OwningTwo) THEN 1 ELSE 0)
                                            + (IF IsAt(d, p, n, x, OwningTwo) THEN 1 ELSE 0)
      /\ Cardinality(At(s, x, OwningTwo)) \in Nat
  BY AtDiffers
<1>3. \A r \in {s, d} : Share(r, p, n, x) = (IF IsAt(r, p, n, x, Owners) THEN 1 ELSE 0)
                                              + (IF IsAt(r, p, n, x, OwningTwo) THEN 1 ELSE 0)
  BY LabelsOfOwners DEF Share, Weight, IsAt
<1>. QED BY <1>1, <1>2, <1>3 DEF Held

LEMMA ReplacedHeld ==
  ASSUME NEW s \in Stacks, NEW d \in Stacks, NEW p \in Actor, NEW f, Replaced(s, d, p, f), NEW x
  PROVE  /\ Held(d, x) = Held(s, x) - Weight(s[p][Len(s[p])], x) + Weight(f, x)
         /\ Held(s, x) \in Nat
<1>1. Len(s[p]) \in Nat /\ Len(s[p]) > 0
  BY SeqDomain DEF Replaced
<1>2. \A q \in Actor : \A k : \A labels \in {Owners, OwningTwo} : q # p \/ k # Len(s[p]) =>
           (IsAt(s, q, k, x, labels) <=> IsAt(d, q, k, x, labels))
  BY <1>1 DEF Replaced, IsAt
<1>3. Held(d, x) = Held(s, x) - Share(s, p, Len(s[p]), x) + Share(d, p, Len(s[p]), x) /\ Held(s, x) \in Nat
  BY <1>2, HeldDiffers
<1>4. Share(s, p, Len(s[p]), x) = Weight(s[p][Len(s[p])], x) /\ Share(d, p, Len(s[p]), x) = Weight(f, x)
  BY <1>1 DEF Replaced, Share
<1>. QED BY <1>3, <1>4

LEMMA PushedHeld ==
  ASSUME NEW s \in Stacks, NEW d \in Stacks, NEW p \in Actor, NEW f, Pushed(s, d, p, f), NEW x
  PROVE  Held(d, x) = Held(s, x) + Weight(f, x) /\ Held(s, x) \in Nat
<1>1. Len(s[p]) \in Nat
  BY SeqDomain
<1>2. \A q \in Actor : \A k : \A labels \in {Owners, OwningTwo} : q # p \/ k # Len(s[p]) + 1 =>
           (IsAt(s, q, k, x, labels) <=> IsAt(d, q, k, x, labels))
  BY <1>1 DEF Pushed, IsAt
<1>3. /\ Held(d, x) = Held(s, x) - Share(s, p, Len(s[p]) + 1, x) + Share(d, p, Len(s[p]) + 1, x)
      /\ Held(s, x) \in Nat
  BY <1>2, HeldDiffers
<1>4. Share(s, p, Len(s[p]) + 1, x) = 0 /\ Share(d, p, Len(s[p]) + 1, x) = Weight(f, x)
  BY <1>1 DEF Pushed, Share
<1>5. Weight(f, x) \in Nat
  BY DEF Weight
<1>. QED BY <1>3, <1>4, <1>5

LEMMA PoppedHeld ==
  ASSUME NEW s \in Stacks, NEW d \in Stacks, NEW p \in Actor, Popped(s, d, p), NEW x
  PROVE  Held(d, x) = Held(s, x) - Weight(s[p][Len(s[p])], x) /\ Held(s, x) \in Nat
<1>1. Len(s[p]) \in Nat /\ Len(s[p]) > 0
  BY SeqDomain DEF Popped
<1>2. \A q \in Actor : \A k : \A labels \in {Owners, OwningTwo} : q # p \/ k # Len(s[p]) =>
           (IsAt(s, q, k, x, labels) <=> IsAt(d, q, k, x, labels))
  BY <1>1 DEF Popped, IsAt
<1>3. Held(d, x) = Held(s, x) - Share(s, p, Len(s[p]), x) + Share(d, p, Len(s[p]), x) /\ Held(s, x) \in Nat
  BY <1>2, HeldDiffers
<1>4. Share(s, p, Len(s[p]), x) = Weight(s[p][Len(s[p])], x) /\ Share(d, p, Len(s[p]), x) = 0
  BY <1>1 DEF Popped, Share
<1>5. Weight(s[p][Len(s[p])], x) \in Nat
  BY DEF Weight
<1>. QED BY <1>3, <1>4, <1>5

LEMMA CoveredHeld ==
  ASSUME NEW s \in Stacks, NEW d \in Stacks, NEW p \in Actor, NEW f, NEW y, NEW x,
         Covered(s, d, p, f, ItFrame("clear", y))
  PROVE  /\ Held(d, x) = Held(s, x) - Weight(s[p][Len(s[p])], x) + Weight(f, x)
         /\ Held(s, x) \in Nat
<1>1. Len(s[p]) \in Nat /\ Len(s[p]) > 0
  BY SeqDomain DEF Covered
<1>2. \A q \in Actor : \A k : \A labels \in {Owners, OwningTwo} : q # p \/ k # Len(s[p]) =>
           (IsAt(s, q, k, x, labels) <=> IsAt(d, q, k, x, labels))
  <2>1. ItFrame("clear", y).at \notin Owners /\ ItFrame("clear", y).at \notin OwningTwo
    BY LabelsOfOwners DEF ItFrame
  <2>. QED BY <1>1, <2>1, SMTT(40) DEF Covered, IsAt
<1>3. Held(d, x) = Held(s, x) - Share(s, p, Len(s[p]), x) + Share(d, p, Len(s[p]), x) /\ Held(s, x) \in Nat
  BY <1>2, HeldDiffers
<1>4. Share(s, p, Len(s[p]), x) = Weight(s[p][Len(s[p])], x) /\ Share(d, p, Len(s[p]), x) = Weight(f, x)
  BY <1>1 DEF Covered, Share
<1>. QED BY <1>3, <1>4

(***************************************************************************)
(* Counting objects.                                                       *)
(***************************************************************************)
ObjectsIn(o, x) == UNION {{<<i, n>> : n \in 1..o[i][x]} : i \in Actor}
Number(o, x) == Cardinality(ObjectsIn(o, x))

LEMMA ObjectsAre ==
  ASSUME NEW o \in [Actor -> [Actor -> Nat]], NEW x \in Actor
  PROVE  /\ IsFiniteSet(ObjectsIn(o, x)) /\ Number(o, x) \in Nat
         /\ \A z : z \in ObjectsIn(o, x) <=> \E i \in Actor : \E n \in 1..o[i][x] : z = <<i, n>>
<1> DEFINE F == [i \in Actor |-> {<<i, n>> : n \in 1..o[i][x]}]
           R == {F[i] : i \in Actor}
<1>1. ObjectsIn(o, x) = UNION R
  BY DEF ObjectsIn
<1>2. ASSUME NEW i \in Actor PROVE IsFiniteSet(F[i])
  <2> DEFINE K == 1..o[i][x]
             g == [k \in K |-> <<i, k>>]
  <2>1. IsFiniteSet(K)
    <3>1. o[i][x] \in Nat
      OBVIOUS
    <3>. QED BY <3>1, FS_Interval
  <2>2. F[i] = {<<i, k>> : k \in K}
    OBVIOUS
  <2>3. g \in Surjection(K, F[i])
    <3> HIDE DEF K
    <3>1. g \in [K -> F[i]] /\ \A t \in F[i] : \E k \in K : g[k] = t
      BY <2>2
    <3>. QED BY <3>1, Fun_IsSurj
  <2>. QED BY <2>1, <2>3, FS_Surjection
<1>3. IsFiniteSet(R)
  <2> HIDE DEF F
  <2> DEFINE h == [i \in Actor |-> F[i]]
  <2>1. h \in [Actor -> R] /\ \A t \in R : \E i \in Actor : h[i] = t
    OBVIOUS
  <2>2. h \in Surjection(Actor, R)
    BY <2>1, Fun_IsSurj
  <2>. QED BY <2>2, ItConstants, FS_Surjection
<1>4. IsFiniteSet(ObjectsIn(o, x))
  <2>1. \A T \in R : IsFiniteSet(T)
    BY <1>2
  <2> HIDE DEF R
  <2>. QED BY <1>1, <1>3, <2>1, FS_UNION
<1>5. \A z : z \in ObjectsIn(o, x) <=> \E i \in Actor : \E n \in 1..o[i][x] : z = <<i, n>>
  BY DEF ObjectsIn
<1>. QED BY <1>4, <1>5, FS_CardinalityType DEF Number

LEMMA UpTo == ASSUME NEW a \in Nat PROVE IsFiniteSet(1..a) /\ Cardinality(1..a) = a
<1>1. PICK l \in Int, h \in Int : l = 1 /\ h = a
  OBVIOUS
<1>2. IsFiniteSet(l..h) /\ Cardinality(l..h) = IF l > h THEN 0 ELSE h - l + 1
  BY FS_Interval
<1>. QED BY <1>1, <1>2

\* The objects for x in one interpreter, c, become b instead of a.
LEMMA ObjectsDiffer ==
  ASSUME NEW o \in [Actor -> [Actor -> Nat]], NEW w \in [Actor -> [Actor -> Nat]],
         NEW x \in Actor, NEW c \in Actor, \A i \in Actor : i # c => w[i][x] = o[i][x]
  PROVE  Number(w, x) = Number(o, x) - o[c][x] + w[c][x]
<1> DEFINE R == {z \in ObjectsIn(o, x) : z \notin {c} \X Nat}
           C(a) == {c} \X (1..a)
<1>1. ASSUME NEW v \in {o, w}
      PROVE  ObjectsIn(v, x) = R \cup C(v[c][x])
  <2>1. v[c][x] \in Nat /\ v \in [Actor -> [Actor -> Nat]]
    OBVIOUS
  <2>2. \A z : z \in ObjectsIn(v, x) <=> \E i \in Actor : \E n \in 1..v[i][x] : z = <<i, n>>
    BY <2>1, ObjectsAre
  <2>3. \A z : z \in R <=> \E i \in Actor : i # c /\ \E n \in 1..o[i][x] : z = <<i, n>>
    <3>1. \A z : z \in ObjectsIn(o, x) <=> \E i \in Actor : \E n \in 1..o[i][x] : z = <<i, n>>
      BY ObjectsAre
    <3>2. \A i \in Actor : \A n \in 1..o[i][x] : <<i, n>> \in {c} \X Nat <=> i = c
      <4>1. \A i \in Actor : o[i][x] \in Nat
        OBVIOUS
      <4>. QED BY <4>1
    <3>. QED BY <3>1, <3>2
  <2>4. \A i \in Actor : i # c => v[i][x] = o[i][x]
    OBVIOUS
  <2>5. \A z : z \in C(v[c][x]) <=> \E n \in 1..v[c][x] : z = <<c, n>>
    OBVIOUS
  <2> HIDE DEF R, C
  <2>. QED BY <2>2, <2>3, <2>4, <2>5, ZenonT(40)
<1>2. IsFiniteSet(R)
  BY ObjectsAre, FS_Subset
<1>3. ASSUME NEW a \in Nat
      PROVE  IsFiniteSet(C(a)) /\ Cardinality(C(a)) = a /\ R \cap C(a) = {}
  <2>1. IsFiniteSet(1..a) /\ Cardinality(1..a) = a
    BY UpTo
  <2>2. IsFiniteSet({c}) /\ Cardinality({c}) = 1
    BY FS_Singleton
  <2>3. IsFiniteSet(C(a)) /\ Cardinality(C(a)) = a
    <3>1. PICK S, T : S = {c} /\ T = 1..a
      OBVIOUS
    <3>2. IsFiniteSet(S \X T) /\ Cardinality(S \X T) = Cardinality(S) * Cardinality(T)
      BY ONLY <2>1, <2>2, <3>1, FS_Product
    <3>3. Cardinality(S) * Cardinality(T) = a
      BY ONLY <2>1, <2>2, <3>1, a \in Nat
    <3>. QED BY ONLY <3>1, <3>2, <3>3
  <2>4. \A z \in C(a) : z \in {c} \X Nat
    OBVIOUS
  <2>5. R \cap C(a) = {}
    BY <2>4
  <2> HIDE DEF R, C
  <2>. QED BY <2>3, <2>5
<1>4. ASSUME NEW v \in {o, w}
      PROVE  Number(v, x) = Cardinality(R) + v[c][x]
  <2>1. v[c][x] \in Nat
    OBVIOUS
  <2> HIDE DEF R, C
  <2>2. PICK a \in Nat : a = v[c][x]
    BY <2>1
  <2>3. IsFiniteSet(C(a)) /\ Cardinality(C(a)) = a /\ R \cap C(a) = {}
    BY <1>3
  <2>4. Cardinality(R \cup C(a)) = Cardinality(R) + Cardinality(C(a)) - Cardinality(R \cap C(a))
    BY <1>2, <2>3, FS_Union
  <2>5. Cardinality(R \cap C(a)) = 0 /\ Cardinality(R) \in Nat
    BY <1>2, <2>3, FS_EmptySet, FS_CardinalityType
  <2>6. Number(v, x) = Cardinality(R \cup C(a))
    BY <1>1, <2>2 DEF Number
  <2>. QED BY ONLY <2>2, <2>3, <2>4, <2>5, <2>6
<1>5. Cardinality(R) \in Nat /\ o[c][x] \in Nat /\ w[c][x] \in Nat
  BY <1>2, FS_CardinalityType
<1> HIDE DEF R, C
<1>. QED BY <1>4, <1>5

LEMMA ObjectsSame ==
  ASSUME NEW o, NEW w, NEW x, \A i \in Actor : w[i][x] = o[i][x]
  PROVE  Number(w, x) = Number(o, x)
<1>1. ObjectsIn(w, x) = ObjectsIn(o, x)
  BY DEF ObjectsIn
<1>. QED BY <1>1 DEF Number

\* CountsReferences in these terms.
LEMMA ReferencesAre ==
  ASSUME NEW x PROVE
  References(x) = (IF Callable(x) THEN 1 ELSE 0) + Cardinality(ObjectsIn(obj, x))
     + Cardinality(At(stack, x, Owners)) + Cardinality(At(stack, x, OwningTwo))
  BY DEF References, Objects, ObjectsIn, FramesAt, At, Owners

(***************************************************************************)
(* What the frames are after a step: the outer m of p's stay, those in F   *)
(* are new.                                                                *)
(***************************************************************************)
Changed(s, d, p, m, F) ==
  /\ \A q \in Actor : \A k \in 1..Len(d[q]) :
       \/ k \in 1..Len(s[q]) /\ d[q][k] = s[q][k] /\ (q = p => k <= m)
       \/ q = p /\ k > m /\ d[q][k] \in F
  /\ \A q \in Actor : \A k \in 1..Len(s[q]) :
       \/ k \in 1..Len(d[q]) /\ d[q][k] = s[q][k]
       \/ q = p /\ k > m

LEMMA ChangedBy ==
  ASSUME NEW s \in Stacks, NEW d \in Stacks, NEW p \in Actor
  PROVE  /\ \A f : Replaced(s, d, p, f) => Changed(s, d, p, Len(s[p]) - 1, {f})
         /\ \A f : Pushed(s, d, p, f) => Changed(s, d, p, Len(s[p]), {f})
         /\ Popped(s, d, p) => Changed(s, d, p, Len(s[p]) - 1, {})
         /\ \A f, g : Covered(s, d, p, f, g) => Changed(s, d, p, Len(s[p]) - 1, {f, g})
<1>1. PICK n \in Nat : n = Len(s[p])
  BY SeqDomain
<1>2. \A q \in Actor : Len(s[q]) \in Nat /\ Len(d[q]) \in Nat
  BY SeqDomain
<1>3. ASSUME NEW f, Replaced(s, d, p, f) PROVE Changed(s, d, p, n - 1, {f})
  <2>1. ASSUME NEW q \in Actor, NEW k \in 1..Len(d[q])
        PROVE  \/ k \in 1..Len(s[q]) /\ d[q][k] = s[q][k] /\ (q = p => k <= n - 1)
               \/ q = p /\ k > n - 1 /\ d[q][k] \in {f}
    BY <1>1, <1>2, <1>3 DEF Replaced
  <2>2. ASSUME NEW q \in Actor, NEW k \in 1..Len(s[q])
        PROVE  \/ k \in 1..Len(d[q]) /\ d[q][k] = s[q][k]
               \/ q = p /\ k > n - 1
    BY <1>1, <1>2, <1>3 DEF Replaced
  <2>. QED BY <2>1, <2>2 DEF Changed
<1>4. ASSUME NEW f, Pushed(s, d, p, f) PROVE Changed(s, d, p, n, {f})
  <2>1. ASSUME NEW q \in Actor, NEW k \in 1..Len(d[q])
        PROVE  \/ k \in 1..Len(s[q]) /\ d[q][k] = s[q][k] /\ (q = p => k <= n)
               \/ q = p /\ k > n /\ d[q][k] \in {f}
    BY <1>1, <1>2, <1>4 DEF Pushed
  <2>2. ASSUME NEW q \in Actor, NEW k \in 1..Len(s[q])
        PROVE  \/ k \in 1..Len(d[q]) /\ d[q][k] = s[q][k]
               \/ q = p /\ k > n
    BY <1>1, <1>2, <1>4 DEF Pushed
  <2>. QED BY <2>1, <2>2 DEF Changed
<1>5. ASSUME Popped(s, d, p) PROVE Changed(s, d, p, n - 1, {})
  <2>1. ASSUME NEW q \in Actor, NEW k \in 1..Len(d[q])
        PROVE  k \in 1..Len(s[q]) /\ d[q][k] = s[q][k] /\ (q = p => k <= n - 1)
    BY <1>1, <1>2, <1>5 DEF Popped
  <2>2. ASSUME NEW q \in Actor, NEW k \in 1..Len(s[q])
        PROVE  \/ k \in 1..Len(d[q]) /\ d[q][k] = s[q][k]
               \/ q = p /\ k > n - 1
    BY <1>1, <1>2, <1>5 DEF Popped
  <2>. QED BY <2>1, <2>2 DEF Changed
<1>6. ASSUME NEW f, NEW g, Covered(s, d, p, f, g) PROVE Changed(s, d, p, n - 1, {f, g})
  <2>1. ASSUME NEW q \in Actor, NEW k \in 1..Len(d[q])
        PROVE  \/ k \in 1..Len(s[q]) /\ d[q][k] = s[q][k] /\ (q = p => k <= n - 1)
               \/ q = p /\ k > n - 1 /\ d[q][k] \in {f, g}
    BY <1>1, <1>2, <1>6 DEF Covered
  <2>2. ASSUME NEW q \in Actor, NEW k \in 1..Len(s[q])
        PROVE  \/ k \in 1..Len(d[q]) /\ d[q][k] = s[q][k]
               \/ q = p /\ k > n - 1
    BY <1>1, <1>2, <1>6 DEF Covered
  <2>. QED BY <2>1, <2>2 DEF Changed
<1>. QED BY <1>1, <1>3, <1>4, <1>5, <1>6

LEMMA FrameFields == \A a, x : ItFrame(a, x).at = a /\ ItFrame(a, x).x = x
  BY DEF ItFrame

\* Frames with another label than those that come and go are where they were.
Elsewhere(s, f) == \E p \in Actor : \E k \in 1..Len(s[p]) : s[p][k] = f

LEMMA StaysSomewhere ==
  ASSUME NEW s \in Stacks, NEW d \in Stacks, NEW p \in Actor, NEW m \in Int, NEW F,
         Changed(s, d, p, m, F), NEW c, \A f \in F : f.at # c,
         \A k \in 1..Len(s[p]) : k > m => s[p][k].at # c
  PROVE  \A y : Elsewhere(d, ItFrame(c, y)) <=> Elsewhere(s, ItFrame(c, y))
<1>1. ASSUME NEW y, Elsewhere(d, ItFrame(c, y)) PROVE Elsewhere(s, ItFrame(c, y))
  <2>0. PICK q \in Actor : \E k \in 1..Len(d[q]) : d[q][k] = ItFrame(c, y)
    BY <1>1 DEF Elsewhere
  <2>1. PICK k \in 1..Len(d[q]) : d[q][k] = ItFrame(c, y)
    BY <2>0
  <2>2. k \in 1..Len(s[q]) /\ d[q][k] = s[q][k]
    BY <2>1, FrameFields DEF Changed
  <2>. QED BY <2>1, <2>2 DEF Elsewhere
<1>2. ASSUME NEW y, Elsewhere(s, ItFrame(c, y)) PROVE Elsewhere(d, ItFrame(c, y))
  <2>0. PICK q \in Actor : \E k \in 1..Len(s[q]) : s[q][k] = ItFrame(c, y)
    BY <1>2 DEF Elsewhere
  <2>1. PICK k \in 1..Len(s[q]) : s[q][k] = ItFrame(c, y)
    BY <2>0
  <2>2. k \in 1..Len(d[q]) /\ d[q][k] = s[q][k]
    BY <2>1, FrameFields DEF Changed
  <2>. QED BY <2>1, <2>2 DEF Elsewhere
<1>. QED BY <1>1, <1>2

(***************************************************************************)
(* Where frames can be.                                                    *)
(***************************************************************************)
ShapeOf(s) ==
  /\ \A p \in Actor : Len(s[p]) > 0 => IsBottom(p, s[p][1])
  /\ \A p \in Actor : \A k \in 2..Len(s[p]) : MayLie(s[p][k], s[p][k - 1])
  /\ Len(s[Main]) > 0 /\ s[Main][1].at \in {"code", "gone"}

LEMMA ShapeIs == Shape <=> ShapeOf(stack)
  BY DEF Shape, ShapeOf

\* What Shape says of a frame at each label.
LEMMA Places ==
  ASSUME NEW s \in Stacks, ShapeOf(s), NEW p \in Actor, NEW k \in 1..Len(s[p])
  PROVE  /\ s[p][k].at \in Running => k = 1 /\ s[p][k].x = p
         /\ k > 1 /\ s[p][k].at \in OnCode => k = 2 /\ s[p][1].at = "code" /\ s[p][1].x = p
         /\ s[p][k].at \in OnCode => k = 2 /\ s[p][1].at = "code" /\ s[p][1].x = p
         /\ s[p][k].at \in OnCode \ {"free"} => Len(s[p]) = 2
         /\ s[p][k].at \notin {"code", "clear", "release", "free"} => Len(s[p]) = k
         /\ s[p][k].at = "clear" =>
              k > 1 /\ s[p][k - 1].at \in {"release", "free"} /\ s[p][k - 1].x = s[p][k].x
         /\ k > 1 /\ s[p][1].at = "code" => s[p][2].at \in OnCode \cup OnClear
         /\ k < Len(s[p]) /\ s[p][k].at \in {"release", "free"} =>
              s[p][k + 1].at = "clear" /\ s[p][k + 1].x = s[p][k].x
<1> USE WalkLabels DEF OnCode, OnClear, Ends, Running
<1>1. Len(s[p]) \in Nat
  BY SeqDomain
<1>2. IsBottom(p, s[p][1])
  BY <1>1 DEF ShapeOf
<1>3. ASSUME k > 1 PROVE MayLie(s[p][k], s[p][k - 1])
  BY <1>1, <1>3 DEF ShapeOf
<1>4. ASSUME k < Len(s[p]) PROVE MayLie(s[p][k + 1], s[p][k])
  <2>1. k + 1 \in 2..Len(s[p]) /\ (k + 1) - 1 = k
    BY <1>1, <1>4
  <2>. QED BY <2>1 DEF ShapeOf
<1>5. s[p][k].at \in Running => k = 1 /\ s[p][k].x = p
  BY <1>2, <1>3 DEF MayLie, IsBottom
<1>6. ASSUME NEW l \in 1..Len(s[p]), s[p][l].at \in Running PROVE l = 1
  <2>1. ASSUME l # 1 PROVE MayLie(s[p][l], s[p][l - 1])
    <3>1. l \in 2..Len(s[p])
      BY <1>1, <2>1
    <3>. QED BY <3>1 DEF ShapeOf
  <2>. QED BY <1>6, <2>1 DEF MayLie
<1>7. s[p][k].at \in OnCode => k = 2 /\ s[p][1].at = "code" /\ s[p][1].x = p
  <2>1. ASSUME s[p][k].at \in OnCode PROVE k # 1
    BY <1>2, <2>1 DEF IsBottom
  <2>2. ASSUME s[p][k].at \in OnCode PROVE s[p][k - 1].at = "code" /\ k - 1 \in 1..Len(s[p])
    BY <1>1, <1>3, <2>1, <2>2 DEF MayLie
  <2>. QED BY <1>2, <1>6, <2>1, <2>2 DEF IsBottom
<1>8. s[p][k].at \notin {"code", "clear", "release", "free"} => Len(s[p]) = k
  BY <1>1, <1>4 DEF MayLie
<1>9. s[p][k].at = "clear" =>
        k > 1 /\ s[p][k - 1].at \in {"release", "free"} /\ s[p][k - 1].x = s[p][k].x
  BY <1>2, <1>3 DEF MayLie, IsBottom
<1>10. k > 1 /\ s[p][1].at = "code" => s[p][2].at \in OnCode \cup OnClear
  <2>1. ASSUME k > 1 PROVE MayLie(s[p][2], s[p][1])
    <3>1. 2 \in 2..Len(s[p]) /\ 2 - 1 = 1
      BY <1>1, <2>1
    <3>. QED BY <3>1 DEF ShapeOf
  <2>. QED BY <2>1 DEF MayLie
<1>11. k < Len(s[p]) /\ s[p][k].at \in {"release", "free"} =>
              s[p][k + 1].at = "clear" /\ s[p][k + 1].x = s[p][k].x
  BY <1>4 DEF MayLie
<1>. QED BY <1>5, <1>7, <1>8, <1>9, <1>10, <1>11

\* The frames that stay lie right, and so do the new ones.
LEMMA ShapeStays ==
  ASSUME NEW s \in Stacks, NEW d \in Stacks, NEW p \in Actor, NEW m \in Nat, ShapeOf(s),
         \A q \in Actor : q # p => d[q] = s[q],
         m <= Len(s[p]), m <= Len(d[p]), \A k \in 1..m : d[p][k] = s[p][k],
         \A k \in 1..Len(d[p]) : k > m =>
           /\ k = 1 => IsBottom(p, d[p][k]) /\ (p = Main => d[p][k].at \in {"code", "gone"})
           /\ k > 1 => MayLie(d[p][k], d[p][k - 1]),
         p = Main => Len(d[p]) > 0
  PROVE  ShapeOf(d)
<1>1. \A q \in Actor : Len(s[q]) \in Nat /\ Len(d[q]) \in Nat
  BY SeqDomain
<1>2. ASSUME NEW q \in Actor, Len(d[q]) > 0
      PROVE  IsBottom(q, d[q][1]) /\ (q = Main => d[q][1].at \in {"code", "gone"})
  <2>1. 1 \in 1..Len(d[q])
    BY <1>1, <1>2
  <2>2. CASE q = p /\ m = 0
    <3>1. 1 > m
      BY <2>2
    <3>. QED BY <2>1, <2>2, <3>1
  <2>3. CASE q = p /\ m > 0
    <3>1. 1 \in 1..m /\ Len(s[p]) > 0
      BY <1>1, <2>3
    <3>2. d[p][1] = s[p][1]
      BY <3>1
    <3>. QED BY <2>3, <3>1, <3>2 DEF ShapeOf
  <2>4. CASE q # p
    BY <1>2, <2>4 DEF ShapeOf
  <2>. QED BY <2>2, <2>3, <2>4
<1>3. ASSUME NEW q \in Actor, NEW k \in 2..Len(d[q]) PROVE MayLie(d[q][k], d[q][k - 1])
  <2>1. CASE q # p
    BY <2>1 DEF ShapeOf
  <2>2. CASE q = p /\ k <= m
    <3>1. k \in 1..m /\ k - 1 \in 1..m /\ k \in 2..Len(s[p])
      BY <1>1, <2>2
    <3>2. d[p][k] = s[p][k] /\ d[p][k - 1] = s[p][k - 1]
      BY <3>1
    <3>3. MayLie(s[p][k], s[p][k - 1])
      BY <3>1 DEF ShapeOf
    <3>. QED BY <2>2, <3>2, <3>3
  <2>3. CASE q = p /\ k > m
    <3>1. k \in 1..Len(d[p]) /\ k > 1
      BY <1>1, <2>3
    <3>. QED BY <2>3, <3>1
  <2>. QED BY <2>1, <2>2, <2>3
<1>4. Len(d[Main]) > 0
  BY ItConstants DEF ShapeOf
<1>. QED BY <1>2, <1>3, <1>4, ItConstants DEF ShapeOf

LEMMA ReplacedShape ==
  ASSUME NEW s \in Stacks, NEW d \in Stacks, NEW p \in Actor, NEW f,
         ShapeOf(s), Replaced(s, d, p, f),
         Len(s[p]) = 1 => IsBottom(p, f) /\ (p = Main => f.at \in {"code", "gone"}),
         Len(s[p]) > 1 => MayLie(f, s[p][Len(s[p]) - 1])
  PROVE  ShapeOf(d)
<1>1. PICK n \in Nat : n = Len(s[p]) /\ n = Len(d[p]) /\ n > 0
  BY SeqDomain DEF Replaced
<1>2. PICK m \in Nat : m = n - 1
  BY <1>1
<1>3. /\ \A q \in Actor : q # p => d[q] = s[q]
      /\ m <= Len(s[p]) /\ m <= Len(d[p]) /\ \A k \in 1..m : d[p][k] = s[p][k]
      /\ p = Main => Len(d[p]) > 0
  BY <1>1, <1>2 DEF Replaced
<1>4. ASSUME NEW k \in 1..Len(d[p]), k > m
      PROVE  /\ k = 1 => IsBottom(p, d[p][k]) /\ (p = Main => d[p][k].at \in {"code", "gone"})
             /\ k > 1 => MayLie(d[p][k], d[p][k - 1])
  <2>1. k = n /\ d[p][k] = f
    BY <1>1, <1>2, <1>4 DEF Replaced
  <2>2. ASSUME k > 1 PROVE d[p][k - 1] = s[p][n - 1]
    BY <1>1, <2>1, <2>2 DEF Replaced
  <2>. QED BY <1>1, <2>1, <2>2
<1>. QED BY <1>3, <1>4, ShapeStays

LEMMA PushedShape ==
  ASSUME NEW s \in Stacks, NEW d \in Stacks, NEW p \in Actor, NEW f,
         ShapeOf(s), Pushed(s, d, p, f),
         Len(s[p]) = 0 => IsBottom(p, f),
         Len(s[p]) > 0 => MayLie(f, s[p][Len(s[p])])
  PROVE  ShapeOf(d)
<1>1. PICK m \in Nat : m = Len(s[p]) /\ m + 1 = Len(d[p])
  BY SeqDomain DEF Pushed
<1>2. p = Main => m > 0
  BY <1>1 DEF ShapeOf
<1>3. /\ \A q \in Actor : q # p => d[q] = s[q]
      /\ m <= Len(s[p]) /\ m <= Len(d[p]) /\ \A k \in 1..m : d[p][k] = s[p][k]
      /\ p = Main => Len(d[p]) > 0
  BY <1>1 DEF Pushed
<1>4. ASSUME NEW k \in 1..Len(d[p]), k > m
      PROVE  /\ k = 1 => IsBottom(p, d[p][k]) /\ (p = Main => d[p][k].at \in {"code", "gone"})
             /\ k > 1 => MayLie(d[p][k], d[p][k - 1])
  <2>1. k = m + 1 /\ d[p][k] = f
    BY <1>1, <1>4 DEF Pushed
  <2>2. ASSUME k > 1 PROVE d[p][k - 1] = s[p][m]
    BY <1>1, <2>1, <2>2 DEF Pushed
  <2>. QED BY <1>1, <1>2, <2>1, <2>2
<1>. QED BY <1>3, <1>4, ShapeStays

LEMMA PoppedShape ==
  ASSUME NEW s \in Stacks, NEW d \in Stacks, NEW p \in Actor,
         ShapeOf(s), Popped(s, d, p), p = Main => Len(s[p]) > 1
  PROVE  ShapeOf(d)
<1>1. PICK m \in Nat : m + 1 = Len(s[p]) /\ m = Len(d[p])
  BY SeqDomain DEF Popped
<1>2. /\ \A q \in Actor : q # p => d[q] = s[q]
      /\ m <= Len(s[p]) /\ m <= Len(d[p]) /\ \A k \in 1..m : d[p][k] = s[p][k]
      /\ p = Main => Len(d[p]) > 0
  BY <1>1 DEF Popped
<1>3. \A k \in 1..Len(d[p]) : ~(k > m)
  BY <1>1
<1>. QED BY <1>2, <1>3, ShapeStays

LEMMA CoveredShape ==
  ASSUME NEW s \in Stacks, NEW d \in Stacks, NEW p \in Actor, NEW f, NEW g,
         ShapeOf(s), Covered(s, d, p, f, g), p # Main \/ Len(s[p]) > 1,
         Len(s[p]) = 1 => IsBottom(p, f),
         Len(s[p]) > 1 => MayLie(f, s[p][Len(s[p]) - 1]),
         MayLie(g, f)
  PROVE  ShapeOf(d)
<1>0. PICK n \in Nat : n = Len(s[p]) /\ n > 0
  BY SeqDomain DEF Covered
<1>1. n = Len(s[p]) /\ n + 1 = Len(d[p]) /\ n > 0
  BY <1>0 DEF Covered
<1>2. PICK m \in Nat : m = n - 1
  <2>1. n - 1 \in Nat
    BY <1>1
  <2>. QED BY <2>1
<1>3. /\ \A q \in Actor : q # p => d[q] = s[q]
      /\ m <= Len(s[p]) /\ m <= Len(d[p]) /\ \A k \in 1..m : d[p][k] = s[p][k]
      /\ p = Main => Len(d[p]) > 0
  BY <1>1, <1>2 DEF Covered
<1>4. ASSUME NEW k \in 1..Len(d[p]), k > m
      PROVE  /\ k = 1 => IsBottom(p, d[p][k]) /\ (p = Main => d[p][k].at \in {"code", "gone"})
             /\ k > 1 => MayLie(d[p][k], d[p][k - 1])
  <2>1. CASE k = n
    <3>1. d[p][k] = f
      BY <1>1, <2>1 DEF Covered
    <3>2. ASSUME k > 1 PROVE d[p][k - 1] = s[p][n - 1]
      BY <1>1, <2>1, <3>2 DEF Covered
    <3>3. ASSUME k = 1 PROVE IsBottom(p, f) /\ p # Main
      BY <1>1, <2>1, <3>3
    <3>4. ASSUME k > 1 PROVE MayLie(f, s[p][n - 1])
      BY <1>1, <2>1, <3>4
    <3>. QED BY ONLY <3>1, <3>2, <3>3, <3>4
  <2>2. CASE k = n + 1
    <3>1. d[p][k] = g /\ d[p][k - 1] = f /\ k > 1
      BY <1>1, <2>2 DEF Covered
    <3>. QED BY <3>1, <1>1, <2>2
  <2>. QED BY <1>1, <1>2, <1>4, <2>1, <2>2
<1>. QED BY <1>3, <1>4, ShapeStays

(***************************************************************************)
(* What is known of a thread from what refers to it.                       *)
(***************************************************************************)
LEMMA TopFrame ==
  ASSUME ItTypeOK, NEW p \in Actor, NEW at, Now(p, at)
  PROVE  /\ stack \in Stacks /\ Len(stack[p]) \in Nat /\ Len(stack[p]) > 0 /\ stack[p] # <<>>
         /\ Len(stack[p]) \in 1..Len(stack[p])
         /\ stack[p][Len(stack[p])] = ItFrame(at, Target(p))
         /\ stack[p][Len(stack[p])].at = at /\ stack[p][Len(stack[p])].x = Target(p)
         /\ Target(p) \in Actor /\ at \in Labels
<1>1. stack \in Stacks
  BY DEF ItTypeOK, Stacks, FrameSet
<1>2. Len(stack[p]) \in Nat /\ Len(stack[p]) > 0 /\ stack[p] # <<>>
  BY Typed DEF Now
<1>3. Len(stack[p]) \in 1..Len(stack[p])
  BY <1>2
<1>. QED BY <1>1, <1>2, <1>3, Typed DEF Now, Inner, Target

LEMMA CodeTop ==
  ASSUME ItTypeOK, Shape, NEW p \in Actor, Now(p, "code")
  PROVE  Len(stack[p]) = 1 /\ Target(p) = p /\ stack[p][1] = ItFrame("code", p)
<1>1. PICK n \in 1..Len(stack[p]) : n = Len(stack[p])
  BY TopFrame
<1>2. /\ stack[p][n].at \in Running /\ stack[p][n] = ItFrame("code", Target(p))
      /\ stack[p][n].x = Target(p)
  BY <1>1, TopFrame DEF Running
<1>3. n = 1 /\ stack[p][n].x = p
  BY <1>2, TopFrame, Places, ShapeIs
<1>. QED BY <1>1, <1>2, <1>3

LEMMA NotCloned ==
  ASSUME ItTypeOK, CloneIsFresh, NEW x \in Actor
  PROVE  /\ stack[x] # <<>> => ~Somewhere(ItFrame("clone", x))
         /\ thread[x].state # {} => ~Somewhere(ItFrame("clone", x))
         /\ \A i \in Actor : obj[i][x] > 0 \/ obj[x][i] > 0 => ~Somewhere(ItFrame("clone", x))
         /\ \A q \in Actor : \A l \in 1..Len(stack[q]) :
              stack[q][l].x = x /\ stack[q][l].at # "clone" => ~Somewhere(ItFrame("clone", x))
<1> SUFFICES ASSUME Somewhere(ItFrame("clone", x))
             PROVE  /\ stack[x] = <<>> /\ thread[x].state = {}
                    /\ \A i \in Actor : obj[i][x] = 0 /\ obj[x][i] = 0
                    /\ \A q \in Actor : \A l \in 1..Len(stack[q]) :
                         stack[q][l].x = x => stack[q][l].at = "clone"
  BY Typed
<1>1. PICK p \in Actor : \E k \in 1..Len(stack[p]) : stack[p][k] = ItFrame("clone", x)
  BY DEF Somewhere
<1>2. PICK k \in 1..Len(stack[p]) : stack[p][k] = ItFrame("clone", x)
  BY <1>1
<1>3. stack[p][k].at = "clone" /\ stack[p][k].x = x
  BY <1>2, FrameFields
<1>4. MadeBy(p, k, x)
  BY <1>3 DEF CloneIsFresh
<1>. QED BY <1>3, <1>4 DEF MadeBy

LEMMA NotDoomed ==
  ASSUME ItTypeOK, DoomedIsAlone, NEW x \in Actor
  PROVE  /\ stack[x] # <<>> => ~Doomed(x)
         /\ \A i \in Actor : obj[i][x] > 0 => ~Doomed(x)
         /\ \A q \in Actor : \A l \in 1..Len(stack[q]) :
              /\ stack[q][l].x = x
              /\ stack[q][l].at \notin {"nonviable", "free", "clear"} \cup Ends
              => ~Doomed(x)
<1> SUFFICES ASSUME Doomed(x)
             PROVE  /\ stack[x] = <<>>
                    /\ \A i \in Actor : obj[i][x] = 0
                    /\ \A q \in Actor : \A l \in 1..Len(stack[q]) :
                         stack[q][l].x = x =>
                           stack[q][l].at \in {"nonviable", "free", "clear"} \cup Ends
  BY Typed
<1>1. PICK p \in Actor : DoomedBy(p, x)
  BY DEF DoomedIsAlone
<1>. QED BY <1>1 DEF DoomedIsAlone, DoomedBy

LEMMA NotUnreferenced ==
  ASSUME ItTypeOK, NEW x \in Actor
  PROVE  /\ Callable(x) => ~Unreferenced(x)
         /\ \A i \in Actor : obj[i][x] > 0 => ~Unreferenced(x)
         /\ \A q \in Actor : \A l \in 1..Len(stack[q]) :
              stack[q][l].x = x /\ stack[q][l].at \in Owners => ~Unreferenced(x)
  BY Typed DEF Unreferenced

(***************************************************************************)
(* Ordinary steps: no thread is created, doomed or at its end.  p keeps m  *)
(* of its frames, and F are new.                                           *)
(***************************************************************************)
Special == {"clone", "nonviable"} \cup Ends
HavePool == {"clone", "detach", "return", "die", "exit"} \cup Walks \cup Takes

\* x is nobody's in particular.
Common(x) ==
  x \in Known /\ ~Somewhere(ItFrame("clone", x)) /\ ~Doomed(x)

OrdinaryFrames(p, m, F) ==
  /\ stack' \in Stacks /\ Changed(stack, stack', p, m, F) /\ stack[p] # <<>>
  /\ m \in {Len(stack[p]) - 1, Len(stack[p])}
  /\ \A q \in Actor : q # p => stack'[q] = stack[q]
  /\ m < Len(stack[p]) => Inner(p).at \notin Special /\ (Inner(p).at = "clear" \/ ~Doomed(Target(p)))
  /\ \A f \in F :
       /\ f.at \notin Special /\ Common(f.x)
       /\ f.at \in Owners => ~Unreferenced(f.x)
       /\ f.at = "clear" => Is(f.x, "FINISHED") /\ ~Callable(f.x)
       /\ f.at \in HavePool => pool'.mutex = p
       /\ f.at \in Walks \cup Takes =>
            f.x \in Listed /\ itScenario[p] \cap {"list", "object"} # {}

OrdinaryPool(p, m) ==
  /\ pool'.total = pool.total
  /\ \/ pool'.mutex = pool.mutex
     \/ pool.mutex = NoActor
     \/ pool.mutex = p /\ \A k \in 1..Len(stack[p]) : k <= m => stack[p][k].at \notin HavePool

OrdinaryThreads ==
  \A x \in Actor :
    /\ thread[x].state \subseteq thread'[x].state
    /\ thread'[x].state # thread[x].state => ~Somewhere(ItFrame("clone", x))
    /\ "NONVIABLE" \in thread'[x].state => Is(x, "NONVIABLE")

OrdinaryObjects ==
  \A i, x \in Actor :
    obj'[i][x] \in Nat /\
    (obj'[i][x] > obj[i][x] =>
      i \in Known /\ ~Somewhere(ItFrame("clone", i)) /\ Common(x) /\ ~Unreferenced(x))

Ordinary(p, m, F) ==
  /\ OrdinaryFrames(p, m, F) /\ OrdinaryPool(p, m) /\ OrdinaryThreads /\ OrdinaryObjects
  /\ UNCHANGED <<itScenario, list, freed, tid_counter>>

LEMMA FramesAre ==
  ASSUME ItTypeOK, NEW f
  PROVE  /\ \A p \in Actor : f \in Frames(p) <=> \E k \in 1..Len(stack[p]) : stack[p][k] = f
         /\ Somewhere(f) <=> \E p \in Actor : f \in Frames(p)
<1>1. \A p \in Actor : DOMAIN stack[p] = 1..Len(stack[p])
  BY SeqDomain DEF ItTypeOK, Stacks, FrameSet
<1>2. \A p \in Actor : f \in Frames(p) <=> \E k \in 1..Len(stack[p]) : stack[p][k] = f
  BY <1>1 DEF Frames
<1>. QED BY <1>2 DEF Somewhere

LEMMA ViableIs ==
  ASSUME ItTypeOK
  PROVE  \A x : x \in Viable <=> x \in Created /\ ~Is(x, "NONVIABLE")
               /\ ~Somewhere(ItFrame("clone", x)) /\ ~Somewhere(ItFrame("nonviable", x))
  BY FramesAre DEF Viable

LEMMA OrdinaryNames ==
  ASSUME ItIInv, NEW p \in Actor, NEW m \in Nat, NEW F, Ordinary(p, m, F)
  PROVE  /\ Created' = Created /\ Known' = Known /\ Listed' = Listed
         /\ \A q \in Actor : q # p => stack'[q] = stack[q]
         /\ stack[p] # <<>> /\ stack \in Stacks /\ stack' \in Stacks
<1>1. Created' = Created /\ Known' = Known /\ Listed' = Listed
  BY DEF Ordinary, Created, Known, Listed
<1>2. stack \in Stacks
  BY DEF ItIInv, ItTypeOK, Stacks, FrameSet
<1>. QED BY <1>1, <1>2 DEF Ordinary, OrdinaryFrames

\* A frame after the step is an old one or a new one.
LEMMA OrdinaryNew ==
  ASSUME NEW p \in Actor, NEW m \in Nat, NEW F, Ordinary(p, m, F),
         NEW q \in Actor, NEW k \in 1..Len(stack'[q])
  PROVE  \/ k \in 1..Len(stack[q]) /\ stack'[q][k] = stack[q][k] /\ (q = p => k <= m)
         \/ /\ q = p /\ k > m /\ stack'[q][k] \in F /\ stack'[q][k].at \notin Special
            /\ Common(stack'[q][k].x)
  BY DEF Ordinary, OrdinaryFrames, Changed

\* A frame before the step stays, or was no special one.
LEMMA OrdinaryOld ==
  ASSUME ItIInv, NEW p \in Actor, NEW m \in Nat, NEW F, Ordinary(p, m, F),
         NEW q \in Actor, NEW k \in 1..Len(stack[q])
  PROVE  \/ k \in 1..Len(stack'[q]) /\ stack'[q][k] = stack[q][k]
         \/ /\ q = p /\ k > m /\ k = Len(stack[p]) /\ stack[q][k].at \notin Special
            /\ (stack[q][k].at = "clear" \/ ~Doomed(stack[q][k].x))
<1>1. Len(stack[q]) \in Nat
  BY Typed DEF ItIInv
<1>2. CASE q = p /\ k > m
  <2>1. m = Len(stack[p]) - 1 /\ k = Len(stack[p])
    BY <1>1, <1>2 DEF Ordinary, OrdinaryFrames
  <2>2. stack[q][k] = Inner(p) /\ stack[q][k].x = Target(p)
    BY <1>2, <2>1 DEF Inner, Target
  <2>. QED BY <1>1, <1>2, <2>1, <2>2 DEF Ordinary, OrdinaryFrames
<1>3. CASE ~(q = p /\ k > m)
  BY <1>3 DEF Ordinary, OrdinaryFrames, Changed
<1>. QED BY <1>2, <1>3

LEMMA OrdinaryKeepsPlaces ==
  ASSUME ItIInv, ItTypeOK', NEW p \in Actor, NEW m \in Nat, NEW F, Ordinary(p, m, F)
  PROVE  /\ \A c \in Special : \A x : Somewhere(ItFrame(c, x))' <=> Somewhere(ItFrame(c, x))
         /\ \A x \in Actor : Doomed(x)' <=> Doomed(x)
         /\ \A x \in Actor : Unlinked(x)' <=> Unlinked(x)
         /\ \A x \in Actor : Unreferenced(x) => Unreferenced(x)'
         /\ Viable' = Viable /\ Alive' = Alive
<1>1. ASSUME NEW c \in Special
      PROVE  \A x : Somewhere(ItFrame(c, x))' <=> Somewhere(ItFrame(c, x))
  <2>1. \A f \in F : f.at # c
    BY DEF Ordinary, OrdinaryFrames
  <2>2. \A k \in 1..Len(stack[p]) : k > m => stack[p][k].at # c
    <3>1. ASSUME NEW k \in 1..Len(stack[p]), k > m PROVE stack[p][k].at # c
      <4>1. Len(stack[p]) \in Nat
        BY Typed DEF ItIInv
      <4>2. m < Len(stack[p]) /\ k = Len(stack[p])
        BY <3>1, <4>1 DEF Ordinary, OrdinaryFrames
      <4>. QED BY <4>2 DEF Ordinary, OrdinaryFrames, Inner
    <3>. QED BY <3>1
  <2>3. stack \in Stacks /\ stack' \in Stacks /\ Changed(stack, stack', p, m, F) /\ m \in Int
    <3>1. stack \in Stacks
      BY DEF ItIInv, ItTypeOK, Stacks, FrameSet
    <3>. QED BY <3>1 DEF Ordinary, OrdinaryFrames
  <2>4. \A y : Elsewhere(stack', ItFrame(c, y)) <=> Elsewhere(stack, ItFrame(c, y))
    BY <2>1, <2>2, <2>3, StaysSomewhere
  <2>. QED BY <2>4 DEF Somewhere, Elsewhere
<1>2. {"clone", "nonviable", "dispose", "release", "uncount"} \subseteq Special
  BY DEF Special, Ends
<1>3. ASSUME NEW x \in Actor PROVE Doomed(x)' <=> Doomed(x)
  <2>1. Is(x, "NONVIABLE")' <=> Is(x, "NONVIABLE")
    BY DEF Is, Ordinary, OrdinaryThreads
  <2>. QED BY <1>1, <1>2, <2>1 DEF Doomed
<1>4. ASSUME NEW x \in Actor PROVE Unlinked(x)' <=> Unlinked(x)
  BY <1>1, <1>2 DEF Unlinked, Ordinary
<1>5. ASSUME NEW x \in Actor, Unreferenced(x) PROVE Unreferenced(x)'
  <2>1. ~Callable(x)'
    BY <1>5 DEF Unreferenced, Callable, Ordinary, OrdinaryThreads
  <2>2. ASSUME NEW i \in Actor PROVE obj'[i][x] = 0
    <3>1. obj[i][x] = 0 /\ obj'[i][x] \in Nat /\ ~(obj'[i][x] > obj[i][x])
      BY <1>5 DEF Unreferenced, Ordinary, OrdinaryObjects
    <3>. QED BY <3>1
  <2>3. ASSUME NEW q \in Actor, NEW k \in 1..Len(stack'[q]), stack'[q][k].x = x
        PROVE  stack'[q][k].at \notin Owners
    <3>1. CASE k \in 1..Len(stack[q]) /\ stack'[q][k] = stack[q][k]
      BY <1>5, <2>3, <3>1 DEF Unreferenced
    <3>2. CASE stack'[q][k] \in F
      BY <1>5, <2>3, <3>2 DEF Ordinary, OrdinaryFrames
    <3>. QED BY <3>1, <3>2, OrdinaryNew
  <2>. QED BY <2>1, <2>2, <2>3 DEF Unreferenced
<1>6. Created' = Created
  BY OrdinaryNames
<1>7. Alive' = Alive
  BY <1>1, <1>2, <1>6 DEF Alive, Ordinary
<1>8. Viable' = Viable
  <2>1. Created \subseteq Actor
    BY Typed DEF ItIInv
  <2>2. \A x \in Actor : Is(x, "NONVIABLE")' <=> Is(x, "NONVIABLE")
    BY DEF Is, Ordinary, OrdinaryThreads
  <2>3. \A x : x \in Viable <=> x \in Created /\ ~Is(x, "NONVIABLE")
               /\ ~Somewhere(ItFrame("clone", x)) /\ ~Somewhere(ItFrame("nonviable", x))
    BY ViableIs DEF ItIInv
  <2>4. \A x : x \in Viable' <=> x \in Created' /\ ~Is(x, "NONVIABLE")'
               /\ ~Somewhere(ItFrame("clone", x))' /\ ~Somewhere(ItFrame("nonviable", x))'
    <3>1. stack' \in Stacks
      BY DEF Ordinary, OrdinaryFrames
    <3>2. \A q \in Actor : DOMAIN stack'[q] = 1..Len(stack'[q])
      BY <3>1, SeqDomain
    <3>. QED BY <3>2 DEF Viable, Frames, Somewhere
  <2>. QED BY <1>1, <1>2, <1>6, <2>1, <2>2, <2>3, <2>4
<1>. QED BY <1>1, <1>3, <1>4, <1>5, <1>7, <1>8

\* An ordinary step keeps the parts of the invariant that are about threads being made
\* or ended, one lemma for each.
LEMMA OrdinaryKeepsKnown ==
  ASSUME ItIInv, ItTypeOK', NEW p \in Actor, NEW m \in Nat, NEW F, Ordinary(p, m, F)
  PROVE  OnlyKnown' /\ WalksAreInList' /\ TotalIsRight' /\ ListIsRight' /\ PoolIsHeld'
<1>1. ASSUME NEW q \in Actor, NEW k \in 1..Len(stack'[q]) PROVE stack'[q][k].x \in Known'
  <2>1. CASE k \in 1..Len(stack[q]) /\ stack'[q][k] = stack[q][k]
    BY <2>1, OrdinaryNames DEF ItIInv, OnlyKnown
  <2>2. CASE Common(stack'[q][k].x)
    BY <2>2, OrdinaryNames DEF Common
  <2>. QED BY <2>1, <2>2, OrdinaryNew
<1>2. ASSUME NEW i \in Actor, NEW x \in Actor, obj'[i][x] > 0 PROVE i \in Known' /\ x \in Known'
  <2>1. obj[i][x] \in Nat /\ obj'[i][x] \in Nat
    BY Typed DEF ItIInv, Ordinary, OrdinaryObjects
  <2>2. CASE obj'[i][x] > obj[i][x]
    BY <2>2, OrdinaryNames DEF Ordinary, OrdinaryObjects, Common
  <2>3. CASE obj[i][x] > 0
    BY <2>3, OrdinaryNames DEF ItIInv, OnlyKnown
  <2>. QED BY <2>1, <2>2, <2>3, <1>2
<1>3. OnlyKnown'
  <2>1. freed' \subseteq Created'
    BY OrdinaryNames DEF ItIInv, OnlyKnown, Ordinary
  <2>. QED BY <1>1, <1>2, <2>1 DEF OnlyKnown
<1>4. WalksAreInList'
  <2>1. ASSUME NEW q \in Actor, NEW k \in 1..Len(stack'[q]), stack'[q][k].at \in Walks \cup Takes
        PROVE  stack'[q][k].x \in Listed' /\ itScenario'[q] \cap {"list", "object"} # {}
    <3>1. Listed' = Listed /\ itScenario' = itScenario
      BY OrdinaryNames DEF Ordinary
    <3>2. CASE k \in 1..Len(stack[q]) /\ stack'[q][k] = stack[q][k]
      BY <2>1, <3>1, <3>2 DEF ItIInv, WalksAreInList
    <3>3. CASE q = p /\ stack'[q][k] \in F
      BY <2>1, <3>1, <3>3 DEF Ordinary, OrdinaryFrames
    <3>. QED BY <3>2, <3>3, OrdinaryNew
  <2>2. Walks' = Walks /\ Takes' = Takes
    OBVIOUS
  <2>. QED BY <2>1 DEF WalksAreInList
<1>5. TotalIsRight'
  <2>1. Alive' = Alive /\ pool'.total = pool.total
    BY OrdinaryKeepsPlaces DEF Ordinary, OrdinaryPool
  <2>. QED BY <2>1 DEF ItIInv, TotalIsRight
<1>6. ListIsRight'
  <2>1. /\ \A x \in Actor : Unlinked(x)' <=> Unlinked(x)
        /\ Created' = Created /\ Listed' = Listed /\ list' = list
    BY OrdinaryKeepsPlaces, OrdinaryNames DEF Ordinary
  <2>2. \A x \in Actor : x \in Listed' <=> x \in Created' /\ ~Unlinked(x)'
    BY <2>1 DEF ItIInv, ListIsRight
  <2>3. \A i, j \in DOMAIN list' : list'[i] = list'[j] => i = j
    BY <2>1 DEF ItIInv, ListIsRight
  <2>. QED BY <2>2, <2>3 DEF ListIsRight
<1>7. PoolIsHeld'
  <2>1. ASSUME NEW q \in Actor, NEW k \in 1..Len(stack'[q]), stack'[q][k].at \in HavePool
        PROVE  pool'.mutex = q
    <3>1. CASE k \in 1..Len(stack[q]) /\ stack'[q][k] = stack[q][k] /\ (q = p => k <= m)
      <4>1. pool.mutex = q
        BY <2>1, <3>1 DEF ItIInv, PoolIsHeld, HavePool
      <4>2. pool.mutex # NoActor
        BY <4>1, ItConstants
      <4>. QED BY <2>1, <3>1, <4>1, <4>2 DEF Ordinary, OrdinaryPool
    <3>2. CASE q = p /\ stack'[q][k] \in F
      BY <2>1, <3>2 DEF Ordinary, OrdinaryFrames
    <3>3. \/ k \in 1..Len(stack[q]) /\ stack'[q][k] = stack[q][k] /\ (q = p => k <= m)
          \/ q = p /\ stack'[q][k] \in F
      BY OrdinaryNew
    <3>. QED BY <3>1, <3>2, <3>3
  <2>. QED BY <2>1 DEF PoolIsHeld, HavePool
<1>. QED BY <1>3, <1>4, <1>5, <1>6, <1>7

LEMMA OrdinaryKeepsClones ==
  ASSUME ItIInv, ItTypeOK', NEW p \in Actor, NEW m \in Nat, NEW F, Ordinary(p, m, F)
  PROVE  CloneIsFresh'
<1> SUFFICES ASSUME NEW q \in Actor, NEW k \in 1..Len(stack'[q]), stack'[q][k].at = "clone"
             PROVE  MadeBy(q, k, stack[q][k].x)' /\ stack'[q][k].x = stack[q][k].x
  BY DEF CloneIsFresh
<1>0. PICK x : x = stack[q][k].x
  OBVIOUS
<1>1. k \in 1..Len(stack[q]) /\ stack'[q][k] = stack[q][k]
  BY OrdinaryNew DEF Special
<1>2. /\ x \in Created /\ thread[x].state = {} /\ stack[x] = <<>>
      /\ \A y \in Actor : obj[x][y] = 0 /\ obj[y][x] = 0
      /\ \A r \in Actor : \A l \in 1..Len(stack[r]) : stack[r][l].x = x => r = q /\ l = k
  <2>1. stack[q][k].at = "clone"
    BY <1>1
  <2>2. CloneIsFresh
    BY DEF ItIInv
  <2>3. MadeBy(q, k, x)
    BY <1>0, <1>1, <2>1, <2>2 DEF CloneIsFresh
  <2>. QED BY <2>3 DEF MadeBy
<1>3. x \in Actor /\ Somewhere(ItFrame("clone", x))
  <2>1. stack[q][k] = ItFrame("clone", x)
    BY <1>0, <1>1, Typed DEF ItIInv
  <2>. QED BY <1>1, <2>1, Typed, <1>2 DEF ItIInv, Somewhere
<1>4. x \in Created' /\ stack'[x] = <<>>
  BY <1>2, <1>3, OrdinaryNames
<1>5. thread'[x].state = {}
  BY <1>2, <1>3 DEF Ordinary, OrdinaryThreads
<1>6. ASSUME NEW y \in Actor PROVE obj'[x][y] = 0 /\ obj'[y][x] = 0
  <2>1. /\ obj'[x][y] \in Nat /\ ~(obj'[x][y] > obj[x][y])
        /\ obj'[y][x] \in Nat /\ ~(obj'[y][x] > obj[y][x])
    BY <1>3 DEF Ordinary, OrdinaryObjects, Common
  <2>. QED BY <1>2, <2>1
<1>7. ASSUME NEW r \in Actor, NEW l \in 1..Len(stack'[r]), stack'[r][l].x = x
      PROVE  r = q /\ l = k
  <2>1. CASE l \in 1..Len(stack[r]) /\ stack'[r][l] = stack[r][l]
    BY <1>2, <1>7, <2>1
  <2>2. CASE Common(stack'[r][l].x)
    BY <1>3, <1>7, <2>2 DEF Common
  <2>. QED BY <2>1, <2>2, OrdinaryNew
<1>8. MadeBy(q, k, x)'
  BY <1>4, <1>5, <1>6, <1>7 DEF MadeBy
<1>. QED BY <1>0, <1>1, <1>8

LEMMA OrdinaryKeepsDoomed ==
  ASSUME ItIInv, ItTypeOK', NEW p \in Actor, NEW m \in Nat, NEW F, Ordinary(p, m, F)
  PROVE  DoomedIsAlone'
<1> SUFFICES ASSUME NEW x \in Actor, Doomed(x)'
             PROVE  /\ x \in Created' /\ stack'[x] = <<>> /\ \A i \in Actor : obj'[i][x] = 0
                    /\ \E q \in Actor : DoomedBy(q, x)'
  BY DEF DoomedIsAlone
<1>1. Doomed(x)
  BY OrdinaryKeepsPlaces
<1>2. x \in Created /\ stack[x] = <<>> /\ \A i \in Actor : obj[i][x] = 0
  BY <1>1 DEF ItIInv, DoomedIsAlone
<1>3. PICK q \in Actor : DoomedBy(q, x)
  BY <1>1 DEF ItIInv, DoomedIsAlone
<1>4. x \in Created' /\ stack'[x] = <<>>
  BY <1>2, OrdinaryNames
<1>5. ASSUME NEW i \in Actor PROVE obj'[i][x] = 0
  <2>1. obj'[i][x] \in Nat /\ ~(obj'[i][x] > obj[i][x])
    BY <1>1 DEF Ordinary, OrdinaryObjects, Common
  <2>. QED BY <1>2, <2>1
<1>6. DoomedBy(q, x)'
  <2>1. "fail" \in itScenario'[q]
    BY <1>3 DEF DoomedBy, Ordinary
  <2>2. ASSUME NEW r \in Actor, NEW k \in 1..Len(stack'[r]), stack'[r][k].x = x
        PROVE  /\ r = q
               /\ \/ k = 2 /\ stack'[r][k].at \in {"nonviable", "free"} \cup Ends
                  \/ k = 3 /\ stack'[r][k].at = "clear"
    <3>1. CASE k \in 1..Len(stack[r]) /\ stack'[r][k] = stack[r][k]
      BY <1>3, <2>2, <3>1 DEF DoomedBy
    <3>2. CASE Common(stack'[r][k].x)
      BY <1>1, <2>2, <3>2 DEF Common
    <3>. QED BY <3>1, <3>2, OrdinaryNew
  <2>3. ASSUME x \in Listed'
        PROVE  /\ Len(stack'[q]) > 1 /\ stack'[q][2].x = x
               /\ stack'[q][2].at \in {"nonviable", "free", "unlink"}
    <3>1. /\ Len(stack[q]) > 1 /\ stack[q][2].x = x
          /\ stack[q][2].at \in {"nonviable", "free", "unlink"}
      BY <1>3, <2>3, OrdinaryNames DEF DoomedBy
    <3>2. 2 \in 1..Len(stack[q])
      BY <3>1, Typed DEF ItIInv
    <3>3. 2 \in 1..Len(stack'[q]) /\ stack'[q][2] = stack[q][2]
      BY <1>1, <3>1, <3>2, OrdinaryOld
    <3>4. Len(stack'[q]) \in Nat
      BY SeqDomain DEF Ordinary, OrdinaryFrames
    <3>. QED BY <3>1, <3>3, <3>4
  <2>4. ASSUME Len(stack'[q]) > 1, stack'[q][2].x = x,
               stack'[q][2].at \in {"nonviable", "free", "unlink"}
        PROVE  x \in Listed'
    <3>1. 2 \in 1..Len(stack'[q])
      BY <2>4, SeqDomain DEF Ordinary, OrdinaryFrames
    <3>2. ~Common(stack'[q][2].x)
      BY <1>1, <2>4 DEF Common
    <3>3. 2 \in 1..Len(stack[q]) /\ stack'[q][2] = stack[q][2]
      BY <3>1, <3>2, OrdinaryNew
    <3>4. Len(stack[q]) > 1
      BY <3>3, Typed DEF ItIInv
    <3>. QED BY <1>3, <2>4, <3>3, <3>4, OrdinaryNames DEF DoomedBy
  <2>. QED BY <2>1, <2>2, <2>3, <2>4 DEF DoomedBy
<1>. QED BY <1>4, <1>5, <1>6

LEMMA OrdinaryKeepsEnds ==
  ASSUME ItIInv, ItTypeOK', NEW p \in Actor, NEW m \in Nat, NEW F, Ordinary(p, m, F)
  PROVE  EndIsOne' /\ EndIsLast' /\ AssertionsHold'
<1>1. ASSUME NEW q \in Actor, NEW k \in 1..Len(stack'[q]), stack'[q][k].at \in Ends
      PROVE  k \in 1..Len(stack[q]) /\ stack'[q][k] = stack[q][k]
  BY <1>1, OrdinaryNew DEF Special
<1>2. EndIsOne'
  <2>1. ASSUME NEW q \in Actor, NEW r \in Actor, NEW k \in 1..Len(stack'[q]),
               NEW l \in 1..Len(stack'[r]), stack'[q][k].at \in Ends, stack'[r][l].at \in Ends,
               stack'[q][k].x = stack'[r][l].x
        PROVE  q = r /\ k = l
    <3>1. /\ k \in 1..Len(stack[q]) /\ stack'[q][k] = stack[q][k]
          /\ l \in 1..Len(stack[r]) /\ stack'[r][l] = stack[r][l]
      BY <1>1, <2>1
    <3>. QED BY <2>1, <3>1 DEF ItIInv, EndIsOne
  <2>. QED BY <2>1 DEF EndIsOne
<1>3. \A x \in Actor : Is(x, "NONVIABLE") \/ Unreferenced(x) =>
        Is(x, "NONVIABLE")' \/ Unreferenced(x)'
  BY OrdinaryKeepsPlaces DEF Is, Ordinary, OrdinaryThreads
<1>4. EndIsLast'
  <2>1. freed' = freed /\ Created' = Created /\ freed \subseteq Actor
    BY OrdinaryNames, Typed DEF Ordinary, ItIInv, OnlyKnown
  <2>2. ASSUME NEW q \in Actor, NEW k \in 1..Len(stack'[q]), stack'[q][k].at \in Ends,
               NEW x, x = stack'[q][k].x
        PROVE  /\ x \in Created' /\ (Is(x, "NONVIABLE")' \/ Unreferenced(x)')
               /\ (x \in freed' <=> stack'[q][k].at = "uncount")
    <3>1. k \in 1..Len(stack[q]) /\ stack'[q][k] = stack[q][k]
      BY <1>1, <2>2
    <3>2. /\ x \in Created /\ (Is(x, "NONVIABLE") \/ Unreferenced(x))
          /\ (x \in freed <=> stack[q][k].at = "uncount")
      BY <2>2, <3>1 DEF ItIInv, EndIsLast
    <3>3. x \in Actor
      BY <3>2, Typed DEF ItIInv
    <3>. QED BY <1>3, <2>1, <3>1, <3>2, <3>3
  <2>3. \A x \in freed' : Is(x, "NONVIABLE")' \/ Unreferenced(x)'
    BY <1>3, <2>1 DEF ItIInv, EndIsLast
  <2>. QED BY <2>2, <2>3 DEF EndIsLast
<1>5. ASSUME NEW q \in Actor, NEW k \in 1..Len(stack'[q]),
             stack'[q][k].at \in {"clear", "unlink", "dispose", "release"}, NEW x, x = stack'[q][k].x
      PROVE  Is(x, "NONVIABLE")' \/ (Is(x, "FINISHED")' /\ ~Callable(x)')
  <2>1. CASE k \in 1..Len(stack[q]) /\ stack'[q][k] = stack[q][k]
    <3>1. Is(x, "NONVIABLE") \/ (Is(x, "FINISHED") /\ ~Callable(x))
      BY <1>5, <2>1, FramesAre DEF ItIInv, AssertionsHold
    <3>2. x \in Actor
      BY <1>5, <2>1, Typed DEF ItIInv
    <3>. QED BY <3>1, <3>2 DEF Ordinary, OrdinaryThreads, Is, Callable
  <2>2. CASE stack'[q][k] \in F /\ stack'[q][k].at \notin Special /\ Common(stack'[q][k].x)
    <3>1. stack'[q][k].at = "clear"
      BY <1>5, <2>2 DEF Special, Ends
    <3>2. Is(x, "FINISHED") /\ ~Callable(x)
      BY <1>5, <2>2, <3>1 DEF Ordinary, OrdinaryFrames
    <3>3. x \in Actor
      BY <1>5, <2>2, Typed DEF ItIInv, Common
    <3>. QED BY <3>2, <3>3 DEF Ordinary, OrdinaryThreads, Is, Callable
  <2>3. \/ k \in 1..Len(stack[q]) /\ stack'[q][k] = stack[q][k]
        \/ stack'[q][k] \in F /\ stack'[q][k].at \notin Special /\ Common(stack'[q][k].x)
    BY OrdinaryNew
  <2>. QED BY <2>1, <2>2, <2>3
<1>6. AssertionsHold'
  <2>1. stack' \in Stacks
    BY DEF Ordinary, OrdinaryFrames
  <2>2. \A q \in Actor : DOMAIN stack'[q] = 1..Len(stack'[q])
    BY <2>1, SeqDomain
  <2>3. ASSUME NEW q \in Actor, NEW f \in Frames(q)' PROVE \E k \in 1..Len(stack'[q]) : f = stack'[q][k]
    BY <2>2 DEF Frames
  <2>4. ASSUME NEW q \in Actor, NEW f \in Frames(q)',
               f.at \in {"clear", "unlink", "dispose", "release"}
        PROVE  Is(f.x, "NONVIABLE")' \/ (Is(f.x, "FINISHED")' /\ ~Callable(f.x)')
    <3>1. PICK k \in 1..Len(stack'[q]) : f = stack'[q][k]
      BY <2>3
    <3>. QED BY <1>5, <2>4, <3>1
  <2>. QED BY <2>4 DEF AssertionsHold
<1>. QED BY <1>2, <1>4, <1>6

\* While main has torn things down, nobody else goes on.
LEMMA NotCleaned ==
  ASSUME ItIInv, NEW p \in Actor, stack[p] # <<>>, Inner(p).at # "gone"
  PROVE  process # "cleaned"
<1> SUFFICES ASSUME process = "cleaned" PROVE FALSE
  OBVIOUS
<1>1. stack[p][1].at = "gone" /\ stack \in Stacks
  BY DEF ItIInv, CleanedAlone, ItTypeOK, Stacks, FrameSet
<1>2. PICK n \in Nat : n = Len(stack[p]) /\ n > 0
  BY Typed DEF ItIInv
<1>3. 1 \in 1..Len(stack[p])
  BY <1>2
<1>4. stack[p][1].at \notin {"code", "clear", "release", "free"} => Len(stack[p]) = 1
  <2>1. ShapeOf(stack)
    BY ShapeIs DEF ItIInv
  <2>2. PICK k \in 1..Len(stack[p]) : k = 1
    BY <1>3
  <2>3. stack[p][k].at \notin {"code", "clear", "release", "free"} => Len(stack[p]) = k
    BY <1>1, <2>1, Places
  <2>. QED BY <2>2, <2>3
<1>5. Len(stack[p]) = 1
  BY <1>1, <1>4
<1>6. Inner(p) = stack[p][1]
  BY <1>5 DEF Inner
<1>. QED BY <1>1, <1>6

\* Which steps keep RunsAreMarked and JoinsAreMarked.
LEMMA RunsStay ==
  ASSUME ItIInv, ItTypeOK', NEW p \in Actor, NEW m \in Nat, NEW F, Ordinary(p, m, F),
         thread'[Main].state = thread[Main].state,
         \A x \in Created : x # p => (Is(x, "FINISHED")' <=> Is(x, "FINISHED")),
         p \in Created => IF stack'[p] # <<>>
                          THEN Is(p, "FINISHED")' <=> stack'[p][1].at \notin Stages
                          ELSE Is(p, "FINISHED")'
  PROVE  RunsAreMarked'
<1>1. thread'[Main].state = {"DETACHED"}
  BY DEF ItIInv, RunsAreMarked
<1>2. ASSUME NEW x \in Created'
      PROVE  IF stack'[x] # <<>>
             THEN Is(x, "FINISHED")' <=> stack'[x][1].at \notin Stages
             ELSE Is(x, "FINISHED")' \/ Doomed(x)' \/ Somewhere(ItFrame("clone", x))'
  <2>1. x \in Created /\ x \in Actor
    BY OrdinaryNames, Typed DEF ItIInv
  <2>2. CASE x = p
    BY <2>1, <2>2
  <2>3. CASE x # p
    <3>1. stack'[x] = stack[x]
      BY <2>1, <2>3, OrdinaryNames
    <3>2. Doomed(x)' <=> Doomed(x)
      BY <2>1, OrdinaryKeepsPlaces
    <3>3. Somewhere(ItFrame("clone", x))' <=> Somewhere(ItFrame("clone", x))
      BY OrdinaryKeepsPlaces DEF Special
    <3>4. Is(x, "FINISHED")' <=> Is(x, "FINISHED")
      BY <2>1, <2>3
    <3>5. IF stack[x] # <<>>
          THEN Is(x, "FINISHED") <=> stack[x][1].at \notin Stages
          ELSE Is(x, "FINISHED") \/ Doomed(x) \/ Somewhere(ItFrame("clone", x))
      BY <2>1 DEF ItIInv, RunsAreMarked
    <3>. QED BY <3>1, <3>2, <3>3, <3>4, <3>5
  <2>. QED BY <2>2, <2>3
<1>. QED BY <1>1, <1>2 DEF RunsAreMarked

\* The frame at the bottom of p stays.
LEMMA BottomStays ==
  ASSUME ItIInv, ItTypeOK', NEW p \in Actor, NEW m \in Nat, NEW F, Ordinary(p, m, F), m > 0,
         \A x \in Actor : Is(x, "FINISHED")' <=> Is(x, "FINISHED"),
         thread'[Main].state = thread[Main].state
  PROVE  RunsAreMarked'
<1>1. PICK n \in Nat : n = Len(stack[p]) /\ n > 0
  BY OrdinaryNames, Typed DEF ItIInv
<1>2. 1 \in 1..Len(stack[p])
  BY <1>1
<1>3. 1 \in 1..Len(stack'[p]) /\ stack'[p][1] = stack[p][1]
  BY <1>2, OrdinaryOld
<1>4. stack'[p] # <<>>
  BY <1>3
<1>5. p \in Created => (Is(p, "FINISHED") <=> stack[p][1].at \notin Stages)
  BY OrdinaryNames DEF ItIInv, RunsAreMarked
<1>6. \A x \in Created : x # p => (Is(x, "FINISHED")' <=> Is(x, "FINISHED"))
  BY Typed DEF ItIInv
<1>7. p \in Created => IF stack'[p] # <<>>
                       THEN Is(p, "FINISHED")' <=> stack'[p][1].at \notin Stages
                       ELSE Is(p, "FINISHED")'
  BY <1>3, <1>4, <1>5
<1>. QED BY <1>6, <1>7, RunsStay

LEMMA JoinsStay ==
  ASSUME ItIInv, ItTypeOK', NEW p \in Actor, NEW m \in Nat, NEW F, Ordinary(p, m, F),
         \A f \in F :
           /\ f.at \in {"join", "join_wait"} => Is(f.x, "JOINED")'
           /\ f.at = "detached" => Is(f.x, "DETACHED")'
           /\ f.at = "detach" => obj'[p][f.x] > 0 \/ f.x = p
           /\ f.at \in Takes => Callable(f.x)' \/ Somewhere(ItFrame("join", f.x))'
           /\ f.at = "join" =>
                ~Somewhere(f) /\ \A k, l \in 1..Len(stack'[p]) : k > m /\ l > m => k = l,
         \A q \in Actor, x \in Actor : obj'[q][x] < obj[q][x] =>
           \A k \in 1..Len(stack[q]) : stack[q][k].at # "detach",
         \/ \A x \in Actor : Callable(x) \/ Somewhere(ItFrame("join", x)) =>
                               Callable(x)' \/ Somewhere(ItFrame("join", x))'
         \/ \A q \in Actor : \A k \in 1..Len(stack[q]) : stack[q][k].at \notin Takes
  PROVE  JoinsAreMarked'
<1>1. ASSUME NEW q \in Actor, NEW k \in 1..Len(stack'[q]), NEW f, f = stack'[q][k]
      PROVE  /\ f.at \in {"join", "join_wait"} => Is(f.x, "JOINED")'
             /\ f.at = "detached" => Is(f.x, "DETACHED")'
             /\ f.at = "detach" => obj'[q][f.x] > 0 \/ f.x = q
             /\ f.at \in Takes => Callable(f.x)' \/ Somewhere(ItFrame("join", f.x))'
  <2>1. CASE k \in 1..Len(stack[q]) /\ stack'[q][k] = stack[q][k]
    <3>1. /\ f.at \in {"join", "join_wait"} => Is(f.x, "JOINED")
          /\ f.at = "detached" => Is(f.x, "DETACHED")
          /\ f.at = "detach" => obj[q][f.x] > 0 \/ f.x = q
          /\ f.at \in Takes => Callable(f.x) \/ Somewhere(ItFrame("join", f.x))
      BY <1>1, <2>1 DEF ItIInv, JoinsAreMarked
    <3>2. f.x \in Actor
      BY <1>1, <2>1, Typed DEF ItIInv
    <3>3. \A c : Is(f.x, c) => Is(f.x, c)'
      BY <3>2 DEF Is, Ordinary, OrdinaryThreads
    <3>4. f.at = "detach" => obj'[q][f.x] > 0 \/ f.x = q
      <4>1. obj[q][f.x] \in Nat /\ obj'[q][f.x] \in Nat
        BY <3>2, Typed DEF ItIInv, Ordinary, OrdinaryObjects
      <4>2. f.at = "detach" => ~(obj'[q][f.x] < obj[q][f.x])
        BY <1>1, <2>1, <3>2
      <4>. QED BY <3>1, <4>1, <4>2
    <3>5. f.at \in Takes => Callable(f.x)' \/ Somewhere(ItFrame("join", f.x))'
      BY <1>1, <2>1, <3>1, <3>2
    <3>. QED BY <3>1, <3>3, <3>4, <3>5
  <2>2. CASE q = p /\ stack'[q][k] \in F
    BY <1>1, <2>2
  <2>3. \/ k \in 1..Len(stack[q]) /\ stack'[q][k] = stack[q][k]
        \/ q = p /\ stack'[q][k] \in F
    BY OrdinaryNew
  <2>. QED BY <2>1, <2>2, <2>3
<1>2. ASSUME NEW q \in Actor, NEW r \in Actor, NEW k \in 1..Len(stack'[q]),
             NEW l \in 1..Len(stack'[r]), stack'[q][k].at = "join", stack'[r][l] = stack'[q][k]
      PROVE  q = r /\ k = l
  <2> DEFINE Stays(a, b) == b \in 1..Len(stack[a]) /\ stack'[a][b] = stack[a][b]
             Comes(a, b) == a = p /\ b > m /\ stack'[a][b] \in F
  <2>1. (Stays(q, k) \/ Comes(q, k)) /\ (Stays(r, l) \/ Comes(r, l))
    <3>1. \A a \in Actor : \A b \in 1..Len(stack'[a]) : Stays(a, b) \/ Comes(a, b)
      BY OrdinaryNew
    <3>. QED BY <3>1
  <2>2. CASE Stays(q, k) /\ Stays(r, l)
    BY <1>2, <2>2, SMTT(40) DEF ItIInv, JoinsAreMarked
  <2>3. CASE Comes(q, k) /\ Comes(r, l)
    <3>1. \A a, b \in 1..Len(stack'[p]) : a > m /\ b > m => a = b
      BY <1>2, <2>3
    <3>. QED BY <1>2, <2>3, <3>1
  <2>4. CASE Comes(q, k) /\ Stays(r, l)
    <3>1. ~Somewhere(stack'[q][k])
      BY <1>2, <2>4
    <3>. QED BY <1>2, <2>4, <3>1 DEF Somewhere
  <2>5. CASE Stays(q, k) /\ Comes(r, l)
    <3>1. ~Somewhere(stack'[r][l])
      BY <1>2, <2>5
    <3>. QED BY <1>2, <2>5, <3>1 DEF Somewhere
  <2> HIDE DEF Stays, Comes
  <2>. QED BY <2>1, <2>2, <2>3, <2>4, <2>5
<1>. QED BY <1>1, <1>2 DEF JoinsAreMarked

LEMMA JoinedIs ==
  ASSUME ItTypeOK
  PROVE  \A x : x \in Joined <=> x \in Viable /\ Is(x, "JOINED") /\ ~Somewhere(ItFrame("join", x))
  BY FramesAre DEF Joined

LEMMA JoinedIsThen ==
  ASSUME stack' \in Stacks
  PROVE  \A x : x \in Joined' <=>
           x \in Viable' /\ Is(x, "JOINED")' /\ ~Somewhere(ItFrame("join", x))'
<1>1. \A q \in Actor : DOMAIN stack'[q] = 1..Len(stack'[q])
  BY SeqDomain
<1>2. \A x : x \in Joined' <=> x \in Viable' /\ Is(x, "JOINED")'
               /\ \A q \in Actor : ItFrame("join", x) \notin Frames(q)'
  BY DEF Joined
<1>3. \A x : Somewhere(ItFrame("join", x))' <=> \E q \in Actor : ItFrame("join", x) \in Frames(q)'
  BY <1>1 DEF Frames, Somewhere
<1>. QED BY <1>2, <1>3

\* The counters stay when no viable thread comes or goes, ends, is detached, or
\* has its join counted.
LEMMA CountersStay ==
  ASSUME ItIInv, stack' \in Stacks, Viable' = Viable,
         pool'.running = pool.running, pool'.detached = pool.detached,
         pool'.joinable = pool.joinable,
         \A x \in Viable :
           /\ Is(x, "FINISHED")' <=> Is(x, "FINISHED")
           /\ Is(x, "DETACHED")' <=> Is(x, "DETACHED")
           /\ (Is(x, "JOINED") /\ ~Somewhere(ItFrame("join", x)))' <=>
                Is(x, "JOINED") /\ ~Somewhere(ItFrame("join", x))
  PROVE  CountersAreRight'
<1>1. Joined' = Joined
  BY JoinedIs, JoinedIsThen DEF ItIInv
<1>2. /\ {x \in Viable : ~Is(x, "FINISHED") /\ ~Is(x, "DETACHED")}'
           = {x \in Viable : ~Is(x, "FINISHED") /\ ~Is(x, "DETACHED")}
      /\ {x \in Viable : ~Is(x, "FINISHED") /\ Is(x, "DETACHED")}'
           = {x \in Viable : ~Is(x, "FINISHED") /\ Is(x, "DETACHED")}
      /\ {x \in Viable : Is(x, "FINISHED") /\ ~Is(x, "DETACHED")}'
           = {x \in Viable : Is(x, "FINISHED") /\ ~Is(x, "DETACHED")}
  OBVIOUS
<1>. QED BY <1>1, <1>2 DEF ItIInv, CountersAreRight

Free1(x) == IF Callable(x) THEN 1 ELSE 0

LEMMA CountsAre ==
  ASSUME ItTypeOK, NEW x \in Actor
  PROVE  /\ References(x) = Free1(x) + Number(obj, x) + Held(stack, x)
         /\ Number(obj, x) \in Nat /\ Held(stack, x) \in Nat /\ Free1(x) \in {0, 1}
<1>1. stack \in Stacks /\ obj \in [Actor -> [Actor -> Nat]]
  BY DEF ItTypeOK, Stacks, FrameSet
<1>2. Number(obj, x) \in Nat
  BY <1>1, ObjectsAre
<1>3. /\ Cardinality(At(stack, x, Owners)) \in Nat
      /\ Cardinality(At(stack, x, OwningTwo)) \in Nat
  BY <1>1, AtIs, FS_CardinalityType
<1>4. References(x) = Free1(x) + Cardinality(ObjectsIn(obj, x))
        + Cardinality(At(stack, x, Owners)) + Cardinality(At(stack, x, OwningTwo))
  BY ReferencesAre DEF Free1
<1>5. Free1(x) \in {0, 1}
  BY DEF Free1
<1>. QED BY <1>2, <1>3, <1>4, <1>5 DEF Number, Held

LEMMA CountsAlwaysAre ==
  ItTypeOK => \A y \in Actor :
    /\ References(y) = Free1(y) + Number(obj, y) + Held(stack, y)
    /\ Number(obj, y) \in Nat /\ Held(stack, y) \in Nat /\ Free1(y) \in {0, 1}
  BY CountsAre

LEMMA CountsThenAre ==
  (ItTypeOK => \A y \in Actor :
    /\ References(y) = Free1(y) + Number(obj, y) + Held(stack, y)
    /\ Number(obj, y) \in Nat /\ Held(stack, y) \in Nat /\ Free1(y) \in {0, 1})'
  BY CountsAlwaysAre, PTL

LEMMA CountsMove ==
  ASSUME ItIInv, ItTypeOK', Known' \subseteq Actor,
         \A x \in Known' :
           /\ ~Is(x, "NONVIABLE")' => 
                /\ x \in Known /\ ~Is(x, "NONVIABLE")
                /\ thread'[x].count - Free1(x)' - Number(obj', x) - Held(stack', x)
                     = thread[x].count - Free1(x) - Number(obj, x) - Held(stack, x)
  PROVE  CountsReferences'
<1>1. ASSUME NEW x \in Known', ~Is(x, "NONVIABLE")' PROVE thread'[x].count = References(x)'
  <2>1. x \in Actor /\ x \in Known /\ ~Is(x, "NONVIABLE")
    BY <1>1
  <2>2. thread[x].count = References(x)
    BY <2>1 DEF ItIInv, CountsReferences, Known
  <2>3. /\ References(x) = Free1(x) + Number(obj, x) + Held(stack, x)
        /\ Number(obj, x) \in Nat /\ Held(stack, x) \in Nat /\ Free1(x) \in {0, 1}
    BY <2>1, CountsAre DEF ItIInv
  <2>4. /\ References(x)' = Free1(x)' + Number(obj', x) + Held(stack', x)
        /\ Number(obj', x) \in Nat /\ Held(stack', x) \in Nat /\ Free1(x)' \in {0, 1}
    BY <2>1, CountsThenAre
  <2>5. thread'[x].count \in Nat /\ thread[x].count \in Nat
    BY <2>1 DEF ItIInv, ItTypeOK
  <2>6. thread'[x].count - Free1(x)' - Number(obj', x) - Held(stack', x)
          = thread[x].count - Free1(x) - Number(obj, x) - Held(stack, x)
    BY <1>1
  <2>. QED BY <2>2, <2>3, <2>4, <2>5, <2>6
<1>. QED BY <1>1 DEF CountsReferences, Known

(***************************************************************************)
(* The actions, one after the other.                                       *)
(***************************************************************************)
LEMMA OrdinaryInvariant ==
  ASSUME ItIInv, ItTypeOK', NEW p \in Actor, NEW m \in Nat, NEW F, Ordinary(p, m, F),
         ShapeOf(stack'), CleanedAlone', RunsAreMarked', JoinsAreMarked', CountersAreRight',
         CountsReferences'
  PROVE  ItIInv'
<1>1. Shape'
  BY DEF Shape, ShapeOf
<1>2. OnlyKnown' /\ WalksAreInList' /\ TotalIsRight' /\ ListIsRight' /\ PoolIsHeld'
  BY OrdinaryKeepsKnown
<1>3. CloneIsFresh'
  BY OrdinaryKeepsClones
<1>4. DoomedIsAlone'
  BY OrdinaryKeepsDoomed
<1>5. EndIsOne' /\ EndIsLast' /\ AssertionsHold'
  BY OrdinaryKeepsEnds
<1>. QED BY <1>1, <1>2, <1>3, <1>4, <1>5 DEF ItIInv

LEMMA JoinFramesStay ==
  ASSUME ItIInv, NEW p \in Actor, NEW m \in Nat, NEW F, Ordinary(p, m, F),
         \A f \in F : f.at # "join", m = Len(stack[p]) \/ Inner(p).at # "join"
  PROVE  \A x : Somewhere(ItFrame("join", x))' <=> Somewhere(ItFrame("join", x))
<1>1. \A k \in 1..Len(stack[p]) : k > m => stack[p][k].at # "join"
  <2>1. ASSUME NEW k \in 1..Len(stack[p]), k > m PROVE stack[p][k].at # "join"
    <3>1. Len(stack[p]) \in Nat
      BY Typed DEF ItIInv
    <3>2. m # Len(stack[p]) /\ k = Len(stack[p])
      BY <2>1, <3>1 DEF Ordinary, OrdinaryFrames
    <3>. QED BY <3>2 DEF Inner
  <2>. QED BY <2>1
<1>2. stack \in Stacks /\ stack' \in Stacks /\ Changed(stack, stack', p, m, F) /\ m \in Int
  BY OrdinaryNames DEF Ordinary, OrdinaryFrames
<1>3. \A y : Elsewhere(stack', ItFrame("join", y)) <=> Elsewhere(stack, ItFrame("join", y))
  BY <1>1, <1>2, StaysSomewhere
<1>. QED BY <1>3 DEF Somewhere, Elsewhere

LEMMA StatesStay ==
  ASSUME ItIInv, ItTypeOK', NEW p \in Actor, NEW m \in Nat, NEW F, Ordinary(p, m, F),
         \A x \in Actor : thread'[x].state = thread[x].state,
         pool'.running = pool.running, pool'.detached = pool.detached,
         pool'.joinable = pool.joinable,
         m = Len(stack[p]) \/ Inner(p).at # "join",
         \A f \in F :
           /\ f.at # "join" /\ (f.at = "join_wait" => Is(f.x, "JOINED"))
           /\ f.at = "detached" => Is(f.x, "DETACHED")
           /\ f.at = "detach" => obj'[p][f.x] > 0 \/ f.x = p
           /\ f.at \in Takes => f.x \in Actor /\ Callable(f.x),
         \A q \in Actor, x \in Actor : obj'[q][x] < obj[q][x] =>
           \A k \in 1..Len(stack[q]) : stack[q][k].at # "detach"
  PROVE  /\ JoinsAreMarked' /\ CountersAreRight'
         /\ m > 0 => RunsAreMarked'
<1>1. /\ \A x \in Actor : Callable(x)' <=> Callable(x)
      /\ \A x \in Actor : \A c : Is(x, c)' <=> Is(x, c)
  BY DEF Callable, Is
<1>2. \A x : Somewhere(ItFrame("join", x))' <=> Somewhere(ItFrame("join", x))
  BY JoinFramesStay
<1>3. JoinsAreMarked'
  <2>1. \A f \in F : f.at \in {"join", "join_wait", "detached"} => f.x \in Actor
    BY Typed DEF ItIInv, Ordinary, OrdinaryFrames, Common
  <2>2. \A f \in F :
           /\ f.at \in {"join", "join_wait"} => Is(f.x, "JOINED")'
           /\ f.at = "detached" => Is(f.x, "DETACHED")'
           /\ f.at = "detach" => obj'[p][f.x] > 0 \/ f.x = p
           /\ f.at \in Takes => Callable(f.x)' \/ Somewhere(ItFrame("join", f.x))'
           /\ f.at = "join" => ~Somewhere(f) /\ Len(stack'[p]) = m + 1
    BY <1>1, <2>1
  <2>3. \A x \in Actor : Callable(x) \/ Somewhere(ItFrame("join", x)) =>
                           Callable(x)' \/ Somewhere(ItFrame("join", x))'
    BY <1>1, <1>2
  <2>. QED BY <2>2, <2>3, JoinsStay
<1>4. CountersAreRight'
  <2>1. Viable' = Viable /\ Viable \subseteq Actor
    BY OrdinaryKeepsPlaces, Typed DEF ItIInv, Viable
  <2>2. \A x \in Viable :
           /\ Is(x, "FINISHED")' <=> Is(x, "FINISHED")
           /\ Is(x, "DETACHED")' <=> Is(x, "DETACHED")
           /\ (Is(x, "JOINED") /\ ~Somewhere(ItFrame("join", x)))' <=>
                Is(x, "JOINED") /\ ~Somewhere(ItFrame("join", x))
    BY <1>1, <1>2, <2>1
  <2>. QED BY <2>1, <2>2, OrdinaryNames, CountersStay
<1>5. ASSUME m > 0 PROVE RunsAreMarked'
  <2>1. \A x \in Actor : Is(x, "FINISHED")' <=> Is(x, "FINISHED")
    BY <1>1
  <2>. QED BY <1>5, <2>1, ItConstants, BottomStays
<1>. QED BY <1>3, <1>4, <1>5

LEMMA CleanedStays ==
  ASSUME ItIInv, NEW p \in Actor, stack[p] # <<>>, Inner(p).at # "gone",
         process' \in {process, "exiting"}
  PROVE  CleanedAlone' /\ process # "cleaned" /\ process' # "cleaned"
<1>1. process # "cleaned"
  BY NotCleaned
<1>. QED BY <1>1 DEF CleanedAlone

LEMMA ObjectIsCommon ==
  ASSUME ItIInv, NEW i \in Actor, NEW x \in Actor, obj[i][x] > 0
  PROVE  /\ Common(x) /\ ~Unreferenced(x) /\ i \in Known /\ ~Somewhere(ItFrame("clone", i))
  BY NotCloned, NotDoomed, NotUnreferenced DEF ItIInv, OnlyKnown, Common

LEMMA FrameIsCommon ==
  ASSUME ItIInv, NEW q \in Actor, NEW l \in 1..Len(stack[q]),
         stack[q][l].at \notin {"clone", "nonviable", "free", "clear"} \cup Ends
  PROVE  /\ Common(stack[q][l].x)
         /\ stack[q][l].at \in Owners => ~Unreferenced(stack[q][l].x)
<1>1. PICK x \in Actor : x = stack[q][l].x
  BY Typed DEF ItIInv
<1>2. x \in Known
  BY <1>1 DEF ItIInv, OnlyKnown
<1>3. ~Somewhere(ItFrame("clone", x))
  BY <1>1, NotCloned DEF ItIInv
<1>4. ~Doomed(x)
  BY <1>1, NotDoomed DEF ItIInv
<1>5. stack[q][l].at \in Owners => ~Unreferenced(x)
  BY <1>1, NotUnreferenced DEF ItIInv
<1>. QED BY <1>1, <1>2, <1>3, <1>4, <1>5 DEF Common

\* The same for the innermost frame.
LEMMA TopIsCommon ==
  ASSUME ItIInv, NEW p \in Actor, NEW at, Now(p, at),
         at \notin {"clone", "nonviable", "free", "clear"} \cup Ends
  PROVE  Common(Target(p)) /\ (at \in Owners => ~Unreferenced(Target(p)))
<1>1. PICK l \in 1..Len(stack[p]) : l = Len(stack[p])
  BY TopFrame DEF ItIInv
<1>2. stack[p][l].at = at /\ stack[p][l].x = Target(p)
  BY <1>1, TopFrame DEF ItIInv
<1>. QED BY <1>1, <1>2, FrameIsCommon

\* A thread that runs something.
LEMMA RunnerIsCommon ==
  ASSUME ItIInv, NEW p \in Actor, stack[p] # <<>>
  PROVE  p \in Known /\ ~Somewhere(ItFrame("clone", p)) /\ ~Doomed(p) /\ Common(p)
<1>1. ~Somewhere(ItFrame("clone", p)) /\ ~Doomed(p)
  BY NotCloned, NotDoomed DEF ItIInv
<1>2. p \in Known
  <2>1. Len(stack[p]) > 0 /\ 1 \in 1..Len(stack[p])
    BY Typed DEF ItIInv
  <2>2. stack[p][1].x = p
    BY <2>1 DEF ItIInv, Shape, IsBottom
  <2>. QED BY <2>1, <2>2 DEF ItIInv, OnlyKnown
<1>. QED BY <1>1, <1>2 DEF Common

LEMMA LockAndClearIs ==
  ASSUME ItTypeOK, NEW p \in Actor, NEW x \in Actor, NEW at \in Labels, stack[p] # <<>>,
         LockAndClear(p, x, at)
  PROVE  /\ stack' \in Stacks
         /\ Covered(stack, stack', p, ItFrame(at, x), ItFrame("clear", x))
<1>1. stack \in Stacks /\ stack[p] \in Seq(FrameSet)
  BY DEF ItTypeOK, Stacks, FrameSet
<1>2. PICK n \in Nat : n = Len(stack[p]) /\ n > 0
  BY Typed
<1>3. PICK o : o = Outer(stack[p])
  OBVIOUS
<1>4. /\ o \in Seq(FrameSet) /\ Len(o) = n - 1
      /\ \A k \in 1..n : k < n => o[k] = stack[p][k]
  BY <1>1, <1>2, <1>3, OuterIs
<1>5. PICK t : t = <<ItFrame(at, x), ItFrame("clear", x)>>
  OBVIOUS
<1>6. t \in Seq(FrameSet) /\ Len(t) = 2 /\ t[1] = ItFrame(at, x) /\ t[2] = ItFrame("clear", x)
  BY <1>5 DEF FrameSet, ItFrame, Labels
<1>7. /\ o \o t \in Seq(FrameSet) /\ Len(o \o t) = Len(o) + Len(t)
      /\ \A k \in 1..(Len(o) + Len(t)) : (o \o t)[k] = IF k <= Len(o) THEN o[k] ELSE t[k - Len(o)]
  BY <1>4, <1>6, ConcatProperties
<1>8. stack' = [stack EXCEPT ![p] = o \o t]
  BY <1>3, <1>5 DEF LockAndClear
<1>9. stack'[p] = o \o t /\ \A q \in Actor : q # p => stack'[q] = stack[q]
  BY <1>1, <1>8 DEF Stacks
<1>10. stack' \in Stacks
  BY <1>1, <1>7, <1>8 DEF Stacks
<1>11. /\ Len(o \o t) = n + 1 /\ (o \o t)[n] = t[1] /\ (o \o t)[n + 1] = t[2]
       /\ \A k \in 1..n : k < n => (o \o t)[k] = stack[p][k]
  BY <1>2, <1>4, <1>6, <1>7
<1>. QED BY <1>2, <1>6, <1>9, <1>10, <1>11 DEF Covered

LEMMA HeldIsNat == ASSUME NEW s \in Stacks, NEW x PROVE Held(s, x) \in Nat
  BY AtIs, FS_CardinalityType DEF Held

LEMMA WeightIs ==
  /\ \A at, x, y : Weight(ItFrame(at, x), y) =
       IF x # y \/ at \notin Owners THEN 0 ELSE IF at \in OwningTwo THEN 2 ELSE 1
  /\ \A f, y : Weight(f, y) \in {0, 1, 2}
  BY FrameFields DEF Weight

\* A step that changes no count, and what refers to no thread in sum.
LEMMA CountsStay ==
  ASSUME ItIInv, ItTypeOK', Known' = Known,
         \A x \in Actor :
           /\ thread'[x].state = thread[x].state /\ thread'[x].count = thread[x].count
           /\ Number(obj', x) + Held(stack', x) = Number(obj, x) + Held(stack, x)
  PROVE  CountsReferences'
<1>1. obj \in [Actor -> [Actor -> Nat]] /\ obj' \in [Actor -> [Actor -> Nat]]
      /\ stack \in Stacks /\ stack' \in Stacks
  BY DEF ItIInv, ItTypeOK, Stacks, FrameSet
<1>2. ASSUME NEW x \in Known', ~Is(x, "NONVIABLE")'
      PROVE  /\ x \in Known /\ ~Is(x, "NONVIABLE")
             /\ thread'[x].count - Free1(x)' - Number(obj', x) - Held(stack', x)
                  = thread[x].count - Free1(x) - Number(obj, x) - Held(stack, x)
  <2>1. x \in Known /\ x \in Actor
    BY Typed DEF ItIInv
  <2>2. Is(x, "NONVIABLE")' = Is(x, "NONVIABLE") /\ Free1(x)' = Free1(x)
    BY <2>1 DEF Is, Free1, Callable
  <2>3. Number(obj', x) + Held(stack', x) = Number(obj, x) + Held(stack, x)
        /\ thread'[x].count = thread[x].count
    BY <2>1
  <2>4. /\ Number(obj', x) \in Nat /\ Held(stack', x) \in Nat
        /\ Number(obj, x) \in Nat /\ Held(stack, x) \in Nat
        /\ thread[x].count \in Nat /\ Free1(x) \in {0, 1}
    BY <1>1, <2>1, ObjectsAre, HeldIsNat, Typed DEF ItIInv, Free1
  <2>. QED BY <1>2, <2>1, <2>2, <2>3, <2>4
<1>3. Known' \subseteq Actor
  BY Typed DEF ItIInv
<1>. QED BY <1>2, <1>3, CountsMove

\* S_ithread_run begins to run the code.
LEMMA StartKeeps == ASSUME ItIInv, NEW p \in Actor, Start(p) PROVE ItIInv'
<1>1. ItTypeOK /\ ShapeOf(stack) /\ Now(p, "start") /\ GotoAt(p, "code", Target(p))
      /\ UNCHANGED <<itScenario, thread, pool, list, obj, tid_counter, freed, process>>
  BY ShapeIs DEF ItIInv, Start, Goto
<1>2. PICK n \in 1..Len(stack[p]) : n = Len(stack[p])
  BY <1>1, TopFrame
<1>3. /\ stack \in Stacks /\ stack[p] # <<>> /\ stack[p][n] = ItFrame("start", Target(p))
      /\ stack[p][n].at = "start" /\ stack[p][n].x = Target(p) /\ Inner(p).at = "start"
  BY <1>1, <1>2, TopFrame DEF Now
<1>4. n = 1 /\ Target(p) = p
  BY <1>1, <1>3, Places DEF Running
<1>0. PICK f : f = ItFrame("code", p) /\ f.at = "code" /\ f.x = p
  BY FrameFields
<1>5. stack' \in Stacks /\ Replaced(stack, stack', p, f)
  BY <1>0, <1>1, <1>3, <1>4, StackOperations DEF Labels, Owning, Running, Stacks
<1>6. ItTypeOK'
  BY <1>1, <1>5 DEF ItTypeOK, Stacks, FrameSet
<1>7. ShapeOf(stack')
  <2>1. Main # p
    BY <1>1, <1>3, <1>4 DEF ShapeOf
  <2>2. IsBottom(p, f)
    BY <1>0 DEF IsBottom, Running
  <2>3. Len(stack[p]) = 1
    BY <1>2, <1>4
  <2>4. /\ Len(stack[p]) = 1 => IsBottom(p, f) /\ (p = Main => f.at \in {"code", "gone"})
        /\ Len(stack[p]) > 1 => MayLie(f, stack[p][Len(stack[p]) - 1])
    BY <2>1, <2>2, <2>3
  <2>. QED BY <1>1, <1>3, <1>5, <2>4, ReplacedShape
<1>8. Ordinary(p, 0, {f})
  <2>1. Common(p) /\ ~Doomed(p) /\ ~Unreferenced(p)
    BY <1>1, <1>3, <1>4, RunnerIsCommon, TopIsCommon DEF Ends, Owners, Owning, Running
  <2>2. Changed(stack, stack', p, 0, {f})
    <3>1. Changed(stack, stack', p, Len(stack[p]) - 1, {f})
      BY <1>3, <1>5, ChangedBy
    <3>. QED BY <1>2, <1>4, <3>1
  <2>3. OrdinaryFrames(p, 0, {f})
    BY <1>2, <1>3, <1>4, <1>5, <2>1, <2>2, <1>0, WalkLabels
    DEF OrdinaryFrames, Special, Ends, HavePool, Replaced
  <2>4. OrdinaryPool(p, 0) /\ OrdinaryThreads /\ OrdinaryObjects
    BY <1>1, Typed DEF OrdinaryPool, OrdinaryThreads, OrdinaryObjects, Is
  <2>. QED BY <1>1, <2>3, <2>4 DEF Ordinary
<1>9. CleanedAlone'
  BY <1>1, <1>3, CleanedStays
<1>10. JoinsAreMarked' /\ CountersAreRight'
  <2>1. \A g \in {f} : g.at = "code" /\ g.at \notin Takes
    BY <1>0, WalkLabels
  <2>2. \A q \in Actor, x \in Actor : ~(obj'[q][x] < obj[q][x])
    BY <1>1, Typed
  <2>3. Inner(p).at # "join"
    BY <1>3
  <2>. QED BY <1>1, <1>6, <1>8, <2>1, <2>2, <2>3, StatesStay
<1>11. RunsAreMarked'
  <2>1. stack'[p] # <<>> /\ stack'[p][1] = f
    BY <1>2, <1>3, <1>4, <1>5, SeqDomain DEF Replaced
  <2>2. p \in Created => ~Is(p, "FINISHED")
    BY <1>3, <1>4 DEF ItIInv, RunsAreMarked, Stages
  <2>3. p \in Created => (Is(p, "FINISHED")' <=> stack'[p][1].at \notin Stages)
    BY <1>1, <2>1, <2>2, <1>0 DEF Stages, Is
  <2>4. \A x \in Created : Is(x, "FINISHED")' <=> Is(x, "FINISHED")
    BY <1>1 DEF Is
  <2>. QED BY <1>1, <1>6, <1>8, <2>1, <2>3, <2>4, RunsStay
<1>12. CountsReferences'
  <2>1. ASSUME NEW x \in Actor PROVE Held(stack', x) = Held(stack, x)
    <3>1. Held(stack', x) = Held(stack, x) - Weight(stack[p][Len(stack[p])], x)
                              + Weight(f, x) /\ Held(stack, x) \in Nat
      BY <1>3, <1>5, ReplacedHeld
    <3>2. Weight(stack[p][Len(stack[p])], x) = Weight(f, x)
      BY <1>2, <1>3, <1>0, <1>4, WeightIs DEF Owners, Owning, Running, OwningTwo
    <3>3. Weight(f, x) \in {0, 1, 2}
      BY WeightIs
    <3>. QED BY <3>1, <3>2, <3>3
  <2>. QED BY <1>1, <1>6, <2>1, CountsStay DEF Known, Created
<1>. QED BY <1>6, <1>7, <1>8, <1>9, <1>10, <1>11, <1>12, OrdinaryInvariant

\* What frames own, with frame f in place of frame g.
HeldMoves(g, f) ==
  \A x : /\ Held(stack', x) = Held(stack, x) - Weight(g, x) + Weight(f, x)
         /\ Held(stack, x) \in Nat

\* What is known when p puts frame f in place of its innermost one, g, ...
Relabeled(p, g, f, m) ==
  /\ stack' \in Stacks /\ Replaced(stack, stack', p, f) /\ Changed(stack, stack', p, m, {f})
  /\ \A q \in Actor : q # p => stack'[q] = stack[q]
  /\ stack'[p] # <<>> /\ Len(stack'[p]) = Len(stack[p]) /\ stack'[p][Len(stack[p])] = f
  /\ HeldMoves(g, f)

LEMMA Relabels ==
  ASSUME ItIInv, NEW p \in Actor, NEW was, Now(p, was), NEW at \in Labels, NEW y \in Actor,
         GotoAt(p, at, y), NEW f, f = ItFrame(at, y),
         NEW m \in Nat, m = Len(stack[p]) - 1
  PROVE  Relabeled(p, ItFrame(was, Target(p)), f, m)
<1>1. stack \in Stacks /\ stack[p] # <<>> /\ stack[p][Len(stack[p])] = ItFrame(was, Target(p))
      /\ Len(stack[p]) \in Nat
  BY TopFrame DEF ItIInv
<1>2. stack' \in Stacks /\ Replaced(stack, stack', p, f)
  BY <1>1, StackOperations DEF ItIInv, Stacks
<1>3. Changed(stack, stack', p, m, {f})
  BY <1>1, <1>2, ChangedBy
<1>4. /\ stack'[p] # <<>> /\ Len(stack'[p]) = Len(stack[p])
      /\ stack'[p][Len(stack[p])] = f
  BY <1>1, <1>2, SeqDomain DEF Replaced
<1>5. HeldMoves(ItFrame(was, Target(p)), f)
  BY <1>1, <1>2, ReplacedHeld DEF HeldMoves
<1>6. \A q \in Actor : q # p => stack'[q] = stack[q]
  BY <1>2 DEF Replaced
<1>. QED BY <1>2, <1>3, <1>4, <1>5, <1>6 DEF Relabeled

\* ... one on top of it, ...
Overlaid(p, f, m) ==
  /\ stack' \in Stacks /\ Pushed(stack, stack', p, f) /\ Changed(stack, stack', p, m, {f})
  /\ \A q \in Actor : q # p => stack'[q] = stack[q]
  /\ stack'[p] # <<>>
  /\ \A x : /\ Held(stack', x) = Held(stack, x) + Weight(f, x)
            /\ Held(stack, x) \in Nat

LEMMA Pushes ==
  ASSUME ItIInv, NEW p \in Actor, NEW at \in Labels, NEW y \in Actor,
         Push(p, at, y), NEW f, f = ItFrame(at, y), NEW m \in Nat, m = Len(stack[p])
  PROVE  Overlaid(p, f, m)
<1>1. stack \in Stacks
  BY DEF ItIInv, ItTypeOK, Stacks, FrameSet
<1>2. stack' \in Stacks /\ Pushed(stack, stack', p, f)
  BY <1>1, StackOperations DEF ItIInv, Stacks
<1>3. Changed(stack, stack', p, m, {f})
  BY <1>1, <1>2, ChangedBy
<1>4. stack'[p] # <<>>
  BY <1>1, <1>2, SeqDomain DEF Pushed
<1>5. \A x : /\ Held(stack', x) = Held(stack, x) + Weight(f, x)
             /\ Held(stack, x) \in Nat
  BY <1>1, <1>2, PushedHeld
<1>6. \A q \in Actor : q # p => stack'[q] = stack[q]
  BY <1>2 DEF Pushed
<1>. QED BY <1>2, <1>3, <1>4, <1>5, <1>6 DEF Overlaid

\* ... takes it away, ...
LEMMA Pops ==
  ASSUME ItIInv, NEW p \in Actor, NEW was, Now(p, was), Pop(p),
         NEW m \in Nat, m = Len(stack[p]) - 1
  PROVE  /\ stack' \in Stacks /\ Popped(stack, stack', p)
         /\ Changed(stack, stack', p, m, {})
         /\ \A q \in Actor : q # p => stack'[q] = stack[q]
         /\ (m = 0 <=> stack'[p] = <<>>)
         /\ \A x : /\ Held(stack', x) = Held(stack, x) - Weight(ItFrame(was, Target(p)), x)
                   /\ Held(stack, x) \in Nat
<1>1. stack \in Stacks /\ stack[p] # <<>> /\ stack[p][Len(stack[p])] = ItFrame(was, Target(p))
      /\ Len(stack[p]) \in Nat
  BY TopFrame DEF ItIInv
<1>2. stack' \in Stacks /\ Popped(stack, stack', p)
  BY <1>1, StackOperations DEF ItIInv, Stacks
<1>3. Changed(stack, stack', p, m, {})
  BY <1>1, <1>2, ChangedBy
<1>4. Len(stack'[p]) = m
  BY <1>1, <1>2 DEF Popped
<1>5. m = 0 <=> stack'[p] = <<>>
  BY <1>2, <1>4, SeqDomain, EmptySeq
<1>6. \A x : /\ Held(stack', x) = Held(stack, x) - Weight(ItFrame(was, Target(p)), x)
             /\ Held(stack, x) \in Nat
  BY <1>1, <1>2, PoppedHeld
<1>. QED BY <1>2, <1>3, <1>4, <1>5, <1>6 DEF Popped

\* ... or locks a mutex and clears a thread.
LEMMA Covers ==
  ASSUME ItIInv, NEW p \in Actor, NEW was, Now(p, was), NEW at \in Labels, NEW y \in Actor,
         LockAndClear(p, y, at), NEW f, f = ItFrame(at, y), NEW g, g = ItFrame("clear", y),
         NEW m \in Nat, m = Len(stack[p]) - 1
  PROVE  /\ stack' \in Stacks /\ Covered(stack, stack', p, f, g)
         /\ Changed(stack, stack', p, m, {f, g})
         /\ \A q \in Actor : q # p => stack'[q] = stack[q]
         /\ stack'[p] # <<>>
         /\ HeldMoves(ItFrame(was, Target(p)), f)
<1>1. stack \in Stacks /\ stack[p] # <<>> /\ stack[p][Len(stack[p])] = ItFrame(was, Target(p))
      /\ Len(stack[p]) \in Nat
  BY TopFrame DEF ItIInv
<1>2. stack' \in Stacks /\ Covered(stack, stack', p, f, g)
  BY <1>1, LockAndClearIs DEF ItIInv
<1>3. Changed(stack, stack', p, m, {f, g})
  BY <1>1, <1>2, ChangedBy
<1>4. stack'[p] # <<>>
  BY <1>1, <1>2, SeqDomain DEF Covered
<1>5. HeldMoves(ItFrame(was, Target(p)), f)
  BY <1>1, <1>2, CoveredHeld DEF HeldMoves
<1>. QED BY <1>2, <1>3, <1>4, <1>5 DEF Covered

\* What p's code called, lies on that code.
LEMMA CalledFrom ==
  ASSUME ItIInv, NEW p \in Actor, NEW at, Now(p, at), at \in OnCode
  PROVE  Len(stack[p]) = 2 /\ stack[p][1] = ItFrame("code", p) /\ 1 \in 1..Len(stack[p])
<1>1. PICK n \in 1..Len(stack[p]) : n = Len(stack[p])
  BY TopFrame DEF ItIInv
<1>2. stack \in Stacks /\ ShapeOf(stack) /\ stack[p][n].at = at
  BY <1>1, TopFrame, ShapeIs DEF ItIInv
<1>3. n = 2 /\ stack[p][1].at = "code" /\ stack[p][1].x = p
  BY <1>2, Places
<1>4. Len(stack[p]) = 2 /\ 1 \in 1..Len(stack[p])
  BY <1>1, <1>3
<1>5. stack[p][1] = ItFrame(stack[p][1].at, stack[p][1].x)
  BY <1>4, Typed DEF ItIInv
<1>. QED BY <1>3, <1>4, <1>5

LEMMA CallShape ==
  ASSUME ItIInv, NEW p \in Actor, NEW at, NEW f, stack' \in Stacks
  PROVE  /\ Now(p, at) /\ at \in OnCode /\ f.at \in OnCode \cup OnClear
            /\ Replaced(stack, stack', p, f) => ShapeOf(stack')
         /\ Now(p, at) /\ at \in OnCode /\ Popped(stack, stack', p) => ShapeOf(stack')
         /\ Now(p, "code") /\ f.at \in OnCode \cup OnClear
            /\ Pushed(stack, stack', p, f) => ShapeOf(stack')
<1>1. ShapeOf(stack) /\ stack \in Stacks
  BY ShapeIs DEF ItIInv, ItTypeOK, Stacks, FrameSet
<1>2. ASSUME Now(p, at), at \in OnCode, f.at \in OnCode \cup OnClear, Replaced(stack, stack', p, f)
      PROVE  ShapeOf(stack')
  <2>1. Len(stack[p]) = 2 /\ stack[p][1].at = "code"
    BY <1>2, CalledFrom, FrameFields
  <2>2. MayLie(f, stack[p][1])
    BY <1>2, <2>1 DEF MayLie
  <2>3. /\ Len(stack[p]) = 1 => IsBottom(p, f) /\ (p = Main => f.at \in {"code", "gone"})
        /\ Len(stack[p]) > 1 => MayLie(f, stack[p][Len(stack[p]) - 1])
    BY <2>1, <2>2
  <2>. QED BY <1>1, <1>2, <2>3, ReplacedShape
<1>3. ASSUME Now(p, at), at \in OnCode, Popped(stack, stack', p) PROVE ShapeOf(stack')
  <2>1. Len(stack[p]) > 1
    BY <1>3, CalledFrom
  <2>. QED BY <1>1, <1>3, <2>1, PoppedShape
<1>4. ASSUME Now(p, "code"), f.at \in OnCode \cup OnClear, Pushed(stack, stack', p, f)
      PROVE  ShapeOf(stack')
  <2>1. Len(stack[p]) = 1 /\ stack[p][1].at = "code"
    BY <1>4, CodeTop, FrameFields DEF ItIInv
  <2>2. MayLie(f, stack[p][1])
    BY <1>4, <2>1 DEF MayLie
  <2>3. /\ Len(stack[p]) = 0 => IsBottom(p, f)
        /\ Len(stack[p]) > 0 => MayLie(f, stack[p][Len(stack[p])])
    BY <2>1, <2>2
  <2>. QED BY <1>1, <1>4, <2>3, PushedShape
<1>. QED BY <1>2, <1>3, <1>4

\* Threads and objects that stay, for Ordinary.
LEMMA OrdinaryRest ==
  ASSUME ItIInv
  PROVE  /\ thread' = thread => OrdinaryThreads
         /\ (\A x \in Actor : thread'[x].state = thread[x].state) => OrdinaryThreads
         /\ obj' = obj => OrdinaryObjects /\ \A q, x \in Actor : ~(obj'[q][x] < obj[q][x])
         /\ \A p \in Actor, m \in Nat :
              (pool' = pool \/ (PoolUnlocked /\ pool'.total = pool.total)) => OrdinaryPool(p, m)
<1>1. (\A x \in Actor : thread'[x].state = thread[x].state) => OrdinaryThreads
  BY DEF OrdinaryThreads, Is
<1>2. obj' = obj => OrdinaryObjects /\ \A q, x \in Actor : ~(obj'[q][x] < obj[q][x])
  BY Typed DEF ItIInv, OrdinaryObjects
<1>3. \A p \in Actor, m \in Nat :
              (pool' = pool \/ (PoolUnlocked /\ pool'.total = pool.total)) => OrdinaryPool(p, m)
  BY DEF OrdinaryPool, PoolUnlocked
<1>. QED BY <1>1, <1>2, <1>3

LEMMA ObjectMoves ==
  ASSUME ItTypeOK, NEW i \in Actor, NEW x \in Actor, NEW a \in Nat,
         obj' = [obj EXCEPT ![i][x] = a]
  PROVE  /\ obj' \in [Actor -> [Actor -> Nat]]
         /\ obj'[i][x] = a
         /\ \A j, y \in Actor : j # i \/ y # x => obj'[j][y] = obj[j][y]
         /\ Number(obj', x) = Number(obj, x) - obj[i][x] + a
         /\ \A y \in Actor : y # x => Number(obj', y) = Number(obj, y)
         /\ \A y \in Actor : Number(obj, y) \in Nat
<1>1. obj \in [Actor -> [Actor -> Nat]]
  BY DEF ItTypeOK
<1>2. obj' = [obj EXCEPT ![i] = [obj[i] EXCEPT ![x] = a]]
  BY <1>1
<1>3. /\ obj' \in [Actor -> [Actor -> Nat]]
      /\ obj'[i][x] = a
      /\ \A j, y \in Actor : j # i \/ y # x => obj'[j][y] = obj[j][y]
  BY <1>1, <1>2
<1>4. Number(obj', x) = Number(obj, x) - obj[i][x] + a
  <2>1. \A j \in Actor : j # i => obj'[j][x] = obj[j][x]
    BY <1>3
  <2>2. Number(obj', x) = Number(obj, x) - obj[i][x] + obj'[i][x]
    BY <1>1, <1>3, <2>1, ObjectsDiffer, ZenonT(40)
  <2>. QED BY <1>3, <2>2
<1>5. ASSUME NEW y \in Actor, y # x PROVE Number(obj', y) = Number(obj, y)
  <2>1. \A j \in Actor : obj'[j][y] = obj[j][y]
    BY <1>3, <1>5
  <2>. QED BY <2>1, ObjectsSame
<1>6. \A y \in Actor : Number(obj, y) \in Nat
  BY <1>1, ObjectsAre
<1>. QED BY <1>3, <1>4, <1>5, <1>6

Threads == [Actor -> [count : Nat, state : SUBSET Flags, interp : {"none", "live"},
                      mutex : Actor \cup {NoActor}]]

LEMMA MutexMoves ==
  ASSUME ItTypeOK, NEW x \in Actor, NEW q \in Actor \cup {NoActor},
         thread' = [thread EXCEPT ![x].mutex = q]
  PROVE  /\ thread' \in Threads
         /\ \A y \in Actor : /\ thread'[y].state = thread[y].state
                             /\ thread'[y].count = thread[y].count
                             /\ thread'[y].interp = thread[y].interp
<1>1. thread \in Threads
  BY DEF ItTypeOK, Threads
<1>2. PICK t : t = [thread[x] EXCEPT !.mutex = q]
  OBVIOUS
<1>3. thread' = [thread EXCEPT ![x] = t]
  BY <1>1, <1>2
<1>4. /\ t \in [count : Nat, state : SUBSET Flags, interp : {"none", "live"},
                mutex : Actor \cup {NoActor}]
      /\ t.state = thread[x].state /\ t.count = thread[x].count /\ t.interp = thread[x].interp
  BY <1>1, <1>2 DEF Threads
<1>. QED BY <1>1, <1>3, <1>4 DEF Threads

\* create hands the object of the new thread to the program, and lets it run.
LEMMA GiveObjectKeeps == ASSUME ItIInv, NEW p \in Actor, GiveObject(p) PROVE ItIInv'
<1>1. /\ ItTypeOK /\ Now(p, "give") /\ Pop(p)
      /\ obj' = [obj EXCEPT ![p][Target(p)] = obj[p][Target(p)] + 1]
      /\ thread' = [thread EXCEPT ![Target(p)].mutex = NoActor]
      /\ UNCHANGED <<itScenario, pool, list, tid_counter, freed, process>>
  BY DEF ItIInv, GiveObject
<1>2. PICK x \in Actor : x = Target(p)
  BY <1>1, TopFrame
<1>3. Len(stack[p]) = 2 /\ stack[p] # <<>> /\ Inner(p).at = "give"
  BY <1>1, CalledFrom DEF OnCode, Now
<1>4. /\ stack' \in Stacks /\ Popped(stack, stack', p) /\ Changed(stack, stack', p, 1, {})
      /\ \A q \in Actor : q # p => stack'[q] = stack[q]
      /\ \A y : /\ Held(stack', y) = Held(stack, y) - Weight(ItFrame("give", x), y)
                /\ Held(stack, y) \in Nat
  <2>1. PICK m \in Nat : m = 1 /\ m = Len(stack[p]) - 1
    BY <1>3
  <2>2. /\ stack' \in Stacks /\ Popped(stack, stack', p) /\ Changed(stack, stack', p, m, {})
        /\ \A q \in Actor : q # p => stack'[q] = stack[q]
        /\ \A y : /\ Held(stack', y) = Held(stack, y) - Weight(ItFrame("give", Target(p)), y)
                  /\ Held(stack, y) \in Nat
    BY <1>1, <2>1, Pops
  <2>. QED BY <1>2, <2>1, <2>2
<1>5. obj[p][x] \in Nat
  BY <1>1, Typed
<1>6. /\ obj' \in [Actor -> [Actor -> Nat]] /\ obj'[p][x] = obj[p][x] + 1
      /\ \A j, y \in Actor : j # p \/ y # x => obj'[j][y] = obj[j][y]
      /\ Number(obj', x) = Number(obj, x) + 1
      /\ \A y \in Actor : y # x => Number(obj', y) = Number(obj, y)
      /\ \A y \in Actor : Number(obj, y) \in Nat
  <2>1. PICK a \in Nat : a = obj[p][x] + 1
    BY <1>5
  <2>2. obj' = [obj EXCEPT ![p][x] = a]
    BY <1>1, <1>2, <2>1
  <2>3. /\ obj' \in [Actor -> [Actor -> Nat]] /\ obj'[p][x] = a
        /\ \A j, y \in Actor : j # p \/ y # x => obj'[j][y] = obj[j][y]
        /\ Number(obj', x) = Number(obj, x) - obj[p][x] + a
        /\ \A y \in Actor : y # x => Number(obj', y) = Number(obj, y)
        /\ \A y \in Actor : Number(obj, y) \in Nat
    <3>1. ItTypeOK
      BY <1>1
    <3>. QED BY ONLY <2>2, <3>1, ObjectMoves, p \in Actor, x \in Actor, a \in Nat, ZenonT(40)
  <2>4. Number(obj', x) = Number(obj, x) + 1
    BY <1>5, <2>1, <2>3
  <2>. QED BY <2>1, <2>3, <2>4
<1>8. /\ thread' \in Threads
      /\ \A y \in Actor : thread'[y].state = thread[y].state /\ thread'[y].count = thread[y].count
  BY <1>1, <1>2, MutexMoves
<1>7. ItTypeOK'
  BY <1>1, <1>4, <1>6, <1>8 DEF ItTypeOK, Stacks, FrameSet, Threads
<1>9. ShapeOf(stack')
  BY <1>1, <1>4, CallShape DEF OnCode
<1>10. Common(x) /\ ~Unreferenced(x)
  BY <1>1, <1>2, TopIsCommon DEF Ends, Owners, Owning
<1>11. p \in Known /\ ~Somewhere(ItFrame("clone", p))
  BY <1>3, RunnerIsCommon
<1>12. Ordinary(p, 1, {})
  <2>1. OrdinaryFrames(p, 1, {})
    BY <1>2, <1>3, <1>4, <1>10 DEF OrdinaryFrames, Special, Ends, Common
  <2>2. OrdinaryObjects
    <3>1. ASSUME NEW i \in Actor, NEW y \in Actor
          PROVE  obj'[i][y] \in Nat /\ (obj'[i][y] > obj[i][y] => i = p /\ y = x)
      BY <1>1, <1>5, <1>6, Typed, SMTT(40)
    <3>. QED BY <1>10, <1>11, <3>1 DEF OrdinaryObjects
  <2>3. OrdinaryPool(p, 1) /\ OrdinaryThreads
    BY <1>1, <1>8, OrdinaryRest
  <2>. QED BY <1>1, <2>1, <2>2, <2>3 DEF Ordinary
<1>13. CleanedAlone'
  BY <1>1, <1>3, CleanedStays
<1>14. JoinsAreMarked' /\ CountersAreRight' /\ RunsAreMarked'
  <2>1. ASSUME NEW q \in Actor, NEW y \in Actor PROVE ~(obj'[q][y] < obj[q][y])
    <3>1. obj[q][y] \in Nat
      BY <1>1, Typed
    <3>. QED BY <1>5, <1>6, <3>1
  <2>2. 1 \in Nat /\ 1 > 0
    OBVIOUS
  <2>. QED BY <1>1, <1>3, <1>7, <1>8, <1>12, <2>1, <2>2, StatesStay
<1>15. CountsReferences'
  <2>1. ASSUME NEW y \in Actor
        PROVE  Number(obj', y) + Held(stack', y) = Number(obj, y) + Held(stack, y)
    <3>1. Weight(ItFrame("give", x), y) = IF x = y THEN 1 ELSE 0
      BY WeightIs DEF Owners, Owning, OwningTwo
    <3>2. Held(stack', y) = Held(stack, y) - Weight(ItFrame("give", x), y)
          /\ Held(stack, y) \in Nat
      BY <1>4
    <3>3. Number(obj', y) = Number(obj, y) + (IF x = y THEN 1 ELSE 0) /\ Number(obj, y) \in Nat
      BY <1>5, <1>6
    <3>. QED BY <3>1, <3>2, <3>3
  <2>. QED BY <1>1, <1>7, <1>8, <2>1, CountsStay DEF Known, Created
<1>. QED BY <1>7, <1>9, <1>12, <1>13, <1>14, <1>15, OrdinaryInvariant

\* A step that leaves all structures, counters and objects alone: what is left
\* to show of the type.
LEMMA TypeStays ==
  ASSUME ItTypeOK, stack' \in Stacks, thread' \in Threads,
         UNCHANGED <<itScenario, list, obj, tid_counter, freed>>,
         pool' = pool \/ \E q \in Actor \cup {NoActor} : pool' = [pool EXCEPT !.mutex = q],
         process' \in {process, "exiting", "cleaned"}
  PROVE  ItTypeOK' /\ pool'.total = pool.total /\ pool'.running = pool.running
         /\ pool'.detached = pool.detached /\ pool'.joinable = pool.joinable
  BY DEF ItTypeOK, Stacks, FrameSet, Threads

LEMMA ThreadsTyped == ASSUME ItTypeOK PROVE thread \in Threads
  BY DEF ItTypeOK, Threads

\* p's bottom frame is about p and gets another label.
LEMMA BottomShape ==
  ASSUME ItIInv, NEW p \in Actor, Len(stack[p]) = 1, NEW f, stack' \in Stacks,
         Replaced(stack, stack', p, f), IsBottom(p, f), p = Main => f.at \in {"code", "gone"}
  PROVE  ShapeOf(stack')
<1>1. ShapeOf(stack) /\ stack \in Stacks
  BY ShapeIs DEF ItIInv, ItTypeOK, Stacks, FrameSet
<1>2. /\ Len(stack[p]) = 1 => IsBottom(p, f) /\ (p = Main => f.at \in {"code", "gone"})
      /\ Len(stack[p]) > 1 => MayLie(f, stack[p][Len(stack[p]) - 1])
  OBVIOUS
<1>. QED BY <1>1, <1>2, ReplacedShape

\* A bottom frame that keeps its reference changes no count.
LEMMA BottomCounts ==
  ASSUME ItIInv, ItTypeOK', NEW p \in Actor, NEW was \in Running, NEW at \in Running \cup {"drop"},
         UNCHANGED <<obj, tid_counter>>,
         HeldMoves(ItFrame(was, p), ItFrame(at, p)),
         \A x \in Actor : thread'[x].state = thread[x].state /\ thread'[x].count = thread[x].count
  PROVE  CountsReferences'
<1>1. ASSUME NEW y \in Actor
      PROVE  Number(obj', y) + Held(stack', y) = Number(obj, y) + Held(stack, y)
  <2>1. Weight(ItFrame(was, p), y) = Weight(ItFrame(at, p), y)
        /\ Weight(ItFrame(was, p), y) \in {0, 1, 2}
    BY WeightIs DEF Owners, Owning, OwningTwo, Running
  <2>. QED BY <2>1 DEF HeldMoves
<1>. QED BY <1>1, CountsStay DEF Known, Created

LEMMA RunningPlace ==
  ASSUME ItIInv, NEW p \in Actor, NEW at \in Running, Now(p, at)
  PROVE  /\ Len(stack[p]) = 1 /\ Target(p) = p /\ stack[p][1] = ItFrame(at, p)
         /\ stack[p][1].at = at /\ stack[p] # <<>> /\ Inner(p).at = at
         /\ p = Main => at \in {"code", "gone"}
         /\ p \in Created => (Is(p, "FINISHED") <=> at \notin Stages)
<1>1. PICK n \in 1..Len(stack[p]) : n = Len(stack[p])
  BY TopFrame DEF ItIInv
<1>2. /\ stack \in Stacks /\ ShapeOf(stack) /\ stack[p][n].at = at
      /\ stack[p][n] = ItFrame(at, Target(p)) /\ stack[p][n].x = Target(p) /\ stack[p] # <<>>
  BY <1>1, TopFrame, ShapeIs DEF ItIInv
<1>3. n = 1 /\ stack[p][n].x = p
  BY <1>2, Places
<1>4. p = Main => at \in {"code", "gone"}
  BY <1>1, <1>2, <1>3 DEF ShapeOf
<1>5. p \in Created => (Is(p, "FINISHED") <=> at \notin Stages)
  BY <1>2, <1>3 DEF ItIInv, RunsAreMarked
<1>. QED BY <1>1, <1>2, <1>3, <1>4, <1>5 DEF Now

\* The code of a thread returns, dies or calls exit.
LEMMA EndCodeKeeps ==
  ASSUME ItIInv, NEW p \in Actor, NEW how \in {"return", "die", "exit"}, EndCode(p, how)
  PROVE  ItIInv'
<1>1. /\ ItTypeOK /\ Now(p, "code") /\ GotoAt(p, how, Target(p)) /\ p # Main /\ PoolUnlocked
      /\ pool' = [pool EXCEPT !.mutex = p]
      /\ UNCHANGED <<itScenario, thread, list, obj, tid_counter, freed, process>>
  BY DEF ItIInv, EndCode, Goto, InCode
<1>2. /\ Len(stack[p]) = 1 /\ Target(p) = p /\ stack[p] # <<>> /\ Inner(p).at = "code"
      /\ p \in Created => ~Is(p, "FINISHED")
  BY <1>1, RunningPlace DEF Running, Stages
<1>3. PICK f : f = ItFrame(how, p) /\ f.at = how /\ f.x = p
  BY FrameFields
<1>4. /\ stack' \in Stacks /\ Replaced(stack, stack', p, f) /\ Changed(stack, stack', p, 0, {f})
      /\ \A q \in Actor : q # p => stack'[q] = stack[q]
      /\ stack'[p] # <<>> /\ stack'[p][1] = f
      /\ HeldMoves(ItFrame("code", p), f)
  <2>1. PICK m \in Nat : m = Len(stack[p]) - 1
    BY <1>2
  <2>4. m = 0
    BY <1>2, <2>1
  <2>2. how \in Labels
    BY DEF Labels, Owning, Running
  <2>3. Relabeled(p, ItFrame("code", Target(p)), f, m)
    <3>1. PICK y \in Actor : y = p
      OBVIOUS
    <3>2. /\ Now(p, "code") /\ GotoAt(p, how, y) /\ f = ItFrame(how, y)
      BY <1>1, <1>2, <1>3, <3>1
    <3>. QED BY ONLY ItIInv, <2>1, <2>2, <3>2, p \in Actor, y \in Actor, m \in Nat, Relabels
  <2>. QED BY <1>2, <2>3, <2>4 DEF Relabeled
<1>5. pool'.mutex = p /\ pool'.total = pool.total
  BY <1>1 DEF ItTypeOK
<1>6. /\ ItTypeOK' /\ pool'.total = pool.total /\ pool'.running = pool.running
      /\ pool'.detached = pool.detached /\ pool'.joinable = pool.joinable
  BY <1>1, <1>4, ThreadsTyped, TypeStays
<1>7. ShapeOf(stack')
  <2>1. IsBottom(p, f)
    BY <1>3 DEF IsBottom, Running
  <2>. QED BY <1>1, <1>2, <1>4, <2>1, BottomShape
<1>8. Ordinary(p, 0, {f})
  <2>1. Common(p) /\ ~Unreferenced(p)
    BY <1>1, <1>2, TopIsCommon DEF Ends, Owners, Owning, Running
  <2>2. OrdinaryFrames(p, 0, {f})
    BY <1>2, <1>3, <1>4, <1>5, <2>1, WalkLabels DEF OrdinaryFrames, Special, Ends, Common
  <2>3. OrdinaryPool(p, 0) /\ OrdinaryThreads /\ OrdinaryObjects
    BY <1>1, <1>6, OrdinaryRest
  <2>. QED BY <1>1, <2>2, <2>3 DEF Ordinary
<1>9. CleanedAlone'
  BY <1>1, <1>2, CleanedStays
<1>10. JoinsAreMarked' /\ CountersAreRight'
  <2>1. \A g \in {f} : g.at \in {"return", "die", "exit"} /\ g.at \notin Takes
    BY <1>3, WalkLabels
  <2>2. \A q, y \in Actor : ~(obj'[q][y] < obj[q][y])
    BY <1>1, OrdinaryRest
  <2>. QED BY <1>1, <1>2, <1>6, <1>8, <2>1, <2>2, StatesStay
<1>11. RunsAreMarked'
  <2>1. p \in Created => (Is(p, "FINISHED")' <=> stack'[p][1].at \notin Stages)
    BY <1>1, <1>2, <1>3, <1>4 DEF Stages, Is
  <2>2. \A x \in Created : Is(x, "FINISHED")' <=> Is(x, "FINISHED")
    BY <1>1 DEF Is
  <2>. QED BY <1>1, <1>4, <1>6, <1>8, <2>1, <2>2, RunsStay
<1>12. CountsReferences'
  <2>1. "code" \in Running /\ how \in Running \cup {"drop"}
    BY DEF Running
  <2>. QED BY <1>1, <1>3, <1>4, <1>6, <2>1, BottomCounts
<1>. QED BY <1>6, <1>7, <1>8, <1>9, <1>10, <1>11, <1>12, OrdinaryInvariant

LEMMA ExitAppKeeps == ASSUME ItIInv, NEW p \in Actor, ExitApp(p) PROVE ItIInv'
<1>1. /\ ItTypeOK /\ Now(p, "exit_app") /\ GotoAt(p, "gone", Target(p))
      /\ process' \in {process, "exiting"}
      /\ UNCHANGED <<itScenario, thread, pool, list, obj, tid_counter, freed>>
  BY DEF ItIInv, ExitApp, Goto
<1>2. /\ Len(stack[p]) = 1 /\ Target(p) = p /\ stack[p] # <<>> /\ Inner(p).at = "exit_app"
      /\ p # Main /\ (p \in Created => Is(p, "FINISHED"))
  BY <1>1, RunningPlace DEF Running, Stages
<1>3. PICK f : f = ItFrame("gone", p) /\ f.at = "gone" /\ f.x = p
  BY FrameFields
<1>4. /\ stack' \in Stacks /\ Replaced(stack, stack', p, f) /\ Changed(stack, stack', p, 0, {f})
      /\ \A q \in Actor : q # p => stack'[q] = stack[q]
      /\ stack'[p] # <<>> /\ stack'[p][1] = f
      /\ HeldMoves(ItFrame("exit_app", p), f)
  <2>1. PICK m \in Nat : m = Len(stack[p]) - 1
    BY <1>2
  <2>4. m = 0
    BY <1>2, <2>1
  <2>2. "gone" \in Labels
    BY DEF Labels, Owning, Running
  <2>3. Relabeled(p, ItFrame("exit_app", Target(p)), f, m)
    <3>1. PICK y \in Actor : y = p
      OBVIOUS
    <3>2. /\ Now(p, "exit_app") /\ GotoAt(p, "gone", y) /\ f = ItFrame("gone", y)
      BY <1>1, <1>2, <1>3, <3>1
    <3>. QED BY ONLY ItIInv, <2>1, <2>2, <3>2, p \in Actor, y \in Actor, m \in Nat, Relabels
  <2>. QED BY <1>2, <2>3, <2>4 DEF Relabeled
<1>6. /\ ItTypeOK' /\ pool'.total = pool.total /\ pool'.running = pool.running
      /\ pool'.detached = pool.detached /\ pool'.joinable = pool.joinable
  BY <1>1, <1>4, ThreadsTyped, TypeStays
<1>7. ShapeOf(stack')
  <2>1. IsBottom(p, f)
    BY <1>3 DEF IsBottom, Running
  <2>. QED BY <1>1, <1>2, <1>4, <2>1, BottomShape
<1>8. Ordinary(p, 0, {f})
  <2>1. Common(p) /\ ~Unreferenced(p)
    BY <1>1, <1>2, TopIsCommon DEF Ends, Owners, Owning, Running
  <2>2. OrdinaryFrames(p, 0, {f})
    BY <1>2, <1>3, <1>4, <2>1, WalkLabels DEF OrdinaryFrames, Special, Ends, Common, HavePool
  <2>3. OrdinaryPool(p, 0) /\ OrdinaryThreads /\ OrdinaryObjects
    BY <1>1, <1>6, OrdinaryRest
  <2>. QED BY <1>1, <2>2, <2>3 DEF Ordinary
<1>9. CleanedAlone'
  BY <1>1, <1>2, CleanedStays
<1>10. JoinsAreMarked' /\ CountersAreRight'
  <2>1. \A g \in {f} : g.at = "gone" /\ g.at \notin Takes
    BY <1>3, WalkLabels
  <2>2. \A q, y \in Actor : ~(obj'[q][y] < obj[q][y])
    BY <1>1, OrdinaryRest
  <2>. QED BY <1>1, <1>2, <1>6, <1>8, <2>1, <2>2, StatesStay
<1>11. RunsAreMarked'
  <2>1. p \in Created => (Is(p, "FINISHED")' <=> stack'[p][1].at \notin Stages)
    BY <1>1, <1>2, <1>3, <1>4 DEF Stages, Is
  <2>2. \A x \in Created : Is(x, "FINISHED")' <=> Is(x, "FINISHED")
    BY <1>1 DEF Is
  <2>. QED BY <1>1, <1>4, <1>6, <1>8, <2>1, <2>2, RunsStay
<1>12. CountsReferences'
  <2>1. "exit_app" \in Running /\ "gone" \in Running \cup {"drop"}
    BY DEF Running
  <2>. QED BY <1>1, <1>3, <1>4, <1>6, <2>1, BottomCounts
<1>. QED BY <1>6, <1>7, <1>8, <1>9, <1>10, <1>11, <1>12, OrdinaryInvariant

(***************************************************************************)
(* What p's code calls: a frame on that of the code, m = 1.                *)
(***************************************************************************)
\* What is known when p's code calls something, in frame f, ...
Called(p, f) ==
  /\ stack' \in Stacks /\ Pushed(stack, stack', p, f) /\ Changed(stack, stack', p, 1, {f})
  /\ \A q \in Actor : q # p => stack'[q] = stack[q]
  /\ stack'[p] # <<>> /\ Len(stack[p]) = 1 /\ Len(stack'[p]) = 2 /\ stack[p] # <<>>
  /\ Target(p) = p /\ Inner(p).at = "code"
  /\ ShapeOf(stack')
  /\ \A x : /\ Held(stack', x) = Held(stack, x) + Weight(f, x)
            /\ Held(stack, x) \in Nat

LEMMA Calls ==
  ASSUME ItIInv, NEW p \in Actor, Now(p, "code"), NEW at \in OnCode \cup OnClear,
         NEW y \in Actor, Push(p, at, y), NEW f, f = ItFrame(at, y)
  PROVE  Called(p, f)
<1>1. /\ Len(stack[p]) = 1 /\ Target(p) = p /\ stack[p] # <<>> /\ Inner(p).at = "code"
  BY RunningPlace DEF Running
<1>2. PICK m \in Nat : m = Len(stack[p]) /\ m = 1
  BY <1>1
<1>3. at \in Labels
  BY DEF OnCode, OnClear, Ends, Takes, Labels, Owning, OwningTwo
<1>4. Overlaid(p, f, m)
  <2>1. m = Len(stack[p])
    BY <1>2
  <2>. QED BY <2>1, <1>3, Pushes
<1>5. ShapeOf(stack')
  <2>1. f.at \in OnCode \cup OnClear
    BY FrameFields
  <2>. QED BY <1>4, <2>1, CallShape DEF Overlaid
<1>6. Len(stack'[p]) = 2
  BY <1>1, <1>4 DEF Pushed, Overlaid
<1>. QED BY <1>1, <1>2, <1>4, <1>5, <1>6 DEF Called, Overlaid

\* ... goes on in frame f, ...
Continued(p, g, f) ==
  /\ Relabeled(p, g, f, 1) /\ ShapeOf(stack') /\ Len(stack[p]) = 2 /\ Len(stack'[p]) = 2
  /\ stack[p] # <<>> /\ Inner(p).at = g.at /\ stack[p][2] = g

LEMMA Continues ==
  ASSUME ItIInv, NEW p \in Actor, NEW was \in OnCode, Now(p, was), NEW at \in OnCode,
         NEW y \in Actor, GotoAt(p, at, y), NEW f, f = ItFrame(at, y)
  PROVE  Continued(p, ItFrame(was, Target(p)), f)
<1>1. Len(stack[p]) = 2
  BY CalledFrom
<1>2. PICK m \in Nat : m = Len(stack[p]) - 1
  BY <1>1
<1>3. at \in Labels
  BY DEF OnCode, Takes, Labels, Owning, OwningTwo
<1>4. Relabeled(p, ItFrame(was, Target(p)), f, m)
  BY <1>2, <1>3, Relabels
<1>5. m = 1
  BY <1>1, <1>2
<1>6. ShapeOf(stack')
  <2>1. f.at \in OnCode
    BY FrameFields
  <2>2. stack' \in Stacks /\ Replaced(stack, stack', p, f)
    BY <1>4 DEF Relabeled
  <2>. QED BY <2>1, <2>2, CallShape
<1>7. /\ stack[p] # <<>> /\ Inner(p).at = was /\ stack[p][2] = ItFrame(was, Target(p))
  BY <1>1, TopFrame DEF ItIInv, Now
<1>8. Len(stack'[p]) = 2
  BY <1>1, <1>4 DEF Relabeled
<1>. QED BY <1>1, <1>4, <1>5, <1>6, <1>7, <1>8, FrameFields DEF Continued

\* ... returns, ...
Returned(p, g) ==
  /\ stack' \in Stacks /\ Popped(stack, stack', p) /\ Changed(stack, stack', p, 1, {})
  /\ \A q \in Actor : q # p => stack'[q] = stack[q]
  /\ ShapeOf(stack') /\ Len(stack[p]) = 2 /\ Len(stack'[p]) = 1
  /\ stack[p] # <<>> /\ Inner(p).at = g.at /\ stack[p][2] = g
  /\ \A x : /\ Held(stack', x) = Held(stack, x) - Weight(g, x)
            /\ Held(stack, x) \in Nat

LEMMA Returns ==
  ASSUME ItIInv, NEW p \in Actor, NEW was \in OnCode, Now(p, was), Pop(p)
  PROVE  Returned(p, ItFrame(was, Target(p)))
<1>1. Len(stack[p]) = 2
  BY CalledFrom
<1>2. PICK m \in Nat : m = Len(stack[p]) - 1 /\ m = 1
  BY <1>1
<1>3. /\ stack' \in Stacks /\ Popped(stack, stack', p)
      /\ Changed(stack, stack', p, m, {})
      /\ \A q \in Actor : q # p => stack'[q] = stack[q]
      /\ \A x : /\ Held(stack', x) = Held(stack, x) - Weight(ItFrame(was, Target(p)), x)
                /\ Held(stack, x) \in Nat
  <2>1. m = Len(stack[p]) - 1
    BY <1>2
  <2>. QED BY <2>1, Pops
<1>4. ShapeOf(stack')
  BY <1>3, CallShape
<1>5. /\ stack[p] # <<>> /\ Inner(p).at = was /\ stack[p][2] = ItFrame(was, Target(p))
  BY <1>1, TopFrame DEF ItIInv, Now
<1>6. Len(stack'[p]) = 1
  BY <1>1, <1>3 DEF Popped
<1>. QED BY <1>1, <1>2, <1>3, <1>4, <1>5, <1>6, FrameFields DEF Returned

\* ... or locks a mutex and clears a thread.
ClearCalled(p, g, f, h) ==
  /\ stack' \in Stacks /\ Covered(stack, stack', p, f, h) /\ Changed(stack, stack', p, 1, {f, h})
  /\ \A q \in Actor : q # p => stack'[q] = stack[q]
  /\ ShapeOf(stack') /\ Len(stack[p]) = 2
  /\ stack[p] # <<>> /\ Inner(p).at = g.at /\ stack[p][2] = g
  /\ HeldMoves(g, f)

LEMMA ClearCalls ==
  ASSUME ItIInv, NEW p \in Actor, NEW was \in OnCode, Now(p, was), NEW at \in {"free"},
         NEW y \in Actor, LockAndClear(p, y, at), NEW f, f = ItFrame(at, y),
         NEW h, h = ItFrame("clear", y)
  PROVE  ClearCalled(p, ItFrame(was, Target(p)), f, h)
<1>1. Len(stack[p]) = 2 /\ stack[p][1] = ItFrame("code", p)
  BY CalledFrom
<1>2. PICK m \in Nat : m = Len(stack[p]) - 1
  BY <1>1
<1>3. m = 1
  BY <1>1, <1>2
<1>4. at \in Labels
  BY DEF Labels, Owning
<1>5. /\ stack' \in Stacks /\ Covered(stack, stack', p, f, h)
      /\ Changed(stack, stack', p, m, {f, h})
      /\ \A q \in Actor : q # p => stack'[q] = stack[q]
      /\ stack'[p] # <<>>
      /\ HeldMoves(ItFrame(was, Target(p)), f)
  BY <1>2, <1>4, Covers
<1>6. ShapeOf(stack')
  <2>1. stack \in Stacks /\ ShapeOf(stack)
    BY ShapeIs DEF ItIInv, ItTypeOK, Stacks, FrameSet
  <2>2. MayLie(f, stack[p][Len(stack[p]) - 1])
    <3>1. Len(stack[p]) - 1 = 1
      BY <1>1
    <3>. QED BY <1>1, <3>1, FrameFields DEF MayLie, OnCode
  <2>3. MayLie(h, f)
    BY FrameFields DEF MayLie
  <2>4. /\ p # Main \/ Len(stack[p]) > 1
        /\ Len(stack[p]) = 1 => IsBottom(p, f)
    BY <1>1
  <2>. QED BY <1>5, <2>1, <2>2, <2>3, <2>4, CoveredShape
<1>7. /\ stack[p] # <<>> /\ Inner(p).at = was /\ stack[p][2] = ItFrame(was, Target(p))
  BY <1>1, TopFrame DEF ItIInv, Now
<1>. QED BY <1>1, <1>3, <1>5, <1>6, <1>7, FrameFields DEF ClearCalled

LEMMA StateMoves ==
  ASSUME ItTypeOK, NEW x \in Actor, NEW S \in SUBSET Flags,
         thread' = [thread EXCEPT ![x].state = thread[x].state \cup S]
  PROVE  /\ thread' \in Threads /\ thread'[x].state = thread[x].state \cup S
         /\ \A y \in Actor : y # x => thread'[y].state = thread[y].state
         /\ \A y \in Actor : /\ thread'[y].count = thread[y].count
                             /\ thread'[y].interp = thread[y].interp
                             /\ thread'[y].mutex = thread[y].mutex
<1>1. thread \in Threads
  BY DEF ItTypeOK, Threads
<1>2. PICK t : t = [thread[x] EXCEPT !.state = thread[x].state \cup S]
  OBVIOUS
<1>3. thread' = [thread EXCEPT ![x] = t]
  BY <1>1, <1>2
<1>4. /\ t \in [count : Nat, state : SUBSET Flags, interp : {"none", "live"},
                mutex : Actor \cup {NoActor}]
      /\ t.state = thread[x].state \cup S /\ t.count = thread[x].count
      /\ t.interp = thread[x].interp /\ t.mutex = thread[x].mutex
  BY <1>1, <1>2 DEF Threads
<1>. QED BY <1>1, <1>3, <1>4 DEF Threads

LEMMA PushedSomewhere ==
  ASSUME stack \in Stacks, stack' \in Stacks, NEW p \in Actor, NEW f, Pushed(stack, stack', p, f)
  PROVE  \A g : Somewhere(g)' <=> Somewhere(g) \/ g = f
<1>1. Len(stack[p]) \in Nat /\ Len(stack'[p]) = Len(stack[p]) + 1
  BY SeqDomain DEF Pushed
<1>2. ASSUME NEW g, Somewhere(g)' PROVE Somewhere(g) \/ g = f
  <2>1. PICK q \in Actor : \E k \in 1..Len(stack'[q]) : stack'[q][k] = g
    BY <1>2 DEF Somewhere
  <2>2. PICK k \in 1..Len(stack'[q]) : stack'[q][k] = g
    BY <2>1
  <2>3. CASE q = p
    <3>1. k \in 1..Len(stack[p]) \/ k = Len(stack[p]) + 1
      BY <1>1, <2>3
    <3>. QED BY <2>2, <2>3, <3>1 DEF Somewhere, Pushed
  <2>4. CASE q # p
    BY <2>2, <2>4 DEF Somewhere, Pushed
  <2>. QED BY <2>3, <2>4
<1>3. ASSUME NEW g, Somewhere(g) PROVE Somewhere(g)'
  <2>1. PICK q \in Actor : \E k \in 1..Len(stack[q]) : stack[q][k] = g
    BY <1>3 DEF Somewhere
  <2>2. PICK k \in 1..Len(stack[q]) : stack[q][k] = g
    BY <2>1
  <2>3. k \in 1..Len(stack'[q]) /\ stack'[q][k] = g
    BY <1>1, <2>2 DEF Pushed
  <2>. QED BY <2>3 DEF Somewhere
<1>4. Somewhere(f)'
  <2>1. Len(stack[p]) + 1 \in 1..Len(stack'[p])
    BY <1>1
  <2>. QED BY <2>1 DEF Somewhere, Pushed
<1>. QED BY <1>2, <1>3, <1>4

\* All but the frame that goes and the one that comes.
LEMMA ReplacedSomewhere ==
  ASSUME stack \in Stacks, stack' \in Stacks, NEW p \in Actor, NEW f, Replaced(stack, stack', p, f)
  PROVE  /\ \A g : g # f /\ g # stack[p][Len(stack[p])] => (Somewhere(g)' <=> Somewhere(g))
         /\ Somewhere(f)'
<1>1. Len(stack[p]) \in Nat /\ Len(stack'[p]) = Len(stack[p]) /\ Len(stack[p]) > 0
  BY SeqDomain DEF Replaced
<1>2. ASSUME NEW g, g # f, Somewhere(g)' PROVE Somewhere(g)
  <2>1. PICK q \in Actor : \E k \in 1..Len(stack'[q]) : stack'[q][k] = g
    BY <1>2 DEF Somewhere
  <2>2. PICK k \in 1..Len(stack'[q]) : stack'[q][k] = g
    BY <2>1
  <2>3. k \in 1..Len(stack[q]) /\ stack[q][k] = g
    BY <1>1, <1>2, <2>2 DEF Replaced
  <2>. QED BY <2>3 DEF Somewhere
<1>3. ASSUME NEW g, g # stack[p][Len(stack[p])], Somewhere(g) PROVE Somewhere(g)'
  <2>1. PICK q \in Actor : \E k \in 1..Len(stack[q]) : stack[q][k] = g
    BY <1>3 DEF Somewhere
  <2>2. PICK k \in 1..Len(stack[q]) : stack[q][k] = g
    BY <2>1
  <2>3. k \in 1..Len(stack'[q]) /\ stack'[q][k] = g
    BY <1>1, <1>3, <2>2 DEF Replaced
  <2>. QED BY <2>3 DEF Somewhere
<1>4. Somewhere(f)'
  <2>1. Len(stack[p]) \in 1..Len(stack'[p])
    BY <1>1
  <2>. QED BY <2>1 DEF Somewhere, Replaced
<1>. QED BY <1>2, <1>3, <1>4

\* The counts, when only those of one thread, x, move.
LEMMA OneCountMoves ==
  ASSUME ItIInv, ItTypeOK', NEW x \in Actor, UNCHANGED <<tid_counter>>,
         \A y \in Actor : "NONVIABLE" \in thread'[y].state => Is(y, "NONVIABLE"),
         \A y \in Actor : y # x =>
           /\ thread'[y].count = thread[y].count
           /\ Free1(y)' = Free1(y)
           /\ Number(obj', y) + Held(stack', y) = Number(obj, y) + Held(stack, y),
         ~Is(x, "NONVIABLE") =>
           thread'[x].count - Free1(x)' - Number(obj', x) - Held(stack', x)
             = thread[x].count - Free1(x) - Number(obj, x) - Held(stack, x),
         \A y \in Actor : Is(y, "NONVIABLE") => "NONVIABLE" \in thread'[y].state
  PROVE  CountsReferences'
<1>1. Known' = Known /\ Known \subseteq Actor
  BY Typed DEF ItIInv, Known, Created
<1>2. ASSUME NEW y \in Known', ~Is(y, "NONVIABLE")'
      PROVE  /\ y \in Known /\ ~Is(y, "NONVIABLE")
             /\ thread'[y].count - Free1(y)' - Number(obj', y) - Held(stack', y)
                  = thread[y].count - Free1(y) - Number(obj, y) - Held(stack, y)
  <2>1. y \in Known /\ y \in Actor /\ ~Is(y, "NONVIABLE")
    BY <1>1, <1>2 DEF Is
  <2>2. CASE y = x
    BY <2>1, <2>2
  <2>3. CASE y # x
    <3>1. /\ thread[y].count \in Nat /\ Free1(y) \in {0, 1}
          /\ Number(obj, y) \in Nat /\ Held(stack, y) \in Nat
      BY <2>1, CountsAre, Typed DEF ItIInv
    <3>2. Number(obj', y) \in Nat /\ Held(stack', y) \in Nat
      <4>1. stack' \in Stacks /\ obj' \in [Actor -> [Actor -> Nat]]
        BY DEF ItTypeOK, Stacks, FrameSet
      <4>. QED BY <4>1, <2>1, ObjectsAre, HeldIsNat
    <3>3. /\ thread'[y].count = thread[y].count /\ Free1(y)' = Free1(y)
          /\ Number(obj', y) + Held(stack', y) = Number(obj, y) + Held(stack, y)
      BY <2>1, <2>3
    <3>. QED BY <2>1, <3>1, <3>2, <3>3
  <2>. QED BY <2>2, <2>3
<1>. QED BY <1>1, <1>2, CountsMove

LEMMA JoinMarkKeeps ==
  ASSUME ItIInv, NEW p \in Actor, NEW x \in Actor, JoinMark(p, x) PROVE ItIInv'
<1>1. /\ ItTypeOK /\ Now(p, "code") /\ Push(p, "join", x) /\ obj[p][x] > 0 /\ Callable(x)
      /\ thread' = [thread EXCEPT ![x].state = thread[x].state \cup {"JOINED"}]
      /\ UNCHANGED <<itScenario, pool, list, obj, tid_counter, freed, process>>
  BY DEF ItIInv, JoinMark, InCode
<1>2. PICK f : f = ItFrame("join", x) /\ f.at = "join" /\ f.x = x
  BY FrameFields
<1>3. Called(p, f)
  <2>1. "join" \in OnCode \cup OnClear
    BY DEF OnCode
  <2>. QED BY <1>1, <1>2, <2>1, Calls
<1>4. /\ stack' \in Stacks /\ ShapeOf(stack') /\ stack[p] # <<>> /\ Inner(p).at = "code"
      /\ Len(stack[p]) = 1 /\ Len(stack'[p]) = 2
  BY <1>3 DEF Called
<1>5. Common(x) /\ ~Unreferenced(x)
  BY <1>1, ObjectIsCommon
<1>6. /\ thread' \in Threads /\ thread'[x].state = thread[x].state \cup {"JOINED"}
      /\ \A y \in Actor : y # x => thread'[y].state = thread[y].state
      /\ \A y \in Actor : thread'[y].count = thread[y].count
  <2>1. {"JOINED"} \in SUBSET Flags
    BY DEF Flags
  <2>. QED BY <1>1, <2>1, StateMoves
<1>7. ItTypeOK'
  BY <1>1, <1>4, <1>6 DEF ItTypeOK, Stacks, FrameSet, Threads
<1>8. Ordinary(p, 1, {f})
  <2>1. OrdinaryFrames(p, 1, {f})
    BY <1>2, <1>3, <1>5, WalkLabels DEF OrdinaryFrames, Special, Ends, Called, HavePool
  <2>2. OrdinaryThreads
    BY <1>5, <1>6 DEF OrdinaryThreads, Is, Common
  <2>3. OrdinaryPool(p, 1) /\ OrdinaryObjects
    BY <1>1, OrdinaryRest
  <2>. QED BY <1>1, <2>1, <2>2, <2>3 DEF Ordinary
<1>9. CleanedAlone'
  BY <1>1, <1>4, CleanedStays
<1>10. /\ ~Is(x, "JOINED") /\ x # Main
       /\ \A y \in Actor : Is(y, "FINISHED")' <=> Is(y, "FINISHED")
       /\ \A y \in Actor : Is(y, "DETACHED")' <=> Is(y, "DETACHED")
       /\ \A y \in Actor : y # x => (Is(y, "JOINED")' <=> Is(y, "JOINED"))
  <2>1. x # Main
    BY <1>1 DEF Callable, UNCALLABLE, ItIInv, RunsAreMarked
  <2>. QED BY <1>1, <1>6, <2>1 DEF Is, Callable, UNCALLABLE
<1>11. /\ \A y : y # x => (Somewhere(ItFrame("join", y))' <=> Somewhere(ItFrame("join", y)))
       /\ Somewhere(ItFrame("join", x))' /\ ~Somewhere(ItFrame("join", x))
  <2>1. \A g : Somewhere(g)' <=> Somewhere(g) \/ g = f
    BY <1>1, <1>3, <1>4, PushedSomewhere DEF Called, ItTypeOK, Stacks, FrameSet
  <2>2. \A y : y # x => ItFrame("join", y) # f
    BY <1>2, FrameFields
  <2>3. ~Somewhere(ItFrame("join", x))
    BY <1>1, <1>10, FrameFields DEF ItIInv, JoinsAreMarked, Somewhere
  <2>. QED BY <1>2, <2>1, <2>2, <2>3
<1>12. RunsAreMarked'
  <2>1. thread'[Main].state = thread[Main].state
    BY <1>6, <1>10, ItConstants
  <2>2. 1 \in Nat /\ 1 > 0
    OBVIOUS
  <2>. QED BY <1>7, <1>8, <1>10, <2>1, <2>2, BottomStays
<1>13. JoinsAreMarked'
  <2>1. \A g \in {f} :
          /\ g.at \in {"join", "join_wait"} => Is(g.x, "JOINED")'
          /\ g.at = "detached" => Is(g.x, "DETACHED")'
          /\ g.at = "detach" => obj'[p][g.x] > 0 \/ g.x = p
          /\ g.at \in Takes => Callable(g.x)' \/ Somewhere(ItFrame("join", g.x))'
          /\ g.at = "join" =>
               ~Somewhere(g) /\ \A k, l \in 1..Len(stack'[p]) : k > 1 /\ l > 1 => k = l
    BY <1>2, <1>4, <1>6, <1>11, WalkLabels DEF Is
  <2>2. \A q, y \in Actor : ~(obj'[q][y] < obj[q][y])
    BY <1>1, OrdinaryRest
  <2>3. \A y \in Actor : Callable(y) \/ Somewhere(ItFrame("join", y)) =>
                           Callable(y)' \/ Somewhere(ItFrame("join", y))'
    BY <1>6, <1>11 DEF Callable
  <2>. QED BY <1>7, <1>8, <2>1, <2>2, <2>3, JoinsStay
<1>14. CountersAreRight'
  <2>1. Viable' = Viable
    BY <1>7, <1>8, OrdinaryKeepsPlaces
  <2>2. Viable \subseteq Actor
    BY <1>1, Typed DEF Viable
  <2>3. ASSUME NEW y \in Viable
        PROVE  /\ Is(y, "FINISHED")' <=> Is(y, "FINISHED")
               /\ Is(y, "DETACHED")' <=> Is(y, "DETACHED")
               /\ (Is(y, "JOINED") /\ ~Somewhere(ItFrame("join", y)))' <=>
                    Is(y, "JOINED") /\ ~Somewhere(ItFrame("join", y))
    BY <1>10, <1>11, <2>2
  <2>. QED BY <1>1, <1>4, <2>1, <2>3, CountersStay
<1>15. CountsReferences'
  <2>1. /\ \A y : y # x => Held(stack', y) = Held(stack, y)
        /\ Held(stack', x) = Held(stack, x) + 1
    <3>1. \A y : Weight(f, y) = IF x = y THEN 1 ELSE 0
      BY <1>2, WeightIs DEF Owners, Owning, OwningTwo
    <3>2. \A y : Held(stack', y) = Held(stack, y) + Weight(f, y) /\ Held(stack, y) \in Nat
      BY <1>3 DEF Called
    <3>. QED BY <3>1, <3>2
  <2>2. Free1(x) = 1 /\ Free1(x)' = 0
    BY <1>1, <1>6 DEF Free1, Callable, UNCALLABLE
  <2>3. \A y \in Actor : y # x => Free1(y)' = Free1(y)
    BY <1>6 DEF Free1, Callable
  <2>4. \A y \in Actor : Is(y, "NONVIABLE") <=> "NONVIABLE" \in thread'[y].state
    BY <1>6 DEF Is
  <2>5. thread[x].count \in Nat /\ Number(obj, x) \in Nat /\ Held(stack, x) \in Nat
    BY <1>1, CountsAre, Typed
  <2>6. thread'[x].count - Free1(x)' - Number(obj', x) - Held(stack', x)
             = thread[x].count - Free1(x) - Number(obj, x) - Held(stack, x)
    BY <1>1, <1>6, <2>1, <2>2, <2>5
  <2>7. \A y \in Actor : y # x =>
           /\ thread'[y].count = thread[y].count
           /\ Free1(y)' = Free1(y)
           /\ Number(obj', y) + Held(stack', y) = Number(obj, y) + Held(stack, y)
    BY <1>1, <1>6, <2>1, <2>3
  <2>. QED BY <1>1, <1>7, <2>4, <2>6, <2>7, OneCountMoves
<1>. QED BY <1>4, <1>7, <1>8, <1>9, <1>12, <1>13, <1>14, <1>15, OrdinaryInvariant

\* A step that changes neither the state flags nor the counters.
LEMMA QuietStep ==
  ASSUME ItIInv, ItTypeOK', NEW p \in Actor, NEW m \in Nat, NEW F, Ordinary(p, m, F), m > 0,
         ShapeOf(stack'),
         \A x \in Actor : thread'[x].state = thread[x].state,
         pool'.running = pool.running, pool'.detached = pool.detached,
         pool'.joinable = pool.joinable, process' = process,
         Inner(p).at \notin {"gone", "join"},
         \A f \in F :
           /\ f.at # "join" /\ (f.at = "join_wait" => Is(f.x, "JOINED"))
           /\ f.at = "detached" => Is(f.x, "DETACHED")
           /\ f.at = "detach" => obj'[p][f.x] > 0 \/ f.x = p
           /\ f.at \in Takes => f.x \in Actor /\ Callable(f.x),
         \A q \in Actor, x \in Actor : obj'[q][x] < obj[q][x] =>
           \A k \in 1..Len(stack[q]) : stack[q][k].at # "detach",
         CountsReferences'
  PROVE  ItIInv'
<1>1. JoinsAreMarked' /\ CountersAreRight' /\ RunsAreMarked'
  BY StatesStay
<1>2. CleanedAlone'
  <2>1. stack[p] # <<>>
    BY OrdinaryNames
  <2>. QED BY <2>1, CleanedStays
<1>. QED BY <1>1, <1>2, OrdinaryInvariant

\* The pool's mutex changes hands, and nothing else of the pool.
LEMMA PoolMutexMoves ==
  ASSUME ItTypeOK, NEW q \in Actor \cup {NoActor}, pool' = [pool EXCEPT !.mutex = q]
  PROVE  /\ pool'.mutex = q /\ pool'.total = pool.total /\ pool'.running = pool.running
         /\ pool'.detached = pool.detached /\ pool'.joinable = pool.joinable
         /\ pool' \in [mutex : Actor \cup {NoActor}, running : Nat, joinable : Int,
                       detached : Nat, total : Nat]
  BY DEF ItTypeOK

\* detach takes the pool's mutex, and the walks of list and object do.
LEMMA DetachKeeps ==
  ASSUME ItIInv, NEW p \in Actor, NEW x \in Actor, Detach(p, x) PROVE ItIInv'
<1>1. /\ ItTypeOK /\ Now(p, "code") /\ Push(p, "detach", x) /\ (obj[p][x] > 0 \/ x = p)
      /\ PoolUnlocked /\ pool' = [pool EXCEPT !.mutex = p]
      /\ UNCHANGED <<itScenario, thread, list, obj, tid_counter, freed, process>>
  BY DEF ItIInv, Detach, InCode
<1>2. PICK f : f = ItFrame("detach", x) /\ f.at = "detach" /\ f.x = x
  BY FrameFields
<1>3. Called(p, f)
  <2>1. "detach" \in OnCode \cup OnClear
    BY DEF OnCode
  <2>. QED BY <1>1, <1>2, <2>1, Calls
<1>4. /\ stack' \in Stacks /\ ShapeOf(stack') /\ stack[p] # <<>> /\ Inner(p).at = "code"
      /\ Len(stack[p]) = 1
  BY <1>3 DEF Called
<1>5. Common(x)
  BY <1>1, <1>4, ObjectIsCommon, RunnerIsCommon
<1>6. /\ pool'.mutex = p /\ pool'.total = pool.total /\ pool'.running = pool.running
      /\ pool'.detached = pool.detached /\ pool'.joinable = pool.joinable
  BY <1>1, PoolMutexMoves
<1>7. ItTypeOK'
  BY <1>1, <1>4, ThreadsTyped, TypeStays
<1>8. Ordinary(p, 1, {f})
  <2>1. OrdinaryFrames(p, 1, {f})
    BY <1>2, <1>3, <1>5, <1>6, WalkLabels
    DEF OrdinaryFrames, Special, Ends, Called, Owners, Owning, OwningTwo, Running
  <2>2. OrdinaryPool(p, 1) /\ OrdinaryObjects /\ OrdinaryThreads
    BY <1>1, <1>6, OrdinaryRest
  <2>. QED BY <1>1, <2>1, <2>2 DEF Ordinary
<1>9. CountsReferences'
  <2>1. \A y : Held(stack', y) = Held(stack, y)
    <3>1. \A y : Weight(f, y) = 0
      BY <1>2, WeightIs DEF Owners, Owning, OwningTwo, Running
    <3>2. \A y : Held(stack', y) = Held(stack, y) + Weight(f, y) /\ Held(stack, y) \in Nat
      BY <1>3 DEF Called
    <3>. QED BY <3>1, <3>2
  <2>. QED BY <1>1, <1>7, <2>1, CountsStay DEF Known, Created
<1>10. \A g \in {f} :
         /\ g.at # "join" /\ (g.at = "join_wait" => Is(g.x, "JOINED"))
         /\ g.at = "detached" => Is(g.x, "DETACHED")
         /\ g.at = "detach" => obj'[p][g.x] > 0 \/ g.x = p
         /\ g.at \in Takes => g.x \in Actor /\ Callable(g.x)
  BY <1>1, <1>2, WalkLabels
<1>11. \A q, y \in Actor : ~(obj'[q][y] < obj[q][y])
  BY <1>1, OrdinaryRest
<1>12. 1 \in Nat /\ 1 > 0
  OBVIOUS
<1>. QED BY <1>1, <1>4, <1>6, <1>7, <1>8, <1>9, <1>10, <1>11, <1>12, QuietStep

\* In a walk, or at its start, p meets no thread that is being made or doomed.
LEMMA ListedIsCommon ==
  ASSUME ItIInv, QuietFailure, NEW p \in Actor, pool.mutex \in {NoActor, p},
         \A k \in 1..Len(stack[p]) : stack[p][k].at \notin Special \cup {"free"},
         itScenario[p] \cap {"list", "object"} # {}, NEW x \in Listed
  PROVE  Common(x) /\ x \in Actor
<1>1. x \in Actor /\ x \in Created
  <2>1. \A i \in DOMAIN list : list[i] \in Tid
    BY DEF ItIInv, ItTypeOK
  <2>2. x \in Actor
    BY <2>1, ItConstants DEF Listed
  <2>. QED BY <2>2 DEF ItIInv, ListIsRight
<1>2. ~Somewhere(ItFrame("clone", x))
  <2>1. SUFFICES ASSUME NEW q \in Actor, NEW k \in 1..Len(stack[q]),
                        stack[q][k] = ItFrame("clone", x)
                 PROVE  FALSE
    BY DEF Somewhere
  <2>2. stack[q][k].at = "clone"
    BY <2>1, FrameFields
  <2>3. pool.mutex = q
    BY <2>2 DEF ItIInv, PoolIsHeld
  <2>4. q = p
    BY <2>3, ItConstants
  <2>. QED BY <2>2, <2>4 DEF Special
<1>3. ~Doomed(x)
  <2>1. SUFFICES ASSUME Doomed(x) PROVE FALSE
    OBVIOUS
  <2>2. PICK q \in Actor : DoomedBy(q, x)
    BY <1>1, <2>1 DEF ItIInv, DoomedIsAlone
  <2>3. q = p
    BY <2>2 DEF QuietFailure, ItIInv, ItTypeOK, DoomedBy
  <2>4. Len(stack[p]) > 1 /\ stack[p][2].at \in {"nonviable", "free", "unlink"}
    BY <2>2, <2>3 DEF DoomedBy
  <2>5. 2 \in 1..Len(stack[p])
    BY <2>4, Typed DEF ItIInv
  <2>. QED BY <2>4, <2>5 DEF Special, Ends
<1>. QED BY <1>1, <1>2, <1>3 DEF Common, Known

LEMMA WalkKeeps ==
  ASSUME ItIInv, QuietFailure, NEW p \in Actor, NEW want \in Walks, NEW x \in Actor,
         Walk(p, want, x)
  PROVE  ItIInv'
<1>1. /\ ItTypeOK /\ Now(p, "code") /\ Push(p, want, x) /\ list # <<>>
      /\ x \in Listed /\ itScenario[p] \cap {"list", "object"} # {}
      /\ PoolUnlocked /\ pool' = [pool EXCEPT !.mutex = p]
      /\ UNCHANGED <<itScenario, thread, list, obj, tid_counter, freed, process>>
  <2>1. want = "object" \/ x = list[1]
    BY DEF Walk
  <2>2. list # <<>> /\ list \in Seq(Tid)
    BY DEF Walk, ItIInv, ItTypeOK
  <2>3. 1 \in DOMAIN list
    BY <2>2
  <2>4. x \in Listed
    BY <2>1, <2>3 DEF Walk, Listed
  <2>. QED BY <2>4 DEF ItIInv, Walk, InCode
<1>2. PICK f : f = ItFrame(want, x) /\ f.at = want /\ f.x = x
  BY FrameFields
<1>3. Called(p, f)
  <2>1. want \in OnCode \cup OnClear
    BY DEF OnCode
  <2>. QED BY <1>1, <1>2, <2>1, Calls
<1>4. /\ stack' \in Stacks /\ ShapeOf(stack') /\ stack[p] # <<>> /\ Inner(p).at = "code"
      /\ Len(stack[p]) = 1
  BY <1>3 DEF Called
<1>5. Common(x)
  <2>1. stack[p][1].at = "code"
    BY <1>4 DEF Inner
  <2>2. \A k \in 1..Len(stack[p]) : stack[p][k].at \notin Special \cup {"free"}
    BY <1>4, <2>1 DEF Special, Ends
  <2>. QED BY <1>1, <2>2, ListedIsCommon DEF PoolUnlocked
<1>6. /\ pool'.mutex = p /\ pool'.total = pool.total /\ pool'.running = pool.running
      /\ pool'.detached = pool.detached /\ pool'.joinable = pool.joinable
  BY <1>1, PoolMutexMoves
<1>7. ItTypeOK'
  BY <1>1, <1>4, ThreadsTyped, TypeStays
<1>8. Ordinary(p, 1, {f})
  <2>1. OrdinaryFrames(p, 1, {f})
    BY <1>1, <1>2, <1>3, <1>5, <1>6, WalkLabels
    DEF OrdinaryFrames, Special, Ends, Called, Owners, Owning, OwningTwo, Running
  <2>2. OrdinaryPool(p, 1) /\ OrdinaryObjects /\ OrdinaryThreads
    BY <1>1, <1>6, OrdinaryRest
  <2>. QED BY <1>1, <2>1, <2>2 DEF Ordinary
<1>9. CountsReferences'
  <2>1. \A y : Held(stack', y) = Held(stack, y)
    <3>1. \A y : Weight(f, y) = 0
      BY <1>2, WeightIs, WalkLabels DEF Owners, Owning, OwningTwo, Running
    <3>2. \A y : Held(stack', y) = Held(stack, y) + Weight(f, y) /\ Held(stack, y) \in Nat
      BY <1>3 DEF Called
    <3>. QED BY <3>1, <3>2
  <2>. QED BY <1>1, <1>7, <2>1, CountsStay DEF Known, Created
<1>10. \A g \in {f} :
         /\ g.at # "join" /\ (g.at = "join_wait" => Is(g.x, "JOINED"))
         /\ g.at = "detached" => Is(g.x, "DETACHED")
         /\ g.at = "detach" => obj'[p][g.x] > 0 \/ g.x = p
         /\ g.at \in Takes => g.x \in Actor /\ Callable(g.x)
  BY <1>1, <1>2, WalkLabels
<1>11. \A q, y \in Actor : ~(obj'[q][y] < obj[q][y])
  BY <1>1, OrdinaryRest
<1>12. 1 \in Nat /\ 1 > 0
  OBVIOUS
<1>. QED BY <1>1, <1>4, <1>6, <1>7, <1>8, <1>9, <1>10, <1>11, <1>12, QuietStep

\* An object for x goes, or comes.
LEMMA ObjectGoes ==
  ASSUME ItTypeOK, NEW i \in Actor, NEW x \in Actor, obj[i][x] > 0,
         obj' = [obj EXCEPT ![i][x] = obj[i][x] - 1]
  PROVE  /\ obj' \in [Actor -> [Actor -> Nat]] /\ obj'[i][x] = obj[i][x] - 1
         /\ \A j, y \in Actor : j # i \/ y # x => obj'[j][y] = obj[j][y]
         /\ Number(obj', x) = Number(obj, x) - 1
         /\ \A y \in Actor : y # x => Number(obj', y) = Number(obj, y)
         /\ \A y \in Actor : Number(obj, y) \in Nat
<1>1. obj[i][x] \in Nat
  BY Typed
<1>2. PICK a \in Nat : a = obj[i][x] - 1
  BY <1>1
<1>3. obj' = [obj EXCEPT ![i][x] = a]
  BY <1>2
<1>4. /\ obj' \in [Actor -> [Actor -> Nat]] /\ obj'[i][x] = a
      /\ \A j, y \in Actor : j # i \/ y # x => obj'[j][y] = obj[j][y]
      /\ Number(obj', x) = Number(obj, x) - obj[i][x] + a
      /\ \A y \in Actor : y # x => Number(obj', y) = Number(obj, y)
      /\ \A y \in Actor : Number(obj, y) \in Nat
  BY ONLY ItTypeOK, <1>3, ObjectMoves, i \in Actor, x \in Actor, a \in Nat, ZenonT(40)
<1>5. Number(obj', x) = Number(obj, x) - 1
  BY <1>1, <1>2, <1>4
<1>. QED BY <1>2, <1>4, <1>5

LEMMA ObjectComes ==
  ASSUME ItTypeOK, NEW i \in Actor, NEW x \in Actor,
         obj' = [obj EXCEPT ![i][x] = obj[i][x] + 1]
  PROVE  /\ obj' \in [Actor -> [Actor -> Nat]] /\ obj'[i][x] = obj[i][x] + 1
         /\ \A j, y \in Actor : j # i \/ y # x => obj'[j][y] = obj[j][y]
         /\ Number(obj', x) = Number(obj, x) + 1
         /\ \A y \in Actor : y # x => Number(obj', y) = Number(obj, y)
         /\ \A y \in Actor : Number(obj, y) \in Nat
<1>1. obj[i][x] \in Nat
  BY Typed
<1>2. PICK a \in Nat : a = obj[i][x] + 1
  BY <1>1
<1>3. obj' = [obj EXCEPT ![i][x] = a]
  BY <1>2
<1>4. /\ obj' \in [Actor -> [Actor -> Nat]] /\ obj'[i][x] = a
      /\ \A j, y \in Actor : j # i \/ y # x => obj'[j][y] = obj[j][y]
      /\ Number(obj', x) = Number(obj, x) - obj[i][x] + a
      /\ \A y \in Actor : y # x => Number(obj', y) = Number(obj, y)
      /\ \A y \in Actor : Number(obj, y) \in Nat
  BY ONLY ItTypeOK, <1>3, ObjectMoves, i \in Actor, x \in Actor, a \in Nat, ZenonT(40)
<1>5. Number(obj', x) = Number(obj, x) + 1
  BY <1>1, <1>2, <1>4
<1>. QED BY <1>2, <1>4, <1>5

LEMMA ObjectsLess ==
  ASSUME ItTypeOK, NEW i \in Actor, NEW x \in Actor, obj[i][x] > 0,
         obj' = [obj EXCEPT ![i][x] = obj[i][x] - 1]
  PROVE  /\ OrdinaryObjects
         /\ \A q, y \in Actor : obj'[q][y] < obj[q][y] => q = i /\ y = x
<1>1. /\ obj'[i][x] = obj[i][x] - 1 /\ obj[i][x] - 1 \in Nat
      /\ \A j, y \in Actor : j # i \/ y # x => obj'[j][y] = obj[j][y]
  <2>1. obj \in [Actor -> [Actor -> Nat]]
    BY DEF ItTypeOK
  <2>. QED BY ONLY <2>1, i \in Actor, x \in Actor, obj[i][x] > 0,
               obj' = [obj EXCEPT ![i][x] = obj[i][x] - 1]
<1>2. ASSUME NEW q \in Actor, NEW y \in Actor
      PROVE  /\ obj'[q][y] \in Nat /\ ~(obj'[q][y] > obj[q][y])
             /\ obj'[q][y] < obj[q][y] => q = i /\ y = x
  <2>1. obj[q][y] \in Nat
    BY Typed
  <2>. QED BY <1>1, <2>1
<1>. QED BY <1>2 DEF OrdinaryObjects

\* The thread object goes, and its reference is in the frame.
LEMMA ReferenceMoves ==
  ASSUME ItIInv, ItTypeOK', NEW i \in Actor, NEW x \in Actor, obj[i][x] > 0,
         obj' = [obj EXCEPT ![i][x] = obj[i][x] - 1], UNCHANGED <<thread, tid_counter>>,
         NEW f, f = ItFrame("drop", x),
         \A y : Held(stack', y) = Held(stack, y) + Weight(f, y) /\ Held(stack, y) \in Nat
  PROVE  CountsReferences'
<1>1. \A y : Weight(f, y) = IF x = y THEN 1 ELSE 0
  BY WeightIs DEF Owners, Owning, OwningTwo
<1>2. /\ Number(obj', x) = Number(obj, x) - 1
      /\ \A y \in Actor : y # x => Number(obj', y) = Number(obj, y)
      /\ \A y \in Actor : Number(obj, y) \in Nat
  BY ObjectGoes, ZenonT(40) DEF ItIInv
<1>3. ASSUME NEW y \in Actor
      PROVE  Number(obj', y) + Held(stack', y) = Number(obj, y) + Held(stack, y)
  <2>1. Held(stack', y) = Held(stack, y) + (IF x = y THEN 1 ELSE 0) /\ Held(stack, y) \in Nat
    BY <1>1
  <2>2. Number(obj', y) = Number(obj, y) - (IF x = y THEN 1 ELSE 0) /\ Number(obj, y) \in Nat
    <3>1. CASE x = y
      BY <1>2, <3>1
    <3>2. CASE x # y
      <4>1. Number(obj', y) = Number(obj, y) /\ Number(obj, y) \in Nat
        BY <1>2, <3>2
      <4>. QED BY <3>2, <4>1
    <3>. QED BY <3>1, <3>2
  <2>. QED BY <2>1, <2>2
<1>. QED BY <1>3, CountsStay DEF Known, Created

\* DESTROY takes the program's object away and starts to clear the thread.
LEMMA DestroyKeeps ==
  ASSUME ItIInv, NEW p \in Actor, NEW x \in Actor, Destroy(p, x) PROVE ItIInv'
<1>1. /\ ItTypeOK /\ Now(p, "code") /\ Push(p, "drop", x) /\ obj[p][x] > 0
      /\ obj' = [obj EXCEPT ![p][x] = obj[p][x] - 1]
      /\ UNCHANGED <<itScenario, thread, pool, list, tid_counter, freed, process>>
  BY DEF ItIInv, Destroy, InCode
<1>2. PICK f : f = ItFrame("drop", x) /\ f.at = "drop" /\ f.x = x
  BY FrameFields
<1>3. Called(p, f)
  <2>1. "drop" \in OnCode \cup OnClear
    BY DEF OnClear
  <2>. QED BY <1>1, <1>2, <2>1, Calls
<1>4. /\ stack' \in Stacks /\ ShapeOf(stack') /\ stack[p] # <<>> /\ Inner(p).at = "code"
      /\ Len(stack[p]) = 1
  BY <1>3 DEF Called
<1>5. Common(x) /\ ~Unreferenced(x)
  BY <1>1, ObjectIsCommon
<1>6. OrdinaryObjects /\ \A q, y \in Actor : obj'[q][y] < obj[q][y] => q = p /\ y = x
  BY <1>1, ObjectsLess
<1>7. ItTypeOK'
  <2>1. obj' \in [Actor -> [Actor -> Nat]]
    BY <1>1, ObjectGoes
  <2>. QED BY <1>1, <1>4, <2>1 DEF ItTypeOK, Stacks, FrameSet
<1>8. Ordinary(p, 1, {f})
  <2>1. OrdinaryFrames(p, 1, {f})
    BY <1>2, <1>3, <1>5, WalkLabels DEF OrdinaryFrames, Special, Ends, Called, HavePool
  <2>2. OrdinaryPool(p, 1) /\ OrdinaryThreads
    BY <1>1, OrdinaryRest
  <2>. QED BY <1>1, <1>6, <2>1, <2>2 DEF Ordinary
<1>9. CountsReferences'
  <2>1. \A y : Held(stack', y) = Held(stack, y) + Weight(f, y) /\ Held(stack, y) \in Nat
    BY <1>3 DEF Called
  <2>. QED BY <1>1, <1>2, <1>7, <2>1, ReferenceMoves
<1>10. \A g \in {f} :
         /\ g.at # "join" /\ (g.at = "join_wait" => Is(g.x, "JOINED"))
         /\ g.at = "detached" => Is(g.x, "DETACHED")
         /\ g.at = "detach" => obj'[p][g.x] > 0 \/ g.x = p
         /\ g.at \in Takes => g.x \in Actor /\ Callable(g.x)
  BY <1>2, WalkLabels
<1>11. \A q, y \in Actor : obj'[q][y] < obj[q][y] =>
         \A k \in 1..Len(stack[q]) : stack[q][k].at # "detach"
  <2>1. stack[p][1].at = "code"
    BY <1>4 DEF Inner
  <2>2. \A k \in 1..Len(stack[p]) : stack[p][k].at # "detach"
    BY <1>4, <2>1
  <2>. QED BY <1>6, <2>2
<1>12. 1 \in Nat /\ 1 > 0
  OBVIOUS
<1>. QED BY <1>1, <1>4, <1>7, <1>8, <1>9, <1>10, <1>11, <1>12, QuietStep

\* The count of x, which has another object for it in p.
LEMMA CountMoves ==
  ASSUME ItTypeOK, NEW x \in Actor, NEW q \in Actor \cup {NoActor}, NEW c \in Nat,
         thread' = [thread EXCEPT ![x].mutex = q, ![x].count = c]
  PROVE  /\ thread' \in Threads /\ thread'[x].count = c
         /\ \A y \in Actor : /\ thread'[y].state = thread[y].state
                             /\ thread'[y].interp = thread[y].interp
                             /\ y # x => thread'[y].count = thread[y].count
<1>1. thread \in Threads
  BY DEF ItTypeOK, Threads
<1>2. PICK t : t = [[thread[x] EXCEPT !.mutex = q] EXCEPT !.count = c]
  OBVIOUS
<1>3. thread' = [thread EXCEPT ![x] = t]
  BY <1>1, <1>2
<1>4. /\ t \in [count : Nat, state : SUBSET Flags, interp : {"none", "live"},
                mutex : Actor \cup {NoActor}]
      /\ t.state = thread[x].state /\ t.count = c /\ t.interp = thread[x].interp
  BY <1>1, <1>2 DEF Threads
<1>5. thread'[x] = t /\ \A y \in Actor : y # x => thread'[y] = thread[y]
  BY ONLY <1>1, <1>3, x \in Actor DEF Threads
<1>6. thread' \in Threads
  BY ONLY <1>1, <1>3, <1>4, x \in Actor DEF Threads
<1>7. ASSUME NEW y \in Actor
      PROVE  /\ thread'[y].state = thread[y].state
             /\ thread'[y].interp = thread[y].interp
             /\ y # x => thread'[y].count = thread[y].count
  <2>1. CASE y = x
    BY ONLY <1>4, <1>5, <2>1
  <2>2. CASE y # x
    BY ONLY <1>5, <2>2, y \in Actor
  <2>. QED BY ONLY <2>1, <2>2
<1>8. thread'[x].count = c
  BY ONLY <1>4, <1>5
<1>. QED BY ONLY <1>6, <1>7, <1>8

LEMMA CountGrows ==
  ASSUME ItTypeOK, NEW x \in Actor,
         thread' = [thread EXCEPT ![x].count = thread[x].count + 1]
  PROVE  /\ thread' \in Threads /\ thread'[x].count = thread[x].count + 1
         /\ \A y \in Actor : /\ thread'[y].state = thread[y].state
                             /\ y # x => thread'[y].count = thread[y].count
<1>1. thread \in Threads
  BY DEF ItTypeOK, Threads
<1>2. PICK t : t = [thread[x] EXCEPT !.count = thread[x].count + 1]
  OBVIOUS
<1>3. thread' = [thread EXCEPT ![x] = t]
  BY <1>1, <1>2
<1>4. /\ t \in [count : Nat, state : SUBSET Flags, interp : {"none", "live"},
                mutex : Actor \cup {NoActor}]
      /\ t.state = thread[x].state /\ t.count = thread[x].count + 1
  BY <1>1, <1>2 DEF Threads
<1>. QED BY <1>1, <1>3, <1>4 DEF Threads

\* What NewObject does to the structures and the objects.
LEMMA NewObjectIs ==
  ASSUME ItIInv, NEW p \in Actor, stack[p] # <<>>, NEW x \in Actor, NewObject(p, x),
         Common(x), ~Unreferenced(x)
  PROVE  /\ thread' \in Threads /\ thread'[x].count = thread[x].count + 1
         /\ \A y \in Actor : /\ thread'[y].state = thread[y].state
                             /\ y # x => thread'[y].count = thread[y].count
         /\ obj' \in [Actor -> [Actor -> Nat]] /\ Number(obj', x) = Number(obj, x) + 1
         /\ \A y \in Actor : y # x => Number(obj', y) = Number(obj, y)
         /\ \A y \in Actor : Number(obj, y) \in Nat
         /\ OrdinaryObjects /\ OrdinaryThreads
         /\ \A q, y \in Actor : ~(obj'[q][y] < obj[q][y])
<1>1. /\ ItTypeOK /\ thread' = [thread EXCEPT ![x].count = thread[x].count + 1]
      /\ obj' = [obj EXCEPT ![p][x] = obj[p][x] + 1]
  BY DEF NewObject, ItIInv
<1>2. /\ thread' \in Threads /\ thread'[x].count = thread[x].count + 1
      /\ \A y \in Actor : /\ thread'[y].state = thread[y].state
                          /\ y # x => thread'[y].count = thread[y].count
  BY <1>1, CountGrows
<1>3. /\ obj' \in [Actor -> [Actor -> Nat]] /\ obj'[p][x] = obj[p][x] + 1
      /\ \A j, y \in Actor : j # p \/ y # x => obj'[j][y] = obj[j][y]
      /\ Number(obj', x) = Number(obj, x) + 1
      /\ \A y \in Actor : y # x => Number(obj', y) = Number(obj, y)
      /\ \A y \in Actor : Number(obj, y) \in Nat
  BY <1>1, ObjectComes
<1>4. ASSUME NEW q \in Actor, NEW y \in Actor
      PROVE  /\ obj'[q][y] \in Nat /\ ~(obj'[q][y] < obj[q][y])
             /\ obj'[q][y] > obj[q][y] => q = p /\ y = x
  <2>1. obj[q][y] \in Nat
    BY <1>1, Typed
  <2>2. CASE q = p /\ y = x
    BY <1>3, <2>1, <2>2
  <2>3. CASE q # p \/ y # x
    <3>1. obj'[q][y] = obj[q][y]
      BY <1>3, <2>3
    <3>. QED BY <2>1, <3>1
  <2>. QED BY <2>2, <2>3
<1>5. p \in Known /\ ~Somewhere(ItFrame("clone", p))
  BY RunnerIsCommon
<1>6. OrdinaryObjects
  BY <1>4, <1>5 DEF OrdinaryObjects
<1>7. OrdinaryThreads
  BY <1>2, OrdinaryRest
<1>. QED BY <1>2, <1>3, <1>4, <1>6, <1>7

\* ... and that it counts right.
LEMMA NewObjectCounts ==
  ASSUME ItIInv, ItTypeOK', NEW p \in Actor, stack[p] # <<>>, NEW x \in Actor, NewObject(p, x),
         Common(x), ~Unreferenced(x), UNCHANGED tid_counter,
         \A y : Held(stack', y) = Held(stack, y)
  PROVE  CountsReferences'
<1>1. /\ thread' \in Threads /\ thread'[x].count = thread[x].count + 1
      /\ \A y \in Actor : /\ thread'[y].state = thread[y].state
                          /\ y # x => thread'[y].count = thread[y].count
      /\ Number(obj', x) = Number(obj, x) + 1
      /\ \A y \in Actor : y # x => Number(obj', y) = Number(obj, y)
      /\ \A y \in Actor : Number(obj, y) \in Nat
  BY NewObjectIs
<1>2. /\ thread[x].count \in Nat /\ Number(obj, x) \in Nat /\ Held(stack, x) \in Nat
      /\ Free1(x) \in {0, 1}
  BY CountsAre, Typed DEF ItIInv
<1>3. \A y \in Actor : Free1(y)' = Free1(y) /\ (Is(y, "NONVIABLE") <=> "NONVIABLE" \in thread'[y].state)
  BY <1>1 DEF Free1, Callable, Is
<1>4. thread'[x].count - Free1(x)' - Number(obj', x) - Held(stack', x)
        = thread[x].count - Free1(x) - Number(obj, x) - Held(stack, x)
  <2>1. thread'[x].count = thread[x].count + 1 /\ Number(obj', x) = Number(obj, x) + 1
        /\ Free1(x)' = Free1(x) /\ Held(stack', x) = Held(stack, x)
    BY <1>1, <1>3
  <2>. QED BY <1>2, <2>1, SMTT(40)
<1>5. \A y \in Actor : y # x =>
        /\ thread'[y].count = thread[y].count
        /\ Free1(y)' = Free1(y)
        /\ Number(obj', y) + Held(stack', y) = Number(obj, y) + Held(stack, y)
  BY <1>1, <1>3
<1>. QED BY <1>3, <1>4, <1>5, OneCountMoves

LEMMA SelfKeeps == ASSUME ItIInv, NEW p \in Actor, Self(p) PROVE ItIInv'
<1>1. /\ ItTypeOK /\ Now(p, "code") /\ NewObject(p, p)
      /\ UNCHANGED <<itScenario, pool, list, stack, tid_counter, freed, process>>
  BY DEF ItIInv, Self, InCode
<1>2. /\ Len(stack[p]) = 1 /\ Target(p) = p /\ stack[p] # <<>> /\ Inner(p).at = "code"
  BY <1>1, RunningPlace DEF Running
<1>3. Common(p) /\ ~Unreferenced(p)
  BY <1>1, <1>2, TopIsCommon DEF Ends, Owners, Owning, Running
<1>4. /\ thread' \in Threads /\ obj' \in [Actor -> [Actor -> Nat]]
      /\ \A y \in Actor : thread'[y].state = thread[y].state
      /\ OrdinaryObjects /\ OrdinaryThreads
      /\ \A q, y \in Actor : ~(obj'[q][y] < obj[q][y])
  BY <1>1, <1>2, <1>3, NewObjectIs
<1>5. ItTypeOK'
  BY <1>1, <1>4 DEF ItTypeOK, Threads
<1>6. stack' \in Stacks /\ ShapeOf(stack')
  BY <1>1, ShapeIs DEF ItIInv, ItTypeOK, Stacks, FrameSet
<1>7. Ordinary(p, 1, {})
  <2>1. Changed(stack, stack', p, 1, {})
    <3>1. \A k \in 1..Len(stack[p]) : k <= 1
      BY <1>2
    <3>. QED BY <1>1, <3>1 DEF Changed
  <2>2. OrdinaryFrames(p, 1, {})
    BY <1>1, <1>2, <1>6, <2>1 DEF OrdinaryFrames
  <2>3. OrdinaryPool(p, 1)
    BY <1>1, OrdinaryRest
  <2>. QED BY <1>1, <1>4, <2>2, <2>3 DEF Ordinary
<1>8. CountsReferences'
  BY <1>1, <1>2, <1>3, <1>5, NewObjectCounts
<1>9. 1 \in Nat /\ 1 > 0
  OBVIOUS
<1>. QED BY <1>1, <1>2, <1>4, <1>5, <1>6, <1>7, <1>8, <1>9, QuietStep

\* x was joined or detached: its reference goes to the frame that frees it.
LEMMA ToFreeKeeps ==
  ASSUME ItIInv, NEW p \in Actor, NEW was \in {"join_wait", "detached"}, Now(p, was),
         NEW x \in Actor, x = Target(p), ~Callable(x),
         \/ Goto(p, "free") /\ thread' = [thread EXCEPT ![x].mutex = p]
         \/ Is(x, "FINISHED") /\ LockAndClear(p, x, "free"),
         UNCHANGED <<itScenario, pool, list, obj, tid_counter, freed, process>>
  PROVE  ItIInv'
<1>1. ItTypeOK /\ thread' = [thread EXCEPT ![x].mutex = p] /\ was \in OnCode
  BY DEF ItIInv, LockAndClear, OnCode
<1>2. PICK f : f = ItFrame("free", x) /\ f.at = "free" /\ f.x = x
  BY FrameFields
<1>3. PICK h : h = ItFrame("clear", x) /\ h.at = "clear" /\ h.x = x
  BY FrameFields
<1>4. PICK g : g = ItFrame(was, x) /\ g.at = was /\ g.x = x
  BY FrameFields
<1>5. PICK F : /\ F = {f} \/ (F = {f, h} /\ Is(x, "FINISHED"))
               /\ stack' \in Stacks /\ Changed(stack, stack', p, 1, F)
               /\ \A q \in Actor : q # p => stack'[q] = stack[q]
               /\ ShapeOf(stack') /\ Len(stack[p]) = 2
               /\ stack[p] # <<>> /\ Inner(p).at = was
               /\ HeldMoves(g, f)
  <2>1. CASE Goto(p, "free")
    <3>1. GotoAt(p, "free", x) /\ "free" \in OnCode
      BY <2>1 DEF Goto, OnCode
    <3>2. Continued(p, ItFrame(was, Target(p)), f)
      BY <1>1, <1>2, <3>1, Continues
    <3>. QED BY <1>4, <3>2 DEF Continued, Relabeled
  <2>2. CASE Is(x, "FINISHED") /\ LockAndClear(p, x, "free")
    <3>1. ClearCalled(p, ItFrame(was, Target(p)), f, h)
      BY <1>1, <1>2, <1>3, <2>2, ClearCalls
    <3>. QED BY <1>4, <2>2, <3>1 DEF ClearCalled
  <2>. QED BY <2>1, <2>2
<1>6. Common(x) /\ ~Unreferenced(x)
  <2>1. /\ was \notin {"clone", "nonviable", "free", "clear"} \cup Ends
        /\ was \in Owners
    BY DEF Ends, Owners, Owning
  <2>. QED BY <2>1, TopIsCommon
<1>7. /\ thread' \in Threads
      /\ \A y \in Actor : thread'[y].state = thread[y].state /\ thread'[y].count = thread[y].count
  BY <1>1, MutexMoves
<1>8. ItTypeOK'
  BY <1>1, <1>5, <1>7, TypeStays
<1>9. Ordinary(p, 1, F)
  <2>1. \A e \in F : /\ e.x = x /\ e.at \in {"free", "clear"}
                     /\ e.at = "clear" => Is(x, "FINISHED")
    BY <1>2, <1>3, <1>5
  <2>2. OrdinaryFrames(p, 1, F)
    BY <1>5, <1>6, <2>1, WalkLabels DEF OrdinaryFrames, Special, Ends, Common, HavePool
  <2>3. OrdinaryPool(p, 1) /\ OrdinaryThreads /\ OrdinaryObjects
    BY <1>1, <1>7, OrdinaryRest
  <2>. QED BY <2>2, <2>3 DEF Ordinary
<1>10. CountsReferences'
  <2>1. \A y : Held(stack', y) = Held(stack, y)
    <3>1. \A y : Weight(f, y) = Weight(g, y) /\ Weight(f, y) \in {0, 1, 2}
      BY <1>2, <1>4, WeightIs DEF Owners, Owning, OwningTwo
    <3>2. \A y : Held(stack', y) = Held(stack, y) - Weight(g, y) + Weight(f, y)
                 /\ Held(stack, y) \in Nat
      BY <1>5 DEF HeldMoves
    <3>. QED BY <3>1, <3>2
  <2>. QED BY <1>7, <1>8, <2>1, CountsStay DEF Known, Created
<1>11. \A e \in F :
         /\ e.at # "join" /\ (e.at = "join_wait" => Is(e.x, "JOINED"))
         /\ e.at = "detached" => Is(e.x, "DETACHED")
         /\ e.at = "detach" => obj'[p][e.x] > 0 \/ e.x = p
         /\ e.at \in Takes => e.x \in Actor /\ Callable(e.x)
  BY <1>2, <1>3, <1>5, WalkLabels
<1>12. \A q, y \in Actor : ~(obj'[q][y] < obj[q][y])
  BY OrdinaryRest
<1>13. 1 \in Nat /\ 1 > 0
  OBVIOUS
<1>. QED BY <1>5, <1>7, <1>8, <1>9, <1>10, <1>11, <1>12, <1>13, QuietStep

LEMMA JoinWaitKeeps == ASSUME ItIInv, NEW p \in Actor, JoinWait(p) PROVE ItIInv'
<1>1. PICK x \in Actor : x = Target(p)
  BY TopFrame DEF JoinWait, ItIInv
<1>2. /\ Now(p, "join_wait") /\ stack[x] = <<>>
      /\ \/ Goto(p, "free") /\ thread' = [thread EXCEPT ![x].mutex = p]
         \/ LockAndClear(p, x, "free")
      /\ UNCHANGED <<itScenario, pool, list, obj, tid_counter, freed, process>>
  BY <1>1 DEF JoinWait
<1>3. Common(x) /\ ~Unreferenced(x)
  <2>1. "join_wait" \notin {"clone", "nonviable", "free", "clear"} \cup Ends /\ "join_wait" \in Owners
    BY DEF Ends, Owners, Owning
  <2>. QED BY <1>1, <1>2, <2>1, TopIsCommon
<1>4. Is(x, "JOINED")
  BY <1>1, <1>2, TopFrame DEF ItIInv, JoinsAreMarked
<1>5. Is(x, "FINISHED")
  BY <1>2, <1>3, <1>4 DEF ItIInv, RunsAreMarked, Common, Known, Is
<1>6. ~Callable(x)
  BY <1>4 DEF Callable, Is, UNCALLABLE
<1>. QED BY <1>1, <1>2, <1>5, <1>6, ToFreeKeeps

LEMMA DetachFreeKeeps == ASSUME ItIInv, NEW p \in Actor, DetachFree(p) PROVE ItIInv'
<1>1. PICK x \in Actor : x = Target(p)
  BY TopFrame DEF DetachFree, ItIInv
<1>2. /\ Now(p, "detached")
      /\ \/ Goto(p, "free") /\ thread' = [thread EXCEPT ![x].mutex = p]
         \/ Is(x, "FINISHED") /\ LockAndClear(p, x, "free")
      /\ UNCHANGED <<itScenario, pool, list, obj, tid_counter, freed, process>>
  BY <1>1 DEF DetachFree
<1>3. Is(x, "DETACHED")
  BY <1>1, <1>2, TopFrame DEF ItIInv, JoinsAreMarked
<1>4. ~Callable(x)
  BY <1>3 DEF Callable, Is, UNCALLABLE
<1>. QED BY <1>1, <1>2, <1>4, ToFreeKeeps

LEMMA PlaceIs ==
  ASSUME ItTypeOK, NEW x \in Listed
  PROVE  /\ Place(x) \in 1..Len(list) /\ list[Place(x)] = x /\ DOMAIN list = 1..Len(list)
         /\ Len(list) \in Nat
         /\ Place(x) # Len(list) => list[Place(x) + 1] \in Listed
<1>1. list \in Seq(Tid) /\ DOMAIN list = 1..Len(list) /\ Len(list) \in Nat
  BY DEF ItTypeOK
<1>2. \E i \in DOMAIN list : list[i] = x
  BY DEF Listed
<1>3. Place(x) \in DOMAIN list /\ list[Place(x)] = x
  BY <1>2 DEF Place
<1>4. ASSUME Place(x) # Len(list) PROVE list[Place(x) + 1] \in Listed
  <2>1. Place(x) + 1 \in DOMAIN list
    BY <1>1, <1>3, <1>4
  <2>. QED BY <2>1 DEF Listed
<1>. QED BY <1>1, <1>3, <1>4

\* What Advance leaves to show: the frames in F are new.
Advanced(p, F) ==
  /\ stack' \in Stacks /\ ShapeOf(stack') /\ stack[p] # <<>>
  /\ Inner(p).at \in Walks \cup Takes
  /\ OrdinaryFrames(p, 1, F) /\ OrdinaryPool(p, 1) /\ \A f \in F : f.at \in Walks
  /\ \A y : Held(stack', y) = Held(stack, y)
  /\ pool' \in [mutex : Actor \cup {NoActor}, running : Nat, joinable : Int,
                detached : Nat, total : Nat]
  /\ pool'.running = pool.running /\ pool'.detached = pool.detached
  /\ pool'.joinable = pool.joinable

LEMMA Advances ==
  ASSUME ItIInv, QuietFailure, NEW p \in Actor, NEW want \in Walks,
         NEW was \in {want, Taking[want]}, Now(p, was), Advance(p, want), UNCHANGED itScenario
  PROVE  \E F : Advanced(p, F)
<1>1. /\ ItTypeOK /\ was \in Walks \cup Takes /\ was \in OnCode /\ want \in OnCode
      /\ was \notin Special \cup {"free"} /\ want \notin Special \cup {"free"}
      /\ was \notin Owners /\ want \notin Owners
  BY WalkLabels DEF ItIInv, OnCode, Special, Ends, Owners, Owning, OwningTwo, Running
<1>2. PICK x \in Actor : x = Target(p)
  BY <1>1, TopFrame
<1>3. Len(stack[p]) = 2 /\ stack[p][1] = ItFrame("code", p)
  BY <1>1, CalledFrom
<1>4. /\ stack[p] # <<>> /\ Inner(p).at = was /\ stack[p][2] = ItFrame(was, x)
      /\ 2 \in 1..Len(stack[p])
  BY <1>1, <1>2, <1>3, TopFrame DEF Now
<1>5. x \in Listed /\ itScenario[p] \cap {"list", "object"} # {} /\ pool.mutex = p
  BY <1>1, <1>4, FrameFields DEF ItIInv, WalksAreInList, PoolIsHeld
<1>6. ~Doomed(x)
  <2>1. was \notin {"clone", "nonviable", "free", "clear"} \cup Ends
    BY <1>1, WalkLabels DEF Special
  <2>. QED BY <1>2, <2>1, TopIsCommon DEF Common
<1>7. CASE Pop(p) /\ pool' = [pool EXCEPT !.mutex = NoActor]
  <2>1. Returned(p, ItFrame(was, Target(p)))
    BY <1>1, <1>7, Returns
  <2>2. /\ pool' \in [mutex : Actor \cup {NoActor}, running : Nat, joinable : Int,
                      detached : Nat, total : Nat]
        /\ pool'.total = pool.total
        /\ pool'.running = pool.running /\ pool'.detached = pool.detached
        /\ pool'.joinable = pool.joinable
    <3>1. NoActor \in Actor \cup {NoActor}
      OBVIOUS
    <3>. QED BY <1>1, <1>7, <3>1, PoolMutexMoves
  <2>3. OrdinaryFrames(p, 1, {})
    BY <1>1, <1>2, <1>4, <1>6, <2>1 DEF OrdinaryFrames, Returned
  <2>4. OrdinaryPool(p, 1)
    <3>1. stack[p][1].at = "code"
      BY <1>3, FrameFields
    <3>2. \A k \in 1..Len(stack[p]) : k <= 1 => stack[p][k].at \notin HavePool
      BY <1>3, <3>1, WalkLabels DEF HavePool
    <3>. QED BY <1>5, <2>2, <3>2 DEF OrdinaryPool
  <2>5. \A y : Held(stack', y) = Held(stack, y)
    <3>1. \A y : Weight(ItFrame(was, Target(p)), y) = 0
      BY <1>1, WeightIs
    <3>2. \A y : Held(stack', y) = Held(stack, y) - Weight(ItFrame(was, Target(p)), y)
                 /\ Held(stack, y) \in Nat
      BY <2>1 DEF Returned
    <3>. QED BY <3>1, <3>2
  <2>6. Advanced(p, {})
    BY <1>1, <1>4, <2>1, <2>2, <2>3, <2>4, <2>5 DEF Advanced, Returned
  <2>. QED BY <2>6
<1>8. CASE ~(Pop(p) /\ pool' = [pool EXCEPT !.mutex = NoActor])
  <2>1. /\ Place(x) # Len(list) /\ GotoAt(p, want, list[Place(x) + 1]) /\ pool' = pool
    BY <1>2, <1>8 DEF Advance
  <2>2. PICK y : y = list[Place(x) + 1] /\ y \in Listed
    BY <1>1, <1>5, <2>1, PlaceIs
  <2>3. Common(y) /\ y \in Actor
    <3>1. \A k \in 1..Len(stack[p]) : stack[p][k].at \notin Special \cup {"free"}
      <4>1. stack[p][1].at = "code" /\ stack[p][2].at = was
        BY <1>3, <1>4, FrameFields
      <4>2. \A k \in 1..Len(stack[p]) : k = 1 \/ k = 2
        BY <1>3
      <4>. QED BY <1>1, <4>1, <4>2 DEF Special, Ends
    <3>. QED BY <1>5, <2>2, <3>1, ListedIsCommon
  <2>4. PICK f : f = ItFrame(want, y) /\ f.at = want /\ f.x = y
    BY FrameFields
  <2>5. Continued(p, ItFrame(was, Target(p)), f)
    <3>1. GotoAt(p, want, y) /\ f = ItFrame(want, y)
      BY <2>1, <2>2, <2>4
    <3>. QED BY <1>1, <2>3, <3>1, Continues
  <2>6. OrdinaryFrames(p, 1, {f})
    BY <1>1, <1>2, <1>4, <1>5, <1>6, <2>1, <2>2, <2>3, <2>4, <2>5, WalkLabels
    DEF OrdinaryFrames, Continued, Relabeled
  <2>7. OrdinaryPool(p, 1)
    BY <2>1 DEF OrdinaryPool
  <2>8. \A z : Held(stack', z) = Held(stack, z)
    <3>1. \A z : Weight(ItFrame(was, Target(p)), z) = 0 /\ Weight(f, z) = 0
      BY <1>1, <2>4, WeightIs
    <3>2. \A z : Held(stack', z) = Held(stack, z) - Weight(ItFrame(was, Target(p)), z)
                     + Weight(f, z)
                 /\ Held(stack, z) \in Nat
      BY <2>5 DEF Continued, Relabeled, HeldMoves
    <3>. QED BY <3>1, <3>2
  <2>9. pool' \in [mutex : Actor \cup {NoActor}, running : Nat, joinable : Int,
                   detached : Nat, total : Nat]
    BY <1>1, <2>1 DEF ItTypeOK
  <2>10. Advanced(p, {f})
    BY <1>1, <1>4, <2>1, <2>4, <2>5, <2>6, <2>7, <2>8, <2>9 DEF Advanced, Continued, Relabeled
  <2>. QED BY <2>10
<1>. QED BY <1>7, <1>8

LEMMA AdvanceKeeps ==
  ASSUME ItIInv, NEW p \in Actor, NEW F, Advanced(p, F),
         thread' \in Threads, \A x \in Actor : thread'[x].state = thread[x].state,
         obj' \in [Actor -> [Actor -> Nat]], OrdinaryObjects,
         \A q, x \in Actor : ~(obj'[q][x] < obj[q][x]),
         UNCHANGED <<itScenario, list, tid_counter, freed, process>>,
         ItTypeOK' => CountsReferences'
  PROVE  ItIInv'
<1>1. ItTypeOK'
  BY DEF ItIInv, ItTypeOK, Advanced, Stacks, FrameSet, Threads
<1>2. Ordinary(p, 1, F)
  BY OrdinaryRest DEF Ordinary, Advanced
<1>3. Inner(p).at \notin {"gone", "join"}
  BY WalkLabels DEF Advanced
<1>4. \A f \in F :
        /\ f.at # "join" /\ (f.at = "join_wait" => Is(f.x, "JOINED"))
        /\ f.at = "detached" => Is(f.x, "DETACHED")
        /\ f.at = "detach" => obj'[p][f.x] > 0 \/ f.x = p
        /\ f.at \in Takes => f.x \in Actor /\ Callable(f.x)
  <2>1. \A f \in F : f.at \in Walks
    BY DEF Advanced
  <2>. QED BY <2>1, WalkLabels
<1>5. 1 \in Nat /\ 1 > 0
  OBVIOUS
<1>6. /\ ShapeOf(stack') /\ pool'.running = pool.running /\ pool'.detached = pool.detached
      /\ pool'.joinable = pool.joinable
  BY DEF Advanced
<1>. QED BY <1>1, <1>2, <1>3, <1>4, <1>5, <1>6, QuietStep

LEMMA LookKeeps ==
  ASSUME ItIInv, QuietFailure, NEW p \in Actor, NEW want \in Walks, Look(p, want)
  PROVE  ItIInv'
<1>1. /\ ItTypeOK /\ Now(p, want)
      /\ UNCHANGED <<itScenario, thread, list, obj, tid_counter, freed, process>>
  BY DEF ItIInv, Look
<1>2. PICK x \in Actor : x = Target(p)
  BY <1>1, TopFrame
<1>3. CASE Advance(p, want)
  <2>1. PICK F : Advanced(p, F)
    BY <1>1, <1>3, Advances
  <2>2. /\ thread' \in Threads /\ \A y \in Actor : thread'[y].state = thread[y].state
        /\ obj' \in [Actor -> [Actor -> Nat]] /\ OrdinaryObjects
        /\ \A q, y \in Actor : ~(obj'[q][y] < obj[q][y])
    BY <1>1, ThreadsTyped, OrdinaryRest DEF ItTypeOK
  <2>3. ASSUME ItTypeOK' PROVE CountsReferences'
    <3>1. \A y : Held(stack', y) = Held(stack, y)
      BY <2>1 DEF Advanced
    <3>. QED BY <1>1, <2>3, <3>1, CountsStay DEF Known, Created
  <2>. QED BY <1>1, <2>1, <2>2, <2>3, AdvanceKeeps
<1>4. CASE Wanted(x, want) /\ GotoAt(p, Taking[want], x) /\ pool' = pool
  <2>1. /\ want \in OnCode /\ Taking[want] \in OnCode /\ Taking[want] \in Takes
        /\ want \notin Special \cup {"gone", "join"} /\ Taking[want] \notin Special
        /\ want \notin Owners /\ Taking[want] \notin Owners
        /\ want \notin {"clone", "nonviable", "free", "clear"} \cup Ends
    BY WalkLabels DEF OnCode, Special, Ends, Owners, Owning, OwningTwo, Running
  <2>2. PICK f : f = ItFrame(Taking[want], x) /\ f.at = Taking[want] /\ f.x = x
    BY FrameFields
  <2>3. Continued(p, ItFrame(want, Target(p)), f)
    BY <1>1, <1>4, <2>1, <2>2, Continues
  <2>4. /\ stack' \in Stacks /\ ShapeOf(stack') /\ stack[p] # <<>> /\ Inner(p).at = want
        /\ 2 \in 1..Len(stack[p]) /\ stack[p][2] = ItFrame(want, x) /\ Len(stack[p]) = 2
    BY <1>2, <2>3, FrameFields DEF Continued, Relabeled
  <2>5. Common(x)
    BY <1>1, <1>2, <2>1, TopIsCommon
  <2>6. x \in Listed /\ itScenario[p] \cap {"list", "object"} # {} /\ pool.mutex = p
    BY <2>4, FrameFields DEF ItIInv, WalksAreInList, PoolIsHeld
  <2>7. ItTypeOK'
    BY <1>1, <1>4, <2>4, ThreadsTyped, TypeStays
  <2>8. Ordinary(p, 1, {f})
    <3>1. OrdinaryFrames(p, 1, {f})
      BY <1>2, <1>4, <2>1, <2>2, <2>3, <2>4, <2>5, <2>6, WalkLabels
      DEF OrdinaryFrames, Continued, Relabeled, Common
    <3>2. OrdinaryPool(p, 1) /\ OrdinaryThreads /\ OrdinaryObjects
      BY <1>1, <1>4, OrdinaryRest
    <3>. QED BY <1>1, <3>1, <3>2 DEF Ordinary
  <2>9. CountsReferences'
    <3>1. \A y : Weight(ItFrame(want, Target(p)), y) = 0 /\ Weight(f, y) = 0
      BY <2>1, <2>2, WeightIs
    <3>2. \A y : Held(stack', y) = Held(stack, y) - Weight(ItFrame(want, Target(p)), y)
                   + Weight(f, y)
                 /\ Held(stack, y) \in Nat
      BY <2>3 DEF Continued, Relabeled, HeldMoves
    <3>3. \A y : Held(stack', y) = Held(stack, y)
      BY <3>1, <3>2
    <3>. QED BY <1>1, <2>7, <3>3, CountsStay DEF Known, Created
  <2>10. \A e \in {f} :
           /\ e.at # "join" /\ (e.at = "join_wait" => Is(e.x, "JOINED"))
           /\ e.at = "detached" => Is(e.x, "DETACHED")
           /\ e.at = "detach" => obj'[p][e.x] > 0 \/ e.x = p
           /\ e.at \in Takes => e.x \in Actor /\ Callable(e.x)
    BY <1>4, <2>2, WalkLabels DEF Wanted
  <2>11. \A q, y \in Actor : ~(obj'[q][y] < obj[q][y])
    BY <1>1, OrdinaryRest
  <2>12. 1 \in Nat /\ 1 > 0
    OBVIOUS
  <2>. QED BY <1>1, <1>4, <2>1, <2>4, <2>7, <2>8, <2>9, <2>10, <2>11, <2>12, QuietStep
<1>. QED BY <1>2, <1>3, <1>4 DEF Look, Goto

LEMMA TakeObjectKeeps ==
  ASSUME ItIInv, QuietFailure, NEW p \in Actor, NEW want \in Walks, TakeObject(p, want)
  PROVE  ItIInv'
<1>1. /\ ItTypeOK /\ Now(p, Taking[want]) /\ NewObject(p, Target(p)) /\ Advance(p, want)
      /\ UNCHANGED <<itScenario, list, tid_counter, freed, process>>
  BY DEF ItIInv, TakeObject
<1>2. PICK x \in Actor : x = Target(p)
  BY <1>1, TopFrame
<1>3. PICK F : Advanced(p, F)
  BY <1>1, Advances
<1>4. /\ Taking[want] \in Takes
      /\ Taking[want] \notin {"clone", "nonviable", "free", "clear"} \cup Ends
  BY WalkLabels DEF Ends
<1>5. Common(x)
  BY <1>1, <1>2, <1>4, TopIsCommon
<1>6. ~Unreferenced(x)
  <2>1. PICK k \in 1..Len(stack[p]) : stack[p][k] = ItFrame(Taking[want], x)
    BY <1>1, <1>2, TopFrame
  <2>2. Callable(x) \/ Somewhere(ItFrame("join", x))
    BY <1>4, <2>1, FrameFields DEF ItIInv, JoinsAreMarked
  <2>3. CASE Callable(x)
    BY <2>3 DEF Unreferenced
  <2>4. CASE Somewhere(ItFrame("join", x))
    <3>1. "join" \in Owners
      BY DEF Owners, Owning
    <3>. QED BY <2>4, <3>1, FrameFields DEF Somewhere, Unreferenced
  <2>. QED BY <2>2, <2>3, <2>4
<1>7. NewObject(p, x) /\ stack[p] # <<>>
  BY <1>1, <1>2, TopFrame
<1>8. /\ thread' \in Threads /\ obj' \in [Actor -> [Actor -> Nat]]
      /\ \A y \in Actor : thread'[y].state = thread[y].state
      /\ OrdinaryObjects /\ \A q, y \in Actor : ~(obj'[q][y] < obj[q][y])
  BY <1>5, <1>6, <1>7, NewObjectIs
<1>9. ASSUME ItTypeOK' PROVE CountsReferences'
  <2>1. \A y : Held(stack', y) = Held(stack, y)
    BY <1>3 DEF Advanced
  <2>. QED BY <1>1, <1>5, <1>6, <1>7, <1>9, <2>1, NewObjectCounts
<1>. QED BY <1>1, <1>3, <1>8, <1>9, AdvanceKeeps

(***************************************************************************)
(* The counters.                                                           *)
(***************************************************************************)
ActiveOnes == {x \in Viable : ~Is(x, "FINISHED") /\ ~Is(x, "DETACHED")}
DetachedOnes == {x \in Viable : ~Is(x, "FINISHED") /\ Is(x, "DETACHED")}
JoinableOnes == {x \in Viable : Is(x, "FINISHED") /\ ~Is(x, "DETACHED")}

LEMMA CountersAre ==
  CountersAreRight <=>
    /\ pool.running = Cardinality(ActiveOnes)
    /\ pool.detached = Cardinality(DetachedOnes)
    /\ pool.joinable = Cardinality(JoinableOnes) - Cardinality(Joined)
  BY DEF CountersAreRight, ActiveOnes, DetachedOnes, JoinableOnes

LEMMA CountersThenAre ==
  (CountersAreRight <=>
    /\ pool.running = Cardinality(ActiveOnes)
    /\ pool.detached = Cardinality(DetachedOnes)
    /\ pool.joinable = Cardinality(JoinableOnes) - Cardinality(Joined))'
  BY CountersAre, PTL

LEMMA OnesAreFinite ==
  ASSUME ItTypeOK
  PROVE  /\ IsFiniteSet(ActiveOnes) /\ Cardinality(ActiveOnes) \in Nat
         /\ IsFiniteSet(DetachedOnes) /\ Cardinality(DetachedOnes) \in Nat
         /\ IsFiniteSet(JoinableOnes) /\ Cardinality(JoinableOnes) \in Nat
         /\ IsFiniteSet(Joined) /\ Cardinality(Joined) \in Nat
<1>1. IsFiniteSet(Created) /\ Viable \subseteq Created
  BY Typed DEF Viable
<1>2. /\ ActiveOnes \subseteq Created /\ DetachedOnes \subseteq Created
      /\ JoinableOnes \subseteq Created /\ Joined \subseteq Created
  BY <1>1 DEF ActiveOnes, DetachedOnes, JoinableOnes, Joined
<1>3. \A S : S \subseteq Created => IsFiniteSet(S)
  BY <1>1, FS_Subset
<1>. QED BY <1>2, <1>3, FS_CardinalityType

\* Which threads are in these sets after a step that keeps those that are viable.
LEMMA OnesThen ==
  ASSUME ItIInv, stack' \in Stacks, Viable' = Viable
  PROVE  /\ \A x : x \in ActiveOnes' <=>
                     x \in Viable /\ ~Is(x, "FINISHED")' /\ ~Is(x, "DETACHED")'
         /\ \A x : x \in DetachedOnes' <=>
                     x \in Viable /\ ~Is(x, "FINISHED")' /\ Is(x, "DETACHED")'
         /\ \A x : x \in JoinableOnes' <=>
                     x \in Viable /\ Is(x, "FINISHED")' /\ ~Is(x, "DETACHED")'
         /\ \A x : x \in Joined' <=>
                     x \in Viable /\ Is(x, "JOINED")' /\ ~Somewhere(ItFrame("join", x))'
  BY JoinedIsThen DEF ActiveOnes, DetachedOnes, JoinableOnes

LEMMA JoinedNow ==
  ASSUME ItIInv
  PROVE  \A x : x \in Joined <=> x \in Viable /\ Is(x, "JOINED") /\ ~Somewhere(ItFrame("join", x))
  BY JoinedIs DEF ItIInv

LEMMA OneMore ==
  ASSUME NEW S, NEW T, IsFiniteSet(S), NEW x, x \notin S,
         \A y : y \in T <=> y \in S \/ y = x
  PROVE  Cardinality(T) = Cardinality(S) + 1
<1>1. T = S \cup {x}
  OBVIOUS
<1>. QED BY <1>1, FS_AddElement

LEMMA OneLess ==
  ASSUME NEW S, NEW T, IsFiniteSet(S), NEW x, x \in S,
         \A y : y \in T <=> y \in S /\ y # x
  PROVE  Cardinality(T) = Cardinality(S) - 1 /\ Cardinality(S) > 0
<1>1. T = S \ {x}
  OBVIOUS
<1>2. Cardinality(T) = Cardinality(S) - 1
  BY <1>1, FS_RemoveElement
<1>3. Cardinality(S) # 0 /\ Cardinality(S) \in Nat
  BY FS_EmptySet, FS_CardinalityType
<1>. QED BY <1>2, <1>3

LEMMA NotNone ==
  ASSUME NEW S, IsFiniteSet(S), NEW x \in S
  PROVE  Cardinality(S) > 0
<1>1. Cardinality(S) # 0 /\ Cardinality(S) \in Nat
  BY FS_EmptySet, FS_CardinalityType
<1>. QED BY <1>1

\* A common thread other than main is viable.
LEMMA CommonIsViable ==
  ASSUME ItIInv, NEW x \in Actor, Common(x), x # Main
  PROVE  x \in Viable /\ x \in Created
  BY ViableIs DEF ItIInv, Common, Known, Doomed

LEMMA JoinCountKeeps == ASSUME ItIInv, NEW p \in Actor, JoinCount(p) PROVE ItIInv'
<1>1. /\ ItTypeOK /\ Now(p, "join") /\ PoolUnlocked /\ GotoAt(p, "join_wait", Target(p))
      /\ pool' = [pool EXCEPT !.joinable = pool.joinable - 1]
      /\ UNCHANGED <<itScenario, thread, list, obj, tid_counter, freed, process>>
  BY DEF ItIInv, JoinCount, Goto
<1>2. PICK x \in Actor : x = Target(p)
  BY <1>1, TopFrame
<1>3. PICK f : f = ItFrame("join_wait", x) /\ f.at = "join_wait" /\ f.x = x
  BY FrameFields
<1>4. Continued(p, ItFrame("join", x), f)
  <2>1. "join" \in OnCode /\ "join_wait" \in OnCode
    BY DEF OnCode
  <2>2. GotoAt(p, "join_wait", x)
    BY <1>1, <1>2
  <2>3. Continued(p, ItFrame("join", Target(p)), f)
    BY <1>1, <1>3, <2>1, <2>2, Continues
  <2>. QED BY <1>2, <2>3
<1>5. /\ stack' \in Stacks /\ ShapeOf(stack') /\ stack[p] # <<>> /\ Inner(p).at = "join"
      /\ Len(stack[p]) = 2 /\ stack[p][2] = ItFrame("join", x)
      /\ Replaced(stack, stack', p, f)
  BY <1>4, FrameFields DEF Continued, Relabeled
<1>6. Common(x) /\ ~Unreferenced(x)
  <2>1. "join" \notin {"clone", "nonviable", "free", "clear"} \cup Ends /\ "join" \in Owners
    BY DEF Ends, Owners, Owning
  <2>. QED BY <1>1, <1>2, <2>1, TopIsCommon
<1>7. Is(x, "JOINED") /\ x # Main
  <2>1. 2 \in 1..Len(stack[p]) /\ stack[p][2].at = "join" /\ stack[p][2].x = x
    BY <1>5, FrameFields
  <2>2. Is(x, "JOINED")
    BY <2>1 DEF ItIInv, JoinsAreMarked
  <2>. QED BY <2>2 DEF ItIInv, RunsAreMarked, Is
<1>8. /\ pool'.mutex = pool.mutex /\ pool'.total = pool.total /\ pool'.running = pool.running
      /\ pool'.detached = pool.detached /\ pool'.joinable = pool.joinable - 1
      /\ pool' \in [mutex : Actor \cup {NoActor}, running : Nat, joinable : Int,
                    detached : Nat, total : Nat]
  <2>1. pool \in [mutex : Actor \cup {NoActor}, running : Nat, joinable : Int,
                  detached : Nat, total : Nat]
    BY <1>1 DEF ItTypeOK
  <2>2. PICK j \in Int : j = pool.joinable - 1
    BY <2>1
  <2>3. pool' = [pool EXCEPT !.joinable = j]
    BY <1>1, <2>2
  <2>4. /\ pool'.mutex = pool.mutex /\ pool'.total = pool.total /\ pool'.running = pool.running
        /\ pool'.detached = pool.detached /\ pool'.joinable = j
        /\ pool' \in [mutex : Actor \cup {NoActor}, running : Nat, joinable : Int,
                      detached : Nat, total : Nat]
    BY <2>1, <2>3
  <2>. QED BY <2>2, <2>4
<1>9. ItTypeOK'
  BY <1>1, <1>5, <1>8 DEF ItTypeOK, Stacks, FrameSet
<1>10. Ordinary(p, 1, {f})
  <2>1. OrdinaryFrames(p, 1, {f})
    BY <1>2, <1>3, <1>4, <1>5, <1>6, WalkLabels
    DEF OrdinaryFrames, Special, Ends, Continued, Relabeled, HavePool, Common
  <2>2. OrdinaryPool(p, 1)
    BY <1>8 DEF OrdinaryPool
  <2>3. OrdinaryThreads /\ OrdinaryObjects
    BY <1>1, OrdinaryRest
  <2>. QED BY <1>1, <2>1, <2>2, <2>3 DEF Ordinary
<1>11. CleanedAlone'
  BY <1>1, <1>5, CleanedStays
<1>12. 1 \in Nat /\ 1 > 0 /\ \A y \in Actor : Is(y, "FINISHED")' <=> Is(y, "FINISHED")
  BY <1>1 DEF Is
<1>13. RunsAreMarked'
  BY <1>1, <1>9, <1>10, <1>12, BottomStays
<1>14. JoinsAreMarked'
  <2>1. \A g \in {f} :
          /\ g.at \in {"join", "join_wait"} => Is(g.x, "JOINED")'
          /\ g.at = "detached" => Is(g.x, "DETACHED")'
          /\ g.at = "detach" => obj'[p][g.x] > 0 \/ g.x = p
          /\ g.at \in Takes => Callable(g.x)' \/ Somewhere(ItFrame("join", g.x))'
          /\ g.at = "join" =>
               ~Somewhere(g) /\ \A k, l \in 1..Len(stack'[p]) : k > 1 /\ l > 1 => k = l
    BY <1>1, <1>3, <1>7, WalkLabels DEF Is
  <2>2. \A q, y \in Actor : ~(obj'[q][y] < obj[q][y])
    BY <1>1, OrdinaryRest
  <2>3. \A q \in Actor : \A k \in 1..Len(stack[q]) : stack[q][k].at \notin Takes
    BY <1>1, ItConstants DEF ItIInv, PoolIsHeld, PoolUnlocked
  <2>. QED BY <1>9, <1>10, <1>12, <2>1, <2>2, <2>3, JoinsStay
<1>15. CountersAreRight'
  <2>1. Viable' = Viable
    BY <1>9, <1>10, <1>12, OrdinaryKeepsPlaces
  <2>2. ActiveOnes' = ActiveOnes /\ DetachedOnes' = DetachedOnes /\ JoinableOnes' = JoinableOnes
    BY <1>1, <2>1 DEF ActiveOnes, DetachedOnes, JoinableOnes, Is
  <2>3. ~Somewhere(ItFrame("join", x))' /\ Somewhere(ItFrame("join", x))
    <3>1. 2 \in 1..Len(stack[p]) /\ stack[p][2].at = "join"
      BY <1>5, FrameFields
    <3>2. Somewhere(ItFrame("join", x))
      BY <1>5, <3>1 DEF Somewhere
    <3>3. ASSUME NEW q \in Actor, NEW k \in 1..Len(stack'[q]), stack'[q][k] = ItFrame("join", x)
          PROVE  FALSE
      <4>1. ItFrame("join", x) # f
        BY <1>3, FrameFields
      <4>2. k \in 1..Len(stack[q]) /\ stack[q][k] = ItFrame("join", x) /\ ~(q = p /\ k = 2)
        BY <1>5, <3>3, <4>1 DEF Replaced
      <4>. QED BY <1>5, <3>1, <4>2, SMTT(40) DEF ItIInv, JoinsAreMarked
    <3>. QED BY <3>2, <3>3 DEF Somewhere
  <2>4. \A y : y # x => (Somewhere(ItFrame("join", y))' <=> Somewhere(ItFrame("join", y)))
    <3>1. \A g : g # f /\ g # stack[p][Len(stack[p])] => (Somewhere(g)' <=> Somewhere(g))
      BY <1>1, <1>5, ReplacedSomewhere DEF ItTypeOK, Stacks, FrameSet
    <3>2. \A y : y # x => ItFrame("join", y) # f /\ ItFrame("join", y) # stack[p][Len(stack[p])]
      BY <1>3, <1>5, FrameFields
    <3>. QED BY <3>1, <3>2
  <2>5. x \in Viable
    BY <1>6, <1>7, CommonIsViable
  <2>6. \A y : y \in Joined' <=> y \in Joined \/ y = x
    <3>1. \A y : Is(y, "JOINED")' <=> Is(y, "JOINED")
      BY <1>1 DEF Is
    <3>2. \A y : y \in Joined' <=> y \in Viable /\ Is(y, "JOINED")' /\ ~Somewhere(ItFrame("join", y))'
      BY <1>5, <2>1, OnesThen
    <3>. QED BY <1>7, <2>3, <2>4, <2>5, <3>1, <3>2, JoinedNow
  <2>7. x \notin Joined
    BY <2>3, JoinedNow
  <2>8. Cardinality(Joined') = Cardinality(Joined) + 1
    BY <1>1, <2>6, <2>7, OnesAreFinite, OneMore
  <2>9. /\ pool.running = Cardinality(ActiveOnes)
        /\ pool.detached = Cardinality(DetachedOnes)
        /\ pool.joinable = Cardinality(JoinableOnes) - Cardinality(Joined)
    BY CountersAre DEF ItIInv
  <2>10. /\ pool'.running = Cardinality(ActiveOnes')
         /\ pool'.detached = Cardinality(DetachedOnes')
         /\ pool'.joinable = Cardinality(JoinableOnes') - Cardinality(Joined')
    BY <1>1, <1>8, <2>2, <2>8, <2>9, OnesAreFinite
  <2>. QED BY <2>10, CountersThenAre
<1>16. CountsReferences'
  <2>1. \A y : Held(stack', y) = Held(stack, y)
    <3>1. \A y : Weight(ItFrame("join", x), y) = Weight(f, y) /\ Weight(f, y) \in {0, 1, 2}
      BY <1>3, WeightIs DEF Owners, Owning, OwningTwo
    <3>2. \A y : Held(stack', y) = Held(stack, y) - Weight(ItFrame("join", x), y) + Weight(f, y)
                 /\ Held(stack, y) \in Nat
      BY <1>4 DEF Continued, Relabeled, HeldMoves
    <3>. QED BY <3>1, <3>2
  <2>. QED BY <1>1, <1>9, <2>1, CountsStay DEF Known, Created
<1>. QED BY <1>5, <1>9, <1>10, <1>11, <1>12, <1>13, <1>14, <1>15, <1>16, OrdinaryInvariant

\* x gets the flag DETACHED and p's frame for that its reference.
LEMMA DetachedKeeps ==
  ASSUME ItIInv, NEW p \in Actor, Now(p, "detach"), NEW x \in Actor, x = Target(p), Callable(x),
         thread' = [thread EXCEPT ![x].state = thread[x].state \cup {"DETACHED"}],
         pool' = IF Is(x, "FINISHED")
                 THEN [pool EXCEPT !.mutex = NoActor, !.joinable = @ - 1]
                 ELSE [pool EXCEPT !.mutex = NoActor, !.running = @ - 1, !.detached = @ + 1],
         GotoAt(p, "detached", x),
         UNCHANGED <<itScenario, list, obj, tid_counter, freed, process>>
  PROVE  ItIInv'
<1>1. ItTypeOK /\ "detach" \in OnCode /\ "detached" \in OnCode
  BY DEF ItIInv, OnCode
<1>2. PICK f : f = ItFrame("detached", x) /\ f.at = "detached" /\ f.x = x
  BY FrameFields
<1>3. Continued(p, ItFrame("detach", x), f)
  BY <1>1, <1>2, Continues
<1>4. /\ stack' \in Stacks /\ ShapeOf(stack') /\ stack[p] # <<>> /\ Inner(p).at = "detach"
      /\ Len(stack[p]) = 2 /\ stack[p][2] = ItFrame("detach", x)
      /\ Replaced(stack, stack', p, f)
  BY <1>3, FrameFields DEF Continued, Relabeled
<1>5. Common(x) /\ ~Unreferenced(x)
  <2>1. "detach" \notin {"clone", "nonviable", "free", "clear"} \cup Ends
    BY DEF Ends
  <2>. QED BY <2>1, TopIsCommon, NotUnreferenced DEF ItIInv
<1>6. x # Main /\ ~Is(x, "DETACHED") /\ ~Is(x, "JOINED")
  BY DEF Callable, UNCALLABLE, ItIInv, RunsAreMarked, Is
<1>7. /\ thread' \in Threads /\ thread'[x].state = thread[x].state \cup {"DETACHED"}
      /\ \A y \in Actor : y # x => thread'[y].state = thread[y].state
      /\ \A y \in Actor : thread'[y].count = thread[y].count
  <2>1. {"DETACHED"} \in SUBSET Flags
    BY DEF Flags
  <2>. QED BY <1>1, <2>1, StateMoves
<1>8. /\ \A y \in Actor : Is(y, "FINISHED")' <=> Is(y, "FINISHED")
      /\ \A y \in Actor : Is(y, "JOINED")' <=> Is(y, "JOINED")
      /\ \A y \in Actor : y # x => (Is(y, "DETACHED")' <=> Is(y, "DETACHED"))
      /\ Is(x, "DETACHED")'
  BY <1>7 DEF Is
<1>9. x \in Viable
  BY <1>5, <1>6, CommonIsViable
<1>10. /\ pool.running = Cardinality(ActiveOnes)
       /\ pool.detached = Cardinality(DetachedOnes)
       /\ pool.joinable = Cardinality(JoinableOnes) - Cardinality(Joined)
       /\ Cardinality(ActiveOnes) \in Nat /\ Cardinality(DetachedOnes) \in Nat
       /\ Cardinality(JoinableOnes) \in Nat /\ Cardinality(Joined) \in Nat
       /\ IsFiniteSet(ActiveOnes) /\ IsFiniteSet(DetachedOnes) /\ IsFiniteSet(JoinableOnes)
  BY <1>1, CountersAre, OnesAreFinite DEF ItIInv
<1>11. Is(x, "FINISHED") \/ (x \in ActiveOnes /\ pool.running > 0)
  <2>1. ASSUME ~Is(x, "FINISHED") PROVE x \in ActiveOnes /\ pool.running > 0
    <3>1. x \in ActiveOnes
      BY <1>6, <1>9, <2>1 DEF ActiveOnes
    <3>2. Cardinality(ActiveOnes) > 0
      BY <1>10, <3>1, NotNone
    <3>. QED BY <1>10, <3>1, <3>2
  <2>. QED BY <2>1
<1>12. /\ pool'.mutex = NoActor /\ pool'.total = pool.total
       /\ Is(x, "FINISHED") => /\ pool'.joinable = pool.joinable - 1
                               /\ pool'.running = pool.running /\ pool'.detached = pool.detached
       /\ ~Is(x, "FINISHED") => /\ pool'.joinable = pool.joinable
                                /\ pool'.running = pool.running - 1
                                /\ pool'.detached = pool.detached + 1
       /\ pool' \in [mutex : Actor \cup {NoActor}, running : Nat, joinable : Int,
                     detached : Nat, total : Nat]
  <2>1. pool \in [mutex : Actor \cup {NoActor}, running : Nat, joinable : Int,
                  detached : Nat, total : Nat]
    BY <1>1 DEF ItTypeOK
  <2>2. CASE Is(x, "FINISHED")
    <3>1. PICK j \in Int : j = pool.joinable - 1
      BY <2>1
    <3>2. pool' = [pool EXCEPT !.mutex = NoActor, !.joinable = j]
      BY <2>2, <3>1
    <3>3. /\ pool'.mutex = NoActor /\ pool'.total = pool.total /\ pool'.joinable = j
          /\ pool'.running = pool.running /\ pool'.detached = pool.detached
          /\ pool' \in [mutex : Actor \cup {NoActor}, running : Nat, joinable : Int,
                        detached : Nat, total : Nat]
      BY <2>1, <3>2
    <3>. QED BY <2>2, <3>1, <3>3
  <2>3. CASE ~Is(x, "FINISHED")
    <3>1. pool.running > 0
      BY <1>11, <2>3
    <3>2. PICK r \in Nat : r = pool.running - 1
      BY <2>1, <3>1
    <3>3. PICK d \in Nat : d = pool.detached + 1
      BY <2>1
    <3>4. pool' = [pool EXCEPT !.mutex = NoActor, !.running = r, !.detached = d]
      BY <2>3, <3>2, <3>3
    <3>5. /\ pool'.mutex = NoActor /\ pool'.total = pool.total
          /\ pool'.running = r /\ pool'.detached = d /\ pool'.joinable = pool.joinable
          /\ pool' \in [mutex : Actor \cup {NoActor}, running : Nat, joinable : Int,
                        detached : Nat, total : Nat]
      BY <2>1, <3>4
    <3>. QED BY <2>3, <3>2, <3>3, <3>5
  <2>. QED BY <2>2, <2>3
<1>13. ItTypeOK'
  BY <1>1, <1>4, <1>7, <1>12 DEF ItTypeOK, Stacks, FrameSet, Threads
<1>14. pool.mutex = p
  <2>1. 2 \in 1..Len(stack[p]) /\ stack[p][2].at = "detach"
    BY <1>4, FrameFields
  <2>. QED BY <2>1 DEF ItIInv, PoolIsHeld
<1>15. Ordinary(p, 1, {f})
  <2>1. OrdinaryFrames(p, 1, {f})
    BY <1>2, <1>3, <1>4, <1>5, WalkLabels
    DEF OrdinaryFrames, Special, Ends, Continued, Relabeled, HavePool, Common
  <2>2. OrdinaryPool(p, 1)
    <3>1. stack[p][1].at = "code"
      BY <1>1, CalledFrom, FrameFields
    <3>2. \A k \in 1..Len(stack[p]) : k <= 1 => stack[p][k].at \notin HavePool
      BY <1>4, <3>1, WalkLabels DEF HavePool
    <3>. QED BY <1>12, <1>14, <3>2 DEF OrdinaryPool
  <2>3. OrdinaryThreads
    BY <1>5, <1>7 DEF OrdinaryThreads, Is, Common
  <2>4. OrdinaryObjects
    BY OrdinaryRest
  <2>. QED BY <2>1, <2>2, <2>3, <2>4 DEF Ordinary
<1>16. CleanedAlone'
  BY <1>4, CleanedStays
<1>17. RunsAreMarked'
  <2>1. thread'[Main].state = thread[Main].state
    BY <1>6, <1>7, ItConstants
  <2>2. 1 \in Nat /\ 1 > 0
    OBVIOUS
  <2>. QED BY <1>8, <1>13, <1>15, <2>1, <2>2, BottomStays
<1>18. JoinsAreMarked'
  <2>1. \A g \in {f} :
          /\ g.at \in {"join", "join_wait"} => Is(g.x, "JOINED")'
          /\ g.at = "detached" => Is(g.x, "DETACHED")'
          /\ g.at = "detach" => obj'[p][g.x] > 0 \/ g.x = p
          /\ g.at \in Takes => Callable(g.x)' \/ Somewhere(ItFrame("join", g.x))'
          /\ g.at = "join" =>
               ~Somewhere(g) /\ \A k, l \in 1..Len(stack'[p]) : k > 1 /\ l > 1 => k = l
    BY <1>2, <1>8, WalkLabels
  <2>2. \A q, y \in Actor : ~(obj'[q][y] < obj[q][y])
    BY OrdinaryRest
  <2>3. \A q \in Actor : \A k \in 1..Len(stack[q]) : stack[q][k].at \notin Takes
    <3>1. stack[p][1].at = "code" /\ stack[p][2].at = "detach"
      BY <1>1, <1>4, CalledFrom, FrameFields
    <3>2. \A k \in 1..Len(stack[p]) : stack[p][k].at \notin Takes
      BY <1>4, <3>1, WalkLabels
    <3>3. \A q \in Actor : \A k \in 1..Len(stack[q]) : stack[q][k].at \in Takes => q = p
      BY <1>14 DEF ItIInv, PoolIsHeld
    <3>. QED BY <3>2, <3>3
  <2>4. 1 \in Nat
    OBVIOUS
  <2>. QED BY <1>13, <1>15, <2>1, <2>2, <2>3, <2>4, JoinsStay
<1>19. CountersAreRight'
  <2>1. Viable' = Viable /\ Viable \subseteq Actor
    <3>1. 1 \in Nat
      OBVIOUS
    <3>. QED BY <1>1, <1>13, <1>15, <3>1, OrdinaryKeepsPlaces, Typed DEF Viable
  <2>2. \A y : Somewhere(ItFrame("join", y))' <=> Somewhere(ItFrame("join", y))
    <3>1. \A g : g # f /\ g # stack[p][Len(stack[p])] => (Somewhere(g)' <=> Somewhere(g))
      BY <1>1, <1>4, ReplacedSomewhere DEF ItTypeOK, Stacks, FrameSet
    <3>2. \A y : ItFrame("join", y) # f /\ ItFrame("join", y) # stack[p][Len(stack[p])]
      BY <1>2, <1>4, FrameFields
    <3>. QED BY <3>1, <3>2
  <2>3. /\ \A y : y \in ActiveOnes' <=>
                    y \in Viable /\ ~Is(y, "FINISHED")' /\ ~Is(y, "DETACHED")'
        /\ \A y : y \in DetachedOnes' <=>
                    y \in Viable /\ ~Is(y, "FINISHED")' /\ Is(y, "DETACHED")'
        /\ \A y : y \in JoinableOnes' <=>
                    y \in Viable /\ Is(y, "FINISHED")' /\ ~Is(y, "DETACHED")'
        /\ \A y : y \in Joined' <=>
                    y \in Viable /\ Is(y, "JOINED")' /\ ~Somewhere(ItFrame("join", y))'
    BY <1>4, <2>1, OnesThen
  <2>4. Joined' = Joined
    BY <1>8, <2>1, <2>2, <2>3, JoinedNow
  <2>5. CASE Is(x, "FINISHED")
    <3>1. ActiveOnes' = ActiveOnes /\ DetachedOnes' = DetachedOnes
      BY <1>8, <2>1, <2>3, <2>5 DEF ActiveOnes, DetachedOnes
    <3>2. \A y : y \in JoinableOnes' <=> y \in JoinableOnes /\ y # x
      BY <1>8, <2>1, <2>3, <2>5 DEF JoinableOnes
    <3>3. x \in JoinableOnes
      BY <1>6, <1>9, <2>5 DEF JoinableOnes
    <3>4. Cardinality(JoinableOnes') = Cardinality(JoinableOnes) - 1
      BY <1>10, <3>2, <3>3, OneLess
    <3>5. /\ pool'.running = Cardinality(ActiveOnes')
          /\ pool'.detached = Cardinality(DetachedOnes')
          /\ pool'.joinable = Cardinality(JoinableOnes') - Cardinality(Joined')
      BY <1>10, <1>12, <2>4, <2>5, <3>1, <3>4
    <3>. QED BY <3>5, CountersThenAre
  <2>6. CASE ~Is(x, "FINISHED")
    <3>1. JoinableOnes' = JoinableOnes
      BY <1>8, <2>1, <2>3, <2>6 DEF JoinableOnes
    <3>2. \A y : y \in ActiveOnes' <=> y \in ActiveOnes /\ y # x
      BY <1>8, <2>1, <2>3 DEF ActiveOnes
    <3>3. \A y : y \in DetachedOnes' <=> y \in DetachedOnes \/ y = x
      BY <1>8, <1>9, <2>1, <2>3, <2>6 DEF DetachedOnes
    <3>4. x \in ActiveOnes /\ x \notin DetachedOnes
      BY <1>6, <1>11, <2>6 DEF DetachedOnes
    <3>5. Cardinality(ActiveOnes') = Cardinality(ActiveOnes) - 1
      BY <1>10, <3>2, <3>4, OneLess
    <3>6. Cardinality(DetachedOnes') = Cardinality(DetachedOnes) + 1
      BY <1>10, <3>3, <3>4, OneMore
    <3>7. /\ pool'.running = Cardinality(ActiveOnes')
          /\ pool'.detached = Cardinality(DetachedOnes')
          /\ pool'.joinable = Cardinality(JoinableOnes') - Cardinality(Joined')
      BY <1>10, <1>12, <2>4, <2>6, <3>1, <3>5, <3>6
    <3>. QED BY <3>7, CountersThenAre
  <2>. QED BY <2>5, <2>6
<1>20. CountsReferences'
  <2>1. /\ \A y : y # x => Held(stack', y) = Held(stack, y)
        /\ Held(stack', x) = Held(stack, x) + 1
    <3>1. \A y : /\ Weight(ItFrame("detach", x), y) = 0
                 /\ Weight(f, y) = IF x = y THEN 1 ELSE 0
      BY <1>2, WeightIs DEF Owners, Owning, OwningTwo, Running
    <3>2. \A y : Held(stack', y) = Held(stack, y) - Weight(ItFrame("detach", x), y) + Weight(f, y)
                 /\ Held(stack, y) \in Nat
      BY <1>3 DEF Continued, Relabeled, HeldMoves
    <3>. QED BY <3>1, <3>2
  <2>2. Free1(x) = 1 /\ Free1(x)' = 0
    BY <1>7 DEF Free1, Callable, UNCALLABLE
  <2>3. \A y \in Actor : y # x => Free1(y)' = Free1(y)
    BY <1>7 DEF Free1, Callable
  <2>4. \A y \in Actor : Is(y, "NONVIABLE") <=> "NONVIABLE" \in thread'[y].state
    BY <1>7 DEF Is
  <2>5. thread[x].count \in Nat /\ Number(obj, x) \in Nat /\ Held(stack, x) \in Nat
    BY <1>1, CountsAre, Typed
  <2>6. thread'[x].count - Free1(x)' - Number(obj', x) - Held(stack', x)
             = thread[x].count - Free1(x) - Number(obj, x) - Held(stack, x)
    BY <1>7, <2>1, <2>2, <2>5
  <2>7. \A y \in Actor : y # x =>
           /\ thread'[y].count = thread[y].count
           /\ Free1(y)' = Free1(y)
           /\ Number(obj', y) + Held(stack', y) = Number(obj, y) + Held(stack, y)
    BY <1>7, <2>1, <2>3
  <2>. QED BY <1>13, <2>4, <2>6, <2>7, OneCountMoves
<1>21. 1 \in Nat
  OBVIOUS
<1>. QED BY <1>4, <1>13, <1>15, <1>16, <1>17, <1>18, <1>19, <1>20, <1>21, OrdinaryInvariant

LEMMA NotDetachedKeeps ==
  ASSUME ItIInv, NEW p \in Actor, Now(p, "detach"), Pop(p),
         pool' = [pool EXCEPT !.mutex = NoActor],
         UNCHANGED <<itScenario, thread, list, obj, tid_counter, freed, process>>
  PROVE  ItIInv'
<1>1. ItTypeOK /\ "detach" \in OnCode
  BY DEF ItIInv, OnCode
<1>2. PICK x \in Actor : x = Target(p)
  BY <1>1, TopFrame
<1>3. Returned(p, ItFrame("detach", x))
  BY <1>1, <1>2, Returns
<1>4. /\ stack' \in Stacks /\ ShapeOf(stack') /\ stack[p] # <<>> /\ Inner(p).at = "detach"
      /\ Len(stack[p]) = 2 /\ stack[p][2] = ItFrame("detach", x)
  BY <1>3, FrameFields DEF Returned
<1>5. Common(x)
  <2>1. "detach" \notin {"clone", "nonviable", "free", "clear"} \cup Ends
    BY DEF Ends
  <2>. QED BY <1>2, <2>1, TopIsCommon
<1>6. /\ pool'.mutex = NoActor /\ pool'.total = pool.total /\ pool'.running = pool.running
      /\ pool'.detached = pool.detached /\ pool'.joinable = pool.joinable
  <2>1. NoActor \in Actor \cup {NoActor}
    OBVIOUS
  <2>. QED BY <1>1, <2>1, PoolMutexMoves
<1>7. ItTypeOK'
  BY <1>1, <1>4, ThreadsTyped, TypeStays
<1>8. Ordinary(p, 1, {})
  <2>1. OrdinaryFrames(p, 1, {})
    BY <1>2, <1>3, <1>4, <1>5 DEF OrdinaryFrames, Special, Ends, Returned, Common
  <2>2. OrdinaryPool(p, 1)
    <3>1. stack[p][1].at = "code" /\ 2 \in 1..Len(stack[p]) /\ stack[p][2].at = "detach"
      BY <1>1, <1>4, CalledFrom, FrameFields
    <3>2. \A k \in 1..Len(stack[p]) : k <= 1 => stack[p][k].at \notin HavePool
      BY <1>4, <3>1, WalkLabels DEF HavePool
    <3>3. pool.mutex = p
      BY <3>1 DEF ItIInv, PoolIsHeld
    <3>. QED BY <1>6, <3>2, <3>3 DEF OrdinaryPool
  <2>3. OrdinaryThreads /\ OrdinaryObjects
    BY OrdinaryRest
  <2>. QED BY <2>1, <2>2, <2>3 DEF Ordinary
<1>9. CountsReferences'
  <2>1. \A y : Held(stack', y) = Held(stack, y)
    <3>1. \A y : Weight(ItFrame("detach", x), y) = 0
      BY WeightIs DEF Owners, Owning, OwningTwo, Running
    <3>2. \A y : Held(stack', y) = Held(stack, y) - Weight(ItFrame("detach", x), y)
                 /\ Held(stack, y) \in Nat
      BY <1>3 DEF Returned
    <3>. QED BY <3>1, <3>2
  <2>. QED BY <1>7, <2>1, CountsStay DEF Known, Created
<1>10. \A q, y \in Actor : ~(obj'[q][y] < obj[q][y])
  BY OrdinaryRest
<1>11. 1 \in Nat /\ 1 > 0
  OBVIOUS
<1>12. /\ \A y \in Actor : thread'[y].state = thread[y].state
       /\ process' = process /\ Inner(p).at \notin {"gone", "join"}
  BY <1>4
<1>13. PICK F : F = {}
  OBVIOUS
<1>14. /\ Ordinary(p, 1, F)
       /\ \A f \in F :
            /\ f.at # "join" /\ (f.at = "join_wait" => Is(f.x, "JOINED"))
            /\ f.at = "detached" => Is(f.x, "DETACHED")
            /\ f.at = "detach" => obj'[p][f.x] > 0 \/ f.x = p
            /\ f.at \in Takes => f.x \in Actor /\ Callable(f.x)
  BY <1>8, <1>13
<1>. QED BY <1>4, <1>6, <1>7, <1>9, <1>10, <1>11, <1>12, <1>14, QuietStep

\* detach marks the thread, or finds it marked.
LEMMA DetachMarkKeeps == ASSUME ItIInv, NEW p \in Actor, DetachMark(p) PROVE ItIInv'
<1>1. PICK x \in Actor : x = Target(p)
  BY TopFrame DEF DetachMark, ItIInv
<1>2. CASE Callable(x)
  BY <1>1, <1>2, DetachedKeeps DEF DetachMark, Goto
<1>3. CASE ~Callable(x)
  BY <1>1, <1>3, NotDetachedKeeps DEF DetachMark
<1>. QED BY <1>2, <1>3

\* A bottom frame of p that is relabelled.
LEMMA BottomMoves ==
  ASSUME ItIInv, NEW p \in Actor, NEW was \in Running, Now(p, was),
         NEW at \in Running \cup {"drop"}, GotoAt(p, at, Target(p)), p = Main => at \in {"code", "gone"},
         NEW f, f = ItFrame(at, p)
  PROVE  /\ Relabeled(p, ItFrame(was, p), f, 0) /\ ShapeOf(stack') /\ stack' \in Stacks
         /\ stack[p] # <<>> /\ Inner(p).at = was /\ Target(p) = p /\ Len(stack[p]) = 1
         /\ stack'[p] # <<>> /\ stack'[p][1] = f /\ Replaced(stack, stack', p, f)
         /\ stack[p][1] = ItFrame(was, p)
<1>1. /\ Len(stack[p]) = 1 /\ Target(p) = p /\ stack[p] # <<>> /\ Inner(p).at = was
      /\ stack[p][1] = ItFrame(was, p)
  BY RunningPlace
<1>2. PICK m \in Nat : m = Len(stack[p]) - 1
  BY <1>1
<1>3. m = 0
  BY <1>1, <1>2
<1>4. at \in Labels
  BY DEF Labels, Owning
<1>5. PICK y \in Actor : y = p
  OBVIOUS
<1>6. GotoAt(p, at, y) /\ f = ItFrame(at, y)
  BY <1>1, <1>5
<1>7. Relabeled(p, ItFrame(was, Target(p)), f, m)
  BY <1>2, <1>4, <1>6, Relabels
<1>8. Relabeled(p, ItFrame(was, p), f, 0)
  BY <1>1, <1>3, <1>7
<1>9. ShapeOf(stack')
  <2>1. IsBottom(p, f) /\ (p = Main => f.at \in {"code", "gone"})
    BY FrameFields DEF IsBottom, OnClear
  <2>2. stack' \in Stacks /\ Replaced(stack, stack', p, f)
    BY <1>8 DEF Relabeled
  <2>. QED BY <1>1, <2>1, <2>2, BottomShape
<1>. QED BY <1>1, <1>8, <1>9 DEF Relabeled

\* A thread that ran sets FINISHED and lets go.
LEMMA FinishKeeps ==
  ASSUME ItIInv, NEW p \in Actor, NEW how \in {"return", "die", "exit"}, Finish(p, how)
  PROVE  ItIInv'
<1>1. PICK at : at = IF how = "exit" THEN "exit_app" ELSE "drop"
  OBVIOUS
<1>2. PICK S : S = {"FINISHED"} \cup (IF how = "die" THEN {"DIED"} ELSE {})
  OBVIOUS
<1>3. /\ ItTypeOK /\ Now(p, how) /\ GotoAt(p, at, Target(p))
      /\ thread' = [thread EXCEPT ![p].state = thread[p].state \cup S]
      /\ pool' = IF Is(p, "DETACHED")
                 THEN [pool EXCEPT !.mutex = NoActor, !.detached = @ - 1]
                 ELSE [pool EXCEPT !.mutex = NoActor, !.running = @ - 1, !.joinable = @ + 1]
      /\ UNCHANGED <<itScenario, list, obj, tid_counter, freed, process>>
  <2>1. /\ Now(p, how) /\ Goto(p, IF how = "exit" THEN "exit_app" ELSE "drop")
        /\ thread' = [thread EXCEPT ![p].state = @ \cup {"FINISHED"}
                        \cup (IF how = "die" THEN {"DIED"} ELSE {})]
        /\ pool' = IF Is(p, "DETACHED")
                   THEN [pool EXCEPT !.mutex = NoActor, !.detached = @ - 1]
                   ELSE [pool EXCEPT !.mutex = NoActor, !.running = @ - 1, !.joinable = @ + 1]
        /\ UNCHANGED <<itScenario, list, obj, tid_counter, freed, process>>
    BY DEF Finish
  <2>2. thread[p].state \cup {"FINISHED"} \cup (IF how = "die" THEN {"DIED"} ELSE {})
          = thread[p].state \cup S
    BY <1>2
  <2>3. thread' = [thread EXCEPT ![p].state = thread[p].state \cup {"FINISHED"}
                        \cup (IF how = "die" THEN {"DIED"} ELSE {})]
    BY <2>1
  <2>. QED BY <1>1, <2>1, <2>2, <2>3 DEF Goto, ItIInv
<1>4. /\ how \in Running /\ at \in Running \cup {"drop"} /\ at \notin Stages
      /\ at \notin Special /\ at \notin HavePool /\ how \notin Special /\ how \notin {"gone", "join"}
      /\ how \in HavePool /\ at \in {"exit_app", "drop"} /\ at \notin Takes
  BY <1>1, WalkLabels DEF Running, Stages, Special, Ends, HavePool
<1>5. p # Main /\ (p \in Created => ~Is(p, "FINISHED"))
  BY <1>3, <1>4, RunningPlace DEF Stages
<1>6. PICK f : f = ItFrame(at, p) /\ f.at = at /\ f.x = p
  BY FrameFields
<1>7. /\ Relabeled(p, ItFrame(how, p), f, 0) /\ ShapeOf(stack') /\ stack' \in Stacks
      /\ stack[p] # <<>> /\ Inner(p).at = how /\ Target(p) = p /\ Len(stack[p]) = 1
      /\ stack'[p] # <<>> /\ stack'[p][1] = f /\ Replaced(stack, stack', p, f)
      /\ stack[p][1] = ItFrame(how, p)
  BY <1>3, <1>4, <1>5, <1>6, BottomMoves
<1>8. Common(p) /\ ~Unreferenced(p) /\ p \in Viable /\ p \in Created
  <2>1. how \notin {"clone", "nonviable", "free", "clear"} \cup Ends /\ how \in Owners
    BY <1>4 DEF Ends, Owners, Owning
  <2>2. Common(p) /\ ~Unreferenced(p)
    BY <1>3, <1>7, <2>1, TopIsCommon
  <2>. QED BY <1>5, <2>2, CommonIsViable
<1>9. /\ thread' \in Threads /\ thread'[p].state = thread[p].state \cup S
      /\ \A y \in Actor : y # p => thread'[y].state = thread[y].state
      /\ \A y \in Actor : thread'[y].count = thread[y].count
  <2>1. S \in SUBSET Flags
    BY <1>2 DEF Flags
  <2>. QED BY <1>3, <2>1, StateMoves
<1>10. /\ Is(p, "FINISHED")'
       /\ \A y \in Actor : y # p => (Is(y, "FINISHED")' <=> Is(y, "FINISHED"))
       /\ \A y \in Actor : /\ Is(y, "JOINED")' <=> Is(y, "JOINED")
                           /\ Is(y, "DETACHED")' <=> Is(y, "DETACHED")
                           /\ Is(y, "NONVIABLE")' <=> Is(y, "NONVIABLE")
                           /\ Callable(y)' <=> Callable(y)
  <2>1. /\ "FINISHED" \in S /\ "JOINED" \notin S /\ "DETACHED" \notin S /\ "NONVIABLE" \notin S
    BY <1>2
  <2>2. \A y \in Actor : (Is(y, "JOINED")' <=> Is(y, "JOINED"))
                         /\ (Is(y, "DETACHED")' <=> Is(y, "DETACHED"))
                         /\ (Is(y, "NONVIABLE")' <=> Is(y, "NONVIABLE"))
    BY <1>9, <2>1 DEF Is
  <2>3. \A y \in Actor : Callable(y)' <=> Callable(y)
    BY <2>2 DEF Callable, UNCALLABLE, Is
  <2>. QED BY <1>9, <2>1, <2>2, <2>3 DEF Is
<1>11. /\ pool.running = Cardinality(ActiveOnes)
       /\ pool.detached = Cardinality(DetachedOnes)
       /\ pool.joinable = Cardinality(JoinableOnes) - Cardinality(Joined)
       /\ Cardinality(ActiveOnes) \in Nat /\ Cardinality(DetachedOnes) \in Nat
       /\ Cardinality(JoinableOnes) \in Nat /\ Cardinality(Joined) \in Nat
       /\ IsFiniteSet(ActiveOnes) /\ IsFiniteSet(DetachedOnes) /\ IsFiniteSet(JoinableOnes)
  BY <1>3, CountersAre, OnesAreFinite DEF ItIInv
<1>12. /\ Is(p, "DETACHED") => p \in DetachedOnes /\ pool.detached > 0
       /\ ~Is(p, "DETACHED") => p \in ActiveOnes /\ pool.running > 0
  <2>1. ASSUME Is(p, "DETACHED") PROVE p \in DetachedOnes /\ pool.detached > 0
    <3>1. p \in DetachedOnes
      BY <1>5, <1>8, <2>1 DEF DetachedOnes
    <3>2. Cardinality(DetachedOnes) > 0
      BY <1>11, <3>1, NotNone
    <3>. QED BY <1>11, <3>1, <3>2
  <2>2. ASSUME ~Is(p, "DETACHED") PROVE p \in ActiveOnes /\ pool.running > 0
    <3>1. p \in ActiveOnes
      BY <1>5, <1>8, <2>2 DEF ActiveOnes
    <3>2. Cardinality(ActiveOnes) > 0
      BY <1>11, <3>1, NotNone
    <3>. QED BY <1>11, <3>1, <3>2
  <2>. QED BY <2>1, <2>2
<1>13. /\ pool'.mutex = NoActor /\ pool'.total = pool.total
       /\ Is(p, "DETACHED") => /\ pool'.detached = pool.detached - 1
                               /\ pool'.running = pool.running /\ pool'.joinable = pool.joinable
       /\ ~Is(p, "DETACHED") => /\ pool'.detached = pool.detached
                                /\ pool'.running = pool.running - 1
                                /\ pool'.joinable = pool.joinable + 1
       /\ pool' \in [mutex : Actor \cup {NoActor}, running : Nat, joinable : Int,
                     detached : Nat, total : Nat]
  <2>1. pool \in [mutex : Actor \cup {NoActor}, running : Nat, joinable : Int,
                  detached : Nat, total : Nat]
    BY <1>3 DEF ItTypeOK
  <2>2. CASE Is(p, "DETACHED")
    <3>1. PICK d \in Nat : d = pool.detached - 1
      BY <1>12, <2>1, <2>2
    <3>2. pool' = [pool EXCEPT !.mutex = NoActor, !.detached = d]
      BY <1>3, <2>2, <3>1
    <3>3. /\ pool'.mutex = NoActor /\ pool'.total = pool.total /\ pool'.detached = d
          /\ pool'.running = pool.running /\ pool'.joinable = pool.joinable
          /\ pool' \in [mutex : Actor \cup {NoActor}, running : Nat, joinable : Int,
                        detached : Nat, total : Nat]
      BY <2>1, <3>2
    <3>. QED BY <2>2, <3>1, <3>3
  <2>3. CASE ~Is(p, "DETACHED")
    <3>1. PICK r \in Nat : r = pool.running - 1
      BY <1>12, <2>1, <2>3
    <3>2. PICK j \in Int : j = pool.joinable + 1
      BY <2>1
    <3>3. pool' = [pool EXCEPT !.mutex = NoActor, !.running = r, !.joinable = j]
      BY <1>3, <2>3, <3>1, <3>2
    <3>4. /\ pool'.mutex = NoActor /\ pool'.total = pool.total
          /\ pool'.running = r /\ pool'.joinable = j /\ pool'.detached = pool.detached
          /\ pool' \in [mutex : Actor \cup {NoActor}, running : Nat, joinable : Int,
                        detached : Nat, total : Nat]
      BY <2>1, <3>3
    <3>. QED BY <2>3, <3>1, <3>2, <3>4
  <2>. QED BY <2>2, <2>3
<1>14. ItTypeOK'
  BY <1>3, <1>7, <1>9, <1>13 DEF ItTypeOK, Stacks, FrameSet, Threads
<1>15. pool.mutex = p
  <2>1. 1 \in 1..Len(stack[p]) /\ stack[p][1].at = how
    BY <1>7, FrameFields
  <2>. QED BY <1>4, <2>1 DEF ItIInv, PoolIsHeld, HavePool
<1>16. Ordinary(p, 0, {f})
  <2>1. OrdinaryFrames(p, 0, {f})
    <3>1. /\ Changed(stack, stack', p, 0, {f}) /\ \A q \in Actor : q # p => stack'[q] = stack[q]
      BY <1>7 DEF Relabeled
    <3>2. \A g \in {f} : g.at \notin Special /\ g.at # "clear" /\ g.at \notin HavePool
                         /\ g.at \notin Walks \cup Takes /\ g.x = p
      BY <1>4, <1>6, WalkLabels
    <3>3. 0 \in {Len(stack[p]) - 1, Len(stack[p])} /\ ~Doomed(Target(p)) /\ Inner(p).at \notin Special
      BY <1>4, <1>7, <1>8 DEF Common
    <3>. QED BY <1>7, <1>8, <3>1, <3>2, <3>3 DEF OrdinaryFrames
  <2>2. OrdinaryPool(p, 0)
    BY <1>13, <1>15 DEF OrdinaryPool
  <2>3. OrdinaryThreads
    <3>1. \A y \in Actor : thread[y].state \subseteq thread'[y].state
      BY <1>9
    <3>. QED BY <1>8, <1>9, <1>10, <3>1 DEF OrdinaryThreads, Is, Common
  <2>4. OrdinaryObjects
    BY <1>3, OrdinaryRest
  <2>. QED BY <1>3, <2>1, <2>2, <2>3, <2>4 DEF Ordinary
<1>17. CleanedAlone'
  <2>1. Inner(p).at # "gone"
    BY <1>4, <1>7
  <2>. QED BY <1>3, <1>7, <2>1, CleanedStays
<1>18. 0 \in Nat
  OBVIOUS
<1>19. RunsAreMarked'
  <2>1. thread'[Main].state = thread[Main].state
    BY <1>5, <1>9, ItConstants
  <2>2. p \in Created => IF stack'[p] # <<>>
                         THEN Is(p, "FINISHED")' <=> stack'[p][1].at \notin Stages
                         ELSE Is(p, "FINISHED")'
    BY <1>4, <1>6, <1>7, <1>10
  <2>3. \A y \in Created : y # p => (Is(y, "FINISHED")' <=> Is(y, "FINISHED"))
    BY <1>3, <1>10, Typed
  <2>. QED BY <1>14, <1>16, <1>18, <2>1, <2>2, <2>3, RunsStay
<1>20. \A y : Somewhere(ItFrame("join", y))' <=> Somewhere(ItFrame("join", y))
  <2>1. \A g : g # f /\ g # stack[p][Len(stack[p])] => (Somewhere(g)' <=> Somewhere(g))
    BY <1>3, <1>7, ReplacedSomewhere DEF ItTypeOK, Stacks, FrameSet
  <2>2. \A y : ItFrame("join", y) # f /\ ItFrame("join", y) # stack[p][Len(stack[p])]
    BY <1>4, <1>6, <1>7, FrameFields
  <2>. QED BY <2>1, <2>2
<1>21. JoinsAreMarked'
  <2>1. \A g \in {f} :
          /\ g.at \in {"join", "join_wait"} => Is(g.x, "JOINED")'
          /\ g.at = "detached" => Is(g.x, "DETACHED")'
          /\ g.at = "detach" => obj'[p][g.x] > 0 \/ g.x = p
          /\ g.at \in Takes => Callable(g.x)' \/ Somewhere(ItFrame("join", g.x))'
          /\ g.at = "join" =>
               ~Somewhere(g) /\ \A k, l \in 1..Len(stack'[p]) : k > 0 /\ l > 0 => k = l
    BY <1>4, <1>6
  <2>2. \A q, y \in Actor : ~(obj'[q][y] < obj[q][y])
    BY <1>3, OrdinaryRest
  <2>3. \A y \in Actor : Callable(y) \/ Somewhere(ItFrame("join", y)) =>
                           Callable(y)' \/ Somewhere(ItFrame("join", y))'
    BY <1>10, <1>20
  <2>. QED BY <1>14, <1>16, <1>18, <2>1, <2>2, <2>3, JoinsStay
<1>22. CountersAreRight'
  <2>1. Viable' = Viable /\ Viable \subseteq Actor
    BY <1>3, <1>14, <1>16, <1>18, OrdinaryKeepsPlaces, Typed DEF Viable
  <2>2. /\ \A y : y \in ActiveOnes' <=>
                    y \in Viable /\ ~Is(y, "FINISHED")' /\ ~Is(y, "DETACHED")'
        /\ \A y : y \in DetachedOnes' <=>
                    y \in Viable /\ ~Is(y, "FINISHED")' /\ Is(y, "DETACHED")'
        /\ \A y : y \in JoinableOnes' <=>
                    y \in Viable /\ Is(y, "FINISHED")' /\ ~Is(y, "DETACHED")'
        /\ \A y : y \in Joined' <=>
                    y \in Viable /\ Is(y, "JOINED")' /\ ~Somewhere(ItFrame("join", y))'
    BY <1>7, <2>1, OnesThen
  <2>3. Joined' = Joined
    BY <1>10, <1>20, <2>1, <2>2, JoinedNow
  <2>4. CASE Is(p, "DETACHED")
    <3>1. ActiveOnes' = ActiveOnes /\ JoinableOnes' = JoinableOnes
      BY <1>10, <2>1, <2>2, <2>4 DEF ActiveOnes, JoinableOnes
    <3>2. \A y : y \in DetachedOnes' <=> y \in DetachedOnes /\ y # p
      BY <1>10, <2>1, <2>2 DEF DetachedOnes
    <3>3. Cardinality(DetachedOnes') = Cardinality(DetachedOnes) - 1
      BY <1>11, <1>12, <2>4, <3>2, OneLess
    <3>4. /\ pool'.running = Cardinality(ActiveOnes')
          /\ pool'.detached = Cardinality(DetachedOnes')
          /\ pool'.joinable = Cardinality(JoinableOnes') - Cardinality(Joined')
      BY <1>11, <1>13, <2>3, <2>4, <3>1, <3>3
    <3>. QED BY <3>4, CountersThenAre
  <2>5. CASE ~Is(p, "DETACHED")
    <3>1. DetachedOnes' = DetachedOnes
      BY <1>10, <2>1, <2>2, <2>5 DEF DetachedOnes
    <3>2. \A y : y \in ActiveOnes' <=> y \in ActiveOnes /\ y # p
      BY <1>10, <2>1, <2>2 DEF ActiveOnes
    <3>3. \A y : y \in JoinableOnes' <=> y \in JoinableOnes \/ y = p
      BY <1>8, <1>10, <2>1, <2>2, <2>5 DEF JoinableOnes
    <3>4. p \in ActiveOnes /\ p \notin JoinableOnes
      BY <1>5, <1>8, <1>12, <2>5 DEF JoinableOnes
    <3>5. Cardinality(ActiveOnes') = Cardinality(ActiveOnes) - 1
      BY <1>11, <3>2, <3>4, OneLess
    <3>6. Cardinality(JoinableOnes') = Cardinality(JoinableOnes) + 1
      BY <1>11, <3>3, <3>4, OneMore
    <3>7. /\ pool'.running = Cardinality(ActiveOnes')
          /\ pool'.detached = Cardinality(DetachedOnes')
          /\ pool'.joinable = Cardinality(JoinableOnes') - Cardinality(Joined')
      BY <1>11, <1>13, <2>3, <2>5, <3>1, <3>5, <3>6
    <3>. QED BY <3>7, CountersThenAre
  <2>. QED BY <2>4, <2>5
<1>23. CountsReferences'
  <2>1. \A y : Held(stack', y) = Held(stack, y)
    <3>1. \A y : Weight(ItFrame(how, p), y) = Weight(f, y) /\ Weight(f, y) \in {0, 1, 2}
      BY <1>4, <1>6, WeightIs DEF Owners, Owning, OwningTwo, Running
    <3>2. \A y : Held(stack', y) = Held(stack, y) - Weight(ItFrame(how, p), y) + Weight(f, y)
                 /\ Held(stack, y) \in Nat
      BY <1>7 DEF Relabeled, HeldMoves
    <3>. QED BY <3>1, <3>2
  <2>2. \A y \in Actor : Free1(y)' = Free1(y)
    BY <1>10 DEF Free1
  <2>3. \A y \in Actor : Is(y, "NONVIABLE") <=> "NONVIABLE" \in thread'[y].state
    BY <1>10 DEF Is
  <2>4. thread'[p].count - Free1(p)' - Number(obj', p) - Held(stack', p)
             = thread[p].count - Free1(p) - Number(obj, p) - Held(stack, p)
    BY <1>3, <1>9, <2>1, <2>2
  <2>5. \A y \in Actor : y # p =>
           /\ thread'[y].count = thread[y].count
           /\ Free1(y)' = Free1(y)
           /\ Number(obj', y) + Held(stack', y) = Number(obj, y) + Held(stack, y)
    BY <1>3, <1>9, <2>1, <2>2
  <2>. QED BY <1>3, <1>14, <2>3, <2>4, <2>5, OneCountMoves
<1>. QED BY <1>7, <1>14, <1>16, <1>17, <1>18, <1>19, <1>21, <1>22, <1>23, OrdinaryInvariant

\* While no structure exists, no OS thread but main's is there.
LEMMA NoneAlive ==
  ASSUME ItIInv, Alive = {}
  PROVE  \A q \in Actor : q # Main => stack[q] = <<>>
<1>1. SUFFICES ASSUME NEW q \in Actor, q # Main, stack[q] # <<>> PROVE FALSE
  OBVIOUS
<1>2. ItTypeOK /\ Len(stack[q]) \in Nat /\ Len(stack[q]) > 0 /\ 1 \in 1..Len(stack[q])
  BY <1>1, Typed DEF ItIInv
<1>3. q \in Created /\ ~Doomed(q) /\ ~Is(q, "NONVIABLE")
  BY <1>1, RunnerIsCommon DEF Known, Doomed
<1>4. q \in freed /\ ~Somewhere(ItFrame("uncount", q))
  BY <1>3 DEF Alive
<1>5. Unreferenced(q)
  BY <1>3, <1>4 DEF ItIInv, EndIsLast
<1>6. stack[q][1].x = q /\ stack[q][1].at \in Running \cup OnClear
  BY <1>2 DEF ItIInv, Shape, IsBottom
<1>7. stack[q][1].at \notin Owners
  BY <1>2, <1>5, <1>6 DEF Unreferenced
<1>8. stack[q][1].at \in Ends
  BY <1>6, <1>7 DEF OnClear, Owners, Owning, Running
<1>9. stack[q][1].at = "uncount"
  BY <1>2, <1>4, <1>6, <1>8 DEF ItIInv, EndIsLast
<1>10. stack[q][1] = ItFrame("uncount", q)
  BY <1>1, <1>2, <1>6, <1>9, Typed
<1>. QED BY <1>2, <1>4, <1>10 DEF Somewhere

LEMMA NoneCounted ==
  ASSUME ItIInv, ~(pool.total > 0) PROVE Alive = {}
<1>1. pool.total \in Nat /\ pool.total = Cardinality(Alive)
  BY DEF ItIInv, ItTypeOK, TotalIsRight
<1>2. IsFiniteSet(Alive)
  BY Typed, FS_Subset DEF ItIInv, Alive
<1>. QED BY <1>1, <1>2, FS_EmptySet

\* The main program ends; if no structure is left, it cleans up.
LEMMA MainExitKeeps == ASSUME ItIInv, MainExit PROVE ItIInv'
<1>0. PICK p \in Actor : p = Main
  BY ItConstants
<1>1. /\ ItTypeOK /\ Now(p, "code") /\ GotoAt(p, "gone", Target(p)) /\ PoolUnlocked
      /\ process' = IF pool.total > 0 \/ process # "up" THEN "exiting" ELSE "cleaned"
      /\ UNCHANGED <<itScenario, thread, pool, list, obj, tid_counter, freed>>
  BY <1>0 DEF ItIInv, MainExit, InCode, Goto
<1>2. PICK f : f = ItFrame("gone", p) /\ f.at = "gone" /\ f.x = p
  BY FrameFields
<1>3. "code" \in Running /\ "gone" \in Running \cup {"drop"} /\ "gone" \in {"code", "gone"}
  BY DEF Running
<1>4. /\ Relabeled(p, ItFrame("code", p), f, 0) /\ ShapeOf(stack') /\ stack' \in Stacks
      /\ stack[p] # <<>> /\ Inner(p).at = "code" /\ Target(p) = p /\ Len(stack[p]) = 1
      /\ stack'[p] # <<>> /\ stack'[p][1] = f /\ Replaced(stack, stack', p, f)
      /\ stack[p][1] = ItFrame("code", p)
  BY <1>1, <1>2, <1>3, BottomMoves
<1>5. /\ ItTypeOK' /\ pool'.total = pool.total /\ pool'.running = pool.running
      /\ pool'.detached = pool.detached /\ pool'.joinable = pool.joinable
  BY <1>1, <1>4, ThreadsTyped, TypeStays
<1>6. Common(p) /\ ~Unreferenced(p)
  BY <1>1, <1>4, TopIsCommon DEF Ends, Owners, Owning, Running
<1>7. Ordinary(p, 0, {f})
  <2>1. /\ Changed(stack, stack', p, 0, {f}) /\ \A q \in Actor : q # p => stack'[q] = stack[q]
    BY <1>4 DEF Relabeled
  <2>2. OrdinaryFrames(p, 0, {f})
    BY <1>2, <1>4, <1>6, <2>1, WalkLabels DEF OrdinaryFrames, Special, Ends, Common, HavePool
  <2>3. OrdinaryPool(p, 0) /\ OrdinaryThreads /\ OrdinaryObjects
    BY <1>1, <1>5, OrdinaryRest
  <2>. QED BY <1>1, <2>2, <2>3 DEF Ordinary
<1>8. CleanedAlone'
  <2>1. ASSUME process' = "cleaned", NEW q \in Actor, stack'[q] # <<>>
        PROVE  q = Main /\ stack'[q][1].at = "gone"
    <3>1. \A r \in Actor : r # Main => stack[r] = <<>>
      BY <1>1, <2>1, NoneAlive, NoneCounted
    <3>2. q = p
      BY <1>0, <1>4, <2>1, <3>1 DEF Relabeled
    <3>. QED BY <1>0, <1>2, <1>4, <3>2
  <2>. QED BY <2>1 DEF CleanedAlone
<1>9. JoinsAreMarked' /\ CountersAreRight'
  <2>1. \A g \in {f} : g.at = "gone" /\ g.at \notin Takes
    BY <1>2, WalkLabels
  <2>2. \A q, y \in Actor : ~(obj'[q][y] < obj[q][y])
    BY <1>1, OrdinaryRest
  <2>. QED BY <1>1, <1>4, <1>5, <1>7, <2>1, <2>2, StatesStay
<1>10. RunsAreMarked'
  <2>1. p \notin Created
    BY <1>0, <1>1, Typed
  <2>2. \A x \in Created : Is(x, "FINISHED")' <=> Is(x, "FINISHED")
    BY <1>1 DEF Is
  <2>. QED BY <1>1, <1>5, <1>7, <2>1, <2>2, RunsStay
<1>11. CountsReferences'
  <2>1. HeldMoves(ItFrame("code", p), ItFrame("gone", p))
    BY <1>2, <1>4 DEF Relabeled
  <2>. QED BY <1>1, <1>3, <1>5, <2>1, BottomCounts
<1>. QED BY <1>4, <1>5, <1>7, <1>8, <1>9, <1>10, <1>11, OrdinaryInvariant

\* A structure that is being cleared: its OS thread has no call under way.
LEMMA ClearedIsIdle ==
  ASSUME ItIInv, NEW p \in Actor, Now(p, "clear")
  PROVE  \A k \in 1..Len(stack[Target(p)]) : stack[Target(p)][k].at # "detach"
<1>1. PICK t \in Actor : t = Target(p)
  BY TopFrame DEF ItIInv
<1>2. /\ ItTypeOK /\ Len(stack[p]) \in 1..Len(stack[p])
      /\ stack[p][Len(stack[p])] = ItFrame("clear", t)
      /\ stack[p][Len(stack[p])].at = "clear" /\ stack[p][Len(stack[p])].x = t
  BY <1>1, TopFrame DEF ItIInv
<1>3. Is(t, "NONVIABLE") \/ Is(t, "FINISHED")
  BY <1>2, FramesAre DEF ItIInv, AssertionsHold
<1>4. t \in Known /\ ShapeOf(stack) /\ stack \in Stacks
  BY <1>2, ShapeIs DEF ItIInv, OnlyKnown, ItTypeOK, Stacks, FrameSet
<1>5. CASE Is(t, "NONVIABLE")
  <2>1. stack[t] = <<>>
    BY <1>5 DEF ItIInv, DoomedIsAlone, Doomed
  <2>. QED BY <1>1, <2>1
<1>6. CASE Is(t, "FINISHED")
  <2>1. t \in Created
    BY <1>4, <1>6 DEF Known, ItIInv, RunsAreMarked, Is
  <2>2. stack[t] # <<>> => stack[t][1].at # "code"
    BY <1>6, <2>1 DEF ItIInv, RunsAreMarked, Stages
  <2>3. ASSUME NEW k \in 1..Len(stack[t]), stack[t][k].at = "detach" PROVE FALSE
    <3>1. stack[t][k].at \in OnCode
      BY <2>3 DEF OnCode
    <3>2. stack[t][1].at = "code" /\ stack[t] # <<>>
      BY <1>4, <2>3, <3>1, Places
    <3>. QED BY <2>2, <3>2
  <2>. QED BY <1>1, <2>3
<1>. QED BY <1>3, <1>5, <1>6

LEMMA ClearPlace ==
  ASSUME ItIInv, NEW p \in Actor, Now(p, "clear")
  PROVE  /\ Len(stack[p]) \in Nat /\ Len(stack[p]) > 1 /\ stack[p] # <<>>
         /\ Inner(p).at = "clear" /\ stack[p][Len(stack[p])].at = "clear"
         /\ Target(p) \in Actor /\ stack \in Stacks /\ ShapeOf(stack)
<1>1. ItTypeOK /\ ShapeOf(stack)
  BY ShapeIs DEF ItIInv
<1>. QED BY <1>1, TopFrame, Places DEF Now

LEMMA ClearObjectKeeps ==
  ASSUME ItIInv, NEW p \in Actor, NEW y \in Actor, ClearObject(p, y) PROVE ItIInv'
<1>1. PICK t \in Actor : t = Target(p)
  BY TopFrame DEF ItIInv, ClearObject
<1>2. /\ ItTypeOK /\ Now(p, "clear") /\ Push(p, "drop", y) /\ obj[t][y] > 0
      /\ obj' = [obj EXCEPT ![t][y] = obj[t][y] - 1]
      /\ UNCHANGED <<itScenario, thread, pool, list, tid_counter, freed, process>>
  BY <1>1 DEF ItIInv, ClearObject
<1>3. PICK f : f = ItFrame("drop", y) /\ f.at = "drop" /\ f.x = y
  BY FrameFields
<1>4. PICK m \in Nat : m = Len(stack[p])
  BY <1>2, ClearPlace
<1>5. /\ m > 1 /\ m > 0 /\ stack[p] # <<>> /\ Inner(p).at = "clear"
      /\ stack[p][Len(stack[p])].at = "clear" /\ stack \in Stacks /\ ShapeOf(stack)
  BY <1>2, <1>4, ClearPlace
<1>6. Overlaid(p, f, m)
  <2>1. "drop" \in Labels
    BY DEF Labels, Owning
  <2>. QED BY ONLY ItIInv, <1>2, <1>3, <1>4, <2>1, p \in Actor, y \in Actor, m \in Nat, Pushes
<1>7. stack' \in Stacks /\ Pushed(stack, stack', p, f)
  BY <1>6 DEF Overlaid
<1>8. ShapeOf(stack')
  <2>1. MayLie(f, stack[p][Len(stack[p])])
    BY <1>3, <1>5 DEF MayLie, OnClear
  <2>. QED BY <1>4, <1>5, <1>7, <2>1, PushedShape
<1>9. Common(y) /\ ~Unreferenced(y)
  BY <1>2, ObjectIsCommon
<1>10. OrdinaryObjects /\ \A q, x \in Actor : obj'[q][x] < obj[q][x] => q = t /\ x = y
  BY <1>2, ObjectsLess
<1>11. ItTypeOK'
  <2>1. obj' \in [Actor -> [Actor -> Nat]]
    BY <1>2, ObjectGoes
  <2>. QED BY <1>2, <1>7, <2>1 DEF ItTypeOK, Stacks, FrameSet
<1>12. Ordinary(p, m, {f})
  <2>1. OrdinaryFrames(p, m, {f})
    BY <1>3, <1>4, <1>5, <1>6, <1>9, WalkLabels
    DEF OrdinaryFrames, Special, Ends, Overlaid, HavePool
  <2>2. OrdinaryPool(p, m) /\ OrdinaryThreads
    BY <1>2, OrdinaryRest
  <2>. QED BY <1>2, <1>10, <2>1, <2>2 DEF Ordinary
<1>13. CountsReferences'
  <2>1. \A x : Held(stack', x) = Held(stack, x) + Weight(f, x) /\ Held(stack, x) \in Nat
    BY <1>6 DEF Overlaid
  <2>. QED BY <1>2, <1>3, <1>11, <2>1, ReferenceMoves
<1>14. \A g \in {f} :
         /\ g.at # "join" /\ (g.at = "join_wait" => Is(g.x, "JOINED"))
         /\ g.at = "detached" => Is(g.x, "DETACHED")
         /\ g.at = "detach" => obj'[p][g.x] > 0 \/ g.x = p
         /\ g.at \in Takes => g.x \in Actor /\ Callable(g.x)
  BY <1>3, WalkLabels
<1>15. \A q, x \in Actor : obj'[q][x] < obj[q][x] =>
         \A k \in 1..Len(stack[q]) : stack[q][k].at # "detach"
  BY <1>1, <1>2, <1>10, ClearedIsIdle
<1>. QED BY <1>2, <1>5, <1>8, <1>11, <1>12, <1>13, <1>14, <1>15, QuietStep

\* S_ithread_clear is done.
LEMMA ClearDoneKeeps == ASSUME ItIInv, NEW p \in Actor, ClearDone(p) PROVE ItIInv'
<1>1. PICK x \in Actor : x = Target(p)
  BY TopFrame DEF ItIInv, ClearDone
<1>2. /\ ItTypeOK /\ Now(p, "clear") /\ Pop(p)
      /\ thread' = [thread EXCEPT ![x].interp = "none"]
      /\ UNCHANGED <<itScenario, pool, list, obj, tid_counter, freed, process>>
  BY <1>1 DEF ItIInv, ClearDone
<1>3. PICK m \in Nat : m = Len(stack[p]) - 1
  BY <1>2, ClearPlace
<1>4. /\ m > 0 /\ m < Len(stack[p]) /\ stack[p] # <<>> /\ Inner(p).at = "clear" /\ Len(stack[p]) > 1
      /\ stack \in Stacks /\ ShapeOf(stack)
  BY <1>2, <1>3, ClearPlace
<1>5. PICK F : F = {}
  OBVIOUS
<1>6. /\ stack' \in Stacks /\ Popped(stack, stack', p)
      /\ Changed(stack, stack', p, m, F)
      /\ \A q \in Actor : q # p => stack'[q] = stack[q]
      /\ \A y : /\ Held(stack', y) = Held(stack, y) - Weight(ItFrame("clear", Target(p)), y)
                /\ Held(stack, y) \in Nat
  BY <1>2, <1>3, <1>5, Pops
<1>7. ShapeOf(stack')
  BY <1>4, <1>6, PoppedShape
<1>8. /\ thread' \in Threads
      /\ \A y \in Actor : thread'[y].state = thread[y].state /\ thread'[y].count = thread[y].count
  BY <1>2, ThreadsTyped DEF Threads
<1>9. /\ ItTypeOK' /\ pool'.total = pool.total /\ pool'.running = pool.running
      /\ pool'.detached = pool.detached /\ pool'.joinable = pool.joinable
  BY <1>2, <1>6, <1>8, TypeStays
<1>10. Ordinary(p, m, F)
  <2>1. OrdinaryFrames(p, m, F)
    BY <1>3, <1>4, <1>5, <1>6 DEF OrdinaryFrames, Special, Ends
  <2>2. OrdinaryPool(p, m) /\ OrdinaryThreads /\ OrdinaryObjects
    BY <1>2, <1>8, OrdinaryRest
  <2>. QED BY <1>2, <2>1, <2>2 DEF Ordinary
<1>11. CountsReferences'
  <2>1. \A y : Weight(ItFrame("clear", Target(p)), y) = 0
    BY WeightIs, LabelsOfOwners
  <2>2. \A y : Held(stack', y) = Held(stack, y)
    BY <1>6, <2>1
  <2>3. Known' = Known
    BY <1>2 DEF Known, Created
  <2>4. \A y \in Actor : Number(obj', y) + Held(stack', y) = Number(obj, y) + Held(stack, y)
    BY <1>2, <2>2
  <2>. QED BY <1>8, <1>9, <2>3, <2>4, CountsStay
<1>12. \A q, y \in Actor : ~(obj'[q][y] < obj[q][y])
  BY <1>2, OrdinaryRest
<1>. QED BY <1>2, <1>4, <1>5, <1>7, <1>8, <1>9, <1>10, <1>11, <1>12, QuietStep

\* A thread that has not failed is not about to, where it is freed.
LEMMA FreedIsViable ==
  ASSUME ItIInv, NEW q \in Actor, NEW l \in 1..Len(stack[q]), stack[q][l].at = "free",
         NEW x \in Actor, x = stack[q][l].x, ~Is(x, "NONVIABLE")
  PROVE  ~Doomed(x)
<1>1. SUFFICES ASSUME Somewhere(ItFrame("nonviable", x)) PROVE FALSE
  BY DEF Doomed
<1>2. PICK r \in Actor : \E k \in 1..Len(stack[r]) : stack[r][k] = ItFrame("nonviable", x)
  BY <1>1 DEF Somewhere
<1>3. PICK k \in 1..Len(stack[r]) : stack[r][k] = ItFrame("nonviable", x)
  BY <1>2
<1>4. stack[r][k].at = "nonviable" /\ stack[r][k].x = x
  BY <1>3, FrameFields
<1>5. PICK p \in Actor : DoomedBy(p, x)
  BY <1>1 DEF ItIInv, DoomedIsAlone, Doomed
<1>6. r = p /\ (k = 2 \/ k = 3)
  BY <1>4, <1>5 DEF DoomedBy
<1>7. k = 2
  BY <1>4, <1>5, <1>6 DEF DoomedBy
<1>8. q = p /\ l = 2
  BY <1>5 DEF DoomedBy
<1>. QED BY <1>4, <1>6, <1>7, <1>8

\* S_ithread_free gives one reference back, and there are others.
LEMMA DropKeeps ==
  ASSUME ItIInv, NEW p \in Actor, NEW was \in {"free", "drop"}, Now(p, was),
         NEW x \in Actor, x = Target(p), ~Is(x, "NONVIABLE"), thread[x].count # 1,
         thread' = [thread EXCEPT ![x].mutex = NoActor, ![x].count = thread[x].count - 1],
         Pop(p), UNCHANGED <<itScenario, pool, list, obj, tid_counter, freed, process>>
  PROVE  ItIInv'
<1>1. /\ ItTypeOK /\ stack \in Stacks /\ Len(stack[p]) \in Nat /\ Len(stack[p]) > 0
      /\ stack[p] # <<>> /\ Len(stack[p]) \in 1..Len(stack[p])
      /\ stack[p][Len(stack[p])].at = was /\ stack[p][Len(stack[p])].x = x
      /\ Inner(p).at = was /\ ShapeOf(stack)
  BY TopFrame, ShapeIs DEF ItIInv, Now
<1>2. was \in Owners /\ was \notin OwningTwo /\ was \notin Special /\ was \notin {"gone", "join"}
  BY DEF Owners, Owning, OwningTwo, Special, Ends
<1>3. ~Doomed(x)
  <2>1. CASE was = "free"
    BY <1>1, <2>1, FreedIsViable
  <2>2. CASE was = "drop"
    <3>1. was \notin {"nonviable", "free", "clear"} \cup Ends
      BY <2>2 DEF Ends
    <3>. QED BY <1>1, <3>1, NotDoomed DEF ItIInv
  <2>. QED BY <2>1, <2>2
<1>4. PICK m \in Nat : m = Len(stack[p]) - 1
  BY <1>1
<1>5. PICK F : F = {}
  OBVIOUS
<1>6. PICK g : g = ItFrame(was, Target(p)) /\ g.at = was /\ g.x = x
  BY FrameFields
<1>7. /\ stack' \in Stacks /\ Popped(stack, stack', p)
      /\ Changed(stack, stack', p, m, F)
      /\ \A q \in Actor : q # p => stack'[q] = stack[q]
      /\ (m = 0 <=> stack'[p] = <<>>)
      /\ \A y : Held(stack', y) = Held(stack, y) - Weight(g, y) /\ Held(stack, y) \in Nat
  <2>1. /\ stack' \in Stacks /\ Popped(stack, stack', p)
        /\ Changed(stack, stack', p, m, {})
        /\ \A q \in Actor : q # p => stack'[q] = stack[q]
        /\ (m = 0 <=> stack'[p] = <<>>)
        /\ \A y : /\ Held(stack', y) = Held(stack, y) - Weight(ItFrame(was, Target(p)), y)
                  /\ Held(stack, y) \in Nat
    BY ONLY ItIInv, p \in Actor, Now(p, was), Pop(p), m \in Nat, <1>4, Pops
  <2>. QED BY <1>5, <1>6, <2>1
<1>8. /\ Weight(g, x) = 1 /\ \A y : y # x => Weight(g, y) = 0
  BY <1>2, <1>6, WeightIs
<1>9. PICK c \in Nat : c = thread[x].count - 1
  <2>1. x \in Known
    BY <1>1 DEF ItIInv, OnlyKnown
  <2>2. thread[x].count = References(x)
    BY <2>1 DEF ItIInv, CountsReferences, Known
  <2>3. /\ References(x) = Free1(x) + Number(obj, x) + Held(stack, x)
        /\ Number(obj, x) \in Nat /\ Held(stack, x) \in Nat /\ Free1(x) \in {0, 1}
    BY <1>1, CountsAre
  <2>4. Held(stack', x) = Held(stack, x) - 1 /\ Held(stack', x) \in Nat
    BY <1>7, <1>8, HeldIsNat
  <2>. QED BY <2>2, <2>3, <2>4
<1>10. /\ thread' \in Threads /\ thread'[x].count = c
       /\ \A y \in Actor : /\ thread'[y].state = thread[y].state
                           /\ y # x => thread'[y].count = thread[y].count
  <2>1. thread' = [thread EXCEPT ![x].mutex = NoActor, ![x].count = c]
    BY ONLY <1>9, thread' = [thread EXCEPT ![x].mutex = NoActor, ![x].count = thread[x].count - 1]
  <2>2. PICK q \in Actor \cup {NoActor} : q = NoActor
    OBVIOUS
  <2>3. thread' = [thread EXCEPT ![x].mutex = q, ![x].count = c]
    BY <2>1, <2>2
  <2>4. ItTypeOK
    BY <1>1
  <2>5. /\ thread' \in Threads /\ thread'[x].count = c
        /\ \A y \in Actor : /\ thread'[y].state = thread[y].state
                            /\ thread'[y].interp = thread[y].interp
                            /\ y # x => thread'[y].count = thread[y].count
    BY ONLY <2>3, <2>4, x \in Actor, c \in Nat, q \in Actor \cup {NoActor}, CountMoves
  <2>. QED BY ONLY <2>5
<1>11. /\ ItTypeOK' /\ pool'.total = pool.total /\ pool'.running = pool.running
       /\ pool'.detached = pool.detached /\ pool'.joinable = pool.joinable
  BY <1>1, <1>7, <1>10, TypeStays
<1>12. p = Main => Len(stack[p]) > 1
  <2>1. ASSUME p = Main, Len(stack[p]) = 1 PROVE FALSE
    <3>1. stack[Main][1].at = was
      BY <1>1, <2>1
    <3>. QED BY <1>1, <3>1 DEF ShapeOf
  <2>2. PICK n \in Nat : n = Len(stack[p])
    BY <1>1
  <2>3. n > 0
    BY <1>1, <2>2
  <2>4. n = 1 \/ n > 1
    BY ONLY <2>3, n \in Nat
  <2>5. p = Main => n # 1
    BY <2>1, <2>2
  <2>. QED BY ONLY <2>2, <2>4, <2>5
<1>13. ShapeOf(stack')
  BY <1>1, <1>7, <1>12, PoppedShape
<1>14. Ordinary(p, m, F)
  <2>1. OrdinaryFrames(p, m, F)
    BY <1>1, <1>2, <1>3, <1>4, <1>5, <1>7 DEF OrdinaryFrames
  <2>2. OrdinaryPool(p, m) /\ OrdinaryThreads /\ OrdinaryObjects
    BY <1>1, <1>10, OrdinaryRest
  <2>. QED BY <2>1, <2>2 DEF Ordinary
<1>15. CleanedAlone'
  BY <1>1, <1>2, CleanedStays
<1>16. JoinsAreMarked' /\ CountersAreRight' /\ (m > 0 => RunsAreMarked')
  <2>1. \A q, y \in Actor : ~(obj'[q][y] < obj[q][y])
    BY OrdinaryRest
  <2>2. \A f \in F :
           /\ f.at # "join" /\ (f.at = "join_wait" => Is(f.x, "JOINED"))
           /\ f.at = "detached" => Is(f.x, "DETACHED")
           /\ f.at = "detach" => obj'[p][f.x] > 0 \/ f.x = p
           /\ f.at \in Takes => f.x \in Actor /\ Callable(f.x)
    BY <1>5
  <2>3. /\ Inner(p).at # "join"
        /\ \A q, y \in Actor : obj'[q][y] < obj[q][y] =>
             \A k \in 1..Len(stack[q]) : stack[q][k].at # "detach"
    BY <1>1, <1>2, <2>1
  <2>. QED BY ONLY ItIInv, p \in Actor, m \in Nat, <1>10, <1>11, <1>14, <2>2, <2>3, StatesStay
<1>17. m = 0 => RunsAreMarked'
  <2>1. SUFFICES ASSUME m = 0 PROVE RunsAreMarked'
    OBVIOUS
  <2>2. \A y \in Actor : Is(y, "FINISHED")' <=> Is(y, "FINISHED")
    BY <1>10 DEF Is
  <2>3. p \in Created => Is(p, "FINISHED")'
    <3>1. stack[p][1].at = was /\ was \notin Stages
      BY <1>1, <1>4, <2>1 DEF Stages
    <3>. QED BY <1>1, <2>2, <3>1 DEF ItIInv, RunsAreMarked
  <2>4. \A y \in Created : y # p => (Is(y, "FINISHED")' <=> Is(y, "FINISHED"))
    BY <1>1, <2>2, Typed
  <2>5. thread'[Main].state = thread[Main].state
    BY <1>10, ItConstants
  <2>6. stack'[p] = <<>>
    BY <1>7, <2>1
  <2>. QED BY <1>11, <1>14, <2>3, <2>4, <2>5, <2>6, RunsStay
<1>18. CountsReferences'
  <2>1. \A y \in Actor : Free1(y)' = Free1(y) /\ (Is(y, "NONVIABLE") <=> "NONVIABLE" \in thread'[y].state)
    BY <1>10 DEF Free1, Callable, Is
  <2>2. /\ Held(stack', x) = Held(stack, x) - 1 /\ Held(stack, x) \in Nat
        /\ Number(obj', x) = Number(obj, x) /\ Number(obj, x) \in Nat
        /\ Free1(x) \in {0, 1} /\ Free1(x)' = Free1(x) /\ thread[x].count \in Nat
    BY <1>1, <1>7, <1>8, <2>1, CountsAre, Typed
  <2>3. thread'[x].count - Free1(x)' - Number(obj', x) - Held(stack', x)
             = thread[x].count - Free1(x) - Number(obj, x) - Held(stack, x)
    BY <1>9, <1>10, <2>2
  <2>4. \A y \in Actor : y # x =>
           /\ thread'[y].count = thread[y].count
           /\ Free1(y)' = Free1(y)
           /\ Number(obj', y) + Held(stack', y) = Number(obj, y) + Held(stack, y)
    <3>1. \A y \in Actor : y # x => Held(stack', y) = Held(stack, y)
      BY <1>7, <1>8
    <3>. QED BY <1>10, <2>1, <3>1
  <2>5. UNCHANGED <<tid_counter>> /\ (Is(x, "NONVIABLE") <=> FALSE)
    OBVIOUS
  <2>. QED BY ONLY ItIInv, x \in Actor, <1>11, <2>1, <2>3, <2>4, <2>5, OneCountMoves
<1>19. RunsAreMarked'
  <2>1. m = 0 \/ m > 0
    OBVIOUS
  <2>. QED BY <1>16, <1>17, <2>1
<1>. QED BY <1>11, <1>13, <1>14, <1>15, <1>16, <1>18, <1>19, OrdinaryInvariant

=============================================================================
