--------------------------- MODULE IthreadsProofs ---------------------------
(***************************************************************************)
(* The steps of Ithreads that end or make a structure keep ItIInv, and     *)
(* what follows from ItIInv: the types, and LivesAreCounted; then what     *)
(* else holds when threads end without objects in their interpreters, and  *)
(* that mutexes are waited for in no circle.                               *)
(***************************************************************************)
EXTENDS IthreadsInvariant

(***************************************************************************)
(* Steps to the end of a structure: p's innermost frame, the (m+1)st, is   *)
(* about x and goes on at "at", with a clear on it if that is "release",   *)
(* or is left ("none").                                                    *)
(***************************************************************************)
EndFrames(p, m, at, x) ==
  /\ stack' \in Stacks /\ \A q \in Actor : q # p => stack'[q] = stack[q]
  /\ at \in Ends \cup {"none"}
  /\ m + 1 \in 1..Len(stack[p]) /\ stack[p] # <<>> /\ Inner(p) = stack[p][m + 1]
  /\ stack[p][m + 1].x = x /\ stack[p][m + 1].at \in Ends \cup {"free", "drop"}
  /\ at \in Ends => m + 1 \in 1..Len(stack'[p]) /\ stack'[p][m + 1] = ItFrame(at, x)
  /\ \A q \in Actor : \A k \in 1..Len(stack'[q]) :
       \/ k \in 1..Len(stack[q]) /\ stack'[q][k] = stack[q][k] /\ (q = p => k <= m)
       \/ q = p /\ k = m + 1 /\ stack'[q][k] = ItFrame(at, x) /\ at \in Ends
       \/ q = p /\ k = m + 2 /\ stack'[q][k] = ItFrame("clear", x) /\ at = "release"
  /\ \A q \in Actor : \A k \in 1..Len(stack[q]) :
       \/ k \in 1..Len(stack'[q]) /\ stack'[q][k] = stack[q][k] /\ (q = p => k <= m)
       \/ q = p /\ k = m + 1

\* x is nobody else's, and has finished.
EndOf(p, m, at, x) ==
  /\ x \in Created
  /\ \A q \in Actor : \A k \in 1..Len(stack[q]) :
       stack[q][k].x = x /\ stack[q][k].at \in Ends => q = p /\ k = m + 1
  /\ Is(x, "NONVIABLE") \/ Unreferenced(x)'
  /\ at # "none" => Is(x, "NONVIABLE") \/ (Is(x, "FINISHED") /\ ~Callable(x))

EndSets(at, x) ==
  /\ \A y : y # x => (y \in freed' <=> y \in freed) /\ (y \in Listed' <=> y \in Listed)
  /\ x \in freed' <=> at \in {"uncount", "none"}
  /\ x \in Alive
  /\ x \in Listed' <=> at = "unlink"
  /\ x \in Listed => at = "unlink" \/ PoolUnlocked
  /\ \A i, j \in DOMAIN list' : list'[i] = list'[j] => i = j
  /\ at # "none" => pool'.total = pool.total
  /\ at = "none" => pool'.total = pool.total - 1

EndRest ==
  /\ \A y \in Actor : thread'[y].state = thread[y].state
  /\ pool'.mutex = pool.mutex /\ pool'.running = pool.running
  /\ pool'.detached = pool.detached /\ pool'.joinable = pool.joinable
  /\ UNCHANGED <<itScenario, obj, tid_counter, process>>

EndStep(p, m, at, x) ==
  EndFrames(p, m, at, x) /\ EndOf(p, m, at, x) /\ EndSets(at, x) /\ EndRest

\* The labels of the frames that such a step moves.
Moved == Ends \cup {"free", "drop", "clear"}

LEMMA EndNew ==
  ASSUME NEW p \in Actor, NEW m \in Nat, NEW at, NEW x, EndFrames(p, m, at, x),
         NEW q \in Actor, NEW k \in 1..Len(stack'[q])
  PROVE  \/ k \in 1..Len(stack[q]) /\ stack'[q][k] = stack[q][k] /\ (q = p => k <= m)
         \/ /\ q = p /\ stack'[q][k].x = x
            /\ \/ k = m + 1 /\ stack'[q][k].at = at /\ at \in Ends
               \/ k = m + 2 /\ stack'[q][k].at = "clear" /\ at = "release"
  BY FrameFields DEF EndFrames

LEMMA EndOld ==
  ASSUME NEW p \in Actor, NEW m \in Nat, NEW at, NEW x, EndFrames(p, m, at, x),
         NEW q \in Actor, NEW k \in 1..Len(stack[q])
  PROVE  \/ k \in 1..Len(stack'[q]) /\ stack'[q][k] = stack[q][k] /\ (q = p => k <= m)
         \/ /\ q = p /\ k = m + 1 /\ stack[q][k].x = x
            /\ stack[q][k].at \in Ends \cup {"free", "drop"}
  BY DEF EndFrames

LEMMA EndSomewhere ==
  ASSUME ItIInv, NEW p \in Actor, NEW m \in Nat, NEW at, NEW x, EndStep(p, m, at, x)
  PROVE  /\ \A c, y : c \notin Moved \/ (c \in Ends /\ y # x) =>
              (Somewhere(ItFrame(c, y))' <=> Somewhere(ItFrame(c, y)))
         /\ \A c \in Ends : Somewhere(ItFrame(c, x))' <=> c = at
<1>1. EndFrames(p, m, at, x) /\ EndOf(p, m, at, x) /\ ItTypeOK
  BY DEF EndStep, ItIInv
<1>2. ASSUME NEW c, NEW y, c \notin Moved \/ (c \in Ends /\ y # x)
      PROVE  Somewhere(ItFrame(c, y))' <=> Somewhere(ItFrame(c, y))
  <2>1. PICK f : f = ItFrame(c, y) /\ f.at = c /\ f.x = y
    BY FrameFields
  <2>2. ASSUME NEW q \in Actor, NEW k \in 1..Len(stack'[q]), stack'[q][k] = f
        PROVE  Somewhere(f)
    <3>1. k \in 1..Len(stack[q]) /\ stack'[q][k] = stack[q][k]
      BY <1>1, <1>2, <2>1, <2>2, EndNew DEF Moved
    <3>. QED BY <2>2, <3>1 DEF Somewhere
  <2>3. ASSUME NEW q \in Actor, NEW k \in 1..Len(stack[q]), stack[q][k] = f
        PROVE  Somewhere(f)'
    <3>1. k \in 1..Len(stack'[q]) /\ stack'[q][k] = stack[q][k]
      BY <1>1, <1>2, <2>1, <2>3, EndOld DEF Moved
    <3>. QED BY <2>3, <3>1 DEF Somewhere
  <2>. QED BY <2>1, <2>2, <2>3 DEF Somewhere
<1>3. ASSUME NEW c \in Ends PROVE Somewhere(ItFrame(c, x))' <=> c = at
  <2>1. PICK f : f = ItFrame(c, x) /\ f.at = c /\ f.x = x
    BY FrameFields
  <2>2. ASSUME NEW q \in Actor, NEW k \in 1..Len(stack'[q]), stack'[q][k] = f
        PROVE  c = at
    <3>1. CASE k \in 1..Len(stack[q]) /\ stack'[q][k] = stack[q][k] /\ (q = p => k <= m)
      <4>1. q = p /\ k = m + 1
        BY <1>1, <1>3, <2>1, <2>2, <3>1 DEF EndOf
      <4>. QED BY <3>1, <4>1
    <3>2. CASE stack'[q][k].at = at
      BY <2>1, <2>2, <3>2
    <3>3. c # "clear"
      BY <1>3 DEF Ends
    <3>. QED BY <1>1, <2>1, <2>2, <3>1, <3>2, <3>3, EndNew
  <2>3. ASSUME c = at PROVE Somewhere(f)'
    <3>1. m + 1 \in 1..Len(stack'[p]) /\ stack'[p][m + 1] = f
      BY <1>1, <1>3, <2>1, <2>3 DEF EndFrames
    <3>. QED BY <3>1 DEF Somewhere
  <2>. QED BY <2>1, <2>2, <2>3 DEF Somewhere
<1>. QED BY <1>2, <1>3

LEMMA ViableAlwaysIs ==
  ItTypeOK => \A x : x \in Viable <=> x \in Created /\ ~Is(x, "NONVIABLE")
               /\ ~Somewhere(ItFrame("clone", x)) /\ ~Somewhere(ItFrame("nonviable", x))
  BY ViableIs

LEMMA ViableThen ==
  (ItTypeOK => \A x : x \in Viable <=> x \in Created /\ ~Is(x, "NONVIABLE")
               /\ ~Somewhere(ItFrame("clone", x)) /\ ~Somewhere(ItFrame("nonviable", x)))'
  BY ViableAlwaysIs, PTL

LEMMA FramesAlwaysAre ==
  ItTypeOK => \A p \in Actor : \A f : f \in Frames(p) <=> \E k \in 1..Len(stack[p]) : stack[p][k] = f
  BY FramesAre

LEMMA FramesThenAre ==
  (ItTypeOK => \A p \in Actor : \A f : f \in Frames(p) <=> \E k \in 1..Len(stack[p]) : stack[p][k] = f)'
  BY FramesAlwaysAre, PTL

LEMMA EndNames ==
  ASSUME ItIInv, ItTypeOK', NEW p \in Actor, NEW m \in Nat, NEW at, NEW x, EndStep(p, m, at, x)
  PROVE  /\ Created' = Created /\ Known' = Known /\ Created \subseteq Actor
         /\ \A y \in Actor : \A c : Is(y, c)' <=> Is(y, c)
         /\ \A y \in Actor : Callable(y)' <=> Callable(y)
         /\ \A y \in Actor : Doomed(y)' <=> Doomed(y)
         /\ \A y \in Actor : Unreferenced(y) => Unreferenced(y)'
         /\ Viable' = Viable /\ p \in Known /\ x \in Actor
<1>1. EndFrames(p, m, at, x) /\ EndOf(p, m, at, x) /\ EndRest /\ ItTypeOK
  BY DEF EndStep, ItIInv
<1>2. Created' = Created /\ Known' = Known /\ Created \subseteq Actor /\ x \in Actor
  BY <1>1, Typed DEF Created, Known, EndRest, EndOf
<1>3. /\ \A y \in Actor : \A c : Is(y, c)' <=> Is(y, c)
      /\ \A y \in Actor : Callable(y)' <=> Callable(y)
  BY <1>1 DEF EndRest, Is, Callable
<1>4. \A y \in Actor : Doomed(y)' <=> Doomed(y)
  <2>1. "nonviable" \notin Moved
    BY DEF Moved, Ends
  <2>. QED BY <1>3, <2>1, EndSomewhere DEF Doomed
<1>5. ASSUME NEW y \in Actor, Unreferenced(y) PROVE Unreferenced(y)'
  <2>1. ~Callable(y)' /\ \A i \in Actor : obj'[i][y] = 0
    BY <1>1, <1>3, <1>5 DEF Unreferenced, EndRest
  <2>2. ASSUME NEW q \in Actor, NEW k \in 1..Len(stack'[q]), stack'[q][k].x = y
        PROVE  stack'[q][k].at \notin Owners
    <3>1. CASE k \in 1..Len(stack[q]) /\ stack'[q][k] = stack[q][k]
      BY <1>5, <2>2, <3>1 DEF Unreferenced
    <3>2. CASE stack'[q][k].at \in Ends \cup {"clear"}
      BY <3>2 DEF Ends, Owners, Owning, Running, OwningTwo
    <3>. QED BY <1>1, <3>1, <3>2, EndNew, SMTT(40)
  <2>. QED BY <2>1, <2>2 DEF Unreferenced
<1>6. Viable' = Viable
  <2>1. "nonviable" \notin Moved /\ "clone" \notin Moved
    BY DEF Moved, Ends
  <2>2. \A y : y \in Viable <=> y \in Created /\ ~Is(y, "NONVIABLE")
               /\ ~Somewhere(ItFrame("clone", y)) /\ ~Somewhere(ItFrame("nonviable", y))
    BY <1>1, ViableIs
  <2>3. \A y : y \in Viable' <=> y \in Created' /\ ~Is(y, "NONVIABLE")'
               /\ ~Somewhere(ItFrame("clone", y))' /\ ~Somewhere(ItFrame("nonviable", y))'
    BY ViableThen
  <2>. QED BY <1>2, <1>3, <2>1, <2>2, <2>3, EndSomewhere
<1>7. p \in Known
  <2>1. stack[p] # <<>>
    BY <1>1 DEF EndFrames
  <2>. QED BY <2>1, RunnerIsCommon
<1>. QED BY <1>2, <1>3, <1>4, <1>5, <1>6, <1>7

\* The steps of the end of a structure (EndStep) keep the parts of the invariant, one
\* lemma for each.
LEMMA EndKeepsKnown ==
  ASSUME ItIInv, ItTypeOK', NEW p \in Actor, NEW m \in Nat, NEW at, NEW x, EndStep(p, m, at, x)
  PROVE  OnlyKnown' /\ WalksAreInList' /\ TotalIsRight' /\ ListIsRight' /\ PoolIsHeld'
<1>1. /\ EndFrames(p, m, at, x) /\ EndOf(p, m, at, x) /\ EndSets(at, x) /\ EndRest /\ ItTypeOK
      /\ x \in Created /\ x \in Known
  BY DEF EndStep, ItIInv, EndOf, Known
<1>2. /\ Created' = Created /\ Known' = Known /\ Created \subseteq Actor
      /\ itScenario' = itScenario /\ obj' = obj /\ pool'.mutex = pool.mutex
      /\ at \in Ends \cup {"none"}
  BY <1>1, EndNames DEF EndRest, EndFrames
<1>3. OnlyKnown'
  <2>1. ASSUME NEW q \in Actor, NEW k \in 1..Len(stack'[q]) PROVE stack'[q][k].x \in Known'
    BY <1>1, <1>2, EndNew DEF ItIInv, OnlyKnown
  <2>2. freed' \subseteq Created'
    BY <1>1, <1>2 DEF EndSets, ItIInv, OnlyKnown
  <2>. QED BY <1>2, <2>1, <2>2 DEF ItIInv, OnlyKnown
<1>4. ASSUME NEW q \in Actor, NEW k \in 1..Len(stack'[q]), stack'[q][k].at \notin Moved
      PROVE  k \in 1..Len(stack[q]) /\ stack'[q][k] = stack[q][k]
  BY <1>1, <1>4, EndNew DEF Moved
<1>5. HavePool \cap Moved = {} /\ (Walks \cup Takes) \cap Moved = {}
  BY WalkLabels DEF HavePool, Moved, Ends
<1>6. PoolIsHeld'
  <2>1. ASSUME NEW q \in Actor, NEW k \in 1..Len(stack'[q]), stack'[q][k].at \in HavePool
        PROVE  pool'.mutex = q
    <3>1. k \in 1..Len(stack[q]) /\ stack'[q][k] = stack[q][k]
      BY <1>4, <1>5, <2>1
    <3>. QED BY <1>2, <2>1, <3>1 DEF ItIInv, PoolIsHeld, HavePool
  <2>. QED BY <2>1 DEF PoolIsHeld, HavePool
<1>7. WalksAreInList'
  <2>1. ASSUME NEW q \in Actor, NEW k \in 1..Len(stack'[q]), stack'[q][k].at \in Walks \cup Takes
        PROVE  stack'[q][k].x \in Listed' /\ itScenario'[q] \cap {"list", "object"} # {}
    <3>1. k \in 1..Len(stack[q]) /\ stack'[q][k] = stack[q][k]
      BY <1>4, <1>5, <2>1
    <3>2. stack[q][k].x \in Listed /\ itScenario[q] \cap {"list", "object"} # {}
      BY <2>1, <3>1 DEF ItIInv, WalksAreInList
    <3>3. pool.mutex = q /\ q # NoActor
      BY <2>1, <3>1, ItConstants DEF ItIInv, PoolIsHeld
    <3>4. ~PoolUnlocked
      BY <3>3 DEF PoolUnlocked
    <3>. QED BY <1>1, <1>2, <3>1, <3>2, <3>4 DEF EndSets
  <2>. QED BY <2>1 DEF WalksAreInList
<1>8. TotalIsRight'
  <2>1. \A y : y # x => (Somewhere(ItFrame("uncount", y))' <=> Somewhere(ItFrame("uncount", y)))
    BY EndSomewhere DEF Ends
  <2>2. Somewhere(ItFrame("uncount", x))' <=> at = "uncount"
    BY EndSomewhere DEF Ends
  <2>3. \A y : y \in Alive' <=> y \in Alive /\ (y = x => at # "none")
    BY <1>1, <1>2, <2>1, <2>2 DEF Alive, EndSets
  <2>4. IsFiniteSet(Alive) /\ x \in Alive /\ pool.total = Cardinality(Alive)
    BY <1>1, Typed, FS_Subset DEF Alive, EndSets, ItIInv, TotalIsRight
  <2>5. CASE at = "none"
    <3>1. Cardinality(Alive') = Cardinality(Alive) - 1
      BY <2>3, <2>4, <2>5, OneLess
    <3>. QED BY <1>1, <2>4, <2>5, <3>1 DEF TotalIsRight, EndSets
  <2>6. CASE at # "none"
    <3>1. Alive' = Alive
      BY <2>3, <2>6
    <3>. QED BY <1>1, <2>4, <2>6, <3>1 DEF TotalIsRight, EndSets
  <2>. QED BY <2>5, <2>6
<1>9. ListIsRight'
  <2>1. ASSUME NEW y \in Actor, y # x
        PROVE  y \in Listed' <=> y \in Created' /\ ~Unlinked(y)'
    <3>1. Unlinked(y)' <=> Unlinked(y)
      BY <1>1, <2>1, EndSomewhere DEF Unlinked, EndSets, Ends
    <3>. QED BY <1>1, <1>2, <2>1, <3>1 DEF EndSets, ItIInv, ListIsRight
  <2>2. x \in Listed' <=> x \in Created' /\ ~Unlinked(x)'
    <3>1. /\ Somewhere(ItFrame("dispose", x))' <=> at = "dispose"
          /\ Somewhere(ItFrame("release", x))' <=> at = "release"
      BY EndSomewhere DEF Ends
    <3>2. Unlinked(x)' <=> at \in {"uncount", "none", "dispose", "release"}
      BY <1>1, <3>1 DEF Unlinked, EndSets
    <3>. QED BY <1>1, <1>2, <3>2 DEF EndSets, Ends
  <2>3. \A i, j \in DOMAIN list' : list'[i] = list'[j] => i = j
    BY <1>1 DEF EndSets
  <2>. QED BY <2>1, <2>2, <2>3 DEF ListIsRight
<1>. QED BY <1>3, <1>6, <1>7, <1>8, <1>9

LEMMA EndKeepsClones ==
  ASSUME ItIInv, ItTypeOK', NEW p \in Actor, NEW m \in Nat, NEW at, NEW x, EndStep(p, m, at, x)
  PROVE  CloneIsFresh'
<1>1. /\ EndFrames(p, m, at, x) /\ EndRest /\ ItTypeOK /\ x \in Actor /\ Created' = Created
      /\ obj' = obj
  BY EndNames DEF EndStep, ItIInv, EndRest
<1>2. "clone" \notin Moved
  BY DEF Moved, Ends
<1>3. ASSUME NEW q \in Actor, NEW k \in 1..Len(stack'[q]), stack'[q][k].at = "clone"
      PROVE  MadeBy(q, k, stack[q][k].x)'
  <2>1. k \in 1..Len(stack[q]) /\ stack'[q][k] = stack[q][k]
    <3>1. \/ k \in 1..Len(stack[q]) /\ stack'[q][k] = stack[q][k]
          \/ stack'[q][k].at \in Ends \cup {"clear"}
      <4>1. EndFrames(p, m, at, x)
        BY <1>1
      <4>2. \/ k \in 1..Len(stack[q]) /\ stack'[q][k] = stack[q][k] /\ (q = p => k <= m)
            \/ /\ q = p /\ stack'[q][k].x = x
               /\ \/ k = m + 1 /\ stack'[q][k].at = at /\ at \in Ends
                  \/ k = m + 2 /\ stack'[q][k].at = "clear" /\ at = "release"
        BY <4>1, EndNew
      <4>. QED BY ONLY <4>2
    <3>2. "clone" \notin Ends \cup {"clear"}
      BY DEF Ends
    <3>. QED BY ONLY <1>3, <3>1, <3>2
  <2>2. PICK y \in Actor : y = stack[q][k].x
    BY <1>1, <2>1, Typed
  <2>3. MadeBy(q, k, y)
    BY <1>3, <2>1, <2>2 DEF ItIInv, CloneIsFresh
  <2>4. y # p
    BY <1>1, <2>3 DEF MadeBy, EndFrames
  <2>5. y # x
    <3>1. /\ stack[p][m + 1].x = x /\ m + 1 \in 1..Len(stack[p])
          /\ stack[p][m + 1].at \in Ends \cup {"free", "drop"}
      BY <1>1 DEF EndFrames
    <3>2. ASSUME y = x PROVE FALSE
      <4>1. p = q /\ m + 1 = k
        BY <2>3, <3>1, <3>2 DEF MadeBy
      <4>. QED BY <1>3, <2>1, <3>1, <4>1 DEF Ends
    <3>. QED BY <3>2
  <2>6. ASSUME NEW r \in Actor, NEW l \in 1..Len(stack'[r]), stack'[r][l].x = y
        PROVE  r = q /\ l = k
    <3>1. l \in 1..Len(stack[r]) /\ stack'[r][l] = stack[r][l]
      BY <1>1, <2>5, <2>6, EndNew
    <3>. QED BY <2>3, <2>6, <3>1 DEF MadeBy
  <2>7. /\ y \in Created' /\ thread'[y].state = {} /\ stack'[y] = <<>>
        /\ \A z \in Actor : obj'[y][z] = 0 /\ obj'[z][y] = 0
    BY <1>1, <2>3, <2>4 DEF MadeBy, EndFrames, EndRest
  <2>8. MadeBy(q, k, y)'
    BY <2>6, <2>7 DEF MadeBy
  <2>. QED BY <2>1, <2>2, <2>8
<1>. QED BY <1>3 DEF CloneIsFresh

LEMMA EndKeepsEnds ==
  ASSUME ItIInv, ItTypeOK', NEW p \in Actor, NEW m \in Nat, NEW at, NEW x, EndStep(p, m, at, x)
  PROVE  EndIsOne' /\ EndIsLast' /\ AssertionsHold'
<1>1. /\ EndFrames(p, m, at, x) /\ EndOf(p, m, at, x) /\ EndSets(at, x) /\ EndRest
      /\ ItTypeOK /\ x \in Actor /\ Created' = Created /\ x \in Created
      /\ \A y \in Actor : \A c : Is(y, c)' <=> Is(y, c)
      /\ \A y \in Actor : Callable(y)' <=> Callable(y)
      /\ \A y \in Actor : Unreferenced(y) => Unreferenced(y)'
  BY EndNames DEF EndStep, ItIInv, EndOf
<1>2. ASSUME NEW q \in Actor, NEW k \in 1..Len(stack'[q]), stack'[q][k].at \in Ends
      PROVE  \/ /\ k \in 1..Len(stack[q]) /\ stack'[q][k] = stack[q][k]
                /\ stack'[q][k].x # x
             \/ q = p /\ k = m + 1 /\ stack'[q][k].x = x /\ stack'[q][k].at = at
  <2>1. CASE k \in 1..Len(stack[q]) /\ stack'[q][k] = stack[q][k] /\ (q = p => k <= m)
    <3>1. ~(q = p /\ k = m + 1)
      BY <2>1
    <3>. QED BY <1>1, <1>2, <2>1, <3>1 DEF EndOf
  <2>2. "clear" \notin Ends
    BY DEF Ends
  <2>. QED BY <1>1, <1>2, <2>1, <2>2, EndNew
<1>3. EndIsOne'
  <2>1. ASSUME NEW q \in Actor, NEW r \in Actor, NEW k \in 1..Len(stack'[q]),
               NEW l \in 1..Len(stack'[r]), stack'[q][k].at \in Ends, stack'[r][l].at \in Ends,
               stack'[q][k].x = stack'[r][l].x
        PROVE  q = r /\ k = l
    <3>1. CASE stack'[q][k].x = x
      BY <1>2, <2>1, <3>1
    <3>2. CASE stack'[q][k].x # x
      <4>1. /\ k \in 1..Len(stack[q]) /\ stack'[q][k] = stack[q][k]
            /\ l \in 1..Len(stack[r]) /\ stack'[r][l] = stack[r][l]
        BY <1>2, <2>1, <3>2
      <4>. QED BY <2>1, <4>1 DEF ItIInv, EndIsOne
    <3>. QED BY <3>1, <3>2
  <2>. QED BY <2>1 DEF EndIsOne
<1>4. EndIsLast'
  <2>1. ASSUME NEW q \in Actor, NEW k \in 1..Len(stack'[q]), stack'[q][k].at \in Ends,
               NEW y, y = stack'[q][k].x
        PROVE  /\ y \in Created' /\ (Is(y, "NONVIABLE")' \/ Unreferenced(y)')
               /\ (y \in freed' <=> stack'[q][k].at = "uncount")
    <3>2. CASE /\ k \in 1..Len(stack[q]) /\ stack'[q][k] = stack[q][k]
               /\ stack'[q][k].x # x
      <4>1. /\ y \in Created /\ (Is(y, "NONVIABLE") \/ Unreferenced(y))
            /\ (y \in freed <=> stack[q][k].at = "uncount")
        BY <2>1, <3>2 DEF ItIInv, EndIsLast
      <4>2. y \in Actor /\ (y \in freed' <=> y \in freed)
        BY <1>1, <2>1, <3>2, Typed DEF EndSets
      <4>. QED BY <1>1, <2>1, <3>2, <4>1, <4>2
    <3>3. CASE q = p /\ k = m + 1 /\ stack'[q][k].x = x /\ stack'[q][k].at = at
      <4>2. x \in freed' <=> at = "uncount"
        BY <1>1, <2>1, <3>3 DEF EndSets, Ends
      <4>3. Is(x, "NONVIABLE")' \/ Unreferenced(x)'
        BY <1>1 DEF EndOf
      <4>4. y = x
        BY <2>1, <3>3
      <4>. QED BY <1>1, <3>3, <4>2, <4>3, <4>4
    <3>. QED BY <1>2, <2>1, <3>2, <3>3
  <2>2. ASSUME NEW y \in freed' PROVE Is(y, "NONVIABLE")' \/ Unreferenced(y)'
    <3>1. CASE y = x
      BY <1>1, <3>1 DEF EndOf
    <3>2. CASE y # x
      <4>1. y \in freed /\ y \in Actor
        BY <1>1, <2>2, <3>2, ItConstants DEF EndSets, ItIInv, ItTypeOK
      <4>2. Is(y, "NONVIABLE") \/ Unreferenced(y)
        BY <4>1 DEF ItIInv, EndIsLast
      <4>. QED BY <1>1, <4>1, <4>2
    <3>. QED BY <3>1, <3>2
  <2>. QED BY <2>1, <2>2 DEF EndIsLast
<1>5. AssertionsHold'
  <2>1. ASSUME NEW q \in Actor, NEW k \in 1..Len(stack'[q]),
               stack'[q][k].at \in {"clear", "unlink", "dispose", "release"},
               NEW y, y = stack'[q][k].x
        PROVE  Is(y, "NONVIABLE")' \/ (Is(y, "FINISHED")' /\ ~Callable(y)')
    <3>1. CASE k \in 1..Len(stack[q]) /\ stack'[q][k] = stack[q][k]
      <4>1. y \in Actor
        BY <1>1, <2>1, <3>1, Typed
      <4>3. Is(y, "NONVIABLE") \/ (Is(y, "FINISHED") /\ ~Callable(y))
        BY <1>1, <2>1, <3>1, FramesAre DEF ItIInv, AssertionsHold
      <4>. QED BY <1>1, <4>1, <4>3
    <3>2. CASE y = x /\ at # "none"
      <4>1. Is(x, "NONVIABLE") \/ (Is(x, "FINISHED") /\ ~Callable(x))
        BY <1>1, <3>2 DEF EndOf
      <4>. QED BY <1>1, <3>2, <4>1
    <3>3. "none" \notin Ends /\ "none" # "release"
      BY DEF Ends
    <3>4. \/ k \in 1..Len(stack[q]) /\ stack'[q][k] = stack[q][k]
          \/ y = x /\ at # "none"
      BY <1>1, <2>1, <3>3, EndNew
    <3>. QED BY <3>1, <3>2, <3>4
  <2>2. ASSUME NEW q \in Actor, NEW f \in Frames(q)',
               f.at \in {"clear", "unlink", "dispose", "release"}
        PROVE  Is(f.x, "NONVIABLE")' \/ (Is(f.x, "FINISHED")' /\ ~Callable(f.x)')
    <3>1. PICK k \in 1..Len(stack'[q]) : f = stack'[q][k]
      BY <2>2, FramesThenAre
    <3>. QED BY <2>1, <2>2, <3>1
  <2>. QED BY <2>2 DEF AssertionsHold
<1>. QED BY <1>3, <1>4, <1>5

LEMMA EndKeepsDoomed ==
  ASSUME ItIInv, ItTypeOK', NEW p \in Actor, NEW m \in Nat, NEW at, NEW x, EndStep(p, m, at, x)
  PROVE  DoomedIsAlone'
<1>1. /\ EndFrames(p, m, at, x) /\ EndSets(at, x) /\ EndRest /\ ItTypeOK /\ x \in Actor
      /\ Created' = Created /\ \A y \in Actor : Doomed(y)' <=> Doomed(y)
      /\ itScenario' = itScenario /\ obj' = obj /\ stack' \in Stacks /\ stack \in Stacks
  <2>1. EndFrames(p, m, at, x) /\ EndSets(at, x) /\ EndRest /\ ItTypeOK
    BY DEF EndStep, ItIInv
  <2>2. x \in Actor /\ Created' = Created /\ \A y \in Actor : Doomed(y)' <=> Doomed(y)
    BY EndNames
  <2>3. itScenario' = itScenario /\ obj' = obj
    BY <2>1 DEF EndRest
  <2>4. stack' \in Stacks /\ stack \in Stacks
    BY <2>1 DEF EndFrames, ItTypeOK, Stacks, FrameSet
  <2>. QED BY <2>1, <2>2, <2>3, <2>4
<1> SUFFICES ASSUME NEW y \in Actor, Doomed(y)'
             PROVE  /\ y \in Created' /\ stack'[y] = <<>> /\ \A i \in Actor : obj'[i][y] = 0
                    /\ \E q \in Actor : DoomedBy(q, y)'
  BY DEF DoomedIsAlone
<1>2. y \in Created /\ stack[y] = <<>> /\ \A i \in Actor : obj[i][y] = 0
  BY <1>1 DEF ItIInv, DoomedIsAlone
<1>3. PICK r \in Actor : DoomedBy(r, y)
  BY <1>1 DEF ItIInv, DoomedIsAlone
<1>4. y # p /\ stack'[y] = <<>>
  BY <1>1, <1>2 DEF EndFrames
<1>5. /\ \A q \in Actor : Len(stack[q]) \in Nat /\ Len(stack'[q]) \in Nat
      /\ \A q \in Actor : (2 \in 1..Len(stack[q]) <=> Len(stack[q]) > 1)
                          /\ (2 \in 1..Len(stack'[q]) <=> Len(stack'[q]) > 1)
  BY <1>1, SeqDomain
<1>6. CASE y # x
  <2>1. ASSUME NEW q \in Actor, NEW k \in 1..Len(stack'[q]), stack'[q][k].x = y
        PROVE  k \in 1..Len(stack[q]) /\ stack'[q][k] = stack[q][k]
    <3>1. \/ k \in 1..Len(stack[q]) /\ stack'[q][k] = stack[q][k]
          \/ stack'[q][k].x = x
      <4>1. EndFrames(p, m, at, x)
        BY <1>1
      <4>2. \/ k \in 1..Len(stack[q]) /\ stack'[q][k] = stack[q][k] /\ (q = p => k <= m)
            \/ /\ q = p /\ stack'[q][k].x = x
               /\ \/ k = m + 1 /\ stack'[q][k].at = at /\ at \in Ends
                  \/ k = m + 2 /\ stack'[q][k].at = "clear" /\ at = "release"
        BY <4>1, EndNew
      <4>. QED BY ONLY <4>2
    <3>. QED BY ONLY <1>6, <2>1, <3>1
  <2>2. ASSUME NEW q \in Actor, NEW k \in 1..Len(stack[q]), stack[q][k].x = y
        PROVE  k \in 1..Len(stack'[q]) /\ stack'[q][k] = stack[q][k]
    BY <1>1, <1>6, <2>2, EndOld
  <2>3. y \in Listed' <=> y \in Listed
    BY <1>1, <1>6 DEF EndSets
  <2>4. DoomedBy(r, y)'
    <3>1. ASSUME NEW q \in Actor, NEW k \in 1..Len(stack'[q]), stack'[q][k].x = y
          PROVE  /\ q = r
                 /\ \/ k = 2 /\ stack'[q][k].at \in {"nonviable", "free"} \cup Ends
                    \/ k = 3 /\ stack'[q][k].at = "clear"
      BY <1>3, <2>1, <3>1 DEF DoomedBy
    <3>2. y \in Listed' <=> /\ Len(stack'[r]) > 1 /\ stack'[r][2].x = y
                            /\ stack'[r][2].at \in {"nonviable", "free", "unlink"}
      BY <1>3, <1>5, <2>1, <2>2, <2>3 DEF DoomedBy
    <3>. QED BY <1>1, <1>3, <3>1, <3>2 DEF DoomedBy
  <2>. QED BY <1>1, <1>2, <1>4, <2>4
<1>7. CASE y = x
  <2>1. /\ stack[p][m + 1].x = y /\ m + 1 \in 1..Len(stack[p])
        /\ stack[p][m + 1].at \in Ends \cup {"free", "drop"}
    BY <1>1, <1>7 DEF EndFrames
  <2>2. r = p /\ m = 1
    <3>1. r = p /\ (m + 1 = 2 \/ (m + 1 = 3 /\ stack[p][m + 1].at = "clear"))
      BY <1>3, <2>1 DEF DoomedBy
    <3>2. stack[p][m + 1].at # "clear"
      BY <2>1 DEF Ends
    <3>. QED BY <3>1, <3>2
  <2>3. ASSUME NEW q \in Actor, NEW k \in 1..Len(stack'[q]), stack'[q][k].x = y
        PROVE  /\ q = p
               /\ \/ k = 2 /\ stack'[q][k].at = at /\ at \in Ends
                  \/ k = 3 /\ stack'[q][k].at = "clear"
    <3>1. CASE k \in 1..Len(stack[q]) /\ stack'[q][k] = stack[q][k] /\ (q = p => k <= m)
      <4>1. q = p /\ (k = 2 \/ k = 3)
        BY <1>3, <2>2, <2>3, <3>1 DEF DoomedBy
      <4>. QED BY <2>2, <3>1, <4>1
    <3>2. CASE /\ q = p
               /\ \/ k = m + 1 /\ stack'[q][k].at = at /\ at \in Ends
                  \/ k = m + 2 /\ stack'[q][k].at = "clear" /\ at = "release"
      BY <2>2, <3>2
    <3>. QED BY <1>1, <3>1, <3>2, EndNew
  <2>4. ASSUME at = "unlink" PROVE 2 \in 1..Len(stack'[p]) /\ stack'[p][2] = ItFrame("unlink", x)
    BY <1>1, <2>2, <2>4 DEF EndFrames, Ends
  <2>5. y \in Listed' <=> /\ Len(stack'[p]) > 1 /\ stack'[p][2].x = y
                          /\ stack'[p][2].at \in {"nonviable", "free", "unlink"}
    <3>1. y \in Listed' <=> at = "unlink"
      BY <1>1, <1>7 DEF EndSets
    <3>2. ASSUME at = "unlink"
          PROVE  Len(stack'[p]) > 1 /\ stack'[p][2].x = y /\ stack'[p][2].at = "unlink"
      BY <1>5, <1>7, <2>4, <3>2, FrameFields
    <3>3. ASSUME Len(stack'[p]) > 1, stack'[p][2].x = y,
                 stack'[p][2].at \in {"nonviable", "free", "unlink"}
          PROVE  at = "unlink"
      <4>1. 2 \in 1..Len(stack'[p])
        BY <1>5, <3>3
      <4>2. stack'[p][2].at = at /\ at \in Ends
        BY <2>3, <3>3, <4>1
      <4>. QED BY <3>3, <4>2 DEF Ends
    <3>. QED BY <3>1, <3>2, <3>3
  <2>6. DoomedBy(p, y)'
    BY <1>1, <1>3, <2>2, <2>3, <2>5 DEF DoomedBy
  <2>. QED BY <1>1, <1>2, <1>4, <2>6
<1>. QED BY <1>6, <1>7

LEMMA EndKeepsMarks ==
  ASSUME ItIInv, ItTypeOK', NEW p \in Actor, NEW m \in Nat, NEW at, NEW x, EndStep(p, m, at, x)
  PROVE  RunsAreMarked' /\ JoinsAreMarked' /\ CleanedAlone' /\ CountersAreRight'
<1>1. /\ EndFrames(p, m, at, x) /\ EndRest /\ ItTypeOK /\ stack' \in Stacks
      /\ Created' = Created /\ Created \subseteq Actor /\ \A y \in Actor : Doomed(y)' <=> Doomed(y)
      /\ \A y \in Actor : \A c : Is(y, c)' <=> Is(y, c)
      /\ \A y \in Actor : Callable(y)' <=> Callable(y)
      /\ itScenario' = itScenario /\ obj' = obj /\ process' = process /\ Viable' = Viable
      /\ at \in Ends \cup {"none"} /\ Viable \subseteq Actor
  <2>1. EndFrames(p, m, at, x) /\ EndRest /\ ItTypeOK
    BY DEF EndStep, ItIInv
  <2>2. /\ Created' = Created /\ Created \subseteq Actor
        /\ \A y \in Actor : Doomed(y)' <=> Doomed(y)
        /\ \A y \in Actor : \A c : Is(y, c)' <=> Is(y, c)
        /\ \A y \in Actor : Callable(y)' <=> Callable(y)
        /\ Viable' = Viable
    BY EndNames
  <2>3. itScenario' = itScenario /\ obj' = obj /\ process' = process
    BY <2>1 DEF EndRest
  <2>4. stack' \in Stacks /\ at \in Ends \cup {"none"}
    BY <2>1 DEF EndFrames
  <2>5. Viable \subseteq Actor
    BY <2>2 DEF Viable
  <2>. QED BY <2>1, <2>2, <2>3, <2>4, <2>5
<1>2. /\ \A y : Somewhere(ItFrame("clone", y))' <=> Somewhere(ItFrame("clone", y))
      /\ \A y : Somewhere(ItFrame("join", y))' <=> Somewhere(ItFrame("join", y))
  <2>1. "clone" \notin Moved /\ "join" \notin Moved
    BY DEF Moved, Ends
  <2>. QED BY <2>1, EndSomewhere
<1>3. RunsAreMarked'
  <2>1. thread'[Main].state = {"DETACHED"}
    BY <1>1, ItConstants DEF EndRest, ItIInv, RunsAreMarked
  <2>2. ASSUME NEW y \in Created
        PROVE  IF stack'[y] # <<>>
               THEN Is(y, "FINISHED")' <=> stack'[y][1].at \notin Stages
               ELSE Is(y, "FINISHED")' \/ Doomed(y)' \/ Somewhere(ItFrame("clone", y))'
    <3>1. IF stack[y] # <<>>
          THEN Is(y, "FINISHED") <=> stack[y][1].at \notin Stages
          ELSE Is(y, "FINISHED") \/ Doomed(y) \/ Somewhere(ItFrame("clone", y))
      BY <2>2 DEF ItIInv, RunsAreMarked
    <3>2. CASE y # p
      <4>1. stack'[y] = stack[y]
        BY <1>1, <3>2 DEF EndFrames
      <4>. QED BY <1>1, <1>2, <3>1, <4>1
    <3>3. CASE y = p
      <4>1. /\ stack[p] # <<>> /\ m + 1 \in 1..Len(stack[p])
            /\ stack[p][m + 1].at \in Ends \cup {"free", "drop"}
            /\ 1 \in 1..Len(stack[p])
        BY <1>1 DEF EndFrames
      <4>2. CASE m = 0
        <5>1. Is(p, "FINISHED")
          BY <3>1, <3>3, <4>1, <4>2 DEF Stages, Ends
        <5>2. ASSUME stack'[p] # <<>> PROVE stack'[p][1].at \notin Stages
          <6>1. 1 \in 1..Len(stack'[p])
            BY <1>1, <5>2, SeqDomain
          <6>2. stack'[p][1].at \in Ends
            BY <1>1, <4>2, <6>1, EndNew
          <6>. QED BY <6>2 DEF Stages, Ends
        <5>. QED BY <1>1, <3>3, <5>1, <5>2
      <4>3. CASE m # 0
        <5>1. 1 \in 1..Len(stack'[p]) /\ stack'[p][1] = stack[p][1]
          BY <1>1, <4>1, <4>3, EndOld
        <5>2. stack'[p] # <<>>
          BY <1>1, <5>1, SeqDomain
        <5>. QED BY <1>1, <3>1, <3>3, <4>1, <5>1, <5>2
      <4>. QED BY <4>2, <4>3
    <3>. QED BY <3>2, <3>3
  <2>. QED BY <1>1, <2>1, <2>2 DEF RunsAreMarked
<1>4. ASSUME NEW q \in Actor, NEW k \in 1..Len(stack'[q]), stack'[q][k].at \notin Moved
      PROVE  k \in 1..Len(stack[q]) /\ stack'[q][k] = stack[q][k]
  BY <1>1, <1>4, EndNew DEF Moved
<1>5. ({"join", "join_wait", "detached", "detach"} \cup Takes) \cap Moved = {}
  BY WalkLabels DEF Moved, Ends
<1>6. JoinsAreMarked'
  <2>1. ASSUME NEW q \in Actor, NEW k \in 1..Len(stack'[q]), NEW y, y = stack'[q][k].x
        PROVE  /\ stack'[q][k].at \in {"join", "join_wait"} => Is(y, "JOINED")'
               /\ stack'[q][k].at = "detached" => Is(y, "DETACHED")'
               /\ stack'[q][k].at = "detach" => obj'[q][y] > 0 \/ y = q
               /\ stack'[q][k].at \in Takes => Callable(y)' \/ Somewhere(ItFrame("join", y))'
    <3>1. CASE k \in 1..Len(stack[q]) /\ stack'[q][k] = stack[q][k]
      <4>1. y \in Actor
        BY <1>1, <2>1, <3>1, Typed
      <4>2. /\ stack[q][k].at \in {"join", "join_wait"} => Is(y, "JOINED")
            /\ stack[q][k].at = "detached" => Is(y, "DETACHED")
            /\ stack[q][k].at = "detach" => obj[q][y] > 0 \/ y = q
            /\ stack[q][k].at \in Takes => Callable(y) \/ Somewhere(ItFrame("join", y))
        BY <2>1, <3>1 DEF ItIInv, JoinsAreMarked
      <4>. QED BY <1>1, <1>2, <3>1, <4>1, <4>2
    <3>2. CASE stack'[q][k].at \in Moved
      BY <1>5, <3>2
    <3>. QED BY <1>4, <2>1, <3>1, <3>2
  <2>2. ASSUME NEW q \in Actor, NEW r \in Actor, NEW k \in 1..Len(stack'[q]),
               NEW l \in 1..Len(stack'[r]), stack'[q][k].at = "join",
               stack'[r][l] = stack'[q][k]
        PROVE  q = r /\ k = l
    <3>1. /\ k \in 1..Len(stack[q]) /\ stack'[q][k] = stack[q][k]
          /\ l \in 1..Len(stack[r]) /\ stack'[r][l] = stack[r][l]
      BY <1>4, <1>5, <2>2
    <3>. QED BY <2>2, <3>1 DEF ItIInv, JoinsAreMarked
  <2>. QED BY <2>1, <2>2 DEF JoinsAreMarked
<1>7. CleanedAlone'
  <2>1. stack[p] # <<>> /\ Inner(p).at # "gone"
    BY <1>1 DEF EndFrames, Ends
  <2>. QED BY <1>1, <2>1, CleanedStays
<1>8. CountersAreRight'
  <2>1. \A y \in Viable :
           /\ Is(y, "FINISHED")' <=> Is(y, "FINISHED")
           /\ Is(y, "DETACHED")' <=> Is(y, "DETACHED")
           /\ (Is(y, "JOINED") /\ ~Somewhere(ItFrame("join", y)))' <=>
                Is(y, "JOINED") /\ ~Somewhere(ItFrame("join", y))
    BY <1>1, <1>2
  <2>2. /\ pool'.running = pool.running /\ pool'.detached = pool.detached
        /\ pool'.joinable = pool.joinable
    BY <1>1 DEF EndRest
  <2>. QED BY <1>1, <2>1, <2>2, CountersStay
<1>. QED BY <1>3, <1>6, <1>7, <1>8

LEMMA EndInvariant ==
  ASSUME ItIInv, ItTypeOK', NEW p \in Actor, NEW m \in Nat, NEW at, NEW x, EndStep(p, m, at, x),
         ShapeOf(stack'), CountsReferences'
  PROVE  ItIInv'
<1>1. Shape'
  BY DEF Shape, ShapeOf
<1>2. OnlyKnown' /\ WalksAreInList' /\ TotalIsRight' /\ ListIsRight' /\ PoolIsHeld'
  BY EndKeepsKnown
<1>3. CloneIsFresh' /\ DoomedIsAlone' /\ EndIsOne' /\ EndIsLast' /\ AssertionsHold'
  BY EndKeepsClones, EndKeepsDoomed, EndKeepsEnds
<1>4. RunsAreMarked' /\ JoinsAreMarked' /\ CleanedAlone' /\ CountersAreRight'
  BY EndKeepsMarks
<1>. QED BY <1>1, <1>2, <1>3, <1>4 DEF ItIInv

\* The frames of such a step, with what they owned.
EndTop(p, m, was, at, x) ==
  /\ EndFrames(p, m, at, x) /\ ShapeOf(stack')
  /\ \A y : /\ Held(stack', y) = Held(stack, y) - Weight(ItFrame(was, x), y)
            /\ Held(stack, y) \in Nat

LEMMA EndPlace ==
  ASSUME ItIInv, NEW p \in Actor, NEW was \in Ends \cup {"free", "drop"}, Now(p, was)
  PROVE  /\ stack \in Stacks /\ stack[p] # <<>> /\ Len(stack[p]) \in 1..Len(stack[p])
         /\ stack[p][Len(stack[p])].at = was /\ stack[p][Len(stack[p])].x = Target(p)
         /\ Target(p) \in Actor /\ Inner(p) = stack[p][Len(stack[p])]
         /\ Len(stack[p]) = 1 => p # Main /\ Target(p) = p
         /\ Len(stack[p]) > 1 => stack[p][Len(stack[p]) - 1].at \in {"code", "clear"}
<1>1. /\ ItTypeOK /\ Shape /\ ShapeOf(stack)
  BY ShapeIs DEF ItIInv
<1>2. /\ stack \in Stacks /\ stack[p] # <<>> /\ Len(stack[p]) \in 1..Len(stack[p])
      /\ stack[p][Len(stack[p])].at = was /\ stack[p][Len(stack[p])].x = Target(p)
      /\ Target(p) \in Actor
  BY <1>1, TopFrame
<1>3. was \notin {"code", "gone", "clear"}
  BY DEF Ends
<1>4. ASSUME Len(stack[p]) = 1 PROVE p # Main /\ Target(p) = p
  BY <1>1, <1>2, <1>3, <1>4 DEF Shape, IsBottom
<1>5. ASSUME Len(stack[p]) > 1 PROVE stack[p][Len(stack[p]) - 1].at \in {"code", "clear"}
  <2>1. Len(stack[p]) \in 2..Len(stack[p])
    BY <1>2, <1>5
  <2>2. MayLie(stack[p][Len(stack[p])], stack[p][Len(stack[p]) - 1])
    BY <1>1, <2>1 DEF Shape
  <2>. QED BY <1>2, <1>3, <2>2 DEF MayLie
<1>. QED BY <1>2, <1>4, <1>5 DEF Inner

LEMMA EndRelabels ==
  ASSUME ItIInv, NEW p \in Actor, NEW was \in Ends \cup {"free", "drop"}, Now(p, was),
         NEW at \in Ends, NEW x \in Actor, x = Target(p), GotoAt(p, at, x)
  PROVE  \E m \in Nat : EndTop(p, m, was, at, x)
<1>1. /\ stack \in Stacks /\ stack[p] # <<>> /\ Len(stack[p]) \in 1..Len(stack[p])
      /\ stack[p][Len(stack[p])].at = was /\ stack[p][Len(stack[p])].x = x
      /\ Inner(p) = stack[p][Len(stack[p])]
      /\ Len(stack[p]) = 1 => p # Main /\ x = p
      /\ Len(stack[p]) > 1 => stack[p][Len(stack[p]) - 1].at \in {"code", "clear"}
  BY EndPlace
<1>2. PICK m \in Nat : m = Len(stack[p]) - 1
  <2>1. Len(stack[p]) \in Nat /\ Len(stack[p]) > 0
    BY <1>1, SeqDomain
  <2>. QED BY <2>1
<1>3. m + 1 = Len(stack[p]) /\ Len(stack[p]) \in Nat
  BY <1>1, <1>2
<1>4. PICK f : f = ItFrame(at, x) /\ f.at = at /\ f.x = x
  BY FrameFields
<1>5. Relabeled(p, ItFrame(was, Target(p)), f, m)
  <2>1. at \in Labels
    BY DEF Labels, Ends
  <2>2. Now(p, was) /\ GotoAt(p, at, x) /\ f = ItFrame(at, x)
    BY <1>4
  <2>. QED BY ONLY ItIInv, <1>2, <2>1, <2>2, p \in Actor, x \in Actor, m \in Nat, Relabels
<1>6. /\ stack' \in Stacks /\ Replaced(stack, stack', p, f)
      /\ \A q \in Actor : q # p => stack'[q] = stack[q]
      /\ Len(stack'[p]) = Len(stack[p]) /\ stack'[p][Len(stack[p])] = f
      /\ HeldMoves(ItFrame(was, Target(p)), f)
  BY <1>5 DEF Relabeled
<1>7. ASSUME NEW k \in 1..Len(stack[p]), k # m + 1
      PROVE  k \in 1..Len(stack'[p]) /\ stack'[p][k] = stack[p][k] /\ k <= m
  BY <1>3, <1>6, <1>7 DEF Replaced
<1>8. EndFrames(p, m, at, x)
  <2>1. m + 1 \in 1..Len(stack[p]) /\ m + 1 \in 1..Len(stack'[p])
    BY <1>1, <1>3, <1>6
  <2>2. stack'[p][m + 1] = ItFrame(at, x) /\ Inner(p) = stack[p][m + 1]
        /\ stack[p][m + 1].x = x /\ stack[p][m + 1].at = was
    BY <1>1, <1>3, <1>4, <1>6
  <2>3. ASSUME NEW q \in Actor, NEW k \in 1..Len(stack'[q])
        PROVE  \/ k \in 1..Len(stack[q]) /\ stack'[q][k] = stack[q][k] /\ (q = p => k <= m)
               \/ q = p /\ k = m + 1 /\ stack'[q][k] = ItFrame(at, x) /\ at \in Ends
    BY <1>6, <1>7, <2>2
  <2>4. ASSUME NEW q \in Actor, NEW k \in 1..Len(stack[q])
        PROVE  \/ k \in 1..Len(stack'[q]) /\ stack'[q][k] = stack[q][k] /\ (q = p => k <= m)
               \/ q = p /\ k = m + 1
    BY <1>6, <1>7
  <2>. QED BY <1>1, <1>6, <2>1, <2>2, <2>3, <2>4 DEF EndFrames
<1>9. ShapeOf(stack')
  <2>1. ShapeOf(stack)
    BY ShapeIs DEF ItIInv
  <2>2. Len(stack[p]) = 1 => IsBottom(p, f) /\ (p = Main => f.at \in {"code", "gone"})
    BY <1>1, <1>4 DEF IsBottom, OnClear
  <2>3. Len(stack[p]) > 1 => MayLie(f, stack[p][Len(stack[p]) - 1])
    BY <1>1, <1>4 DEF MayLie, OnClear
  <2>. QED BY <1>1, <1>6, <2>1, <2>2, <2>3, ReplacedShape
<1>10. \A y : /\ Held(stack', y) = Held(stack, y) - Weight(ItFrame(was, x), y)
              /\ Held(stack, y) \in Nat
  <2>1. \A y : Weight(f, y) = 0 /\ Weight(ItFrame(was, x), y) \in {0, 1, 2}
    <3>1. at \notin Owners
      BY DEF Ends, Owners, Owning, Running, OwningTwo
    <3>. QED BY <1>4, <3>1, WeightIs
  <2>2. \A y : /\ Held(stack', y) = Held(stack, y) - Weight(ItFrame(was, x), y) + Weight(f, y)
               /\ Held(stack, y) \in Nat
    BY <1>6 DEF HeldMoves
  <2>. QED BY <2>1, <2>2
<1>11. EndTop(p, m, was, at, x)
  BY <1>8, <1>9, <1>10 DEF EndTop
<1>. QED BY <1>11

LEMMA EndPops ==
  ASSUME ItIInv, NEW p \in Actor, NEW was \in Ends, Now(p, was),
         NEW x \in Actor, x = Target(p), Pop(p)
  PROVE  \E m \in Nat : EndTop(p, m, was, "none", x)
<1>1. /\ stack \in Stacks /\ stack[p] # <<>> /\ Len(stack[p]) \in 1..Len(stack[p])
      /\ stack[p][Len(stack[p])].at = was /\ stack[p][Len(stack[p])].x = x
      /\ Inner(p) = stack[p][Len(stack[p])]
      /\ Len(stack[p]) = 1 => p # Main /\ x = p
  BY EndPlace
<1>2. PICK m \in Nat : m = Len(stack[p]) - 1
  <2>1. Len(stack[p]) \in Nat /\ Len(stack[p]) > 0
    BY <1>1, SeqDomain
  <2>. QED BY <2>1
<1>3. m + 1 = Len(stack[p]) /\ Len(stack[p]) \in Nat
  BY <1>1, <1>2
<1>6. /\ stack' \in Stacks /\ Popped(stack, stack', p)
      /\ Changed(stack, stack', p, m, {})
      /\ \A q \in Actor : q # p => stack'[q] = stack[q]
      /\ (m = 0 <=> stack'[p] = <<>>)
      /\ \A y : /\ Held(stack', y) = Held(stack, y) - Weight(ItFrame(was, Target(p)), y)
                /\ Held(stack, y) \in Nat
  BY ONLY ItIInv, p \in Actor, Now(p, was), Pop(p), m \in Nat, <1>2, Pops
<1>8. EndFrames(p, m, "none", x)
  <2>1. m + 1 \in 1..Len(stack[p]) /\ Inner(p) = stack[p][m + 1]
        /\ stack[p][m + 1].x = x /\ stack[p][m + 1].at = was /\ "none" \notin Ends
    BY <1>1, <1>3 DEF Ends
  <2>2. Len(stack'[p]) = m
    BY <1>2, <1>6 DEF Popped
  <2>3. ASSUME NEW q \in Actor, NEW k \in 1..Len(stack'[q])
        PROVE  k \in 1..Len(stack[q]) /\ stack'[q][k] = stack[q][k] /\ (q = p => k <= m)
    <3>1. CASE q = p
      <4>1. k \in 1..m
        BY <2>2, <3>1
      <4>2. k \in 1..Len(stack[p]) /\ k < Len(stack[p]) /\ k <= m
        BY <1>3, <4>1
      <4>. QED BY <1>6, <3>1, <4>2 DEF Popped
    <3>. QED BY <1>6, <3>1
  <2>4. ASSUME NEW q \in Actor, NEW k \in 1..Len(stack[q])
        PROVE  \/ k \in 1..Len(stack'[q]) /\ stack'[q][k] = stack[q][k] /\ (q = p => k <= m)
               \/ q = p /\ k = m + 1
    <3>1. CASE q = p /\ k # m + 1
      <4>1. k < Len(stack[p]) /\ k \in 1..m /\ k <= m
        BY <1>3, <3>1
      <4>. QED BY <1>6, <2>2, <3>1, <4>1 DEF Popped
    <3>. QED BY <1>6, <3>1
  <2>. QED BY <1>1, <1>6, <2>1, <2>3, <2>4 DEF EndFrames
<1>9. ShapeOf(stack')
  <2>1. ShapeOf(stack)
    BY ShapeIs DEF ItIInv
  <2>2. p = Main => Len(stack[p]) > 1
    <3>1. PICK n \in Nat : n = Len(stack[p])
      BY <1>3
    <3>2. n = m + 1
      BY <1>3, <3>1
    <3>3. n = 1 \/ n > 1
      BY <3>2
    <3>. QED BY <1>1, <3>1, <3>3
  <2>. QED BY <1>1, <1>6, <2>1, <2>2, PoppedShape
<1>11. EndTop(p, m, was, "none", x)
  BY <1>6, <1>8, <1>9 DEF EndTop
<1>. QED BY <1>11

LEMMA EndCovers ==
  ASSUME ItIInv, NEW p \in Actor, Now(p, "dispose"),
         NEW x \in Actor, x = Target(p), LockAndClear(p, x, "release")
  PROVE  \E m \in Nat : EndTop(p, m, "dispose", "release", x)
<1>0. "dispose" \in Ends \cup {"free", "drop"} /\ "release" \in Ends
  BY DEF Ends
<1>1. /\ stack \in Stacks /\ stack[p] # <<>> /\ Len(stack[p]) \in 1..Len(stack[p])
      /\ stack[p][Len(stack[p])].at = "dispose" /\ stack[p][Len(stack[p])].x = x
      /\ Inner(p) = stack[p][Len(stack[p])]
      /\ Len(stack[p]) = 1 => p # Main /\ x = p
      /\ Len(stack[p]) > 1 => stack[p][Len(stack[p]) - 1].at \in {"code", "clear"}
  BY <1>0, EndPlace
<1>2. PICK m \in Nat : m = Len(stack[p]) - 1
  <2>1. PICK n \in Nat : n = Len(stack[p])
    BY <1>1, SeqDomain
  <2>2. n > 0
    BY <1>1, <2>1
  <2>3. n - 1 \in Nat
    BY <2>2
  <2>. QED BY <2>1, <2>3
<1>3. m + 1 = Len(stack[p]) /\ Len(stack[p]) \in Nat
  BY <1>1, <1>2
<1>4. PICK f : f = ItFrame("release", x) /\ f.at = "release" /\ f.x = x
  BY FrameFields
<1>5. PICK g : g = ItFrame("clear", x) /\ g.at = "clear" /\ g.x = x
  BY FrameFields
<1>6. /\ stack' \in Stacks /\ Covered(stack, stack', p, f, g)
      /\ \A q \in Actor : q # p => stack'[q] = stack[q]
      /\ HeldMoves(ItFrame("dispose", Target(p)), f)
  <2>1. "release" \in Labels
    BY DEF Labels
  <2>2. Now(p, "dispose") /\ LockAndClear(p, x, "release")
        /\ f = ItFrame("release", x) /\ g = ItFrame("clear", x)
    BY <1>4, <1>5
  <2>. QED BY ONLY ItIInv, <1>2, <2>1, <2>2, p \in Actor, x \in Actor, m \in Nat, Covers
<1>7. /\ Len(stack'[p]) = m + 2 /\ stack'[p][m + 1] = f /\ stack'[p][m + 2] = g
      /\ \A k \in 1..m : k \in 1..Len(stack[p]) /\ stack'[p][k] = stack[p][k]
  BY <1>3, <1>6 DEF Covered
<1>8. EndFrames(p, m, "release", x)
  <2>1. m + 1 \in 1..Len(stack[p]) /\ m + 1 \in 1..Len(stack'[p])
    BY <1>1, <1>3, <1>7
  <2>2. stack'[p][m + 1] = ItFrame("release", x) /\ Inner(p) = stack[p][m + 1]
        /\ stack[p][m + 1].x = x /\ stack[p][m + 1].at = "dispose"
    BY <1>1, <1>3, <1>4, <1>7
  <2>3. ASSUME NEW q \in Actor, NEW k \in 1..Len(stack'[q])
        PROVE  \/ k \in 1..Len(stack[q]) /\ stack'[q][k] = stack[q][k] /\ (q = p => k <= m)
               \/ q = p /\ k = m + 1 /\ stack'[q][k] = ItFrame("release", x)
               \/ q = p /\ k = m + 2 /\ stack'[q][k] = ItFrame("clear", x)
    <3>1. CASE q = p
      <4>1. k \in 1..m \/ k = m + 1 \/ k = m + 2
        BY <1>7, <3>1
      <4>2. k \in 1..m => k <= m
        OBVIOUS
      <4>. QED BY <1>4, <1>5, <1>7, <3>1, <4>1, <4>2
    <3>. QED BY <1>6, <3>1
  <2>4. ASSUME NEW q \in Actor, NEW k \in 1..Len(stack[q])
        PROVE  \/ k \in 1..Len(stack'[q]) /\ stack'[q][k] = stack[q][k] /\ (q = p => k <= m)
               \/ q = p /\ k = m + 1
    <3>1. CASE q = p
      <4>1. k \in 1..m \/ k = m + 1
        BY <1>3, <3>1
      <4>2. k \in 1..m => k <= m /\ k \in 1..Len(stack'[p])
        BY <1>7
      <4>. QED BY <1>7, <3>1, <4>1, <4>2
    <3>. QED BY <1>6, <3>1
  <2>. QED BY <1>0, <1>1, <1>6, <2>1, <2>2, <2>3, <2>4 DEF EndFrames
<1>9. ShapeOf(stack')
  <2>1. ShapeOf(stack)
    BY ShapeIs DEF ItIInv
  <2>2. Len(stack[p]) = 1 => IsBottom(p, f)
    BY <1>1, <1>4 DEF IsBottom, OnClear, Ends
  <2>3. Len(stack[p]) > 1 => MayLie(f, stack[p][Len(stack[p]) - 1])
    BY <1>1, <1>4 DEF MayLie, OnClear, Ends
  <2>4. MayLie(g, f)
    BY <1>4, <1>5 DEF MayLie
  <2>5. p # Main \/ Len(stack[p]) > 1
    <3>1. PICK n \in Nat : n = Len(stack[p])
      BY <1>3
    <3>2. n = m + 1
      BY <1>3, <3>1
    <3>3. n = 1 \/ n > 1
      BY <3>2
    <3>. QED BY <1>1, <3>1, <3>3
  <2>. QED BY <1>1, <1>6, <2>1, <2>2, <2>3, <2>4, <2>5, CoveredShape
<1>10. \A y : /\ Held(stack', y) = Held(stack, y) - Weight(ItFrame("dispose", x), y)
              /\ Held(stack, y) \in Nat
  <2>1. \A y : Weight(f, y) = 0 /\ Weight(ItFrame("dispose", x), y) \in {0, 1, 2}
    <3>1. "release" \notin Owners
      BY DEF Owners, Owning, Running, OwningTwo
    <3>. QED BY <1>4, <3>1, WeightIs
  <2>2. \A y : /\ Held(stack', y) = Held(stack, y) - Weight(ItFrame("dispose", x), y) + Weight(f, y)
               /\ Held(stack, y) \in Nat
    BY <1>6 DEF HeldMoves
  <2>. QED BY <2>1, <2>2
<1>11. EndTop(p, m, "dispose", "release", x)
  BY <1>8, <1>9, <1>10 DEF EndTop
<1>. QED BY <1>11

LEMMA UnreferencedStays ==
  ASSUME ItIInv, NEW p \in Actor, NEW m \in Nat, NEW at, NEW x, EndFrames(p, m, at, x), EndRest,
         NEW y \in Actor, Unreferenced(y)
  PROVE  Unreferenced(y)'
<1>1. ~Callable(y)' /\ \A i \in Actor : obj'[i][y] = 0
  BY DEF Unreferenced, EndRest, Callable
<1>2. ASSUME NEW q \in Actor, NEW k \in 1..Len(stack'[q]), stack'[q][k].x = y
      PROVE  stack'[q][k].at \notin Owners
  <2>1. CASE k \in 1..Len(stack[q]) /\ stack'[q][k] = stack[q][k]
    BY <1>2, <2>1 DEF Unreferenced
  <2>2. CASE stack'[q][k].at \in Ends \cup {"clear"}
    BY <2>2 DEF Ends, Owners, Owning, Running, OwningTwo
  <2>. QED BY <2>1, <2>2, EndNew
<1>. QED BY <1>1, <1>2 DEF Unreferenced

\* What is known of a structure at one of its last steps.
LEMMA EndOfEnd ==
  ASSUME ItIInv, NEW p \in Actor, NEW m \in Nat, NEW at, NEW x \in Actor,
         EndFrames(p, m, at, x), EndRest, NEW was \in Ends, stack[p][m + 1].at = was,
         was = "uncount" => at = "none"
  PROVE  /\ EndOf(p, m, at, x) /\ x \in Alive /\ x \in Created
         /\ (x \in freed <=> was = "uncount") /\ (x \in Listed <=> was = "unlink")
<1>1. /\ ItTypeOK /\ m + 1 \in 1..Len(stack[p]) /\ stack[p][m + 1].x = x
      /\ stack[p][m + 1] = ItFrame(was, x)
  <2>1. ItTypeOK /\ m + 1 \in 1..Len(stack[p]) /\ stack[p][m + 1].x = x
    BY DEF ItIInv, EndFrames
  <2>. QED BY <2>1, Typed
<1>2. /\ x \in Created /\ (Is(x, "NONVIABLE") \/ Unreferenced(x))
      /\ (x \in freed <=> was = "uncount")
  BY <1>1 DEF ItIInv, EndIsLast
<1>3. ASSUME NEW q \in Actor, NEW k \in 1..Len(stack[q]), stack[q][k].x = x,
             stack[q][k].at \in Ends
      PROVE  q = p /\ k = m + 1
  BY <1>1, <1>3 DEF ItIInv, EndIsOne
<1>4. Is(x, "NONVIABLE") \/ Unreferenced(x)'
  BY <1>2, UnreferencedStays
<1>5. at # "none" => Is(x, "NONVIABLE") \/ (Is(x, "FINISHED") /\ ~Callable(x))
  <2>1. ASSUME was # "uncount" PROVE Is(x, "NONVIABLE") \/ (Is(x, "FINISHED") /\ ~Callable(x))
    <3>1. stack[p][m + 1] \in Frames(p) /\ was \in {"unlink", "dispose", "release"}
      BY <1>1, <2>1, FramesAre DEF Ends
    <3>. QED BY <1>1, <3>1 DEF ItIInv, AssertionsHold
  <2>. QED BY <2>1
<1>6. ASSUME NEW c \in Ends PROVE Somewhere(ItFrame(c, x)) <=> c = was
  <2>1. ASSUME Somewhere(ItFrame(c, x)) PROVE c = was
    <3>1. PICK q \in Actor : \E k \in 1..Len(stack[q]) : stack[q][k] = ItFrame(c, x)
      BY <2>1 DEF Somewhere
    <3>2. PICK k \in 1..Len(stack[q]) : stack[q][k] = ItFrame(c, x)
      BY <3>1
    <3>3. stack[q][k].at = c /\ stack[q][k].x = x
      BY <3>2, FrameFields
    <3>4. q = p /\ k = m + 1
      BY <1>3, <1>6, <3>3
    <3>. QED BY <3>3, <3>4
  <2>2. ASSUME c = was PROVE Somewhere(ItFrame(c, x))
    BY <1>1, <2>2 DEF Somewhere
  <2>. QED BY <2>1, <2>2
<1>7. x \in Alive
  BY <1>2, <1>6 DEF Alive, Ends
<1>8. x \in Listed <=> was = "unlink"
  <2>1. Unlinked(x) <=> was \in {"uncount", "dispose", "release"}
    BY <1>2, <1>6 DEF Unlinked, Ends
  <2>. QED BY <1>2, <2>1 DEF ItIInv, ListIsRight, Ends
<1>. QED BY <1>2, <1>3, <1>4, <1>5, <1>7, <1>8 DEF EndOf

\* Two sequences in a row.
LEMMA RowIs ==
  ASSUME NEW S, NEW a \in Seq(S), NEW b \in Seq(S), NEW t, t = a \o b,
         NEW h \in Nat, h = Len(a), NEW r \in Nat, r = Len(b)
  PROVE  /\ t \in Seq(S) /\ Len(t) = h + r
         /\ \A k \in 1..h : t[k] = a[k]
         /\ \A k \in 1..r : t[h + k] = b[k]
<1>1. /\ a \o b \in Seq(S)
      /\ Len(a \o b) = Len(a) + Len(b)
      /\ \A i \in 1..(Len(a) + Len(b)) :
           (a \o b)[i] = IF i <= Len(a) THEN a[i] ELSE b[i - Len(a)]
  BY ONLY a \in Seq(S), b \in Seq(S), ConcatProperties
<1>2. /\ t \in Seq(S) /\ Len(t) = h + r
      /\ \A i \in 1..(h + r) : t[i] = IF i <= h THEN a[i] ELSE b[i - h]
  BY <1>1
<1>3. ASSUME NEW k \in 1..h PROVE t[k] = a[k]
  <2>1. k \in 1..(h + r) /\ k <= h
    OBVIOUS
  <2>. QED BY <1>2, <2>1
<1>4. ASSUME NEW k \in 1..r PROVE t[h + k] = b[k]
  <2>1. h + k \in 1..(h + r) /\ ~(h + k <= h) /\ (h + k) - h = k
    OBVIOUS
  <2>. QED BY <1>2, <2>1
<1>. QED BY <1>2, <1>3, <1>4

\* A sequence without its ith element.
TakenOut(s, i, t) == t = SubSeq(s, 1, i - 1) \o SubSeq(s, i + 1, Len(s))
MovedUp(s, i, t) ==
  /\ Len(t) = Len(s) - 1
  /\ \A k \in 1..(i - 1) : t[k] = s[k]
  /\ \A k \in i..(Len(s) - 1) : t[k] = s[k + 1]

LEMMA Without ==
  ASSUME NEW S, NEW s \in Seq(S), NEW i, i \in 1..Len(s), NEW t, TakenOut(s, i, t)
  PROVE  t \in Seq(S) /\ MovedUp(s, i, t)
<1>0. PICK n \in Nat : n = Len(s)
  OBVIOUS
<1>1. PICK h \in Nat : h = i - 1
  BY <1>0
<1>2. PICK r \in Nat : r = n - i
  <2>1. n - i \in Nat
    BY <1>0
  <2>. QED BY ONLY <2>1
<1>m. PICK m \in Int : m = i + 1
  BY <1>0
<1>3. /\ i \in Int /\ i = h + 1 /\ n = i + r /\ n = h + 1 + r /\ n \in Int /\ h \in Int /\ 1 \in Int
      /\ \A k \in 1..h : 1 + k - 1 = k /\ k \in 1..n
      /\ \A k \in m..n : k \in 1..n
  BY <1>0, <1>1, <1>2, <1>m
<1>4. \A k \in 1..n : s[k] \in S
  BY <1>0
<1>5. PICK a : a = SubSeq(s, 1, h)
  OBVIOUS
<1>6. a \in Seq(S) /\ Len(a) = h /\ \A k \in 1..h : a[k] = s[k]
  <2>1. \A k \in 1..h : s[k] \in S
    BY <1>3, <1>4
  <2>2. /\ SubSeq(s, 1, h) \in Seq(S)
        /\ Len(SubSeq(s, 1, h)) = IF 1 <= h THEN h - 1 + 1 ELSE 0
        /\ \A k \in 1..(h - 1 + 1) : SubSeq(s, 1, h)[k] = s[1 + k - 1]
    BY ONLY <1>3, <2>1, SubSeqProperties
  <2>3. h - 1 + 1 = h /\ (IF 1 <= h THEN h - 1 + 1 ELSE 0) = h
    OBVIOUS
  <2>. QED BY <1>3, <1>5, <2>2, <2>3
<1>7. PICK b : b = SubSeq(s, m, n)
  OBVIOUS
<1>8. b \in Seq(S) /\ Len(b) = r /\ \A k \in 1..r : b[k] = s[i + k]
  <2>1. \A k \in m..n : s[k] \in S
    BY <1>3, <1>4
  <2>2. /\ SubSeq(s, m, n) \in Seq(S)
        /\ Len(SubSeq(s, m, n)) = IF m <= n THEN n - m + 1 ELSE 0
        /\ \A k \in 1..(n - m + 1) : SubSeq(s, m, n)[k] = s[m + k - 1]
    BY ONLY <1>3, m \in Int, <2>1, SubSeqProperties
  <2>3. /\ n - m + 1 = r /\ (IF m <= n THEN n - m + 1 ELSE 0) = r
        /\ \A k \in 1..r : m + k - 1 = i + k
    BY <1>2, <1>3, <1>m
  <2>. QED BY <1>7, <2>2, <2>3
<1>9. t = a \o b
  <2>1. t = SubSeq(s, 1, i - 1) \o SubSeq(s, i + 1, Len(s))
    BY DEF TakenOut
  <2>. QED BY <1>0, <1>1, <1>m, <1>5, <1>7, <2>1
<1>10. /\ t \in Seq(S) /\ Len(t) = h + r
       /\ \A k \in 1..h : t[k] = a[k]
       /\ \A k \in 1..r : t[h + k] = b[k]
  <2>1. a \in Seq(S) /\ b \in Seq(S) /\ h = Len(a) /\ r = Len(b)
    BY <1>6, <1>8
  <2>2. a \in Seq(S)
    BY <2>1
  <2>3. b \in Seq(S)
    BY <2>1
  <2>. QED BY ONLY <2>1, <2>2, <2>3, <1>9, h \in Nat, r \in Nat, RowIs
<1>11. Len(t) = Len(s) - 1
  BY <1>0, <1>3, <1>10
<1>12. ASSUME NEW k \in 1..(i - 1) PROVE t[k] = s[k]
  <2>1. k \in 1..h
    BY <1>1
  <2>. QED BY <1>6, <1>10, <2>1
<1>13. ASSUME NEW k \in i..(Len(s) - 1) PROVE t[k] = s[k + 1]
  <2>1. PICK l \in 1..r : l = k - h
    BY <1>0, <1>3
  <2>2. h + l = k /\ i + l = k + 1
    BY <1>0, <1>3, <2>1
  <2>. QED BY <1>8, <1>10, <2>2
<1>. QED BY <1>10, <1>11, <1>12, <1>13 DEF MovedUp

LEMMA Unlists ==
  ASSUME ItTypeOK, ListIsRight, NEW x \in Listed,
         list' = SubSeq(list, 1, Place(x) - 1) \o SubSeq(list, Place(x) + 1, Len(list))
  PROVE  /\ list' \in Seq(Tid) /\ \A y : y \in Listed' <=> y \in Listed /\ y # x
         /\ \A j, k \in DOMAIN list' : list'[j] = list'[k] => j = k
<1>1. /\ Place(x) \in 1..Len(list) /\ list[Place(x)] = x /\ list \in Seq(Tid)
      /\ Len(list) \in Nat /\ DOMAIN list = 1..Len(list)
  BY PlaceIs DEF ItTypeOK
<1>2. PICK n \in Nat : n = Len(list)
  BY <1>1
<1>3. PICK i \in 1..n : i = Place(x)
  BY <1>1, <1>2
<1>4. PICK s \in Seq(Tid) : s = list
  BY <1>1
<1>5. PICK t : t = list'
  OBVIOUS
<1>n. n = Len(s) /\ TakenOut(s, i, t)
  BY <1>2, <1>3, <1>4, <1>5 DEF TakenOut
<1>7. /\ t \in Seq(Tid) /\ Len(t) = n - 1
      /\ \A k \in 1..(i - 1) : t[k] = s[k]
      /\ \A k \in i..(n - 1) : t[k] = s[k + 1]
  <2>1. i \in 1..Len(s)
    BY <1>n
  <2>2. TakenOut(s, i, t)
    BY <1>n
  <2>3. t \in Seq(Tid) /\ MovedUp(s, i, t)
    BY ONLY <2>1, <2>2, s \in Seq(Tid), Without
  <2>. QED BY <1>n, <2>3 DEF MovedUp
<1>8. DOMAIN t = 1..(n - 1) /\ DOMAIN s = 1..n
  <2>1. t \in Seq(Tid) /\ Len(t) = n - 1 /\ n = Len(s)
    BY <1>n, <1>7
  <2>. QED BY ONLY <2>1, s \in Seq(Tid), SeqDomain
<1>9. /\ \A j, k \in 1..n : s[j] = s[k] => j = k
      /\ s[i] = x
  BY <1>1, <1>2, <1>3, <1>4 DEF ListIsRight
<1>10. /\ Listed = {s[k] : k \in 1..n} /\ Listed' = {t[k] : k \in 1..(n - 1)}
  BY <1>4, <1>5, <1>8 DEF Listed
<1>11. /\ t \in Seq(Tid) /\ \A y : y \in {t[k] : k \in 1..(n - 1)} <=> y \in {s[k] : k \in 1..n} /\ y # x
       /\ \A j, k \in 1..(n - 1) : t[j] = t[k] => j = k
  <2>1. ASSUME NEW j \in 1..(n - 1)
        PROVE  \E k \in 1..n : /\ t[j] = s[k] /\ k # i
                               /\ (k = j /\ j < i) \/ (k = j + 1 /\ j >= i)
    <3>1. CASE j < i
      <4>1. j \in 1..(i - 1) /\ j \in 1..n /\ j # i
        BY <3>1
      <4>. QED BY <1>7, <3>1, <4>1
    <3>2. CASE j >= i
      <4>1. j \in i..(n - 1) /\ j + 1 \in 1..n /\ j + 1 # i
        BY <3>2
      <4>. QED BY <1>7, <3>2, <4>1
    <3>. QED BY <3>1, <3>2
  <2>2. ASSUME NEW j \in 1..(n - 1), NEW k \in 1..(n - 1), t[j] = t[k] PROVE j = k
    <3>1. PICK c \in 1..n : t[j] = s[c] /\ ((c = j /\ j < i) \/ (c = j + 1 /\ j >= i))
      BY <2>1
    <3>2. PICK d \in 1..n : t[k] = s[d] /\ ((d = k /\ k < i) \/ (d = k + 1 /\ k >= i))
      BY <2>1
    <3>3. c = d
      BY <1>9, <2>2, <3>1, <3>2
    <3>. QED BY <3>1, <3>2, <3>3
  <2>3. ASSUME NEW j \in 1..(n - 1) PROVE t[j] \in {s[k] : k \in 1..n} /\ t[j] # x
    <3>1. PICK k \in 1..n : t[j] = s[k] /\ k # i
      BY <2>1
    <3>. QED BY <1>9, <3>1
  <2>4. ASSUME NEW k \in 1..n, s[k] # x PROVE s[k] \in {t[j] : j \in 1..(n - 1)}
    <3>1. k # i
      BY <1>9, <2>4
    <3>2. CASE k < i
      <4>1. k \in 1..(i - 1) /\ k \in 1..(n - 1)
        BY <3>2
      <4>2. t[k] = s[k]
        BY <1>7, <4>1
      <4>. QED BY <4>1, <4>2
    <3>3. CASE k > i
      <4>1. PICK j \in i..(n - 1) : j = k - 1
        BY <3>3
      <4>2. j + 1 = k /\ j \in 1..(n - 1)
        BY <4>1
      <4>3. t[j] = s[k]
        BY <1>7, <4>2
      <4>. QED BY <4>2, <4>3
    <3>. QED BY <3>1, <3>2, <3>3
  <2>5. ASSUME NEW y PROVE y \in {t[k] : k \in 1..(n - 1)} <=> y \in {s[k] : k \in 1..n} /\ y # x
    BY <2>3, <2>4
  <2>. QED BY <1>7, <2>2, <2>5
<1>. QED BY <1>5, <1>8, <1>10, <1>11

\* The last steps: the structure leaves the list, is taken apart and given
\* back, and is counted no more.
LEMMA EndType ==
  ASSUME ItTypeOK, stack' \in Stacks, thread' \in Threads, list' \in Seq(Tid), freed' \subseteq Tid,
         pool' \in [mutex : Actor \cup {NoActor}, running : Nat, joinable : Int,
                    detached : Nat, total : Nat],
         UNCHANGED <<itScenario, obj, tid_counter, process>>
  PROVE  ItTypeOK'
  BY DEF ItTypeOK, Stacks, FrameSet, Threads

LEMMA EndKeeps ==
  ASSUME ItIInv, ItTypeOK', NEW p \in Actor, NEW m \in Nat, NEW was \in Ends, Now(p, was),
         NEW at, NEW x \in Actor, EndTop(p, m, was, at, x), EndSets(at, x), EndRest,
         was = "uncount" => at = "none",
         \A y \in Actor : thread'[y].count = thread[y].count
  PROVE  ItIInv'
<1>1. EndFrames(p, m, at, x) /\ ShapeOf(stack') /\ stack[p][m + 1].at = was
  BY DEF EndTop, EndFrames, Now
<1>2. EndOf(p, m, at, x)
  BY <1>1, EndOfEnd
<1>3. CountsReferences'
  <2>1. was \notin Owners
    BY DEF Ends, Owners, Owning, Running, OwningTwo
  <2>2. \A y : Weight(ItFrame(was, x), y) = 0
    BY <2>1, WeightIs
  <2>3. \A y : Held(stack', y) = Held(stack, y)
    <3>1. \A y : /\ Held(stack', y) = Held(stack, y) - Weight(ItFrame(was, x), y)
                 /\ Held(stack, y) \in Nat
      BY DEF EndTop
    <3>. QED BY <2>2, <3>1
  <2>4. \A y \in Actor : /\ thread'[y].state = thread[y].state
                         /\ thread'[y].count = thread[y].count
                         /\ Number(obj', y) + Held(stack', y) = Number(obj, y) + Held(stack, y)
    BY <2>3 DEF EndRest
  <2>5. Known' = Known
    BY DEF Known, Created, EndRest
  <2>. QED BY ONLY ItIInv, ItTypeOK', <2>4, <2>5, CountsStay
<1>4. EndStep(p, m, at, x)
  BY <1>1, <1>2 DEF EndStep
<1>. QED BY ONLY ItIInv, ItTypeOK', p \in Actor, m \in Nat, <1>1, <1>3, <1>4, EndInvariant

LEMMA EndStart ==
  ASSUME ItIInv, NEW p \in Actor, NEW m \in Nat, NEW was \in Ends, Now(p, was),
         NEW at, NEW x \in Actor, EndTop(p, m, was, at, x), EndRest,
         was = "uncount" => at = "none"
  PROVE  /\ x \in Alive /\ x \in Created /\ x \in Tid /\ stack' \in Stacks
         /\ (x \in freed <=> was = "uncount") /\ (x \in Listed <=> was = "unlink")
<1>1. EndFrames(p, m, at, x) /\ stack[p][m + 1].at = was /\ stack' \in Stacks
  BY DEF EndTop, EndFrames, Now
<1>2. /\ x \in Alive /\ x \in Created
      /\ (x \in freed <=> was = "uncount") /\ (x \in Listed <=> was = "unlink")
  BY <1>1, EndOfEnd
<1>3. x \in Tid
  BY <1>2, Typed DEF ItIInv
<1>. QED BY <1>1, <1>2, <1>3

\* The steps of S_ithread_free that are left: unlink, give the memory back, unlock,
\* count down.
LEMMA UnlinkKeeps == ASSUME ItIInv, NEW p \in Actor, Unlink(p) PROVE ItIInv'
<1>1. PICK x \in Actor : x = Target(p)
  BY TopFrame DEF ItIInv, Unlink
<1>2. Now(p, "unlink") /\ "unlink" \in Ends /\ "dispose" \in Ends /\ GotoAt(p, "dispose", x)
  BY <1>1 DEF Unlink, Ends, Goto
<1>3. PICK m \in Nat : EndTop(p, m, "unlink", "dispose", x)
  <2>1. "unlink" \in Ends \cup {"free", "drop"}
    BY <1>2
  <2>. QED BY ONLY ItIInv, p \in Actor, x \in Actor, <1>1, <1>2, <2>1, EndRelabels
<1>4. /\ EndRest /\ \A y \in Actor : thread'[y].count = thread[y].count
      /\ PoolUnlocked /\ pool' = pool /\ thread' = thread /\ freed' = freed
      /\ UNCHANGED <<itScenario, obj, tid_counter, process>>
      /\ list' = SubSeq(list, 1, Place(x) - 1) \o SubSeq(list, Place(x) + 1, Len(list))
  BY <1>1 DEF EndRest, Unlink
<1>5. x \in Alive /\ x \notin freed /\ x \in Listed /\ stack' \in Stacks
  BY <1>2, <1>3, <1>4, EndStart
<1>6. /\ list' \in Seq(Tid) /\ \A y : y \in Listed' <=> y \in Listed /\ y # x
      /\ \A j, k \in DOMAIN list' : list'[j] = list'[k] => j = k
  BY <1>4, <1>5, Unlists DEF ItIInv
<1>7. ItTypeOK'
  <2>1. ItTypeOK /\ thread' \in Threads
    BY <1>4, ThreadsTyped DEF ItIInv
  <2>2. freed' \subseteq Tid /\ pool' \in [mutex : Actor \cup {NoActor}, running : Nat, joinable : Int,
                                        detached : Nat, total : Nat]
    BY <1>4, <2>1 DEF ItTypeOK
  <2>. QED BY ONLY <1>4, <1>5, <1>6, <2>1, <2>2, EndType
<1>8. EndSets("dispose", x)
  BY <1>4, <1>5, <1>6 DEF EndSets
<1>. QED BY <1>2, <1>3, <1>4, <1>7, <1>8, EndKeeps

LEMMA DisposeKeeps == ASSUME ItIInv, NEW p \in Actor, Dispose(p) PROVE ItIInv'
<1>1. PICK x \in Actor : x = Target(p)
  BY TopFrame DEF ItIInv, Dispose
<1>2. Now(p, "dispose") /\ "dispose" \in Ends /\ LockAndClear(p, x, "release")
  BY <1>1 DEF Dispose, Ends
<1>3. PICK m \in Nat : EndTop(p, m, "dispose", "release", x)
  BY ONLY ItIInv, p \in Actor, x \in Actor, <1>1, <1>2, EndCovers
<1>4. /\ thread' \in Threads
      /\ \A y \in Actor : thread'[y].state = thread[y].state /\ thread'[y].count = thread[y].count
  BY <1>2, MutexMoves DEF ItIInv, LockAndClear
<1>5. /\ EndRest /\ pool' = pool /\ freed' = freed /\ list' = list
      /\ UNCHANGED <<itScenario, obj, tid_counter, process>>
  BY <1>4 DEF EndRest, Dispose
<1>6. x \in Alive /\ x \notin freed /\ x \notin Listed /\ stack' \in Stacks
  BY <1>2, <1>3, <1>5, EndStart
<1>7. ItTypeOK'
  <2>1. ItTypeOK
    BY DEF ItIInv
  <2>2. freed' \subseteq Tid /\ list' \in Seq(Tid)
        /\ pool' \in [mutex : Actor \cup {NoActor}, running : Nat, joinable : Int,
                      detached : Nat, total : Nat]
    BY <1>5, <2>1 DEF ItTypeOK
  <2>. QED BY ONLY <1>4, <1>5, <1>6, <2>1, <2>2, EndType
<1>8. EndSets("release", x)
  <2>1. Listed' = Listed /\ \A i, j \in DOMAIN list : list[i] = list[j] => i = j
    BY <1>5 DEF Listed, ItIInv, ListIsRight
  <2>. QED BY <1>5, <1>6, <2>1 DEF EndSets
<1>. QED BY <1>2, <1>3, <1>4, <1>5, <1>7, <1>8, EndKeeps

LEMMA UnlockKeeps == ASSUME ItIInv, NEW p \in Actor, Unlock(p) PROVE ItIInv'
<1>1. PICK x \in Actor : x = Target(p)
  BY TopFrame DEF ItIInv, Unlock
<1>2. Now(p, "release") /\ "release" \in Ends /\ "uncount" \in Ends /\ GotoAt(p, "uncount", x)
  BY <1>1 DEF Unlock, Ends, Goto
<1>3. PICK m \in Nat : EndTop(p, m, "release", "uncount", x)
  <2>1. "release" \in Ends \cup {"free", "drop"}
    BY <1>2
  <2>. QED BY ONLY ItIInv, p \in Actor, x \in Actor, <1>1, <1>2, <2>1, EndRelabels
<1>4. /\ thread' \in Threads
      /\ \A y \in Actor : thread'[y].state = thread[y].state /\ thread'[y].count = thread[y].count
  <2>1. PICK q \in Actor \cup {NoActor} : q = NoActor
    OBVIOUS
  <2>2. thread' = [thread EXCEPT ![x].mutex = q]
    BY <1>1, <2>1 DEF Unlock
  <2>. QED BY <2>2, MutexMoves DEF ItIInv
<1>5. /\ EndRest /\ pool' = pool /\ freed' = freed \cup {x} /\ list' = list
      /\ UNCHANGED <<itScenario, obj, tid_counter, process>>
  BY <1>1, <1>4 DEF EndRest, Unlock
<1>6. x \in Alive /\ x \notin Listed /\ x \in Tid /\ stack' \in Stacks
  BY <1>2, <1>3, <1>5, EndStart
<1>7. ItTypeOK'
  <2>1. ItTypeOK
    BY DEF ItIInv
  <2>2. freed' \subseteq Tid /\ list' \in Seq(Tid)
        /\ pool' \in [mutex : Actor \cup {NoActor}, running : Nat, joinable : Int,
                      detached : Nat, total : Nat]
    BY <1>5, <1>6, <2>1 DEF ItTypeOK
  <2>. QED BY ONLY <1>4, <1>5, <1>6, <2>1, <2>2, EndType
<1>8. EndSets("uncount", x)
  <2>1. Listed' = Listed /\ \A i, j \in DOMAIN list : list[i] = list[j] => i = j
    BY <1>5 DEF Listed, ItIInv, ListIsRight
  <2>. QED BY <1>5, <1>6, <2>1 DEF EndSets
<1>. QED BY <1>2, <1>3, <1>4, <1>5, <1>7, <1>8, EndKeeps

LEMMA UncountKeeps == ASSUME ItIInv, NEW p \in Actor, Uncount(p) PROVE ItIInv'
<1>1. PICK x \in Actor : x = Target(p)
  BY TopFrame DEF ItIInv, Uncount
<1>2. Now(p, "uncount") /\ "uncount" \in Ends /\ Pop(p)
  BY <1>1 DEF Uncount, Ends
<1>3. PICK m \in Nat : EndTop(p, m, "uncount", "none", x)
  BY ONLY ItIInv, p \in Actor, x \in Actor, <1>1, <1>2, EndPops
<1>0. ItTypeOK /\ thread' = thread
  BY DEF ItIInv, Uncount
<1>4. pool' = [pool EXCEPT !.total = pool.total - 1]
  BY DEF Uncount
<1>5. /\ EndRest /\ freed' = freed /\ list' = list /\ pool'.total = pool.total - 1
      /\ UNCHANGED <<itScenario, obj, tid_counter, process>>
  <2>1. /\ pool'.mutex = pool.mutex /\ pool'.running = pool.running
        /\ pool'.detached = pool.detached /\ pool'.joinable = pool.joinable
        /\ pool'.total = pool.total - 1
    BY <1>0, <1>4 DEF ItTypeOK
  <2>. QED BY <1>0, <2>1 DEF EndRest, Uncount
<1>6. x \in Alive /\ x \in freed /\ x \notin Listed /\ stack' \in Stacks
  BY <1>2, <1>3, <1>5, EndStart
<1>7. ItTypeOK'
  <2>1. thread' \in Threads
    BY <1>0, ThreadsTyped
  <2>2. freed' \subseteq Tid /\ list' \in Seq(Tid)
    BY <1>0, <1>5 DEF ItTypeOK
  <2>3. PICK n \in Nat : n = pool.total - 1
    <3>1. pool.total = Cardinality(Alive) /\ pool.total \in Nat
      BY <1>0 DEF ItIInv, TotalIsRight, ItTypeOK
    <3>2. IsFiniteSet(Alive)
      <4>1. Alive \subseteq Created /\ IsFiniteSet(Created)
        BY <1>0, Typed DEF Alive
      <4>. QED BY <4>1, FS_Subset
    <3>3. Cardinality(Alive) > 0
      BY <1>6, <3>2, NotNone
    <3>. QED BY <3>1, <3>3
  <2>4. pool' \in [mutex : Actor \cup {NoActor}, running : Nat, joinable : Int,
                   detached : Nat, total : Nat]
    <3>1. pool' = [pool EXCEPT !.total = n]
      BY <1>4, <2>3
    <3>. QED BY <1>0, <3>1 DEF ItTypeOK
  <2>. QED BY ONLY <1>0, <1>5, <1>6, <2>1, <2>2, <2>4, EndType
<1>8. EndSets("none", x)
  <2>1. Listed' = Listed /\ \A i, j \in DOMAIN list : list[i] = list[j] => i = j
    BY <1>5 DEF Listed, ItIInv, ListIsRight
  <2>. QED BY <1>5, <1>6, <2>1 DEF EndSets
<1>9. \A y \in Actor : thread'[y].count = thread[y].count
  BY <1>0
<1>. QED BY <1>2, <1>3, <1>5, <1>7, <1>8, <1>9, EndKeeps

\* Where nothing is held, nobody holds.
LEMMA NoneHeld ==
  ASSUME NEW s \in Stacks, NEW x, Held(s, x) = 0,
         NEW q \in Actor, NEW k \in 1..Len(s[q]), s[q][k].x = x
  PROVE  s[q][k].at \notin Owners
<1>1. SUFFICES ASSUME s[q][k].at \in Owners PROVE FALSE
  OBVIOUS
<1>2. IsFiniteSet(At(s, x, Owners)) /\ IsFiniteSet(At(s, x, OwningTwo))
  BY AtIs
<1>3. <<q, k>> \in At(s, x, Owners)
  BY <1>1, IsAtIs DEF IsAt
<1>4. Cardinality(At(s, x, Owners)) > 0 /\ Cardinality(At(s, x, Owners)) \in Nat
  BY <1>2, <1>3, NotNone, FS_CardinalityType
<1>5. Cardinality(At(s, x, OwningTwo)) \in Nat
  BY <1>2, FS_CardinalityType
<1>. QED BY <1>4, <1>5 DEF Held

LEMMA NoObjects ==
  ASSUME NEW o \in [Actor -> [Actor -> Nat]], NEW x \in Actor, Number(o, x) = 0, NEW i \in Actor
  PROVE  o[i][x] = 0
<1>1. SUFFICES ASSUME o[i][x] # 0 PROVE FALSE
  OBVIOUS
<1>2. 1 \in 1..o[i][x]
  <2>1. PICK n \in Nat : n = o[i][x]
    OBVIOUS
  <2>. QED BY <1>1, <2>1
<1>3. <<i, 1>> \in ObjectsIn(o, x) /\ IsFiniteSet(ObjectsIn(o, x))
  BY <1>2, ObjectsAre
<1>. QED BY <1>3, NotNone DEF Number

\* The last reference to x is what p frees.
LEMMA LastIsLast ==
  ASSUME ItIInv, NEW p \in Actor, NEW m \in Nat, NEW was \in {"free", "drop"}, Now(p, was),
         NEW x \in Actor, EndTop(p, m, was, "unlink", x), x = Target(p), obj' = obj,
         ~Is(x, "NONVIABLE"), thread[x].count = 1
  PROVE  /\ ~Callable(x) /\ \A i \in Actor : obj'[i][x] = 0
         /\ \A q \in Actor : \A k \in 1..Len(stack'[q]) :
              stack'[q][k].x = x => stack'[q][k].at \notin Owners
<1>1. ItTypeOK /\ EndFrames(p, m, "unlink", x) /\ stack' \in Stacks /\ stack \in Stacks
      /\ m + 1 \in 1..Len(stack[p]) /\ stack[p][m + 1].x = x
  BY TopFrame DEF ItIInv, EndTop, EndFrames
<1>2. x \in Known
  BY <1>1 DEF ItIInv, OnlyKnown
<1>3. thread[x].count = References(x)
  BY <1>2 DEF ItIInv, CountsReferences, Known
<1>4. /\ References(x) = Free1(x) + Number(obj, x) + Held(stack, x)
      /\ Number(obj, x) \in Nat /\ Held(stack, x) \in Nat /\ Free1(x) \in {0, 1}
  BY <1>1, CountsAre
<1>5. Weight(ItFrame(was, x), x) = 1
  <2>1. was \in Owners /\ was \notin OwningTwo
    BY DEF Owners, Owning, OwningTwo
  <2>. QED BY <2>1, WeightIs
<1>6. Held(stack', x) = Held(stack, x) - 1 /\ Held(stack', x) \in Nat
  BY <1>1, <1>5, HeldIsNat DEF EndTop
<1>7. Free1(x) = 0 /\ Number(obj, x) = 0 /\ Held(stack', x) = 0
  BY <1>3, <1>4, <1>6
<1>8. ~Callable(x)
  BY <1>7 DEF Free1
<1>9. ASSUME NEW i \in Actor PROVE obj'[i][x] = 0
  <2>1. obj \in [Actor -> [Actor -> Nat]]
    BY <1>1 DEF ItTypeOK
  <2>. QED BY <1>7, <2>1, NoObjects
<1>10. ASSUME NEW q \in Actor, NEW k \in 1..Len(stack'[q]), stack'[q][k].x = x
       PROVE  stack'[q][k].at \notin Owners
  <2>1. PICK s \in Stacks : s = stack'
    BY <1>1
  <2>2. Held(s, x) = 0
    BY <1>7, <2>1
  <2>3. k \in 1..Len(s[q]) /\ s[q][k].x = x
    BY <1>10, <2>1
  <2>4. s[q][k].at \notin Owners
    BY ONLY s \in Stacks, <2>2, <2>3, q \in Actor, NoneHeld
  <2>. QED BY <2>1, <2>4
<1>. QED BY <1>8, <1>9, <1>10

\* What the last one to let go of x may count on.
LEMMA FailedAtLast ==
  ASSUME ItIInv, NEW p \in Actor, NEW m \in Nat, NEW was \in {"free", "drop"}, Now(p, was),
         NEW x \in Actor, EndTop(p, m, was, "unlink", x), EndRest, Is(x, "NONVIABLE")
  PROVE  EndOf(p, m, "unlink", x) /\ x \in Listed /\ x \in Created
<1>1. /\ EndFrames(p, m, "unlink", x) /\ m + 1 \in 1..Len(stack[p])
      /\ stack[p][m + 1].x = x /\ stack[p][m + 1].at = was
  BY DEF EndTop, EndFrames, Now
<1>2. x \in Created /\ \E q \in Actor : DoomedBy(q, x)
  BY DEF ItIInv, DoomedIsAlone, Doomed
<1>3. PICK r \in Actor : DoomedBy(r, x)
  BY <1>2
<1>4. /\ \A q \in Actor : \A k \in 1..Len(stack[q]) : stack[q][k].x = x =>
           /\ q = r
           /\ \/ k = 2 /\ stack[q][k].at \in {"nonviable", "free"} \cup Ends
              \/ k = 3 /\ stack[q][k].at = "clear"
      /\ x \in Listed <=>
           /\ Len(stack[r]) > 1 /\ stack[r][2].x = x
           /\ stack[r][2].at \in {"nonviable", "free", "unlink"}
  BY <1>3 DEF DoomedBy
<1>5. p = r /\ m + 1 = 2 /\ was = "free"
  BY <1>1, <1>4 DEF Ends
<1>6. x \in Listed
  <2>1. 2 \in 1..Len(stack[r]) /\ stack[r][2].x = x /\ stack[r][2].at = "free"
    BY <1>1, <1>5
  <2>2. Len(stack[r]) > 1
    <3>1. Len(stack[r]) \in Nat
      BY Typed DEF ItIInv
    <3>. QED BY <2>1, <3>1
  <2>. QED BY <1>4, <2>1, <2>2
<1>7. ASSUME NEW q \in Actor, NEW k \in 1..Len(stack[q]), stack[q][k].x = x,
             stack[q][k].at \in Ends
      PROVE  q = p /\ k = m + 1
  <2>1. stack[q][k].at # "clear"
    BY <1>7 DEF Ends
  <2>. QED BY <1>4, <1>5, <1>7, <2>1
<1>. QED BY <1>2, <1>6, <1>7 DEF EndOf

LEMMA DroppedAtLast ==
  ASSUME ItIInv, NEW p \in Actor, NEW m \in Nat, NEW was \in {"free", "drop"}, Now(p, was),
         NEW x \in Actor, x = Target(p), EndTop(p, m, was, "unlink", x), EndRest,
         ~Is(x, "NONVIABLE"), thread[x].count = 1
  PROVE  EndOf(p, m, "unlink", x) /\ x \in Listed /\ x \in Created
<1>1. /\ EndFrames(p, m, "unlink", x) /\ m + 1 \in 1..Len(stack[p])
      /\ stack[p][m + 1].x = x /\ stack[p][m + 1].at = was /\ ItTypeOK
  BY DEF EndTop, EndFrames, Now, ItIInv
<1>2. /\ ~Callable(x) /\ \A i \in Actor : obj'[i][x] = 0
      /\ \A q \in Actor : \A k \in 1..Len(stack'[q]) :
           stack'[q][k].x = x => stack'[q][k].at \notin Owners
  BY LastIsLast DEF EndRest
<1>3. Unreferenced(x)'
  <2>1. ~Callable(x)'
    BY <1>2 DEF Callable, EndRest
  <2>. QED BY <1>2, <2>1 DEF Unreferenced
<1>4. was \in Owners
  BY DEF Owners, Owning
<1>5. ~Unreferenced(x)
  BY <1>1, <1>4 DEF Unreferenced
<1>6. ASSUME NEW q \in Actor, NEW k \in 1..Len(stack[q]), stack[q][k].x = x,
             stack[q][k].at \in Owners
      PROVE  stack[q][k].at = was
  <2>1. CASE k \in 1..Len(stack'[q]) /\ stack'[q][k] = stack[q][k]
    BY <1>2, <1>6, <2>1
  <2>2. CASE q = p /\ k = m + 1
    BY <1>1, <2>2
  <2>. QED BY <1>1, <2>1, <2>2, EndOld
<1>7. /\ ShapeOf(stack) /\ stack \in Stacks
      /\ \A q \in Actor : Len(stack[q]) > 0 => IsBottom(q, stack[q][1]) /\ 1 \in 1..Len(stack[q])
      /\ Len(stack[Main]) > 0 /\ stack[Main][1].at \in {"code", "gone"}
  <2>1. ShapeOf(stack) /\ stack \in Stacks /\ Shape
    BY <1>1, ShapeIs DEF ItIInv, ItTypeOK, Stacks, FrameSet
  <2>2. \A q \in Actor : Len(stack[q]) > 0 => 1 \in 1..Len(stack[q])
    BY <1>1, Typed
  <2>. QED BY <2>1, <2>2 DEF Shape
<1>8. x # Main
  <2>1. SUFFICES ASSUME x = Main PROVE FALSE
    OBVIOUS
  <2>2. stack[x][1].x = x /\ 1 \in 1..Len(stack[x]) /\ stack[x][1].at \in {"code", "gone"}
    BY <1>7, <2>1, ItConstants DEF IsBottom
  <2>3. stack[x][1].at \in Owners
    BY <2>2 DEF Owners, Owning, Running
  <2>4. stack[x][1].at = was
    BY <1>6, <2>2, <2>3
  <2>. QED BY <2>2, <2>4
<1>9. x \in Created
  BY <1>1, <1>8, Typed DEF ItIInv, OnlyKnown
<1>10. ASSUME NEW c \in {"clone", "nonviable"}, Somewhere(ItFrame(c, x)) PROVE FALSE
  <2>1. PICK q \in Actor : \E k \in 1..Len(stack[q]) : stack[q][k] = ItFrame(c, x)
    BY <1>10 DEF Somewhere
  <2>2. PICK k \in 1..Len(stack[q]) : stack[q][k] = ItFrame(c, x)
    BY <2>1
  <2>3. stack[q][k].at = c /\ stack[q][k].x = x
    BY <2>2, FrameFields
  <2>4. c \in Owners
    BY DEF Owners, OwningTwo
  <2>. QED BY <1>6, <2>3, <2>4
<1>11. Is(x, "FINISHED")
  <2>1. CASE stack[x] # <<>>
    <3>1. Len(stack[x]) > 0
      BY <1>1, <2>1, Typed
    <3>2. stack[x][1].x = x /\ 1 \in 1..Len(stack[x])
      BY <1>7, <3>1 DEF IsBottom
    <3>3. ASSUME stack[x][1].at \in Stages PROVE FALSE
      <4>1. stack[x][1].at \in Owners
        BY <3>3 DEF Stages, Owners, Owning, Running
      <4>2. stack[x][1].at = was
        BY <1>6, <3>2, <4>1
      <4>. QED BY <3>3, <4>2 DEF Stages
    <3>. QED BY <1>9, <2>1, <3>3 DEF ItIInv, RunsAreMarked
  <2>2. CASE stack[x] = <<>>
    <3>1. Is(x, "FINISHED") \/ Doomed(x) \/ Somewhere(ItFrame("clone", x))
      BY <1>9, <2>2 DEF ItIInv, RunsAreMarked
    <3>. QED BY <1>10, <3>1 DEF Doomed
  <2>. QED BY <2>1, <2>2
<1>12. ASSUME NEW q \in Actor, NEW k \in 1..Len(stack[q]), stack[q][k].x = x,
              stack[q][k].at \in Ends
       PROVE  FALSE
  BY <1>5, <1>12 DEF ItIInv, EndIsLast
<1>13. x \in Listed
  <2>1. x \notin freed
    BY <1>5 DEF ItIInv, EndIsLast
  <2>2. ASSUME NEW c \in {"dispose", "release"}, Somewhere(ItFrame(c, x)) PROVE FALSE
    <3>1. PICK q \in Actor : \E k \in 1..Len(stack[q]) : stack[q][k] = ItFrame(c, x)
      BY <2>2 DEF Somewhere
    <3>2. PICK k \in 1..Len(stack[q]) : stack[q][k] = ItFrame(c, x)
      BY <3>1
    <3>3. stack[q][k].at = c /\ stack[q][k].x = x
      BY <3>2, FrameFields
    <3>. QED BY <1>12, <3>3 DEF Ends
  <2>. QED BY <1>9, <2>1, <2>2 DEF ItIInv, ListIsRight, Unlinked
<1>. QED BY <1>2, <1>3, <1>9, <1>11, <1>12, <1>13 DEF EndOf

LEMMA LastKeeps ==
  ASSUME ItIInv, NEW p \in Actor, NEW was \in {"free", "drop"}, Now(p, was),
         NEW x \in Actor, x = Target(p), Is(x, "NONVIABLE") \/ thread[x].count = 1,
         NEW c \in Nat, c = IF Is(x, "NONVIABLE") THEN thread[x].count ELSE thread[x].count - 1,
         thread' = [thread EXCEPT ![x].mutex = NoActor, ![x].count = c],
         GotoAt(p, "unlink", x), UNCHANGED <<itScenario, pool, list, obj, tid_counter, freed, process>>
  PROVE  ItIInv'
<1>0. ItTypeOK
  BY DEF ItIInv
<1>1. PICK m \in Nat : EndTop(p, m, was, "unlink", x)
  <2>1. was \in Ends \cup {"free", "drop"}
    OBVIOUS
  <2>2. "unlink" \in Ends
    BY DEF Ends
  <2>. QED BY ONLY ItIInv, p \in Actor, x \in Actor, x = Target(p), Now(p, was),
              GotoAt(p, "unlink", x), <2>1, <2>2, EndRelabels
<1>2. /\ thread' \in Threads /\ thread'[x].count = c
      /\ \A y \in Actor : /\ thread'[y].state = thread[y].state
                          /\ thread'[y].interp = thread[y].interp
                          /\ y # x => thread'[y].count = thread[y].count
  <2>1. PICK q \in Actor \cup {NoActor} : q = NoActor
    OBVIOUS
  <2>2. thread' = [thread EXCEPT ![x].mutex = q, ![x].count = c]
    BY <2>1
  <2>. QED BY ONLY <1>0, <2>2, x \in Actor, c \in Nat, q \in Actor \cup {NoActor}, CountMoves
<1>3. EndRest
  BY <1>2 DEF EndRest
<1>4. EndOf(p, m, "unlink", x) /\ x \in Listed /\ x \in Created
  <2>1. CASE Is(x, "NONVIABLE")
    BY ONLY ItIInv, p \in Actor, m \in Nat, was \in {"free", "drop"}, Now(p, was), x \in Actor,
            <1>1, <1>3, <2>1, FailedAtLast
  <2>2. CASE ~Is(x, "NONVIABLE")
    BY ONLY ItIInv, p \in Actor, m \in Nat, was \in {"free", "drop"}, Now(p, was), x \in Actor,
            x = Target(p), Is(x, "NONVIABLE") \/ thread[x].count = 1,
            <1>1, <1>3, <2>2, DroppedAtLast
  <2>. QED BY <2>1, <2>2
<1>5. x \in Alive /\ x \notin freed
  BY <1>4 DEF ItIInv, ListIsRight, Unlinked, Alive
<1>6. EndSets("unlink", x)
  <2>1. Listed' = Listed /\ \A i, j \in DOMAIN list : list[i] = list[j] => i = j
    BY DEF Listed, ItIInv, ListIsRight
  <2>. QED BY <1>4, <1>5, <2>1 DEF EndSets
<1>7. EndFrames(p, m, "unlink", x) /\ ShapeOf(stack') /\ stack' \in Stacks
  BY <1>1 DEF EndTop, EndFrames
<1>8. ItTypeOK'
  BY <1>0, <1>2, <1>7, TypeStays
<1>9. CountsReferences'
  <2>1. \A y \in Actor : Free1(y)' = Free1(y) /\ (Is(y, "NONVIABLE") <=> "NONVIABLE" \in thread'[y].state)
    BY <1>2 DEF Free1, Callable, Is
  <2>2. /\ Weight(ItFrame(was, x), x) = 1 /\ \A y : y # x => Weight(ItFrame(was, x), y) = 0
    <3>1. was \in Owners /\ was \notin OwningTwo
      BY DEF Owners, Owning, OwningTwo
    <3>. QED BY <3>1, WeightIs
  <2>3. \A y : /\ Held(stack', y) = Held(stack, y) - Weight(ItFrame(was, x), y)
               /\ Held(stack, y) \in Nat
    BY <1>1 DEF EndTop
  <2>4. /\ Held(stack', x) = Held(stack, x) - 1 /\ Held(stack, x) \in Nat
        /\ Number(obj', x) = Number(obj, x) /\ Number(obj, x) \in Nat
        /\ Free1(x) \in {0, 1} /\ Free1(x)' = Free1(x) /\ thread[x].count \in Nat
    BY <1>0, <2>1, <2>2, <2>3, CountsAre, Typed
  <2>5. ~Is(x, "NONVIABLE") =>
          thread'[x].count - Free1(x)' - Number(obj', x) - Held(stack', x)
             = thread[x].count - Free1(x) - Number(obj, x) - Held(stack, x)
    BY <1>2, <2>4
  <2>6. \A y \in Actor : y # x =>
           /\ thread'[y].count = thread[y].count
           /\ Free1(y)' = Free1(y)
           /\ Number(obj', y) + Held(stack', y) = Number(obj, y) + Held(stack, y)
    <3>1. \A y \in Actor : y # x => Held(stack', y) = Held(stack, y)
      BY <2>2, <2>3
    <3>. QED BY <1>2, <2>1, <3>1
  <2>7. UNCHANGED <<tid_counter>>
    OBVIOUS
  <2>. QED BY ONLY ItIInv, x \in Actor, <1>8, <2>1, <2>5, <2>6, <2>7, OneCountMoves
<1>10. EndStep(p, m, "unlink", x)
  BY <1>3, <1>4, <1>6, <1>7 DEF EndStep
<1>. QED BY ONLY ItIInv, p \in Actor, m \in Nat, <1>7, <1>8, <1>9, <1>10, EndInvariant

\* The last reference goes: S_ithread_free begins the end of the structure.
LEMMA FreeKeeps == ASSUME ItIInv, NEW p \in Actor, Free(p) PROVE ItIInv'
<1>1. PICK was \in {"free", "drop"} : Now(p, was)
  BY DEF Free
<1>2. PICK x \in Actor : x = Target(p)
  BY <1>1, TopFrame DEF ItIInv
<1>3. /\ thread' = [thread EXCEPT ![x].mutex = NoActor,
                      ![x].count = IF Is(x, "NONVIABLE") THEN @ ELSE @ - 1]
      /\ IF Is(x, "NONVIABLE") \/ thread[x].count = 1 THEN Goto(p, "unlink") ELSE Pop(p)
      /\ UNCHANGED <<itScenario, pool, list, obj, tid_counter, freed, process>>
  BY <1>2 DEF Free
<1>4. thread[x].count \in Nat /\ ItTypeOK
  BY Typed DEF ItIInv
<1>5. CASE Is(x, "NONVIABLE") \/ thread[x].count = 1
  <2>1. PICK c \in Nat : c = IF Is(x, "NONVIABLE") THEN thread[x].count ELSE thread[x].count - 1
    BY <1>4, <1>5
  <2>2. thread' = [thread EXCEPT ![x].mutex = NoActor, ![x].count = c]
    <3>1. CASE Is(x, "NONVIABLE")
      <4>1. thread' = [thread EXCEPT ![x].mutex = NoActor, ![x].count = thread[x].count]
        BY <1>3, <3>1
      <4>. QED BY <2>1, <3>1, <4>1
    <3>2. CASE ~Is(x, "NONVIABLE")
      <4>1. thread' = [thread EXCEPT ![x].mutex = NoActor, ![x].count = thread[x].count - 1]
        BY <1>3, <3>2
      <4>. QED BY <2>1, <3>2, <4>1
    <3>. QED BY <3>1, <3>2
  <2>3. GotoAt(p, "unlink", x)
    BY <1>2, <1>3, <1>5 DEF Goto
  <2>. QED BY ONLY ItIInv, p \in Actor, was \in {"free", "drop"}, x \in Actor, c \in Nat,
              <1>1, <1>2, <1>3, <1>5, <2>1, <2>2, <2>3, LastKeeps
<1>6. CASE ~(Is(x, "NONVIABLE") \/ thread[x].count = 1)
  <2>1. thread' = [thread EXCEPT ![x].mutex = NoActor, ![x].count = thread[x].count - 1]
    BY <1>3, <1>6
  <2>2. Pop(p) /\ ~Is(x, "NONVIABLE") /\ thread[x].count # 1
    BY <1>3, <1>6
  <2>. QED BY ONLY ItIInv, p \in Actor, was \in {"free", "drop"}, x \in Actor,
              <1>1, <1>2, <1>3, <2>1, <2>2, DropKeeps
<1>. QED BY <1>5, <1>6

(***************************************************************************)
(* Steps that make a thread: p's second frame is about x, which nobody     *)
(* else knows, and goes on at "at"; x may start.                           *)
(***************************************************************************)
MakeFrames(p, x, at) ==
  /\ stack \in Stacks /\ stack' \in Stacks
  /\ x # p /\ stack[x] = <<>> /\ stack[p][1] = ItFrame("code", p)
  /\ Len(stack[p]) = 1 \/ (Len(stack[p]) = 2 /\ stack[p][2].x = x)
  /\ Len(stack'[p]) = 2 /\ stack'[p][1] = stack[p][1] /\ stack'[p][2] = ItFrame(at, x)
  /\ at \in {"clone", "nonviable", "free", "give"}
  /\ stack'[x] = <<>> \/ (Len(stack'[x]) = 1 /\ stack'[x][1] = ItFrame("start", x) /\ at = "give")
  /\ \A q \in Actor : q # p /\ q # x => stack'[q] = stack[q]
  /\ \A q \in Actor : \A k \in 1..Len(stack[q]) :
       stack[q][k].x = x => q = p /\ k = 2 /\ stack[q][k].at \in {"clone", "nonviable"}

MakeState(x, at) ==
  /\ \A y \in Actor : y # x => thread'[y].state = thread[y].state
  /\ at = "clone" => thread'[x].state = {} /\ stack'[x] = <<>> /\ \A y \in Actor : obj'[x][y] = 0
  /\ stack'[x] # <<>> => "FINISHED" \notin thread'[x].state
  /\ stack'[x] = <<>> => at \in {"clone", "nonviable"} \/ "NONVIABLE" \in thread'[x].state
  /\ "NONVIABLE" \in thread'[x].state => at = "free"

MakeObjects(p, x) ==
  /\ \A i, y \in Actor : i # x => obj'[i][y] = obj[i][y]
  /\ \A i \in Actor : obj'[i][x] = 0
  /\ \A y \in Actor : obj'[x][y] > 0 => obj[x][y] > 0 \/ obj[p][y] > 0

MakePool(p, x, at) ==
  /\ pool'.mutex = pool.mutex \/ pool.mutex \in {NoActor, p}
  /\ at = "clone" => pool'.mutex = p
  /\ x \in Created => pool'.total = pool.total
  /\ x \notin Created => pool'.total = pool.total + 1

MakeSets(x) ==
  /\ \A y : y \in Created' <=> y \in Created \/ y = x
  /\ \A y : y \in Listed' <=> y \in Listed \/ y = x
  /\ \A i, j \in DOMAIN list' : list'[i] = list'[j] => i = j
  /\ x \notin freed

MakeStep(p, x, at) ==
  /\ MakeFrames(p, x, at) /\ MakeState(x, at) /\ MakeObjects(p, x) /\ MakePool(p, x, at)
  /\ MakeSets(x) /\ (at \in {"nonviable", "free"} => "fail" \in itScenario[p])
  /\ UNCHANGED <<itScenario, freed, process>>

LEMMA MakeNew ==
  ASSUME NEW p \in Actor, NEW x \in Tid, NEW at, MakeFrames(p, x, at),
         NEW q \in Actor, NEW k \in 1..Len(stack'[q])
  PROVE  \/ /\ k \in 1..Len(stack[q]) /\ stack'[q][k] = stack[q][k] /\ stack[q][k].x # x
            /\ (q = p => k = 1) /\ q # x
         \/ q = p /\ k = 2 /\ stack'[q][k].at = at /\ stack'[q][k].x = x
         \/ q = x /\ k = 1 /\ stack'[q][k].at = "start" /\ stack'[q][k].x = x /\ at = "give"
<1>1. stack \in Stacks /\ stack' \in Stacks
  BY DEF MakeFrames
<1>2. CASE q = p
  <2>1. k = 1 \/ k = 2
    <3>1. Len(stack'[p]) = 2
      BY DEF MakeFrames
    <3>2. k \in 1..2
      BY <1>2, <3>1
    <3>. QED BY ONLY <3>2
  <2>2. 1 \in 1..Len(stack[p]) /\ stack[p][1].x = p /\ p # x
    BY FrameFields DEF MakeFrames
  <2>. QED BY <1>2, <2>1, <2>2, FrameFields DEF MakeFrames
<1>3. CASE q = x
  <2>1. stack'[x] # <<>>
    BY <1>3
  <2>2. Len(stack'[x]) = 1 /\ stack'[x][1] = ItFrame("start", x) /\ at = "give"
    BY <2>1 DEF MakeFrames
  <2>3. k = 1
    BY <1>3, <2>2
  <2>. QED BY <1>3, <2>2, <2>3, FrameFields
<1>4. CASE q # p /\ q # x
  BY <1>4 DEF MakeFrames
<1>. QED BY <1>2, <1>3, <1>4

LEMMA MakeOld ==
  ASSUME NEW p \in Actor, NEW x \in Tid, NEW at, MakeFrames(p, x, at),
         NEW q \in Actor, NEW k \in 1..Len(stack[q])
  PROVE  \/ /\ k \in 1..Len(stack'[q]) /\ stack'[q][k] = stack[q][k] /\ stack[q][k].x # x
            /\ (q = p => k = 1) /\ q # x
         \/ q = p /\ k = 2 /\ stack[q][k].at \in {"clone", "nonviable"} /\ stack[q][k].x = x
<1>1. CASE q = p
  <2>1. k = 1 \/ (k = 2 /\ Len(stack[p]) = 2)
    BY <1>1 DEF MakeFrames
  <2>2. 1 \in 1..Len(stack'[p]) /\ stack[p][1].x = p /\ p # x
    BY FrameFields DEF MakeFrames
  <2>. QED BY <1>1, <2>1, <2>2 DEF MakeFrames
<1>2. CASE q = x
  BY <1>2 DEF MakeFrames
<1>3. CASE q # p /\ q # x
  BY <1>3 DEF MakeFrames
<1>. QED BY <1>1, <1>2, <1>3

LEMMA MakeSomewhere ==
  ASSUME NEW p \in Actor, NEW x \in Tid, NEW at, MakeFrames(p, x, at)
  PROVE  /\ \A c, y : y # x => (Somewhere(ItFrame(c, y))' <=> Somewhere(ItFrame(c, y)))
         /\ \A c : c # "start" => (Somewhere(ItFrame(c, x))' <=> c = at)
         /\ \A c : Somewhere(ItFrame(c, x)) => c \in {"clone", "nonviable"}
<1>1. ASSUME NEW c, NEW y, y # x
      PROVE  Somewhere(ItFrame(c, y))' <=> Somewhere(ItFrame(c, y))
  <2>1. PICK f : f = ItFrame(c, y) /\ f.at = c /\ f.x = y
    BY FrameFields
  <2>2. ASSUME NEW q \in Actor, NEW k \in 1..Len(stack'[q]), stack'[q][k] = f
        PROVE  Somewhere(f)
    <3>1. k \in 1..Len(stack[q]) /\ stack'[q][k] = stack[q][k]
      BY <1>1, <2>1, <2>2, MakeNew
    <3>. QED BY <2>2, <3>1 DEF Somewhere
  <2>3. ASSUME NEW q \in Actor, NEW k \in 1..Len(stack[q]), stack[q][k] = f
        PROVE  Somewhere(f)'
    <3>1. k \in 1..Len(stack'[q]) /\ stack'[q][k] = stack[q][k]
      BY <1>1, <2>1, <2>3, MakeOld
    <3>. QED BY <2>3, <3>1 DEF Somewhere
  <2>. QED BY <2>1, <2>2, <2>3 DEF Somewhere
<1>2. ASSUME NEW c, c # "start" PROVE Somewhere(ItFrame(c, x))' <=> c = at
  <2>1. PICK f : f = ItFrame(c, x) /\ f.at = c /\ f.x = x
    BY FrameFields
  <2>2. ASSUME NEW q \in Actor, NEW k \in 1..Len(stack'[q]), stack'[q][k] = f
        PROVE  c = at
    <3>1. stack'[q][k].at = c /\ stack'[q][k].x = x
      BY <2>1, <2>2
    <3>2. stack'[q][k].at = at \/ stack'[q][k].at = "start"
      BY <3>1, MakeNew
    <3>. QED BY <1>2, <3>1, <3>2
  <2>3. ASSUME c = at PROVE Somewhere(f)'
    <3>1. 2 \in 1..Len(stack'[p]) /\ stack'[p][2] = f
      BY <2>1, <2>3 DEF MakeFrames
    <3>. QED BY <3>1 DEF Somewhere
  <2>. QED BY <2>1, <2>2, <2>3 DEF Somewhere
<1>3. ASSUME NEW c, Somewhere(ItFrame(c, x)) PROVE c \in {"clone", "nonviable"}
  <2>1. PICK q \in Actor : \E k \in 1..Len(stack[q]) : stack[q][k] = ItFrame(c, x)
    BY <1>3 DEF Somewhere
  <2>2. PICK k \in 1..Len(stack[q]) : stack[q][k] = ItFrame(c, x)
    BY <2>1
  <2>3. stack[q][k].at = c /\ stack[q][k].x = x
    BY <2>2, FrameFields
  <2>. QED BY <2>3 DEF MakeFrames
<1>. QED BY <1>1, <1>2, <1>3

LEMMA MakeNames ==
  ASSUME ItIInv, ItTypeOK', NEW p \in Actor, NEW x \in Tid, NEW at, MakeStep(p, x, at)
  PROVE  /\ MakeFrames(p, x, at) /\ x \in Actor /\ x # Main /\ p \in Known /\ ItTypeOK
         /\ Created \subseteq Actor /\ Created' \subseteq Actor
         /\ \A y : y \in Known' <=> y \in Known \/ y = x
         /\ \A y \in Actor : y # x =>
              /\ \A c : Is(y, c)' <=> Is(y, c)
              /\ Callable(y)' <=> Callable(y)
              /\ Doomed(y)' <=> Doomed(y)
              /\ Unreferenced(y) => Unreferenced(y)'
              /\ Unlinked(y)' <=> Unlinked(y)
              /\ stack[y] = <<>> => stack'[y] = <<>>
              /\ stack[y] # <<>> => stack'[y] # <<>> /\ stack'[y][1] = stack[y][1]
              /\ (\A i \in Actor : obj[i][y] = 0) => \A i \in Actor : obj'[i][y] = 0
         /\ Doomed(x)' <=> "NONVIABLE" \in thread'[x].state \/ at = "nonviable"
<1>1. /\ MakeFrames(p, x, at) /\ ItTypeOK /\ x \in Actor /\ x # Main
      /\ MakeState(x, at) /\ MakeObjects(p, x) /\ MakeSets(x)
  BY ItConstants DEF MakeStep, ItIInv
<1>2. p \in Known
  <2>1. stack[p] # <<>>
    <3>1. Len(stack[p]) = 1 \/ Len(stack[p]) = 2
      BY <1>1 DEF MakeFrames
    <3>2. stack[p] = <<>> <=> Len(stack[p]) = 0
      BY <1>1, Typed
    <3>. QED BY <3>1, <3>2
  <2>. QED BY <2>1, RunnerIsCommon
<1>3. Created \subseteq Actor /\ Created' \subseteq Actor
  <2>1. Created \subseteq Actor
    BY <1>1, Typed
  <2>. QED BY <1>1, <2>1 DEF MakeSets
<1>4. \A y : y \in Known' <=> y \in Known \/ y = x
  BY <1>1 DEF MakeSets, Known
<1>5. ASSUME NEW y \in Actor, y # x
      PROVE  (\A c : Is(y, c)' <=> Is(y, c)) /\ (Callable(y)' <=> Callable(y))
  BY <1>1, <1>5 DEF MakeState, Is, Callable
<1>6. ASSUME NEW y \in Actor, y # x PROVE Doomed(y)' <=> Doomed(y)
  <2>1. Somewhere(ItFrame("nonviable", y))' <=> Somewhere(ItFrame("nonviable", y))
    BY <1>1, <1>6, MakeSomewhere
  <2>2. Is(y, "NONVIABLE")' <=> Is(y, "NONVIABLE")
    BY <1>5, <1>6
  <2>. QED BY <2>1, <2>2 DEF Doomed
<1>7. ASSUME NEW y \in Actor, y # x, \A i \in Actor : obj[i][y] = 0, NEW i \in Actor
      PROVE  obj'[i][y] = 0
  <2>1. CASE i # x
    BY <1>1, <1>7, <2>1 DEF MakeObjects
  <2>2. CASE i = x
    <3>1. PICK n \in Nat : n = obj'[x][y]
      BY <1>1, <1>7, Typed, SMTT(40) DEF ItTypeOK
    <3>2. ~(n > 0)
      <4>1. obj[x][y] = 0 /\ obj[p][y] = 0
        BY <1>1, <1>7
      <4>2. obj'[x][y] > 0 => obj[x][y] > 0 \/ obj[p][y] > 0
        BY <1>1, <1>7 DEF MakeObjects
      <4>. QED BY <3>1, <4>1, <4>2
    <3>. QED BY <2>2, <3>1, <3>2
  <2>. QED BY <2>1, <2>2
<1>8. ASSUME NEW y \in Actor, y # x, Unreferenced(y) PROVE Unreferenced(y)'
  <2>1. ~Callable(y)' /\ \A i \in Actor : obj'[i][y] = 0
    BY <1>5, <1>7, <1>8 DEF Unreferenced
  <2>2. ASSUME NEW q \in Actor, NEW k \in 1..Len(stack'[q]), stack'[q][k].x = y
        PROVE  stack'[q][k].at \notin Owners
    <3>1. k \in 1..Len(stack[q]) /\ stack'[q][k] = stack[q][k]
      BY <1>1, <1>8, <2>2, MakeNew
    <3>. QED BY <1>8, <2>2, <3>1 DEF Unreferenced
  <2>. QED BY <2>1, <2>2 DEF Unreferenced
<1>9. ASSUME NEW y \in Actor, y # x PROVE Unlinked(y)' <=> Unlinked(y)
  <2>1. /\ Somewhere(ItFrame("dispose", y))' <=> Somewhere(ItFrame("dispose", y))
        /\ Somewhere(ItFrame("release", y))' <=> Somewhere(ItFrame("release", y))
    BY <1>1, <1>9, MakeSomewhere
  <2>2. freed' = freed
    BY DEF MakeStep
  <2>. QED BY <2>1, <2>2 DEF Unlinked
<1>10. ASSUME NEW y \in Actor, y # x
       PROVE  /\ stack[y] = <<>> => stack'[y] = <<>>
              /\ stack[y] # <<>> => stack'[y] # <<>> /\ stack'[y][1] = stack[y][1]
  <2>1. CASE y # p
    BY <1>1, <1>10, <2>1 DEF MakeFrames
  <2>2. CASE y = p
    <3>1. Len(stack[p]) # 0 /\ Len(stack'[p]) # 0 /\ stack'[p][1] = stack[p][1]
      BY <1>1 DEF MakeFrames
    <3>2. stack[p] # <<>> /\ stack'[p] # <<>>
      BY <3>1
    <3>. QED BY <2>2, <3>1, <3>2
  <2>. QED BY <2>1, <2>2
<1>11. Doomed(x)' <=> "NONVIABLE" \in thread'[x].state \/ at = "nonviable"
  <2>1. Somewhere(ItFrame("nonviable", x))' <=> at = "nonviable"
    BY <1>1, MakeSomewhere
  <2>. QED BY <2>1 DEF Doomed, Is
<1>. QED BY <1>1, <1>2, <1>3, <1>4, <1>5, <1>6, <1>7, <1>8, <1>9, <1>10, <1>11

MakeLabels == {"clone", "nonviable", "free", "give", "start"}

LEMMA MakeStays ==
  ASSUME NEW p \in Actor, NEW x \in Tid, NEW at, MakeFrames(p, x, at),
         NEW q \in Actor, NEW k \in 1..Len(stack'[q]), stack'[q][k].at \notin MakeLabels
  PROVE  k \in 1..Len(stack[q]) /\ stack'[q][k] = stack[q][k] /\ stack[q][k].x # x
         /\ (q = p => k = 1) /\ q # x
<1>1. at \in MakeLabels /\ "start" \in MakeLabels
  BY DEF MakeFrames, MakeLabels
<1>. QED BY <1>1, MakeNew

\* The steps that make a thread (MakeStep) keep the parts of the invariant, one lemma
\* for each.
LEMMA MakeKeepsKnown ==
  ASSUME ItIInv, ItTypeOK', NEW p \in Actor, NEW x \in Tid, NEW at, MakeStep(p, x, at)
  PROVE  OnlyKnown' /\ WalksAreInList' /\ TotalIsRight' /\ ListIsRight' /\ PoolIsHeld'
<1>1. /\ MakeFrames(p, x, at) /\ x \in Actor /\ p \in Known /\ ItTypeOK
      /\ \A y : y \in Known' <=> y \in Known \/ y = x
      /\ \A y \in Actor : y # x => (Unlinked(y)' <=> Unlinked(y))
  BY MakeNames
<1>2. /\ MakeObjects(p, x) /\ MakePool(p, x, at) /\ MakeSets(x)
      /\ UNCHANGED <<itScenario, freed, process>>
  BY DEF MakeStep
<1>3. OnlyKnown'
  <2>1. ASSUME NEW q \in Actor, NEW k \in 1..Len(stack'[q]) PROVE stack'[q][k].x \in Known'
    <3>1. CASE stack'[q][k].x = x
      BY <1>1, <3>1
    <3>2. CASE stack'[q][k].x # x
      <4>1. k \in 1..Len(stack[q]) /\ stack'[q][k] = stack[q][k]
        BY <1>1, <3>2, MakeNew
      <4>. QED BY <1>1, <4>1 DEF ItIInv, OnlyKnown
    <3>. QED BY <3>1, <3>2
  <2>2. ASSUME NEW i \in Actor, NEW y \in Actor, obj'[i][y] > 0
        PROVE  i \in Known' /\ y \in Known'
    <3>1. CASE i = x
      <4>1. obj[x][y] > 0 \/ obj[p][y] > 0
        BY <1>2, <2>2, <3>1 DEF MakeObjects
      <4>2. y \in Known
        BY <1>1, <4>1 DEF ItIInv, OnlyKnown
      <4>. QED BY <1>1, <3>1, <4>2
    <3>2. CASE i # x
      <4>1. obj[i][y] > 0
        BY <1>2, <2>2, <3>2 DEF MakeObjects
      <4>. QED BY <1>1, <4>1 DEF ItIInv, OnlyKnown
    <3>. QED BY <3>1, <3>2
  <2>3. freed' \subseteq Created'
    BY <1>2 DEF MakeSets, ItIInv, OnlyKnown
  <2>. QED BY <2>1, <2>2, <2>3 DEF OnlyKnown
<1>4. PoolIsHeld'
  <2>1. ASSUME NEW q \in Actor, NEW k \in 1..Len(stack'[q]), stack'[q][k].at \in HavePool
        PROVE  pool'.mutex = q
    <3>1. CASE k \in 1..Len(stack[q]) /\ stack'[q][k] = stack[q][k] /\ (q = p => k = 1)
      <4>1. pool.mutex = q
        BY <2>1, <3>1 DEF ItIInv, PoolIsHeld, HavePool
      <4>2. q # p
        <5>1. stack[p][1].at = "code" /\ "code" \notin HavePool
          BY <1>1, WalkLabels, FrameFields DEF MakeFrames, HavePool
        <5>. QED BY <2>1, <3>1, <5>1
      <4>. QED BY <1>2, <4>1, <4>2, ItConstants DEF MakePool
    <3>2. CASE q = p /\ stack'[q][k].at = at
      <4>1. at = "clone"
        BY <1>1, <2>1, <3>2, WalkLabels DEF HavePool, MakeFrames
      <4>. QED BY <1>2, <3>2, <4>1 DEF MakePool
    <3>3. "start" \notin HavePool
      BY WalkLabels DEF HavePool
    <3>. QED BY <1>1, <2>1, <3>1, <3>2, <3>3, MakeNew
  <2>. QED BY <2>1 DEF PoolIsHeld, HavePool
<1>5. WalksAreInList'
  <2>1. ASSUME NEW q \in Actor, NEW k \in 1..Len(stack'[q]), stack'[q][k].at \in Walks \cup Takes
        PROVE  stack'[q][k].x \in Listed' /\ itScenario'[q] \cap {"list", "object"} # {}
    <3>1. (Walks \cup Takes) \cap MakeLabels = {}
      BY WalkLabels DEF MakeLabels
    <3>2. k \in 1..Len(stack[q]) /\ stack'[q][k] = stack[q][k]
      BY <1>1, <2>1, <3>1, MakeStays
    <3>3. stack[q][k].x \in Listed /\ itScenario[q] \cap {"list", "object"} # {}
      BY <2>1, <3>2 DEF ItIInv, WalksAreInList
    <3>. QED BY <1>2, <3>2, <3>3 DEF MakeSets
  <2>. QED BY <2>1 DEF WalksAreInList
<1>6. TotalIsRight'
  <2>1. \A y : y # x => (Somewhere(ItFrame("uncount", y))' <=> Somewhere(ItFrame("uncount", y)))
    BY <1>1, MakeSomewhere
  <2>2. \A y : y \in Alive' <=> y \in Alive \/ y = x
    BY <1>2, <2>1 DEF Alive, MakeSets
  <2>3. x \in Alive <=> x \in Created
    BY <1>2 DEF Alive, MakeSets
  <2>4. IsFiniteSet(Alive) /\ pool.total = Cardinality(Alive)
    BY <1>1, Typed, FS_Subset DEF Alive, ItIInv, TotalIsRight
  <2>5. CASE x \in Created
    <3>1. Alive' = Alive
      BY <2>2, <2>3, <2>5
    <3>. QED BY <1>2, <2>4, <2>5, <3>1 DEF TotalIsRight, MakePool
  <2>6. CASE x \notin Created
    <3>1. Cardinality(Alive') = Cardinality(Alive) + 1
      BY <2>2, <2>3, <2>4, <2>6, OneMore
    <3>. QED BY <1>2, <2>4, <2>6, <3>1 DEF TotalIsRight, MakePool
  <2>. QED BY <2>5, <2>6
<1>7. ListIsRight'
  <2>1. ASSUME NEW y \in Actor, y # x
        PROVE  y \in Listed' <=> y \in Created' /\ ~Unlinked(y)'
    <3>1. Unlinked(y)' <=> Unlinked(y)
      BY <1>1, <2>1
    <3>. QED BY <1>2, <2>1, <3>1 DEF MakeSets, ItIInv, ListIsRight
  <2>2. ~Unlinked(x)'
    <3>1. /\ ~Somewhere(ItFrame("dispose", x))'
          /\ ~Somewhere(ItFrame("release", x))'
      BY <1>1, MakeSomewhere DEF MakeFrames
    <3>. QED BY <1>2, <3>1 DEF Unlinked, MakeSets
  <2>3. x \in Listed' /\ x \in Created' /\ \A i, j \in DOMAIN list' : list'[i] = list'[j] => i = j
    BY <1>2 DEF MakeSets
  <2>. QED BY <2>1, <2>2, <2>3 DEF ListIsRight
<1>. QED BY <1>3, <1>4, <1>5, <1>6, <1>7

LEMMA MakeKeepsClones ==
  ASSUME ItIInv, ItTypeOK', NEW p \in Actor, NEW x \in Tid, NEW at, MakeStep(p, x, at)
  PROVE  CloneIsFresh'
<1>1. /\ MakeFrames(p, x, at) /\ x \in Actor /\ ItTypeOK
      /\ \A y \in Actor : y # x =>
           /\ stack[y] = <<>> => stack'[y] = <<>>
           /\ (\A i \in Actor : obj[i][y] = 0) => \A i \in Actor : obj'[i][y] = 0
  BY MakeNames
<1>2. /\ MakeState(x, at) /\ MakeObjects(p, x) /\ MakeSets(x)
  BY DEF MakeStep
<1>3. ASSUME NEW q \in Actor, NEW k \in 1..Len(stack'[q]), stack'[q][k].at = "clone",
             NEW y, y = stack'[q][k].x
      PROVE  MadeBy(q, k, y)'
  <2>1. CASE y # x
    <3>1. k \in 1..Len(stack[q]) /\ stack'[q][k] = stack[q][k]
      BY <1>1, <1>3, <2>1, MakeNew
    <3>2. MadeBy(q, k, y) /\ y \in Actor
      BY <1>1, <1>3, <3>1, Typed DEF ItIInv, CloneIsFresh
    <3>3. ASSUME NEW r \in Actor, NEW l \in 1..Len(stack'[r]), stack'[r][l].x = y
          PROVE  r = q /\ l = k
      <4>1. l \in 1..Len(stack[r]) /\ stack'[r][l] = stack[r][l]
        BY <1>1, <2>1, <3>3, MakeNew
      <4>. QED BY <3>2, <3>3, <4>1 DEF MadeBy
    <3>4. y \in Created' /\ thread'[y].state = {} /\ stack'[y] = <<>>
      BY <1>1, <1>2, <2>1, <3>2 DEF MadeBy, MakeState, MakeSets
    <3>5. \A z \in Actor : obj'[y][z] = 0 /\ obj'[z][y] = 0
      <4>1. \A z \in Actor : obj[y][z] = 0 /\ obj[z][y] = 0
        BY <3>2 DEF MadeBy
      <4>2. \A z \in Actor : obj'[z][y] = 0
        BY <1>1, <2>1, <3>2, <4>1
      <4>3. \A z \in Actor : obj'[y][z] = obj[y][z]
        BY <1>2, <2>1, <3>2 DEF MakeObjects
      <4>. QED BY <4>1, <4>2, <4>3
    <3>. QED BY <3>3, <3>4, <3>5 DEF MadeBy
  <2>2. CASE y = x
    <3>1. q = p /\ k = 2 /\ at = "clone"
      <4>1. stack'[q][k].x = x /\ stack'[q][k].at = "clone"
        BY <1>3, <2>2
      <4>. QED BY ONLY <1>1, <4>1, p \in Actor, x \in Tid, q \in Actor, k \in 1..Len(stack'[q]), MakeNew
    <3>2. ASSUME NEW r \in Actor, NEW l \in 1..Len(stack'[r]), stack'[r][l].x = y
          PROVE  r = q /\ l = k
      BY <1>1, <2>2, <3>1, <3>2, MakeNew
    <3>3. x \in Created' /\ thread'[x].state = {} /\ stack'[x] = <<>>
      BY <1>2, <3>1 DEF MakeState, MakeSets
    <3>4. \A z \in Actor : obj'[x][z] = 0 /\ obj'[z][x] = 0
      BY <1>2, <3>1 DEF MakeState, MakeObjects
    <3>. QED BY <2>2, <3>2, <3>3, <3>4 DEF MadeBy
  <2>. QED BY <2>1, <2>2
<1>4. ASSUME NEW q \in Actor, NEW k \in 1..Len(stack'[q]), stack'[q][k].at = "clone"
      PROVE  MadeBy(q, k, stack[q][k].x)'
  <2>1. PICK y : y = stack'[q][k].x
    OBVIOUS
  <2>2. MadeBy(q, k, y)'
    BY <1>3, <1>4, <2>1
  <2>. QED BY <2>1, <2>2
<1>. QED BY <1>4 DEF CloneIsFresh

LEMMA MakeKeepsDoomed ==
  ASSUME ItIInv, ItTypeOK', NEW p \in Actor, NEW x \in Tid, NEW at, MakeStep(p, x, at)
  PROVE  DoomedIsAlone'
<1>1. /\ MakeFrames(p, x, at) /\ x \in Actor /\ ItTypeOK
      /\ \A y \in Actor : y # x =>
           /\ Doomed(y)' <=> Doomed(y)
           /\ stack[y] = <<>> => stack'[y] = <<>>
           /\ (\A i \in Actor : obj[i][y] = 0) => \A i \in Actor : obj'[i][y] = 0
      /\ Doomed(x)' <=> "NONVIABLE" \in thread'[x].state \/ at = "nonviable"
  BY MakeNames
<1>2. /\ MakeState(x, at) /\ MakeObjects(p, x) /\ MakeSets(x)
      /\ (at \in {"nonviable", "free"} => "fail" \in itScenario[p]) /\ itScenario' = itScenario
  BY DEF MakeStep
<1>3. /\ \A q \in Actor : Len(stack[q]) \in Nat /\ Len(stack'[q]) \in Nat
      /\ \A q \in Actor : (2 \in 1..Len(stack[q]) <=> Len(stack[q]) > 1)
                          /\ (2 \in 1..Len(stack'[q]) <=> Len(stack'[q]) > 1)
  BY <1>1, SeqDomain, SMTT(40) DEF MakeFrames
<1> SUFFICES ASSUME NEW y \in Actor, Doomed(y)'
             PROVE  /\ y \in Created' /\ stack'[y] = <<>> /\ \A i \in Actor : obj'[i][y] = 0
                    /\ \E q \in Actor : DoomedBy(q, y)'
  BY DEF DoomedIsAlone
<1>4. CASE y # x
  <2>1. Doomed(y) /\ y \in Created /\ stack[y] = <<>> /\ \A i \in Actor : obj[i][y] = 0
    BY <1>1, <1>4 DEF ItIInv, DoomedIsAlone
  <2>2. y \in Created' /\ stack'[y] = <<>> /\ \A i \in Actor : obj'[i][y] = 0
    BY <1>1, <1>2, <1>4, <2>1 DEF MakeSets
  <2>3. PICK r \in Actor : DoomedBy(r, y)
    BY <2>1 DEF ItIInv, DoomedIsAlone
  <2>4. ASSUME NEW q \in Actor, NEW k \in 1..Len(stack'[q]), stack'[q][k].x = y
        PROVE  k \in 1..Len(stack[q]) /\ stack'[q][k] = stack[q][k]
    BY <1>1, <1>4, <2>4, MakeNew
  <2>5. ASSUME NEW q \in Actor, NEW k \in 1..Len(stack[q]), stack[q][k].x = y
        PROVE  k \in 1..Len(stack'[q]) /\ stack'[q][k] = stack[q][k]
    BY <1>1, <1>4, <2>5, MakeOld
  <2>6. y \in Listed' <=> y \in Listed
    BY <1>2, <1>4 DEF MakeSets
  <2>7. ASSUME NEW q \in Actor, NEW k \in 1..Len(stack'[q]), stack'[q][k].x = y
        PROVE  /\ q = r
               /\ \/ k = 2 /\ stack'[q][k].at \in {"nonviable", "free"} \cup Ends
                  \/ k = 3 /\ stack'[q][k].at = "clear"
    BY <2>3, <2>4, <2>7 DEF DoomedBy
  <2>8. y \in Listed' <=> /\ Len(stack'[r]) > 1 /\ stack'[r][2].x = y
                          /\ stack'[r][2].at \in {"nonviable", "free", "unlink"}
    BY <1>3, <2>3, <2>4, <2>5, <2>6 DEF DoomedBy
  <2>9. DoomedBy(r, y)'
    BY <1>2, <2>3, <2>7, <2>8 DEF DoomedBy
  <2>. QED BY <2>2, <2>9
<1>5. CASE y = x
  <2>1. at \in {"nonviable", "free"} /\ "fail" \in itScenario'[p]
    BY <1>1, <1>2, <1>5 DEF MakeState
  <2>2. x \in Created' /\ stack'[x] = <<>> /\ \A i \in Actor : obj'[i][x] = 0
    BY <1>1, <1>2, <2>1 DEF MakeFrames, MakeSets, MakeObjects
  <2>3. ASSUME NEW q \in Actor, NEW k \in 1..Len(stack'[q]), stack'[q][k].x = x
        PROVE  /\ q = p
               /\ \/ k = 2 /\ stack'[q][k].at \in {"nonviable", "free"} \cup Ends
                  \/ k = 3 /\ stack'[q][k].at = "clear"
    BY <1>1, <2>1, <2>3, MakeNew
  <2>4. /\ Len(stack'[p]) > 1 /\ stack'[p][2].x = x
        /\ stack'[p][2].at \in {"nonviable", "free", "unlink"} /\ x \in Listed'
    BY <1>1, <1>2, <2>1, FrameFields DEF MakeFrames, MakeSets
  <2>5. DoomedBy(p, x)'
    BY <2>1, <2>3, <2>4 DEF DoomedBy
  <2>. QED BY <1>5, <2>2, <2>5
<1>. QED BY <1>4, <1>5

LEMMA MakeKeepsEnds ==
  ASSUME ItIInv, ItTypeOK', NEW p \in Actor, NEW x \in Tid, NEW at, MakeStep(p, x, at)
  PROVE  EndIsOne' /\ EndIsLast' /\ AssertionsHold'
<1>1. /\ MakeFrames(p, x, at) /\ x \in Actor /\ ItTypeOK /\ Created \subseteq Actor
      /\ \A y \in Actor : y # x =>
           /\ \A c : Is(y, c)' <=> Is(y, c)
           /\ Callable(y)' <=> Callable(y)
           /\ Unreferenced(y) => Unreferenced(y)'
  BY MakeNames
<1>2. MakeSets(x) /\ freed' = freed
  BY DEF MakeStep
<1>3. Ends \cap MakeLabels = {} /\ {"clear", "unlink", "dispose", "release"} \cap MakeLabels = {}
  BY DEF Ends, MakeLabels
<1>4. ASSUME NEW q \in Actor, NEW k \in 1..Len(stack'[q]), stack'[q][k].at \notin MakeLabels
      PROVE  k \in 1..Len(stack[q]) /\ stack'[q][k] = stack[q][k] /\ stack[q][k].x # x
             /\ stack[q][k].x \in Actor
  BY <1>1, <1>4, MakeStays, Typed
<1>5. EndIsOne'
  <2>1. ASSUME NEW q \in Actor, NEW r \in Actor, NEW k \in 1..Len(stack'[q]),
               NEW l \in 1..Len(stack'[r]), stack'[q][k].at \in Ends, stack'[r][l].at \in Ends,
               stack'[q][k].x = stack'[r][l].x
        PROVE  q = r /\ k = l
    <3>1. /\ k \in 1..Len(stack[q]) /\ stack'[q][k] = stack[q][k]
          /\ l \in 1..Len(stack[r]) /\ stack'[r][l] = stack[r][l]
      BY <1>3, <1>4, <2>1
    <3>. QED BY <2>1, <3>1 DEF ItIInv, EndIsOne
  <2>. QED BY <2>1 DEF EndIsOne
<1>6. EndIsLast'
  <2>1. ASSUME NEW q \in Actor, NEW k \in 1..Len(stack'[q]), stack'[q][k].at \in Ends,
               NEW y, y = stack'[q][k].x
        PROVE  /\ y \in Created' /\ (Is(y, "NONVIABLE")' \/ Unreferenced(y)')
               /\ (y \in freed' <=> stack'[q][k].at = "uncount")
    <3>1. /\ k \in 1..Len(stack[q]) /\ stack'[q][k] = stack[q][k] /\ y # x /\ y \in Actor
      BY <1>3, <1>4, <2>1
    <3>2. /\ y \in Created /\ (Is(y, "NONVIABLE") \/ Unreferenced(y))
          /\ (y \in freed <=> stack[q][k].at = "uncount")
      BY <2>1, <3>1 DEF ItIInv, EndIsLast
    <3>. QED BY <1>1, <1>2, <3>1, <3>2 DEF MakeSets
  <2>2. ASSUME NEW y \in freed' PROVE Is(y, "NONVIABLE")' \/ Unreferenced(y)'
    <3>1. y \in freed /\ y # x /\ y \in Actor
      BY <1>1, <1>2 DEF MakeSets, ItIInv, OnlyKnown
    <3>. QED BY <1>1, <3>1 DEF ItIInv, EndIsLast
  <2>. QED BY <2>1, <2>2 DEF EndIsLast
<1>7. AssertionsHold'
  <2>1. ASSUME NEW q \in Actor, NEW f, f \in Frames(q)',
               f.at \in {"clear", "unlink", "dispose", "release"}
        PROVE  Is(f.x, "NONVIABLE")' \/ (Is(f.x, "FINISHED")' /\ ~Callable(f.x)')
    <3>1. PICK k \in 1..Len(stack'[q]) : stack'[q][k] = f
      BY <2>1, FramesThenAre
    <3>2. k \in 1..Len(stack[q]) /\ stack[q][k] = f /\ f.x # x /\ f.x \in Actor
      BY <1>3, <1>4, <2>1, <3>1
    <3>3. f \in Frames(q)
      BY <1>1, <3>2, FramesAre
    <3>. QED BY <1>1, <2>1, <3>2, <3>3 DEF ItIInv, AssertionsHold
  <2>. QED BY <2>1 DEF AssertionsHold
<1>. QED BY <1>5, <1>6, <1>7

LEMMA MakeKeepsMarks ==
  ASSUME ItIInv, ItTypeOK', NEW p \in Actor, NEW x \in Tid, NEW at, MakeStep(p, x, at)
  PROVE  RunsAreMarked' /\ JoinsAreMarked' /\ CleanedAlone'
<1>1. /\ MakeFrames(p, x, at) /\ x \in Actor /\ x # Main /\ ItTypeOK /\ Created \subseteq Actor
      /\ \A y \in Actor : y # x =>
           /\ \A c : Is(y, c)' <=> Is(y, c)
           /\ Callable(y)' <=> Callable(y)
           /\ Doomed(y)' <=> Doomed(y)
           /\ stack[y] = <<>> => stack'[y] = <<>>
           /\ stack[y] # <<>> => stack'[y] # <<>> /\ stack'[y][1] = stack[y][1]
      /\ Doomed(x)' <=> "NONVIABLE" \in thread'[x].state \/ at = "nonviable"
  BY MakeNames
<1>2. MakeSets(x) /\ MakeState(x, at) /\ MakeObjects(p, x) /\ process' = process
  BY DEF MakeStep
<1>3. \A c, y : y # x => (Somewhere(ItFrame(c, y))' <=> Somewhere(ItFrame(c, y)))
  BY <1>1, MakeSomewhere
<1>4. RunsAreMarked'
  <2>1. thread'[Main].state = {"DETACHED"}
    BY <1>1, <1>2, ItConstants DEF MakeState, ItIInv, RunsAreMarked
  <2>2. ASSUME NEW y \in Created, y # x
        PROVE  IF stack'[y] # <<>>
               THEN Is(y, "FINISHED")' <=> stack'[y][1].at \notin Stages
               ELSE Is(y, "FINISHED")' \/ Doomed(y)' \/ Somewhere(ItFrame("clone", y))'
    <3>1. IF stack[y] # <<>>
          THEN Is(y, "FINISHED") <=> stack[y][1].at \notin Stages
          ELSE Is(y, "FINISHED") \/ Doomed(y) \/ Somewhere(ItFrame("clone", y))
      BY <2>2 DEF ItIInv, RunsAreMarked
    <3>. QED BY <1>1, <1>3, <2>2, <3>1
  <2>3. IF stack'[x] # <<>>
        THEN Is(x, "FINISHED")' <=> stack'[x][1].at \notin Stages
        ELSE Is(x, "FINISHED")' \/ Doomed(x)' \/ Somewhere(ItFrame("clone", x))'
    <3>1. CASE stack'[x] # <<>>
      <4>1. ~Is(x, "FINISHED")'
        BY <1>2, <3>1 DEF MakeState, Is
      <4>2. stack'[x][1].at = "start"
        BY <1>1, <3>1, FrameFields DEF MakeFrames
      <4>. QED BY <3>1, <4>1, <4>2 DEF Stages
    <3>2. CASE stack'[x] = <<>>
      <4>1. at \in {"clone", "nonviable"} \/ "NONVIABLE" \in thread'[x].state
        BY <1>2, <3>2 DEF MakeState
      <4>2. Somewhere(ItFrame("clone", x))' <=> at = "clone"
        BY <1>1, MakeSomewhere
      <4>. QED BY <1>1, <3>2, <4>1, <4>2
    <3>. QED BY <3>1, <3>2
  <2>4. \A y : y \in Created' <=> y \in Created \/ y = x
    BY <1>2 DEF MakeSets
  <2>. QED BY <2>1, <2>2, <2>3, <2>4 DEF RunsAreMarked
<1>5. ({"join", "join_wait", "detached", "detach"} \cup Takes) \cap MakeLabels = {}
  BY WalkLabels DEF MakeLabels
<1>6. ASSUME NEW q \in Actor, NEW k \in 1..Len(stack'[q]), stack'[q][k].at \notin MakeLabels
      PROVE  k \in 1..Len(stack[q]) /\ stack'[q][k] = stack[q][k] /\ stack[q][k].x # x
             /\ stack[q][k].x \in Actor /\ q # x
  BY <1>1, <1>6, MakeStays, Typed
<1>7. JoinsAreMarked'
  <2>1. ASSUME NEW q \in Actor, NEW k \in 1..Len(stack'[q]), NEW y, y = stack'[q][k].x
        PROVE  /\ stack'[q][k].at \in {"join", "join_wait"} => Is(y, "JOINED")'
               /\ stack'[q][k].at = "detached" => Is(y, "DETACHED")'
               /\ stack'[q][k].at = "detach" => obj'[q][y] > 0 \/ y = q
               /\ stack'[q][k].at \in Takes => Callable(y)' \/ Somewhere(ItFrame("join", y))'
    <3>1. CASE stack'[q][k].at \notin MakeLabels
      <4>1. /\ k \in 1..Len(stack[q]) /\ stack'[q][k] = stack[q][k] /\ y # x /\ y \in Actor /\ q # x
        BY <1>6, <2>1, <3>1
      <4>2. /\ stack[q][k].at \in {"join", "join_wait"} => Is(y, "JOINED")
            /\ stack[q][k].at = "detached" => Is(y, "DETACHED")
            /\ stack[q][k].at = "detach" => obj[q][y] > 0 \/ y = q
            /\ stack[q][k].at \in Takes => Callable(y) \/ Somewhere(ItFrame("join", y))
        BY <2>1, <4>1 DEF ItIInv, JoinsAreMarked
      <4>3. obj'[q][y] = obj[q][y]
        BY <1>2, <4>1 DEF MakeObjects
      <4>. QED BY <1>1, <1>3, <4>1, <4>2, <4>3
    <3>2. CASE stack'[q][k].at \in MakeLabels
      BY <1>5, <3>2
    <3>. QED BY <3>1, <3>2
  <2>2. ASSUME NEW q \in Actor, NEW r \in Actor, NEW k \in 1..Len(stack'[q]),
               NEW l \in 1..Len(stack'[r]), stack'[q][k].at = "join",
               stack'[r][l] = stack'[q][k]
        PROVE  q = r /\ k = l
    <3>1. /\ k \in 1..Len(stack[q]) /\ stack'[q][k] = stack[q][k]
          /\ l \in 1..Len(stack[r]) /\ stack'[r][l] = stack[r][l]
      BY <1>5, <1>6, <2>2
    <3>. QED BY <2>2, <3>1 DEF ItIInv, JoinsAreMarked
  <2>. QED BY <2>1, <2>2 DEF JoinsAreMarked
<1>8. CleanedAlone'
  <2>1. stack[p] # <<>> /\ Inner(p).at # "gone"
    <3>1. Len(stack[p]) = 1 \/ Len(stack[p]) = 2
      BY <1>1 DEF MakeFrames
    <3>2. stack[p] # <<>>
      BY <1>1, <3>1, Typed, SMTT(40)
    <3>3. CASE Len(stack[p]) = 1
      BY <1>1, <3>2, <3>3, FrameFields DEF MakeFrames, Inner
    <3>4. CASE Len(stack[p]) = 2
      <4>1. stack[p][2].x = x /\ 2 \in 1..Len(stack[p])
        BY <1>1, <3>4 DEF MakeFrames
      <4>2. stack[p][2].at \in {"clone", "nonviable"}
        BY <1>1, <4>1 DEF MakeFrames
      <4>. QED BY <3>2, <3>4, <4>2 DEF Inner
    <3>. QED BY <3>1, <3>3, <3>4
  <2>. QED BY <1>2, <2>1, CleanedStays
<1>. QED BY <1>4, <1>7, <1>8

LEMMA MakeViable ==
  ASSUME ItIInv, ItTypeOK', NEW p \in Actor, NEW x \in Tid, NEW at, MakeStep(p, x, at)
  PROVE  /\ \A y : y # x => (y \in Viable' <=> y \in Viable)
         /\ x \in Viable' <=> at = "give"
         /\ x \in Viable => x \in Created /\ ~Somewhere(ItFrame("clone", x))
                            /\ ~Somewhere(ItFrame("nonviable", x))
<1>1. /\ MakeFrames(p, x, at) /\ x \in Actor /\ ItTypeOK /\ Created \subseteq Actor
      /\ \A y \in Actor : y # x => \A c : Is(y, c)' <=> Is(y, c)
  BY MakeNames
<1>2. MakeSets(x) /\ MakeState(x, at)
  BY DEF MakeStep
<1>3. \A c, y : y # x => (Somewhere(ItFrame(c, y))' <=> Somewhere(ItFrame(c, y)))
  BY <1>1, MakeSomewhere
<1>4. \A y : y \in Viable <=> y \in Created /\ ~Is(y, "NONVIABLE")
               /\ ~Somewhere(ItFrame("clone", y)) /\ ~Somewhere(ItFrame("nonviable", y))
  BY <1>1, ViableIs
<1>5. \A y : y \in Viable' <=> y \in Created' /\ ~Is(y, "NONVIABLE")'
               /\ ~Somewhere(ItFrame("clone", y))' /\ ~Somewhere(ItFrame("nonviable", y))'
  BY ViableThen
<1>6. ASSUME NEW y, y # x PROVE y \in Viable' <=> y \in Viable
  BY <1>1, <1>2, <1>3, <1>4, <1>5, <1>6 DEF MakeSets
<1>7. x \in Viable' <=> at = "give"
  <2>1. /\ Somewhere(ItFrame("clone", x))' <=> at = "clone"
        /\ Somewhere(ItFrame("nonviable", x))' <=> at = "nonviable"
    BY <1>1, MakeSomewhere
  <2>2. x \in Created' /\ at \in {"clone", "nonviable", "free", "give"}
    BY <1>1, <1>2 DEF MakeSets, MakeFrames
  <2>3. Is(x, "NONVIABLE")' => at = "free"
    BY <1>2 DEF MakeState, Is
  <2>4. at = "free" => Is(x, "NONVIABLE")'
    <3>1. at = "free" => stack'[x] = <<>>
      BY <1>1 DEF MakeFrames
    <3>. QED BY <1>2, <3>1 DEF MakeState, Is
  <2>. QED BY <1>5, <2>1, <2>2, <2>3, <2>4
<1>. QED BY <1>4, <1>6, <1>7

LEMMA MakeInvariant ==
  ASSUME ItIInv, ItTypeOK', NEW p \in Actor, NEW x \in Tid, NEW at, MakeStep(p, x, at),
         ShapeOf(stack'), CountersAreRight', CountsReferences'
  PROVE  ItIInv'
<1>1. Shape'
  BY DEF Shape, ShapeOf
<1>2. OnlyKnown' /\ WalksAreInList' /\ TotalIsRight' /\ ListIsRight' /\ PoolIsHeld'
  BY MakeKeepsKnown
<1>3. CloneIsFresh' /\ DoomedIsAlone' /\ EndIsOne' /\ EndIsLast' /\ AssertionsHold'
  BY MakeKeepsClones, MakeKeepsDoomed, MakeKeepsEnds
<1>4. RunsAreMarked' /\ JoinsAreMarked' /\ CleanedAlone'
  BY MakeKeepsMarks
<1>. QED BY <1>1, <1>2, <1>3, <1>4 DEF ItIInv

LEMMA MakeCounters ==
  ASSUME ItIInv, ItTypeOK', NEW p \in Actor, NEW x \in Tid, NEW at, MakeStep(p, x, at),
         at # "give", x \notin Viable,
         pool'.running = pool.running, pool'.detached = pool.detached,
         pool'.joinable = pool.joinable
  PROVE  CountersAreRight'
<1>1. /\ MakeFrames(p, x, at) /\ ItTypeOK /\ Created \subseteq Actor
      /\ \A y \in Actor : y # x => \A c : Is(y, c)' <=> Is(y, c)
  BY MakeNames
<1>2. Viable' = Viable
  BY MakeViable
<1>3. stack' \in Stacks /\ Viable \subseteq Actor
  BY <1>1 DEF MakeFrames, Viable
<1>4. ASSUME NEW y \in Viable
      PROVE  /\ Is(y, "FINISHED")' <=> Is(y, "FINISHED")
             /\ Is(y, "DETACHED")' <=> Is(y, "DETACHED")
             /\ (Is(y, "JOINED") /\ ~Somewhere(ItFrame("join", y)))' <=>
                  Is(y, "JOINED") /\ ~Somewhere(ItFrame("join", y))
  <2>1. y \in Actor /\ y # x
    BY <1>3, <1>4
  <2>2. Somewhere(ItFrame("join", y))' <=> Somewhere(ItFrame("join", y))
    BY <1>1, <2>1, MakeSomewhere
  <2>. QED BY <1>1, <2>1, <2>2
<1>. QED BY <1>2, <1>3, <1>4, CountersStay

LEMMA NotHeld ==
  ASSUME NEW s \in Stacks, NEW x,
         \A q \in Actor : \A k \in 1..Len(s[q]) : s[q][k].x # x
  PROVE  Held(s, x) = 0
<1>1. At(s, x, Owners) = {} /\ At(s, x, OwningTwo) = {}
  BY AtIs
<1>. QED BY <1>1, FS_EmptySet DEF Held

LEMMA NoNumber ==
  ASSUME NEW o \in [Actor -> [Actor -> Nat]], NEW x \in Actor, \A i \in Actor : o[i][x] = 0
  PROVE  Number(o, x) = 0
<1>1. ObjectsIn(o, x) = {}
  BY ObjectsAre
<1>. QED BY <1>1, FS_EmptySet DEF Number

\* perl_clone copies the objects that p has, and counts each.
Duplicated(p, x) ==
  /\ thread' \in Threads /\ \A y \in Actor : thread'[y].state = thread[y].state
  /\ obj' \in [Actor -> [Actor -> Nat]]
  /\ \A i, y \in Actor : i # x => obj'[i][y] = obj[i][y]
  /\ \A y \in Actor : obj'[x][y] = obj[p][y]
  /\ \A y \in Actor :
       thread'[y].count - Number(obj', y) = thread[y].count - Number(obj, y)

LEMMA Dups ==
  ASSUME ItIInv, NEW p \in Actor, NEW x \in Actor, x # p, Dup(p, x),
         \A y \in Actor : obj[x][y] = 0 /\ obj[y][x] = 0,
         obj' = [obj EXCEPT ![x] = obj[p]]
  PROVE  Duplicated(p, x)
<1>1. thread \in Threads /\ obj \in [Actor -> [Actor -> Nat]]
  BY DEF ItIInv, ItTypeOK, Threads
<1>2. /\ \A y \in Actor : obj'[x][y] = obj[p][y]
      /\ \A i, y \in Actor : i # x => obj'[i][y] = obj[i][y]
      /\ obj' \in [Actor -> [Actor -> Nat]]
  BY <1>1
<1>3. ASSUME NEW y \in Actor
      PROVE  /\ thread'[y] \in [count : Nat, state : SUBSET Flags, interp : {"none", "live"},
                                mutex : Actor \cup {NoActor}]
             /\ thread'[y].state = thread[y].state
             /\ thread'[y].count = IF y = x THEN thread[y].count ELSE thread[y].count + obj[p][y]
  <2>1. PICK c \in Nat : c = thread[y].count + obj[p][y]
    <3>1. thread[y].count \in Nat /\ obj[p][y] \in Nat
      BY <1>1 DEF Threads
    <3>. QED BY <3>1
  <2>2. thread[y] \in [count : Nat, state : SUBSET Flags, interp : {"none", "live"},
                       mutex : Actor \cup {NoActor}]
    BY <1>1 DEF Threads
  <2>3. thread'[y] = IF y = x THEN [thread[y] EXCEPT !.interp = "live"]
                     ELSE [thread[y] EXCEPT !.count = c]
    BY <2>1 DEF Dup
  <2>. QED BY <2>1, <2>2, <2>3
<1>4. thread' \in Threads
  <2>1. thread' = [y \in Actor |-> thread'[y]]
    BY DEF Dup
  <2>. QED BY <1>3, <2>1 DEF Threads
<1>5. ASSUME NEW y \in Actor
      PROVE  thread'[y].count - Number(obj', y) = thread[y].count - Number(obj, y)
  <2>1. CASE y = x
    <3>1. \A i \in Actor : obj'[i][y] = obj[i][y]
      BY <1>2, <2>1
    <3>2. Number(obj', y) = Number(obj, y)
      BY <3>1, ObjectsSame
    <3>. QED BY <1>3, <2>1, <3>2
  <2>2. CASE y # x
    <3>1. PICK w \in [Actor -> [Actor -> Nat]] : w = obj'
      BY <1>2
    <3>6. \A i \in Actor : i # x => w[i][y] = obj[i][y]
      BY <1>2, <3>1
    <3>7. obj \in [Actor -> [Actor -> Nat]] /\ y \in Actor /\ x \in Actor
      BY <1>1
    <3>8. Number(w, y) = Number(obj, y) - obj[x][y] + w[x][y]
      BY ONLY <3>6, <3>7, w \in [Actor -> [Actor -> Nat]], ObjectsDiffer
    <3>2. Number(obj', y) = Number(obj, y) - obj[x][y] + obj'[x][y]
      BY <3>1, <3>8
    <3>3. obj[x][y] = 0 /\ obj'[x][y] = obj[p][y] /\ obj[p][y] \in Nat
      BY <1>1, <1>2
    <3>4. thread[y].count \in Nat /\ thread'[y].count = thread[y].count + obj[p][y]
      BY <1>1, <1>3, <2>2 DEF Threads
    <3>5. Number(obj, y) \in Nat
      BY <1>1, ObjectsAre
    <3>. QED BY ONLY <3>2, <3>3, <3>4, <3>5
  <2>. QED BY <2>1, <2>2
<1>. QED BY <1>2, <1>3, <1>4, <1>5 DEF Duplicated

\* p is making x, in its second frame.
Maker(p, x, was) ==
  /\ x \in Tid /\ x \in Created /\ x # p /\ stack[x] = <<>> /\ stack \in Stacks
  /\ Len(stack[p]) = 2 /\ stack[p][1] = ItFrame("code", p) /\ stack[p][2] = ItFrame(was, x)
  /\ stack[p][2].x = x
  /\ \A i \in Actor : obj[i][x] = 0
  /\ \A q \in Actor : \A k \in 1..Len(stack[q]) :
       stack[q][k].x = x => q = p /\ k = 2 /\ stack[q][k].at = was
  /\ x \in Listed /\ x \notin freed /\ x \notin Viable
  /\ \A i, j \in DOMAIN list : list[i] = list[j] => i = j

LEMMA MakerIs ==
  ASSUME ItIInv, NEW p \in Actor, NEW was \in OwningTwo, Now(p, was), NEW x, x = Target(p)
  PROVE  /\ Maker(p, x, was)
         /\ was = "clone" => thread[x].state = {} /\ \A y \in Actor : obj[x][y] = 0
         /\ was = "nonviable" => "fail" \in itScenario[p]
<1>1. /\ ItTypeOK /\ x \in Actor /\ stack \in Stacks /\ was \in {"clone", "nonviable"}
      /\ Len(stack[p]) \in 1..Len(stack[p])
      /\ stack[p][Len(stack[p])] = ItFrame(was, x)
  BY TopFrame DEF ItIInv, OwningTwo
<1>2. was \in OnCode
  BY <1>1 DEF OnCode
<1>3. Len(stack[p]) = 2 /\ stack[p][1] = ItFrame("code", p)
  BY <1>2, CalledFrom
<1>4. /\ 2 \in 1..Len(stack[p]) /\ stack[p][2] = ItFrame(was, x)
      /\ stack[p][2].at = was /\ stack[p][2].x = x
  BY <1>1, <1>3, FrameFields
<1>5. CASE was = "clone"
  <2>1. MadeBy(p, 2, x)
    BY <1>4, <1>5 DEF ItIInv, CloneIsFresh
  <2>2. /\ x \in Created /\ thread[x].state = {} /\ stack[x] = <<>>
        /\ \A y \in Actor : obj[x][y] = 0 /\ obj[y][x] = 0
        /\ \A q \in Actor : \A l \in 1..Len(stack[q]) : stack[q][l].x = x => q = p /\ l = 2
    BY <2>1 DEF MadeBy
  <2>3. x # p /\ x \in Tid
    <3>1. stack[p] # <<>>
      BY <1>3
    <3>. QED BY <1>1, <2>2, <3>1, Typed
  <2>4. ASSUME NEW c, c # "clone", Somewhere(ItFrame(c, x)) PROVE FALSE
    <3>1. PICK q \in Actor : \E k \in 1..Len(stack[q]) : stack[q][k] = ItFrame(c, x)
      BY <2>4 DEF Somewhere
    <3>2. PICK k \in 1..Len(stack[q]) : stack[q][k] = ItFrame(c, x)
      BY <3>1
    <3>3. stack[q][k].at = c /\ stack[q][k].x = x
      BY <3>2, FrameFields
    <3>. QED BY <1>4, <1>5, <2>2, <2>4, <3>3
  <2>5. x \notin freed
    <3>1. SUFFICES ASSUME x \in freed PROVE FALSE
      OBVIOUS
    <3>2. Is(x, "NONVIABLE") \/ Unreferenced(x)
      BY <3>1 DEF ItIInv, EndIsLast
    <3>3. ~Is(x, "NONVIABLE") /\ Callable(x)
      BY <2>2 DEF Is, Callable
    <3>. QED BY <3>2, <3>3 DEF Unreferenced
  <2>6. ~Unlinked(x)
    BY <2>4, <2>5 DEF Unlinked
  <2>7. /\ x \in Listed
        /\ \A i, j \in DOMAIN list : list[i] = list[j] => i = j
    BY <1>1, <2>2, <2>6 DEF ItIInv, ListIsRight
  <2>8. x \notin Viable
    <3>1. Somewhere(ItFrame("clone", x))
      BY <1>4, <1>5 DEF Somewhere
    <3>. QED BY <1>1, <3>1, ViableIs
  <2>9. \A q \in Actor : \A k \in 1..Len(stack[q]) :
          stack[q][k].x = x => q = p /\ k = 2 /\ stack[q][k].at = was
    BY <1>4, <2>2
  <2>. QED BY <1>1, <1>3, <1>4, <1>5, <2>2, <2>3, <2>5, <2>7, <2>8, <2>9 DEF Maker
<1>6. CASE was = "nonviable"
  <2>1. Somewhere(ItFrame("nonviable", x))
    BY <1>4, <1>6 DEF Somewhere
  <2>2. /\ x \in Created /\ stack[x] = <<>> /\ \A i \in Actor : obj[i][x] = 0
        /\ \E r \in Actor : DoomedBy(r, x)
    BY <1>1, <2>1 DEF ItIInv, DoomedIsAlone, Doomed
  <2>3. PICK r \in Actor : DoomedBy(r, x)
    BY <2>2
  <2>4. r = p
    BY <1>4, <2>3 DEF DoomedBy
  <2>5. x # p /\ x \in Tid
    <3>1. stack[p] # <<>>
      BY <1>3
    <3>. QED BY <1>1, <2>2, <3>1, Typed
  <2>6. /\ "fail" \in itScenario[p]
        /\ \A q \in Actor : \A k \in 1..Len(stack[q]) : stack[q][k].x = x =>
             q = p /\ (k = 2 \/ k = 3)
        /\ x \in Listed <=>
             /\ Len(stack[p]) > 1 /\ stack[p][2].x = x
             /\ stack[p][2].at \in {"nonviable", "free", "unlink"}
    BY <2>3, <2>4 DEF DoomedBy
  <2>7. ASSUME NEW q \in Actor, NEW k \in 1..Len(stack[q]), stack[q][k].x = x
        PROVE  q = p /\ k = 2 /\ stack[q][k].at = was
    <3>1. q = p /\ (k = 2 \/ k = 3)
      BY <2>6, <2>7
    <3>2. k \in 1..2
      BY <1>3, <3>1
    <3>3. k # 3
      BY ONLY <3>2
    <3>. QED BY <1>4, <3>1, <3>3
  <2>8. x \in Listed
    BY <1>3, <1>4, <1>6, <2>6
  <2>9. x \notin freed /\ \A i, j \in DOMAIN list : list[i] = list[j] => i = j
    BY <1>1, <2>8 DEF ItIInv, ListIsRight, Unlinked
  <2>10. x \notin Viable
    BY <1>1, <2>1, ViableIs
  <2>. QED BY <1>1, <1>3, <1>4, <1>6, <2>2, <2>5, <2>6, <2>7, <2>8, <2>9, <2>10 DEF Maker
<1>. QED BY <1>1, <1>5, <1>6

LEMMA MakerFrames ==
  ASSUME ItIInv, NEW p \in Actor, NEW was \in OwningTwo, NEW x, Maker(p, x, was),
         NEW at \in {"nonviable", "free"}, Continued(p, ItFrame(was, x), ItFrame(at, x))
  PROVE  MakeFrames(p, x, at) /\ stack'[x] = <<>> /\ ShapeOf(stack')
<1>1. /\ stack' \in Stacks /\ Replaced(stack, stack', p, ItFrame(at, x))
      /\ \A q \in Actor : q # p => stack'[q] = stack[q]
      /\ Len(stack'[p]) = 2 /\ stack'[p][Len(stack[p])] = ItFrame(at, x) /\ ShapeOf(stack')
  BY DEF Continued, Relabeled
<1>2. /\ x \in Tid /\ x # p /\ stack[x] = <<>> /\ stack \in Stacks
      /\ Len(stack[p]) = 2 /\ stack[p][1] = ItFrame("code", p) /\ stack[p][2].x = x
      /\ \A q \in Actor : \A k \in 1..Len(stack[q]) :
           stack[q][k].x = x => q = p /\ k = 2 /\ stack[q][k].at = was
  BY DEF Maker
<1>3. stack'[p][1] = stack[p][1] /\ stack'[p][2] = ItFrame(at, x)
  <2>1. \A k \in 1..2 : k < 2 => stack'[p][k] = stack[p][k]
    BY <1>1, <1>2 DEF Replaced
  <2>. QED BY <1>1, <1>2, <2>1
<1>4. x \in Actor /\ was \in {"clone", "nonviable"}
  BY <1>2, ItConstants DEF OwningTwo
<1>5. stack'[x] = <<>>
  BY <1>1, <1>2, <1>4
<1>. QED BY <1>1, <1>2, <1>3, <1>4, <1>5 DEF MakeFrames

\* create gives up a thread that could not be started.
LEMMA NonviableKeeps == ASSUME ItIInv, NEW p \in Actor, Nonviable(p) PROVE ItIInv'
<1>1. /\ ItTypeOK /\ Now(p, "nonviable") /\ GotoAt(p, "free", Target(p))
      /\ thread' = [thread EXCEPT ![Target(p)].state = @ \cup {"NONVIABLE"}]
      /\ UNCHANGED <<itScenario, pool, list, obj, tid_counter, freed, process>>
  BY DEF ItIInv, Nonviable, Goto
<1>2. PICK x \in Actor : x = Target(p)
  BY <1>1, TopFrame
<1>3. PICK f : f = ItFrame("free", x) /\ f.at = "free" /\ f.x = x
  BY FrameFields
<1>4. "nonviable" \in OnCode /\ "free" \in OnCode /\ "nonviable" \in OwningTwo
  BY DEF OnCode, OwningTwo
<1>5. Continued(p, ItFrame("nonviable", x), f)
  <2>1. GotoAt(p, "free", x)
    BY <1>1, <1>2
  <2>. QED BY <1>1, <1>2, <1>3, <1>4, <2>1, Continues
<1>6. Maker(p, x, "nonviable") /\ "fail" \in itScenario[p]
  BY <1>1, <1>2, <1>4, MakerIs
<1>7. MakeFrames(p, x, "free") /\ stack'[x] = <<>> /\ ShapeOf(stack')
  <2>1. Continued(p, ItFrame("nonviable", x), ItFrame("free", x))
    BY <1>3, <1>5
  <2>2. "free" \in {"nonviable", "free"}
    OBVIOUS
  <2>. QED BY <1>4, <1>6, <2>1, <2>2, MakerFrames
<1>8. /\ thread' \in Threads /\ thread'[x].state = thread[x].state \cup {"NONVIABLE"}
      /\ \A y \in Actor : y # x => thread'[y].state = thread[y].state
      /\ \A y \in Actor : thread'[y].count = thread[y].count
  <2>1. PICK S \in SUBSET Flags : S = {"NONVIABLE"}
    BY DEF Flags
  <2>2. thread' = [thread EXCEPT ![x].state = thread[x].state \cup S]
    BY <1>1, <1>2, <2>1
  <2>3. /\ thread' \in Threads /\ thread'[x].state = thread[x].state \cup S
        /\ \A y \in Actor : y # x => thread'[y].state = thread[y].state
        /\ \A y \in Actor : thread'[y].count = thread[y].count
    BY <1>1, <2>2, StateMoves
  <2>. QED BY <2>1, <2>3
<1>9. ItTypeOK'
  <2>1. stack' \in Stacks
    BY <1>7 DEF MakeFrames
  <2>. QED BY <1>1, <1>8, <2>1, TypeStays
<1>10. MakeStep(p, x, "free")
  <2>1. /\ x \in Tid /\ x \in Created /\ (\A i \in Actor : obj[i][x] = 0)
        /\ x \in Listed /\ x \notin freed /\ x # p
        /\ \A i, j \in DOMAIN list : list[i] = list[j] => i = j
    BY <1>6 DEF Maker
  <2>2. MakeState(x, "free")
    BY <1>7, <1>8 DEF MakeState
  <2>3. MakeObjects(p, x)
    BY <1>1, <2>1 DEF MakeObjects
  <2>4. MakePool(p, x, "free")
    BY <1>1, <2>1 DEF MakePool
  <2>5. MakeSets(x)
    BY <1>1, <2>1 DEF MakeSets, Created, Listed
  <2>. QED BY <1>1, <1>6, <1>7, <2>2, <2>3, <2>4, <2>5 DEF MakeStep
<1>11. CountersAreRight'
  <2>1. x \in Tid /\ x \notin Viable
    BY <1>6 DEF Maker
  <2>. QED BY <1>1, <1>9, <1>10, <2>1, MakeCounters
<1>12. CountsReferences'
  <2>1. Known' = Known /\ Known' \subseteq Actor
    BY <1>1, Typed DEF Known, Created
  <2>2. ASSUME NEW y \in Known', ~Is(y, "NONVIABLE")'
        PROVE  /\ y \in Known /\ ~Is(y, "NONVIABLE")
               /\ thread'[y].count - Free1(y)' - Number(obj', y) - Held(stack', y)
                    = thread[y].count - Free1(y) - Number(obj, y) - Held(stack, y)
    <3>1. y \in Known /\ y \in Actor /\ y # x
      BY <1>8, <2>1, <2>2 DEF Is
    <3>2. (Is(y, "NONVIABLE")' <=> Is(y, "NONVIABLE")) /\ Free1(y)' = Free1(y)
      BY <1>8, <3>1 DEF Is, Free1, Callable
    <3>3. thread'[y].count = thread[y].count /\ Number(obj', y) = Number(obj, y)
      BY <1>1, <1>8, <3>1
    <3>4. Held(stack', y) = Held(stack, y)
      <4>1. /\ Held(stack', y) = Held(stack, y) - Weight(ItFrame("nonviable", x), y) + Weight(f, y)
            /\ Held(stack, y) \in Nat
        BY <1>5 DEF Continued, Relabeled, HeldMoves
      <4>2. Weight(ItFrame("nonviable", x), y) = 0 /\ Weight(f, y) = 0
        BY <1>3, <3>1, WeightIs
      <4>. QED BY <4>1, <4>2
    <3>. QED BY <2>2, <3>1, <3>2, <3>3, <3>4
  <2>. QED BY <1>9, <2>1, <2>2, CountsMove
<1>13. x \in Tid
  BY <1>6 DEF Maker
<1>. QED BY <1>7, <1>9, <1>10, <1>11, <1>12, <1>13, MakeInvariant

\* The two outcomes of a clone, but for the stack and for what starts.
Cloned(p, x) ==
  /\ Maker(p, x, "clone") /\ Duplicated(p, x) /\ x \in Actor /\ x # p
  /\ thread[x].state = {} /\ (\A y \in Actor : obj[x][y] = 0) /\ pool.mutex = p
  /\ "clone" \in OnCode /\ "clone" \in OwningTwo

LEMMA Clones ==
  ASSUME ItIInv, NEW p \in Actor, Now(p, "clone"), NEW x, x = Target(p), Dup(p, x),
         obj' = [obj EXCEPT ![x] = obj[p]]
  PROVE  Cloned(p, x)
<1>1. "clone" \in OnCode /\ "clone" \in OwningTwo
  BY DEF OnCode, OwningTwo
<1>2. Maker(p, x, "clone") /\ thread[x].state = {} /\ \A y \in Actor : obj[x][y] = 0
  BY <1>1, MakerIs
<1>3. /\ x \in Actor /\ x # p /\ \A y \in Actor : obj[x][y] = 0 /\ obj[y][x] = 0
  BY <1>2, ItConstants DEF Maker
<1>4. Duplicated(p, x)
  BY <1>3, Dups
<1>5. pool.mutex = p
  <2>1. 2 \in 1..Len(stack[p]) /\ stack[p][2].at = "clone"
    BY <1>2, FrameFields DEF Maker
  <2>. QED BY <2>1 DEF ItIInv, PoolIsHeld
<1>. QED BY <1>1, <1>2, <1>3, <1>4, <1>5 DEF Cloned

LEMMA ClonedObjects ==
  ASSUME ItIInv, NEW p \in Actor, NEW x \in Actor, Cloned(p, x)
  PROVE  MakeObjects(p, x)
<1>1. /\ \A i, y \in Actor : i # x => obj'[i][y] = obj[i][y]
      /\ \A y \in Actor : obj'[x][y] = obj[p][y]
      /\ \A i \in Actor : obj[i][x] = 0
  BY DEF Cloned, Duplicated, Maker
<1>2. ASSUME NEW i \in Actor PROVE obj'[i][x] = 0
  BY <1>1
<1>. QED BY <1>1, <1>2 DEF MakeObjects

LEMMA ClonedSets ==
  ASSUME NEW p \in Actor, NEW x \in Actor, Cloned(p, x), UNCHANGED <<list, tid_counter, freed>>
  PROVE  MakeSets(x) /\ x \in Tid /\ x \in Created
  BY DEF Cloned, Maker, MakeSets, Created, Listed

LEMMA ClonedCounts ==
  ASSUME ItIInv, ItTypeOK', NEW p \in Actor, NEW x \in Actor, Cloned(p, x),
         UNCHANGED tid_counter, \A y \in Actor : Held(stack', y) = Held(stack, y)
  PROVE  CountsReferences'
<1>1. Known' = Known /\ Known' \subseteq Actor /\ ItTypeOK
  BY Typed DEF Known, Created, ItIInv
<1>2. ASSUME NEW y \in Known', ~Is(y, "NONVIABLE")'
      PROVE  /\ y \in Known /\ ~Is(y, "NONVIABLE")
             /\ thread'[y].count - Free1(y)' - Number(obj', y) - Held(stack', y)
                  = thread[y].count - Free1(y) - Number(obj, y) - Held(stack, y)
  <2>1. y \in Known /\ y \in Actor
    BY <1>1, <1>2
  <2>2. (Is(y, "NONVIABLE")' <=> Is(y, "NONVIABLE")) /\ Free1(y)' = Free1(y)
    BY <2>1 DEF Cloned, Duplicated, Is, Free1, Callable
  <2>3. thread'[y].count - Number(obj', y) = thread[y].count - Number(obj, y)
    BY <2>1 DEF Cloned, Duplicated
  <2>4. Held(stack', y) = Held(stack, y)
    BY <2>1
  <2>5. /\ thread[y].count \in Nat /\ Number(obj, y) \in Nat /\ Held(stack, y) \in Nat
        /\ Free1(y) \in {0, 1}
    BY <1>1, <2>1, CountsAre, Typed
  <2>6. thread'[y].count \in Nat /\ Number(obj', y) \in Nat
    <3>1. thread' \in Threads /\ obj' \in [Actor -> [Actor -> Nat]]
      BY DEF Cloned, Duplicated
    <3>. QED BY <2>1, <3>1, ObjectsAre DEF Threads
  <2>7. thread'[y].count - Free1(y)' - Number(obj', y) - Held(stack', y)
          = thread[y].count - Free1(y) - Number(obj, y) - Held(stack, y)
    BY ONLY <2>2, <2>3, <2>4, <2>5, <2>6
  <2>. QED BY <1>2, <2>1, <2>2, <2>7
<1>. QED BY <1>1, <1>2, CountsMove

\* create clones the interpreter, and pthread_create fails.
LEMMA CloneAndFailKeeps == ASSUME ItIInv, NEW p \in Actor, CloneAndFail(p) PROVE ItIInv'
<1>1. /\ ItTypeOK /\ Now(p, "clone") /\ GotoAt(p, "nonviable", Target(p))
      /\ "fail" \in itScenario[p] /\ Dup(p, Target(p))
      /\ obj' = [obj EXCEPT ![Target(p)] = obj[p]]
      /\ pool' = [pool EXCEPT !.mutex = NoActor]
      /\ UNCHANGED <<itScenario, list, tid_counter, freed, process>>
  BY DEF ItIInv, CloneAndFail, Goto
<1>2. PICK x \in Actor : x = Target(p)
  BY <1>1, TopFrame
<1>3. PICK f : f = ItFrame("nonviable", x) /\ f.at = "nonviable" /\ f.x = x
  BY FrameFields
<1>4. Cloned(p, x)
  BY <1>1, <1>2, Clones
<1>5. Continued(p, ItFrame("clone", x), f)
  <2>1. GotoAt(p, "nonviable", x) /\ "nonviable" \in OnCode /\ "clone" \in OnCode
    BY <1>1, <1>2, <1>4 DEF Cloned, OnCode
  <2>. QED BY <1>1, <1>2, <1>3, <2>1, Continues
<1>6. MakeFrames(p, x, "nonviable") /\ stack'[x] = <<>> /\ ShapeOf(stack')
  <2>1. Continued(p, ItFrame("clone", x), ItFrame("nonviable", x))
    BY <1>3, <1>5
  <2>2. "nonviable" \in {"nonviable", "free"} /\ Maker(p, x, "clone") /\ "clone" \in OwningTwo
    BY <1>4 DEF Cloned
  <2>. QED BY <2>1, <2>2, MakerFrames
<1>7. PICK q \in Actor \cup {NoActor} : q = NoActor
  OBVIOUS
<1>8. /\ pool'.mutex = q /\ pool'.total = pool.total /\ pool'.running = pool.running
      /\ pool'.detached = pool.detached /\ pool'.joinable = pool.joinable
      /\ pool' \in [mutex : Actor \cup {NoActor}, running : Nat, joinable : Int,
                    detached : Nat, total : Nat]
  BY <1>1, <1>7, PoolMutexMoves
<1>9. ItTypeOK'
  <2>1. thread' \in Threads /\ obj' \in [Actor -> [Actor -> Nat]]
    BY <1>4 DEF Cloned, Duplicated
  <2>2. stack' \in Stacks
    BY <1>6 DEF MakeFrames
  <2>. QED BY <1>1, <1>8, <2>1, <2>2 DEF ItTypeOK, Threads, Stacks, FrameSet
<1>10. MakeStep(p, x, "nonviable") /\ x \in Tid /\ x \notin Viable
  <2>1. /\ \A y \in Actor : thread'[y].state = thread[y].state
        /\ thread[x].state = {} /\ pool.mutex = p /\ x \notin Viable
    BY <1>4 DEF Cloned, Duplicated, Maker
  <2>2. MakeState(x, "nonviable")
    BY <1>6, <2>1 DEF MakeState
  <2>3. MakeSets(x) /\ x \in Tid /\ x \in Created
    BY <1>1, <1>4, ClonedSets
  <2>4. MakePool(p, x, "nonviable")
    BY <1>8, <2>1, <2>3 DEF MakePool
  <2>. QED BY <1>1, <1>4, <1>6, <2>1, <2>2, <2>3, <2>4, ClonedObjects DEF MakeStep
<1>11. CountersAreRight'
  BY <1>8, <1>9, <1>10, MakeCounters
<1>12. CountsReferences'
  <2>1. ASSUME NEW y \in Actor PROVE Held(stack', y) = Held(stack, y)
    <3>1. /\ Held(stack', y) = Held(stack, y) - Weight(ItFrame("clone", x), y) + Weight(f, y)
          /\ Held(stack, y) \in Nat
      BY <1>5 DEF Continued, Relabeled, HeldMoves
    <3>2. Weight(ItFrame("clone", x), y) = Weight(f, y) /\ Weight(f, y) \in Nat
      <4>1. {"clone", "nonviable"} \subseteq Owners /\ {"clone", "nonviable"} \subseteq OwningTwo
        BY DEF Owners, OwningTwo
      <4>. QED BY <1>3, <4>1, WeightIs
    <3>. QED BY <3>1, <3>2
  <2>. QED BY <1>1, <1>4, <1>9, <2>1, ClonedCounts
<1>. QED BY <1>6, <1>9, <1>10, <1>11, <1>12, MakeInvariant

\* The maker goes on at "give", and x is to start.
Started(p, x) ==
  /\ MakeFrames(p, x, "give") /\ ShapeOf(stack')
  /\ Len(stack'[x]) = 1 /\ stack'[x][1] = ItFrame("start", x) /\ stack'[x] # <<>>
  /\ \A y \in Actor : Held(stack', y) = Held(stack, y)

LEMMA Starts ==
  ASSUME ItIInv, NEW p \in Actor, NEW x \in Actor, Maker(p, x, "clone"), x # p,
         stack' = [stack EXCEPT ![p] = Append(Outer(@), ItFrame("give", x)),
                                ![x] = <<ItFrame("start", x)>>]
  PROVE  Started(p, x)
<1>1. /\ x \in Tid /\ x # p /\ stack[x] = <<>> /\ stack \in Stacks
      /\ Len(stack[p]) = 2 /\ stack[p][1] = ItFrame("code", p)
      /\ stack[p][2] = ItFrame("clone", x) /\ stack[p][2].x = x
      /\ \A q \in Actor : \A k \in 1..Len(stack[q]) :
           stack[q][k].x = x => q = p /\ k = 2 /\ stack[q][k].at = "clone"
  BY DEF Maker
<1>2. PICK f \in FrameSet : f = ItFrame("give", x) /\ f.at = "give" /\ f.x = x
  <2>1. ItFrame("give", x) \in FrameSet
    BY DEF FrameSet, ItFrame, Labels, Owning
  <2>. QED BY <2>1, FrameFields
<1>3. PICK g \in FrameSet : g = ItFrame("start", x) /\ g.at = "start" /\ g.x = x
  <2>1. ItFrame("start", x) \in FrameSet
    BY DEF FrameSet, ItFrame, Labels, Owning, Running
  <2>. QED BY <2>1, FrameFields
<1>4. PICK u \in Seq(FrameSet) : u = Append(Outer(stack[p]), f) /\ Len(u) = 2
                                 /\ u[1] = stack[p][1] /\ u[2] = f
  <2>1. PICK o : o = Outer(stack[p])
    OBVIOUS
  <2>2. stack[p] \in Seq(FrameSet) /\ Len(stack[p]) > 0
    BY <1>1 DEF Stacks
  <2>3. o \in Seq(FrameSet) /\ Len(o) = Len(stack[p]) - 1
        /\ \A k \in 1..Len(stack[p]) : k < Len(stack[p]) => o[k] = stack[p][k]
    BY <2>1, <2>2, OuterIs
  <2>4. Len(o) = 1 /\ o[1] = stack[p][1]
    BY <1>1, <2>3
  <2>5. /\ Append(o, f) \in Seq(FrameSet) /\ Len(Append(o, f)) = 2
        /\ Append(o, f)[1] = stack[p][1] /\ Append(o, f)[2] = f
    <3>1. /\ Append(o, f) \in Seq(FrameSet) /\ Len(Append(o, f)) = Len(o) + 1
          /\ \A i \in 1..Len(o) : Append(o, f)[i] = o[i]
          /\ Append(o, f)[Len(o) + 1] = f
      BY <2>3, AppendProperties
    <3>2. 1 \in 1..Len(o) /\ Len(o) + 1 = 2
      BY <2>4
    <3>. QED BY <2>4, <3>1, <3>2
  <2>. QED BY <2>1, <2>5
<1>5. PICK v \in Seq(FrameSet) : v = <<g>> /\ Len(v) = 1 /\ v[1] = g
  <2>1. <<g>> \in Seq(FrameSet)
    BY ONLY g \in FrameSet
  <2>2. Len(<<g>>) = 1 /\ <<g>>[1] = g
    BY ONLY TRUE
  <2>. QED BY <2>1, <2>2
<1>6. PICK s \in Stacks : s = [stack EXCEPT ![p] = u]
  BY <1>1 DEF Stacks
<1>7. /\ stack' \in Stacks /\ stack'[p] = u /\ stack'[x] = v /\ s[p] = u /\ s[x] = <<>>
      /\ \A q \in Actor : q # p => s[q] = stack[q]
      /\ \A q \in Actor : q # x => stack'[q] = s[q]
  <2>1. stack' = [s EXCEPT ![x] = v]
    BY <1>1, <1>2, <1>3, <1>4, <1>5, <1>6 DEF Stacks
  <2>2. stack' \in Stacks
    BY <1>6, <2>1 DEF Stacks
  <2>3. DOMAIN s = Actor /\ DOMAIN stack = Actor
    BY <1>1, <1>6 DEF Stacks
  <2>4. s[p] = u /\ (\A q \in Actor : q # p => s[q] = stack[q]) /\ s[x] = stack[x]
    BY <1>1, <1>6, <2>3
  <2>5. stack'[x] = v /\ \A q \in Actor : q # x => stack'[q] = s[q]
    BY <2>1, <2>3
  <2>. QED BY <1>1, <2>2, <2>4, <2>5
<1>8. Replaced(stack, s, p, f)
  <2>1. \A k \in 1..Len(stack[p]) : k < Len(stack[p]) => s[p][k] = stack[p][k]
    <3>1. \A k \in 1..2 : k < 2 => k = 1
      OBVIOUS
    <3>. QED BY <1>1, <1>4, <1>7, <3>1
  <2>. QED BY <1>1, <1>4, <1>7, <2>1 DEF Replaced
<1>9. Len(s[x]) = 0
  BY <1>7
<1>10. Pushed(s, stack', x, g)
  <2>1. Len(stack'[x]) = Len(s[x]) + 1 /\ stack'[x][Len(s[x]) + 1] = g
    <3>1. stack'[x] = v /\ Len(v) = 1 /\ v[1] = g
      BY <1>5, <1>7
    <3>. QED BY ONLY <1>9, <3>1
  <2>2. \A k \in 1..Len(s[x]) : stack'[x][k] = s[x][k]
    BY <1>9
  <2>. QED BY <1>7, <2>1, <2>2 DEF Pushed
<1>11. stack'[p][1] = stack[p][1] /\ stack'[p][2] = f /\ Len(stack'[p]) = 2
  BY <1>4, <1>7
<1>12. ShapeOf(stack')
  <2>1. ShapeOf(stack)
    BY ShapeIs DEF ItIInv
  <2>2. ShapeOf(s)
    <3>1. Len(stack[p]) > 1 => MayLie(f, stack[p][Len(stack[p]) - 1])
      <4>1. stack[p][Len(stack[p]) - 1] = stack[p][1]
        BY <1>1
      <4>2. MayLie(f, stack[p][1])
        BY <1>1, <1>2, FrameFields DEF MayLie, OnCode
      <4>. QED BY <4>1, <4>2
    <3>2. Len(stack[p]) = 1 => IsBottom(p, f) /\ (p = Main => f.at \in {"code", "gone"})
      BY <1>1
    <3>. QED BY <1>1, <1>8, <2>1, <3>1, <3>2, ReplacedShape
  <2>3. Len(s[x]) = 0 => IsBottom(x, g)
    BY <1>3 DEF IsBottom, Running
  <2>4. Len(s[x]) > 0 => MayLie(g, s[x][Len(s[x])])
    BY <1>9
  <2>. QED BY <1>7, <1>10, <2>2, <2>3, <2>4, PushedShape
<1>13. ASSUME NEW y \in Actor PROVE Held(stack', y) = Held(stack, y)
  <2>1. /\ Held(s, y) = Held(stack, y) - Weight(stack[p][Len(stack[p])], y) + Weight(f, y)
        /\ Held(stack, y) \in Nat
    BY <1>1, <1>8, ReplacedHeld
  <2>2. stack[p][Len(stack[p])] = ItFrame("clone", x)
    BY <1>1
  <2>3. Held(stack', y) = Held(s, y) + Weight(g, y)
    BY <1>7, <1>10, PushedHeld
  <2>4. Weight(ItFrame("clone", x), y) = Weight(f, y) + Weight(g, y)
    <3>1. {"clone", "give", "start"} \subseteq Owners /\ "clone" \in OwningTwo
          /\ "give" \notin OwningTwo /\ "start" \notin OwningTwo
      BY DEF Owners, Owning, Running, OwningTwo
    <3>. QED BY <1>2, <1>3, <3>1, WeightIs
  <2>5. Weight(f, y) \in Nat /\ Weight(g, y) \in Nat
    <3>1. Weight(f, y) \in {0, 1, 2} /\ Weight(g, y) \in {0, 1, 2}
      BY WeightIs
    <3>. QED BY <3>1
  <2>6. Held(s, y) = Held(stack, y) - (Weight(f, y) + Weight(g, y)) + Weight(f, y)
    BY <2>1, <2>2, <2>4
  <2>. QED BY ONLY <2>1, <2>3, <2>5, <2>6
<1>14. MakeFrames(p, x, "give")
  <2>1. \A q \in Actor : q # p /\ q # x => stack'[q] = stack[q]
    BY <1>7
  <2>2. Len(stack'[x]) = 1 /\ stack'[x][1] = ItFrame("start", x)
    <3>1. stack'[x] = v /\ Len(v) = 1 /\ v[1] = g /\ g = ItFrame("start", x)
      BY <1>3, <1>5, <1>7
    <3>. QED BY ONLY <3>1
  <2>3. stack'[p][1] = stack[p][1] /\ stack'[p][2] = ItFrame("give", x) /\ Len(stack'[p]) = 2
    BY <1>2, <1>11
  <2>4. \A q \in Actor : \A k \in 1..Len(stack[q]) :
          stack[q][k].x = x => q = p /\ k = 2 /\ stack[q][k].at \in {"clone", "nonviable"}
    BY <1>1
  <2>5. stack \in Stacks /\ stack' \in Stacks
    BY <1>1, <1>7
  <2>. QED BY ONLY <1>1, <2>1, <2>2, <2>3, <2>4, <2>5 DEF MakeFrames
<1>15. Len(stack'[x]) = 1 /\ stack'[x][1] = ItFrame("start", x) /\ stack'[x] # <<>>
  <2>1. stack'[x] = v /\ Len(v) = 1 /\ v[1] = g /\ g = ItFrame("start", x)
    BY <1>3, <1>5, <1>7
  <2>2. Len(<<>>) = 0
    OBVIOUS
  <2>3. ASSUME v = <<>> PROVE FALSE
    <3>1. Len(v) = 0
      BY <2>2, <2>3
    <3>2. Len(v) = 1
      BY <2>1
    <3>. QED BY ONLY <3>1, <3>2
  <2>. QED BY <2>1, <2>3
<1>. QED BY <1>12, <1>13, <1>14, <1>15 DEF Started

\* One more is active.
LEMMA StartedCounters ==
  ASSUME ItIInv, ItTypeOK', NEW p \in Actor, NEW x \in Tid, MakeStep(p, x, "give"),
         x \notin Viable, thread'[x].state = {},
         pool'.running = pool.running + 1, pool'.detached = pool.detached,
         pool'.joinable = pool.joinable
  PROVE  CountersAreRight'
<1>1. /\ MakeFrames(p, x, "give") /\ ItTypeOK /\ Created \subseteq Actor
      /\ \A y \in Actor : y # x => \A c : Is(y, c)' <=> Is(y, c)
  BY MakeNames
<1>2. (\A y : y # x => (y \in Viable' <=> y \in Viable)) /\ x \in Viable'
  BY MakeViable
<1>3. stack' \in Stacks /\ Viable \subseteq Actor
  BY <1>1 DEF MakeFrames, Viable
<1>4. ~Is(x, "FINISHED")' /\ ~Is(x, "DETACHED")' /\ ~Is(x, "JOINED")'
  BY DEF Is
<1>5. ASSUME NEW y, y # x, y \in Viable
      PROVE  /\ Is(y, "FINISHED")' <=> Is(y, "FINISHED")
             /\ Is(y, "DETACHED")' <=> Is(y, "DETACHED")
             /\ Is(y, "JOINED")' <=> Is(y, "JOINED")
             /\ Somewhere(ItFrame("join", y))' <=> Somewhere(ItFrame("join", y))
  <2>1. y \in Actor
    BY <1>3, <1>5
  <2>2. Somewhere(ItFrame("join", y))' <=> Somewhere(ItFrame("join", y))
    BY <1>1, <1>5, MakeSomewhere
  <2>. QED BY <1>1, <1>5, <2>1, <2>2
<1>6. \A y : y \in ActiveOnes' <=> y \in ActiveOnes \/ y = x
  BY <1>2, <1>4, <1>5 DEF ActiveOnes
<1>7. DetachedOnes' = DetachedOnes
  BY <1>2, <1>4, <1>5 DEF DetachedOnes
<1>8. JoinableOnes' = JoinableOnes
  BY <1>2, <1>4, <1>5 DEF JoinableOnes
<1>9. Joined' = Joined
  <2>1. /\ \A y : y \in Joined' <=>
             y \in Viable' /\ Is(y, "JOINED")' /\ ~Somewhere(ItFrame("join", y))'
        /\ \A y : y \in Joined <=>
             y \in Viable /\ Is(y, "JOINED") /\ ~Somewhere(ItFrame("join", y))
    BY <1>3, JoinedNow, JoinedIsThen
  <2>2. \A y : y \in Joined' <=> y \in Joined
    BY <1>2, <1>4, <1>5, <2>1
  <2>3. Joined' \subseteq Viable' /\ Joined \subseteq Viable
    BY DEF Joined
  <2>. QED BY <2>2, <2>3
<1>10. Cardinality(ActiveOnes') = Cardinality(ActiveOnes) + 1
  <2>1. IsFiniteSet(ActiveOnes) /\ x \notin ActiveOnes
    BY <1>1, OnesAreFinite DEF ActiveOnes
  <2>. QED BY <1>6, <2>1, OneMore
<1>11. /\ pool.running = Cardinality(ActiveOnes)
       /\ pool.detached = Cardinality(DetachedOnes)
       /\ pool.joinable = Cardinality(JoinableOnes) - Cardinality(Joined)
  BY CountersAre DEF ItIInv
<1>. QED BY <1>7, <1>8, <1>9, <1>10, <1>11, CountersThenAre

\* create clones the interpreter, and the thread starts.
LEMMA CloneAndStartKeeps == ASSUME ItIInv, NEW p \in Actor, CloneAndStart(p) PROVE ItIInv'
<1>1. /\ ItTypeOK /\ Now(p, "clone") /\ Dup(p, Target(p))
      /\ obj' = [obj EXCEPT ![Target(p)] = obj[p]]
      /\ pool' = [pool EXCEPT !.mutex = NoActor, !.running = @ + 1]
      /\ UNCHANGED <<itScenario, list, tid_counter, freed, process>>
  BY DEF ItIInv, CloneAndStart
<1>2. PICK x \in Actor : x = Target(p)
  BY <1>1, TopFrame
<1>3. Cloned(p, x)
  BY <1>1, <1>2, Clones
<1>4. Started(p, x)
  <2>1. stack' = [stack EXCEPT ![p] = Append(Outer(@), ItFrame("give", x)),
                               ![x] = <<ItFrame("start", x)>>]
    BY <1>2 DEF CloneAndStart
  <2>2. Maker(p, x, "clone") /\ x # p
    BY <1>3 DEF Cloned
  <2>. QED BY <2>1, <2>2, Starts
<1>5. /\ MakeFrames(p, x, "give") /\ ShapeOf(stack') /\ stack'[x] # <<>>
      /\ \A y \in Actor : Held(stack', y) = Held(stack, y)
  BY <1>4 DEF Started
<1>6. /\ pool'.mutex = NoActor /\ pool'.total = pool.total /\ pool'.running = pool.running + 1
      /\ pool'.detached = pool.detached /\ pool'.joinable = pool.joinable
      /\ pool' \in [mutex : Actor \cup {NoActor}, running : Nat, joinable : Int,
                    detached : Nat, total : Nat]
  <2>1. PICK n \in Nat : n = pool.running + 1
    BY <1>1, SMTT(40) DEF ItTypeOK
  <2>2. pool' = [pool EXCEPT !.mutex = NoActor, !.running = n]
    BY <1>1, <2>1
  <2>3. pool \in [mutex : Actor \cup {NoActor}, running : Nat, joinable : Int,
                  detached : Nat, total : Nat]
    BY <1>1 DEF ItTypeOK
  <2>. QED BY <2>1, <2>2, <2>3
<1>7. ItTypeOK'
  <2>1. thread' \in Threads /\ obj' \in [Actor -> [Actor -> Nat]]
    BY <1>3 DEF Cloned, Duplicated
  <2>2. stack' \in Stacks
    BY <1>5 DEF MakeFrames
  <2>. QED BY <1>1, <1>6, <2>1, <2>2 DEF ItTypeOK, Threads, Stacks, FrameSet
<1>8. /\ \A y \in Actor : thread'[y].state = thread[y].state
      /\ thread[x].state = {} /\ pool.mutex = p /\ x \notin Viable
  BY <1>3 DEF Cloned, Duplicated, Maker
<1>9. MakeStep(p, x, "give") /\ x \in Tid
  <2>1. MakeState(x, "give")
    BY <1>5, <1>8 DEF MakeState
  <2>2. MakeSets(x) /\ x \in Tid /\ x \in Created
    BY <1>1, <1>3, ClonedSets
  <2>3. MakePool(p, x, "give")
    BY <1>6, <1>8, <2>2 DEF MakePool
  <2>. QED BY <1>1, <1>3, <1>5, <2>1, <2>2, <2>3, ClonedObjects DEF MakeStep
<1>10. CountersAreRight'
  BY <1>6, <1>7, <1>8, <1>9, StartedCounters
<1>11. CountsReferences'
  BY <1>1, <1>3, <1>5, <1>7, ClonedCounts
<1>. QED BY <1>5, <1>7, <1>9, <1>10, <1>11, MakeInvariant

\* Nothing is about x yet.
Unknown(x) ==
  /\ x \in Tid /\ x \in Actor /\ x \notin Created /\ x \notin Known /\ stack[x] = <<>>
  /\ \A q \in Actor : \A k \in 1..Len(stack[q]) : stack[q][k].x # x
  /\ \A y \in Actor : obj[y][x] = 0 /\ obj[x][y] = 0
  /\ x \notin Listed /\ x \notin freed /\ x \notin Viable
  /\ \A i, j \in DOMAIN list : list[i] = list[j] => i = j

LEMMA NextIsUnknown ==
  ASSUME ItIInv, NEW x \in Tid, x = tid_counter
  PROVE  Unknown(x)
<1>1. ItTypeOK /\ x \in Actor
  BY ItConstants DEF ItIInv
<1>2. x \notin Created /\ x # Main
  BY ItConstants DEF Created
<1>3. x \notin Known
  BY <1>2 DEF Known
<1>4. stack[x] = <<>>
  BY <1>1, <1>3, RunnerIsCommon
<1>5. /\ \A q \in Actor : \A k \in 1..Len(stack[q]) : stack[q][k].x \in Known
      /\ \A i, y \in Actor : obj[i][y] > 0 => i \in Known /\ y \in Known
      /\ freed \subseteq Created
  BY DEF ItIInv, OnlyKnown
<1>6. ASSUME NEW y \in Actor PROVE obj[y][x] = 0 /\ obj[x][y] = 0
  <2>1. obj[y][x] \in Nat /\ obj[x][y] \in Nat
    BY <1>1, Typed
  <2>2. ~(obj[y][x] > 0) /\ ~(obj[x][y] > 0)
    BY <1>1, <1>3, <1>5
  <2>. QED BY <2>1, <2>2
<1>7. x \notin Listed /\ \A i, j \in DOMAIN list : list[i] = list[j] => i = j
  BY <1>1, <1>2 DEF ItIInv, ListIsRight
<1>8. x \notin Viable
  BY <1>2 DEF Viable
<1>. QED BY <1>1, <1>2, <1>3, <1>4, <1>5, <1>6, <1>7, <1>8 DEF Unknown

LEMMA AppendedIs ==
  ASSUME NEW s \in Seq(Tid), NEW x \in Tid, NEW t, t = Append(s, x),
         \A i \in DOMAIN s : s[i] # x,
         \A i, j \in DOMAIN s : s[i] = s[j] => i = j
  PROVE  /\ t \in Seq(Tid)
         /\ \A y : y \in {t[i] : i \in DOMAIN t} <=> y \in {s[i] : i \in DOMAIN s} \/ y = x
         /\ \A i, j \in DOMAIN t : t[i] = t[j] => i = j
<1>1. PICK n \in Nat : n = Len(s) /\ DOMAIN s = 1..n
  OBVIOUS
<1>2. /\ t \in Seq(Tid) /\ Len(t) = n + 1 /\ (\A i \in 1..n : t[i] = s[i]) /\ t[n + 1] = x
  BY <1>1, AppendProperties
<1>3. DOMAIN t = 1..(n + 1)
  BY <1>2
<1>4. \A i : i \in 1..(n + 1) <=> i \in 1..n \/ i = n + 1
  OBVIOUS
<1>5. n + 1 \notin 1..n
  OBVIOUS
<1>. QED BY <1>1, <1>2, <1>3, <1>4, <1>5

LEMMA CreateFrames ==
  ASSUME ItIInv, NEW p \in Actor, NEW x \in Actor, Unknown(x), Now(p, "code"),
         NEW f, f = ItFrame("clone", x), Called(p, f)
  PROVE  MakeFrames(p, x, "clone") /\ stack'[x] = <<>>
<1>1. /\ x \in Tid /\ stack[x] = <<>>
      /\ \A q \in Actor : \A k \in 1..Len(stack[q]) : stack[q][k].x # x
  BY DEF Unknown
<1>2. /\ stack' \in Stacks /\ Pushed(stack, stack', p, f)
      /\ \A q \in Actor : q # p => stack'[q] = stack[q]
      /\ Len(stack[p]) = 1 /\ Len(stack'[p]) = 2
  BY DEF Called
<1>3. stack \in Stacks /\ ItTypeOK /\ Shape
  BY DEF ItIInv, ItTypeOK, Stacks, FrameSet
<1>4. stack[p][1] = ItFrame("code", p) /\ x # p
  <2>1. stack[p] # <<>>
    BY <1>3, TopFrame
  <2>. QED BY <1>1, <1>3, <2>1, CodeTop
<1>5. stack'[p][1] = stack[p][1] /\ stack'[p][2] = f
  BY <1>2 DEF Pushed
<1>6. stack'[x] = <<>>
  BY <1>1, <1>2, <1>4
<1>. QED BY <1>1, <1>2, <1>3, <1>4, <1>5, <1>6 DEF MakeFrames

\* create appends a new structure to the list.
LEMMA CreateKeeps == ASSUME ItIInv, NEW p \in Actor, Create(p) PROVE ItIInv'
<1>1. /\ ItTypeOK /\ Now(p, "code") /\ tid_counter \in Tid /\ PoolUnlocked
      /\ thread' = [thread EXCEPT ![tid_counter] =
                      [count |-> 3, state |-> {}, interp |-> "none", mutex |-> p]]
      /\ pool' = [pool EXCEPT !.mutex = p, !.total = @ + 1]
      /\ list' = Append(list, tid_counter) /\ tid_counter' = tid_counter + 1
      /\ Push(p, "clone", tid_counter)
      /\ UNCHANGED <<itScenario, obj, freed, process>>
  BY DEF ItIInv, Create, InCode
<1>2. PICK x \in Tid : x = tid_counter
  BY <1>1
<1>3. Unknown(x) /\ x \in Actor
  BY <1>2, NextIsUnknown DEF Unknown
<1>4. /\ x \notin Created /\ x \notin Known /\ stack[x] = <<>>
      /\ (\A q \in Actor : \A k \in 1..Len(stack[q]) : stack[q][k].x # x)
      /\ (\A y \in Actor : obj[y][x] = 0 /\ obj[x][y] = 0)
      /\ x \notin Listed /\ x \notin freed /\ x \notin Viable
      /\ \A i, j \in DOMAIN list : list[i] = list[j] => i = j
  BY <1>3 DEF Unknown
<1>5. PICK f : f = ItFrame("clone", x) /\ f.at = "clone" /\ f.x = x
  BY FrameFields
<1>6. Called(p, f)
  <2>1. Push(p, "clone", x) /\ "clone" \in OnCode \cup OnClear
    BY <1>1, <1>2 DEF OnCode
  <2>. QED BY <1>1, <1>3, <1>5, <2>1, Calls
<1>7. MakeFrames(p, x, "clone") /\ stack'[x] = <<>> /\ ShapeOf(stack')
  <2>1. ShapeOf(stack')
    BY <1>6 DEF Called
  <2>. QED BY <1>1, <1>3, <1>5, <1>6, <2>1, CreateFrames
<1>8. /\ thread' \in Threads /\ thread'[x].count = 3 /\ thread'[x].state = {}
      /\ \A y \in Actor : y # x => thread'[y] = thread[y]
  <2>1. PICK t \in [count : Nat, state : SUBSET Flags, interp : {"none", "live"},
                    mutex : Actor \cup {NoActor}] :
          t = [count |-> 3, state |-> {}, interp |-> "none", mutex |-> p]
    OBVIOUS
  <2>2. thread' = [thread EXCEPT ![x] = t] /\ thread \in Threads
    BY <1>1, <1>2, <2>1, ThreadsTyped
  <2>3. t.count = 3 /\ t.state = {}
    BY <2>1
  <2>. QED BY <1>3, <2>2, <2>3 DEF Threads
<1>9. /\ pool'.mutex = p /\ pool'.total = pool.total + 1 /\ pool'.running = pool.running
      /\ pool'.detached = pool.detached /\ pool'.joinable = pool.joinable
      /\ pool' \in [mutex : Actor \cup {NoActor}, running : Nat, joinable : Int,
                    detached : Nat, total : Nat]
  <2>1. PICK n \in Nat : n = pool.total + 1
    BY <1>1 DEF ItTypeOK
  <2>2. pool' = [pool EXCEPT !.mutex = p, !.total = n]
    BY <1>1, <2>1
  <2>3. pool \in [mutex : Actor \cup {NoActor}, running : Nat, joinable : Int,
                  detached : Nat, total : Nat]
    BY <1>1 DEF ItTypeOK
  <2>. QED BY <2>1, <2>2, <2>3
<1>10. /\ list' \in Seq(Tid) /\ (\A y : y \in Listed' <=> y \in Listed \/ y = x)
       /\ \A i, j \in DOMAIN list' : list'[i] = list'[j] => i = j
  <2>1. list \in Seq(Tid) /\ list' = Append(list, x)
    BY <1>1, <1>2 DEF ItTypeOK
  <2>2. \A i \in DOMAIN list : list[i] # x
    BY <1>4 DEF Listed
  <2>3. PICK t : t = list'
    OBVIOUS
  <2>4. /\ t \in Seq(Tid)
        /\ \A y : y \in {t[i] : i \in DOMAIN t} <=> y \in {list[i] : i \in DOMAIN list} \/ y = x
        /\ \A i, j \in DOMAIN t : t[i] = t[j] => i = j
    <3>1. list \in Seq(Tid) /\ x \in Tid /\ t = Append(list, x)
      BY <2>1, <2>3
    <3>2. \A i, j \in DOMAIN list : list[i] = list[j] => i = j
      BY <1>4
    <3>. QED BY ONLY <2>2, <3>1, <3>2, AppendedIs
  <2>. QED BY <2>3, <2>4 DEF Listed
<1>11. /\ tid_counter' \in 1..(MaxThreads + 1)
       /\ \A y : y \in Created' <=> y \in Created \/ y = x
  <2>1. PICK n \in Nat : n = tid_counter /\ n > 0 /\ n <= MaxThreads
    BY <1>1, ItConstants DEF Tid
  <2>2. \A y : y \in 1..n <=> y \in 1..(n - 1) \/ y = n
    BY <2>1
  <2>3. Created' = 1..n /\ Created = 1..(n - 1)
    <3>1. n + 1 - 1 = n
      OBVIOUS
    <3>. QED BY <1>1, <2>1, <3>1 DEF Created
  <2>. QED BY <1>1, <1>2, <2>1, <2>2, <2>3, ItConstants
<1>12. ItTypeOK'
  <2>1. stack' \in Stacks
    BY <1>7 DEF MakeFrames
  <2>. QED BY <1>1, <1>8, <1>9, <1>10, <1>11, <2>1 DEF ItTypeOK, Threads, Stacks, FrameSet
<1>13. MakeStep(p, x, "clone")
  <2>1. MakeState(x, "clone")
    BY <1>1, <1>4, <1>7, <1>8 DEF MakeState
  <2>2. MakeObjects(p, x)
    BY <1>1, <1>4 DEF MakeObjects
  <2>3. MakePool(p, x, "clone")
    BY <1>1, <1>4, <1>9 DEF MakePool, PoolUnlocked
  <2>4. MakeSets(x)
    BY <1>4, <1>10, <1>11 DEF MakeSets
  <2>. QED BY <1>1, <1>7, <2>1, <2>2, <2>3, <2>4 DEF MakeStep
<1>14. CountersAreRight'
  BY <1>4, <1>9, <1>12, <1>13, MakeCounters
<1>15. CountsReferences'
  <2>1. \A y \in Actor : Held(stack', y) = Held(stack, y) + Weight(f, y) /\ Held(stack, y) \in Nat
    BY <1>6 DEF Called
  <2>2. \A y \in Actor : /\ References(y)' = Free1(y)' + Number(obj', y) + Held(stack', y)
                         /\ Number(obj', y) \in Nat /\ Held(stack', y) \in Nat
    BY <1>12, CountsThenAre
  <2>3. ASSUME NEW y \in Actor, y # x, y \in Known, ~Is(y, "NONVIABLE")'
        PROVE  thread'[y].count = References(y)'
    <3>1. ~Is(y, "NONVIABLE") /\ Free1(y)' = Free1(y) /\ thread'[y].count = thread[y].count
      BY <1>8, <2>3 DEF Is, Free1, Callable
    <3>2. thread[y].count = References(y)
      BY <2>3, <3>1 DEF ItIInv, CountsReferences, Known
    <3>3. References(y) = Free1(y) + Number(obj, y) + Held(stack, y)
      BY <1>1, <2>3, CountsAre
    <3>4. Weight(f, y) = 0
      BY <1>5, <2>3, WeightIs
    <3>5. Held(stack', y) = Held(stack, y)
      BY <2>1, <2>3, <3>4
    <3>6. Number(obj', y) = Number(obj, y)
      BY <1>1
    <3>. QED BY <2>2, <2>3, <3>1, <3>2, <3>3, <3>5, <3>6
  <2>4. thread'[x].count = References(x)'
    <3>1. Free1(x)' = 1
      BY <1>8 DEF Free1, Callable
    <3>2. Number(obj', x) = 0
      <4>1. obj \in [Actor -> [Actor -> Nat]]
        BY <1>1 DEF ItTypeOK
      <4>2. Number(obj, x) = 0
        BY <1>3, <1>4, <4>1, NoNumber
      <4>. QED BY <1>1, <4>2
    <3>3. Held(stack, x) = 0
      <4>1. stack \in Stacks
        BY <1>7 DEF MakeFrames
      <4>. QED BY <1>4, <4>1, NotHeld
    <3>4. Weight(f, x) = 2
      BY <1>5, WeightIs DEF Owners, OwningTwo
    <3>5. Held(stack', x) = 2
      BY <1>3, <2>1, <3>3, <3>4
    <3>. QED BY <1>3, <1>8, <2>2, <3>1, <3>2, <3>5
  <2>5. \A y : y \in Known' <=> y \in Known \/ y = x
    BY <1>11 DEF Known
  <2>6. Known \subseteq Actor
    BY <1>1, Typed
  <2>. QED BY <2>3, <2>4, <2>5, <2>6 DEF CountsReferences, Known
<1>. QED BY <1>7, <1>12, <1>13, <1>14, <1>15, MakeInvariant

(***************************************************************************)
(* The beginning, a step of something else, and the theorem.               *)
(***************************************************************************)
LEMMA InitFrames ==
  ASSUME ItInit
  PROVE  /\ stack \in Stacks /\ stack[Main] = <<ItFrame("code", Main)>> /\ Len(stack[Main]) = 1
         /\ stack[Main][1] = ItFrame("code", Main)
         /\ \A q \in Actor : q # Main => stack[q] = <<>> /\ Len(stack[q]) = 0
         /\ \A q \in Actor : \A k : k \in 1..Len(stack[q]) <=> q = Main /\ k = 1
<1>1. stack = [p \in Actor |-> IF p = Main THEN <<ItFrame("code", p)>> ELSE <<>>]
  BY DEF ItInit
<1>2. PICK g \in FrameSet : g = ItFrame("code", Main)
  <2>1. ItFrame("code", Main) \in FrameSet
    BY ItConstants DEF FrameSet, ItFrame, Labels, Owning, Running
  <2>. QED BY <2>1
<1>3. stack[Main] = <<g>>
  BY <1>1, <1>2, ItConstants
<1>4. \A q \in Actor : q # Main => stack[q] = <<>>
  BY <1>1
<1>5. <<g>> \in Seq(FrameSet) /\ <<>> \in Seq(FrameSet)
  BY ONLY g \in FrameSet
<1>6. Len(<<g>>) = 1 /\ <<g>>[1] = g
  BY ONLY TRUE
<1>7. stack \in Stacks
  <2>1. \A q \in Actor : stack[q] \in Seq(FrameSet)
    BY <1>3, <1>4, <1>5
  <2>. QED BY <1>1, <2>1 DEF Stacks
<1>8. \A q \in Actor : q # Main => Len(stack[q]) = 0
  BY <1>4
<1>9. \A q \in Actor : \A k : k \in 1..Len(stack[q]) <=> q = Main /\ k = 1
  <2>1. \A k : k \in 1..Len(stack[Main]) <=> k = 1
    BY <1>3, <1>6
  <2>2. \A q \in Actor : q # Main => \A k : k \notin 1..Len(stack[q])
    BY <1>8
  <2>. QED BY <2>1, <2>2
<1>. QED BY <1>2, <1>3, <1>4, <1>6, <1>7, <1>8, <1>9

\* The start: only the main thread.
LEMMA InitInvariant == ASSUME ItInit PROVE ItIInv
<1>1. /\ stack \in Stacks /\ stack[Main] = <<ItFrame("code", Main)>> /\ Len(stack[Main]) = 1
      /\ stack[Main][1] = ItFrame("code", Main)
      /\ \A q \in Actor : q # Main => stack[q] = <<>> /\ Len(stack[q]) = 0
      /\ \A q \in Actor : \A k : k \in 1..Len(stack[q]) <=> q = Main /\ k = 1
  BY InitFrames
<1>2. /\ thread = [x \in Actor |->
                     IF x = Main
                     THEN [count |-> 1, state |-> {"DETACHED"},
                           interp |-> "live", mutex |-> NoActor]
                     ELSE NoTid]
      /\ pool = [mutex |-> NoActor, running |-> 0, joinable |-> 0, detached |-> 0, total |-> 0]
      /\ list = <<>> /\ obj = [i \in Actor |-> [x \in Actor |-> 0]]
      /\ tid_counter = 1 /\ freed = {} /\ process = "up" /\ itScenario \in ItScenario
  BY DEF ItInit
<1>3. stack[Main][1].at = "code" /\ stack[Main][1].x = Main /\ Main \in Actor
  BY <1>1, FrameFields, ItConstants
<1>4. Created = {} /\ Known = {Main} /\ Listed = {}
  <2>1. Created = {}
    BY <1>2 DEF Created
  <2>2. Listed = {}
    BY <1>2 DEF Listed
  <2>. QED BY <2>1, <2>2 DEF Known
<1>5. \A q \in Actor : \A k \in 1..Len(stack[q]) : q = Main /\ k = 1
  BY <1>1
<1>6. \A c, x : Somewhere(ItFrame(c, x)) => c = "code"
  <2>1. ASSUME NEW c, NEW x, Somewhere(ItFrame(c, x)) PROVE c = "code"
    <3>1. PICK q \in Actor : \E k \in 1..Len(stack[q]) : stack[q][k] = ItFrame(c, x)
      BY <2>1 DEF Somewhere
    <3>2. PICK k \in 1..Len(stack[q]) : stack[q][k] = ItFrame(c, x)
      BY <3>1
    <3>3. q = Main /\ k = 1
      BY <1>5
    <3>4. stack[Main][1].at = c
      BY <3>2, <3>3, FrameFields
    <3>. QED BY <1>3, <3>4
  <2>. QED BY <2>1
<1>7. ItTypeOK
  <2>1. thread \in Threads
    BY <1>2 DEF Threads, NoTid, Flags
  <2>2. tid_counter \in 1..(MaxThreads + 1)
    BY <1>2, ItConstants
  <2>3. obj \in [Actor -> [Actor -> Nat]] /\ list \in Seq(Tid) /\ freed \subseteq Tid
    BY <1>2
  <2>4. pool \in [mutex : Actor \cup {NoActor}, running : Nat, joinable : Int,
                  detached : Nat, total : Nat]
    BY <1>2
  <2>. QED BY <1>1, <1>2, <2>1, <2>2, <2>3, <2>4 DEF ItTypeOK, Threads, Stacks, FrameSet
<1>8. Shape
  <2>1. \A q \in Actor : Len(stack[q]) > 0 => IsBottom(q, stack[q][1])
    BY <1>1, <1>3 DEF IsBottom, Running
  <2>2. \A q \in Actor : \A k \in 2..Len(stack[q]) : FALSE
    <3>1. \A q \in Actor : Len(stack[q]) = 0 \/ Len(stack[q]) = 1
      BY <1>1
    <3>2. (2..0) = {} /\ (2..1) = {}
      BY ONLY TRUE
    <3>. QED BY <3>1, <3>2
  <2>3. Len(stack[Main]) > 0
    BY <1>1
  <2>. QED BY <1>3, <2>1, <2>2, <2>3 DEF Shape
<1>9. PoolIsHeld /\ OnlyKnown /\ CloneIsFresh /\ WalksAreInList
  <2>1. "code" \notin {"clone", "detach", "return", "die", "exit"} \cup Walks \cup Takes
    BY WalkLabels
  <2>2. PoolIsHeld
    BY <1>3, <1>5, <2>1 DEF PoolIsHeld
  <2>3. OnlyKnown
    BY <1>2, <1>3, <1>4, <1>5 DEF OnlyKnown
  <2>4. CloneIsFresh
    BY <1>3, <1>5 DEF CloneIsFresh
  <2>5. WalksAreInList
    BY <1>3, <1>5, <2>1 DEF WalksAreInList
  <2>. QED BY <2>2, <2>3, <2>4, <2>5
<1>10. \A x \in Actor : thread[x].state \subseteq {"DETACHED"} /\ ~Doomed(x)
  <2>1. ASSUME NEW x \in Actor PROVE thread[x].state \subseteq {"DETACHED"}
    BY <1>2 DEF NoTid
  <2>2. ASSUME NEW x \in Actor PROVE ~Doomed(x)
    BY <1>6, <2>1 DEF Doomed, Is
  <2>. QED BY <2>1, <2>2
<1>11. DoomedIsAlone /\ EndIsOne /\ EndIsLast /\ ListIsRight
  <2>1. DoomedIsAlone
    BY <1>10 DEF DoomedIsAlone
  <2>2. \A q \in Actor : \A k \in 1..Len(stack[q]) : stack[q][k].at \notin Ends
    BY <1>3, <1>5 DEF Ends
  <2>3. EndIsOne /\ EndIsLast
    BY <1>2, <2>2 DEF EndIsOne, EndIsLast
  <2>4. ListIsRight
    BY <1>2, <1>4 DEF ListIsRight
  <2>. QED BY <2>1, <2>3, <2>4
<1>12. RunsAreMarked /\ JoinsAreMarked /\ CleanedAlone
  <2>1. thread[Main].state = {"DETACHED"}
    BY <1>2, <1>3
  <2>2. RunsAreMarked
    BY <1>4, <2>1 DEF RunsAreMarked
  <2>3. "code" \notin {"join", "join_wait", "detached", "detach"} \cup Takes
    BY WalkLabels
  <2>4. JoinsAreMarked
    BY <1>3, <1>5, <2>3 DEF JoinsAreMarked
  <2>5. CleanedAlone
    BY <1>2 DEF CleanedAlone
  <2>. QED BY <2>2, <2>4, <2>5
<1>13. AssertionsHold
  <2>1. ASSUME NEW q \in Actor, NEW f \in Frames(q) PROVE f.at = "code"
    <3>1. PICK k \in 1..Len(stack[q]) : stack[q][k] = f
      BY <1>7, FramesAre
    <3>. QED BY <1>3, <1>5, <3>1
  <2>. QED BY <2>1 DEF AssertionsHold
<1>14. TotalIsRight /\ CountersAreRight
  <2>1. Alive = {} /\ Viable = {} /\ Cardinality({}) = 0
    BY <1>4, FS_EmptySet DEF Alive, Viable
  <2>2. ActiveOnes = {} /\ DetachedOnes = {} /\ JoinableOnes = {} /\ Joined = {}
    BY <2>1 DEF ActiveOnes, DetachedOnes, JoinableOnes, Joined
  <2>. QED BY <1>2, <2>1, <2>2, CountersAre DEF TotalIsRight
<1>15. CountsReferences
  <2>1. References(Main) = Free1(Main) + Number(obj, Main) + Held(stack, Main)
    BY <1>3, <1>7, CountsAre
  <2>2. Free1(Main) = 0
    BY <1>2, <1>3 DEF Free1, Callable, UNCALLABLE
  <2>3. Number(obj, Main) = 0
    <3>1. obj \in [Actor -> [Actor -> Nat]] /\ \A i \in Actor : obj[i][Main] = 0
      BY <1>2, <1>3
    <3>. QED BY <1>3, <3>1, NoNumber
  <2>4. Held(stack, Main) = 1
    <3>1. "code" \in Owners /\ "code" \notin OwningTwo
      BY DEF Owners, Owning, Running, OwningTwo
    <3>2. At(stack, Main, Owners) = {<<Main, 1>>}
      <4>1. \A z : z \in At(stack, Main, Owners) <=>
                     \E q \in Actor : \E k \in 1..Len(stack[q]) :
                       z = <<q, k>> /\ stack[q][k].x = Main /\ stack[q][k].at \in Owners
        BY <1>1, AtIs
      <4>2. \A z : z \in At(stack, Main, Owners) <=> z = <<Main, 1>>
        BY <1>1, <1>3, <3>1, <4>1
      <4>. QED BY <4>2
    <3>3. At(stack, Main, OwningTwo) = {}
      <4>1. \A z : z \in At(stack, Main, OwningTwo) <=>
                     \E q \in Actor : \E k \in 1..Len(stack[q]) :
                       z = <<q, k>> /\ stack[q][k].x = Main /\ stack[q][k].at \in OwningTwo
        BY <1>1, AtIs
      <4>. QED BY <1>3, <1>5, <3>1, <4>1
    <3>4. Cardinality({<<Main, 1>>}) = 1 /\ Cardinality({}) = 0
      BY FS_Singleton, FS_EmptySet
    <3>. QED BY <3>2, <3>3, <3>4 DEF Held
  <2>5. thread[Main].count = 1
    BY <1>2, <1>3
  <2>6. Created \cup {Main} = {Main}
    BY <1>4
  <2>. QED BY <2>1, <2>2, <2>3, <2>4, <2>5, <2>6 DEF CountsReferences
<1>. QED BY <1>7, <1>8, <1>9, <1>11, <1>12, <1>13, <1>14, <1>15 DEF ItIInv

LEMMA SameInvariant == ASSUME ItIInv, UNCHANGED itVars PROVE ItIInv'
<1>1. UNCHANGED <<itScenario, thread, pool, list, obj, stack, tid_counter, freed, process>>
  BY DEF itVars
<1>2. /\ \A f : Somewhere(f)' <=> Somewhere(f)
      /\ \A x, c : Is(x, c)' <=> Is(x, c)
      /\ \A x : Callable(x)' <=> Callable(x)
      /\ Created' = Created /\ Known' = Known /\ Listed' = Listed
      /\ \A q : Frames(q)' = Frames(q)
  BY <1>1 DEF Somewhere, Is, Callable, Created, Known, Listed, Frames
<1>3. /\ \A x : Doomed(x)' <=> Doomed(x)
      /\ \A x : Unreferenced(x)' <=> Unreferenced(x)
      /\ \A x : Unlinked(x)' <=> Unlinked(x)
      /\ \A q, x : DoomedBy(q, x)' <=> DoomedBy(q, x)
      /\ \A q, k, x : MadeBy(q, k, x)' <=> MadeBy(q, k, x)
  BY <1>1, <1>2 DEF Doomed, Unreferenced, Unlinked, DoomedBy, MadeBy
<1>4. Viable' = Viable /\ Joined' = Joined /\ Alive' = Alive /\ \A x : References(x)' = References(x)
  <2>1. Viable' = Viable
    BY <1>2 DEF Viable
  <2>2. Joined' = Joined
    BY <1>2, <2>1 DEF Joined
  <2>3. Alive' = Alive
    BY <1>1, <1>2 DEF Alive
  <2>4. \A x : References(x)' = References(x)
    BY <1>1, <1>2 DEF References, Objects, FramesAt
  <2>. QED BY <2>1, <2>2, <2>3, <2>4
<1>5. ItTypeOK' /\ Shape' /\ PoolIsHeld' /\ OnlyKnown' /\ CloneIsFresh' /\ DoomedIsAlone'
  <2>1. ItTypeOK' /\ Shape'
    BY <1>1 DEF ItIInv, ItTypeOK, Shape
  <2>2. PoolIsHeld' /\ OnlyKnown' /\ CloneIsFresh'
    BY <1>1, <1>2, <1>3 DEF ItIInv, PoolIsHeld, OnlyKnown, CloneIsFresh
  <2>3. DoomedIsAlone'
    BY <1>1, <1>2, <1>3 DEF ItIInv, DoomedIsAlone
  <2>. QED BY <2>1, <2>2, <2>3
<1>6. EndIsOne' /\ EndIsLast' /\ ListIsRight' /\ WalksAreInList' /\ RunsAreMarked'
  <2>1. EndIsOne'
    BY <1>1 DEF ItIInv, EndIsOne
  <2>2. EndIsLast'
    BY <1>1, <1>2, <1>3 DEF ItIInv, EndIsLast
  <2>3. ListIsRight' /\ WalksAreInList'
    BY <1>1, <1>2, <1>3 DEF ItIInv, ListIsRight, WalksAreInList
  <2>4. RunsAreMarked'
    BY <1>1, <1>2, <1>3 DEF ItIInv, RunsAreMarked
  <2>. QED BY <2>1, <2>2, <2>3, <2>4
<1>7. JoinsAreMarked' /\ AssertionsHold' /\ TotalIsRight' /\ CleanedAlone'
  <2>1. JoinsAreMarked'
    BY <1>1, <1>2 DEF ItIInv, JoinsAreMarked
  <2>2. AssertionsHold'
    BY <1>2 DEF ItIInv, AssertionsHold
  <2>3. TotalIsRight' /\ CleanedAlone'
    BY <1>1, <1>4 DEF ItIInv, TotalIsRight, CleanedAlone
  <2>. QED BY <2>1, <2>2, <2>3
<1>8. CountersAreRight' /\ CountsReferences'
  <2>1. CountersAreRight'
    BY <1>1, <1>2, <1>4 DEF ItIInv, CountersAreRight
  <2>2. CountsReferences'
    BY <1>1, <1>2, <1>4 DEF ItIInv, CountsReferences
  <2>. QED BY <2>1, <2>2
<1>. QED BY <1>5, <1>6, <1>7, <1>8 DEF ItIInv

\* Every step keeps the invariant.
LEMMA NextInvariant == ASSUME QuietFailure, ItIInv, ItNext PROVE ItIInv'
<1>1. ASSUME NEW p \in Actor,
             \/ Create(p) \/ CloneAndStart(p) \/ CloneAndFail(p) \/ Nonviable(p)
             \/ GiveObject(p)
             \/ Start(p) \/ ExitApp(p)
      PROVE  ItIInv'
  BY <1>1, CreateKeeps, CloneAndStartKeeps, CloneAndFailKeeps, NonviableKeeps, GiveObjectKeeps,
     StartKeeps, ExitAppKeeps
<1>2. ASSUME NEW p \in Actor, NEW how \in {"return", "die", "exit"},
             EndCode(p, how) \/ Finish(p, how)
      PROVE  ItIInv'
  BY <1>2, EndCodeKeeps, FinishKeeps
<1>3. ASSUME NEW p \in Actor,
             \/ Free(p) \/ Unlink(p) \/ Dispose(p) \/ ClearDone(p) \/ Unlock(p)
             \/ Uncount(p)
      PROVE  ItIInv'
  BY <1>3, FreeKeeps, UnlinkKeeps, DisposeKeeps, ClearDoneKeeps, UnlockKeeps, UncountKeeps
<1>4. ASSUME NEW p \in Actor,
             \/ JoinCount(p) \/ JoinWait(p) \/ DetachMark(p) \/ DetachFree(p)
             \/ Self(p)
      PROVE  ItIInv'
  BY <1>4, JoinCountKeeps, JoinWaitKeeps, DetachMarkKeeps, DetachFreeKeeps, SelfKeeps
<1>5. ASSUME NEW p \in Actor, NEW want \in Walks, Look(p, want) \/ TakeObject(p, want)
      PROVE  ItIInv'
  BY <1>5, LookKeeps, TakeObjectKeeps
<1>6. ASSUME NEW p \in Actor, NEW x \in Actor,
             ClearObject(p, x) \/ JoinMark(p, x) \/ Detach(p, x) \/ Destroy(p, x)
      PROVE  ItIInv'
  BY <1>6, ClearObjectKeeps, JoinMarkKeeps, DetachKeeps, DestroyKeeps
<1>7. ASSUME NEW p \in Actor, NEW x \in Actor, NEW want \in Walks, Walk(p, want, x)
      PROVE  ItIInv'
  BY <1>7, WalkKeeps
<1>8. ASSUME MainExit PROVE ItIInv'
  BY <1>8, MainExitKeeps
<1>. QED BY <1>1, <1>2, <1>3, <1>4, <1>5, <1>6, <1>7, <1>8 DEF ItNext

\* Nobody is in the middle of something with a structure that is given back.
LEMMA FreedIsLeft ==
  ASSUME ItIInv, NEW x \in freed, NEW p \in Actor, NEW k \in 1..Len(stack[p]), stack[p][k].x = x
  PROVE  stack[p][k].at = "uncount"
<1>1. /\ ItTypeOK /\ ShapeOf(stack) /\ stack \in Stacks /\ x \in Actor /\ Len(stack[p]) \in Nat
      /\ Is(x, "NONVIABLE") \/ Unreferenced(x)
  BY Typed, ShapeIs, ItConstants DEF ItIInv, ItTypeOK, Stacks, FrameSet, EndIsLast
<1>2. ASSUME NEW l \in 1..Len(stack[p]), stack[p][l].x = x, stack[p][l].at \in Ends
      PROVE  stack[p][l].at = "uncount"
  BY <1>2 DEF ItIInv, EndIsLast
<1>3. x \notin Listed
  BY <1>1 DEF ItIInv, ListIsRight, Unlinked
<1>4. stack[p][k].at \notin Walks \cup Takes
  BY <1>3 DEF ItIInv, WalksAreInList
<1>5. stack[p][k].at = "clear" =>
        \E l \in 1..Len(stack[p]) : /\ stack[p][l].x = x /\ stack[p][l].at = "free"
                                    /\ (k = 3 => l = 2)
  <2>1. SUFFICES ASSUME stack[p][k].at = "clear"
                 PROVE  \E l \in 1..Len(stack[p]) : /\ stack[p][l].x = x
                          /\ stack[p][l].at = "free" /\ (k = 3 => l = 2)
    OBVIOUS
  <2>2. k > 1 /\ stack[p][k - 1].at \in {"release", "free"} /\ stack[p][k - 1].x = x
    BY <1>1, <2>1, Places
  <2>3. PICK l \in 1..Len(stack[p]) : l = k - 1
    BY <1>1, <2>2
  <2>4. stack[p][l].at # "release"
    BY <1>2, <2>2, <2>3 DEF Ends
  <2>. QED BY <2>2, <2>3, <2>4
<1>6. CASE Unreferenced(x)
  <2>1. \A l \in 1..Len(stack[p]) : stack[p][l].x = x => stack[p][l].at \notin Owners
    BY <1>6 DEF Unreferenced
  <2>2. stack[p][k].at # "clear"
    BY <1>5, <2>1 DEF Owners, Owning
  <2>3. stack[p][k].at # "detach"
    <3>1. SUFFICES ASSUME stack[p][k].at = "detach" PROVE FALSE
      OBVIOUS
    <3>2. obj[p][x] > 0 \/ x = p
      BY <3>1 DEF ItIInv, JoinsAreMarked
    <3>3. ~(obj[p][x] > 0)
      BY <1>6 DEF Unreferenced
    <3>4. stack[p][1].at = "code" /\ stack[p][1].x = p /\ 1 \in 1..Len(stack[p])
      BY <1>1, <3>1, Places DEF OnCode
    <3>. QED BY <2>1, <3>2, <3>3, <3>4 DEF Owners, Owning, Running
  <2>4. stack[p][k].at \in Labels
    BY <1>1, Typed
  <2>. QED BY <1>2, <1>4, <2>1, <2>2, <2>3, <2>4 DEF Labels, Ends, Owners, Takes
<1>7. CASE Is(x, "NONVIABLE")
  <2>1. PICK r \in Actor : DoomedBy(r, x)
    BY <1>1, <1>7 DEF ItIInv, DoomedIsAlone, Doomed
  <2>2. /\ \A q \in Actor : \A l \in 1..Len(stack[q]) : stack[q][l].x = x =>
             /\ q = r
             /\ \/ l = 2 /\ stack[q][l].at \in {"nonviable", "free"} \cup Ends
                \/ l = 3 /\ stack[q][l].at = "clear"
        /\ x \in Listed <=>
             /\ Len(stack[r]) > 1 /\ stack[r][2].x = x
             /\ stack[r][2].at \in {"nonviable", "free", "unlink"}
    BY <2>1 DEF DoomedBy
  <2>3. p = r
    BY <2>2
  <2>4. ASSUME 2 \in 1..Len(stack[p]), stack[p][2].x = x,
               stack[p][2].at \in {"nonviable", "free"}
        PROVE  FALSE
    <3>1. Len(stack[p]) > 1
      BY <1>1, <2>4
    <3>. QED BY <1>3, <2>2, <2>3, <2>4, <3>1
  <2>5. CASE k = 2 /\ stack[p][k].at \in {"nonviable", "free"} \cup Ends
    BY <1>2, <2>4, <2>5
  <2>6. CASE k = 3 /\ stack[p][k].at = "clear"
    BY <1>5, <2>4, <2>6
  <2>. QED BY <2>2, <2>5, <2>6
<1>. QED BY <1>1, <1>6, <1>7

\* What is about to be unlinked is in the list.
LEMMA UnlinkIsListed == ASSUME ItIInv PROVE UnlinkedOnce
<1> SUFFICES ASSUME NEW p \in Actor, NEW f \in Frames(p), f.at = "unlink" PROVE f.x \in Listed
  BY DEF UnlinkedOnce, Listed
<1>1. /\ ItTypeOK /\ EndIsOne /\ EndIsLast /\ ListIsRight
  BY DEF ItIInv
<1>2. PICK k \in 1..Len(stack[p]) : stack[p][k] = f
  BY <1>1, FramesAre
<1>3. PICK x \in Actor : x = f.x
  BY <1>1, <1>2, Typed
<1>4. stack[p][k].at = "unlink" /\ stack[p][k].x = x /\ stack[p][k].at \in Ends
  BY <1>2, <1>3 DEF Ends
<1>5. x \in Created /\ x \notin freed
  BY <1>1, <1>4 DEF EndIsLast
<1>6. ASSUME NEW at \in {"dispose", "release"}, Somewhere(ItFrame(at, x)) PROVE FALSE
  <2>1. PICK q \in Actor : \E l \in 1..Len(stack[q]) : stack[q][l] = ItFrame(at, x)
    BY <1>6 DEF Somewhere
  <2>2. PICK l \in 1..Len(stack[q]) : stack[q][l] = ItFrame(at, x)
    BY <2>1
  <2>3. stack[q][l].at = at /\ stack[q][l].x = x /\ at \in Ends /\ at # "unlink"
    BY <2>2, FrameFields DEF Ends
  <2>4. p = q /\ k = l
    BY <1>1, <1>4, <2>3 DEF EndIsOne
  <2>. QED BY <1>4, <2>3, <2>4
<1>7. ~Unlinked(x)
  BY <1>5, <1>6 DEF Unlinked
<1>. QED BY <1>1, <1>3, <1>5, <1>7 DEF ListIsRight

\* The invariant implies the property.
LEMMA InvariantCounts == ASSUME ItIInv PROVE LivesAreCounted
<1>1. ItTypeOK /\ CountsReferences /\ AssertionsHold
  BY DEF ItIInv
<1>2. NoDangling
  <2>1. ASSUME NEW x \in freed, NEW i \in Actor PROVE obj[i][x] = 0
    <3>1. Is(x, "NONVIABLE") \/ Unreferenced(x)
      BY <2>1 DEF ItIInv, EndIsLast
    <3>2. x \in Actor
      BY <1>1, <2>1, ItConstants DEF ItTypeOK
    <3>3. Is(x, "NONVIABLE") => obj[i][x] = 0
      BY <3>2 DEF ItIInv, DoomedIsAlone, Doomed
    <3>. QED BY <3>1, <3>3 DEF Unreferenced
  <2>2. ASSUME NEW x \in freed, NEW p \in Actor, NEW f \in Frames(p), f.x = x, f.at # "uncount"
        PROVE  FALSE
    <3>1. PICK k \in 1..Len(stack[p]) : stack[p][k] = f
      BY <1>1, FramesAre
    <3>. QED BY <2>2, <3>1, FreedIsLeft
  <2>. QED BY <2>1, <2>2 DEF NoDangling
<1>3. CleanupComesLast
  BY ItConstants DEF ItIInv, CleanedAlone, CleanupComesLast
<1>4. CountersAgree
  BY DEF ItIInv, CountersAreRight, CountersAgree
<1>. QED BY <1>1, <1>2, <1>3, <1>4, UnlinkIsListed DEF LivesAreCounted

\* The invariant holds in every reachable state.
LEMMA ItIInvHolds == ASSUME QuietFailure PROVE ItSpec => []ItIInv
<1>1. ItInit => ItIInv
  BY InitInvariant
<1>2. ItIInv /\ [ItNext]_itVars => ItIInv'
  BY QuietFailure, NextInvariant, SameInvariant
<1>. QED BY <1>1, <1>2, PTL DEF ItSpec

(***************************************************************************)
(* Whatever the threads do, with QuietFailure: reference counts, numbers   *)
(* of objects and the pool's counters never go below zero (the code        *)
(* subtracts from them unasked), except joinable_threads, which the join   *)
(* of a running thread takes down before that thread's end counts it.      *)
(***************************************************************************)
THEOREM ThreadLifeTypes == ASSUME QuietFailure PROVE ItSpec => []ItTypeOK
<1>1. ItIInv => ItTypeOK
  BY DEF ItIInv
<1>. QED BY <1>1, ItIInvHolds, PTL

(***************************************************************************)
(* LivesAreCounted in every reachable state, for any number of threads and *)
(* any programs with QuietFailure: a structure's count is the number of    *)
(* references to it, nobody is left with one that was given back, what is  *)
(* taken apart has finished and is unlinked once, main cleans up last, and *)
(* the counters of the warning agree.                                      *)
(***************************************************************************)
THEOREM LivesStayCounted == ASSUME QuietFailure PROVE ItSpec => []LivesAreCounted
<1>1. ItIInv => LivesAreCounted
  BY InvariantCounts
<1>. QED BY <1>1, ItIInvHolds, PTL

(***************************************************************************)
(* No circle of OS threads that wait for each other's mutexes, for any     *)
(* number of threads, if no thread ends with thread objects left in its    *)
(* interpreter (NoKeepers).  Then whoever has the mutex of a structure     *)
(* that others may wait for is not waiting itself, and the only other      *)
(* mutex is the pool's.                                                    *)
(***************************************************************************)
NoKeepers == \A s \in ItScenario : \A p \in Actor \ {Main} : "keep" \notin s[p]

\* The frames that have the mutex of their structure.
HaveMutex == {"clone", "nonviable", "give", "free", "release"}
Guards(p, x) == \E k \in 1..Len(stack[p]) : stack[p][k].x = x /\ stack[p][k].at \in HaveMutex
GuardsPool(p) == \E k \in 1..Len(stack[p]) : stack[p][k].at \in HavePool

MutexIsHeld == \A p, x \in Actor : thread[x].mutex = p => Guards(p, x)
PoolHasHolder == \A p \in Actor : pool.mutex = p => GuardsPool(p)

\* x's code is over, and with it the only one that could give x objects.
Past(x) ==
  /\ x \in Created
  /\ IF stack[x] = <<>> THEN Is(x, "FINISHED") ELSE stack[x][1].at \notin {"start", "code"}
NothingKept == \A x \in Actor : Past(x) => \A y \in Actor : obj[x][y] = 0

\* So only the interpreter of a thread that never ran has objects to clear.
ClearsAreLast ==
  \A p \in Actor : \A k \in 1..Len(stack[p]) :
    stack[p][k].at = "clear" /\ k < Len(stack[p]) => Is(stack[p][k].x, "NONVIABLE")

HoldersAreRight == MutexIsHeld /\ PoolHasHolder /\ NothingKept /\ ClearsAreLast

(***************************************************************************)
(* How a step of p moves frames, mutexes and objects if it is to keep      *)
(* HoldersAreRight: the outer m of p's frames stay, the next one is at     *)
(* "at" with y (or "at" is "none"), and there may be one more on it.       *)
(***************************************************************************)
FramesMove(p, m, at, y) ==
  /\ stack \in Stacks /\ stack' \in Stacks /\ stack[p] # <<>>
  /\ m \in Nat /\ m \in {Len(stack[p]) - 1, Len(stack[p])}
  /\ \A k \in 1..Len(stack[p]) : k <= m => k \in 1..Len(stack'[p]) /\ stack'[p][k] = stack[p][k]
  /\ \A k \in 1..Len(stack'[p]) : \/ k <= m /\ k \in 1..Len(stack[p]) /\ stack'[p][k] = stack[p][k]
                                  \/ stack'[p][k].at # "clear" \/ k = Len(stack'[p])
  /\ at = "none" \/ (m + 1 \in 1..Len(stack'[p]) /\ stack'[p][m + 1] = ItFrame(at, y))
  /\ \A q \in Actor : q # p =>
       \/ stack'[q] = stack[q]
       \/ stack[q] = <<>> /\ stack'[q] # <<>> /\ Len(stack'[q]) = 1 /\ stack'[q][1].at = "start"

MutexesMove(p, m, at, y) ==
  \A q, x \in Actor : thread'[x].mutex = q =>
    \/ /\ thread[x].mutex = q
       /\ q = p /\ m < Len(stack[p]) => Inner(p).at \notin HaveMutex \/ Target(p) # x
    \/ q = p /\ x = y /\ at \in HaveMutex

PoolMoves(p, m, at) ==
  \A q \in Actor : pool'.mutex = q =>
    \/ pool.mutex = q /\ (q = p /\ m < Len(stack[p]) => Inner(p).at \notin HavePool)
    \/ q = p /\ at \in HavePool

ObjectsMove(p, m, at) ==
  /\ \A x \in Created' : x \in Created \/ (stack'[x] = <<>> /\ thread'[x].state = {})
  /\ \A x \in Actor : x # p /\ "FINISHED" \in thread'[x].state => Is(x, "FINISHED")
  /\ \A x \in Actor : \/ \A y \in Actor : obj'[x][y] <= obj[x][y]
                      \/ x = p /\ m > 0 /\ stack[p][1].at = "code"
                      \/ x # p /\ stack[x] = <<>> /\ "FINISHED" \notin thread'[x].state
  /\ \/ m > 0 \/ p = Main \/ stack[p][1].at \notin {"start", "code"}
     \/ at \in {"start", "code"} \/ \A y \in Actor : obj'[p][y] = 0

ClearsMove(p, m) ==
  /\ m = Len(stack[p]) /\ Inner(p).at = "clear" => Is(Target(p), "NONVIABLE")
  /\ \A x \in Actor : Is(x, "NONVIABLE") => "NONVIABLE" \in thread'[x].state

HoldersMove(p, m, at, y) ==
  /\ FramesMove(p, m, at, y) /\ MutexesMove(p, m, at, y) /\ PoolMoves(p, m, at)
  /\ ObjectsMove(p, m, at) /\ ClearsMove(p, m)

\* What stays among p's frames.
LEMMA OuterStays ==
  ASSUME NEW p \in Actor, NEW m, NEW at, NEW y, FramesMove(p, m, at, y)
  PROVE  /\ Inner(p) = stack[p][Len(stack[p])] /\ Len(stack[p]) \in Nat /\ Len(stack'[p]) \in Nat
         /\ \A k \in 1..Len(stack[p]) : k <= m \/ (m < Len(stack[p]) /\ k = Len(stack[p]))
         /\ Len(stack[p]) > 0 /\ 1 \in 1..Len(stack[p])
         /\ m > 0 => stack'[p] # <<>> /\ stack'[p][1] = stack[p][1]
<1>1. stack \in Stacks /\ stack' \in Stacks /\ m \in Nat /\ stack[p] # <<>>
      /\ m \in {Len(stack[p]) - 1, Len(stack[p])}
  BY DEF FramesMove
<1>2. /\ Len(stack[p]) \in Nat /\ Len(stack'[p]) \in Nat /\ Len(stack[p]) > 0
      /\ 1 \in 1..Len(stack[p])
  BY <1>1, SeqDomain
<1>3. Inner(p) = stack[p][Len(stack[p])]
  BY DEF Inner
<1>4. \A k \in 1..Len(stack[p]) : k <= m \/ (m < Len(stack[p]) /\ k = Len(stack[p]))
  BY <1>1, <1>2
<1>5. m > 0 => stack'[p] # <<>> /\ stack'[p][1] = stack[p][1]
  <2>1. SUFFICES ASSUME m > 0 PROVE stack'[p] # <<>> /\ stack'[p][1] = stack[p][1]
    OBVIOUS
  <2>2. 1 <= m
    BY <1>1, <2>1
  <2>3. 1 \in 1..Len(stack'[p]) /\ stack'[p][1] = stack[p][1]
    BY <1>2, <2>2 DEF FramesMove
  <2>4. Len(stack'[p]) # 0
    BY <1>2, <2>3
  <2>. QED BY <1>1, <2>3, <2>4, SeqDomain, EmptySeq
<1>. QED BY <1>2, <1>3, <1>4, <1>5

LEMMA MutexStaysHeld ==
  ASSUME MutexIsHeld, NEW p \in Actor, NEW m, NEW at, NEW y,
         FramesMove(p, m, at, y), MutexesMove(p, m, at, y)
  PROVE  MutexIsHeld'
<1> SUFFICES ASSUME NEW q \in Actor, NEW x \in Actor, thread'[x].mutex = q PROVE Guards(q, x)'
  BY DEF MutexIsHeld
<1>1. \/ /\ thread[x].mutex = q
         /\ q = p /\ m < Len(stack[p]) => Inner(p).at \notin HaveMutex \/ Target(p) # x
      \/ q = p /\ x = y /\ at \in HaveMutex
  BY DEF MutexesMove
<1>2. CASE q = p /\ x = y /\ at \in HaveMutex
  <2>1. at # "none"
    BY <1>2 DEF HaveMutex
  <2>2. m + 1 \in 1..Len(stack'[p]) /\ stack'[p][m + 1] = ItFrame(at, y)
    BY <2>1 DEF FramesMove
  <2>. QED BY <1>2, <2>2, FrameFields DEF Guards
<1>3. ASSUME thread[x].mutex = q
      PROVE  \E k \in 1..Len(stack[q]) : stack[q][k].x = x /\ stack[q][k].at \in HaveMutex
  BY <1>3 DEF MutexIsHeld, Guards
<1>4. CASE thread[x].mutex = q /\ q # p
  <2>1. PICK k \in 1..Len(stack[q]) : stack[q][k].x = x /\ stack[q][k].at \in HaveMutex
    BY <1>3, <1>4
  <2>2. stack \in Stacks
    BY DEF FramesMove
  <2>3. Len(stack[q]) # 0 /\ (stack[q] = <<>> <=> Len(stack[q]) = 0)
    BY <2>1, <2>2, SeqDomain, EmptySeq
  <2>4. stack'[q] = stack[q]
    BY <1>4, <2>3 DEF FramesMove
  <2>. QED BY <1>3, <1>4, <2>4 DEF Guards
<1>5. CASE thread[x].mutex = q /\ q = p
           /\ (m < Len(stack[p]) => Inner(p).at \notin HaveMutex \/ Target(p) # x)
  <2>1. PICK k \in 1..Len(stack[p]) : stack[p][k].x = x /\ stack[p][k].at \in HaveMutex
    BY <1>3, <1>5
  <2>2. k <= m
    BY <1>5, <2>1, OuterStays DEF Target
  <2>3. k \in 1..Len(stack'[p]) /\ stack'[p][k] = stack[p][k]
    BY <2>2 DEF FramesMove
  <2>. QED BY <1>5, <2>1, <2>3 DEF Guards
<1>. QED BY <1>1, <1>2, <1>4, <1>5

LEMMA PoolStaysHeld ==
  ASSUME PoolHasHolder, NEW p \in Actor, NEW m, NEW at, NEW y,
         FramesMove(p, m, at, y), PoolMoves(p, m, at)
  PROVE  PoolHasHolder'
<1> SUFFICES ASSUME NEW q \in Actor, pool'.mutex = q PROVE GuardsPool(q)'
  BY DEF PoolHasHolder
<1>1. \/ pool.mutex = q /\ (q = p /\ m < Len(stack[p]) => Inner(p).at \notin HavePool)
      \/ q = p /\ at \in HavePool
  BY DEF PoolMoves
<1>2. CASE q = p /\ at \in HavePool
  <2>1. at # "none"
    BY <1>2, WalkLabels DEF HavePool
  <2>2. m + 1 \in 1..Len(stack'[p]) /\ stack'[p][m + 1] = ItFrame(at, y)
    BY <2>1 DEF FramesMove
  <2>. QED BY <1>2, <2>2, FrameFields DEF GuardsPool
<1>3. ASSUME pool.mutex = q PROVE \E k \in 1..Len(stack[q]) : stack[q][k].at \in HavePool
  BY <1>3 DEF PoolHasHolder, GuardsPool
<1>4. CASE pool.mutex = q /\ q # p
  <2>1. PICK k \in 1..Len(stack[q]) : stack[q][k].at \in HavePool
    BY <1>3, <1>4
  <2>2. stack \in Stacks
    BY DEF FramesMove
  <2>3. Len(stack[q]) # 0 /\ (stack[q] = <<>> <=> Len(stack[q]) = 0)
    BY <2>1, <2>2, SeqDomain, EmptySeq
  <2>4. stack'[q] = stack[q]
    BY <1>4, <2>3 DEF FramesMove
  <2>. QED BY <1>3, <1>4, <2>4 DEF GuardsPool
<1>5. CASE pool.mutex = q /\ q = p /\ (m < Len(stack[p]) => Inner(p).at \notin HavePool)
  <2>1. PICK k \in 1..Len(stack[p]) : stack[p][k].at \in HavePool
    BY <1>3, <1>5
  <2>2. k <= m
    BY <1>5, <2>1, OuterStays
  <2>3. k \in 1..Len(stack'[p]) /\ stack'[p][k] = stack[p][k]
    BY <2>2 DEF FramesMove
  <2>. QED BY <1>5, <2>1, <2>3 DEF GuardsPool
<1>. QED BY <1>1, <1>2, <1>4, <1>5

\* Whose code is over gets no objects.
LEMMA NothingStaysKept ==
  ASSUME ItTypeOK, ItTypeOK', NothingKept, NEW p \in Actor, NEW m, NEW at, NEW y,
         FramesMove(p, m, at, y), ObjectsMove(p, m, at)
  PROVE  NothingKept'
<1> SUFFICES ASSUME NEW x \in Actor, Past(x)', NEW z \in Actor PROVE obj'[x][z] = 0
  BY DEF NothingKept
<1>1. obj[x][z] \in Nat /\ obj'[x][z] \in Nat
  BY DEF ItTypeOK
<1>2. x \in Created' /\ (IF stack'[x] = <<>> THEN "FINISHED" \in thread'[x].state
                         ELSE stack'[x][1].at \notin {"start", "code"})
  BY DEF Past, Is
<1>3. x \in Created
  BY <1>2 DEF ObjectsMove
<1>4. CASE x # p
  <2>1. stack'[x] = stack[x]
    BY <1>2, <1>4 DEF FramesMove
  <2>2. Past(x)
    BY <1>2, <1>3, <1>4, <2>1 DEF Past, ObjectsMove
  <2>3. obj[x][z] = 0
    BY <2>2 DEF NothingKept
  <2>4. obj'[x][z] <= obj[x][z]
    BY <1>2, <1>4, <2>1 DEF ObjectsMove
  <2>. QED BY <1>1, <2>3, <2>4
<1>5. CASE x = p
  <2>0. m \in Nat /\ stack[p] # <<>> /\ p # Main
    BY <1>3, <1>5, Typed DEF FramesMove
  <2>1. CASE stack[p][1].at \notin {"start", "code"}
    <3>1. Past(p)
      BY <1>3, <1>5, <2>0, <2>1 DEF Past
    <3>2. obj[x][z] = 0
      BY <1>5, <3>1 DEF NothingKept
    <3>3. obj'[x][z] <= obj[x][z]
      BY <1>5, <2>1 DEF ObjectsMove
    <3>. QED BY <1>1, <3>2, <3>3
  <2>2. CASE stack[p][1].at \in {"start", "code"}
    <3>1. ~(m > 0)
      BY <1>2, <1>5, <2>2, OuterStays
    <3>2. CASE at \in {"start", "code"}
      <4>1. m + 1 \in 1..Len(stack'[p]) /\ stack'[p][m + 1] = ItFrame(at, y) /\ m + 1 = 1
        BY <2>0, <3>1, <3>2 DEF FramesMove
      <4>2. stack'[p][1].at = at
        BY <4>1, FrameFields
      <4>3. stack' \in Stacks /\ Len(stack'[p]) # 0
        BY <4>1, OuterStays DEF FramesMove
      <4>4. stack'[p] # <<>>
        BY <4>3, EmptySeq
      <4>. QED BY <1>2, <1>5, <3>2, <4>2, <4>4
    <3>3. CASE at \notin {"start", "code"}
      BY <1>5, <2>0, <2>2, <3>1, <3>3 DEF ObjectsMove
    <3>. QED BY <3>2, <3>3
  <2>. QED BY <2>1, <2>2
<1>. QED BY <1>4, <1>5

LEMMA ClearsStayLast ==
  ASSUME ItTypeOK, ClearsAreLast, NEW p \in Actor, NEW m, NEW at, NEW y,
         FramesMove(p, m, at, y), ClearsMove(p, m)
  PROVE  ClearsAreLast'
<1> SUFFICES ASSUME NEW q \in Actor, NEW k \in 1..Len(stack'[q]),
                    stack'[q][k].at = "clear", k < Len(stack'[q])
             PROVE  "NONVIABLE" \in thread'[stack'[q][k].x].state
  BY DEF ClearsAreLast, Is
<1>1. CASE q # p
  <2>1. stack'[q] = stack[q]
    <3>1. SUFFICES ASSUME Len(stack'[q]) = 1 /\ stack'[q][1].at = "start" PROVE FALSE
      BY <1>1 DEF FramesMove
    <3>2. k = 1
      BY <3>1
    <3>. QED BY <3>1, <3>2
  <2>2. k \in 1..Len(stack[q]) /\ stack[q][k].at = "clear" /\ k < Len(stack[q])
    BY <2>1
  <2>3. Is(stack[q][k].x, "NONVIABLE") /\ stack[q][k].x \in Actor
    BY <2>2, Typed DEF ClearsAreLast
  <2>. QED BY <2>1, <2>3 DEF ClearsMove
<1>2. CASE q = p
  <2>1. k <= m /\ k \in 1..Len(stack[p]) /\ stack'[p][k] = stack[p][k]
    <3>1. Len(stack'[p]) \in Nat
      BY OuterStays
    <3>. QED BY <1>2, <3>1 DEF FramesMove
  <2>2. stack[p][k].x \in Actor /\ stack[p][k].at = "clear"
    BY <1>2, <2>1, Typed
  <2>3. Is(stack[p][k].x, "NONVIABLE")
    <3>1. CASE k < Len(stack[p])
      BY <2>1, <2>2, <3>1 DEF ClearsAreLast
    <3>2. CASE ~(k < Len(stack[p]))
      <4>1. Len(stack[p]) \in Nat /\ Inner(p) = stack[p][Len(stack[p])] /\ m \in Nat
            /\ m \in {Len(stack[p]) - 1, Len(stack[p])}
        BY OuterStays DEF FramesMove
      <4>2. k = Len(stack[p]) /\ m = Len(stack[p])
        BY <2>1, <3>2, <4>1
      <4>. QED BY <2>2, <4>1, <4>2 DEF ClearsMove, Target
    <3>. QED BY <3>1, <3>2
  <2>. QED BY <1>2, <2>1, <2>2, <2>3 DEF ClearsMove
<1>. QED BY <1>1, <1>2

LEMMA HoldersStay ==
  ASSUME ItTypeOK, ItTypeOK', HoldersAreRight, NEW p \in Actor, NEW m, NEW at, NEW y,
         HoldersMove(p, m, at, y)
  PROVE  HoldersAreRight'
<1>1. /\ FramesMove(p, m, at, y) /\ MutexesMove(p, m, at, y) /\ PoolMoves(p, m, at)
      /\ ObjectsMove(p, m, at) /\ ClearsMove(p, m)
      /\ MutexIsHeld /\ PoolHasHolder /\ NothingKept /\ ClearsAreLast
  BY DEF HoldersMove, HoldersAreRight
<1>2. MutexIsHeld'
  BY <1>1, MutexStaysHeld
<1>3. PoolHasHolder'
  BY <1>1, PoolStaysHeld
<1>4. NothingKept'
  BY <1>1, NothingStaysKept
<1>5. ClearsAreLast'
  BY <1>1, ClearsStayLast
<1>. QED BY <1>2, <1>3, <1>4, <1>5 DEF HoldersAreRight

\* The operations on stacks move frames like that.
LEMMA FramesGo ==
  ASSUME ItIInv, NEW p \in Actor, NEW was, Now(p, was), NEW y \in Actor, NEW n \in Nat, n = Len(stack[p])
  PROVE  /\ \A at \in Labels \ {"clear"} :
              /\ GotoAt(p, at, y) => FramesMove(p, n - 1, at, y)
              /\ Push(p, at, y) => FramesMove(p, n, at, y)
              /\ LockAndClear(p, y, at) => FramesMove(p, n - 1, at, y)
         /\ Pop(p) => FramesMove(p, n - 1, "none", y)
<1>1. /\ ItTypeOK /\ stack \in Stacks /\ stack[p] # <<>> /\ n > 0 /\ n = Len(stack[p])
      /\ n - 1 \in Nat
  BY TopFrame DEF ItIInv
<1>2. ASSUME NEW at \in Labels \ {"clear"}, GotoAt(p, at, y) PROVE FramesMove(p, n - 1, at, y)
  <2>1. stack' \in Stacks /\ Replaced(stack, stack', p, ItFrame(at, y))
    BY <1>1, <1>2, StackOperations DEF Stacks
  <2>2. PICK f : f = ItFrame(at, y) /\ f.at # "clear"
    BY FrameFields
  <2>3. /\ \A q \in Actor : q # p => stack'[q] = stack[q]
        /\ Len(stack'[p]) = n /\ stack'[p][n] = f
        /\ \A k \in 1..n : k < n => stack'[p][k] = stack[p][k]
    BY <1>1, <2>1, <2>2 DEF Replaced
  <2>. QED BY <1>1, <2>1, <2>2, <2>3 DEF FramesMove
<1>3. ASSUME NEW at \in Labels \ {"clear"}, Push(p, at, y) PROVE FramesMove(p, n, at, y)
  <2>1. stack' \in Stacks /\ Pushed(stack, stack', p, ItFrame(at, y))
    BY <1>1, <1>3, StackOperations DEF Stacks
  <2>2. PICK f : f = ItFrame(at, y) /\ f.at # "clear"
    BY FrameFields
  <2>3. /\ \A q \in Actor : q # p => stack'[q] = stack[q]
        /\ Len(stack'[p]) = n + 1 /\ stack'[p][n + 1] = f
        /\ \A k \in 1..n : stack'[p][k] = stack[p][k]
    BY <1>1, <2>1, <2>2 DEF Pushed
  <2>. QED BY <1>1, <2>1, <2>2, <2>3 DEF FramesMove
<1>4. ASSUME Pop(p) PROVE FramesMove(p, n - 1, "none", y)
  <2>1. stack' \in Stacks /\ Popped(stack, stack', p)
    BY <1>1, <1>4, StackOperations DEF Stacks
  <2>2. /\ \A q \in Actor : q # p => stack'[q] = stack[q]
        /\ Len(stack'[p]) = n - 1
        /\ \A k \in 1..n : k < n => stack'[p][k] = stack[p][k]
    BY <1>1, <2>1 DEF Popped
  <2>. QED BY <1>1, <2>1, <2>2 DEF FramesMove
<1>5. ASSUME NEW at \in Labels \ {"clear"}, LockAndClear(p, y, at) PROVE FramesMove(p, n - 1, at, y)
  <2>1. stack' \in Stacks /\ Covered(stack, stack', p, ItFrame(at, y), ItFrame("clear", y))
    BY <1>1, <1>5, LockAndClearIs
  <2>2. PICK f : f = ItFrame(at, y) /\ f.at # "clear"
    BY FrameFields
  <2>3. /\ \A q \in Actor : q # p => stack'[q] = stack[q]
        /\ Len(stack'[p]) = n + 1 /\ stack'[p][n] = f
        /\ \A k \in 1..n : k < n => stack'[p][k] = stack[p][k]
    BY <1>1, <2>1, <2>2 DEF Covered
  <2>. QED BY <1>1, <2>1, <2>2, <2>3 DEF FramesMove
<1>. QED BY <1>2, <1>3, <1>4, <1>5

\* Most steps finish no thread, make none, and only running code gets objects.
KeepsMarks ==
  \A x \in Actor : /\ "FINISHED" \in thread'[x].state => Is(x, "FINISHED")
                   /\ Is(x, "NONVIABLE") => "NONVIABLE" \in thread'[x].state
ObjectsGrow(p, m) ==
  \A x \in Actor : \/ \A y \in Actor : obj'[x][y] <= obj[x][y]
                   \/ x = p /\ m > 0 /\ stack[p][1].at = "code"
                   \/ x # p /\ stack[x] = <<>> /\ "FINISHED" \notin thread'[x].state

LEMMA SameMarks == (\A x \in Actor : thread'[x].state = thread[x].state) => KeepsMarks
  BY DEF KeepsMarks, Is

LEMMA SameObjects == ASSUME ItTypeOK, obj' = obj, NEW p, NEW m PROVE ObjectsGrow(p, m)
<1>1. \A x, y \in Actor : obj[x][y] \in Nat
  BY DEF ItTypeOK
<1>2. \A x, y \in Actor : obj'[x][y] <= obj[x][y]
  BY <1>1
<1>. QED BY <1>2 DEF ObjectsGrow

LEMMA QuietMoves ==
  ASSUME ItIInv, NEW p \in Actor, NEW was, Now(p, was), NEW m, NEW at, NEW y,
         FramesMove(p, m, at, y), tid_counter' = tid_counter, KeepsMarks, ObjectsGrow(p, m),
         m = Len(stack[p]) => was # "clear",
         was \notin {"start", "code"} \/ at \in {"start", "code"} \/ p = Main \/ m = Len(stack[p]),
         MutexesMove(p, m, at, y), PoolMoves(p, m, at)
  PROVE  HoldersMove(p, m, at, y)
<1>1. Inner(p).at = was /\ Inner(p) = stack[p][Len(stack[p])] /\ Len(stack[p]) > 0 /\ Len(stack[p]) \in Nat
      /\ m \in Nat /\ m \in {Len(stack[p]) - 1, Len(stack[p])}
  BY OuterStays DEF Now, FramesMove
<1>2. \/ m > 0 \/ p = Main \/ stack[p][1].at \notin {"start", "code"} \/ at \in {"start", "code"}
  <2>1. ASSUME ~(m > 0), was \notin {"start", "code"} PROVE stack[p][1].at \notin {"start", "code"}
    <3>0. PICK n \in Nat : n = Len(stack[p]) /\ n > 0 /\ (m = n - 1 \/ m = n)
      BY <1>1
    <3>2. m = 0
      BY <1>1, <2>1
    <3>1. n = 1
      BY ONLY <3>0, <3>2, n \in Nat
    <3>. QED BY <1>1, <2>1, <3>0, <3>1
  <2>2. m = Len(stack[p]) => m > 0
    BY <1>1
  <2>. QED BY <2>1, <2>2
<1>3. ObjectsMove(p, m, at)
  <2>1. Created' = Created
    BY DEF Created
  <2>. QED BY <1>2, <2>1 DEF ObjectsMove, KeepsMarks, ObjectsGrow
<1>4. ClearsMove(p, m)
  BY <1>1 DEF ClearsMove, KeepsMarks
<1>. QED BY <1>3, <1>4 DEF HoldersMove

\* The mutexes of a step that locks none of its own, or one, or unlocks one.
Mutexes(x, q) ==
  thread'[x].mutex = q /\ \A z \in Actor : z # x => thread'[z].mutex = thread[z].mutex

LEMMA MutexMovesBy ==
  ASSUME NEW p \in Actor, NEW was, Now(p, was), NEW m, NEW at, NEW y \in Actor
  PROVE  /\ (\A x \in Actor : thread'[x].mutex = thread[x].mutex)
            /\ (m = Len(stack[p]) \/ was \notin HaveMutex \/ (y = Target(p) /\ at \in HaveMutex))
              => MutexesMove(p, m, at, y)
         /\ Mutexes(Target(p), NoActor) => MutexesMove(p, m, at, y)
         /\ Mutexes(y, p) /\ at \in HaveMutex /\ (was \notin HaveMutex \/ y = Target(p))
              => MutexesMove(p, m, at, y)
<1>1. Inner(p).at = was
  BY DEF Now
<1>2. NoActor \notin Actor
  BY ItConstants
<1>3. ASSUME \A x \in Actor : thread'[x].mutex = thread[x].mutex,
             m = Len(stack[p]) \/ was \notin HaveMutex \/ (y = Target(p) /\ at \in HaveMutex)
      PROVE  MutexesMove(p, m, at, y)
  <2>1. m = Len(stack[p]) => ~(m < Len(stack[p]))
    OBVIOUS
  <2>. QED BY <1>1, <1>3, <2>1 DEF MutexesMove
<1>4. ASSUME Mutexes(Target(p), NoActor) PROVE MutexesMove(p, m, at, y)
  BY <1>2, <1>4 DEF MutexesMove, Mutexes
<1>5. ASSUME Mutexes(y, p), at \in HaveMutex, was \notin HaveMutex \/ y = Target(p)
      PROVE  MutexesMove(p, m, at, y)
  BY <1>1, <1>5 DEF MutexesMove, Mutexes
<1>. QED BY <1>3, <1>4, <1>5

LEMMA PoolMovesBy ==
  ASSUME NEW p \in Actor, NEW was, Now(p, was), NEW m, NEW at
  PROVE  /\ pool'.mutex = pool.mutex /\ (was \notin HavePool \/ at \in HavePool \/ m = Len(stack[p]))
              => PoolMoves(p, m, at)
         /\ pool'.mutex = NoActor => PoolMoves(p, m, at)
         /\ pool'.mutex = p /\ at \in HavePool => PoolMoves(p, m, at)
<1>1. Inner(p).at = was
  BY DEF Now
<1>2. NoActor \notin Actor
  BY ItConstants
<1>3. m = Len(stack[p]) => ~(m < Len(stack[p]))
  OBVIOUS
<1>. QED BY <1>1, <1>2, <1>3 DEF PoolMoves

HoldersGo(p) == \E m, at, y : HoldersMove(p, m, at, y)

\* What code calls; Push, with the pool's mutex as it was or taken for the call.
LEMMA CallMoves ==
  ASSUME ItIInv, NEW p \in Actor, Now(p, "code"), NEW at \in Labels \ {"clear"}, NEW y \in Actor,
         Push(p, at, y), tid_counter' = tid_counter, KeepsMarks, ObjectsGrow(p, 1),
         \A x \in Actor : thread'[x].mutex = thread[x].mutex,
         pool'.mutex = pool.mutex \/ (pool'.mutex = p /\ at \in HavePool)
  PROVE  HoldersGo(p)
<1>1. Len(stack[p]) = 1
  BY RunningPlace DEF Running
<1>2. PICK n \in Nat : n = Len(stack[p]) /\ n = 1
  BY <1>1
<1>3. FramesMove(p, n, at, y)
  BY <1>2, FramesGo
<1>4. MutexesMove(p, n, at, y) /\ PoolMoves(p, n, at)
  BY <1>2, MutexMovesBy, PoolMovesBy
<1>5. ObjectsGrow(p, n) /\ n = Len(stack[p])
  BY <1>2
<1>6. HoldersMove(p, n, at, y)
  BY <1>3, <1>4, <1>5, QuietMoves
<1>. QED BY <1>6 DEF HoldersGo

LEMMA JoinMarkMoves ==
  ASSUME ItIInv, NEW p \in Actor, NEW x \in Actor, JoinMark(p, x) PROVE HoldersGo(p)
<1>1. /\ ItTypeOK /\ Now(p, "code") /\ Push(p, "join", x)
      /\ thread' = [thread EXCEPT ![x].state = @ \cup {"JOINED"}]
      /\ UNCHANGED <<pool, obj, tid_counter>>
  BY DEF JoinMark, InCode, ItIInv
<1>2. PICK S \in SUBSET Flags : S = {"JOINED"}
  BY DEF Flags
<1>3. /\ thread'[x].state = thread[x].state \cup S
      /\ \A y \in Actor : y # x => thread'[y].state = thread[y].state
      /\ \A y \in Actor : thread'[y].mutex = thread[y].mutex
  BY <1>1, <1>2, StateMoves
<1>4. KeepsMarks
  BY <1>2, <1>3 DEF KeepsMarks, Is
<1>5. "join" \in Labels \ {"clear"}
  BY DEF Labels, Owning
<1>. QED BY <1>1, <1>3, <1>4, <1>5, SameObjects, CallMoves

LEMMA DetachMoves ==
  ASSUME ItIInv, NEW p \in Actor, NEW x \in Actor, Detach(p, x) PROVE HoldersGo(p)
<1>1. /\ ItTypeOK /\ Now(p, "code") /\ Push(p, "detach", x)
      /\ pool' = [pool EXCEPT !.mutex = p] /\ UNCHANGED <<thread, obj, tid_counter>>
  BY DEF Detach, InCode, ItIInv
<1>2. "detach" \in Labels \ {"clear"} /\ "detach" \in HavePool
  BY DEF Labels, HavePool
<1>3. pool'.mutex = p
  BY <1>1 DEF ItTypeOK
<1>4. KeepsMarks
  BY <1>1, SameMarks
<1>. QED BY <1>1, <1>2, <1>3, <1>4, SameObjects, CallMoves

LEMMA WalkMoves ==
  ASSUME ItIInv, NEW p \in Actor, NEW x \in Actor, NEW want \in Walks, Walk(p, want, x)
  PROVE  HoldersGo(p)
<1>1. /\ ItTypeOK /\ Now(p, "code") /\ Push(p, want, x)
      /\ pool' = [pool EXCEPT !.mutex = p] /\ UNCHANGED <<thread, obj, tid_counter>>
  BY DEF Walk, InCode, ItIInv
<1>2. want \in Labels \ {"clear"} /\ want \in HavePool
  BY WalkLabels DEF Labels, HavePool
<1>3. pool'.mutex = p
  BY <1>1 DEF ItTypeOK
<1>4. KeepsMarks
  BY <1>1, SameMarks
<1>. QED BY <1>1, <1>2, <1>3, <1>4, SameObjects, CallMoves

LEMMA ObjectsShrink ==
  ASSUME ItTypeOK, NEW i \in Actor, NEW x \in Actor, obj[i][x] > 0,
         obj' = [obj EXCEPT ![i][x] = obj[i][x] - 1], NEW p, NEW m
  PROVE  ObjectsGrow(p, m)
<1>2. \A j, y \in Actor : obj[j][y] \in Nat
  BY DEF ItTypeOK
<1>1. /\ obj'[i][x] = obj[i][x] - 1
      /\ \A j, y \in Actor : j # i \/ y # x => obj'[j][y] = obj[j][y]
  BY DEF ItTypeOK
<1>3. \A j, y \in Actor : obj'[j][y] <= obj[j][y]
  BY <1>1, <1>2
<1>. QED BY <1>3 DEF ObjectsGrow

LEMMA DestroyMoves ==
  ASSUME ItIInv, NEW p \in Actor, NEW x \in Actor, Destroy(p, x) PROVE HoldersGo(p)
<1>1. /\ ItTypeOK /\ Now(p, "code") /\ Push(p, "drop", x) /\ obj[p][x] > 0
      /\ obj' = [obj EXCEPT ![p][x] = obj[p][x] - 1] /\ UNCHANGED <<thread, pool, tid_counter>>
  BY DEF Destroy, InCode, ItIInv
<1>2. "drop" \in Labels \ {"clear"}
  BY DEF Labels, Owning
<1>3. ObjectsGrow(p, 1)
  BY <1>1, ObjectsShrink
<1>4. KeepsMarks
  BY <1>1, SameMarks
<1>. QED BY <1>1, <1>2, <1>3, <1>4, CallMoves

\* What goes on at the top: mutexes and the pool's mutex, when "was" makes way.
MutexesBy(p, was, at, y) ==
  \/ /\ \A x \in Actor : thread'[x].mutex = thread[x].mutex
     /\ was \notin HaveMutex \/ (y = Target(p) /\ at \in HaveMutex)
  \/ Mutexes(Target(p), NoActor)
  \/ Mutexes(y, p) /\ at \in HaveMutex /\ (was \notin HaveMutex \/ y = Target(p))
PoolBy(p, was, at) ==
  \/ pool'.mutex = pool.mutex /\ (was \notin HavePool \/ at \in HavePool)
  \/ pool'.mutex = NoActor
  \/ pool'.mutex = p /\ at \in HavePool

LEMMA TopMoves ==
  ASSUME ItIInv, NEW p \in Actor, NEW was, Now(p, was), NEW at \in (Labels \cup {"none"}) \ {"clear"},
         NEW y \in Actor,
         IF at = "none" THEN Pop(p) ELSE GotoAt(p, at, y) \/ LockAndClear(p, y, at),
         tid_counter' = tid_counter, KeepsMarks, obj' = obj \/ ObjectsGrow(p, Len(stack[p]) - 1),
         was \notin {"start", "code"} \/ at \in {"start", "code"} \/ p = Main,
         MutexesBy(p, was, at, y), PoolBy(p, was, at)
  PROVE  HoldersGo(p)
<1>1. ItTypeOK /\ Len(stack[p]) \in Nat /\ Len(stack[p]) > 0
  BY TopFrame DEF ItIInv
<1>2. PICK n \in Nat : n = Len(stack[p]) /\ n > 0
  BY <1>1
<1>3. PICK m \in Nat : m = n - 1
  BY <1>2
<1>4. FramesMove(p, m, at, y)
  <2>1. CASE at = "none"
    BY <1>2, <1>3, <2>1, FramesGo
  <2>2. CASE at # "none"
    <3>1. at \in Labels \ {"clear"}
      BY <2>2
    <3>2. GotoAt(p, at, y) \/ LockAndClear(p, y, at)
      BY <2>2
    <3>. QED BY <1>2, <1>3, <3>1, <3>2, FramesGo
  <2>. QED BY <2>1, <2>2
<1>5. MutexesMove(p, m, at, y)
  BY MutexMovesBy DEF MutexesBy
<1>6. PoolMoves(p, m, at)
  BY PoolMovesBy DEF PoolBy
<1>7. ObjectsGrow(p, m)
  <2>1. m = Len(stack[p]) - 1
    BY <1>2, <1>3
  <2>. QED BY <1>1, <2>1, SameObjects
<1>8. m # Len(stack[p])
  BY <1>2, <1>3
<1>9. HoldersMove(p, m, at, y)
  BY <1>4, <1>5, <1>6, <1>7, <1>8, QuietMoves
<1>. QED BY <1>9 DEF HoldersGo

\* One mutex is taken or given back, and nothing else about the threads.
LEMMA OneMutexMoves ==
  ASSUME ItTypeOK, NEW x \in Actor, NEW q,
         thread' = [thread EXCEPT ![x].mutex = q]
  PROVE  KeepsMarks /\ Mutexes(x, q)
  BY SMT DEF ItTypeOK, KeepsMarks, Mutexes, Is

\* The steps that only move frames and mutexes.
LEMMA CalmMoves ==
  ASSUME ItIInv, NEW p \in Actor,
         \/ Start(p) \/ ExitApp(p) \/ (p = Main /\ MainExit) \/ Unlink(p) \/ Dispose(p) \/ ClearDone(p)
         \/ Unlock(p) \/ Uncount(p) \/ JoinCount(p) \/ DetachFree(p) \/ JoinWait(p)
  PROVE  HoldersGo(p)
<1>1. PICK was : Now(p, was)
  BY DEF Start, ExitApp, MainExit, Unlink, Dispose, ClearDone, Unlock, Uncount, JoinCount,
         DetachFree, JoinWait, InCode
<1>2. ItTypeOK /\ Target(p) \in Actor /\ obj' = obj /\ tid_counter' = tid_counter
  BY <1>1, TopFrame
  DEF ItIInv, Start, ExitApp, MainExit, Unlink, Dispose, ClearDone, Unlock, Uncount, JoinCount,
      DetachFree, JoinWait
<1>3. PICK x \in Actor : x = Target(p)
  BY <1>2
<1>5. {"code", "gone", "dispose", "release", "uncount", "join_wait", "free"} \subseteq Labels
  BY DEF Labels, Owning, Running
<1>10. CASE Start(p)
  <2>1. Now(p, "start") /\ GotoAt(p, "code", x) /\ UNCHANGED <<thread, pool>>
    BY <1>3, <1>10 DEF Start, Goto
  <2>2. MutexesBy(p, "start", "code", x) /\ PoolBy(p, "start", "code") /\ KeepsMarks
    BY <2>1, SameMarks, WalkLabels DEF MutexesBy, PoolBy, HaveMutex, HavePool
  <2>. QED BY <1>2, <1>5, <2>1, <2>2, TopMoves
<1>11. CASE ExitApp(p)
  <2>1. Now(p, "exit_app") /\ GotoAt(p, "gone", x) /\ UNCHANGED <<thread, pool>>
    BY <1>3, <1>11 DEF ExitApp, Goto
  <2>2. MutexesBy(p, "exit_app", "gone", x) /\ PoolBy(p, "exit_app", "gone") /\ KeepsMarks
    BY <2>1, SameMarks, WalkLabels DEF MutexesBy, PoolBy, HaveMutex, HavePool
  <2>. QED BY <1>2, <1>5, <2>1, <2>2, TopMoves
<1>12. CASE p = Main /\ MainExit
  <2>1. Now(p, "code") /\ GotoAt(p, "gone", x) /\ UNCHANGED <<thread, pool>>
    BY <1>3, <1>12 DEF MainExit, Goto, InCode
  <2>2. MutexesBy(p, "code", "gone", x) /\ PoolBy(p, "code", "gone") /\ KeepsMarks
    BY <2>1, SameMarks, WalkLabels DEF MutexesBy, PoolBy, HaveMutex, HavePool
  <2>. QED BY <1>2, <1>5, <1>12, <2>1, <2>2, TopMoves
<1>13. CASE Unlink(p)
  <2>1. Now(p, "unlink") /\ GotoAt(p, "dispose", x) /\ UNCHANGED <<thread, pool>>
    BY <1>3, <1>13 DEF Unlink, Goto
  <2>2. MutexesBy(p, "unlink", "dispose", x) /\ PoolBy(p, "unlink", "dispose") /\ KeepsMarks
    BY <2>1, SameMarks, WalkLabels DEF MutexesBy, PoolBy, HaveMutex, HavePool
  <2>. QED BY <1>2, <1>5, <2>1, <2>2, TopMoves
<1>14. CASE Dispose(p)
  <2>1. Now(p, "dispose") /\ LockAndClear(p, x, "release") /\ UNCHANGED <<pool>>
        /\ thread' = [thread EXCEPT ![x].mutex = p]
    BY <1>3, <1>14 DEF Dispose, LockAndClear
  <2>2. KeepsMarks /\ Mutexes(x, p)
    BY <1>2, <2>1, OneMutexMoves
  <2>3. MutexesBy(p, "dispose", "release", x) /\ PoolBy(p, "dispose", "release")
    BY <2>1, <2>2, WalkLabels DEF MutexesBy, PoolBy, HaveMutex, HavePool
  <2>. QED BY <1>2, <1>5, <2>1, <2>2, <2>3, TopMoves
<1>15. CASE ClearDone(p)
  <2>1. Now(p, "clear") /\ Pop(p) /\ UNCHANGED <<pool>>
        /\ thread' = [thread EXCEPT ![x].interp = "none"]
    BY <1>3, <1>15 DEF ClearDone
  <2>2. \A y \in Actor : thread'[y].mutex = thread[y].mutex /\ thread'[y].state = thread[y].state
    BY <1>2, <2>1, ZenonT(40) DEF ItTypeOK
  <2>3. KeepsMarks
    BY <2>2, SameMarks
  <2>4. MutexesBy(p, "clear", "none", x) /\ PoolBy(p, "clear", "none")
    BY <2>1, <2>2, WalkLabels DEF MutexesBy, PoolBy, HaveMutex, HavePool
  <2>. QED BY <1>2, <2>1, <2>3, <2>4, TopMoves
<1>16. CASE Unlock(p)
  <2>1. Now(p, "release") /\ GotoAt(p, "uncount", x) /\ UNCHANGED <<pool>>
        /\ thread' = [thread EXCEPT ![x].mutex = NoActor]
    BY <1>3, <1>16 DEF Unlock, Goto
  <2>2. KeepsMarks /\ Mutexes(x, NoActor)
    BY <1>2, <2>1, OneMutexMoves
  <2>3. MutexesBy(p, "release", "uncount", x) /\ PoolBy(p, "release", "uncount")
    BY <1>3, <2>1, <2>2, WalkLabels DEF MutexesBy, PoolBy, HaveMutex, HavePool
  <2>. QED BY <1>2, <1>5, <2>1, <2>2, <2>3, TopMoves
<1>17. CASE Uncount(p)
  <2>1. Now(p, "uncount") /\ Pop(p) /\ UNCHANGED thread /\ pool' = [pool EXCEPT !.total = @ - 1]
    BY <1>17 DEF Uncount
  <2>2. pool'.mutex = pool.mutex
    BY <1>2, <2>1 DEF ItTypeOK
  <2>3. MutexesBy(p, "uncount", "none", x) /\ PoolBy(p, "uncount", "none") /\ KeepsMarks
    BY <2>1, <2>2, SameMarks, WalkLabels DEF MutexesBy, PoolBy, HaveMutex, HavePool
  <2>. QED BY <1>2, <2>1, <2>3, TopMoves
<1>18. CASE JoinCount(p)
  <2>1. Now(p, "join") /\ GotoAt(p, "join_wait", x) /\ UNCHANGED thread
        /\ pool' = [pool EXCEPT !.joinable = @ - 1]
    BY <1>3, <1>18 DEF JoinCount, Goto
  <2>2. pool'.mutex = pool.mutex
    BY <1>2, <2>1 DEF ItTypeOK
  <2>3. MutexesBy(p, "join", "join_wait", x) /\ PoolBy(p, "join", "join_wait") /\ KeepsMarks
    BY <2>1, <2>2, SameMarks, WalkLabels DEF MutexesBy, PoolBy, HaveMutex, HavePool
  <2>. QED BY <1>2, <1>5, <2>1, <2>3, TopMoves
<1>19. CASE DetachFree(p) \/ JoinWait(p)
  <2>1. PICK w \in {"detached", "join_wait"} : Now(p, w)
    BY <1>19 DEF DetachFree, JoinWait
  <2>2. /\ GotoAt(p, "free", x) \/ LockAndClear(p, x, "free")
        /\ thread' = [thread EXCEPT ![x].mutex = p] /\ UNCHANGED pool
    BY <1>3, <1>19 DEF DetachFree, JoinWait, Goto, LockAndClear
  <2>3. KeepsMarks /\ Mutexes(x, p)
    BY <1>2, <2>2, OneMutexMoves
  <2>4. MutexesBy(p, w, "free", x) /\ PoolBy(p, w, "free")
    BY <2>2, <2>3, WalkLabels DEF MutexesBy, PoolBy, HaveMutex, HavePool
  <2>. QED BY <1>2, <1>5, <2>1, <2>2, <2>3, <2>4, TopMoves
<1>. QED BY <1>10, <1>11, <1>12, <1>13, <1>14, <1>15, <1>16, <1>17, <1>18, <1>19

\* S_ithread_free gives back the mutex.
LEMMA FreeMoves == ASSUME ItIInv, NEW p \in Actor, Free(p) PROVE HoldersGo(p)
<1>1. PICK was \in {"free", "drop"} : Now(p, was)
  BY DEF Free
<1>2. ItTypeOK /\ Target(p) \in Actor
  BY <1>1, TopFrame DEF ItIInv
<1>3. PICK x \in Actor : x = Target(p)
  BY <1>2
<1>4. /\ thread' = [thread EXCEPT ![x].mutex = NoActor,
                      ![x].count = IF Is(x, "NONVIABLE") THEN @ ELSE @ - 1]
      /\ GotoAt(p, "unlink", x) \/ Pop(p)
      /\ UNCHANGED <<pool, obj, tid_counter>>
  BY <1>3 DEF Free, Goto
<1>5. KeepsMarks /\ Mutexes(x, NoActor)
  BY <1>2, <1>4, ZenonT(40) DEF ItTypeOK, KeepsMarks, Mutexes, Is
<1>6. PICK at \in {"unlink", "none"} : IF at = "none" THEN Pop(p) ELSE GotoAt(p, at, x)
  BY <1>4
<1>7. MutexesBy(p, was, at, x) /\ PoolBy(p, was, at)
  BY <1>3, <1>4, <1>5, WalkLabels DEF MutexesBy, PoolBy, HavePool
<1>8. at \in (Labels \cup {"none"}) \ {"clear"}
  BY DEF Labels
<1>. QED BY <1>1, <1>4, <1>5, <1>6, <1>7, <1>8, TopMoves

LEMMA NonviableMoves == ASSUME ItIInv, NEW p \in Actor, Nonviable(p) PROVE HoldersGo(p)
<1>1. /\ ItTypeOK /\ Now(p, "nonviable") /\ GotoAt(p, "free", Target(p))
      /\ thread' = [thread EXCEPT ![Target(p)].state = @ \cup {"NONVIABLE"}]
      /\ UNCHANGED <<pool, obj, tid_counter>>
  BY DEF ItIInv, Nonviable, Goto
<1>2. PICK x \in Actor : x = Target(p)
  BY <1>1, TopFrame
<1>3. PICK S \in SUBSET Flags : S = {"NONVIABLE"}
  BY DEF Flags
<1>4. /\ thread'[x].state = thread[x].state \cup S
      /\ \A y \in Actor : y # x => thread'[y].state = thread[y].state
      /\ \A y \in Actor : thread'[y].mutex = thread[y].mutex
  BY <1>1, <1>2, <1>3, StateMoves, ZenonT(40)
<1>5. KeepsMarks
  BY <1>3, <1>4 DEF KeepsMarks, Is
<1>6. "free" \in (Labels \cup {"none"}) \ {"clear"}
  BY DEF Labels, Owning
<1>7. MutexesBy(p, "nonviable", "free", x) /\ PoolBy(p, "nonviable", "free")
  BY <1>1, <1>2, <1>4, WalkLabels DEF MutexesBy, PoolBy, HaveMutex, HavePool
<1>. QED BY <1>1, <1>2, <1>5, <1>6, <1>7, TopMoves

\* What running code gets, in a call or by itself.
LEMMA ObjectsOfCode ==
  ASSUME ItIInv, NEW p \in Actor, stack[p][1].at = "code", NEW x \in Actor, NEW m \in Nat, m > 0,
         obj' = [obj EXCEPT ![p][x] = obj[p][x] + 1]
  PROVE  ObjectsGrow(p, m)
<1>1. \A j, y \in Actor : obj[j][y] \in Nat
  BY DEF ItIInv, ItTypeOK
<1>2. \A j, y \in Actor : j # p => obj'[j][y] <= obj[j][y]
  BY <1>1 DEF ItIInv, ItTypeOK
<1>. QED BY <1>2 DEF ObjectsGrow

LEMMA GiveObjectMoves == ASSUME ItIInv, NEW p \in Actor, GiveObject(p) PROVE HoldersGo(p)
<1>1. /\ ItTypeOK /\ Now(p, "give") /\ Pop(p)
      /\ obj' = [obj EXCEPT ![p][Target(p)] = @ + 1]
      /\ thread' = [thread EXCEPT ![Target(p)].mutex = NoActor]
      /\ UNCHANGED <<pool, tid_counter>>
  BY DEF ItIInv, GiveObject
<1>2. PICK x \in Actor : x = Target(p)
  BY <1>1, TopFrame
<1>3. Len(stack[p]) = 2 /\ stack[p][1].at = "code"
  BY <1>1, CalledFrom, FrameFields DEF OnCode
<1>4. PICK m \in Nat : m = Len(stack[p]) - 1 /\ m > 0
  BY <1>3
<1>5. ObjectsGrow(p, m)
  <2>1. obj' = [obj EXCEPT ![p][x] = obj[p][x] + 1]
    BY <1>1, <1>2
  <2>. QED BY <1>3, <1>4, <2>1, ObjectsOfCode
<1>6. KeepsMarks /\ Mutexes(x, NoActor)
  BY <1>1, <1>2, OneMutexMoves
<1>7. MutexesBy(p, "give", "none", x) /\ PoolBy(p, "give", "none")
  BY <1>1, <1>2, <1>6, WalkLabels DEF MutexesBy, PoolBy, HavePool
<1>8. "none" \in (Labels \cup {"none"}) \ {"clear"}
  OBVIOUS
<1>. QED BY <1>1, <1>4, <1>5, <1>6, <1>7, <1>8, TopMoves

\* p alone knows the thread it makes, which gets the objects that p has.
LEMMA DupMoves ==
  ASSUME ItIInv, NEW p \in Actor, Now(p, "clone"), NEW x \in Actor, x = Target(p), Dup(p, x),
         obj' = [obj EXCEPT ![x] = obj[p]]
  PROVE  /\ KeepsMarks /\ \A m : ObjectsGrow(p, m)
         /\ \A y \in Actor : thread'[y].mutex = thread[y].mutex
         /\ stack[x] = <<>> /\ x # p
<1>1. ItTypeOK /\ x # p /\ stack[x] = <<>> /\ thread[x].state = {}
  BY Clones, ZenonT(40) DEF ItIInv, Cloned, Maker
<1>2. \A y \in Actor : thread'[y].mutex = thread[y].mutex /\ thread'[y].state = thread[y].state
  BY <1>1, ZenonT(40) DEF Dup, ItTypeOK
<1>3. KeepsMarks
  BY <1>2, SameMarks
<1>4. ASSUME NEW m PROVE ObjectsGrow(p, m)
  <2>1. \A j, y \in Actor : obj[j][y] \in Nat
    BY <1>1 DEF ItTypeOK
  <2>2. \A j, y \in Actor : j # x => obj'[j][y] <= obj[j][y]
    BY <1>1, <2>1 DEF ItTypeOK
  <2>. QED BY <1>1, <1>2, <2>2 DEF ObjectsGrow
<1>. QED BY <1>1, <1>2, <1>3, <1>4

LEMMA CloneAndFailMoves == ASSUME ItIInv, NEW p \in Actor, CloneAndFail(p) PROVE HoldersGo(p)
<1>1. /\ ItTypeOK /\ Now(p, "clone") /\ GotoAt(p, "nonviable", Target(p)) /\ Dup(p, Target(p))
      /\ obj' = [obj EXCEPT ![Target(p)] = obj[p]]
      /\ pool' = [pool EXCEPT !.mutex = NoActor] /\ tid_counter' = tid_counter
  BY DEF ItIInv, CloneAndFail, Goto
<1>2. PICK x \in Actor : x = Target(p)
  BY <1>1, TopFrame
<1>3. KeepsMarks /\ (\A m : ObjectsGrow(p, m)) /\ \A y \in Actor : thread'[y].mutex = thread[y].mutex
  BY <1>1, <1>2, DupMoves
<1>4. pool'.mutex = NoActor
  BY <1>1 DEF ItTypeOK
<1>5. MutexesBy(p, "clone", "nonviable", x) /\ PoolBy(p, "clone", "nonviable")
  BY <1>2, <1>3, <1>4 DEF MutexesBy, PoolBy, HaveMutex
<1>6. "nonviable" \in (Labels \cup {"none"}) \ {"clear"}
  BY DEF Labels, OwningTwo
<1>. QED BY <1>1, <1>2, <1>3, <1>5, <1>6, TopMoves

LEMMA CloneAndStartMoves == ASSUME ItIInv, NEW p \in Actor, CloneAndStart(p) PROVE HoldersGo(p)
<1>1. /\ ItTypeOK /\ Now(p, "clone") /\ Dup(p, Target(p))
      /\ obj' = [obj EXCEPT ![Target(p)] = obj[p]]
      /\ pool' = [pool EXCEPT !.mutex = NoActor, !.running = @ + 1] /\ tid_counter' = tid_counter
  BY DEF ItIInv, CloneAndStart
<1>2. PICK x \in Actor : x = Target(p)
  BY <1>1, TopFrame
<1>3. /\ KeepsMarks /\ (\A m : ObjectsGrow(p, m)) /\ \A y \in Actor : thread'[y].mutex = thread[y].mutex
      /\ stack[x] = <<>> /\ x # p
  BY <1>1, <1>2, DupMoves
<1>4. Started(p, x) /\ Len(stack[p]) = 2
  <2>1. stack' = [stack EXCEPT ![p] = Append(Outer(@), ItFrame("give", x)),
                               ![x] = <<ItFrame("start", x)>>]
    BY <1>2 DEF CloneAndStart
  <2>2. Maker(p, x, "clone")
    BY <1>1, <1>2, Clones DEF Cloned
  <2>3. Started(p, x)
    BY ONLY ItIInv, p \in Actor, x \in Actor, <1>3, <2>1, <2>2, Starts
  <2>. QED BY <2>2, <2>3 DEF Maker
<1>5. FramesMove(p, 1, "give", x)
  <2>1. /\ stack \in Stacks /\ stack' \in Stacks
        /\ Len(stack'[p]) = 2 /\ stack'[p][1] = stack[p][1] /\ stack'[p][2] = ItFrame("give", x)
        /\ \A q \in Actor : q # p /\ q # x => stack'[q] = stack[q]
        /\ Len(stack'[x]) = 1 /\ stack'[x][1] = ItFrame("start", x) /\ stack'[x] # <<>>
    BY <1>4 DEF Started, MakeFrames
  <2>2. /\ stack'[x][1].at = "start" /\ stack[p] # <<>>
    BY <1>1, <2>1, FrameFields, TopFrame
  <2>3. \A k \in 1..Len(stack'[p]) : \/ k <= 1 /\ k \in 1..Len(stack[p]) /\ stack'[p][k] = stack[p][k]
                                     \/ k = Len(stack'[p])
    BY <1>4, <2>1
  <2>. QED BY <1>3, <1>4, <2>1, <2>2, <2>3 DEF FramesMove
<1>6. pool'.mutex = NoActor
  BY <1>1 DEF ItTypeOK
<1>7. MutexesMove(p, 1, "give", x) /\ PoolMoves(p, 1, "give")
  <2>1. "give" \in HaveMutex
    BY DEF HaveMutex
  <2>. QED BY <1>1, <1>2, <1>3, <1>6, <2>1, MutexMovesBy, PoolMovesBy
<1>8. HoldersMove(p, 1, "give", x)
  BY <1>1, <1>3, <1>4, <1>5, <1>7, QuietMoves
<1>. QED BY <1>8 DEF HoldersGo

LEMMA DetachMarkMoves == ASSUME ItIInv, NEW p \in Actor, DetachMark(p) PROVE HoldersGo(p)
<1>1. /\ ItTypeOK /\ Now(p, "detach") /\ UNCHANGED <<obj, tid_counter>>
  BY DEF ItIInv, DetachMark
<1>2. PICK x \in Actor : x = Target(p)
  BY <1>1, TopFrame
<1>3. PICK S \in SUBSET Flags : S = {"DETACHED"}
  BY DEF Flags
<1>4. /\ thread' = thread \/ thread' = [thread EXCEPT ![x].state = thread[x].state \cup S]
      /\ GotoAt(p, "detached", x) \/ Pop(p)
  BY <1>2, <1>3 DEF DetachMark, Goto
<1>5. pool'.mutex = NoActor
  BY <1>1 DEF DetachMark, ItTypeOK
<1>6. KeepsMarks /\ \A y \in Actor : thread'[y].mutex = thread[y].mutex
  <2>1. CASE thread' = thread
    BY <2>1, SameMarks
  <2>2. CASE thread' = [thread EXCEPT ![x].state = thread[x].state \cup S]
    <3>1. /\ thread'[x].state = thread[x].state \cup S
          /\ \A y \in Actor : y # x => thread'[y].state = thread[y].state
          /\ \A y \in Actor : thread'[y].mutex = thread[y].mutex
      BY <1>1, <2>2, StateMoves
    <3>. QED BY <1>3, <3>1 DEF KeepsMarks, Is
  <2>. QED BY <1>4, <2>1, <2>2
<1>7. PICK at \in {"detached", "none"} : IF at = "none" THEN Pop(p) ELSE GotoAt(p, at, x)
  BY <1>4
<1>8. MutexesBy(p, "detach", at, x) /\ PoolBy(p, "detach", at)
  BY <1>5, <1>6 DEF MutexesBy, PoolBy, HaveMutex
<1>9. at \in (Labels \cup {"none"}) \ {"clear"}
  BY DEF Labels, Owning
<1>. QED BY <1>1, <1>6, <1>7, <1>8, <1>9, TopMoves

\* The walks: on, or out, with or without an object.
LEMMA AdvanceMoves ==
  ASSUME ItIInv, NEW p \in Actor, NEW want \in Walks, NEW was \in {want, Taking[want]}, Now(p, was),
         \/ Goto(p, Taking[want]) /\ UNCHANGED pool
         \/ Advance(p, want),
         tid_counter' = tid_counter, KeepsMarks, \A y \in Actor : thread'[y].mutex = thread[y].mutex,
         \/ obj' = obj
         \/ \E x \in Actor : obj' = [obj EXCEPT ![p][x] = obj[p][x] + 1]
  PROVE  HoldersGo(p)
<1>1. /\ ItTypeOK /\ was \in Walks \cup Takes /\ was \in OnCode /\ was \in HavePool
      /\ want \in HavePool /\ Taking[want] \in HavePool /\ was \notin HaveMutex
      /\ want \in Labels \ {"clear"} /\ Taking[want] \in Labels \ {"clear"}
      /\ want # "none" /\ Taking[want] # "none" /\ was \notin {"start", "code"}
  BY WalkLabels DEF ItIInv, OnCode, HavePool, HaveMutex, Labels
<1>2. PICK x \in Actor : x = Target(p)
  BY <1>1, TopFrame
<1>3. Len(stack[p]) = 2 /\ stack[p][1].at = "code"
  BY <1>1, CalledFrom, FrameFields
<1>4. PICK m \in Nat : m = Len(stack[p]) - 1 /\ m > 0
  BY <1>3
<1>5. ObjectsGrow(p, m)
  BY <1>1, <1>3, <1>4, SameObjects, ObjectsOfCode
<1>6. ASSUME NEW at \in (Labels \cup {"none"}) \ {"clear"}, NEW y \in Actor,
             IF at = "none" THEN Pop(p) ELSE GotoAt(p, at, y), PoolBy(p, was, at)
      PROVE  HoldersGo(p)
  <2>1. MutexesBy(p, was, at, y)
    BY <1>1 DEF MutexesBy
  <2>2. ObjectsGrow(p, Len(stack[p]) - 1)
    BY <1>4, <1>5
  <2>. QED BY <1>1, <1>6, <2>1, <2>2, TopMoves
<1>7. CASE Goto(p, Taking[want]) /\ UNCHANGED pool
  <2>1. GotoAt(p, Taking[want], x) /\ PoolBy(p, was, Taking[want])
    BY <1>1, <1>2, <1>7 DEF Goto, PoolBy
  <2>. QED BY <1>1, <1>6, <2>1
<1>8. CASE Pop(p) /\ pool' = [pool EXCEPT !.mutex = NoActor]
  <2>1. pool'.mutex = NoActor
    BY <1>1, <1>8 DEF ItTypeOK
  <2>2. PoolBy(p, was, "none") /\ "none" \in (Labels \cup {"none"}) \ {"clear"}
    BY <2>1 DEF PoolBy
  <2>. QED BY <1>2, <1>6, <1>8, <2>2
<1>9. CASE Advance(p, want) /\ ~(Pop(p) /\ pool' = [pool EXCEPT !.mutex = NoActor])
  <2>1. Place(x) # Len(list) /\ GotoAt(p, want, list[Place(x) + 1]) /\ pool' = pool
    BY <1>2, <1>9 DEF Advance
  <2>2. x \in Listed
    <3>1. PICK k \in 1..Len(stack[p]) : stack[p][k].at = was /\ stack[p][k].x = x
      BY <1>1, <1>2, TopFrame
    <3>. QED BY <1>1, <3>1 DEF ItIInv, WalksAreInList
  <2>3. PICK y : y = list[Place(x) + 1] /\ y \in Actor
    <3>1. Place(x) \in 1..Len(list) /\ Len(list) \in Nat
      BY <1>1, <2>2, PlaceIs
    <3>2. Place(x) + 1 \in 1..Len(list)
      BY <2>1, <3>1
    <3>3. list[Place(x) + 1] \in Tid
      BY <1>1, <3>2, ElementOfSeq DEF ItTypeOK
    <3>. QED BY <3>3, ItConstants
  <2>4. GotoAt(p, want, y) /\ PoolBy(p, was, want)
    BY <1>1, <2>1, <2>3 DEF PoolBy
  <2>. QED BY <1>1, <1>6, <2>3, <2>4
<1>. QED BY <1>7, <1>8, <1>9

LEMMA LookMoves == ASSUME ItIInv, NEW p \in Actor, NEW want \in Walks, Look(p, want) PROVE HoldersGo(p)
<1>1. /\ Now(p, want) /\ UNCHANGED <<thread, obj, tid_counter>>
      /\ (Goto(p, Taking[want]) /\ UNCHANGED pool) \/ Advance(p, want)
  BY DEF Look
<1>2. KeepsMarks
  BY <1>1, SameMarks
<1>. QED BY <1>1, <1>2, AdvanceMoves

\* What NewObject does to the threads.
LEMMA NewObjectMoves ==
  ASSUME ItTypeOK, NEW p \in Actor, NEW x \in Actor, NewObject(p, x)
  PROVE  /\ KeepsMarks /\ \A y \in Actor : thread'[y].mutex = thread[y].mutex
         /\ obj' = [obj EXCEPT ![p][x] = obj[p][x] + 1]
<1>1. /\ thread' = [thread EXCEPT ![x].count = thread[x].count + 1]
      /\ obj' = [obj EXCEPT ![p][x] = obj[p][x] + 1]
  BY DEF NewObject
<1>2. \A y \in Actor : thread'[y].mutex = thread[y].mutex /\ thread'[y].state = thread[y].state
  BY <1>1, ZenonT(40) DEF ItTypeOK
<1>3. KeepsMarks
  BY <1>2, SameMarks
<1>. QED BY <1>1, <1>2, <1>3

LEMMA TakeObjectMoves ==
  ASSUME ItIInv, NEW p \in Actor, NEW want \in Walks, TakeObject(p, want) PROVE HoldersGo(p)
<1>1. /\ ItTypeOK /\ Now(p, Taking[want]) /\ NewObject(p, Target(p)) /\ Advance(p, want)
      /\ tid_counter' = tid_counter
  BY DEF ItIInv, TakeObject
<1>2. PICK x \in Actor : x = Target(p)
  BY <1>1, TopFrame
<1>3. /\ KeepsMarks /\ \A y \in Actor : thread'[y].mutex = thread[y].mutex
      /\ obj' = [obj EXCEPT ![p][x] = obj[p][x] + 1]
  BY <1>1, <1>2, NewObjectMoves
<1>. QED BY <1>1, <1>3, AdvanceMoves

LEMMA SelfMoves == ASSUME ItIInv, NEW p \in Actor, Self(p) PROVE HoldersGo(p)
<1>1. /\ ItTypeOK /\ Now(p, "code") /\ NewObject(p, p) /\ UNCHANGED <<pool, stack, tid_counter>>
  BY DEF ItIInv, Self, InCode
<1>2. Len(stack[p]) = 1 /\ stack[p] # <<>> /\ stack[p][1].at = "code"
  BY <1>1, RunningPlace DEF Running
<1>3. /\ KeepsMarks /\ \A y \in Actor : thread'[y].mutex = thread[y].mutex
      /\ obj' = [obj EXCEPT ![p][p] = obj[p][p] + 1]
  BY <1>1, NewObjectMoves
<1>4. FramesMove(p, 1, "none", p)
  <2>1. stack \in Stacks
    BY <1>1 DEF ItTypeOK, Stacks, FrameSet
  <2>2. \A k \in 1..Len(stack[p]) : k <= 1
    BY <1>2
  <2>. QED BY <1>1, <1>2, <2>1, <2>2 DEF FramesMove
<1>5. ObjectsGrow(p, 1)
  <2>1. PICK m \in Nat : m = 1 /\ m > 0
    OBVIOUS
  <2>2. ObjectsGrow(p, m)
    BY <1>2, <1>3, <2>1, ObjectsOfCode
  <2>. QED BY <2>1, <2>2
<1>6. MutexesMove(p, 1, "none", p) /\ PoolMoves(p, 1, "none")
  BY <1>1, <1>2, <1>3, MutexMovesBy, PoolMovesBy
<1>7. HoldersMove(p, 1, "none", p)
  BY <1>1, <1>2, <1>3, <1>4, <1>5, <1>6, QuietMoves
<1>. QED BY <1>7 DEF HoldersGo

\* Only an interpreter that never ran has objects to clear.
LEMMA ClearObjectMoves ==
  ASSUME ItIInv, HoldersAreRight, NEW p \in Actor, NEW y \in Actor, ClearObject(p, y)
  PROVE  HoldersGo(p)
<1>1. PICK t \in Actor : t = Target(p)
  BY TopFrame DEF ItIInv, ClearObject
<1>2. /\ ItTypeOK /\ Now(p, "clear") /\ Push(p, "drop", y) /\ obj[t][y] > 0
      /\ obj' = [obj EXCEPT ![t][y] = obj[t][y] - 1]
      /\ UNCHANGED <<thread, pool, tid_counter>>
  BY <1>1 DEF ItIInv, ClearObject
<1>3. PICK n \in Nat : n = Len(stack[p]) /\ n > 1
  BY <1>2, ClearPlace
<1>4. FramesMove(p, n, "drop", y)
  <2>1. "drop" \in Labels \ {"clear"}
    BY DEF Labels, Owning
  <2>. QED BY <1>2, <1>3, <2>1, FramesGo
<1>5. Is(t, "NONVIABLE")
  <2>1. PICK k \in 1..Len(stack[p]) : stack[p][k].at = "clear" /\ stack[p][k].x = t
    BY <1>1, <1>2, TopFrame
  <2>2. Is(t, "NONVIABLE") \/ Is(t, "FINISHED")
    BY <2>1, FramesAre DEF ItIInv, AssertionsHold
  <2>3. SUFFICES ASSUME Is(t, "FINISHED") PROVE FALSE
    BY <2>2
  <2>4. t \in Created
    BY <2>1, <2>3 DEF ItIInv, OnlyKnown, Known, RunsAreMarked, Is
  <2>5. Past(t)
    BY <2>3, <2>4 DEF ItIInv, RunsAreMarked, Past, Stages
  <2>6. obj[t][y] = 0
    BY <2>5 DEF HoldersAreRight, NothingKept
  <2>. QED BY <1>2, <2>6
<1>6. ObjectsMove(p, n, "drop") /\ ClearsMove(p, n)
  <2>1. ObjectsGrow(p, n)
    BY <1>2, ObjectsShrink
  <2>. QED BY <1>1, <1>2, <1>3, <1>5, <2>1 DEF ObjectsMove, ClearsMove, ObjectsGrow, Created, Is
<1>7. MutexesMove(p, n, "drop", y) /\ PoolMoves(p, n, "drop")
  BY <1>2, <1>3, MutexMovesBy, PoolMovesBy
<1>8. HoldersMove(p, n, "drop", y)
  BY <1>4, <1>6, <1>7 DEF HoldersMove
<1>. QED BY <1>8 DEF HoldersGo

\* The end of a thread's code, which leaves no objects, and the mark.
LEMMA EndCodeMoves ==
  ASSUME ItIInv, NoKeepers, NEW p \in Actor, NEW how \in {"return", "die", "exit"}, EndCode(p, how)
  PROVE  HoldersGo(p)
<1>1. /\ ItTypeOK /\ Now(p, "code") /\ GotoAt(p, how, Target(p)) /\ p # Main
      /\ pool' = [pool EXCEPT !.mutex = p] /\ UNCHANGED <<itScenario, thread, obj, tid_counter>>
      /\ "keep" \in itScenario[p] \/ \A y \in Actor : obj[p][y] = 0
  BY DEF ItIInv, EndCode, Goto, InCode
<1>2. Len(stack[p]) = 1 /\ Target(p) = p /\ Inner(p).at = "code"
  BY <1>1, RunningPlace DEF Running
<1>3. \A y \in Actor : obj'[p][y] = 0
  BY <1>1 DEF NoKeepers, ItTypeOK
<1>4. PICK n \in Nat : n = Len(stack[p]) /\ n = 1
  BY <1>2
<1>5. PICK m \in Nat : m = n - 1 /\ m = 0
  BY <1>4
<1>6. how \in Labels \ {"clear"} /\ how \in HavePool
  BY DEF Labels, Owning, Running, HavePool
<1>7. FramesMove(p, m, how, p)
  BY <1>1, <1>2, <1>4, <1>5, <1>6, FramesGo
<1>8. ObjectsMove(p, m, how) /\ ClearsMove(p, m)
  <2>1. ObjectsGrow(p, m)
    BY <1>1, SameObjects
  <2>2. ObjectsMove(p, m, how)
    BY <1>1, <1>3, <2>1 DEF ObjectsMove, ObjectsGrow, Created, Is
  <2>3. ClearsMove(p, m)
    BY <1>1, <1>2 DEF ClearsMove, Is
  <2>. QED BY <2>2, <2>3
<1>9. pool'.mutex = p
  BY <1>1 DEF ItTypeOK
<1>10. MutexesMove(p, m, how, p) /\ PoolMoves(p, m, how)
  <2>1. "code" \notin HaveMutex
    BY DEF HaveMutex
  <2>. QED BY <1>1, <1>6, <1>9, <2>1, MutexMovesBy, PoolMovesBy
<1>11. HoldersMove(p, m, how, p)
  BY <1>7, <1>8, <1>10 DEF HoldersMove
<1>. QED BY <1>11 DEF HoldersGo

LEMMA FinishMoves ==
  ASSUME ItIInv, NEW p \in Actor, NEW how \in {"return", "die", "exit"}, Finish(p, how)
  PROVE  HoldersGo(p)
<1>1. /\ ItTypeOK /\ Now(p, how) /\ UNCHANGED <<obj, tid_counter>>
      /\ thread' = [thread EXCEPT ![p].state = @ \cup {"FINISHED"}
                      \cup (IF how = "die" THEN {"DIED"} ELSE {})]
      /\ GotoAt(p, IF how = "exit" THEN "exit_app" ELSE "drop", Target(p))
  BY DEF ItIInv, Finish, Goto
<1>2. Len(stack[p]) = 1 /\ Target(p) = p /\ Inner(p).at = how /\ stack[p][1].at = how
  BY <1>1, RunningPlace DEF Running
<1>3. PICK at \in {"exit_app", "drop"} : GotoAt(p, at, p)
  BY <1>1, <1>2
<1>4. pool'.mutex = NoActor
  BY <1>1 DEF Finish, ItTypeOK
<1>5. PICK n \in Nat : n = Len(stack[p]) /\ n = 1
  BY <1>2
<1>6. PICK m \in Nat : m = n - 1 /\ m = 0
  BY <1>5
<1>7. at \in Labels \ {"clear"}
  BY DEF Labels, Owning, Running
<1>8. FramesMove(p, m, at, p)
  BY <1>1, <1>3, <1>5, <1>6, <1>7, FramesGo
<1>9. /\ \A y \in Actor : y # p => thread'[y].state = thread[y].state
      /\ thread[p].state \subseteq thread'[p].state
      /\ \A y \in Actor : thread'[y].mutex = thread[y].mutex
  BY <1>1 DEF ItTypeOK
<1>10. ObjectsMove(p, m, at) /\ ClearsMove(p, m)
  <2>1. \A x, y \in Actor : obj'[x][y] <= obj[x][y]
    <3>1. \A x, y \in Actor : obj[x][y] \in Nat
      BY <1>1 DEF ItTypeOK
    <3>. QED BY <1>1, <3>1
  <2>2. how \notin {"start", "code"} /\ how # "clear"
    OBVIOUS
  <2>3. ObjectsMove(p, m, at)
    BY <1>1, <1>2, <1>9, <2>1, <2>2 DEF ObjectsMove, Created, Is
  <2>4. ClearsMove(p, m)
    BY <1>2, <1>9, <2>2 DEF ClearsMove, Is
  <2>. QED BY <2>3, <2>4
<1>11. MutexesMove(p, m, at, p) /\ PoolMoves(p, m, at)
  <2>1. how \notin HaveMutex
    BY DEF HaveMutex
  <2>. QED BY <1>1, <1>4, <1>9, <2>1, MutexMovesBy, PoolMovesBy
<1>12. HoldersMove(p, m, at, p)
  BY <1>8, <1>10, <1>11 DEF HoldersMove
<1>. QED BY <1>12 DEF HoldersGo

LEMMA CreateMoves == ASSUME ItIInv, NEW p \in Actor, Create(p) PROVE HoldersGo(p)
<1>1. /\ ItTypeOK /\ Now(p, "code") /\ tid_counter \in Tid
      /\ thread' = [thread EXCEPT ![tid_counter] =
                      [count |-> 3, state |-> {}, interp |-> "none", mutex |-> p]]
      /\ pool' = [pool EXCEPT !.mutex = p, !.total = @ + 1] /\ tid_counter' = tid_counter + 1
      /\ Push(p, "clone", tid_counter) /\ obj' = obj
  BY DEF ItIInv, Create, InCode
<1>2. PICK x \in Tid : x = tid_counter
  BY <1>1
<1>3. Unknown(x) /\ x \in Actor
  BY <1>2, NextIsUnknown DEF Unknown
<1>4. x \notin Created /\ stack[x] = <<>>
  BY <1>3 DEF Unknown
<1>5. Len(stack[p]) = 1 /\ Inner(p).at = "code" /\ stack[p] # <<>>
  BY <1>1, RunningPlace DEF Running
<1>6. PICK n \in Nat : n = Len(stack[p]) /\ n = 1
  BY <1>5
<1>7. "clone" \in Labels \ {"clear"} /\ "clone" \in HavePool /\ "clone" \in HaveMutex
      /\ "code" \notin HaveMutex
  BY DEF Labels, OwningTwo, HavePool, HaveMutex
<1>8. FramesMove(p, n, "clone", x)
  BY <1>1, <1>2, <1>3, <1>6, <1>7, FramesGo
<1>9. /\ thread'[x].state = {} /\ thread'[x].mutex = p
      /\ \A y \in Actor : y # x => thread'[y] = thread[y]
  BY <1>1, <1>2, <1>3 DEF ItTypeOK
<1>10. stack'[x] = <<>>
  <2>1. x # p
    BY <1>4, <1>5
  <2>. QED BY <1>1, <1>2, <1>3, <1>4, <2>1 DEF Push, ItTypeOK
<1>11. ObjectsMove(p, n, "clone")
  <2>1. \A z, y \in Actor : obj'[z][y] <= obj[z][y]
    <3>1. \A z, y \in Actor : obj[z][y] \in Nat
      BY <1>1 DEF ItTypeOK
    <3>. QED BY <1>1, <3>1
  <2>2. \A z \in Created' : z \in Created \/ z = x
    BY <1>1, <1>2, ItConstants DEF Created, Tid
  <2>. QED BY <1>6, <1>9, <1>10, <2>1, <2>2 DEF ObjectsMove, Is
<1>12. ClearsMove(p, n)
  <2>1. ~Is(x, "NONVIABLE")
    BY <1>3, <1>4 DEF ItIInv, DoomedIsAlone, Doomed
  <2>. QED BY <1>5, <1>9, <2>1 DEF ClearsMove, Is
<1>13. pool'.mutex = p
  BY <1>1 DEF ItTypeOK
<1>14. MutexesMove(p, n, "clone", x) /\ PoolMoves(p, n, "clone")
  <2>1. Mutexes(x, p)
    BY <1>9 DEF Mutexes
  <2>. QED BY <1>1, <1>3, <1>7, <1>13, <2>1, MutexMovesBy, PoolMovesBy
<1>15. HoldersMove(p, n, "clone", x)
  BY <1>8, <1>11, <1>12, <1>14 DEF HoldersMove
<1>. QED BY <1>15 DEF HoldersGo

LEMMA NextHolders ==
  ASSUME NoKeepers, ItIInv, ItIInv', HoldersAreRight, ItNext PROVE HoldersAreRight'
<1>1. ItTypeOK /\ ItTypeOK'
  BY DEF ItIInv
<1>2. SUFFICES ASSUME \A p \in Actor : ~HoldersGo(p) PROVE FALSE
  BY <1>1, HoldersStay DEF HoldersGo
<1>3. ASSUME NEW p \in Actor,
             \/ Create(p) \/ CloneAndStart(p) \/ CloneAndFail(p) \/ Nonviable(p)
             \/ GiveObject(p) \/ Free(p) \/ DetachMark(p) \/ Self(p)
      PROVE  FALSE
  BY <1>2, <1>3, CreateMoves, CloneAndStartMoves, CloneAndFailMoves, NonviableMoves,
     GiveObjectMoves, FreeMoves, DetachMarkMoves, SelfMoves
<1>4. ASSUME NEW p \in Actor,
             \/ Start(p) \/ ExitApp(p) \/ (p = Main /\ MainExit) \/ Unlink(p) \/ Dispose(p)
             \/ ClearDone(p) \/ Unlock(p) \/ Uncount(p) \/ JoinCount(p) \/ DetachFree(p)
             \/ JoinWait(p)
      PROVE  FALSE
  BY <1>2, <1>4, CalmMoves
<1>5. ASSUME NEW p \in Actor, NEW how \in {"return", "die", "exit"},
             EndCode(p, how) \/ Finish(p, how)
      PROVE  FALSE
  BY <1>2, <1>5, EndCodeMoves, FinishMoves
<1>6. ASSUME NEW p \in Actor, NEW want \in Walks, Look(p, want) \/ TakeObject(p, want)
      PROVE  FALSE
  BY <1>2, <1>6, LookMoves, TakeObjectMoves
<1>7. ASSUME NEW p \in Actor, NEW x \in Actor,
             ClearObject(p, x) \/ JoinMark(p, x) \/ Detach(p, x) \/ Destroy(p, x)
      PROVE  FALSE
  BY <1>2, <1>7, ClearObjectMoves, JoinMarkMoves, DetachMoves, DestroyMoves
<1>8. ASSUME NEW p \in Actor, NEW x \in Actor, NEW want \in Walks, Walk(p, want, x)
      PROVE  FALSE
  BY <1>2, <1>8, WalkMoves
<1>9. Main \in Actor
  BY ItConstants
<1>10. ~MainExit
  BY <1>4, <1>9
<1>. QED BY <1>3, <1>4, <1>5, <1>6, <1>7, <1>8, <1>10 DEF ItNext

LEMMA SameHolders == ASSUME HoldersAreRight, UNCHANGED itVars PROVE HoldersAreRight'
<1>1. UNCHANGED <<thread, pool, obj, stack, tid_counter>>
  BY DEF itVars
<1>2. MutexIsHeld' /\ PoolHasHolder'
  BY <1>1 DEF HoldersAreRight, MutexIsHeld, PoolHasHolder, Guards, GuardsPool
<1>3. NothingKept'
  BY <1>1 DEF HoldersAreRight, NothingKept, Past, Created, Is
<1>4. ClearsAreLast'
  BY <1>1 DEF HoldersAreRight, ClearsAreLast, Is
<1>. QED BY <1>2, <1>3, <1>4 DEF HoldersAreRight

LEMMA InitHolders == ASSUME ItInit PROVE HoldersAreRight
<1>1. /\ stack[Main][1] = ItFrame("code", Main)
      /\ \A q \in Actor : \A k : k \in 1..Len(stack[q]) <=> q = Main /\ k = 1
  BY InitFrames
<1>2. /\ \A x \in Actor : thread[x].mutex = NoActor
      /\ pool.mutex = NoActor /\ \A x, y \in Actor : obj[x][y] = 0
  BY DEF ItInit, NoTid
<1>3. NoActor \notin Actor
  BY ItConstants
<1>4. MutexIsHeld /\ PoolHasHolder /\ NothingKept
  BY <1>2, <1>3 DEF MutexIsHeld, PoolHasHolder, NothingKept
<1>5. ClearsAreLast
  BY <1>1, FrameFields DEF ClearsAreLast
<1>. QED BY <1>4, <1>5 DEF HoldersAreRight

\* The two ways to wait.
ForPool(p, q) ==
  stack[p] # <<>> /\ Inner(p).at \in {"join", "unlink", "uncount", "exit_app"} /\ pool.mutex = q
ForThread(p, q, x) ==
  /\ stack[p] # <<>> /\ thread[x].mutex = q
  /\ \/ /\ x = Target(p)
        /\ Inner(p).at \in Walks \cup Takes \cup {"start", "return", "die", "exit", "drop", "dispose",
                                                  "join_wait", "detach", "detached"}
     \/ Inner(p).at = "clone" /\ obj[p][x] > 0

LEMMA WaysToWait ==
  ASSUME ItIInv, NEW p \in Actor, NEW q \in Actor, BlockedBy(p, q)
  PROVE  ForPool(p, q) \/ \E x \in Actor : ForThread(p, q, x)
<1>1. Now(p, Inner(p).at)
  BY DEF BlockedBy, Now
<1>2. PICK x \in Actor : x = Target(p)
  BY <1>1, TopFrame DEF ItIInv
<1>. QED BY <1>2 DEF BlockedBy, ForPool, ForThread, Takes, Target

\* Whoever has the mutex of a structure for which someone waits goes on.
LEMMA HolderRuns ==
  ASSUME ItIInv, HoldersAreRight, NEW p \in Actor, NEW q \in Actor, NEW x \in Actor,
         ForThread(p, q, x), NEW r \in Actor
  PROVE  ~BlockedBy(q, r)
<1>1. /\ ItTypeOK /\ stack \in Stacks /\ ShapeOf(stack) /\ stack[p] # <<>>
  BY ShapeIs DEF ItIInv, ItTypeOK, Stacks, FrameSet, ForThread
<1>2. PICK k \in 1..Len(stack[q]) : stack[q][k].x = x /\ stack[q][k].at \in HaveMutex
  BY SMTT(40) DEF ForThread, HoldersAreRight, MutexIsHeld, Guards
<1>3. PICK w \in 1..Len(stack[p]) : w = Len(stack[p]) /\ stack[p][w] = Inner(p)
  <2>1. Len(stack[p]) \in Nat /\ Len(stack[p]) # 0
    BY <1>1, Typed
  <2>2. Len(stack[p]) \in 1..Len(stack[p])
    BY <2>1
  <2>. QED BY <2>2 DEF Inner
<1>4. Len(stack[q]) \in Nat
  BY <1>1, SeqDomain
<1>5. ASSUME k = Len(stack[q]), stack[q][k].at # "clone" PROVE ~BlockedBy(q, r)
  <2>1. Inner(q).at \in HaveMutex \ {"clone"}
    BY <1>2, <1>5 DEF Inner
  <2>. QED BY <2>1, WalkLabels DEF BlockedBy, HaveMutex, Takes
<1>6. CASE stack[q][k].at = "clone"
  <2>1. MadeBy(q, k, x)
    BY <1>2, <1>6 DEF ItIInv, CloneIsFresh
  <2>2. obj[p][x] = 0
    BY <2>1 DEF MadeBy
  <2>3. Target(p) = x /\ Inner(p).at # "clone"
    BY <2>2, WalkLabels DEF ForThread
  <2>4. p = q /\ w = k
    BY <1>3, <2>1, <2>3 DEF MadeBy, Target
  <2>. QED BY <1>3, <1>6, <2>3, <2>4
<1>7. CASE stack[q][k].at \in {"nonviable", "give"}
  <2>1. stack[q][k].at \notin {"code", "clear", "release", "free"}
    BY ONLY <1>7
  <2>2. k = Len(stack[q])
    BY ONLY <1>1, <2>1, Places, k \in 1..Len(stack[q]), q \in Actor
  <2>. QED BY <1>5, <1>7, <2>2
<1>8. CASE stack[q][k].at \in {"free", "release"} /\ k < Len(stack[q])
  <2>1. stack[q][k + 1].at = "clear" /\ stack[q][k + 1].x = x
    BY <1>1, <1>2, <1>8, Places
  <2>2. PICK l \in 1..Len(stack[q]) : l = k + 1 /\ stack[q][l].at = "clear" /\ stack[q][l].x = x
    BY <1>4, <1>8, <2>1
  <2>3. CASE l = Len(stack[q])
    <3>1. Inner(q).at = "clear"
      BY <2>2, <2>3 DEF Inner
    <3>. QED BY <3>1, WalkLabels DEF BlockedBy, Takes
  <2>4. CASE l < Len(stack[q])
    <3>1. Is(x, "NONVIABLE")
      BY <2>2, <2>4 DEF HoldersAreRight, ClearsAreLast
    <3>2. PICK d \in Actor : DoomedBy(d, x)
      BY <3>1 DEF ItIInv, DoomedIsAlone, Doomed
    <3>3. \A i \in Actor : obj[i][x] = 0
      BY <3>1 DEF ItIInv, DoomedIsAlone, Doomed
    <3>4. Target(p) = x
      BY <3>3 DEF ForThread
    <3>5. q = d /\ k = 2
      BY <1>2, <1>8, <3>2 DEF DoomedBy
    <3>6. p = d /\ w \in {2, 3}
      BY <1>3, <3>2, <3>4 DEF DoomedBy, Target
    <3>. QED BY <1>3, <2>2, <2>4, <3>5, <3>6
  <2>. QED BY <1>4, <2>2, <2>3, <2>4
<1>9. CASE stack[q][k].at \in {"free", "release"} /\ ~(k < Len(stack[q]))
  <2>1. k = Len(stack[q])
    BY <1>4, <1>9
  <2>. QED BY <1>5, <1>9, <2>1
<1>. QED BY <1>2, <1>6, <1>7, <1>8, <1>9 DEF HaveMutex

\* Whoever has the pool's mutex is at the frame that has it.
LEMMA PoolHolderWaits ==
  ASSUME ItIInv, HoldersAreRight, NEW p \in Actor, NEW q \in Actor, NEW r \in Actor,
         ForPool(p, q)
  PROVE  ~ForPool(q, r)
<1>1. ItTypeOK /\ stack \in Stacks /\ ShapeOf(stack)
  BY ShapeIs DEF ItIInv, ItTypeOK, Stacks, FrameSet
<1>2. PICK k \in 1..Len(stack[q]) : stack[q][k].at \in HavePool
  BY DEF ForPool, HoldersAreRight, PoolHasHolder, GuardsPool
<1>3. k = Len(stack[q])
  BY <1>1, <1>2, Places, WalkLabels, SMTT(40) DEF HavePool
<1>4. Inner(q).at \in HavePool
  BY <1>2, <1>3 DEF Inner
<1>. QED BY <1>4, WalkLabels DEF ForPool, HavePool

LEMMA NoCycle == ASSUME ItIInv, HoldersAreRight PROVE NoLockCycle
<1> SUFFICES ASSUME NEW S \in (SUBSET Actor) \ {{}}, \A p \in S : \E q \in S : BlockedBy(p, q)
             PROVE  FALSE
  BY DEF NoLockCycle
<1>0. S # {}
  OBVIOUS
<1>1. PICK p : p \in S
  BY ONLY <1>0
<1>2. PICK q \in S : BlockedBy(p, q)
  BY <1>1
<1>3. PICK r \in S : BlockedBy(q, r)
  BY <1>2
<1>4. PICK t \in S : BlockedBy(r, t)
  BY <1>3
<1>5. p \in Actor /\ q \in Actor /\ r \in Actor /\ t \in Actor
  BY <1>1
<1>6. ForPool(p, q)
  BY <1>2, <1>3, <1>5, WaysToWait, HolderRuns
<1>7. ~ForPool(q, r)
  BY <1>5, <1>6, PoolHolderWaits
<1>8. PICK x \in Actor : ForThread(q, r, x)
  BY <1>3, <1>5, <1>7, WaysToWait
<1>. QED BY <1>4, <1>5, <1>8, HolderRuns

(***************************************************************************)
(* NoLockCycle in every reachable state, for any number of threads, if     *)
(* threads end without objects in their interpreters (NoKeepers).  With    *)
(* such objects it is false: see the run ithreads_cycle.                   *)
(***************************************************************************)
THEOREM MutexesNeverCycle ==
  ASSUME QuietFailure, NoKeepers PROVE ItSpec => []NoLockCycle
<1>1. ItInit => ItIInv /\ HoldersAreRight
  BY InitInvariant, InitHolders
<1>2. ItIInv /\ HoldersAreRight /\ [ItNext]_itVars => (ItIInv /\ HoldersAreRight)'
  <2>1. ASSUME ItIInv, HoldersAreRight, ItNext PROVE ItIInv' /\ HoldersAreRight'
    <3>1. ItIInv'
      BY QuietFailure, <2>1, NextInvariant
    <3>2. HoldersAreRight'
      BY NoKeepers, <2>1, <3>1, NextHolders
    <3>. QED BY <3>1, <3>2
  <2>2. ASSUME ItIInv, HoldersAreRight, UNCHANGED itVars PROVE ItIInv' /\ HoldersAreRight'
    BY <2>2, SameInvariant, SameHolders
  <2>. QED BY <2>1, <2>2
<1>3. ItIInv /\ HoldersAreRight => NoLockCycle
  BY NoCycle
<1>. QED BY <1>1, <1>2, <1>3, PTL DEF ItSpec

=============================================================================
