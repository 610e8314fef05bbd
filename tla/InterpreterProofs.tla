-------------------------- MODULE InterpreterProofs --------------------------
(***************************************************************************)
(* Proofs about what one interpreter keeps: the weak references to an SV   *)
(* (WeakReferences), and the save stack and the context stack (SaveStack), *)
(* for any finite sets of references and variables.                        *)
(***************************************************************************)
EXTENDS WeakReferences, SaveStack, FiniteSetTheorems, FunctionTheorems, SequenceTheorems,
        WellFoundedInduction, TLAPS

(***************************************************************************)
(* Weak references.  What the list promises is said of its cells (Lists):  *)
(* those from one index to another hold each weak reference once.  It      *)
(* holds for the list of a living SV, and, for the cells it has still to   *)
(* visit, throughout the walk of sv_kill_backrefs, which is why that walk  *)
(* leaves nothing behind.                                                  *)
(***************************************************************************)
Lists(c, lo, hi, h) ==
  /\ \A i \in lo..hi : c[i] \in Ref /\ h[c[i]] = "weak"
  /\ \A i, j \in lo..hi : c[i] = c[j] => i = j
  /\ \A r \in Ref : h[r] = "weak" => \E i \in lo..hi : c[i] = r

\* The cells in use are those from Lo to Hi.
Lo == IF backrefs = "array" THEN first + 1 ELSE 1
Hi == IF backrefs = "array" THEN Cell(fill) ELSE IF backrefs = "one" THEN 1 ELSE 0

Strong == {r \in Ref : holds[r] = "strong"}

Living ==
  phase = "alive" => Lists(cells, Lo, Hi, holds) /\ refcnt = Cardinality(Strong)

Dying ==
  phase = "dying" =>
    /\ backrefs # "none" /\ Strong = {}
    /\ svp.at >= 1 /\ svp.at <= svp.last + 1 /\ svp.last <= Len(cells)
    /\ Lists(cells, svp.at, svp.last, holds)

IInv ==
  /\ WrTypeOK /\ svp \in [at : Int, last : Int]
  /\ Living /\ Dying /\ NoneDangles /\ NoPanic

\* What the steps that change the list leave of the typing.
ShapeOK ==
  /\ backrefs \in {"none", "one", "array"}
  /\ cells \in Seq(Ref \cup {NoRef}) /\ first \in Nat /\ fill \in Int
  /\ backrefs # "array" => Len(cells) = (IF backrefs = "one" THEN 1 ELSE 0)
  /\ backrefs = "array" => fill >= -1 /\ Cell(fill) <= Len(cells)
-----------------------------------------------------------------------------
BoundsOK ==
  Lo \in Nat /\ Hi \in Nat /\ Lo >= 1 /\ Lo <= Hi + 1 /\ Hi <= Len(cells)

LEMMA BoundsHere == ShapeOK => BoundsOK
  BY DEF ShapeOK, BoundsOK, Lo, Hi, Cell

LEMMA BoundsAfter == ShapeOK' => BoundsOK'
  BY BoundsHere, PTL

LEMMA Bounds ==
  ASSUME ShapeOK
  PROVE  /\ Lo \in Nat /\ Hi \in Nat /\ Lo >= 1 /\ Lo <= Hi + 1 /\ Hi <= Len(cells)
         /\ \A i \in Lo..Hi : i \in 1..Len(cells) /\ cells[i] \in Ref \cup {NoRef}
<1>1. Lo \in Nat /\ Hi \in Nat /\ Lo >= 1 /\ Lo <= Hi + 1 /\ Hi <= Len(cells)
  BY BoundsHere DEF BoundsOK
<1>. QED BY <1>1 DEF ShapeOK

\* Listed is the stretch of cells in use.
LEMMA ListedIsStretch ==
  ASSUME ShapeOK
  PROVE  /\ Listed \in Seq(Ref \cup {NoRef}) /\ Len(Listed) = Hi - Lo + 1
         /\ \A i \in 1..Len(Listed) : Listed[i] = cells[Lo + i - 1]
<1>1. CASE backrefs = "array"
  <2>1. Listed = SubSeq(cells, Lo, Hi) /\ Lo \in 1..(Len(cells) + 1) /\ Hi \in (Lo - 1)..Len(cells)
    BY <1>1, Bounds DEF Listed, Lo, Hi
  <2>. QED BY <2>1 DEF ShapeOK
<1>2. CASE backrefs = "one"
  BY <1>2 DEF ShapeOK, Listed, Lo, Hi
<1>3. CASE backrefs = "none"
  BY <1>3 DEF ShapeOK, Listed, Lo, Hi
<1>. QED BY <1>1, <1>2, <1>3 DEF ShapeOK

\* sv_add_backref: the new entry comes after those that are there.
LEMMA AddKeeps ==
  ASSUME ShapeOK, NEW r \in Ref, AddBackref(r), Lists(cells, Lo, Hi, holds),
         holds \in [Ref -> {"strong", "weak", "undef", "gone"}], holds[r] # "weak",
         holds' = [holds EXCEPT ![r] = "weak"]
  PROVE  ShapeOK' /\ Lists(cells', Lo', Hi', holds') /\ backrefs' # "none"
<1>. DEFINE n == Len(Listed)
<1>1. n \in Nat /\ Listed \in Seq(Ref \cup {NoRef}) /\ n = Hi - Lo + 1
  BY ListedIsStretch
<1>2. /\ cells' \in Seq(Ref \cup {NoRef}) /\ Len(cells') = n + 1
      /\ cells'[n + 1] = r /\ \A i \in 1..n : cells'[i] = Listed[i]
  BY <1>1 DEF AddBackref
<1>3. \A i \in 1..n : cells'[i] = cells[Lo + i - 1] /\ Lo + i - 1 \in Lo..Hi
  BY <1>1, <1>2, ListedIsStretch, Bounds
<1>4. backrefs' = "one" => n = 0
  BY <1>1 DEF AddBackref, Listed
<1>5. Lo' = 1 /\ Hi' = n + 1 /\ ShapeOK'
  <2>1. CASE backrefs' = "one"
    BY <1>2, <1>4, <2>1 DEF AddBackref, ShapeOK, Lo, Hi
  <2>2. CASE backrefs' = "array"
    <3>1. first' = 0 /\ fill' = n
      BY <1>1, <1>2, <2>2 DEF AddBackref
    <3>. QED BY <1>1, <1>2, <2>2, <3>1 DEF ShapeOK, Lo, Hi, Cell
  <2>. QED BY <2>1, <2>2 DEF AddBackref
<1>6. \A i \in Lo..Hi : i - Lo + 1 \in 1..n /\ cells'[i - Lo + 1] = cells[i]
  <2> SUFFICES ASSUME NEW i \in Lo..Hi
               PROVE  i - Lo + 1 \in 1..n /\ cells'[i - Lo + 1] = cells[i]
    OBVIOUS
  <2>1. i \in Int /\ Lo \in Nat /\ Hi \in Nat
    BY Bounds
  <2>2. i - Lo + 1 \in 1..n /\ Lo + (i - Lo + 1) - 1 = i
    BY <1>1, <2>1
  <2>. QED BY <1>3, <2>2
<1>7. \A x \in Ref : holds'[x] = "weak" <=> x = r \/ holds[x] = "weak"
  OBVIOUS
<1>8. \A i \in 1..n : cells'[i] \in Ref /\ holds[cells'[i]] = "weak" /\ cells'[i] # r
  BY <1>3 DEF Lists
<1>9. \A i, j \in 1..n : cells'[i] = cells'[j] => i = j
  <2> SUFFICES ASSUME NEW i \in 1..n, NEW j \in 1..n, cells'[i] = cells'[j] PROVE i = j
    OBVIOUS
  <2>1. Lo + i - 1 = Lo + j - 1
    BY <1>3 DEF Lists
  <2>. QED BY <2>1, Bounds
<1>10. \A i \in 1..(n + 1) : i = n + 1 \/ i \in 1..n
  BY <1>1
<1>11. \A i, j \in 1..(n + 1) : cells'[i] = cells'[j] => i = j
  BY <1>2, <1>8, <1>9, <1>10
<1>12. \A i \in 1..(n + 1) : cells'[i] \in Ref /\ holds'[cells'[i]] = "weak"
  BY <1>2, <1>7, <1>8, <1>10
<1>13. \A x \in Ref : holds'[x] = "weak" => \E i \in 1..(n + 1) : cells'[i] = x
  <2> SUFFICES ASSUME NEW x \in Ref, holds'[x] = "weak" PROVE \E i \in 1..(n + 1) : cells'[i] = x
    OBVIOUS
  <2>1. CASE x = r
    BY <1>1, <1>2, <2>1
  <2>2. CASE x # r
    <3>1. PICK i \in Lo..Hi : cells[i] = x
      BY <1>7, <2>2 DEF Lists
    <3>2. i - Lo + 1 \in 1..(n + 1) /\ cells'[i - Lo + 1] = x
      BY <1>1, <1>6, <3>1
    <3>. QED BY <3>2
  <2>. QED BY <2>1, <2>2
<1>. QED BY <1>5, <1>11, <1>12, <1>13 DEF Lists, AddBackref

\* sv_del_backref: the entry is there, and whichever way it goes the others
\* stay.
LEMMA DeleteKeeps ==
  ASSUME ShapeOK, NEW r \in Ref, DelBackref(r), Lists(cells, Lo, Hi, holds),
         holds \in [Ref -> {"strong", "weak", "undef", "gone"}], holds[r] = "weak",
         NEW to \in {"strong", "undef", "gone"}, holds' = [holds EXCEPT ![r] = to]
  PROVE  ShapeOK' /\ Lists(cells', Lo', Hi', holds')
<1>1. \A x \in Ref : holds'[x] = "weak" <=> x # r /\ holds[x] = "weak"
  OBVIOUS
<1>2. PICK at \in Lo..Hi : cells[at] = r
  BY DEF Lists
<1>3. \A i \in Lo..Hi : cells[i] = r <=> i = at
  BY <1>2 DEF Lists
<1>4. Lo \in Nat /\ Hi \in Nat /\ Lo >= 1 /\ at \in Nat /\ Lo <= at /\ at <= Hi /\ Hi <= Len(cells)
  BY <1>2, Bounds
<1>5. CASE backrefs = "one"
  <2>1. backrefs' = "none" /\ cells' = <<>> /\ UNCHANGED <<first, fill>>
    BY <1>5 DEF DelBackref
  <2>2. Lo = 1 /\ Hi = 1 /\ Lo' = 1 /\ Hi' = 0
    BY <1>5, <2>1 DEF Lo, Hi
  <2>3. \A x \in Ref : holds'[x] # "weak"
    BY <1>1, <1>2, <2>2 DEF Lists
  <2>. QED BY <2>1, <2>2, <2>3 DEF ShapeOK, Lists
<1>6. CASE backrefs = "array"
  <2>1. /\ Lo = first + 1 /\ Hi = first + fill + 1 /\ Cell(0) = Lo /\ Cell(fill) = Hi
        /\ backrefs' = "array" /\ fill' = fill - 1 /\ first \in Nat /\ fill \in Nat
    BY <1>4, <1>6 DEF DelBackref, ShapeOK, Lo, Hi, Cell
  <2>2. CASE cells[Lo] = r
    <3>1. first' = first + 1 /\ UNCHANGED cells /\ at = Lo
      BY <1>3, <1>4, <1>6, <2>1, <2>2 DEF DelBackref
    <3>2. Lo' = Lo + 1 /\ Hi' = Hi
      BY <2>1, <3>1 DEF Lo, Hi, Cell
    <3>3. ShapeOK'
      BY <2>1, <3>1, <1>4 DEF ShapeOK, Cell
    <3>4. \A i : i \in Lo'..Hi' <=> i \in Lo..Hi /\ i # at
      BY <1>4, <3>1, <3>2
    <3>. QED BY <1>1, <1>3, <3>1, <3>3, <3>4 DEF Lists
  <2>3. CASE cells[Lo] # r /\ cells[Hi] = r
    <3>1. UNCHANGED <<first, cells>> /\ at = Hi
      BY <1>3, <1>4, <1>6, <2>1, <2>3 DEF DelBackref
    <3>2. Lo' = Lo /\ Hi' = Hi - 1 /\ ShapeOK'
      BY <2>1, <3>1 DEF ShapeOK, Lo, Hi, Cell
    <3>3. \A i : i \in Lo'..Hi' <=> i \in Lo..Hi /\ i # at
      BY <1>4, <3>1, <3>2
    <3>. QED BY <1>1, <1>3, <3>1, <3>2, <3>3 DEF Lists
  <2>4. CASE cells[Lo] # r /\ cells[Hi] # r
    <3>1. /\ UNCHANGED first
          /\ cells' = [i \in DOMAIN cells |->
                        IF i > Lo /\ i < Hi /\ cells[i] = r THEN cells[Hi] ELSE cells[i]]
      BY <1>6, <2>1, <2>4 DEF DelBackref
    <3>2. at > Lo /\ at < Hi
      BY <1>2, <1>4, <2>4
    <3>3. DOMAIN cells = 1..Len(cells) /\ cells \in [1..Len(cells) -> Ref \cup {NoRef}]
      BY DEF ShapeOK
    <3>4. cells' \in [1..Len(cells) -> Ref \cup {NoRef}] /\ Len(cells) \in Nat
      BY <1>4, <3>1, <3>3 DEF ShapeOK
    <3>5. cells' \in Seq(Ref \cup {NoRef}) /\ Len(cells') = Len(cells)
      BY <3>4
    <3>6. Lo' = Lo /\ Hi' = Hi - 1 /\ ShapeOK'
      BY <2>1, <3>1, <3>5 DEF ShapeOK, Lo, Hi, Cell
    <3>7. \A i \in Lo..Hi : cells'[i] = IF i = at THEN cells[Hi] ELSE cells[i]
      BY <1>3, <1>4, <3>1, <3>2, <3>3
    <3>8. \A i : i \in Lo'..Hi' <=> i \in Lo..Hi /\ i # Hi
      BY <1>4, <3>6
    <3>9. Hi \in Lo..Hi /\ at # Hi
      BY <1>4, <3>2
    <3>10. \A i \in Lo'..Hi' : cells'[i] \in Ref /\ holds'[cells'[i]] = "weak"
      BY <1>1, <1>3, <3>7, <3>8, <3>9 DEF Lists
    <3>11. \A i, j \in Lo'..Hi' : cells'[i] = cells'[j] => i = j
      BY <3>7, <3>8, <3>9 DEF Lists
    <3>12. \A x \in Ref : holds'[x] = "weak" => \E i \in Lo'..Hi' : cells'[i] = x
      <4> SUFFICES ASSUME NEW x \in Ref, holds'[x] = "weak" PROVE \E i \in Lo'..Hi' : cells'[i] = x
        OBVIOUS
      <4>1. PICK i \in Lo..Hi : cells[i] = x
        BY <1>1 DEF Lists
      <4>2. i # at
        BY <1>1, <1>3, <4>1
      <4>3. CASE i = Hi
        BY <1>2, <3>7, <3>8, <3>9, <4>1, <4>3
      <4>4. CASE i # Hi
        BY <3>7, <3>8, <4>1, <4>2, <4>4
      <4>. QED BY <4>3, <4>4
    <3>. QED BY <3>6, <3>10, <3>11, <3>12 DEF Lists
  <2>. QED BY <2>2, <2>3, <2>4
<1>7. backrefs # "none"
  BY <1>4 DEF Lo, Hi
<1>. QED BY <1>5, <1>6, <1>7 DEF ShapeOK
-----------------------------------------------------------------------------
LEMMA StrongFinite == IsFiniteSet(Strong)
  BY WrAssumption, FS_Subset DEF Strong

LEMMA CountBound ==
  ASSUME NEW S \in SUBSET Ref PROVE Cardinality(S) \in 0..Cardinality(Ref)
  BY WrAssumption, FS_Subset, FS_CardinalityType

\* SvREFCNT_dec, when r has just ceased to be a reference that counts.
LEMMA DecKeeps ==
  ASSUME IInv, phase = "alive", NEW r \in Ref, holds[r] = "strong",
         NEW to \in {"weak", "undef", "gone"}, holds' = [holds EXCEPT ![r] = to],
         ShapeOK', Lists(cells', Lo', Hi', holds'), Dec
  PROVE  IInv'
<1>1. holds \in [Ref -> {"strong", "weak", "undef", "gone"}] /\ refcnt = Cardinality(Strong)
  BY DEF IInv, WrTypeOK, Living
<1>2. holds' \in [Ref -> {"strong", "weak", "undef", "gone"}]
  BY <1>1
<1>3. Strong' = Strong \ {r} /\ r \in Strong
  BY <1>1 DEF Strong
<1>4. refcnt' = Cardinality(Strong') /\ refcnt \in Nat
  <2>1. Cardinality(Strong \ {r}) = Cardinality(Strong) - 1
    BY <1>3, StrongFinite, FS_RemoveElement
  <2>2. Cardinality(Strong) \in Nat
    BY StrongFinite, FS_CardinalityType
  <2>. QED BY <1>1, <1>3, <2>1, <2>2 DEF Dec
<1>5. refcnt' \in 0..Cardinality(Ref)
  <2>1. Strong' \subseteq Ref
    BY DEF Strong
  <2>. QED BY <1>4, <2>1, CountBound
<1>6. refcnt <= 1 => Strong' = {}
  <2>1. refcnt <= 1 => refcnt' <= 0
    BY <1>4 DEF Dec
  <2>2. IsFiniteSet(Strong')
    BY <1>3, StrongFinite, FS_RemoveElement
  <2>. QED BY <1>4, <1>5, <2>1, <2>2, FS_EmptySet
<1>7. CASE refcnt > 1
  <2>1. phase' = "alive" /\ svp' = svp
    BY <1>7 DEF Dec
  <2>. QED BY <1>2, <1>4, <1>5, <2>1
           DEF IInv, WrTypeOK, ShapeOK, Living, Dying, NoneDangles, NoPanic, Cell
<1>8. CASE refcnt <= 1 /\ backrefs' = "none"
  <2>1. phase' = "freed" /\ svp' = svp
    BY <1>4, <1>8 DEF Dec
  <2>2. \A x \in Ref : holds'[x] # "weak"
    <3>1. Hi' = 0 /\ Lo' = 1
      BY <1>8 DEF Lo, Hi
    <3>. QED BY <3>1 DEF Lists
  <2>3. \A x \in Ref : holds'[x] # "strong"
    BY <1>6, <1>8 DEF Strong
  <2>4. NoneDangles'
    BY <1>2, <2>2, <2>3 DEF NoneDangles
  <2>. QED BY <1>2, <1>5, <2>1, <2>4
           DEF IInv, WrTypeOK, ShapeOK, Living, Dying, NoPanic, Cell
<1>9. CASE refcnt <= 1 /\ backrefs' # "none"
  <2>1. phase' = "dying" /\ svp' = [at |-> Lo', last |-> Hi']
    BY <1>4, <1>9 DEF Dec, Lo, Hi, Cell, ShapeOK
  <2>2. /\ Lo' \in Nat /\ Hi' \in Nat /\ Lo' >= 1 /\ Lo' <= Hi' + 1 /\ Hi' <= Len(cells')
    BY BoundsAfter DEF BoundsOK
  <2>3. svp' \in [at : Int, last : Int] /\ svp'.at = Lo' /\ svp'.last = Hi'
    BY <2>1, <2>2
  <2>4. Dying'
    BY <1>6, <1>9, <2>2, <2>3 DEF Dying
  <2>5. WrTypeOK'
    BY <1>2, <1>5, <2>1 DEF WrTypeOK, ShapeOK, Cell
  <2>. QED BY <2>1, <2>3, <2>4, <2>5 DEF IInv, Living, NoneDangles, NoPanic
<1>. QED BY <1>4, <1>7, <1>8, <1>9

LEMMA ShapeHolds == ASSUME IInv PROVE ShapeOK
  BY DEF IInv, WrTypeOK, ShapeOK, Cell

\* A reference that comes to count again, or one more.
LEMMA IncKeeps ==
  ASSUME IInv, phase = "alive", NEW r \in Ref, holds[r] # "strong",
         holds' = [holds EXCEPT ![r] = "strong"], refcnt' = refcnt + 1,
         ShapeOK', Lists(cells', Lo', Hi', holds'), UNCHANGED <<phase, svp>>
  PROVE  IInv'
<1>1. holds \in [Ref -> {"strong", "weak", "undef", "gone"}] /\ refcnt = Cardinality(Strong)
  BY DEF IInv, WrTypeOK, Living
<1>2. holds' \in [Ref -> {"strong", "weak", "undef", "gone"}]
  BY <1>1
<1>3. Strong' = Strong \cup {r} /\ r \notin Strong
  BY <1>1 DEF Strong
<1>4. refcnt' = Cardinality(Strong')
  BY <1>1, <1>3, StrongFinite, FS_AddElement
<1>5. refcnt' \in 0..Cardinality(Ref)
  <2>1. Strong' \subseteq Ref
    BY DEF Strong
  <2>. QED BY <1>4, <2>1, CountBound
<1>. QED BY <1>2, <1>4, <1>5
         DEF IInv, WrTypeOK, ShapeOK, Living, Dying, NoneDangles, NoPanic, Cell

\* A reference that did not count goes.
LEMMA DropKeeps ==
  ASSUME IInv, phase = "alive", NEW r \in Ref, holds[r] # "strong",
         NEW to \in {"undef", "gone"}, holds' = [holds EXCEPT ![r] = to],
         ShapeOK', Lists(cells', Lo', Hi', holds'), UNCHANGED <<refcnt, phase, svp>>
  PROVE  IInv'
<1>1. holds' \in [Ref -> {"strong", "weak", "undef", "gone"}]
  BY DEF IInv, WrTypeOK
<1>2. Strong' = Strong
  BY <1>1 DEF Strong, IInv, WrTypeOK
<1>. QED BY <1>1, <1>2
         DEF IInv, WrTypeOK, ShapeOK, Living, Dying, NoneDangles, NoPanic, Cell

\* The list is left alone and so are the weak references.
LEMMA ListKept ==
  ASSUME IInv, phase = "alive", UNCHANGED <<backrefs, cells, first, fill>>,
         NEW r \in Ref, holds[r] # "weak",
         NEW to \in {"strong", "undef", "gone"}, holds' = [holds EXCEPT ![r] = to]
  PROVE  ShapeOK' /\ Lists(cells', Lo', Hi', holds')
<1>1. Lo' = Lo /\ Hi' = Hi /\ ShapeOK'
  BY ShapeHolds DEF Lo, Hi, ShapeOK, Cell
<1>2. \A x \in Ref : holds'[x] = "weak" <=> holds[x] = "weak"
  BY DEF IInv, WrTypeOK
<1>3. Lists(cells, Lo, Hi, holds)
  BY DEF IInv, Living
<1>. QED BY <1>1, <1>2, <1>3 DEF Lists
-----------------------------------------------------------------------------
LEMMA InitIInv == WrInit => IInv
<1> SUFFICES ASSUME WrInit PROVE IInv
  OBVIOUS
<1>1. Strong = Ref /\ Cardinality(Ref) \in Nat
  BY WrAssumption, FS_CardinalityType DEF WrInit, Strong
<1>2. Lo = 1 /\ Hi = 0
  BY DEF WrInit, Lo, Hi
<1>3. Lists(cells, 1, 0, holds)
  BY DEF WrInit, Lists
<1>4. WrTypeOK /\ svp \in [at : Int, last : Int]
  BY <1>1 DEF WrInit, WrTypeOK
<1>. QED BY <1>1, <1>2, <1>3, <1>4 DEF WrInit, IInv, Living, Dying, NoneDangles, NoPanic

LEMMA WeakenKeeps == ASSUME IInv, NEW r \in Ref, Weaken(r) PROVE IInv'
<1>1. ShapeOK' /\ Lists(cells', Lo', Hi', holds')
  BY ShapeHolds, AddKeeps DEF Weaken, IInv, WrTypeOK, Living
<1>. QED BY <1>1, DecKeeps DEF Weaken

LEMMA UnweakenKeeps == ASSUME IInv, NEW r \in Ref, Unweaken(r) PROVE IInv'
<1>1. ShapeOK' /\ Lists(cells', Lo', Hi', holds')
  BY ShapeHolds, DeleteKeeps DEF Unweaken, IInv, WrTypeOK, Living
<1>. QED BY <1>1, IncKeeps DEF Unweaken

LEMMA AssignKeeps == ASSUME IInv, NEW r \in Ref, NEW other \in Ref, Assign(r, other) PROVE IInv'
<1>1. ShapeOK' /\ Lists(cells', Lo', Hi', holds')
  BY ListKept DEF Assign
<1>. QED BY <1>1, IncKeeps DEF Assign

LEMMA ClearRefKeeps ==
  ASSUME IInv, NEW r \in Ref, NEW to \in {"undef", "gone"}, ClearRef(r, to) PROVE IInv'
<1>1. CASE holds[r] = "strong"
  <2>1. UNCHANGED <<backrefs, cells, first, fill>> /\ Dec
    BY <1>1 DEF ClearRef
  <2>2. ShapeOK' /\ Lists(cells', Lo', Hi', holds')
    BY <1>1, <2>1, ListKept DEF ClearRef
  <2>. QED BY <1>1, <2>1, <2>2, DecKeeps DEF ClearRef
<1>2. CASE holds[r] = "weak"
  <2>1. DelBackref(r) /\ UNCHANGED <<refcnt, phase, svp>>
    BY <1>2 DEF ClearRef
  <2>2. ShapeOK' /\ Lists(cells', Lo', Hi', holds')
    BY <1>2, <2>1, ShapeHolds, DeleteKeeps DEF ClearRef, IInv, WrTypeOK, Living
  <2>. QED BY <1>2, <2>1, <2>2, DropKeeps DEF ClearRef
<1>3. CASE holds[r] = "undef"
  <2>1. UNCHANGED <<refcnt, backrefs, cells, first, fill, phase, svp>>
    BY <1>3 DEF ClearRef
  <2>2. ShapeOK' /\ Lists(cells', Lo', Hi', holds')
    BY <1>3, <2>1, ListKept DEF ClearRef
  <2>. QED BY <1>3, <2>1, <2>2, DropKeeps DEF ClearRef
<1>. QED BY <1>1, <1>2, <1>3 DEF ClearRef

\* The walk: of the cells still to visit one is gone, and so is its reference.
LEMMA KillKeeps == ASSUME IInv, KillBackref PROVE IInv'
<1>. DEFINE r == cells[svp.at]
<1>1. /\ phase = "dying" /\ svp.at \in Int /\ svp.last \in Int /\ svp.at >= 1
      /\ svp.at <= svp.last /\ svp.last <= Len(cells) /\ backrefs # "none" /\ Strong = {}
      /\ Lists(cells, svp.at, svp.last, holds)
  BY DEF KillBackref, IInv, Dying
<1>2. svp.at \in svp.at..svp.last /\ svp.at \in 1..Len(cells)
  BY <1>1 DEF IInv, WrTypeOK
<1>3. r \in Ref /\ holds[r] = "weak" /\ r # NoRef
  BY <1>1, <1>2, WrAssumption DEF Lists
<1>4. /\ holds' = [holds EXCEPT ![r] = "undef"] /\ phase' = "dying"
      /\ svp' = [svp EXCEPT !.at = svp.at + 1]
      /\ cells' = IF backrefs = "array" THEN [cells EXCEPT ![svp.at] = NoRef] ELSE cells
  BY <1>1, <1>3 DEF KillBackref
<1>5. /\ cells' \in Seq(Ref \cup {NoRef}) /\ Len(cells') = Len(cells)
      /\ \A i \in 1..Len(cells) : i # svp.at => cells'[i] = cells[i]
  <2>1. cells \in [1..Len(cells) -> Ref \cup {NoRef}] /\ Len(cells) \in Nat
    BY DEF IInv, WrTypeOK
  <2>2. /\ cells' \in [1..Len(cells) -> Ref \cup {NoRef}]
        /\ \A i \in 1..Len(cells) : i # svp.at => cells'[i] = cells[i]
    BY <1>2, <1>4, <2>1
  <2>. QED BY <2>1, <2>2
<1>6. svp' \in [at : Int, last : Int] /\ svp'.at = svp.at + 1 /\ svp'.last = svp.last
  BY <1>1, <1>4 DEF IInv
<1>7. \A x \in Ref : holds'[x] = IF x = r THEN "undef" ELSE holds[x]
  BY <1>4 DEF IInv, WrTypeOK
<1>8. Lists(cells', svp'.at, svp'.last, holds')
  <2>1. \A i : i \in (svp.at + 1)..svp.last <=> i \in svp.at..svp.last /\ i # svp.at
    BY <1>1
  <2>2. \A i \in (svp.at + 1)..svp.last : i \in 1..Len(cells) /\ i # svp.at
    BY <1>1 DEF IInv, WrTypeOK
  <2>3. \A i \in (svp.at + 1)..svp.last : cells'[i] = cells[i] /\ cells[i] # r
    BY <1>1, <1>2, <1>5, <2>1, <2>2 DEF Lists
  <2>4. \A i \in (svp.at + 1)..svp.last : cells'[i] \in Ref /\ holds'[cells'[i]] = "weak"
    BY <1>1, <1>7, <2>1, <2>3 DEF Lists
  <2>5. \A i, j \in (svp.at + 1)..svp.last : cells'[i] = cells'[j] => i = j
    BY <1>1, <2>1, <2>3 DEF Lists
  <2>6. \A x \in Ref : holds'[x] = "weak" => \E i \in (svp.at + 1)..svp.last : cells'[i] = x
    BY <1>1, <1>7, <2>1, <2>3 DEF Lists
  <2>. QED BY <1>6, <2>4, <2>5, <2>6 DEF Lists
<1>9. Strong' = {}
  BY <1>1, <1>7 DEF Strong
<1>10. Dying'
  BY <1>1, <1>5, <1>6, <1>8, <1>9 DEF Dying, KillBackref
<1>11. WrTypeOK'
  BY <1>4, <1>5, <1>7 DEF IInv, WrTypeOK, KillBackref, Cell
<1>. QED BY <1>4, <1>6, <1>10, <1>11 DEF IInv, Living, NoneDangles, NoPanic

LEMMA KillEndKeeps == ASSUME IInv, KillEnd PROVE IInv'
<1>1. \A x \in Ref : holds[x] # "weak" /\ holds[x] # "strong"
  BY DEF IInv, Dying, KillEnd, Lists, Strong
<1>2. NoneDangles'
  BY <1>1 DEF IInv, WrTypeOK, KillEnd, NoneDangles
<1>3. WrTypeOK'
  <2>1. backrefs = "array" => Cell(-1) <= Len(cells)
    BY DEF IInv, WrTypeOK, Cell
  <2>. QED BY <2>1 DEF IInv, WrTypeOK, KillEnd, Cell
<1>. QED BY <1>2, <1>3 DEF IInv, KillEnd, Living, Dying, NoPanic

LEMMA NextIInv == IInv /\ [WrNext]_wrVars => IInv'
<1> SUFFICES ASSUME IInv, [WrNext]_wrVars PROVE IInv'
  OBVIOUS
<1>1. CASE UNCHANGED wrVars
  BY <1>1 DEF wrVars, IInv, WrTypeOK, Living, Dying, NoneDangles, NoPanic, Lo, Hi, Cell, Strong
<1>2. CASE WrNext
  BY <1>2, KillKeeps, KillEndKeeps, WeakenKeeps, UnweakenKeeps, AssignKeeps, ClearRefKeeps
     DEF WrNext
<1>. QED BY <1>1, <1>2

\* A list that holds each weak reference once has as many entries as there are.
LEMMA ListedCounts == ASSUME IInv PROVE ListedOnce
<1> SUFFICES ASSUME phase = "alive"
             PROVE  /\ Weak = {Listed[i] : i \in DOMAIN Listed}
                    /\ Cardinality(Weak) = Len(Listed)
                    /\ refcnt = Cardinality({r \in Ref : holds[r] = "strong"})
  BY DEF ListedOnce
<1>1. Lists(cells, Lo, Hi, holds) /\ refcnt = Cardinality(Strong)
  BY DEF IInv, Living
<1>2. /\ Listed \in Seq(Ref \cup {NoRef}) /\ Len(Listed) = Hi - Lo + 1
      /\ \A i \in 1..Len(Listed) : Listed[i] = cells[Lo + i - 1]
  BY ShapeHolds, ListedIsStretch
<1>3. Lo \in Nat /\ Hi \in Nat
  BY ShapeHolds, Bounds
<1>. DEFINE n == Len(Listed)
<1>4. n \in Nat /\ DOMAIN Listed = 1..n
  BY <1>2
<1>5. \A i \in 1..n : Lo + i - 1 \in Lo..Hi
  BY <1>2, <1>3, <1>4
<1>6. \A i \in 1..n : Listed[i] \in Weak
  BY <1>1, <1>2, <1>5 DEF Lists, Weak
<1>7. \A i, j \in 1..n : Listed[i] = Listed[j] => i = j
  <2> SUFFICES ASSUME NEW i \in 1..n, NEW j \in 1..n, Listed[i] = Listed[j] PROVE i = j
    OBVIOUS
  <2>1. Lo + i - 1 = Lo + j - 1
    BY <1>1, <1>2, <1>5 DEF Lists
  <2>. QED BY <1>3, <2>1
<1>8. \A x \in Weak : \E i \in 1..n : Listed[i] = x
  <2> SUFFICES ASSUME NEW x \in Weak PROVE \E i \in 1..n : Listed[i] = x
    OBVIOUS
  <2>1. PICK k \in Lo..Hi : cells[k] = x
    BY <1>1 DEF Lists, Weak
  <2>2. k - Lo + 1 \in 1..n /\ Lo + (k - Lo + 1) - 1 = k
    BY <1>2, <1>3, <1>4
  <2>. QED BY <1>2, <2>1, <2>2
<1>9. Listed \in Bijection(1..n, Weak)
  <2>1. Listed \in [1..n -> Weak]
    BY <1>2, <1>4, <1>6
  <2>. QED BY <1>7, <1>8, <2>1 DEF Bijection, Injection, Surjection, IsInjective
<1>10. Cardinality(Weak) = n
  BY <1>4, <1>9, FS_CountingElements DEF ExistsBijection
<1>11. Weak = {Listed[i] : i \in DOMAIN Listed}
  BY <1>4, <1>6, <1>8
<1>. QED BY <1>1, <1>10, <1>11 DEF Strong

LEMMA Invariance == WrSpec => []IInv
  BY InitIInv, NextIInv, PTL DEF WrSpec

\* The variables have their types in every state: the list stays within its
\* memory, and the count within the number of references.
THEOREM TypeCorrect == WrSpec => []WrTypeOK
  BY Invariance, PTL DEF IInv

\* Whatever references are weakened, strengthened and dropped, in whichever
\* order, the list of back-references holds each weak one once, and when the
\* SV is freed none is left.
THEOREM BackrefsStayRight == WrSpec => []BackrefsAreRight
<1>1. IInv => BackrefsAreRight
  BY ListedCounts DEF IInv, BackrefsAreRight
<1>. QED BY <1>1, Invariance, PTL

-----------------------------------------------------------------------------
(***************************************************************************)
(* The save stack and the context stack.  The invariant (SsIInv) relates   *)
(* the two with the C stack (Stacks): contexts lie in the order in which   *)
(* frames entered them, a callback owns those above the line where it was  *)
(* called, unless an unwinding above will drop it (Doomed), and each       *)
(* leave_scope is about the context that is innermost to it.  Then what is *)
(* popped is above every other open context, and so (Restores) of each     *)
(* variable the oldest value saved above a context's base, or the present  *)
(* one, stays the one that the context began with.                         *)
(*                                                                         *)
(* Lemmas about a step are about sequences as such, with the new ones as   *)
(* parameters (Grown, Cut).                                                *)
(***************************************************************************)
\* sc is a context stack and fr a C stack, on a save stack of n entries.
Numbered(sc, fr) ==
  /\ Len(sc) \in Nat /\ Len(fr) \in Nat
  /\ \A i \in 1..Len(sc) : sc[i].base \in Nat /\ sc[i].depth \in Nat
  /\ \A k \in 1..Len(fr) :
       IF fr[k].op = "leave" THEN fr[k].base \in Nat /\ fr[k].catch \in Nat
       ELSE fr[k].outside \in Nat

\* Contexts lie in the order in which they were entered, by code, on what they
\* found; the first is the program's own.
InOrder(sc, fr, n) ==
  /\ Len(sc) >= 1 /\ sc[1].kind = "block"
  /\ \A i \in 1..Len(sc) :
       /\ sc[i].base <= n /\ sc[i].depth <= Len(fr)
       /\ sc[i].depth > 0 => fr[sc[i].depth].op # "leave"
  /\ \A i, j \in 1..Len(sc) : i < j => sc[i].base <= sc[j].base /\ sc[i].depth <= sc[j].depth

\* Frame j unwinds, as far as an eval that was entered below it; frame k will be
\* dropped when an unwinding above it is over.
Unwinding(fr, j) == fr[j].op = "leave" /\ fr[j].catch # 0
Doomed(sc, fr, k) ==
  \E j \in 1..Len(fr) : j > k /\ Unwinding(fr, j) /\ sc[fr[j].catch].depth < k

\* An eval that is unwound to is there until then, and a later one that could have
\* been taken was entered by frames above.
Deaths(sc, fr) ==
  \A j \in 1..Len(fr) : Unwinding(fr, j) =>
    /\ fr[j].catch \in 2..Len(sc) /\ sc[fr[j].catch].kind = "eval"
    /\ sc[fr[j].catch].depth < j
    /\ \A i \in 1..Len(sc) : i > fr[j].catch /\ sc[i].kind = "eval" => sc[i].depth > j

\* leave_scope, frame j, leaves context n.
LeavesIt(sc, fr, j, n) ==
  /\ fr[j].base = sc[n].base
  /\ fr[j].catch = 0 => n >= 2 /\ sc[n].depth = j - 1

\* The contexts above the line of a callback are those that it entered, and the
\* one at the line is the one that is being left, if it was called for that.
CallsIt(sc, fr, k) ==
  /\ fr[k].outside \in 1..Len(sc)
  /\ \A i \in 1..Len(sc) : i > fr[k].outside <=> sc[i].depth >= k
  /\ k > 1 /\ fr[k - 1].op = "leave" => LeavesIt(sc, fr, k - 1, fr[k].outside)

Calls(sc, fr) ==
  \A k \in 1..Len(fr) : fr[k].op # "leave" /\ ~Doomed(sc, fr, k) => CallsIt(sc, fr, k)

TopLeaves(sc, fr) ==
  Len(fr) > 0 /\ fr[Len(fr)].op = "leave" => LeavesIt(sc, fr, Len(fr), Len(sc))

Stacks(sc, fr, n) ==
  Numbered(sc, fr) /\ InOrder(sc, fr, n) /\ Deaths(sc, fr) /\ Calls(sc, fr) /\ TopLeaves(sc, fr)

\* d is s with one more on top, or its first m.
Grown(d, s) == Len(d) = Len(s) + 1 /\ \A i \in 1..Len(s) : d[i] = s[i]
Cut(d, s, m) == Len(d) = m /\ m \in 0..Len(s) /\ \A i \in 1..m : d[i] = s[i]

Coded(fr) == Len(fr) = 0 \/ fr[Len(fr)].op # "leave"

\* A context is entered.
LEMMA EnterKeeps ==
  ASSUME NEW sc, NEW fr, NEW n \in Nat, NEW d, Stacks(sc, fr, n), Grown(d, sc), Coded(fr),
         d[Len(d)].base = n, d[Len(d)].depth = Len(fr)
  PROVE  Stacks(d, fr, n)
<1>1. /\ Len(sc) \in Nat /\ Len(sc) >= 1 /\ Len(fr) \in Nat /\ Len(d) = Len(sc) + 1
      /\ \A i \in 1..Len(sc) : d[i] = sc[i] /\ sc[i].base \in Nat /\ sc[i].depth \in Nat
  BY DEF Stacks, Numbered, InOrder, Grown
<1>2. Numbered(d, fr)
  <2>1. \A i \in 1..Len(d) : i \in 1..Len(sc) \/ i = Len(d)
    BY <1>1
  <2>. QED BY <1>1, <2>1 DEF Stacks, Numbered
<1>3. InOrder(d, fr, n)
  <2>1. \A i \in 1..Len(d) : i \in 1..Len(sc) \/ i = Len(d)
    BY <1>1
  <2>2. InOrder(sc, fr, n)
    BY DEF Stacks
  <2>3. Len(d) >= 1 /\ d[1].kind = "block"
    BY <1>1, <2>2 DEF InOrder
  <2>4. \A i \in 1..Len(d) : /\ d[i].base <= n /\ d[i].depth <= Len(fr)
                             /\ d[i].depth > 0 => fr[d[i].depth].op # "leave"
    BY <1>1, <2>1, <2>2 DEF InOrder, Coded
  <2>5. \A i, j \in 1..Len(d) : i < j => d[i].base <= d[j].base /\ d[i].depth <= d[j].depth
    <3>. SUFFICES ASSUME NEW i \in 1..Len(d), NEW j \in 1..Len(d), i < j
                  PROVE  d[i].base <= d[j].base /\ d[i].depth <= d[j].depth
      OBVIOUS
    <3>1. CASE j = Len(d)
      BY <2>4, <3>1
    <3>2. CASE j # Len(d)
      <4>1. i \in 1..Len(sc) /\ j \in 1..Len(sc)
        BY <1>1, <3>2
      <4>2. d[i] = sc[i] /\ d[j] = sc[j]
        BY <1>1, <4>1
      <4>. QED BY <2>2, <4>1, <4>2 DEF InOrder
    <3>. QED BY <3>1, <3>2
  <2>. QED BY <2>3, <2>4, <2>5 DEF InOrder
<1>4. ASSUME NEW j \in 1..Len(fr), Unwinding(fr, j)
      PROVE  fr[j].catch \in 2..Len(sc) /\ fr[j].catch \in 1..Len(sc) /\ j < Len(fr)
  BY <1>1, <1>4 DEF Stacks, Deaths, Unwinding, Coded
<1>5. Deaths(d, fr)
  <2>. SUFFICES ASSUME NEW j \in 1..Len(fr), Unwinding(fr, j)
                PROVE  /\ fr[j].catch \in 2..Len(d) /\ d[fr[j].catch].kind = "eval"
                       /\ d[fr[j].catch].depth < j
                       /\ \A i \in 1..Len(d) : i > fr[j].catch /\ d[i].kind = "eval" => d[i].depth > j
    BY DEF Deaths
  <2>1. /\ sc[fr[j].catch].kind = "eval" /\ sc[fr[j].catch].depth < j
        /\ \A i \in 1..Len(sc) : i > fr[j].catch /\ sc[i].kind = "eval" => sc[i].depth > j
    BY DEF Stacks, Deaths
  <2>2. fr[j].catch \in 2..Len(sc) /\ fr[j].catch \in 1..Len(sc) /\ j < Len(fr)
    BY <1>4
  <2>3. \A i \in 1..Len(d) : i \in 1..Len(sc) \/ i = Len(d)
    BY <1>1
  <2>4. ASSUME NEW i \in 1..Len(d), i > fr[j].catch, d[i].kind = "eval" PROVE d[i].depth > j
    <3>1. CASE i \in 1..Len(sc)
      BY <1>1, <2>1, <2>4, <3>1
    <3>2. CASE i = Len(d)
      BY <1>1, <2>2, <3>2
    <3>. QED BY <2>3, <3>1, <3>2
  <2>5. fr[j].catch \in 2..Len(d) /\ d[fr[j].catch] = sc[fr[j].catch]
    BY <1>1, <2>2
  <2>. QED BY <2>1, <2>4, <2>5
<1>6. ASSUME NEW k \in 1..Len(fr), Doomed(sc, fr, k) PROVE Doomed(d, fr, k)
  BY <1>1, <1>4, <1>6 DEF Doomed
<1>7. Calls(d, fr)
  <2>. SUFFICES ASSUME NEW k \in 1..Len(fr), fr[k].op # "leave", ~Doomed(d, fr, k)
                PROVE  CallsIt(d, fr, k)
    BY DEF Calls
  <2>1. CallsIt(sc, fr, k)
    BY <1>6 DEF Stacks, Calls
  <2>2. fr[k].outside \in 1..Len(sc) /\ fr[k].outside \in 1..Len(d)
    BY <1>1, <2>1 DEF CallsIt
  <2>3. \A i \in 1..Len(d) : i > fr[k].outside <=> d[i].depth >= k
    <3>1. \A i \in 1..Len(d) : i \in 1..Len(sc) \/ i = Len(d)
      BY <1>1
    <3>. QED BY <1>1, <2>1, <2>2, <3>1 DEF CallsIt
  <2>4. k > 1 /\ fr[k - 1].op = "leave" => LeavesIt(d, fr, k - 1, fr[k].outside)
    BY <1>1, <2>1, <2>2 DEF CallsIt, LeavesIt
  <2>. QED BY <2>2, <2>3, <2>4 DEF CallsIt
<1>8. TopLeaves(d, fr)
  BY DEF Coded, TopLeaves
<1>. QED BY <1>2, <1>3, <1>5, <1>7, <1>8 DEF Stacks

\* A callback is called.
LEMMA CallKeeps ==
  ASSUME NEW sc, NEW fr, NEW n \in Nat, NEW g, Stacks(sc, fr, n), Grown(g, fr),
         g[Len(g)].op # "leave", g[Len(g)].outside = Len(sc)
  PROVE  Stacks(sc, g, n)
<1>1. /\ Len(sc) \in Nat /\ Len(sc) >= 1 /\ Len(fr) \in Nat /\ Len(g) = Len(fr) + 1
      /\ \A k \in 1..Len(fr) : g[k] = fr[k] /\ k \in 1..Len(g)
      /\ \A i \in 1..Len(sc) : sc[i].base \in Nat /\ sc[i].depth \in Nat /\ sc[i].depth <= Len(fr)
      /\ \A k \in 1..Len(g) : k \in 1..Len(fr) \/ k = Len(g)
  BY DEF Stacks, Numbered, InOrder, Grown
<1>2. Numbered(sc, g)
  BY <1>1 DEF Stacks, Numbered
<1>3. InOrder(sc, g, n)
  <2>1. InOrder(sc, fr, n)
    BY DEF Stacks
  <2>2. \A i \in 1..Len(sc) : /\ sc[i].base <= n /\ sc[i].depth <= Len(g)
                              /\ sc[i].depth > 0 => g[sc[i].depth].op # "leave"
    <3>. SUFFICES ASSUME NEW i \in 1..Len(sc)
                  PROVE  /\ sc[i].base <= n /\ sc[i].depth <= Len(g)
                         /\ sc[i].depth > 0 => g[sc[i].depth].op # "leave"
      OBVIOUS
    <3>1. sc[i].base <= n /\ (sc[i].depth > 0 => fr[sc[i].depth].op # "leave")
      BY <2>1 DEF InOrder
    <3>2. sc[i].depth > 0 => sc[i].depth \in 1..Len(fr)
      BY <1>1
    <3>. QED BY <1>1, <3>1, <3>2
  <2>. QED BY <2>1, <2>2 DEF InOrder
<1>4. \A j \in 1..Len(g) : Unwinding(g, j) <=> j \in 1..Len(fr) /\ Unwinding(fr, j)
  BY <1>1 DEF Unwinding
<1>5. Deaths(sc, g)
  BY <1>1, <1>4 DEF Stacks, Deaths
<1>6. \A k \in 1..Len(fr) : Doomed(sc, g, k) <=> Doomed(sc, fr, k)
  BY <1>1, <1>4 DEF Doomed
<1>7. Calls(sc, g)
  <2>. SUFFICES ASSUME NEW k \in 1..Len(g), g[k].op # "leave", ~Doomed(sc, g, k)
                PROVE  CallsIt(sc, g, k)
    BY DEF Calls
  <2>1. CASE k \in 1..Len(fr)
    <3>1. CallsIt(sc, fr, k)
      BY <1>1, <1>6, <2>1 DEF Stacks, Calls
    <3>2. k > 1 => k - 1 \in 1..Len(fr)
      BY <1>1, <2>1
    <3>. QED BY <1>1, <2>1, <3>1, <3>2 DEF CallsIt, LeavesIt
  <2>2. CASE k = Len(g)
    <3>1. g[k].outside \in 1..Len(sc)
      BY <1>1, <2>2
    <3>2. \A i \in 1..Len(sc) : i > g[k].outside <=> sc[i].depth >= k
      BY <1>1, <2>2
    <3>3. k > 1 /\ g[k - 1].op = "leave" => LeavesIt(sc, g, k - 1, g[k].outside)
      <4>. SUFFICES ASSUME k > 1, g[k - 1].op = "leave" PROVE LeavesIt(sc, g, k - 1, g[k].outside)
        OBVIOUS
      <4>1. k - 1 = Len(fr) /\ k - 1 \in 1..Len(fr) /\ g[k - 1] = fr[k - 1]
        BY <1>1, <2>2
      <4>2. LeavesIt(sc, fr, Len(fr), Len(sc))
        BY <4>1 DEF Stacks, TopLeaves
      <4>. QED BY <1>1, <2>2, <4>1, <4>2 DEF LeavesIt
    <3>. QED BY <3>1, <3>2, <3>3 DEF CallsIt
  <2>. QED BY <1>1, <2>1, <2>2
<1>8. TopLeaves(sc, g)
  BY DEF TopLeaves
<1>. QED BY <1>2, <1>3, <1>5, <1>7, <1>8 DEF Stacks

\* leave_scope is called for the innermost context, by code that entered it or by
\* die, which unwinds to the innermost eval.
LEMMA LeaveKeeps ==
  ASSUME NEW sc, NEW fr, NEW n \in Nat, NEW g, Stacks(sc, fr, n), Grown(g, fr), Coded(fr),
         g[Len(g)].op = "leave", g[Len(g)].base = sc[Len(sc)].base, g[Len(g)].catch \in Nat,
         g[Len(g)].catch = 0 => Len(sc) > IF Len(fr) = 0 THEN 1 ELSE fr[Len(fr)].outside,
         g[Len(g)].catch # 0 =>
           /\ g[Len(g)].catch \in 1..Len(sc) /\ sc[g[Len(g)].catch].kind = "eval"
           /\ \A i \in 1..Len(sc) : sc[i].kind = "eval" => i <= g[Len(g)].catch
  PROVE  Stacks(sc, g, n)
<1>1. /\ Len(sc) \in Nat /\ Len(sc) >= 1 /\ Len(fr) \in Nat /\ Len(g) = Len(fr) + 1
      /\ \A k \in 1..Len(fr) : g[k] = fr[k] /\ k \in 1..Len(g)
      /\ \A i \in 1..Len(sc) : sc[i].base \in Nat /\ sc[i].depth \in Nat /\ sc[i].depth <= Len(fr)
      /\ \A k \in 1..Len(g) : k \in 1..Len(fr) \/ k = Len(g)
      /\ Len(g) \in 1..Len(g)
  BY DEF Stacks, Numbered, InOrder, Grown
<1>2. Numbered(sc, g)
  <2>1. g[Len(g)].base \in Nat
    BY <1>1
  <2>. QED BY <1>1, <2>1 DEF Stacks, Numbered
<1>3. InOrder(sc, g, n)
  <2>1. InOrder(sc, fr, n)
    BY DEF Stacks
  <2>2. \A i \in 1..Len(sc) : /\ sc[i].base <= n /\ sc[i].depth <= Len(g)
                              /\ sc[i].depth > 0 => g[sc[i].depth].op # "leave"
    <3>. SUFFICES ASSUME NEW i \in 1..Len(sc)
                  PROVE  /\ sc[i].base <= n /\ sc[i].depth <= Len(g)
                         /\ sc[i].depth > 0 => g[sc[i].depth].op # "leave"
      OBVIOUS
    <3>1. sc[i].base <= n /\ (sc[i].depth > 0 => fr[sc[i].depth].op # "leave")
      BY <2>1 DEF InOrder
    <3>2. sc[i].depth > 0 => sc[i].depth \in 1..Len(fr)
      BY <1>1
    <3>. QED BY <1>1, <3>1, <3>2
  <2>. QED BY <2>1, <2>2 DEF InOrder
<1>4. \A j \in 1..Len(fr) : Unwinding(g, j) <=> Unwinding(fr, j)
  BY <1>1 DEF Unwinding
<1>5. Deaths(sc, g)
  <2>. SUFFICES ASSUME NEW j \in 1..Len(g), Unwinding(g, j)
                PROVE  /\ g[j].catch \in 2..Len(sc) /\ sc[g[j].catch].kind = "eval"
                       /\ sc[g[j].catch].depth < j
                       /\ \A i \in 1..Len(sc) : i > g[j].catch /\ sc[i].kind = "eval" => sc[i].depth > j
    BY DEF Deaths
  <2>1. CASE j \in 1..Len(fr)
    BY <1>1, <1>4, <2>1 DEF Stacks, Deaths
  <2>2. CASE j = Len(g)
    <3>1. /\ g[j].catch \in 1..Len(sc) /\ sc[g[j].catch].kind = "eval"
          /\ \A i \in 1..Len(sc) : sc[i].kind = "eval" => i <= g[j].catch
      BY <2>2 DEF Unwinding
    <3>2. sc[1].kind = "block" /\ sc[g[j].catch].depth < j
      BY <1>1, <2>2, <3>1 DEF Stacks, InOrder
    <3>. QED BY <1>1, <3>1, <3>2
  <2>. QED BY <1>1, <2>1, <2>2
<1>6. \A k \in 1..Len(fr) : Doomed(sc, fr, k) => Doomed(sc, g, k)
  BY <1>1, <1>4 DEF Doomed
<1>7. Calls(sc, g)
  <2>. SUFFICES ASSUME NEW k \in 1..Len(g), g[k].op # "leave", ~Doomed(sc, g, k)
                PROVE  CallsIt(sc, g, k)
    BY DEF Calls
  <2>1. k \in 1..Len(fr)
    BY <1>1
  <2>2. CallsIt(sc, fr, k)
    BY <1>1, <1>6, <2>1 DEF Stacks, Calls
  <2>3. k > 1 => k - 1 \in 1..Len(fr)
    BY <1>1, <2>1
  <2>. QED BY <1>1, <2>1, <2>2, <2>3 DEF CallsIt, LeavesIt
<1>8. TopLeaves(sc, g)
  <2>1. ASSUME g[Len(g)].catch = 0 PROVE Len(sc) >= 2 /\ sc[Len(sc)].depth = Len(g) - 1
    <3>1. CASE Len(fr) = 0
      BY <1>1, <2>1, <3>1
    <3>2. CASE Len(fr) # 0
      <4>1. Len(fr) \in 1..Len(fr) /\ fr[Len(fr)].op # "leave" /\ ~Doomed(sc, fr, Len(fr))
        BY <1>1, <3>2 DEF Coded, Doomed
      <4>2. CallsIt(sc, fr, Len(fr))
        BY <4>1 DEF Stacks, Calls
      <4>3. Len(sc) > fr[Len(fr)].outside /\ fr[Len(fr)].outside >= 1
        BY <2>1, <3>2, <4>2 DEF CallsIt
      <4>4. Len(sc) \in 1..Len(sc)
        BY <1>1
      <4>5. sc[Len(sc)].depth >= Len(fr)
        BY <4>2, <4>3, <4>4 DEF CallsIt
      <4>6. fr[Len(fr)].outside \in 1..Len(sc)
        BY <4>2 DEF CallsIt
      <4>. QED BY <1>1, <4>3, <4>4, <4>5, <4>6
    <3>. QED BY <3>1, <3>2
  <2>. QED BY <2>1 DEF TopLeaves, LeavesIt
<1>. QED BY <1>2, <1>3, <1>5, <1>7, <1>8 DEF Stacks

\* A callback has returned.
LEMMA ReturnKeeps ==
  ASSUME NEW sc, NEW fr, NEW n \in Nat, NEW g, Stacks(sc, fr, n), Len(fr) > 0,
         Cut(g, fr, Len(fr) - 1), fr[Len(fr)].op # "leave", fr[Len(fr)].outside = Len(sc)
  PROVE  Stacks(sc, g, n)
<1>1. /\ Len(sc) \in Nat /\ Len(sc) >= 1 /\ Len(fr) \in Nat /\ Len(fr) = Len(g) + 1 /\ Len(g) \in Nat
      /\ \A k \in 1..Len(g) : g[k] = fr[k] /\ k \in 1..Len(fr) /\ k # Len(fr)
      /\ \A i \in 1..Len(sc) : sc[i].base \in Nat /\ sc[i].depth \in Nat
      /\ \A k \in 1..Len(fr) : k \in 1..Len(g) \/ k = Len(fr)
      /\ Len(fr) \in 1..Len(fr)
  BY DEF Stacks, Numbered, InOrder, Cut
<1>2. CallsIt(sc, fr, Len(fr))
  <2>1. ~Doomed(sc, fr, Len(fr))
    BY <1>1 DEF Doomed
  <2>. QED BY <1>1, <2>1 DEF Stacks, Calls
<1>3. \A i \in 1..Len(sc) : sc[i].depth <= Len(g)
  BY <1>1, <1>2 DEF CallsIt
<1>4. Numbered(sc, g)
  BY <1>1 DEF Stacks, Numbered
<1>5. InOrder(sc, g, n)
  <2>1. InOrder(sc, fr, n)
    BY DEF Stacks
  <2>2. \A i \in 1..Len(sc) : sc[i].depth > 0 => g[sc[i].depth].op # "leave"
    <3>. SUFFICES ASSUME NEW i \in 1..Len(sc), sc[i].depth > 0 PROVE g[sc[i].depth].op # "leave"
      OBVIOUS
    <3>1. sc[i].depth \in 1..Len(g)
      BY <1>1, <1>3
    <3>. QED BY <1>1, <2>1, <3>1 DEF InOrder
  <2>. QED BY <1>3, <2>1, <2>2 DEF InOrder
<1>6. \A j \in 1..Len(g) : Unwinding(g, j) <=> Unwinding(fr, j)
  BY <1>1 DEF Unwinding
<1>7. Deaths(sc, g)
  BY <1>1, <1>6 DEF Stacks, Deaths
<1>8. ~Unwinding(fr, Len(fr)) /\ \A k \in 1..Len(g) : Doomed(sc, fr, k) => Doomed(sc, g, k)
  BY <1>1, <1>6 DEF Doomed, Unwinding
<1>9. Calls(sc, g)
  <2>. SUFFICES ASSUME NEW k \in 1..Len(g), g[k].op # "leave", ~Doomed(sc, g, k)
                PROVE  CallsIt(sc, g, k)
    BY DEF Calls
  <2>1. CallsIt(sc, fr, k)
    BY <1>1, <1>8 DEF Stacks, Calls
  <2>2. k > 1 => k - 1 \in 1..Len(g)
    BY <1>1
  <2>. QED BY <1>1, <2>1, <2>2 DEF CallsIt, LeavesIt
<1>10. TopLeaves(sc, g)
  <2>. SUFFICES ASSUME Len(g) > 0, g[Len(g)].op = "leave" PROVE LeavesIt(sc, g, Len(g), Len(sc))
    BY DEF TopLeaves
  <2>1. Len(g) \in 1..Len(g) /\ Len(fr) > 1 /\ Len(fr) - 1 = Len(g)
    BY <1>1
  <2>2. LeavesIt(sc, fr, Len(g), Len(sc))
    BY <1>1, <1>2, <2>1 DEF CallsIt
  <2>. QED BY <1>1, <2>1, <2>2 DEF LeavesIt
<1>. QED BY <1>4, <1>5, <1>7, <1>9, <1>10 DEF Stacks

\* A method that local called makes way for the next.
LEMMA RenameKeeps ==
  ASSUME NEW sc, NEW fr, NEW n \in Nat, NEW g, Stacks(sc, fr, n), Len(g) = Len(fr),
         \A k \in 1..Len(fr) :
           /\ g[k].op = "leave" <=> fr[k].op = "leave"
           /\ fr[k].op = "leave" => g[k] = fr[k]
           /\ fr[k].op # "leave" => g[k].outside = fr[k].outside
  PROVE  Stacks(sc, g, n)
<1>1. /\ Len(sc) \in Nat /\ Len(fr) \in Nat
      /\ \A i \in 1..Len(sc) : sc[i].depth \in Nat /\ sc[i].depth <= Len(fr)
  BY DEF Stacks, Numbered, InOrder
<1>2. Numbered(sc, g)
  BY DEF Stacks, Numbered
<1>3. InOrder(sc, g, n)
  <2>1. \A i \in 1..Len(sc) : sc[i].depth > 0 => sc[i].depth \in 1..Len(fr)
    BY <1>1
  <2>. QED BY <2>1 DEF Stacks, InOrder
<1>4. \A j \in 1..Len(fr) : /\ Unwinding(g, j) <=> Unwinding(fr, j)
                            /\ Unwinding(fr, j) => g[j] = fr[j]
  BY DEF Unwinding
<1>5. Deaths(sc, g)
  BY <1>4 DEF Stacks, Deaths
<1>6. \A k \in 1..Len(fr) : Doomed(sc, fr, k) => Doomed(sc, g, k)
  BY <1>4 DEF Doomed
<1>7. Calls(sc, g)
  <2>. SUFFICES ASSUME NEW k \in 1..Len(g), g[k].op # "leave", ~Doomed(sc, g, k)
                PROVE  CallsIt(sc, g, k)
    BY DEF Calls
  <2>1. CallsIt(sc, fr, k)
    BY <1>6 DEF Stacks, Calls
  <2>2. k > 1 => k - 1 \in 1..Len(fr)
    BY <1>1
  <2>. QED BY <2>1, <2>2 DEF CallsIt, LeavesIt
<1>8. TopLeaves(sc, g)
  <2>1. Len(fr) > 0 => Len(fr) \in 1..Len(fr)
    BY <1>1
  <2>. QED BY <2>1 DEF Stacks, TopLeaves, LeavesIt
<1>. QED BY <1>2, <1>3, <1>5, <1>7, <1>8 DEF Stacks

\* The innermost context is left for good: by its end, or because die has come to
\* the eval; then all frames above are dropped.
LEMMA LeftKeeps ==
  ASSUME NEW sc, NEW fr, NEW n \in Nat, NEW d, NEW g, Stacks(sc, fr, n), Len(fr) > 0,
         fr[Len(fr)].op = "leave", fr[Len(fr)].catch \in {0, Len(sc)},
         Cut(d, sc, Len(sc) - 1), Cut(g, fr, sc[Len(sc)].depth)
  PROVE  Stacks(d, g, n) /\ sc[Len(sc)].depth \in 0..(Len(fr) - 1)
<1>0. PICK m : m = sc[Len(sc)].depth
  OBVIOUS
<1>1. /\ Len(sc) \in Nat /\ Len(sc) >= 1 /\ Len(fr) \in Nat
      /\ \A i \in 1..Len(sc) : sc[i].base \in Nat /\ sc[i].depth \in Nat
      /\ Len(fr) \in 1..Len(fr) /\ Len(sc) \in 1..Len(sc)
  BY DEF Stacks, Numbered, InOrder
<1>2. /\ Len(sc) >= 2 /\ m \in 0..(Len(fr) - 1)
      /\ fr[Len(fr)].catch = 0 => m = Len(fr) - 1
  <2>1. LeavesIt(sc, fr, Len(fr), Len(sc))
    BY DEF Stacks, TopLeaves
  <2>2. CASE fr[Len(fr)].catch = 0
    BY <1>0, <1>1, <2>1, <2>2 DEF LeavesIt
  <2>3. CASE fr[Len(fr)].catch # 0
    <3>1. fr[Len(fr)].catch = Len(sc) /\ Unwinding(fr, Len(fr))
      BY <2>3 DEF Unwinding
    <3>2. Len(sc) \in 2..Len(sc) /\ sc[Len(sc)].depth < Len(fr)
      BY <1>1, <3>1 DEF Stacks, Deaths
    <3>. QED BY <1>0, <1>1, <2>3, <3>2
  <2>. QED BY <2>2, <2>3
<1>3. /\ Len(g) = m /\ m \in Nat /\ Len(d) = Len(sc) - 1 /\ Len(d) \in Nat /\ Len(d) >= 1
      /\ \A k \in 1..m : g[k] = fr[k] /\ k \in 1..Len(fr)
      /\ \A i \in 1..Len(d) : d[i] = sc[i] /\ i \in 1..Len(sc) /\ i < Len(sc)
  BY <1>0, <1>1, <1>2 DEF Cut
<1>4. Numbered(d, g)
  BY <1>3 DEF Stacks, Numbered
<1>5. InOrder(d, g, n)
  <2>1. InOrder(sc, fr, n)
    BY DEF Stacks
  <2>2. \A i \in 1..Len(d) : sc[i].depth <= m
    BY <1>0, <1>1, <1>3, <2>1 DEF InOrder
  <2>3. \A i \in 1..Len(d) : sc[i].depth > 0 => g[sc[i].depth].op # "leave"
    <3>. SUFFICES ASSUME NEW i \in 1..Len(d), sc[i].depth > 0 PROVE g[sc[i].depth].op # "leave"
      OBVIOUS
    <3>1. sc[i].depth \in 1..m
      BY <1>1, <1>3, <2>2
    <3>. QED BY <1>3, <2>1, <3>1 DEF InOrder
  <2>4. d[1].kind = "block"
    BY <1>3, <2>1 DEF InOrder
  <2>5. \A i \in 1..Len(d) : d[i].base <= n
    BY <1>3, <2>1 DEF InOrder
  <2>6. \A i, j \in 1..Len(d) : i < j => d[i].base <= d[j].base /\ d[i].depth <= d[j].depth
    BY <1>3, <2>1 DEF InOrder
  <2>. QED BY <1>3, <2>2, <2>3, <2>4, <2>5, <2>6 DEF InOrder
<1>6. \A j \in 1..m : Unwinding(g, j) <=> Unwinding(fr, j)
  BY <1>3 DEF Unwinding
<1>7. ASSUME NEW j \in 1..Len(fr), Unwinding(fr, j)
      PROVE  /\ fr[j].catch \in 2..Len(sc) /\ sc[fr[j].catch].kind = "eval"
             /\ sc[fr[j].catch].depth < j
             /\ \A i \in 1..Len(sc) : i > fr[j].catch /\ sc[i].kind = "eval" => sc[i].depth > j
  BY <1>7 DEF Stacks, Deaths
<1>8. ASSUME NEW j \in 1..m, Unwinding(fr, j) PROVE fr[j].catch \in 2..Len(d)
  <2>1. fr[j].catch \in 2..Len(sc) /\ sc[fr[j].catch].depth < j
    BY <1>3, <1>7, <1>8
  <2>2. fr[j].catch # Len(sc)
    BY <1>0, <1>3, <2>1
  <2>. QED BY <1>3, <2>1, <2>2
<1>9. Deaths(d, g)
  <2>. SUFFICES ASSUME NEW j \in 1..m, Unwinding(fr, j)
                PROVE  /\ fr[j].catch \in 2..Len(d) /\ d[fr[j].catch].kind = "eval"
                       /\ d[fr[j].catch].depth < j
                       /\ \A i \in 1..Len(d) : i > fr[j].catch /\ d[i].kind = "eval" => d[i].depth > j
    BY <1>3, <1>6 DEF Deaths
  <2>1. j \in 1..Len(fr) /\ fr[j].catch \in 2..Len(d) /\ fr[j].catch \in 1..Len(d)
    BY <1>3, <1>8
  <2>2. d[fr[j].catch] = sc[fr[j].catch]
    BY <1>3, <2>1
  <2>3. sc[fr[j].catch].kind = "eval" /\ sc[fr[j].catch].depth < j
    BY <1>7, <2>1
  <2>4. ASSUME NEW i \in 1..Len(d), i > fr[j].catch, d[i].kind = "eval" PROVE d[i].depth > j
    <3>1. i \in 1..Len(sc) /\ d[i] = sc[i]
      BY <1>3
    <3>. QED BY <1>7, <2>1, <2>4, <3>1
  <2>. QED BY <2>1, <2>2, <2>3, <2>4
<1>10. ASSUME NEW k \in 1..m, Doomed(sc, fr, k) PROVE Doomed(d, g, k)
  <2>1. PICK j \in 1..Len(fr) : j > k /\ Unwinding(fr, j) /\ sc[fr[j].catch].depth < k
    BY <1>10 DEF Doomed
  <2>2. fr[j].catch \in 2..Len(sc)
    BY <1>7, <2>1
  <2>3. j \in 1..m
    <3>1. CASE fr[Len(fr)].catch = 0
      BY <1>1, <1>2, <2>1, <3>1 DEF Unwinding
    <3>2. CASE fr[Len(fr)].catch # 0 /\ fr[j].catch # Len(sc)
      <4>1. sc[Len(sc)].kind = "eval"
        BY <1>1, <1>7, <3>2 DEF Unwinding
      <4>2. sc[Len(sc)].depth > j
        BY <1>1, <1>7, <2>1, <2>2, <3>2, <4>1
      <4>. QED BY <1>0, <1>3, <4>2
    <3>3. CASE fr[j].catch = Len(sc)
      BY <1>0, <1>3, <2>1, <3>3
    <3>. QED BY <3>1, <3>2, <3>3
  <2>4. fr[j].catch \in 1..Len(d)
    BY <1>3, <1>8, <2>1, <2>3
  <2>. QED BY <1>3, <1>6, <2>1, <2>3, <2>4 DEF Doomed
<1>11. Calls(d, g)
  <2>. SUFFICES ASSUME NEW k \in 1..m, fr[k].op # "leave", ~Doomed(d, g, k)
                PROVE  CallsIt(d, g, k)
    BY <1>3 DEF Calls
  <2>1. CallsIt(sc, fr, k)
    BY <1>3, <1>10 DEF Stacks, Calls
  <2>2. fr[k].outside \in 1..Len(d)
    <3>1. Len(sc) > fr[k].outside
      BY <1>0, <1>1, <1>3, <2>1 DEF CallsIt
    <3>. QED BY <1>3, <2>1, <3>1 DEF CallsIt
  <2>3. k > 1 => k - 1 \in 1..m
    BY <1>3
  <2>4. k > 1 /\ g[k - 1].op = "leave" => LeavesIt(d, g, k - 1, fr[k].outside)
    BY <1>3, <2>1, <2>2, <2>3 DEF CallsIt, LeavesIt
  <2>. QED BY <1>3, <2>1, <2>2, <2>4 DEF CallsIt
<1>12. TopLeaves(d, g)
  <2>1. m > 0 => fr[m].op # "leave" /\ m \in 1..m
    BY <1>0, <1>1, <1>3 DEF Stacks, InOrder
  <2>. QED BY <1>3, <2>1 DEF TopLeaves
<1>. QED BY <1>0, <1>2, <1>4, <1>5, <1>9, <1>11, <1>12 DEF Stacks

\* die goes on to the next context out.
LEMMA DyingKeeps ==
  ASSUME NEW sc, NEW fr, NEW n \in Nat, NEW d, NEW g, Stacks(sc, fr, n), Len(fr) > 0,
         fr[Len(fr)].op = "leave", fr[Len(fr)].catch \notin {0, Len(sc)},
         Cut(d, sc, Len(sc) - 1), Len(g) = Len(fr),
         \A k \in 1..Len(fr) : k # Len(fr) => g[k] = fr[k],
         g[Len(fr)].op = "leave", g[Len(fr)].catch = fr[Len(fr)].catch,
         g[Len(fr)].base = sc[Len(sc) - 1].base
  PROVE  Stacks(d, g, n) /\ Len(sc) >= 2
<1>1. /\ Len(sc) \in Nat /\ Len(sc) >= 1 /\ Len(fr) \in Nat
      /\ \A i \in 1..Len(sc) : sc[i].base \in Nat /\ sc[i].depth \in Nat
      /\ Len(fr) \in 1..Len(fr) /\ Len(sc) \in 1..Len(sc)
  BY DEF Stacks, Numbered, InOrder
<1>2. Unwinding(fr, Len(fr))
  BY DEF Unwinding
<1>3. ASSUME NEW j \in 1..Len(fr), Unwinding(fr, j)
      PROVE  /\ fr[j].catch \in 2..Len(sc) /\ sc[fr[j].catch].kind = "eval"
             /\ sc[fr[j].catch].depth < j
             /\ \A i \in 1..Len(sc) : i > fr[j].catch /\ sc[i].kind = "eval" => sc[i].depth > j
  BY <1>3 DEF Stacks, Deaths
<1>4. /\ Len(d) = Len(sc) - 1 /\ Len(d) \in Nat /\ Len(d) >= 2 /\ Len(sc) >= 2
      /\ \A i \in 1..Len(d) : d[i] = sc[i] /\ i \in 1..Len(sc) /\ i < Len(sc)
      /\ Len(d) \in 1..Len(d)
  BY <1>1, <1>2, <1>3 DEF Cut
<1>5. \A j \in 1..Len(fr) : /\ Unwinding(g, j) <=> Unwinding(fr, j)
                            /\ g[j].catch = fr[j].catch /\ g[j].op = fr[j].op
  BY DEF Unwinding
<1>6. ASSUME NEW j \in 1..Len(fr), Unwinding(fr, j) PROVE fr[j].catch \in 2..Len(d)
  <2>1. fr[j].catch \in 2..Len(sc) /\ sc[fr[j].catch].kind = "eval" /\ sc[fr[j].catch].depth < j
    BY <1>3, <1>6
  <2>2. fr[j].catch # Len(sc)
    <3>. SUFFICES ASSUME fr[j].catch = Len(sc) PROVE FALSE
      OBVIOUS
    <3>1. fr[Len(fr)].catch < Len(sc)
      BY <1>1, <1>2, <1>3
    <3>2. sc[Len(sc)].depth > Len(fr)
      BY <1>1, <1>2, <1>3, <2>1, <3>1
    <3>. QED BY <1>1, <2>1, <3>2
  <2>. QED BY <1>4, <2>1, <2>2
<1>7. Numbered(d, g)
  <2>1. \A k \in 1..Len(fr) : IF g[k].op = "leave" THEN g[k].base \in Nat /\ g[k].catch \in Nat
                                                  ELSE g[k].outside \in Nat
    <3>. SUFFICES ASSUME NEW k \in 1..Len(fr)
                  PROVE  IF g[k].op = "leave" THEN g[k].base \in Nat /\ g[k].catch \in Nat
                                              ELSE g[k].outside \in Nat
      OBVIOUS
    <3>1. CASE k = Len(fr)
      BY <1>1, <1>4, <3>1 DEF Stacks, Numbered
    <3>2. CASE k # Len(fr)
      BY <3>2 DEF Stacks, Numbered
    <3>. QED BY <3>1, <3>2
  <2>. QED BY <1>1, <1>4, <2>1 DEF Numbered
<1>8. InOrder(d, g, n)
  <2>1. InOrder(sc, fr, n)
    BY DEF Stacks
  <2>2. \A i \in 1..Len(d) : sc[i].depth > 0 => g[sc[i].depth].op # "leave"
    <3>. SUFFICES ASSUME NEW i \in 1..Len(d), sc[i].depth > 0 PROVE g[sc[i].depth].op # "leave"
      OBVIOUS
    <3>1. sc[i].depth \in 1..Len(fr) /\ fr[sc[i].depth].op # "leave"
      BY <1>1, <1>4, <2>1 DEF InOrder
    <3>. QED BY <1>5, <3>1
  <2>3. Len(d) >= 1 /\ d[1].kind = "block"
    BY <1>4, <2>1 DEF InOrder
  <2>4. \A i \in 1..Len(d) : d[i].base <= n /\ d[i].depth <= Len(fr)
    BY <1>4, <2>1 DEF InOrder
  <2>5. \A i, j \in 1..Len(d) : i < j => d[i].base <= d[j].base /\ d[i].depth <= d[j].depth
    BY <1>4, <2>1 DEF InOrder
  <2>. QED BY <1>4, <2>2, <2>3, <2>4, <2>5 DEF InOrder
<1>9. Deaths(d, g)
  <2>. SUFFICES ASSUME NEW j \in 1..Len(fr), Unwinding(fr, j)
                PROVE  /\ fr[j].catch \in 2..Len(d) /\ d[fr[j].catch].kind = "eval"
                       /\ d[fr[j].catch].depth < j
                       /\ \A i \in 1..Len(d) : i > fr[j].catch /\ d[i].kind = "eval" => d[i].depth > j
    BY <1>5 DEF Deaths
  <2>1. fr[j].catch \in 2..Len(d) /\ fr[j].catch \in 1..Len(d)
    BY <1>4, <1>6
  <2>2. d[fr[j].catch] = sc[fr[j].catch]
    BY <1>4, <2>1
  <2>3. sc[fr[j].catch].kind = "eval" /\ sc[fr[j].catch].depth < j
    BY <1>3
  <2>4. ASSUME NEW i \in 1..Len(d), i > fr[j].catch, d[i].kind = "eval" PROVE d[i].depth > j
    <3>1. i \in 1..Len(sc) /\ d[i] = sc[i]
      BY <1>4
    <3>. QED BY <1>3, <2>4, <3>1
  <2>. QED BY <2>1, <2>2, <2>3, <2>4
<1>10. ASSUME NEW k \in 1..Len(fr), Doomed(sc, fr, k) PROVE Doomed(d, g, k)
  <2>1. PICK j \in 1..Len(fr) : j > k /\ Unwinding(fr, j) /\ sc[fr[j].catch].depth < k
    BY <1>10 DEF Doomed
  <2>2. fr[j].catch \in 1..Len(d)
    BY <1>4, <1>6, <2>1
  <2>. QED BY <1>4, <1>5, <2>1, <2>2 DEF Doomed
<1>11. Calls(d, g)
  <2>. SUFFICES ASSUME NEW k \in 1..Len(fr), fr[k].op # "leave", ~Doomed(d, g, k)
                PROVE  CallsIt(d, g, k)
    BY <1>5 DEF Calls
  <2>1. CallsIt(sc, fr, k) /\ ~Doomed(sc, fr, k) /\ k # Len(fr)
    BY <1>10 DEF Stacks, Calls
  <2>2. fr[k].outside \in 1..Len(d)
    <3>1. fr[Len(fr)].catch \in 2..Len(d) /\ fr[Len(fr)].catch \in 1..Len(sc)
      BY <1>1, <1>2, <1>4, <1>6
    <3>2. sc[fr[Len(fr)].catch].depth >= k
      BY <1>1, <1>2, <2>1, <3>1 DEF Doomed
    <3>3. fr[Len(fr)].catch > fr[k].outside /\ fr[k].outside \in 1..Len(sc)
      BY <2>1, <3>1, <3>2 DEF CallsIt
    <3>. QED BY <1>4, <3>1, <3>3
  <2>3. g[k] = fr[k] /\ (k > 1 => g[k - 1] = fr[k - 1])
    BY <1>1, <2>1
  <2>4. k > 1 /\ g[k - 1].op = "leave" => LeavesIt(d, g, k - 1, fr[k].outside)
    BY <1>4, <2>1, <2>2, <2>3 DEF CallsIt, LeavesIt
  <2>. QED BY <1>4, <2>1, <2>2, <2>3, <2>4 DEF CallsIt
<1>12. TopLeaves(d, g)
  BY <1>4 DEF TopLeaves, LeavesIt
<1>. QED BY <1>4, <1>7, <1>8, <1>9, <1>11, <1>12 DEF Stacks

\* The save stack may be popped down to where the innermost context began.
LEMMA SavedKeeps ==
  ASSUME NEW sc, NEW fr, NEW n \in Nat, NEW m \in Nat, Stacks(sc, fr, n), sc[Len(sc)].base <= m
  PROVE  Stacks(sc, fr, m)
<1>1. \A i \in 1..Len(sc) : sc[i].base <= m
  <2>1. \A i \in 1..Len(sc) : sc[i].base <= sc[Len(sc)].base
    BY DEF Stacks, Numbered, InOrder
  <2>2. Len(sc) \in 1..Len(sc)
    BY DEF Stacks, Numbered, InOrder
  <2>. QED BY <2>1, <2>2 DEF Stacks, Numbered
<1>. QED BY <1>1 DEF Stacks, InOrder

-----------------------------------------------------------------------------
\* Entry i of the save stack sv is an old value of v.
Keeps(sv, i, v) == sv[i].what = "value" /\ sv[i].var = v

\* When all above base has been popped, v, which is sl[v] now, will be x.
Gives(sv, sl, base, v, x) ==
  \/ x = sl[v] /\ \A i \in (base + 1)..Len(sv) : ~Keeps(sv, i, v)
  \/ \E i \in (base + 1)..Len(sv) :
       /\ Keeps(sv, i, v) /\ x = sv[i].value
       /\ \A j \in (base + 1)..Len(sv) : j < i => ~Keeps(sv, j, v)

\* n is sl but that v has x.
Put(n, sl, v, x) ==
  n \in [Var -> Value] /\ n[v] = x /\ \A w \in Var : w # v => n[w] = sl[w]

\* A scope that begins now.
LEMMA GivesNow ==
  ASSUME NEW sv, NEW sl, NEW v, Len(sv) \in Nat PROVE Gives(sv, sl, Len(sv), v, sl[v])
  BY DEF Gives

\* What else is saved, or popped, makes no difference.
LEMMA GivesMore ==
  ASSUME NEW sv, NEW t, NEW sl, NEW base \in Nat, NEW v, NEW x, Len(sv) \in Nat, base <= Len(sv),
         Grown(t, sv), t[Len(t)].what # "value"
  PROVE  Gives(t, sl, base, v, x) <=> Gives(sv, sl, base, v, x)
<1>1. /\ \A i \in (base + 1)..Len(sv) : i \in (base + 1)..Len(t) /\ (Keeps(t, i, v) <=> Keeps(sv, i, v))
                                     /\ t[i] = sv[i]
      /\ \A i \in (base + 1)..Len(t) : i \in (base + 1)..Len(sv) \/ i = Len(t)
      /\ ~Keeps(t, Len(t), v)
  BY DEF Grown, Keeps
<1>. QED BY <1>1 DEF Gives

\* The value of u is saved, and it gets another.
LEMMA GivesSaved ==
  ASSUME NEW sv, NEW t, NEW sl \in [Var -> Value], NEW base \in Nat, NEW v \in Var, NEW u \in Var,
         NEW x, NEW n, Len(sv) \in Nat, base <= Len(sv), Grown(t, sv),
         t[Len(t)].what = "value", t[Len(t)].var = u, t[Len(t)].value = sl[u],
         Gives(sv, sl, base, v, x), NEW new, Put(n, sl, u, new)
  PROVE  Gives(t, n, base, v, x)
<1>1. /\ \A i \in (base + 1)..Len(sv) : i \in (base + 1)..Len(t) /\ (Keeps(t, i, v) <=> Keeps(sv, i, v))
                                     /\ t[i] = sv[i]
      /\ \A i \in (base + 1)..Len(t) : i \in (base + 1)..Len(sv) \/ i = Len(t)
      /\ Keeps(t, Len(t), v) <=> v = u
      /\ Len(t) \in (base + 1)..Len(t) /\ \A i \in (base + 1)..Len(sv) : i < Len(t)
  BY DEF Grown, Keeps
<1>2. CASE \E i \in (base + 1)..Len(sv) : Keeps(sv, i, v)
  <2>1. PICK i \in (base + 1)..Len(sv) :
           /\ Keeps(sv, i, v) /\ x = sv[i].value
           /\ \A j \in (base + 1)..Len(sv) : j < i => ~Keeps(sv, j, v)
    BY <1>2 DEF Gives
  <2>2. \A j \in (base + 1)..Len(t) : j < i => ~Keeps(t, j, v)
    BY <1>1, <2>1
  <2>. QED BY <1>1, <2>1, <2>2 DEF Gives
<1>3. CASE ~\E i \in (base + 1)..Len(sv) : Keeps(sv, i, v)
  <2>1. x = sl[v]
    BY <1>3 DEF Gives
  <2>2. CASE v = u
    <3>1. x = t[Len(t)].value /\ Keeps(t, Len(t), v)
      BY <1>1, <2>1, <2>2
    <3>2. \A j \in (base + 1)..Len(t) : j < Len(t) => ~Keeps(t, j, v)
      BY <1>1, <1>3
    <3>. QED BY <1>1, <3>1, <3>2 DEF Gives
  <2>3. CASE v # u
    <3>1. x = n[v]
      BY <2>1, <2>3 DEF Put
    <3>2. \A j \in (base + 1)..Len(t) : ~Keeps(t, j, v)
      BY <1>1, <1>3, <2>3
    <3>. QED BY <3>1, <3>2 DEF Gives
  <2>. QED BY <2>2, <2>3
<1>. QED BY <1>2, <1>3

\* And it gets back what was saved last.
LEMMA GivesBack ==
  ASSUME NEW sv, NEW t, NEW sl \in [Var -> Value], NEW base \in Nat, NEW v \in Var, NEW u \in Var,
         NEW x, NEW old, NEW n, Len(t) \in Nat, base <= Len(t), Grown(sv, t),
         sv[Len(sv)].what = "value", sv[Len(sv)].var = u, sv[Len(sv)].value = old,
         Gives(sv, sl, base, v, x), Put(n, sl, u, old)
  PROVE  Gives(t, n, base, v, x)
<1>1. /\ \A i \in (base + 1)..Len(t) : i \in (base + 1)..Len(sv) /\ (Keeps(t, i, v) <=> Keeps(sv, i, v))
                                     /\ t[i] = sv[i]
      /\ \A i \in (base + 1)..Len(sv) : i \in (base + 1)..Len(t) \/ i = Len(sv)
      /\ Keeps(sv, Len(sv), v) <=> v = u
      /\ Len(sv) \in (base + 1)..Len(sv) /\ \A i \in (base + 1)..Len(t) : i < Len(sv)
  BY DEF Grown, Keeps
<1>2. CASE \E i \in (base + 1)..Len(t) : Keeps(t, i, v)
  <2>0. PICK k \in (base + 1)..Len(t) : Keeps(t, k, v)
    BY <1>2
  <2>1. PICK i \in (base + 1)..Len(sv) :
           /\ Keeps(sv, i, v) /\ x = sv[i].value
           /\ \A j \in (base + 1)..Len(sv) : j < i => ~Keeps(sv, j, v)
    BY <1>1, <2>0 DEF Gives
  <2>2. i \in (base + 1)..Len(t)
    BY <1>1, <2>0, <2>1
  <2>3. \A j \in (base + 1)..Len(t) : j < i => ~Keeps(t, j, v)
    BY <1>1, <2>1
  <2>. QED BY <1>1, <2>1, <2>2, <2>3 DEF Gives
<1>3. CASE ~\E i \in (base + 1)..Len(t) : Keeps(t, i, v)
  <2>2. CASE v = u
    <3>1. x = old
      <4>1. Keeps(sv, Len(sv), v)
        BY <1>1, <2>2
      <4>2. PICK i \in (base + 1)..Len(sv) : Keeps(sv, i, v) /\ x = sv[i].value
        BY <1>1, <4>1 DEF Gives
      <4>3. i = Len(sv)
        BY <1>1, <1>3, <4>2
      <4>. QED BY <4>2, <4>3
    <3>. QED BY <1>3, <2>2, <3>1 DEF Gives, Put
  <2>3. CASE v # u
    <3>1. \A j \in (base + 1)..Len(sv) : ~Keeps(sv, j, v)
      BY <1>1, <1>3, <2>3
    <3>2. x = sl[v]
      BY <3>1 DEF Gives
    <3>. QED BY <1>3, <2>3, <3>2 DEF Gives, Put
  <2>. QED BY <2>2, <2>3
<1>. QED BY <1>2, <1>3

LEMMA MinIs ==
  ASSUME NEW S, \A j \in S : j \in Int, NEW i \in S, \A j \in S : i <= j
  PROVE  Min(S) = i
<1>1. \A y \in S : (\A z \in S : y <= z) => y = i
  OBVIOUS
<1>2. Min(S) \in S /\ \A z \in S : Min(S) <= z
  <2>. DEFINE Least(y) == y \in S /\ \A z \in S : y <= z
  <2>1. Least(i)
    OBVIOUS
  <2>2. Min(S) = CHOOSE y : Least(y)
    BY Zenon DEF Min
  <2>. HIDE DEF Least
  <2>3. Least(CHOOSE y : Least(y))
    BY <2>1
  <2>. QED BY <2>2, <2>3 DEF Least
<1>. QED BY <1>1, <1>2

\* Gives says what ValueUnder is.
LEMMA GivesValue ==
  ASSUME NEW base \in Nat, NEW v, NEW x, Len(saved) \in Nat, Gives(saved, slot, base, v, x)
  PROVE  ValueUnder(base, v) = x
<1>. DEFINE e == {i \in (base + 1)..Len(saved) : saved[i].what = "value" /\ saved[i].var = v}
<1>1. CASE e = {}
  <2>1. x = slot[v]
    BY <1>1 DEF Gives, Keeps
  <2>. QED BY <1>1, <2>1 DEF ValueUnder
<1>2. CASE e # {}
  <2>1. PICK i \in (base + 1)..Len(saved) :
           /\ Keeps(saved, i, v) /\ x = saved[i].value
           /\ \A j \in (base + 1)..Len(saved) : j < i => ~Keeps(saved, j, v)
    BY <1>2 DEF Gives, Keeps
  <2>2. i \in e /\ \A j \in e : i <= j
    BY <2>1 DEF Keeps
  <2>3. \A j \in e : j \in Int
    BY DEF e
  <2>4. Min(e) = i
    <3>. HIDE DEF e
    <3>. QED BY <2>2, <2>3, MinIs
  <2>. QED BY <1>2, <2>1, <2>4 DEF ValueUnder
<1>. QED BY <1>1, <1>2

-----------------------------------------------------------------------------
Slots(sl, s) == {v \in Var : sl[v] = s}
Values(sv, s) == {i \in 1..Len(sv) : sv[i].what = "value" /\ sv[i].value = s}
Frees(sv, s) == {i \in 1..Len(sv) : sv[i].what = "free" /\ sv[i].value = s}
References(sl, sv, s) ==
  Cardinality(Slots(sl, s)) + 2 * Cardinality(Values(sv, s)) + Cardinality(Frees(sv, s))

\* One more in a finite set.
LEMMA OneMore ==
  ASSUME NEW S, NEW T, NEW x, IsFiniteSet(S), x \notin S, T = S \cup {x}
  PROVE  Cardinality(T) = Cardinality(S) + 1 /\ Cardinality(S) \in Nat
  BY FS_AddElement, FS_CardinalityType

\* The counts of what is saved, with one more entry.
LEMMA SavedCounts ==
  ASSUME NEW sv, NEW t, NEW s, Len(sv) \in Nat, Grown(t, sv)
  PROVE  /\ Cardinality(Values(sv, s)) \in Nat /\ Cardinality(Frees(sv, s)) \in Nat
         /\ Cardinality(Values(t, s)) = Cardinality(Values(sv, s))
              + (IF t[Len(t)].what = "value" /\ t[Len(t)].value = s THEN 1 ELSE 0)
         /\ Cardinality(Frees(t, s)) = Cardinality(Frees(sv, s))
              + (IF t[Len(t)].what = "free" /\ t[Len(t)].value = s THEN 1 ELSE 0)
<1>1. /\ Len(t) = Len(sv) + 1 /\ \A i \in 1..Len(sv) : t[i] = sv[i] /\ i \in 1..Len(t)
      /\ \A i \in 1..Len(t) : i \in 1..Len(sv) \/ i = Len(t)
      /\ Len(t) \in 1..Len(t) /\ Len(t) \notin 1..Len(sv)
  BY DEF Grown
<1>2. IsFiniteSet(Values(sv, s)) /\ IsFiniteSet(Frees(sv, s))
  <2>1. IsFiniteSet(1..Len(sv))
    BY FS_Interval
  <2>. QED BY <2>1, FS_Subset DEF Values, Frees
<1>3. Cardinality(Values(sv, s)) \in Nat /\ Cardinality(Frees(sv, s)) \in Nat
  BY <1>2, FS_CardinalityType
<1>4. Cardinality(Values(t, s)) = Cardinality(Values(sv, s))
              + (IF t[Len(t)].what = "value" /\ t[Len(t)].value = s THEN 1 ELSE 0)
  <2>1. CASE t[Len(t)].what = "value" /\ t[Len(t)].value = s
    <3>1. Values(t, s) = Values(sv, s) \cup {Len(t)} /\ Len(t) \notin Values(sv, s)
      BY <1>1, <2>1 DEF Values
    <3>. QED BY <1>2, <2>1, <3>1, OneMore
  <2>2. CASE ~(t[Len(t)].what = "value" /\ t[Len(t)].value = s)
    <3>1. Values(t, s) = Values(sv, s)
      BY <1>1, <2>2 DEF Values
    <3>. QED BY <1>3, <2>2, <3>1
  <2>. QED BY <2>1, <2>2
<1>5. Cardinality(Frees(t, s)) = Cardinality(Frees(sv, s))
              + (IF t[Len(t)].what = "free" /\ t[Len(t)].value = s THEN 1 ELSE 0)
  <2>1. CASE t[Len(t)].what = "free" /\ t[Len(t)].value = s
    <3>1. Frees(t, s) = Frees(sv, s) \cup {Len(t)} /\ Len(t) \notin Frees(sv, s)
      BY <1>1, <2>1 DEF Frees
    <3>. QED BY <1>2, <2>1, <3>1, OneMore
  <2>2. CASE ~(t[Len(t)].what = "free" /\ t[Len(t)].value = s)
    <3>1. Frees(t, s) = Frees(sv, s)
      BY <1>1, <2>2 DEF Frees
    <3>. QED BY <1>3, <2>2, <3>1
  <2>. QED BY <2>1, <2>2
<1>. QED BY <1>3, <1>4, <1>5

LEMMA SlotsAre == ASSUME NEW sl, NEW s PROVE Cardinality(Slots(sl, s)) \in Nat
<1>1. IsFiniteSet(Slots(sl, s))
  BY SsAssumption, FS_Subset DEF Slots
<1>. QED BY <1>1, FS_CardinalityType

\* The counts of what the variables have, when u gets another value.
LEMMA SlotCounts ==
  ASSUME NEW sl, NEW n, NEW u \in Var, NEW new, Put(n, sl, u, new), NEW s
  PROVE  Cardinality(Slots(n, s)) =
           Cardinality(Slots(sl, s)) + (IF s = new THEN 1 ELSE 0) - (IF s = sl[u] THEN 1 ELSE 0)
<1>. DEFINE Others == {v \in Var \ {u} : sl[v] = s}
<1>1. IsFiniteSet(Others) /\ u \notin Others
  BY SsAssumption, FS_Subset
<1>2. Cardinality(Others) \in Nat /\ Cardinality(Others \cup {u}) = Cardinality(Others) + 1
  BY <1>1, FS_AddElement, FS_CardinalityType
<1>3. Slots(sl, s) = IF s = sl[u] THEN Others \cup {u} ELSE Others
  BY DEF Slots
<1>4. Slots(n, s) = IF s = new THEN Others \cup {u} ELSE Others
  BY DEF Slots, Put
<1>. HIDE DEF Others
<1>. QED BY <1>2, <1>3, <1>4

-----------------------------------------------------------------------------
\* Sets of numbers have a least, and bounded ones a greatest.
LEMMA LeastIs ==
  ASSUME NEW S, \A x \in S : x \in Nat, S # {} PROVE \E m \in S : \A x \in S : m <= x
<1>1. PICK m \in S : \A y \in S : ~ (<<y, m>> \in OpToRel(<, Nat))
  <2>1. S \subseteq Nat
    OBVIOUS
  <2>. QED BY <2>1, NatLessThanWellFounded, WFMin
<1>2. \A y \in S : ~(y < m)
  <2>1. \A y \in S : y < m => <<y, m>> \in OpToRel(<, Nat)
    BY DEF OpToRel
  <2>. QED BY <1>1, <2>1, Zenon
<1>3. \A y \in S : y \in Nat /\ m \in Nat
  OBVIOUS
<1>4. \A y \in S : m <= y
  BY <1>2, <1>3, SMT
<1>. QED BY <1>4

LEMMA GreatestIs ==
  ASSUME NEW n \in Nat, NEW S, \A x \in S : x \in 1..n, S # {} PROVE \E m \in S : \A x \in S : x <= m
<1>. DEFINE T == {n - x : x \in S}
<1>1. (\A y \in T : y \in Nat) /\ T # {}
  OBVIOUS
<1>2. \E k \in T : \A y \in T : k <= y
  <2>. HIDE DEF T
  <2>. QED BY <1>1, LeastIs
<1>3. PICK m \in S : \A y \in T : n - m <= y
  BY <1>2
<1>4. \A x \in S : n - m <= n - x
  BY <1>3
<1>. QED BY <1>4

LEMMA MaxIs ==
  ASSUME NEW n \in Nat, NEW S, \A x \in S : x \in 1..n, S # {}
  PROVE  Max(S) \in S /\ \A x \in S : x <= Max(S)
<1>. DEFINE Greatest(y) == y \in S /\ \A z \in S : y >= z
<1>1. \E m : Greatest(m)
  BY GreatestIs
<1>2. Max(S) = CHOOSE y : Greatest(y)
  BY Zenon DEF Max
<1>. HIDE DEF Greatest
<1>3. Greatest(CHOOSE y : Greatest(y))
  BY <1>1
<1>4. Greatest(Max(S))
  BY <1>2, <1>3
<1>. QED BY <1>4 DEF Greatest

-----------------------------------------------------------------------------
Entries == [what : {"value"}, var : Var, value : Value] \cup [what : {"free"}, value : Value]
           \cup [what : {"destructor"}]
Contexts == [kind : {"block", "eval", "sub"}, base : Nat, depth : Nat, before : [Var -> Value]]
Methods == {"fetch", "store", "restore"}
Callbacks == [op : Methods, var : Var, outside : Nat] \cup [op : {"destroy"}, var : {0}, outside : Nat]
Leavings == [op : {"leave"}, base : Nat, catch : Nat]
CStack == Seq(Callbacks \cup Leavings)

StacksTyped ==
  /\ slot \in [Var -> Value] /\ refs \in [Value -> Nat]
  /\ saved \in Seq(Entries) /\ scopes \in Seq(Contexts) /\ frames \in CStack
  /\ deaths \in Nat /\ localizing \in 0..2

Restores(sc, sv, sl) ==
  \A i \in 1..Len(sc) : \A v \in Var : Gives(sv, sl, sc[i].base, v, sc[i].before[v])

Counts(r, sl, sv) == \A s \in Value : r[s] = References(sl, sv, s)

\* PL_localizing is set only while a method is called that will reset it, as long
\* as none has died.
Localizes(l, fr, n) ==
  n = 0 => /\ \A k \in 1..Len(fr) : ~Unwinding(fr, k)
           /\ l # 0 => \E k \in 1..Len(fr) : fr[k].op \in Methods

SsIInv ==
  /\ StacksTyped
  /\ Stacks(scopes, frames, Len(saved))
  /\ Restores(scopes, saved, slot)
  /\ Counts(refs, slot, saved)
  /\ Localizes(localizing, frames, deaths)

\* Pushing and popping.
LEMMA PushIs ==
  ASSUME NEW S, NEW s \in Seq(S), NEW e \in S
  PROVE  /\ Append(s, e) \in Seq(S) /\ Grown(Append(s, e), s) /\ Len(s) \in Nat
         /\ Append(s, e)[Len(Append(s, e))] = e
  BY DEF Grown

LEMMA CutIs ==
  ASSUME NEW S, NEW s \in Seq(S), NEW m \in 0..Len(s)
  PROVE  SubSeq(s, 1, m) \in Seq(S) /\ Cut(SubSeq(s, 1, m), s, m)
  BY DEF Cut

LEMMA PopIs ==
  ASSUME NEW S, NEW s \in Seq(S), Len(s) > 0
  PROVE  /\ Front(s) \in Seq(S) /\ Cut(Front(s), s, Len(s) - 1) /\ Grown(s, Front(s))
         /\ Last(s) = s[Len(s)] /\ s[Len(s)] \in S /\ Len(s) \in Nat
<1>1. Len(s) \in Nat /\ Len(s) - 1 \in 0..Len(s)
  OBVIOUS
<1>2. Front(s) \in Seq(S) /\ Cut(Front(s), s, Len(s) - 1)
  BY <1>1, CutIs DEF Front
<1>. QED BY <1>1, <1>2 DEF Last, Cut, Grown

\* On the three stacks.
LEMMA PushScope ==
  ASSUME StacksTyped, NEW e \in Contexts, NEW t, t = Append(scopes, e)
  PROVE  t \in Seq(Contexts) /\ Grown(t, scopes) /\ t[Len(t)] = e /\ Len(scopes) \in Nat
<1>1. scopes \in Seq(Contexts)
  BY DEF StacksTyped
<1>. QED BY <1>1, PushIs

LEMMA PushSaved ==
  ASSUME StacksTyped, NEW e \in Entries, NEW t, t = Append(saved, e)
  PROVE  t \in Seq(Entries) /\ Grown(t, saved) /\ t[Len(t)] = e /\ Len(saved) \in Nat
<1>1. saved \in Seq(Entries)
  BY DEF StacksTyped
<1>. QED BY <1>1, PushIs

LEMMA PushFrame ==
  ASSUME StacksTyped, NEW e \in Callbacks \cup Leavings, NEW t, t = Append(frames, e)
  PROVE  t \in CStack /\ Grown(t, frames) /\ t[Len(t)] = e /\ Len(frames) \in Nat
<1>1. frames \in Seq(Callbacks \cup Leavings)
  BY DEF StacksTyped, CStack
<1>2. t \in Seq(Callbacks \cup Leavings) /\ Grown(t, frames) /\ t[Len(t)] = e /\ Len(frames) \in Nat
  BY <1>1, PushIs
<1>. QED BY <1>2 DEF CStack

\* Who runs.
LEMMA CodeIs ==
  ASSUME StacksTyped
  PROVE  /\ CodeRuns <=> Coded(frames)
         /\ frames # <<>> <=> Len(frames) > 0
         /\ scopes # <<>> <=> Len(scopes) > 0
         /\ Len(frames) \in Nat /\ Len(scopes) \in Nat /\ Len(saved) \in Nat
         /\ Above = frames[Len(frames)] /\ Last(saved) = saved[Len(saved)]
         /\ Last(scopes) = scopes[Len(scopes)]
<1>1. Len(frames) \in Nat /\ Len(scopes) \in Nat /\ Len(saved) \in Nat
  BY DEF StacksTyped, CStack
<1>2. (frames # <<>> <=> Len(frames) > 0) /\ (scopes # <<>> <=> Len(scopes) > 0)
  BY DEF StacksTyped, CStack
<1>3. Above = frames[Len(frames)] /\ Last(saved) = saved[Len(saved)] /\ Last(scopes) = scopes[Len(scopes)]
  BY DEF Above, Last
<1>. QED BY <1>1, <1>2, <1>3 DEF CodeRuns, Coded

\* The entries, contexts and frames that there are.
LEMMA PartsTyped ==
  ASSUME StacksTyped
  PROVE  /\ \A i \in 1..Len(scopes) : /\ scopes[i].base \in Nat /\ scopes[i].depth \in Nat
                                      /\ scopes[i].before \in [Var -> Value]
         /\ \A i \in 1..Len(saved) : /\ saved[i].what \in {"value", "free", "destructor"}
                                     /\ saved[i].what = "value" => saved[i].var \in Var
                                     /\ saved[i].what \in {"value", "free"} => saved[i].value \in Value
         /\ \A k \in 1..Len(frames) :
              IF frames[k].op = "leave" THEN frames[k] \in Leavings ELSE frames[k] \in Callbacks
<1>1. \A i \in 1..Len(scopes) : scopes[i] \in Contexts
  BY DEF StacksTyped
<1>2. \A i \in 1..Len(saved) : saved[i] \in Entries
  BY DEF StacksTyped
<1>3. \A k \in 1..Len(frames) : frames[k] \in Callbacks \cup Leavings
  BY DEF StacksTyped, CStack
<1>4. \A c \in Contexts : c.base \in Nat /\ c.depth \in Nat /\ c.before \in [Var -> Value]
  BY DEF Contexts
<1>5. \A e \in Entries : /\ e.what \in {"value", "free", "destructor"}
                         /\ e.what = "value" => e.var \in Var
                         /\ e.what \in {"value", "free"} => e.value \in Value
  BY DEF Entries
<1>6. \A f \in Callbacks \cup Leavings : IF f.op = "leave" THEN f \in Leavings ELSE f \in Callbacks
  BY DEF Callbacks, Leavings, Methods
<1>. QED BY <1>1, <1>2, <1>3, <1>4, <1>5, <1>6

LEMMA RestoresEnter ==
  ASSUME NEW sc, NEW d, NEW sv, NEW sl, Restores(sc, sv, sl), Grown(d, sc), Len(sc) \in Nat,
         Len(sv) \in Nat, d[Len(d)].base = Len(sv), d[Len(d)].before = sl
  PROVE  Restores(d, sv, sl)
<1>1. \A i \in 1..Len(d) : i \in 1..Len(sc) \/ i = Len(d)
  BY DEF Grown
<1>2. \A v \in Var : Gives(sv, sl, Len(sv), v, sl[v])
  BY GivesNow
<1>. QED BY <1>1, <1>2 DEF Restores, Grown

LEMMA RestoresLess ==
  ASSUME NEW sc, NEW d, NEW m, NEW sv, NEW sl, Restores(sc, sv, sl), Cut(d, sc, m), Len(sc) \in Nat
  PROVE  Restores(d, sv, sl)
  BY DEF Restores, Cut

LEMMA RestoresMore ==
  ASSUME NEW sc, NEW sv, NEW t, NEW sl, Len(sv) \in Nat, Grown(t, sv), t[Len(t)].what # "value",
         \A i \in 1..Len(sc) : sc[i].base \in Nat /\ sc[i].base <= Len(sv)
  PROVE  Restores(sc, t, sl) <=> Restores(sc, sv, sl)
  BY GivesMore DEF Restores

LEMMA LocalizesPush ==
  ASSUME NEW fr, NEW g, NEW l, NEW m, NEW n, NEW q, Localizes(l, fr, n), Len(fr) \in Nat, Grown(g, fr),
         q = 0 => n = 0 /\ ~Unwinding(g, Len(g)),
         m # 0 => l # 0 \/ g[Len(g)].op \in Methods
  PROVE  Localizes(m, g, q)
<1>. SUFFICES ASSUME q = 0 PROVE Localizes(m, g, q)
  BY DEF Localizes
<1>1. \A k \in 1..Len(g) : k \in 1..Len(fr) \/ k = Len(g)
  BY DEF Grown
<1>2. \A k \in 1..Len(fr) : g[k] = fr[k] /\ k \in 1..Len(g)
  BY DEF Grown
<1>3. \A k \in 1..Len(g) : ~Unwinding(g, k)
  BY <1>1, <1>2 DEF Localizes, Unwinding
<1>4. m # 0 => \E k \in 1..Len(g) : g[k].op \in Methods
  <2>1. Len(g) \in 1..Len(g)
    BY DEF Grown
  <2>. QED BY <1>2, <2>1 DEF Localizes
<1>. QED BY <1>3, <1>4 DEF Localizes

LEMMA LocalizesPop ==
  ASSUME NEW fr, NEW g, NEW l, NEW m, NEW n, Localizes(l, fr, n), Len(fr) \in Nat, Len(fr) > 0,
         Cut(g, fr, Len(fr) - 1), m = 0 \/ (m = l /\ fr[Len(fr)].op \notin Methods)
  PROVE  Localizes(m, g, n)
<1>1. \A k \in 1..Len(fr) : k \in 1..Len(g) \/ k = Len(fr)
  BY DEF Cut
<1>2. \A k \in 1..Len(g) : g[k] = fr[k] /\ k \in 1..Len(fr)
  BY DEF Cut
<1>. QED BY <1>1, <1>2 DEF Localizes, Unwinding

-----------------------------------------------------------------------------
\* The counts p are r, but for the change that f makes to those of a and b.
Raised(p, r, a, new) ==
  p \in [Value -> Nat] /\ \A s \in Value : p[s] = IF s = new THEN 1 ELSE IF s = a THEN r[s] + 1 ELSE r[s]
Dropped(p, r, a) ==
  p \in [Value -> Int] /\ \A s \in Value : p[s] = r[s] - (IF s = a THEN 1 ELSE 0)

\* The parts of the count of s.
LEMMA PartsCounted ==
  ASSUME NEW sl, NEW sv, NEW s, Len(sv) \in Nat
  PROVE  /\ Cardinality(Slots(sl, s)) \in Nat /\ Cardinality(Values(sv, s)) \in Nat
         /\ Cardinality(Frees(sv, s)) \in Nat
<1>1. IsFiniteSet(1..Len(sv))
  BY FS_Interval
<1>2. IsFiniteSet(Values(sv, s)) /\ IsFiniteSet(Frees(sv, s)) /\ IsFiniteSet(Slots(sl, s))
  BY <1>1, SsAssumption, FS_Subset DEF Values, Frees, Slots
<1>. QED BY <1>2, FS_CardinalityType

\* A value that a variable has is referenced.
LEMMA SlotCounted ==
  ASSUME NEW r, NEW sl \in [Var -> Value], NEW sv, NEW u \in Var, Len(sv) \in Nat, Counts(r, sl, sv)
  PROVE  r[sl[u]] >= 1
<1>1. Cardinality(Slots(sl, sl[u])) # 0
  <2>1. IsFiniteSet(Slots(sl, sl[u])) /\ u \in Slots(sl, sl[u])
    BY SsAssumption, FS_Subset DEF Slots
  <2>. QED BY <2>1, FS_EmptySet
<1>2. /\ Cardinality(Slots(sl, sl[u])) \in Nat /\ Cardinality(Values(sv, sl[u])) \in Nat
      /\ Cardinality(Frees(sv, sl[u])) \in Nat
  BY PartsCounted
<1>3. r[sl[u]] = Cardinality(Slots(sl, sl[u])) + 2 * Cardinality(Values(sv, sl[u]))
                 + Cardinality(Frees(sv, sl[u]))
  BY DEF Counts, References
<1>. QED BY <1>1, <1>2, <1>3

\* The counts when the value of u is saved, and it gets a new one.
LEMMA SwapCounts ==
  ASSUME NEW r, NEW p, NEW sl \in [Var -> Value], NEW n, NEW sv, NEW t, NEW u \in Var,
         NEW new \in Value, Len(sv) \in Nat, Grown(t, sv), t[Len(t)].what = "value",
         t[Len(t)].value = sl[u], Counts(r, sl, sv), Put(n, sl, u, new),
         r[new] = 0, Raised(p, r, sl[u], new)
  PROVE  Counts(p, n, t)
<1>1. new # sl[u]
  BY SlotCounted
<1>. SUFFICES ASSUME NEW s \in Value PROVE p[s] = References(n, t, s)
  BY DEF Counts
<1>2. PICK c : c = Cardinality(Slots(sl, s))
  OBVIOUS
<1>3. PICK w : w = Cardinality(Values(sv, s))
  OBVIOUS
<1>4. PICK f : f = Cardinality(Frees(sv, s))
  OBVIOUS
<1>5. c \in Nat /\ w \in Nat /\ f \in Nat
  BY <1>2, <1>3, <1>4, PartsCounted
<1>6. r[s] = c + 2 * w + f
  BY <1>2, <1>3, <1>4 DEF Counts, References
<1>7. Cardinality(Slots(n, s)) = c + (IF s = new THEN 1 ELSE 0) - (IF s = sl[u] THEN 1 ELSE 0)
  BY <1>2, SlotCounts
<1>8. /\ Cardinality(Values(t, s)) = w + (IF s = sl[u] THEN 1 ELSE 0)
      /\ Cardinality(Frees(t, s)) = f
  BY <1>3, <1>4, <1>5, SavedCounts
<1>9. p[s] = IF s = new THEN 1 ELSE IF s = sl[u] THEN r[s] + 1 ELSE r[s]
  BY DEF Raised
<1>10. References(n, t, s) = (c + (IF s = new THEN 1 ELSE 0) - (IF s = sl[u] THEN 1 ELSE 0))
                             + 2 * (w + (IF s = sl[u] THEN 1 ELSE 0)) + f
  BY <1>7, <1>8 DEF References
<1>11. CASE s = new
  BY <1>1, <1>5, <1>6, <1>9, <1>10, <1>11
<1>12. CASE s = sl[u]
  BY <1>1, <1>5, <1>6, <1>9, <1>10, <1>12
<1>13. CASE s # new /\ s # sl[u]
  BY <1>5, <1>6, <1>9, <1>10, <1>13
<1>. QED BY <1>11, <1>12, <1>13

\* The counts when the value is put back and the entry stays, to free it later.
LEMMA BackCounts ==
  ASSUME NEW r, NEW p, NEW sl \in [Var -> Value], NEW n, NEW sv, NEW t, NEW u \in Var,
         NEW old \in Value, Len(t) \in Nat, Grown(sv, t), sv[Len(sv)].what = "value",
         sv[Len(sv)].value = old, Counts(r, sl, sv), Put(n, sl, u, old), Dropped(p, r, sl[u]),
         NEW d, Grown(d, t), d[Len(d)].what = "free", d[Len(d)].value = old
  PROVE  Counts(p, n, d) /\ p \in [Value -> Nat]
<1>1. ASSUME NEW s \in Value PROVE p[s] = References(n, d, s) /\ p[s] \in Nat
  <2>1. PICK c : c = Cardinality(Slots(sl, s))
    OBVIOUS
  <2>2. PICK w : w = Cardinality(Values(t, s))
    OBVIOUS
  <2>3. PICK f : f = Cardinality(Frees(t, s))
    OBVIOUS
  <2>4. PICK b : b = Cardinality(Slots(n, s))
    OBVIOUS
  <2>5. c \in Nat /\ w \in Nat /\ f \in Nat /\ b \in Nat
    BY <2>1, <2>2, <2>3, <2>4, PartsCounted
  <2>6. r[s] = c + 2 * (w + (IF s = old THEN 1 ELSE 0)) + f
    <3>1. Cardinality(Values(sv, s)) = w + (IF s = old THEN 1 ELSE 0) /\ Cardinality(Frees(sv, s)) = f
      BY <2>2, <2>3, <2>5, SavedCounts
    <3>. QED BY <2>1, <3>1 DEF Counts, References
  <2>7. b = c + (IF s = old THEN 1 ELSE 0) - (IF s = sl[u] THEN 1 ELSE 0)
    BY <2>1, <2>4, SlotCounts
  <2>8. Cardinality(Values(d, s)) = w /\ Cardinality(Frees(d, s)) = f + (IF s = old THEN 1 ELSE 0)
    BY <2>2, <2>3, <2>5, SavedCounts
  <2>9. References(n, d, s) = b + 2 * w + (f + (IF s = old THEN 1 ELSE 0))
    BY <2>4, <2>8 DEF References
  <2>10. p[s] = r[s] - (IF s = sl[u] THEN 1 ELSE 0)
    BY DEF Dropped
  <2>. HIDE <2>1, <2>2, <2>3, <2>4, <2>8
  <2>11. CASE s = old
    BY <2>5, <2>6, <2>7, <2>9, <2>10, <2>11
  <2>12. CASE s # old
    BY <2>5, <2>6, <2>7, <2>9, <2>10, <2>12
  <2>. QED BY <2>11, <2>12
<1>. QED BY <1>1 DEF Counts, Dropped

\* The counts when what is to be freed is freed.
LEMMA FreeCounts ==
  ASSUME NEW r, NEW p, NEW sl, NEW sv, NEW t, NEW old \in Value, Len(t) \in Nat, Grown(sv, t),
         sv[Len(sv)].what = "free", sv[Len(sv)].value = old, Counts(r, sl, sv), Dropped(p, r, old)
  PROVE  Counts(p, sl, t) /\ p \in [Value -> Nat]
<1>1. ASSUME NEW s \in Value PROVE p[s] = References(sl, t, s) /\ p[s] \in Nat
  <2>1. PICK c : c = Cardinality(Slots(sl, s))
    OBVIOUS
  <2>2. PICK w : w = Cardinality(Values(t, s))
    OBVIOUS
  <2>3. PICK f : f = Cardinality(Frees(t, s))
    OBVIOUS
  <2>4. c \in Nat /\ w \in Nat /\ f \in Nat
    BY <2>1, <2>2, <2>3, PartsCounted
  <2>5. r[s] = c + 2 * w + (f + (IF s = old THEN 1 ELSE 0))
    <3>1. Cardinality(Values(sv, s)) = w /\ Cardinality(Frees(sv, s)) = f + (IF s = old THEN 1 ELSE 0)
      BY <2>2, <2>3, <2>4, SavedCounts
    <3>. QED BY <2>1, <3>1 DEF Counts, References
  <2>6. References(sl, t, s) = c + 2 * w + f
    BY <2>1, <2>2, <2>3 DEF References
  <2>7. p[s] = r[s] - (IF s = old THEN 1 ELSE 0)
    BY DEF Dropped
  <2>. HIDE <2>1, <2>2, <2>3
  <2>8. CASE s = old
    BY <2>4, <2>5, <2>6, <2>7, <2>8
  <2>9. CASE s # old
    BY <2>4, <2>5, <2>6, <2>7, <2>9
  <2>. QED BY <2>8, <2>9
<1>. QED BY <1>1 DEF Counts, Dropped

\* The counts when an entry of another kind goes, or comes.
LEMMA OtherCounts ==
  ASSUME NEW r, NEW sl, NEW sv, NEW t, Len(sv) \in Nat, Grown(t, sv), t[Len(t)].what = "destructor"
  PROVE  Counts(r, sl, t) <=> Counts(r, sl, sv)
<1>1. \A s \in Value : References(sl, t, s) = References(sl, sv, s)
  <2>. SUFFICES ASSUME NEW s \in Value PROVE References(sl, t, s) = References(sl, sv, s)
    OBVIOUS
  <2>1. /\ Cardinality(Values(t, s)) = Cardinality(Values(sv, s)) + 0
        /\ Cardinality(Frees(t, s)) = Cardinality(Frees(sv, s)) + 0
    BY SavedCounts
  <2>2. Cardinality(Values(sv, s)) \in Nat /\ Cardinality(Frees(sv, s)) \in Nat
    BY PartsCounted
  <2>. QED BY <2>1, <2>2 DEF References
<1>. QED BY <1>1 DEF Counts

LEMMA Arith == \A a, b, c, d \in Nat : a + 2 * b + c = d => d \in Nat
  OBVIOUS

\* A scope is entered while nothing else changes.
LEMMA EnterStep ==
  ASSUME SsIInv, NEW kind \in {"block", "eval"}, Enter(kind) PROVE SsIInv'
<1>0. /\ StacksTyped /\ Stacks(scopes, frames, Len(saved)) /\ Restores(scopes, saved, slot)
      /\ Counts(refs, slot, saved) /\ Localizes(localizing, frames, deaths)
  BY DEF SsIInv
<1>1. PICK c : c = Scope(kind, Len(saved), Len(frames))
  OBVIOUS
<1>2. /\ Coded(frames) /\ scopes' = Append(scopes, c)
      /\ UNCHANGED <<slot, refs, saved, frames, localizing, saves, deaths>>
  BY <1>0, <1>1, CodeIs DEF Enter
<1>3. /\ c \in Contexts /\ c.base = Len(saved) /\ c.depth = Len(frames) /\ c.before = slot
  <2>1. Len(saved) \in Nat /\ Len(frames) \in Nat /\ slot \in [Var -> Value]
    BY <1>0, CodeIs DEF StacksTyped
  <2>. QED BY <1>1, <2>1 DEF Scope, Contexts
<1>4. /\ scopes' \in Seq(Contexts) /\ Grown(scopes', scopes) /\ scopes'[Len(scopes')] = c
      /\ Len(scopes) \in Nat /\ Len(saved) \in Nat
  BY <1>0, <1>2, <1>3, PushScope, CodeIs
<1>5. Stacks(scopes', frames, Len(saved))
  BY <1>0, <1>2, <1>3, <1>4, EnterKeeps
<1>6. Restores(scopes', saved, slot)
  BY <1>0, <1>3, <1>4, RestoresEnter
<1>. QED BY <1>0, <1>2, <1>4, <1>5, <1>6 DEF SsIInv, StacksTyped

\* Something else is saved.
LEMMA SaveDestructorStep == ASSUME SsIInv, SaveDestructor PROVE SsIInv'
<1>0. /\ StacksTyped /\ Stacks(scopes, frames, Len(saved)) /\ Restores(scopes, saved, slot)
      /\ Counts(refs, slot, saved) /\ Localizes(localizing, frames, deaths)
  BY DEF SsIInv
<1>1. PICK e : e = [what |-> "destructor"]
  OBVIOUS
<1>2. /\ saved' = Append(saved, e) /\ UNCHANGED <<slot, refs, scopes, frames, localizing, deaths>>
      /\ e \in Entries /\ e.what = "destructor"
  BY <1>1 DEF SaveDestructor, Entries
<1>3. /\ saved' \in Seq(Entries) /\ Grown(saved', saved) /\ saved'[Len(saved')] = e
      /\ Len(saved) \in Nat
  BY <1>0, <1>2, PushSaved
<1>4. \A i \in 1..Len(scopes) : scopes[i].base \in Nat /\ scopes[i].base <= Len(saved)
  BY <1>0, PartsTyped DEF Stacks, InOrder
<1>5. Stacks(scopes, frames, Len(saved'))
  <2>1. Len(saved') \in Nat /\ scopes[Len(scopes)].base <= Len(saved')
    <3>1. Len(scopes) \in 1..Len(scopes)
      BY <1>0, CodeIs DEF Stacks, InOrder
    <3>. QED BY <1>3, <1>4, <3>1 DEF Grown
  <2>. QED BY <1>0, <1>3, <2>1, SavedKeeps
<1>6. Restores(scopes, saved', slot)
  BY <1>0, <1>2, <1>3, <1>4, RestoresMore
<1>7. Counts(refs, slot, saved')
  <2>1. PICK t : t = saved'
    OBVIOUS
  <2>2. Grown(t, saved) /\ t[Len(t)].what = "destructor"
    BY <1>2, <1>3, <2>1
  <2>3. Counts(refs, slot, t)
    BY <1>0, <1>3, <2>2, OtherCounts
  <2>. QED BY <2>1, <2>3
<1>. QED BY <1>0, <1>2, <1>3, <1>5, <1>6, <1>7 DEF SsIInv, StacksTyped

\* The innermost context begins to be left.
LEMMA LeaveStep == ASSUME SsIInv, Leave PROVE SsIInv'
<1>0. /\ StacksTyped /\ Stacks(scopes, frames, Len(saved)) /\ Restores(scopes, saved, slot)
      /\ Counts(refs, slot, saved) /\ Localizes(localizing, frames, deaths)
  BY DEF SsIInv
<1>1. PICK f : f = [op |-> "leave", base |-> Last(scopes).base, catch |-> 0]
  OBVIOUS
<1>2. /\ Coded(frames) /\ frames' = Append(frames, f)
      /\ Len(scopes) > IF Len(frames) = 0 THEN 1 ELSE frames[Len(frames)].outside
      /\ UNCHANGED <<slot, refs, saved, scopes, localizing, saves, deaths>>
  <2>1. Outside = IF Len(frames) = 0 THEN 1 ELSE frames[Len(frames)].outside
    <3>1. (frames = <<>> <=> Len(frames) = 0) /\ Above = frames[Len(frames)]
      BY <1>0, CodeIs
    <3>. QED BY <3>1 DEF Outside
  <2>. QED BY <1>0, <1>1, <2>1, CodeIs DEF Leave
<1>3. /\ f \in Leavings /\ f.op = "leave" /\ f.base = scopes[Len(scopes)].base /\ f.catch = 0
      /\ Len(scopes) \in 1..Len(scopes)
  <2>1. Last(scopes).base \in Nat /\ Last(scopes) = scopes[Len(scopes)] /\ Len(scopes) \in 1..Len(scopes)
    BY <1>0, CodeIs, PartsTyped DEF Stacks, InOrder
  <2>. QED BY <1>1, <2>1 DEF Leavings
<1>4. /\ frames' \in CStack /\ Grown(frames', frames) /\ frames'[Len(frames')] = f
      /\ Len(frames) \in Nat /\ Len(saved) \in Nat
  BY <1>0, <1>2, <1>3, PushFrame, CodeIs
<1>5. Stacks(scopes, frames', Len(saved))
  <2>1. PICK g : g = frames'
    OBVIOUS
  <2>2. /\ Grown(g, frames) /\ g[Len(g)].op = "leave" /\ g[Len(g)].base = scopes[Len(scopes)].base
        /\ g[Len(g)].catch = 0
    BY <1>3, <1>4, <2>1
  <2>3. Stacks(scopes, g, Len(saved))
    BY <1>0, <1>2, <1>4, <2>2, LeaveKeeps
  <2>. QED BY <2>1, <2>3
<1>6. Localizes(localizing, frames', deaths)
  <2>1. ~Unwinding(frames', Len(frames')) /\ Len(frames) \in Nat
    BY <1>3, <1>4 DEF Unwinding
  <2>2. CASE deaths = 0
    BY <1>0, <1>4, <2>1, <2>2, LocalizesPush
  <2>3. CASE deaths # 0
    BY <2>3 DEF Localizes
  <2>. QED BY <2>2, <2>3
<1>. QED BY <1>0, <1>2, <1>4, <1>5, <1>6 DEF SsIInv, StacksTyped

\* A die.
LEMMA DieStep == ASSUME SsIInv, Die PROVE SsIInv'
<1>0. /\ StacksTyped /\ Stacks(scopes, frames, Len(saved)) /\ Restores(scopes, saved, slot)
      /\ Counts(refs, slot, saved) /\ Localizes(localizing, frames, deaths)
  BY DEF SsIInv
<1>1. PICK c : c = Catcher
  OBVIOUS
<1>2. PICK f : f = [op |-> "leave", base |-> Last(scopes).base, catch |-> c]
  OBVIOUS
<1>3. /\ Coded(frames) /\ frames' = Append(frames, f) /\ c # 0 /\ deaths' = deaths + 1
      /\ UNCHANGED <<slot, refs, saved, scopes, localizing, saves>>
  BY <1>0, <1>1, <1>2, CodeIs DEF Die
<1>4. /\ c \in 1..Len(scopes) /\ scopes[c].kind = "eval"
      /\ \A i \in 1..Len(scopes) : scopes[i].kind = "eval" => i <= c
  <2>. DEFINE e == {i \in DOMAIN scopes : scopes[i].kind = "eval"}
  <2>1. DOMAIN scopes = 1..Len(scopes) /\ Len(scopes) \in Nat
    BY <1>0 DEF StacksTyped
  <2>2. e # {} /\ c = Max(e)
    BY <1>1, <1>3 DEF Catcher
  <2>3. Max(e) \in e /\ \A x \in e : x <= Max(e)
    <3>1. \A x \in e : x \in 1..Len(scopes)
      BY <2>1
    <3>. HIDE DEF e
    <3>. QED BY <2>1, <2>2, <3>1, MaxIs
  <2>. QED BY <2>1, <2>2, <2>3
<1>5. /\ f \in Leavings /\ f.op = "leave" /\ f.base = scopes[Len(scopes)].base /\ f.catch = c /\ c \in Nat
  <2>1. Last(scopes).base \in Nat /\ Last(scopes) = scopes[Len(scopes)]
    BY <1>0, CodeIs, PartsTyped DEF Stacks, InOrder
  <2>. QED BY <1>2, <1>4, <2>1 DEF Leavings
<1>6. /\ frames' \in CStack /\ Grown(frames', frames) /\ frames'[Len(frames')] = f
      /\ Len(frames) \in Nat /\ Len(saved) \in Nat
  BY <1>0, <1>3, <1>5, PushFrame, CodeIs
<1>7. Stacks(scopes, frames', Len(saved))
  BY <1>0, <1>3, <1>4, <1>5, <1>6, LeaveKeeps
<1>8. deaths' \in Nat /\ Localizes(localizing, frames', deaths')
  BY <1>0, <1>3 DEF StacksTyped, Localizes
<1>. QED BY <1>0, <1>3, <1>6, <1>7, <1>8 DEF SsIInv, StacksTyped

\* A callback has returned: a destructor, or a method, which ends the localizing.
LEMMA ReturnStep == ASSUME SsIInv, Stored \/ Destructed PROVE SsIInv'
<1>0. /\ StacksTyped /\ Stacks(scopes, frames, Len(saved)) /\ Restores(scopes, saved, slot)
      /\ Counts(refs, slot, saved) /\ Localizes(localizing, frames, deaths)
  BY DEF SsIInv
<1>1. /\ frames # <<>> /\ Above.op \in {"store", "restore", "destroy"} /\ Len(scopes) = Above.outside
      /\ frames' = Front(frames)
      /\ localizing' = 0 \/ (localizing' = localizing /\ Above.op = "destroy")
      /\ UNCHANGED <<slot, refs, saved, scopes, saves, deaths>>
  BY DEF Stored, Destructed, Runs
<1>2. /\ Len(frames) > 0 /\ frames[Len(frames)].op # "leave" /\ frames[Len(frames)].outside = Len(scopes)
      /\ localizing' = 0 \/ (localizing' = localizing /\ frames[Len(frames)].op \notin Methods)
      /\ frames' = Front(frames) /\ Len(frames) \in Nat /\ Len(saved) \in Nat
  <2>1. /\ Above = frames[Len(frames)] /\ Len(frames) > 0
        /\ Len(frames) \in Nat /\ Len(saved) \in Nat
    BY <1>0, <1>1, CodeIs
  <2>2. frames[Len(frames)].op = "destroy" => frames[Len(frames)].op \notin Methods
    BY DEF Methods
  <2>3. frames[Len(frames)].op # "leave" /\ frames[Len(frames)].outside = Len(scopes)
    BY <1>1, <2>1
  <2>4. localizing' = 0 \/ (localizing' = localizing /\ frames[Len(frames)].op \notin Methods)
    BY <1>1, <2>1, <2>2
  <2>. QED BY <1>1, <2>1, <2>3, <2>4
<1>3. frames' \in CStack /\ Cut(frames', frames, Len(frames) - 1)
  BY <1>0, <1>2, PopIs DEF StacksTyped, CStack
<1>4. Stacks(scopes, frames', Len(saved))
  BY <1>0, <1>2, <1>3, ReturnKeeps
<1>5. Localizes(localizing', frames', deaths)
  BY <1>0, <1>2, <1>3, LocalizesPop
<1>6. localizing' \in 0..2
  BY <1>0, <1>1 DEF StacksTyped
<1>. QED BY <1>0, <1>1, <1>3, <1>4, <1>5, <1>6 DEF SsIInv, StacksTyped

-----------------------------------------------------------------------------
\* What Swap does.
LEMMA SwapIs ==
  ASSUME SsIInv, NEW v \in Var, Swap(v)
  PROVE  /\ saved' \in Seq(Entries) /\ Len(saved') \in Nat
         /\ slot' \in [Var -> Value] /\ refs' \in [Value -> Nat]
         /\ Counts(refs', slot', saved') /\ Restores(scopes, saved', slot')
         /\ Stacks(scopes, frames, Len(saved'))
<1>0. /\ StacksTyped /\ Stacks(scopes, frames, Len(saved)) /\ Restores(scopes, saved, slot)
      /\ Counts(refs, slot, saved)
  BY DEF SsIInv
<1>1. PICK new : new = CHOOSE s \in Free(refs) : \A t \in Free(refs) : s <= t
  OBVIOUS
<1>2. PICK e : e = [what |-> "value", var |-> v, value |-> slot[v]]
  OBVIOUS
<1>3. /\ Free(refs) # {} /\ saved' = Append(saved, e)
      /\ refs' = [refs EXCEPT ![slot[v]] = @ + 1, ![new] = 1]
      /\ slot' = [slot EXCEPT ![v] = new]
  BY <1>1, <1>2 DEF Swap
<1>4. new \in Value /\ refs[new] = 0
  <2>1. \A x \in Free(refs) : x \in Nat
    BY SsAssumption DEF Free, Value
  <2>2. \E s \in Free(refs) : \A t \in Free(refs) : s <= t
    BY <1>3, <2>1, LeastIs
  <2>3. new \in Free(refs)
    BY <1>1, <2>2
  <2>. QED BY <2>3 DEF Free
<1>5. slot \in [Var -> Value] /\ refs \in [Value -> Nat] /\ slot[v] \in Value
  BY <1>0 DEF StacksTyped
<1>6. e \in Entries /\ e.what = "value" /\ e.var = v /\ e.value = slot[v]
  BY <1>2, <1>5 DEF Entries
<1>7. PICK t : t = saved'
  OBVIOUS
<1>8. t \in Seq(Entries) /\ Grown(t, saved) /\ t[Len(t)] = e /\ Len(saved) \in Nat /\ Len(t) \in Nat
  <2>1. /\ Append(saved, e) \in Seq(Entries) /\ Grown(Append(saved, e), saved) /\ Len(saved) \in Nat
        /\ Append(saved, e)[Len(Append(saved, e))] = e
    BY <1>0, <1>6, PushIs DEF StacksTyped
  <2>. QED BY <1>3, <1>7, <2>1 DEF Grown
<1>9. PICK n : n = slot'
  OBVIOUS
<1>10. PICK p : p = refs'
  OBVIOUS
<1>11. Put(n, slot, v, new)
  BY <1>3, <1>4, <1>5, <1>9 DEF Put
<1>12. Raised(p, refs, slot[v], new)
  BY <1>3, <1>4, <1>5, <1>10 DEF Raised
<1>13. Counts(p, n, t)
  BY <1>0, <1>4, <1>5, <1>6, <1>8, <1>11, <1>12, SwapCounts
<1>14. \A i \in 1..Len(scopes) : scopes[i].base \in Nat /\ scopes[i].base <= Len(saved)
  BY <1>0, PartsTyped DEF Stacks, InOrder
<1>15. Restores(scopes, t, n)
  <2>. SUFFICES ASSUME NEW i \in 1..Len(scopes), NEW w \in Var
                PROVE  Gives(t, n, scopes[i].base, w, scopes[i].before[w])
    BY DEF Restores
  <2>1. Gives(saved, slot, scopes[i].base, w, scopes[i].before[w])
    BY <1>0 DEF Restores
  <2>. QED BY <1>5, <1>6, <1>8, <1>11, <1>14, <2>1, GivesSaved
<1>16. Stacks(scopes, frames, Len(t))
  <2>1. Len(scopes) \in 1..Len(scopes)
    BY <1>0, CodeIs DEF Stacks, InOrder
  <2>2. scopes[Len(scopes)].base <= Len(t)
    BY <1>8, <1>14, <2>1 DEF Grown
  <2>. QED BY <1>0, <1>8, <2>2, SavedKeeps
<1>. QED BY <1>7, <1>8, <1>9, <1>10, <1>11, <1>12, <1>13, <1>15, <1>16 DEF Put, Raised

\* What Call does, to stacks sv and values sl that are right.
LEMMA CallIs ==
  ASSUME StacksTyped, NEW op \in Methods, NEW v \in Var, NEW sl \in [Var -> Value], NEW sv,
         Len(sv) \in Nat, Call(op, v, sl, sv), Stacks(scopes, frames, Len(sv)),
         Restores(scopes, sv, sl), Localizes(localizing, frames, deaths), NEW m
  PROVE  /\ scopes' \in Seq(Contexts) /\ frames' \in CStack
         /\ Stacks(scopes', frames', Len(sv)) /\ Restores(scopes', sv, sl)
         /\ Localizes(m, frames', deaths)
<1>1. PICK f : f = [op |-> op, var |-> v, outside |-> Len(scopes)]
  OBVIOUS
<1>2. PICK c : c = [kind |-> "sub", base |-> Len(sv), depth |-> Len(frames) + 1, before |-> sl]
  OBVIOUS
<1>3. frames' = Append(frames, f) /\ scopes' = Append(scopes, c)
  BY <1>1, <1>2 DEF Call
<1>4. Len(frames) \in Nat /\ Len(scopes) \in Nat
  BY CodeIs
<1>5. /\ f \in Callbacks \cup Leavings /\ f.op = op /\ f.outside = Len(scopes) /\ op # "leave"
      /\ c \in Contexts /\ c.base = Len(sv) /\ c.depth = Len(frames) + 1 /\ c.before = sl
  BY <1>1, <1>2, <1>4 DEF Callbacks, Contexts, Methods
<1>6. PICK g : g = frames'
  OBVIOUS
<1>7. PICK d : d = scopes'
  OBVIOUS
<1>8. g \in CStack /\ Grown(g, frames) /\ g[Len(g)] = f
  BY <1>3, <1>5, <1>6, PushFrame
<1>9. d \in Seq(Contexts) /\ Grown(d, scopes) /\ d[Len(d)] = c
  BY <1>3, <1>5, <1>7, PushScope
<1>10. Stacks(scopes, g, Len(sv))
  BY <1>5, <1>8, CallKeeps
<1>11. Stacks(d, g, Len(sv))
  <2>1. Coded(g) /\ Len(g) = Len(frames) + 1
    BY <1>5, <1>8 DEF Coded, Grown
  <2>. QED BY <1>5, <1>9, <1>10, <2>1, EnterKeeps
<1>12. Restores(d, sv, sl)
  BY <1>4, <1>5, <1>9, RestoresEnter
<1>13. Localizes(m, g, deaths)
  <2>1. g[Len(g)].op \in Methods /\ ~Unwinding(g, Len(g))
    BY <1>5, <1>8 DEF Unwinding
  <2>2. CASE deaths = 0
    BY <1>4, <1>8, <2>1, <2>2, LocalizesPush
  <2>3. CASE deaths # 0
    BY <2>3 DEF Localizes
  <2>. QED BY <2>2, <2>3
<1>. QED BY <1>6, <1>7, <1>8, <1>9, <1>11, <1>12, <1>13

LEMMA LocalStep == ASSUME SsIInv, NEW v \in Var, Local(v) PROVE SsIInv'
<1>0. /\ StacksTyped /\ Stacks(scopes, frames, Len(saved)) /\ Restores(scopes, saved, slot)
      /\ Counts(refs, slot, saved) /\ Localizes(localizing, frames, deaths)
  BY DEF SsIInv
<1>1. CASE v \in TiedVars
  <2>1. /\ localizing' = 1 /\ Call("fetch", v, slot, saved) /\ UNCHANGED <<slot, refs, saved, deaths>>
    BY <1>1 DEF Local
  <2>2. slot \in [Var -> Value] /\ Len(saved) \in Nat /\ "fetch" \in Methods
    BY <1>0, CodeIs DEF StacksTyped, Methods
  <2>3. /\ scopes' \in Seq(Contexts) /\ frames' \in CStack
        /\ Stacks(scopes', frames', Len(saved)) /\ Restores(scopes', saved, slot)
        /\ Localizes(1, frames', deaths)
    BY <1>0, <2>1, <2>2, CallIs
  <2>. QED BY <1>0, <2>1, <2>3 DEF SsIInv, StacksTyped
<1>2. CASE v \notin TiedVars
  <2>1. Swap(v) /\ UNCHANGED <<scopes, frames, localizing, deaths>>
    BY <1>2 DEF Local
  <2>2. /\ saved' \in Seq(Entries) /\ Len(saved') \in Nat
        /\ slot' \in [Var -> Value] /\ refs' \in [Value -> Nat]
        /\ Counts(refs', slot', saved') /\ Restores(scopes, saved', slot')
        /\ Stacks(scopes, frames, Len(saved'))
    BY <2>1, SwapIs
  <2>. QED BY <1>0, <2>1, <2>2 DEF SsIInv, StacksTyped
<1>. QED BY <1>1, <1>2

\* FETCH is back: the value is saved, and STORE is called.
LEMMA FetchedStep == ASSUME SsIInv, Fetched PROVE SsIInv'
<1>0. /\ StacksTyped /\ Stacks(scopes, frames, Len(saved)) /\ Restores(scopes, saved, slot)
      /\ Counts(refs, slot, saved) /\ Localizes(localizing, frames, deaths)
  BY DEF SsIInv
<1>1. /\ frames # <<>> /\ Above.op = "fetch" /\ Swap(Above.var) /\ localizing' = 1
      /\ frames' = [frames EXCEPT ![Len(frames)].op = "store"]
      /\ scopes' = Append(scopes, [kind |-> "sub", base |-> Len(saved'), depth |-> Len(frames),
                                   before |-> slot'])
      /\ UNCHANGED <<saves, deaths>>
  BY DEF Fetched, Runs
<1>2. /\ Len(frames) \in 1..Len(frames) /\ Above = frames[Len(frames)] /\ Len(scopes) \in Nat
      /\ frames[Len(frames)] \in Callbacks /\ Len(frames) \in Nat
  <2>1. /\ Len(frames) \in Nat /\ Len(frames) > 0 /\ Above = frames[Len(frames)] /\ Len(scopes) \in Nat
    BY <1>0, <1>1, CodeIs
  <2>2. Len(frames) \in 1..Len(frames)
    BY <2>1
  <2>. QED BY <1>0, <1>1, <2>1, <2>2, PartsTyped
<1>3. Above.var \in Var /\ Above.outside \in Nat
  BY <1>1, <1>2 DEF Callbacks, Methods
<1>4. /\ saved' \in Seq(Entries) /\ Len(saved') \in Nat
      /\ slot' \in [Var -> Value] /\ refs' \in [Value -> Nat]
      /\ Counts(refs', slot', saved') /\ Restores(scopes, saved', slot')
      /\ Stacks(scopes, frames, Len(saved'))
  BY <1>1, <1>3, SwapIs
<1>5. PICK g : g = frames'
  OBVIOUS
<1>6. PICK f : f = [op |-> "store", var |-> Above.var, outside |-> Above.outside]
  OBVIOUS
<1>7. f \in Callbacks \cup Leavings /\ f.op = "store" /\ f.outside = frames[Len(frames)].outside
  BY <1>2, <1>3, <1>6 DEF Callbacks, Methods
<1>8. frames \in Seq(Callbacks \cup Leavings)
  BY <1>0 DEF StacksTyped, CStack
<1>9. [frames[Len(frames)] EXCEPT !.op = "store"] = f
  <2>1. \A h \in Callbacks : [h EXCEPT !.op = "store"] = [op |-> "store", var |-> h.var, outside |-> h.outside]
    BY DEF Callbacks
  <2>. QED BY <1>2, <1>6, <2>1
<1>10. /\ g \in Seq(Callbacks \cup Leavings) /\ Len(g) = Len(frames) /\ g[Len(frames)] = f
       /\ \A k \in 1..Len(frames) : k # Len(frames) => g[k] = frames[k]
  <2>1. g = [frames EXCEPT ![Len(frames)] = f]
    BY <1>1, <1>5, <1>9
  <2>. QED BY <1>2, <1>7, <1>8, <2>1
<1>11. Stacks(scopes, g, Len(saved'))
  <2>1. frames[Len(frames)].op # "leave"
    BY <1>1, <1>2
  <2>2. \A k \in 1..Len(frames) :
           /\ g[k].op = "leave" <=> frames[k].op = "leave"
           /\ frames[k].op = "leave" => g[k] = frames[k]
           /\ frames[k].op # "leave" => g[k].outside = frames[k].outside
    BY <1>7, <1>10, <2>1
  <2>3. PICK n : n = Len(saved')
    OBVIOUS
  <2>4. Stacks(scopes, g, n)
    BY <1>4, <1>10, <2>2, <2>3, RenameKeeps
  <2>. QED BY <2>3, <2>4
<1>12. PICK t : t = saved'
  OBVIOUS
<1>13. PICK sl : sl = slot'
  OBVIOUS
<1>14. PICK c : c = [kind |-> "sub", base |-> Len(t), depth |-> Len(frames), before |-> sl]
  OBVIOUS
<1>15. /\ c \in Contexts /\ c.base = Len(t) /\ c.depth = Len(frames) /\ c.before = sl
       /\ scopes' = Append(scopes, c) /\ Len(t) \in Nat
  BY <1>1, <1>2, <1>4, <1>12, <1>13, <1>14 DEF Contexts
<1>16. PICK d : d = scopes'
  OBVIOUS
<1>17. d \in Seq(Contexts) /\ Grown(d, scopes) /\ d[Len(d)] = c
  BY <1>0, <1>15, <1>16, PushScope
<1>18. Stacks(d, g, Len(t))
  <2>1. Coded(g) /\ Stacks(scopes, g, Len(t)) /\ Len(g) = Len(frames)
    BY <1>7, <1>10, <1>11, <1>12 DEF Coded
  <2>. QED BY <1>15, <1>17, <2>1, EnterKeeps
<1>19. Restores(d, t, sl)
  <2>1. Restores(scopes, t, sl)
    BY <1>4, <1>12, <1>13
  <2>. QED BY <1>2, <1>15, <1>17, <2>1, RestoresEnter
<1>20. Localizes(1, g, deaths)
  <2>1. ASSUME deaths = 0, NEW k \in 1..Len(g) PROVE ~Unwinding(g, k)
    BY <1>0, <1>7, <1>10, <2>1 DEF Localizes, Unwinding
  <2>2. g[Len(g)].op \in Methods /\ Len(g) \in 1..Len(g)
    BY <1>2, <1>7, <1>10 DEF Methods
  <2>. QED BY <2>1, <2>2 DEF Localizes
<1>21. UNCHANGED deaths /\ localizing' = 1 /\ g \in CStack
  BY <1>1, <1>10 DEF CStack
<1>. QED BY <1>0, <1>4, <1>5, <1>12, <1>13, <1>16, <1>17, <1>18, <1>19, <1>20, <1>21 DEF SsIInv, StacksTyped

-----------------------------------------------------------------------------
\* One turn of leave_scope's loop finds an entry, above all open contexts.
LEMMA PoppingIs ==
  ASSUME SsIInv, NEW what, Popping(what)
  PROVE  /\ Len(frames) > 0 /\ frames[Len(frames)].op = "leave"
         /\ Front(saved) \in Seq(Entries) /\ Grown(saved, Front(saved)) /\ Len(Front(saved)) \in Nat
         /\ saved[Len(saved)].what = what /\ saved[Len(saved)] \in Entries
         /\ Last(saved) = saved[Len(saved)]
         /\ \A i \in 1..Len(scopes) : scopes[i].base \in Nat /\ scopes[i].base <= Len(Front(saved))
         /\ Stacks(scopes, frames, Len(Front(saved)))
<1>0. StacksTyped /\ Stacks(scopes, frames, Len(saved))
  BY DEF SsIInv
<1>1. /\ Len(frames) > 0 /\ frames[Len(frames)].op = "leave" /\ Len(saved) > frames[Len(frames)].base
      /\ saved[Len(saved)].what = what /\ Last(saved) = saved[Len(saved)] /\ Len(saved) \in Nat
  BY <1>0, CodeIs DEF Popping, Runs
<1>2. LeavesIt(scopes, frames, Len(frames), Len(scopes))
  BY <1>0, <1>1 DEF Stacks, TopLeaves
<1>3. Len(scopes) \in 1..Len(scopes)
  BY <1>0, CodeIs DEF Stacks, InOrder
<1>4. /\ scopes[Len(scopes)].base \in Nat /\ scopes[Len(scopes)].base < Len(saved)
      /\ \A i \in 1..Len(scopes) : scopes[i].base \in Nat
  BY <1>0, <1>1, <1>2, <1>3, PartsTyped DEF LeavesIt
<1>5. /\ Front(saved) \in Seq(Entries) /\ Grown(saved, Front(saved)) /\ saved[Len(saved)] \in Entries
      /\ Len(Front(saved)) = Len(saved) - 1
  BY <1>0, <1>1, <1>4, PopIs DEF StacksTyped, Cut
<1>6. \A i \in 1..Len(scopes) : scopes[i].base <= scopes[Len(scopes)].base
  <2>1. \A i \in 1..Len(scopes) : i = Len(scopes) \/ i < Len(scopes)
    BY <1>3
  <2>. QED BY <1>0, <1>3, <1>4, <2>1 DEF Stacks, InOrder
<1>7. \A i \in 1..Len(scopes) : scopes[i].base <= Len(Front(saved))
  BY <1>1, <1>4, <1>5, <1>6
<1>8. Len(Front(saved)) \in Nat
  BY <1>1, <1>4, <1>5
<1>9. Stacks(scopes, frames, Len(Front(saved)))
  BY <1>0, <1>1, <1>3, <1>7, <1>8, SavedKeeps
<1>. QED BY <1>1, <1>4, <1>5, <1>7, <1>8, <1>9

LEMMA PopValueStep == ASSUME SsIInv, PopValue PROVE SsIInv'
<1>0. /\ StacksTyped /\ Restores(scopes, saved, slot)
      /\ Counts(refs, slot, saved) /\ Localizes(localizing, frames, deaths)
  BY DEF SsIInv
<1>1. PICK e : e = saved[Len(saved)]
  OBVIOUS
<1>2. PICK t : t = Front(saved)
  OBVIOUS
<1>3. /\ t \in Seq(Entries) /\ Grown(saved, t) /\ Len(t) \in Nat /\ e \in Entries
      /\ e.what = "value" /\ Last(saved) = e
      /\ \A i \in 1..Len(scopes) : scopes[i].base \in Nat /\ scopes[i].base <= Len(t)
      /\ Stacks(scopes, frames, Len(t))
  <2>1. Popping("value")
    BY DEF PopValue
  <2>. QED BY <1>1, <1>2, <2>1, PoppingIs
<1>4. e.var \in Var /\ e.value \in Value
  BY <1>3 DEF Entries
<1>5. PICK x : x = [what |-> "free", value |-> e.value]
  OBVIOUS
<1>6. x \in Entries /\ x.what = "free" /\ x.value = e.value
  BY <1>4, <1>5 DEF Entries
<1>7. PICK d : d = Append(t, x)
  OBVIOUS
<1>8. d \in Seq(Entries) /\ Grown(d, t) /\ d[Len(d)] = x /\ Len(d) = Len(t) + 1
  <2>1. /\ Append(t, x) \in Seq(Entries) /\ Grown(Append(t, x), t)
        /\ Append(t, x)[Len(Append(t, x))] = x
    BY <1>3, <1>6, PushIs
  <2>. QED BY <1>7, <2>1 DEF Grown
<1>9. PICK n : n = [slot EXCEPT ![e.var] = e.value]
  OBVIOUS
<1>10. slot \in [Var -> Value] /\ refs \in [Value -> Nat] /\ slot[e.var] \in Value
  BY <1>0, <1>4 DEF StacksTyped
<1>11. Put(n, slot, e.var, e.value) /\ n \in [Var -> Value]
  BY <1>4, <1>9, <1>10 DEF Put
<1>12. PICK p : p = [refs EXCEPT ![slot[e.var]] = @ - 1]
  OBVIOUS
<1>13. Dropped(p, refs, slot[e.var])
  BY <1>10, <1>12 DEF Dropped
<1>14. Counts(p, n, d) /\ p \in [Value -> Nat]
  BY <1>0, <1>1, <1>3, <1>4, <1>6, <1>8, <1>10, <1>11, <1>13, BackCounts
<1>15. Restores(scopes, t, n)
  <2>. SUFFICES ASSUME NEW i \in 1..Len(scopes), NEW w \in Var
                PROVE  Gives(t, n, scopes[i].base, w, scopes[i].before[w])
    BY DEF Restores
  <2>1. Gives(saved, slot, scopes[i].base, w, scopes[i].before[w])
    BY <1>0 DEF Restores
  <2>. QED BY <1>1, <1>3, <1>4, <1>10, <1>11, <2>1, GivesBack
<1>16. slot' = n /\ UNCHANGED deaths
  BY <1>3, <1>9 DEF PopValue
<1>17. CASE e.var \in TiedVars
  <2>1. refs' = p /\ saved' = d /\ localizing' = 2 /\ Call("restore", e.var, n, d)
    BY <1>2, <1>3, <1>5, <1>7, <1>12, <1>16, <1>17 DEF PopValue
  <2>2. Stacks(scopes, frames, Len(d)) /\ Len(d) \in Nat
    <3>1. Len(scopes) \in 1..Len(scopes)
      BY <1>0, <1>3, CodeIs DEF Stacks, InOrder
    <3>2. scopes[Len(scopes)].base <= Len(d) /\ Len(d) \in Nat
      BY <1>3, <1>8, <3>1
    <3>. QED BY <1>3, <3>2, SavedKeeps
  <2>3. Restores(scopes, d, n)
    BY <1>3, <1>6, <1>8, <1>15, RestoresMore
  <2>4. /\ scopes' \in Seq(Contexts) /\ frames' \in CStack
        /\ Stacks(scopes', frames', Len(d)) /\ Restores(scopes', d, n)
        /\ Localizes(2, frames', deaths)
    <3>1. "restore" \in Methods
      BY DEF Methods
    <3>. QED BY <1>0, <1>4, <1>11, <2>1, <2>2, <2>3, <3>1, CallIs
  <2>. QED BY <1>0, <1>8, <1>11, <1>14, <1>16, <2>1, <2>4 DEF SsIInv, StacksTyped
<1>18. CASE e.var \notin TiedVars
  <2>1. /\ refs' = [[refs EXCEPT ![slot[e.var]] = @ - 1] EXCEPT ![e.value] = @ - 1]
        /\ saved' = t /\ UNCHANGED <<scopes, frames, localizing>>
    BY <1>2, <1>3, <1>18 DEF PopValue
  <2>2. PICK q : q = refs'
    OBVIOUS
  <2>3. q = [p EXCEPT ![e.value] = @ - 1]
    BY <1>12, <2>1, <2>2
  <2>4. Dropped(q, p, e.value)
    BY <1>4, <1>14, <2>3 DEF Dropped
  <2>5. Counts(q, n, t) /\ q \in [Value -> Nat]
    BY <1>3, <1>4, <1>6, <1>8, <1>14, <2>4, FreeCounts
  <2>. QED BY <1>0, <1>3, <1>11, <1>15, <1>16, <2>1, <2>2, <2>5 DEF SsIInv, StacksTyped
<1>. QED BY <1>17, <1>18

LEMMA PopFreeStep == ASSUME SsIInv, PopFree PROVE SsIInv'
<1>0. /\ StacksTyped /\ Restores(scopes, saved, slot)
      /\ Counts(refs, slot, saved) /\ Localizes(localizing, frames, deaths)
  BY DEF SsIInv
<1>1. PICK e : e = saved[Len(saved)]
  OBVIOUS
<1>2. PICK t : t = Front(saved)
  OBVIOUS
<1>3. /\ t \in Seq(Entries) /\ Grown(saved, t) /\ Len(t) \in Nat /\ e \in Entries
      /\ e.what = "free" /\ Last(saved) = e
      /\ \A i \in 1..Len(scopes) : scopes[i].base \in Nat /\ scopes[i].base <= Len(t)
      /\ Stacks(scopes, frames, Len(t))
  <2>1. Popping("free")
    BY DEF PopFree
  <2>. QED BY <1>1, <1>2, <2>1, PoppingIs
<1>4. e.value \in Value /\ refs \in [Value -> Nat]
  BY <1>0, <1>3 DEF Entries, StacksTyped
<1>5. /\ refs' = [refs EXCEPT ![e.value] = @ - 1] /\ saved' = t
      /\ UNCHANGED <<slot, scopes, frames, localizing, deaths>>
  BY <1>2, <1>3 DEF PopFree
<1>6. PICK p : p = refs'
  OBVIOUS
<1>7. Dropped(p, refs, e.value)
  BY <1>4, <1>5, <1>6 DEF Dropped
<1>8. Counts(p, slot, t) /\ p \in [Value -> Nat]
  BY <1>0, <1>1, <1>3, <1>4, <1>7, FreeCounts
<1>9. Restores(scopes, t, slot)
  BY <1>0, <1>1, <1>3, RestoresMore
<1>. QED BY <1>0, <1>3, <1>5, <1>6, <1>8, <1>9 DEF SsIInv, StacksTyped

LEMMA PopDestructorStep == ASSUME SsIInv, PopDestructor PROVE SsIInv'
<1>0. /\ StacksTyped /\ Restores(scopes, saved, slot)
      /\ Counts(refs, slot, saved) /\ Localizes(localizing, frames, deaths)
  BY DEF SsIInv
<1>1. PICK e : e = saved[Len(saved)]
  OBVIOUS
<1>2. PICK t : t = Front(saved)
  OBVIOUS
<1>3. /\ t \in Seq(Entries) /\ Grown(saved, t) /\ Len(t) \in Nat /\ e \in Entries
      /\ e.what = "destructor"
      /\ \A i \in 1..Len(scopes) : scopes[i].base \in Nat /\ scopes[i].base <= Len(t)
      /\ Stacks(scopes, frames, Len(t))
  <2>1. Popping("destructor")
    BY DEF PopDestructor
  <2>. QED BY <1>1, <1>2, <2>1, PoppingIs
<1>4. Counts(refs, slot, t) /\ Restores(scopes, t, slot)
  BY <1>0, <1>1, <1>3, OtherCounts, RestoresMore
<1>5. PICK f : f = [op |-> "destroy", var |-> 0, outside |-> Len(scopes)]
  OBVIOUS
<1>6. /\ frames' = Append(frames, f) /\ saved' = t
      /\ UNCHANGED <<slot, refs, scopes, localizing, deaths>>
  BY <1>2, <1>5 DEF PopDestructor
<1>7. Len(scopes) \in Nat /\ Len(frames) \in Nat
  BY <1>0, CodeIs
<1>8. f \in Callbacks \cup Leavings /\ f.op = "destroy" /\ f.outside = Len(scopes)
  BY <1>5, <1>7 DEF Callbacks
<1>9. PICK g : g = frames'
  OBVIOUS
<1>10. g \in CStack /\ Grown(g, frames) /\ g[Len(g)] = f
  BY <1>0, <1>6, <1>8, <1>9, PushFrame
<1>11. Stacks(scopes, g, Len(t))
  BY <1>3, <1>8, <1>10, CallKeeps
<1>12. Localizes(localizing, g, deaths)
  <2>1. ~Unwinding(g, Len(g))
    BY <1>8, <1>10 DEF Unwinding
  <2>2. CASE deaths = 0
    BY <1>0, <1>7, <1>10, <2>1, <2>2, LocalizesPush
  <2>3. CASE deaths # 0
    BY <2>3 DEF Localizes
  <2>. QED BY <2>2, <2>3
<1>. QED BY <1>0, <1>3, <1>4, <1>6, <1>9, <1>10, <1>11, <1>12 DEF SsIInv, StacksTyped

\* A context has been left.
LEMMA LeftStep == ASSUME SsIInv, Left PROVE SsIInv'
<1>0. /\ StacksTyped /\ Stacks(scopes, frames, Len(saved)) /\ Restores(scopes, saved, slot)
      /\ Counts(refs, slot, saved) /\ Localizes(localizing, frames, deaths)
  BY DEF SsIInv
<1>1. PICK top : top = frames[Len(frames)]
  OBVIOUS
<1>2. PICK m : m = Len(scopes)
  OBVIOUS
<1>3. /\ Len(frames) > 0 /\ top.op = "leave" /\ scopes' = Front(scopes)
      /\ top.catch = 0 => frames' = Front(frames)
      /\ top.catch # 0 /\ top.catch = m => frames' = SubSeq(frames, 1, scopes[m].depth)
      /\ top.catch \notin {0, m} => frames' = [frames EXCEPT ![Len(frames)].base = scopes[m - 1].base]
      /\ UNCHANGED <<slot, refs, saved, localizing, deaths>>
  BY <1>0, <1>1, <1>2, CodeIs DEF Left, Runs
<1>4. /\ Len(frames) \in 1..Len(frames) /\ Len(frames) \in Nat /\ top \in Leavings
      /\ m \in 1..Len(scopes) /\ m \in Nat /\ Len(saved) \in Nat /\ m > 0
  <2>1. Len(frames) \in Nat /\ m \in Nat /\ Len(saved) \in Nat /\ m >= 1
    BY <1>0, <1>2, CodeIs DEF Stacks, InOrder
  <2>2. Len(frames) \in 1..Len(frames) /\ m \in 1..Len(scopes)
    BY <1>2, <1>3, <2>1
  <2>. QED BY <1>0, <1>1, <1>3, <2>1, <2>2, PartsTyped
<1>5. top.base \in Nat /\ top.catch \in Nat
  BY <1>4 DEF Leavings
<1>6. LeavesIt(scopes, frames, Len(frames), m)
  BY <1>0, <1>1, <1>2, <1>3 DEF Stacks, TopLeaves
<1>7. PICK d : d = scopes'
  OBVIOUS
<1>8. d \in Seq(Contexts) /\ Cut(d, scopes, m - 1)
  BY <1>0, <1>2, <1>3, <1>4, <1>7, PopIs DEF StacksTyped
<1>9. Restores(d, saved, slot)
  BY <1>0, <1>2, <1>4, <1>8, RestoresLess
<1>10. PICK g : g = frames'
  OBVIOUS
<1>11. frames \in Seq(Callbacks \cup Leavings)
  BY <1>0 DEF StacksTyped, CStack
<1>12. CASE top.catch \in {0, m}
  <2>1. scopes[m].depth \in 0..(Len(frames) - 1)
    <3>1. CASE top.catch = 0
      BY <1>1, <1>4, <1>6, <3>1 DEF LeavesIt
    <3>2. CASE top.catch # 0
      <4>1. Unwinding(frames, Len(frames)) /\ top.catch = m
        BY <1>1, <1>3, <1>12, <3>2 DEF Unwinding
      <4>2. scopes[m].depth < Len(frames) /\ scopes[m].depth \in Nat
        BY <1>0, <1>1, <1>4, <4>1, PartsTyped DEF Stacks, Deaths
      <4>. QED BY <1>4, <4>2
    <3>. QED BY <3>1, <3>2
  <2>2. g \in Seq(Callbacks \cup Leavings) /\ Cut(g, frames, scopes[m].depth)
    <3>1. CASE top.catch = 0
      <4>1. scopes[m].depth = Len(frames) - 1
        BY <1>1, <1>6, <3>1 DEF LeavesIt
      <4>. QED BY <1>3, <1>10, <1>11, <3>1, <4>1, PopIs
    <3>2. CASE top.catch # 0
      <4>1. g = SubSeq(frames, 1, scopes[m].depth) /\ scopes[m].depth \in 0..Len(frames)
        BY <1>3, <1>4, <1>10, <1>12, <2>1, <3>2
      <4>. QED BY <1>11, <4>1, CutIs
    <3>. QED BY <3>1, <3>2
  <2>3. Stacks(d, g, Len(saved))
    BY <1>0, <1>1, <1>2, <1>3, <1>4, <1>8, <1>12, <2>2, LeftKeeps
  <2>4. Localizes(localizing, g, deaths)
    <3>1. CASE top.catch = 0
      <4>1. Cut(g, frames, Len(frames) - 1)
        BY <1>1, <1>6, <2>2, <3>1 DEF LeavesIt
      <4>2. top.op \notin Methods
        BY <1>3 DEF Methods
      <4>. QED BY <1>0, <1>1, <1>3, <1>4, <4>1, <4>2, LocalizesPop
    <3>2. CASE top.catch # 0
      <4>1. Unwinding(frames, Len(frames))
        BY <1>1, <1>3, <3>2 DEF Unwinding
      <4>2. deaths # 0
        BY <1>0, <1>4, <4>1 DEF Localizes
      <4>. QED BY <4>2 DEF Localizes
    <3>. QED BY <3>1, <3>2
  <2>. QED BY <1>0, <1>3, <1>7, <1>8, <1>9, <1>10, <2>2, <2>3, <2>4 DEF SsIInv, StacksTyped, CStack
<1>13. CASE top.catch \notin {0, m}
  <2>1. Unwinding(frames, Len(frames))
    BY <1>1, <1>3, <1>13 DEF Unwinding
  <2>2. m >= 2
    <3>1. top.catch \in 2..m
      BY <1>0, <1>1, <1>2, <1>4, <2>1 DEF Stacks, Deaths
    <3>. QED BY <1>4, <3>1
  <2>3. m - 1 \in 1..Len(scopes) /\ scopes[m - 1].base \in Nat
    <3>1. m - 1 \in 1..Len(scopes)
      BY <1>2, <1>4, <2>2
    <3>. QED BY <1>0, <3>1, PartsTyped
  <2>4. PICK f : f = [op |-> "leave", base |-> scopes[m - 1].base, catch |-> top.catch]
    OBVIOUS
  <2>5. [top EXCEPT !.base = scopes[m - 1].base] = f
    <3>1. \A h \in Leavings, b \in Nat : [h EXCEPT !.base = b] = [op |-> "leave", base |-> b, catch |-> h.catch]
      BY DEF Leavings
    <3>. QED BY <1>4, <2>3, <2>4, <3>1
  <2>6. f \in Leavings /\ f.op = "leave" /\ f.base = scopes[m - 1].base /\ f.catch = top.catch
    BY <1>5, <2>3, <2>4 DEF Leavings
  <2>7. /\ g \in Seq(Callbacks \cup Leavings) /\ Len(g) = Len(frames) /\ g[Len(frames)] = f
        /\ \A k \in 1..Len(frames) : k # Len(frames) => g[k] = frames[k]
    <3>1. g = [frames EXCEPT ![Len(frames)] = f]
      BY <1>1, <1>3, <1>10, <1>13, <2>5
    <3>. QED BY <1>4, <1>11, <2>6, <3>1
  <2>8. Stacks(d, g, Len(saved))
    BY <1>0, <1>1, <1>2, <1>3, <1>4, <1>8, <1>13, <2>6, <2>7, DyingKeeps
  <2>9. Localizes(localizing, g, deaths)
    <3>1. deaths # 0
      BY <1>0, <1>4, <2>1 DEF Localizes
    <3>. QED BY <3>1 DEF Localizes
  <2>. QED BY <1>0, <1>3, <1>7, <1>8, <1>9, <1>10, <2>7, <2>8, <2>9 DEF SsIInv, StacksTyped, CStack
<1>. QED BY <1>12, <1>13

-----------------------------------------------------------------------------
\* At first each variable has a structure of its own.
LEMMA SlotsExist ==
  \E f \in [Var -> 1..Cardinality(Var)] : IsInjective(f)
<1>1. IsFiniteSet(Var)
  BY SsAssumption
<1>2. ExistsBijection(1..Cardinality(Var), Var)
  BY <1>1, FS_CardinalityType
<1>3. ExistsBijection(Var, 1..Cardinality(Var))
  BY <1>2, Fun_ExistsBijSymmetric
<1>4. PICK f : f \in Bijection(Var, 1..Cardinality(Var))
  BY <1>3 DEF ExistsBijection
<1>5. f \in [Var -> 1..Cardinality(Var)] /\ \A a, b \in Var : f[a] = f[b] => a = b
  BY <1>4, Fun_BijectionProperties
<1>. QED BY <1>5 DEF IsInjective

LEMMA InitIsRight == ASSUME SsInit PROVE SsIInv
<1>1. PICK N : N = Cardinality(Var)
  OBVIOUS
<1>2. N \in Nat /\ 1..N \subseteq Value
  <2>1. N \in Nat /\ N <= MaxValue
    BY <1>1, SsAssumption, FS_CardinalityType
  <2>. QED BY <2>1, SsAssumption DEF Value
<1>3. slot \in [Var -> 1..N] /\ IsInjective(slot)
  <2>. DEFINE Apart(f) == f \in [Var -> 1..N] /\ IsInjective(f)
  <2>1. \E f : Apart(f)
    BY <1>1, SlotsExist
  <2>2. slot = CHOOSE f : Apart(f)
    BY <1>1, Zenon DEF SsInit
  <2>3. Apart(CHOOSE f : Apart(f))
    <3>. HIDE DEF Apart
    <3>. QED BY <2>1
  <2>. QED BY <2>2, <2>3
<1>4. slot \in [Var -> Value] /\ \A a, b \in Var : slot[a] = slot[b] => a = b
  BY <1>2, <1>3 DEF IsInjective
<1>5. /\ refs = [s \in Value |-> IF s \in Range(slot) THEN 1 ELSE 0]
      /\ saved = <<>> /\ scopes = <<Scope("block", 0, 0)>> /\ frames = <<>>
      /\ localizing = 0 /\ deaths = 0
  BY DEF SsInit
<1>6. PICK c : c = Scope("block", 0, 0)
  OBVIOUS
<1>7. c \in Contexts /\ c.kind = "block" /\ c.base = 0 /\ c.depth = 0 /\ c.before = slot
  BY <1>4, <1>6 DEF Scope, Contexts
<1>8. scopes = <<c>> /\ Len(scopes) = 1 /\ scopes[1] = c /\ Len(frames) = 0 /\ Len(saved) = 0
  BY <1>5, <1>6
<1>9. StacksTyped
  <2>1. refs \in [Value -> Nat]
    BY <1>5
  <2>2. saved \in Seq(Entries) /\ scopes \in Seq(Contexts) /\ frames \in CStack
    BY <1>5, <1>7, <1>8 DEF CStack
  <2>. QED BY <1>4, <1>5, <2>1, <2>2 DEF StacksTyped
<1>10. Stacks(scopes, frames, Len(saved))
  <2>1. \A i \in 1..1 : i = 1
    OBVIOUS
  <2>2. Numbered(scopes, frames)
    BY <1>7, <1>8, <2>1 DEF Numbered
  <2>3. InOrder(scopes, frames, Len(saved))
    BY <1>7, <1>8, <2>1 DEF InOrder
  <2>4. Deaths(scopes, frames) /\ Calls(scopes, frames) /\ TopLeaves(scopes, frames)
    BY <1>8 DEF Deaths, Calls, TopLeaves
  <2>. QED BY <2>2, <2>3, <2>4 DEF Stacks
<1>11. Restores(scopes, saved, slot)
  <2>1. \A i \in 1..1 : i = 1
    OBVIOUS
  <2>2. \A v \in Var : Gives(saved, slot, 0, v, slot[v])
    BY <1>8, GivesNow
  <2>. QED BY <1>7, <1>8, <2>1, <2>2 DEF Restores
<1>12. Counts(refs, slot, saved)
  <2>. SUFFICES ASSUME NEW s \in Value PROVE refs[s] = References(slot, saved, s)
    BY DEF Counts
  <2>1. Values(saved, s) = {} /\ Frees(saved, s) = {}
    BY <1>8 DEF Values, Frees
  <2>2. Cardinality(Values(saved, s)) = 0 /\ Cardinality(Frees(saved, s)) = 0
    BY <2>1, FS_EmptySet
  <2>3. References(slot, saved, s) = Cardinality(Slots(slot, s)) /\ Cardinality(Slots(slot, s)) \in Nat
    <3>1. Cardinality(Slots(slot, s)) \in Nat
      BY <1>8, PartsCounted
    <3>. QED BY <2>2, <3>1 DEF References
  <2>4. CASE s \in Range(slot)
    <3>1. PICK v \in Var : slot[v] = s
      BY <1>4, <2>4 DEF Range
    <3>2. Slots(slot, s) = {v}
      BY <1>4, <3>1 DEF Slots
    <3>3. Cardinality(Slots(slot, s)) = 1
      BY <3>2, FS_Singleton
    <3>. QED BY <1>5, <2>3, <2>4, <3>3
  <2>5. CASE s \notin Range(slot)
    <3>1. Slots(slot, s) = {}
      BY <1>4, <2>5 DEF Slots, Range
    <3>2. Cardinality(Slots(slot, s)) = 0
      BY <3>1, FS_EmptySet
    <3>. QED BY <1>5, <2>3, <2>5, <3>2
  <2>. QED BY <2>4, <2>5
<1>13. Localizes(localizing, frames, deaths)
  BY <1>5, <1>8 DEF Localizes
<1>. QED BY <1>9, <1>10, <1>11, <1>12, <1>13 DEF SsIInv

LEMMA SsStepKeeps == ASSUME SsIInv, [SsNext]_ssVars PROVE SsIInv'
<1>1. CASE UNCHANGED ssVars
  BY <1>1 DEF ssVars, SsIInv, StacksTyped
<1>2. ASSUME NEW kind \in {"block", "eval"}, Enter(kind) PROVE SsIInv'
  BY <1>2, EnterStep
<1>3. ASSUME NEW v \in Var, Local(v) PROVE SsIInv'
  BY <1>3, LocalStep
<1>4. CASE Fetched
  BY <1>4, FetchedStep
<1>5. CASE Stored \/ Destructed
  BY <1>5, ReturnStep
<1>6. CASE SaveDestructor
  BY <1>6, SaveDestructorStep
<1>7. CASE Leave
  BY <1>7, LeaveStep
<1>8. CASE Die
  BY <1>8, DieStep
<1>9. CASE PopValue
  BY <1>9, PopValueStep
<1>10. CASE PopFree
  BY <1>10, PopFreeStep
<1>11. CASE PopDestructor
  BY <1>11, PopDestructorStep
<1>12. CASE Left
  BY <1>12, LeftStep
<1>. QED BY <1>1, <1>2, <1>3, <1>4, <1>5, <1>6, <1>7, <1>8, <1>9, <1>10, <1>11, <1>12 DEF SsNext, SsStep

LEMMA UnwindingInvariant == SsSpec => []SsIInv
<1>1. SsInit => SsIInv
  BY InitIsRight
<1>2. SsIInv /\ [SsNext]_ssVars => SsIInv'
  BY SsStepKeeps
<1>. QED BY <1>1, <1>2, PTL DEF SsSpec

LEMMA RightAtAllTimes == ASSUME SsIInv PROVE UnwindingIsRight
<1>0. /\ StacksTyped /\ Stacks(scopes, frames, Len(saved)) /\ Restores(scopes, saved, slot)
      /\ Counts(refs, slot, saved) /\ Localizes(localizing, frames, deaths)
  BY DEF SsIInv
<1>1. /\ DOMAIN scopes = 1..Len(scopes) /\ DOMAIN saved = 1..Len(saved)
      /\ Len(frames) \in Nat /\ Len(scopes) \in Nat /\ Len(saved) \in Nat
  BY <1>0 DEF StacksTyped, CStack
<1>2. Restored
  <2>. SUFFICES ASSUME NEW i \in 1..Len(scopes), NEW v \in Var
                PROVE  ValueUnder(scopes[i].base, v) = scopes[i].before[v]
    BY <1>1 DEF Restored
  <2>1. Gives(saved, slot, scopes[i].base, v, scopes[i].before[v]) /\ scopes[i].base \in Nat
    BY <1>0, PartsTyped DEF Restores
  <2>. QED BY <1>1, <2>1, GivesValue
<1>3. CountsHold
  <2>. SUFFICES ASSUME NEW s \in Value
                PROVE  refs[s] = Cardinality({v \in Var : slot[v] = s})
                         + 2 * Cardinality({i \in DOMAIN saved : saved[i].what = "value" /\ saved[i].value = s})
                         + Cardinality({i \in DOMAIN saved : saved[i].what = "free" /\ saved[i].value = s})
    BY DEF CountsHold
  <2>. QED BY <1>0, <1>1 DEF Counts, References, Slots, Values, Frees
<1>4. StacksAgree
  <2>1. \A i, j \in DOMAIN scopes : i < j => /\ scopes[i].base <= scopes[j].base
                                             /\ scopes[i].depth <= scopes[j].depth
    BY <1>0, <1>1 DEF Stacks, InOrder
  <2>2. ASSUME CodeRuns PROVE Len(scopes) >= Outside
    <3>1. CASE frames = <<>>
      BY <1>0, <3>1 DEF Outside, Stacks, InOrder
    <3>2. CASE frames # <<>>
      <4>1. /\ Len(frames) \in 1..Len(frames) /\ frames[Len(frames)].op # "leave"
            /\ Outside = frames[Len(frames)].outside
        BY <1>0, <1>1, <2>2, <3>2, CodeIs DEF CodeRuns, Outside
      <4>2. ~Doomed(scopes, frames, Len(frames))
        BY <1>1 DEF Doomed
      <4>3. CallsIt(scopes, frames, Len(frames))
        BY <1>0, <4>1, <4>2 DEF Stacks, Calls
      <4>. QED BY <1>1, <4>1, <4>3 DEF CallsIt
    <3>. QED BY <3>1, <3>2
  <2>. QED BY <2>1, <2>2 DEF StacksAgree
<1>5. LocalizingEnds
  BY <1>0 DEF LocalizingEnds, Localizes
<1>. QED BY <1>2, <1>3, <1>4, <1>5 DEF UnwindingIsRight

\* Whatever local, callbacks, leaving scopes and die do, however they are nested
\* (leave_scope, mg_localize, dounwind, die_unwind): each open context will give
\* every variable back the value that it had, no reference is lost or dropped
\* twice, the C stack and the context stack agree, and localizing ends.
THEOREM UnwindingStaysRight == SsSpec => []UnwindingIsRight
<1>1. SsIInv => UnwindingIsRight
  BY RightAtAllTimes
<1>. QED BY <1>1, UnwindingInvariant, PTL
=============================================================================
