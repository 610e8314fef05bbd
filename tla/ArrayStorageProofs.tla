------------------------ MODULE ArrayStorageProofs ------------------------
(***************************************************************************)
(* For arrays of every size, elements and growth: the storage stays typed  *)
(* and clean, and implements PerlArray.  The first part says of each       *)
(* operation of av.c what it makes of any sound array, as a value; the     *)
(* second lifts that to the actions.  Arrays are taken apart and put       *)
(* together field by field (Fields, Array), since the provers do not see   *)
(* through several nested EXCEPTs at once.                                 *)
(***************************************************************************)
EXTENDS ArrayStorage, TLAPS

\* An AV is a record of these five fields.
Fields(a) ==
  a = [cell |-> a.cell, offset |-> a.offset, max |-> a.max, fill |-> a.fill, real |-> a.real]

\* AsTypeOK, for any array.
Typed(a) ==
  /\ Fields(a)
  /\ a.offset \in Nat
  /\ a.max \in Int /\ a.fill \in Int /\ -1 <= a.fill /\ a.fill <= a.max
  /\ a.real \in BOOLEAN
  /\ a.cell \in [0..(a.max + a.offset) -> Slot]

\* StorageIsClean, for any array.
Clean(a) ==
  /\ \A i \in 0..a.fill : a.cell[a.offset + i] # Junk
  /\ a.real => \A i \in 0..(a.max + a.offset) :
       ~(a.offset <= i /\ i <= a.offset + a.fill) => a.cell[i] = Null

Sound(a) == Typed(a) /\ Clean(a)

\* The places that the program sees are the same in a and e.
Same(a, e) ==
  /\ e.fill = a.fill
  /\ \A i \in 0..a.fill : e.cell[e.offset + i] = a.cell[a.offset + i]

LEMMA ReifiedSound ==
  ASSUME NEW a, Sound(a)
  PROVE  /\ Sound(Reified(a)) /\ Same(a, Reified(a)) /\ Reified(a).real
         /\ Reified(a).offset = a.offset /\ Reified(a).max = a.max
<1>. DEFINE r == Reified(a)
<1>1. /\ r.offset = a.offset /\ r.max = a.max /\ r.fill = a.fill /\ r.real = TRUE
      /\ r.cell = IF a.real THEN a.cell
                  ELSE [i \in DOMAIN a.cell |-> IF i \in a.offset..(a.offset + a.fill)
                                                THEN a.cell[i] ELSE Null]
      /\ Fields(r)
  <2>. DEFINE c == IF a.real THEN a.cell
                  ELSE [i \in DOMAIN a.cell |-> IF i \in a.offset..(a.offset + a.fill)
                                                THEN a.cell[i] ELSE Null]
  <2>1. Fields(a)
    BY DEF Sound, Typed
  <2>2. r = [a EXCEPT !.real = TRUE, !.cell = c]
    BY <2>1 DEF Reified, Fields
  <2>. HIDE DEF c, r
  <2>3. r = [cell |-> c, offset |-> a.offset, max |-> a.max, fill |-> a.fill, real |-> TRUE]
    BY <2>1, <2>2 DEF Fields
  <2>. QED BY <2>3 DEF c, Fields
<1>2. /\ r.cell \in [0..(a.max + a.offset) -> Slot]
      /\ \A i \in 0..a.fill : r.cell[a.offset + i] = a.cell[a.offset + i]
      /\ \A i \in 0..(a.max + a.offset) :
           ~(a.offset <= i /\ i <= a.offset + a.fill) => r.cell[i] = Null
  BY <1>1 DEF Sound, Typed, Clean, Slot
<1>. HIDE DEF r
<1>3. Typed(r)
  <2>1. a.offset \in Nat /\ a.max \in Int /\ a.fill \in Int /\ -1 <= a.fill /\ a.fill <= a.max
    BY DEF Sound, Typed
  <2>. QED BY <1>1, <1>2, <2>1 DEF Typed
<1>4. Clean(r) /\ Same(a, r)
  BY <1>1, <1>2 DEF Sound, Clean, Same
<1>. QED BY <1>1, <1>3, <1>4 DEF r, Sound

\* A block of which every cell beyond the elements that a real array may not
\* have zeroed before is zeroed when it is made.
Fits(a, c, top, from, to) ==
  /\ Sound(a)
  /\ c \in [0..(a.max + a.offset) -> Slot]
  /\ \A i \in 0..a.fill : c[i] = a.cell[a.offset + i]
  /\ \A i \in 0..(a.max + a.offset) : a.real /\ a.fill < i /\ (i < from \/ i > to) => c[i] = Null
  /\ top \in Int /\ top >= a.max + a.offset
  /\ to \in Int /\ to <= top /\ (to = top \/ top = a.max + a.offset)
  /\ from \in Int /\ from >= a.fill + 1 /\ from <= a.max + a.offset + 1

GrownTo(a, c, top, from, to) ==
  [a EXCEPT !.cell = Renewed(c, top + 1, from, IF a.real THEN to ELSE -1),
            !.offset = 0, !.max = top]

LEMMA Grown ==
  ASSUME NEW a, NEW c, NEW top, NEW from, NEW to, Fits(a, c, top, from, to)
  PROVE  /\ Sound(GrownTo(a, c, top, from, to)) /\ Same(a, GrownTo(a, c, top, from, to))
         /\ GrownTo(a, c, top, from, to).max = top /\ GrownTo(a, c, top, from, to).real = a.real
<1>. DEFINE e == GrownTo(a, c, top, from, to)
<1>0. /\ Sound(a)
      /\ c \in [0..(a.max + a.offset) -> Slot]
      /\ \A i \in 0..a.fill : c[i] = a.cell[a.offset + i]
      /\ \A i \in 0..(a.max + a.offset) : a.real /\ a.fill < i /\ (i < from \/ i > to) => c[i] = Null
      /\ top \in Int /\ top >= a.max + a.offset
      /\ to \in Int /\ to <= top /\ (to = top \/ top = a.max + a.offset)
      /\ from \in Int /\ from >= a.fill + 1 /\ from <= a.max + a.offset + 1
  BY DEF Fits
<1>1. /\ e.offset = 0 /\ e.max = top /\ e.fill = a.fill /\ e.real = a.real
      /\ e.cell = Renewed(c, top + 1, from, IF a.real THEN to ELSE -1)
      /\ Fields(e)
  <2>. DEFINE r == Renewed(c, top + 1, from, IF a.real THEN to ELSE -1)
  <2>1. Fields(a)
    BY <1>0 DEF Sound, Typed
  <2>2. e = [a EXCEPT !.cell = r, !.offset = 0, !.max = top]
    BY DEF GrownTo
  <2>. HIDE DEF r, e
  <2>3. e = [cell |-> r, offset |-> 0, max |-> top, fill |-> a.fill, real |-> a.real]
    BY <2>1, <2>2 DEF Fields
  <2>. QED BY <2>3 DEF r, Fields
<1>. HIDE DEF e
<1>2. Block(top + 1) = 0..top
  BY <1>0 DEF Block
<1>3. DOMAIN c = 0..(a.max + a.offset)
  BY <1>0
<1>4. e.cell = [i \in 0..top |-> IF i \in from..(IF a.real THEN to ELSE -1) THEN Null
                               ELSE IF i \in 0..(a.max + a.offset) THEN c[i] ELSE Junk]
  BY <1>1, <1>2, <1>3 DEF Renewed
<1>5. e.cell \in [0..top -> Slot]
  BY <1>0, <1>4 DEF Slot
<1>6. \A i \in 0..a.fill : e.cell[i] = c[i]
  BY <1>0, <1>4 DEF Sound, Typed
<1>7. a.real => \A i \in 0..top : i > a.fill => e.cell[i] = Null
  <2> SUFFICES ASSUME a.real, NEW i \in 0..top, i > a.fill PROVE e.cell[i] = Null
    OBVIOUS
  <2>1. CASE i <= to /\ i >= from
    BY <1>0, <1>4, <2>1
  <2>2. CASE i > to
    <3>1. i \in 0..(a.max + a.offset)
      BY <1>0, <2>2 DEF Sound, Typed
    <3>. QED BY <1>0, <1>4, <2>2, <3>1
  <2>3. CASE i < from /\ i <= to
    <3>1. CASE i \in 0..(a.max + a.offset)
      BY <1>0, <1>4, <2>3, <3>1
    <3>2. CASE i \notin 0..(a.max + a.offset)
      BY <1>0, <2>3, <3>2 DEF Sound, Typed
    <3>. QED BY <3>1, <3>2
  <2>. QED BY <1>0, <2>1, <2>2, <2>3
<1>8. Typed(e)
  <2>1. e.max + e.offset = top /\ a.fill <= top /\ a.fill \in Int /\ a.real \in BOOLEAN /\ -1 <= a.fill
    BY <1>0, <1>1 DEF Sound, Typed
  <2>2. e.cell \in [0..(e.max + e.offset) -> Slot] /\ e.offset \in Nat /\ e.max \in Int
    BY <1>0, <1>1, <1>5, <2>1
  <2>. QED BY <1>1, <2>1, <2>2 DEF Typed
<1>9. Same(a, e)
  <2>1. \A i \in 0..a.fill : e.offset + i = i
    BY <1>1
  <2>. QED BY <1>0, <1>1, <1>6, <2>1 DEF Same
<1>10. Clean(e)
  <2>1. \A i \in 0..e.fill : e.cell[e.offset + i] # Junk
    BY <1>0, <1>1, <1>9 DEF Sound, Clean, Same
  <2>2. e.real => \A i \in 0..(e.max + e.offset) :
          ~(e.offset <= i /\ i <= e.offset + e.fill) => e.cell[i] = Null
    <3>1. e.max + e.offset = top /\ a.fill \in Int /\ e.offset + e.fill = a.fill
      BY <1>0, <1>1 DEF Sound, Typed
    <3>. QED BY <1>1, <1>7, <3>1
  <2>. QED BY <2>1, <2>2 DEF Clean
<1>. QED BY <1>1, <1>8, <1>9, <1>10 DEF Sound, e

LEMMA MovedDownMoves ==
  ASSUME NEW a, Sound(a)
  PROVE  /\ MovedDown(a) \in [0..(a.max + a.offset) -> Slot]
         /\ \A i \in 0..a.fill : MovedDown(a)[i] = a.cell[a.offset + i]
         /\ \A i \in 0..(a.max + a.offset) : i > a.fill => MovedDown(a)[i] = a.cell[i]
<1>1. DOMAIN a.cell = 0..(a.max + a.offset)
  BY DEF Sound, Typed
<1>2. MovedDown(a) = [i \in 0..(a.max + a.offset) |->
                        IF i <= a.fill THEN a.cell[a.offset + i] ELSE a.cell[i]]
  BY <1>1 DEF MovedDown
<1>3. /\ a.offset \in Nat /\ a.max \in Int /\ a.fill \in Int /\ a.fill <= a.max
      /\ a.cell \in [0..(a.max + a.offset) -> Slot]
  BY DEF Sound, Typed
<1>4. \A i \in 0..(a.max + a.offset) : i <= a.fill => a.offset + i \in 0..(a.max + a.offset)
  BY <1>3
<1>5. \A i \in 0..a.fill : i \in 0..(a.max + a.offset) /\ i <= a.fill
  BY <1>3
<1>6. \A i \in 0..(a.max + a.offset) : i > a.fill => ~(i <= a.fill)
  BY <1>3
<1>. QED BY <1>2, <1>3, <1>4, <1>5, <1>6

LEMMA ExtendedSound ==
  ASSUME NEW a, Sound(a), NEW key \in Int
  PROVE  /\ Sound(Extended(a, key)) /\ Same(a, Extended(a, key))
         /\ Extended(a, key).max >= key
         /\ Extended(a, key).real = a.real
<1>. DEFINE e == Extended(a, key)
            whole == a.max + a.offset
<1>1. /\ a.offset \in Nat /\ a.max \in Int /\ a.fill \in Int /\ -1 <= a.fill /\ a.fill <= a.max
      /\ a.cell \in [0..whole -> Slot] /\ Fields(a)
  BY DEF Sound, Typed
<1>2. Spare \in Nat \ {0} /\ Margin \in Nat /\ NewMinKey \in Nat
  BY AsAssumption
<1>3. CASE key <= a.max
  BY <1>3 DEF Extended, Same
<1>4. CASE key > a.max /\ whole = -1
  <2>. DEFINE top == Larger(key, NewMinKey)
  <2>1. e = [a EXCEPT !.cell = [i \in Block(top + 1) |-> Null], !.max = top]
    BY <1>1, <1>4 DEF Extended
  <2>2. top \in Nat /\ top >= key
    BY <1>2 DEF Larger
  <2>3. a.offset = 0 /\ a.max = -1 /\ a.fill = -1
    BY <1>1, <1>4
  <2>. HIDE DEF top, e
  <2>4. e.cell = [i \in 0..top |-> Null] /\ e.max = top /\ e.fill = -1 /\ e.offset = 0 /\ e.real = a.real /\ Fields(e)
    <3>1. Block(top + 1) = 0..top
      BY <2>2 DEF Block
    <3>2. e = [cell |-> [i \in Block(top + 1) |-> Null], offset |-> a.offset, max |-> top,
               fill |-> a.fill, real |-> a.real]
      BY <1>1, <2>1 DEF Fields
    <3>. QED BY <2>3, <3>1, <3>2 DEF Fields
  <2>5. Typed(e) /\ Clean(e) /\ Same(a, e)
    BY <2>2, <2>3, <2>4 DEF Sound, Typed, Clean, Same, Slot
  <2>. QED BY <2>2, <2>4, <2>5 DEF Sound, e
<1>5. CASE key > a.max /\ whole # -1 /\ a.offset = 0
  <2>. DEFINE top == key + a.max \div Spare
  <2>1. e = GrownTo(a, a.cell, top, a.max + 1, top)
    BY <1>1, <1>5 DEF Extended, GrownTo
  <2>2. a.max \in Nat
    BY <1>1, <1>5
  <2>3. a.max \div Spare \in Nat
    BY <1>2, <2>2
  <2>4. top \in Int /\ top >= key /\ top >= whole
    BY <1>1, <1>5, <2>3
  <2>5. \A i \in 0..whole : (a.real /\ a.fill < i) => a.cell[i] = Null
    BY <1>1, <1>5 DEF Sound, Clean
  <2>. HIDE DEF top, e
  <2>6. \A i \in 0..a.fill : a.cell[i] = a.cell[a.offset + i]
    BY <1>1, <1>5
  <2>7. a.max + 1 \in Int /\ a.max + 1 >= a.fill + 1 /\ a.max + 1 <= a.max + a.offset + 1 /\ top <= top
    BY <1>1, <1>5, <2>4
  <2>8. Fits(a, a.cell, top, a.max + 1, top)
    BY <1>1, <2>4, <2>5, <2>6, <2>7 DEF Fits
  <2>9. Sound(e) /\ Same(a, e) /\ e.max = top /\ e.real = a.real
    BY <2>1, <2>8, Grown
  <2>. QED BY <2>4, <2>9 DEF e
<1>6. CASE key > a.max /\ whole # -1 /\ a.offset # 0
  <2>. DEFINE c == MovedDown(a)
  <2>1. /\ c \in [0..whole -> Slot]
        /\ \A i \in 0..a.fill : c[i] = a.cell[a.offset + i]
        /\ \A i \in 0..whole : i > a.fill => c[i] = a.cell[i]
    BY MovedDownMoves
  <2>2. \A i \in 0..whole : a.real /\ i > a.fill + a.offset => c[i] = Null
    BY <1>1, <2>1 DEF Sound, Clean
  <2>3. a.fill + 1 \in Int /\ a.fill + 1 <= whole + 1 /\ a.fill + 1 >= a.fill + 1
    BY <1>1
  <2>4. \A i \in 0..whole : a.fill < i /\ i < a.fill + 1 => FALSE
    BY <1>1
  <2>5. CASE key > whole - Margin
    <3>. DEFINE top == key + whole
    <3>1. e = GrownTo(a, c, top, a.fill + 1, top)
      BY <1>1, <1>6, <2>5 DEF Extended, GrownTo
    <3>2. top \in Int /\ top >= whole /\ top >= key /\ top <= top
      BY <1>1, <1>6
    <3>. HIDE DEF top, e, c
    <3>3. Fits(a, c, top, a.fill + 1, top)
      BY <1>1, <2>1, <2>3, <2>4, <3>2 DEF Fits
    <3>4. Sound(e) /\ Same(a, e) /\ e.max = top /\ e.real = a.real
      BY <3>1, <3>3, Grown
    <3>. QED BY <3>2, <3>4 DEF e
  <2>6. CASE ~(key > whole - Margin)
    <3>. DEFINE to == a.fill + a.offset
    <3>1. e = GrownTo(a, c, whole, a.fill + 1, to)
      BY <1>1, <1>6, <2>6 DEF Extended, GrownTo
    <3>2. whole \in Int /\ whole >= key /\ to \in Int /\ to <= whole /\ whole >= a.max + a.offset
      BY <1>1, <1>2, <2>6
    <3>. HIDE DEF e, c
    <3>3. Fits(a, c, whole, a.fill + 1, to)
      BY <1>1, <2>1, <2>2, <2>3, <2>4, <3>2 DEF Fits
    <3>. HIDE DEF to
    <3>4. Sound(e) /\ Same(a, e) /\ e.max = whole /\ e.real = a.real
      BY <3>1, <3>3, Grown
    <3>. QED BY <3>2, <3>4 DEF e
  <2>. QED BY <2>5, <2>6
<1>. QED BY <1>1, <1>3, <1>4, <1>5, <1>6

LEMMA ExtendedAtStart ==
  ASSUME NEW a, Sound(a), a.offset = 0, NEW key \in Int
  PROVE  Extended(a, key).offset = 0
  BY DEF Sound, Typed, Fields, Extended

\* What place i of a holds, for any i from 0 on.
At(a, i) == IF i <= a.fill THEN a.cell[a.offset + i] ELSE Null

\* What a sound real array holds from its start on, used or not.
LEMMA Beyond ==
  ASSUME NEW a, Sound(a), a.real, NEW i \in Nat, i <= a.max
  PROVE  a.cell[a.offset + i] = At(a, i)
  BY DEF Sound, Typed, Clean, At

LEMMA StoringSound ==
  ASSUME NEW a, Sound(a), NEW key \in Nat, NEW v \in Slot \ {Junk}
  PROVE  /\ Sound(Storing(a, key, v))
         /\ Storing(a, key, v).fill = Larger(key, a.fill)
         /\ \A i \in 0..Larger(key, a.fill) :
              Storing(a, key, v).cell[Storing(a, key, v).offset + i] = IF i = key THEN v ELSE At(a, i)
<1>. DEFINE r == Reified(a)
            e == Extended(r, key)
            s == Storing(a, key, v)
            top == Larger(key, a.fill)
<1>1. Sound(r) /\ Same(a, r) /\ r.real
  BY ReifiedSound
<1>2. Sound(e) /\ Same(r, e) /\ e.max >= key /\ e.real
  BY <1>1, ExtendedSound
<1>3. s = [e EXCEPT !.cell[e.offset + key] = v, !.fill = Larger(key, @)]
  BY DEF Storing
<1>4. \A i \in Nat : At(e, i) = At(a, i)
  BY <1>1, <1>2 DEF Same, At, Sound, Typed
<1>5. /\ e.offset \in Nat /\ e.max \in Int /\ e.fill = a.fill /\ a.fill \in Int /\ -1 <= a.fill
      /\ a.fill <= e.max /\ e.cell \in [0..(e.max + e.offset) -> Slot] /\ Fields(e)
  BY <1>1, <1>2 DEF Same, Sound, Typed
<1>6. top \in Int /\ top >= key /\ top >= a.fill /\ top <= e.max /\ (top = key \/ top = a.fill)
  BY <1>2, <1>5 DEF Larger
<1>. HIDE DEF e, r, s
<1>7. /\ s.cell = [e.cell EXCEPT ![e.offset + key] = v] /\ s.fill = top
      /\ s.offset = e.offset /\ s.max = e.max /\ s.real = e.real /\ Fields(s)
  <2>. DEFINE c == [e.cell EXCEPT ![e.offset + key] = v]
  <2>1. s = [e EXCEPT !.cell = c, !.fill = top]
    BY <1>3, <1>5 DEF Fields
  <2>. HIDE DEF c, top
  <2>2. s = [cell |-> c, offset |-> e.offset, max |-> e.max, fill |-> top, real |-> e.real]
    BY <1>5, <2>1 DEF Fields
  <2>. QED BY <2>2 DEF c, Fields
<1>. HIDE DEF top
<1>8. e.offset + key \in 0..(e.max + e.offset)
  BY <1>2, <1>5
<1>9. s.cell \in [0..(e.max + e.offset) -> Slot]
  BY <1>5, <1>7, <1>8
<1>10. Typed(s)
  BY <1>2, <1>5, <1>6, <1>7, <1>9 DEF Typed
<1>11. \A i \in 0..top : s.cell[s.offset + i] = IF i = key THEN v ELSE At(a, i)
  <2> SUFFICES ASSUME NEW i \in 0..top
      PROVE s.cell[s.offset + i] = IF i = key THEN v ELSE At(a, i)
    OBVIOUS
  <2>1. e.offset + i \in 0..(e.max + e.offset) /\ (e.offset + i = e.offset + key <=> i = key)
    BY <1>5, <1>6
  <2>2. e.cell[e.offset + i] = At(a, i)
    <3>1. i \in Nat /\ i <= e.max
      BY <1>5, <1>6
    <3>2. e.cell[e.offset + i] = At(e, i)
      BY <1>2, <3>1, Beyond
    <3>. QED BY <1>4, <3>1, <3>2
  <2>. QED BY <1>5, <1>7, <2>1, <2>2
<1>12. Clean(s)
  <2>1. \A i \in 0..s.fill : s.cell[s.offset + i] # Junk
    <3>1. \A i \in 0..a.fill : At(a, i) # Junk
      BY DEF Sound, Clean, At
    <3>2. \A i \in 0..top : At(a, i) # Junk
      BY <1>5, <1>6, <3>1, AsAssumption DEF At
    <3>. QED BY <1>7, <1>11, <3>2
  <2>2. \A i \in 0..(e.max + e.offset) : ~(e.offset <= i /\ i <= e.offset + top) => s.cell[i] = Null
    <3> SUFFICES ASSUME NEW i \in 0..(e.max + e.offset), ~(e.offset <= i /\ i <= e.offset + top)
        PROVE s.cell[i] = Null
      OBVIOUS
    <3>1. i # e.offset + key /\ ~(e.offset <= i /\ i <= e.offset + e.fill)
      BY <1>5, <1>6
    <3>2. e.cell[i] = Null
      BY <1>2, <3>1 DEF Sound, Clean
    <3>. QED BY <1>5, <1>7, <3>1, <3>2
  <2>. QED BY <1>7, <2>1, <2>2 DEF Clean
<1>. QED BY <1>7, <1>10, <1>11, <1>12 DEF Sound, s, top

LEMMA LoweredSound ==
  ASSUME NEW a, Sound(a), a.real, NEW num \in Nat, num <= a.offset
  PROVE  /\ Sound(Lowered(a, num))
         /\ Lowered(a, num).fill = a.fill + num
         /\ Lowered(a, num).offset = a.offset - num
         /\ Lowered(a, num).real
         /\ \A i \in 0..(a.fill + num) :
              Lowered(a, num).cell[Lowered(a, num).offset + i]
                = IF i < num THEN Null ELSE a.cell[a.offset + (i - num)]
<1>. DEFINE e == Lowered(a, num)
<1>1. /\ e.cell = a.cell /\ e.offset = a.offset - num /\ e.max = a.max + num
      /\ e.fill = a.fill + num /\ e.real = a.real /\ Fields(e)
  <2>. DEFINE o == a.offset - num
              m == a.max + num
              f == a.fill + num
  <2>1. Fields(a)
    BY DEF Sound, Typed
  <2>2. e = [a EXCEPT !.offset = o, !.max = m, !.fill = f]
    BY <2>1 DEF Lowered, Fields
  <2>. HIDE DEF o, m, f, e
  <2>3. e = [cell |-> a.cell, offset |-> o, max |-> m, fill |-> f, real |-> a.real]
    BY <2>1, <2>2 DEF Fields
  <2>. QED BY <2>3 DEF o, m, f, Fields
<1>2. /\ a.offset \in Nat /\ a.max \in Int /\ a.fill \in Int /\ -1 <= a.fill /\ a.fill <= a.max
      /\ a.cell \in [0..(a.max + a.offset) -> Slot]
  BY DEF Sound, Typed
<1>3. \A i \in 0..(a.max + a.offset) : ~(a.offset <= i /\ i <= a.offset + a.fill) => a.cell[i] = Null
  BY DEF Sound, Clean
<1>. HIDE DEF e
<1>4. \A i \in 0..(a.fill + num) : e.cell[e.offset + i] = IF i < num THEN Null ELSE a.cell[a.offset + (i - num)]
  <2> SUFFICES ASSUME NEW i \in 0..(a.fill + num)
      PROVE e.cell[e.offset + i] = IF i < num THEN Null ELSE a.cell[a.offset + (i - num)]
    OBVIOUS
  <2>1. e.offset + i = a.offset + (i - num)
    BY <1>1, <1>2
  <2>2. i < num => a.offset + (i - num) \in 0..(a.max + a.offset) /\ a.offset + (i - num) < a.offset
    BY <1>2
  <2>. QED BY <1>1, <1>2, <1>3, <2>1, <2>2
<1>5. Typed(e)
  <2>1. e.max + e.offset = a.max + a.offset
    BY <1>1, <1>2
  <2>2. e.offset \in Nat /\ e.max \in Int /\ e.fill \in Int /\ -1 <= e.fill /\ e.fill <= e.max /\ e.real \in BOOLEAN
    BY <1>1, <1>2
  <2>. QED BY <1>1, <1>2, <2>1, <2>2 DEF Typed
<1>6. Clean(e)
  <2>1. \A i \in 0..e.fill : e.cell[e.offset + i] # Junk
    <3>1. \A i \in 0..(a.fill + num) : i >= num => i - num \in 0..a.fill
      BY <1>2
    <3>2. \A i \in 0..a.fill : a.cell[a.offset + i] # Junk
      BY DEF Sound, Clean
    <3>. QED BY <1>1, <1>2, <1>4, <3>1, <3>2, AsAssumption
  <2>2. e.max + e.offset = a.max + a.offset /\ e.offset + e.fill = a.offset + a.fill /\ e.offset <= a.offset
    BY <1>1, <1>2
  <2>3. \A i \in 0..(e.max + e.offset) : ~(e.offset <= i /\ i <= e.offset + e.fill) => e.cell[i] = Null
    BY <1>1, <1>2, <1>3, <2>2
  <2>. QED BY <2>1, <2>3 DEF Clean
<1>. QED BY <1>1, <1>4, <1>5, <1>6 DEF Sound, e

LEMMA RaisedSound ==
  ASSUME NEW a, Sound(a), a.real, a.offset = 0, NEW num \in Nat \ {0}
  PROVE  /\ Sound(Raised(a, num))
         /\ Raised(a, num).fill = a.fill + num
         /\ \A i \in 0..(a.fill + num) :
              Raised(a, num).cell[Raised(a, num).offset + i]
                = IF i < num THEN Null ELSE a.cell[a.offset + (i - num)]
<1>. DEFINE slide == Larger(a.fill, 0)
            e == Extended(a, a.fill + num + slide)
            c == [i \in DOMAIN e.cell |-> IF i < num + slide THEN Null
                                          ELSE IF i <= num + slide + a.fill
                                          THEN e.cell[i - num - slide] ELSE e.cell[i]]
            r == Raised(a, num)
<1>1. /\ a.max \in Int /\ a.fill \in Int /\ -1 <= a.fill /\ a.fill <= a.max
  BY DEF Sound, Typed
<1>2. slide \in Nat /\ slide >= a.fill /\ (slide = a.fill \/ slide = 0)
  BY <1>1 DEF Larger
<1>3. a.fill + num + slide \in Int
  BY <1>1, <1>2
<1>4. Sound(e) /\ Same(a, e) /\ e.max >= a.fill + num + slide /\ e.real = a.real /\ e.offset = 0
  BY <1>3, ExtendedSound, ExtendedAtStart
<1>5. /\ e.max \in Int /\ e.fill = a.fill /\ e.cell \in [0..e.max -> Slot] /\ Fields(e)
  <2>1. e.max \in Int /\ e.cell \in [0..(e.max + e.offset) -> Slot] /\ Fields(e)
    BY <1>4 DEF Sound, Typed
  <2>2. e.max + e.offset = e.max
    BY <1>4, <2>1
  <2>. QED BY <1>4, <2>1, <2>2 DEF Same
<1>6. \A i \in 0..a.fill : e.cell[i] = a.cell[a.offset + i]
  <2>1. \A i \in 0..a.fill : e.offset + i = i
    BY <1>4
  <2>. QED BY <1>4, <2>1 DEF Same
<1>7. \A i \in 0..e.max : i > a.fill => e.cell[i] = Null
  <2>1. e.max + e.offset = e.max /\ e.offset + e.fill = a.fill
    BY <1>1, <1>4, <1>5
  <2>2. \A i \in 0..e.max : i > a.fill => ~(i <= e.offset + e.fill)
    BY <1>1, <2>1
  <2>3. \A i \in 0..(e.max + e.offset) :
          ~(e.offset <= i /\ i <= e.offset + e.fill) => e.cell[i] = Null
    BY <1>4 DEF Sound, Clean
  <2>. QED BY <2>1, <2>2, <2>3
<1>8. r = [e EXCEPT !.cell = c, !.offset = slide, !.max = e.max - slide, !.fill = a.fill + num]
  BY <1>5 DEF Raised, Fields
<1>. HIDE DEF r, e, slide, c
<1>9. /\ r.cell = c /\ r.offset = slide /\ r.max = e.max - slide /\ r.fill = a.fill + num
      /\ r.real = e.real /\ Fields(r)
  BY <1>5, <1>8 DEF Fields
<1>10. c = [i \in 0..e.max |-> IF i < num + slide THEN Null
                               ELSE IF i <= num + slide + a.fill
                               THEN e.cell[i - num - slide] ELSE e.cell[i]]
  BY <1>5 DEF c
<1>11. \A i \in 0..e.max : i >= num + slide /\ i <= num + slide + a.fill =>
          i - num - slide \in 0..a.fill /\ i - num - slide \in 0..e.max
  BY <1>1, <1>2, <1>5, <1>4
<1>12. c \in [0..e.max -> Slot]
  BY <1>1, <1>2, <1>5, <1>10, <1>11 DEF Slot
<1>13. Typed(r)
  <2>1. r.max + r.offset = e.max
    BY <1>2, <1>5, <1>9
  <2>2. r.offset \in Nat /\ r.max \in Int /\ r.fill \in Int /\ -1 <= r.fill /\ r.fill <= r.max /\ r.real \in BOOLEAN
    BY <1>1, <1>2, <1>4, <1>5, <1>9 DEF Sound, Typed
  <2>. QED BY <1>9, <1>12, <2>1, <2>2 DEF Typed
<1>14. \A i \in 0..(a.fill + num) : c[slide + i] = IF i < num THEN Null ELSE a.cell[a.offset + (i - num)]
  <2> SUFFICES ASSUME NEW i \in 0..(a.fill + num)
      PROVE c[slide + i] = IF i < num THEN Null ELSE a.cell[a.offset + (i - num)]
    OBVIOUS
  <2>1. slide + i \in 0..e.max /\ slide + i - num - slide = i - num
    BY <1>1, <1>2, <1>4, <1>5
  <2>2. CASE i < num
    BY <1>2, <1>10, <2>1, <2>2
  <2>3. CASE ~(i < num)
    <3>1. i - num \in 0..a.fill /\ ~(slide + i < num + slide) /\ slide + i <= num + slide + a.fill
      BY <1>1, <1>2, <2>3
    <3>. DEFINE j == slide + i
                k == i - num
    <3>2. j \in 0..e.max /\ ~(j < num + slide) /\ j <= num + slide + a.fill /\ j - num - slide = k
      BY <1>1, <1>2, <2>1, <2>3, <3>1
    <3>. HIDE DEF j, k
    <3>3. c[j] = e.cell[j - num - slide]
      BY <1>10, <3>2
    <3>4. c[j] = e.cell[k]
      BY <3>2, <3>3
    <3>5. e.cell[i - num] = a.cell[a.offset + (i - num)]
      BY <1>6, <3>1
    <3>. QED BY <2>3, <3>4, <3>5 DEF j, k
  <2>. QED BY <2>2, <2>3
<1>15. Clean(r)
  <2>1. \A i \in 0..r.fill : r.cell[r.offset + i] # Junk
    <3>1. \A i \in 0..(a.fill + num) : ~(i < num) => i - num \in 0..a.fill
      BY <1>1
    <3>2. \A i \in 0..a.fill : a.cell[a.offset + i] # Junk
      BY DEF Sound, Clean
    <3>. QED BY <1>9, <1>14, <3>1, <3>2, AsAssumption
  <2>2. r.max + r.offset = e.max
    BY <1>2, <1>5, <1>9
  <2>3. \A i \in 0..e.max : ~(slide <= i /\ i <= slide + (a.fill + num)) => c[i] = Null
    <3> SUFFICES ASSUME NEW i \in 0..e.max, ~(slide <= i /\ i <= slide + (a.fill + num)) PROVE c[i] = Null
      OBVIOUS
    <3>1. CASE i < slide
      BY <1>2, <1>10, <3>1
    <3>2. CASE i > slide + (a.fill + num)
      <4>1. ~(i < num + slide) /\ ~(i <= num + slide + a.fill) /\ i > a.fill
        BY <1>1, <1>2, <3>2
      <4>. QED BY <1>7, <1>10, <4>1
    <3>. QED BY <1>1, <1>2, <3>1, <3>2
  <2>. QED BY <1>9, <2>1, <2>2, <2>3 DEF Clean
<1>. QED BY <1>9, <1>13, <1>14, <1>15 DEF Sound, r

LEMMA Parts ==
  ASSUME NEW a, Sound(a)
  PROVE  /\ a = [cell |-> a.cell, offset |-> a.offset, max |-> a.max, fill |-> a.fill, real |-> a.real]
         /\ a.offset \in Nat /\ a.max \in Int /\ a.fill \in Int
         /\ -1 <= a.fill /\ a.fill <= a.max /\ a.real \in BOOLEAN
         /\ a.cell \in [0..(a.max + a.offset) -> Slot]
         /\ \A i \in 0..a.fill : a.cell[a.offset + i] # Junk
         /\ a.real => \A i \in 0..(a.max + a.offset) :
              ~(a.offset <= i /\ i <= a.offset + a.fill) => a.cell[i] = Null
  BY DEF Sound, Typed, Clean, Fields

\* The array of these fields, and what makes it sound.
Array(c, o, m, f, r) == [cell |-> c, offset |-> o, max |-> m, fill |-> f, real |-> r]

Makes(c, o, m, f, r) ==
  /\ o \in Nat /\ m \in Int /\ f \in Int /\ -1 <= f /\ f <= m /\ r \in BOOLEAN
  /\ c \in [0..(m + o) -> Slot]
  /\ \A i \in 0..f : c[o + i] # Junk
  /\ r => \A i \in 0..(m + o) : ~(o <= i /\ i <= o + f) => c[i] = Null

LEMMA Made ==
  ASSUME NEW c, NEW o, NEW m, NEW f, NEW r, Makes(c, o, m, f, r)
  PROVE  /\ Sound(Array(c, o, m, f, r))
         /\ Array(c, o, m, f, r).cell = c /\ Array(c, o, m, f, r).offset = o
         /\ Array(c, o, m, f, r).max = m /\ Array(c, o, m, f, r).fill = f
         /\ Array(c, o, m, f, r).real = r
<1>. DEFINE e == Array(c, o, m, f, r)
<1>1. e.cell = c /\ e.offset = o /\ e.max = m /\ e.fill = f /\ e.real = r /\ Fields(e)
  BY DEF Array, Fields
<1>. HIDE DEF e
<1>. QED BY <1>1 DEF Sound, Typed, Clean, Makes, e

LEMMA EmptySound ==
  ASSUME NEW real \in BOOLEAN
  PROVE  /\ Sound(EmptyArray(real)) /\ EmptyArray(real).fill = -1
         /\ EmptyArray(real).offset = 0 /\ EmptyArray(real).real = real
<1>. DEFINE c == [i \in Block(0) |-> Null]
<1>1. EmptyArray(real) = Array(c, 0, -1, -1, real)
  BY DEF EmptyArray, Array
<1>2. Block(0) = 0..(-1 + 0) /\ \A i \in 0..(-1 + 0) : FALSE
  BY DEF Block
<1>3. c \in [0..(-1 + 0) -> Slot]
  BY <1>2 DEF Slot
<1>. HIDE DEF c
<1>4. \A i \in 0..(-1) : FALSE
  OBVIOUS
<1>5. Makes(c, 0, -1, -1, real)
  BY <1>2, <1>3, <1>4 DEF Makes
<1>. QED BY <1>1, <1>5, Made

Popped(a) == [a EXCEPT !.cell[a.offset + a.fill] = Null, !.fill = @ - 1]

LEMMA PopSound ==
  ASSUME NEW a, Sound(a), a.fill >= 0
  PROVE  /\ Sound(Popped(a)) /\ Popped(a).fill = a.fill - 1
         /\ \A i \in 0..(a.fill - 1) : Popped(a).cell[Popped(a).offset + i] = a.cell[a.offset + i]
<1>. DEFINE c == [a.cell EXCEPT ![a.offset + a.fill] = Null]
            f == a.fill - 1
<1>0. Fields(a)
  BY DEF Sound, Typed
<1>1. Popped(a) = [a EXCEPT !.cell = c, !.fill = f]
  BY <1>0 DEF Fields, Popped
<1>. HIDE DEF c, f
<1>2. Popped(a) = Array(c, a.offset, a.max, f, a.real)
  BY <1>0, <1>1 DEF Fields, Array
<1>4. f \in Int /\ f = a.fill - 1 /\ -1 <= f /\ f <= a.max /\ f < a.fill
  BY Parts DEF f
<1>5. a.offset + a.fill \in 0..(a.max + a.offset)
  BY Parts
<1>6. c \in [0..(a.max + a.offset) -> Slot]
  BY <1>5, Parts DEF c, Slot
<1>7. \A i \in 0..(a.max + a.offset) : c[i] = IF i = a.offset + a.fill THEN Null ELSE a.cell[i]
  BY <1>5, Parts DEF c
<1>8. \A i \in 0..f : c[a.offset + i] = a.cell[a.offset + i]
  <2>1. \A i \in 0..f : a.offset + i \in 0..(a.max + a.offset) /\ a.offset + i # a.offset + a.fill
    BY <1>4, Parts
  <2>. QED BY <1>7, <2>1
<1>9. \A i \in 0..f : c[a.offset + i] # Junk
  <2>1. \A i \in 0..f : i \in 0..a.fill
    BY <1>4, Parts
  <2>. QED BY <1>8, <2>1, Parts
<1>10. a.real => \A i \in 0..(a.max + a.offset) : ~(a.offset <= i /\ i <= a.offset + f) => c[i] = Null
  BY <1>4, <1>7, Parts
<1>11. a.offset \in Nat /\ a.max \in Int /\ a.real \in BOOLEAN
  BY Parts
<1>12. Makes(c, a.offset, a.max, f, a.real)
  BY <1>4, <1>6, <1>9, <1>10, <1>11 DEF Makes
<1>13. /\ Sound(Popped(a)) /\ Popped(a).fill = f /\ Popped(a).cell = c
       /\ Popped(a).offset = a.offset
  BY <1>2, <1>12, Made
<1>. QED BY <1>8, <1>13 DEF f

Shifted(a) == [a EXCEPT !.cell[a.offset] = IF a.real THEN Null ELSE @,
                        !.offset = @ + 1, !.max = @ - 1, !.fill = @ - 1]

LEMMA ShiftSound ==
  ASSUME NEW a, Sound(a), a.fill >= 0
  PROVE  /\ Sound(Shifted(a)) /\ Shifted(a).fill = a.fill - 1
         /\ \A i \in 0..(a.fill - 1) :
              Shifted(a).cell[Shifted(a).offset + i] = a.cell[a.offset + (i + 1)]
<1>. DEFINE c == [a.cell EXCEPT ![a.offset] = IF a.real THEN Null ELSE @]
            o == a.offset + 1
            m == a.max - 1
            f == a.fill - 1
<1>0. Fields(a)
  BY DEF Sound, Typed
<1>1. Shifted(a) = [a EXCEPT !.cell = c, !.offset = o, !.max = m, !.fill = f]
  BY <1>0 DEF Fields, Shifted
<1>. HIDE DEF c, o, m, f
<1>2. Shifted(a) = Array(c, o, m, f, a.real)
  BY <1>0, <1>1 DEF Fields, Array
<1>4. /\ f \in Int /\ f = a.fill - 1 /\ -1 <= f /\ f <= m /\ f < a.fill
      /\ m \in Int /\ o \in Nat /\ m + o = a.max + a.offset /\ o = a.offset + 1
  BY Parts DEF f, o, m
<1>5. /\ a.offset \in Nat /\ a.max \in Int /\ a.real \in BOOLEAN /\ a.fill \in Int /\ a.fill <= a.max
      /\ a.offset \in 0..(a.max + a.offset)
  BY Parts
<1>6. c \in [0..(a.max + a.offset) -> Slot]
  BY <1>5, Parts DEF c, Slot
<1>7. \A i \in 0..(a.max + a.offset) :
        c[i] = IF i = a.offset /\ a.real THEN Null ELSE a.cell[i]
  BY <1>5, Parts DEF c
<1>8. \A i \in 0..f : c[o + i] = a.cell[a.offset + (i + 1)] /\ i + 1 \in 0..a.fill
  <2> SUFFICES ASSUME NEW i \in 0..f
      PROVE c[o + i] = a.cell[a.offset + (i + 1)] /\ i + 1 \in 0..a.fill
    OBVIOUS
  <2>1. o + i \in 0..(a.max + a.offset) /\ o + i # a.offset
    BY <1>4, <1>5
  <2>2. o + i = a.offset + (i + 1) /\ i + 1 \in 0..a.fill
    BY <1>4, <1>5
  <2>3. c[o + i] = a.cell[o + i]
    BY <1>7, <2>1
  <2>4. a.cell[o + i] = a.cell[a.offset + (i + 1)]
    BY <2>2
  <2>. QED BY <2>2, <2>3, <2>4
<1>9. \A i \in 0..f : c[o + i] # Junk
  BY <1>8, Parts
<1>10. a.real => \A i \in 0..(m + o) : ~(o <= i /\ i <= o + f) => c[i] = Null
  <2>1. \A i \in 0..(a.max + a.offset) :
          ~(o <= i /\ i <= o + f) => i = a.offset \/ ~(a.offset <= i /\ i <= a.offset + a.fill)
    BY <1>4, <1>5
  <2>. QED BY <1>4, <1>7, <2>1, Parts
<1>12. Makes(c, o, m, f, a.real)
  BY <1>4, <1>5, <1>6, <1>9, <1>10 DEF Makes
<1>13. Sound(Shifted(a)) /\ Shifted(a).fill = f /\ Shifted(a).cell = c /\ Shifted(a).offset = o
  BY <1>2, <1>12, Made
<1>. QED BY <1>8, <1>13 DEF f

Unshifted(a, num) ==
  IF num <= a.offset THEN Lowered(Reified(a), num)
  ELSE Raised(Lowered(Reified(a), a.offset), num - a.offset)

LEMMA UnshiftSound ==
  ASSUME NEW a, Sound(a), NEW num \in Nat \ {0}
  PROVE  /\ Sound(Unshifted(a, num)) /\ Unshifted(a, num).fill = a.fill + num
         /\ \A i \in 0..(a.fill + num) :
              Unshifted(a, num).cell[Unshifted(a, num).offset + i]
                = IF i < num THEN Null ELSE a.cell[a.offset + (i - num)]
<1>. DEFINE r == Reified(a)
            l == Lowered(r, a.offset)
<1>1. /\ Sound(r) /\ r.real /\ r.offset = a.offset /\ r.fill = a.fill
      /\ \A i \in 0..a.fill : r.cell[a.offset + i] = a.cell[a.offset + i]
  BY ReifiedSound DEF Same
<1>2. a.offset \in Nat /\ a.fill \in Int /\ -1 <= a.fill
  BY Parts
<1>. HIDE DEF r
<1>3. CASE num <= a.offset
  <2>1. Unshifted(a, num) = Lowered(r, num)
    BY <1>3 DEF Unshifted, r
  <2>2. /\ Sound(Lowered(r, num)) /\ Lowered(r, num).fill = a.fill + num
        /\ \A i \in 0..(a.fill + num) : Lowered(r, num).cell[Lowered(r, num).offset + i]
                                        = IF i < num THEN Null ELSE r.cell[r.offset + (i - num)]
    BY <1>1, <1>3, LoweredSound
  <2>3. \A i \in 0..(a.fill + num) : i >= num => i - num \in 0..a.fill
    BY <1>2
  <2>4. \A i \in 0..(a.fill + num) : i >= num => r.cell[r.offset + (i - num)] = a.cell[a.offset + (i - num)]
    BY <1>1, <2>3
  <2>. QED BY <2>1, <2>2, <2>4
<1>4. CASE ~(num <= a.offset)
  <2>. DEFINE rest == num - a.offset
              u == Raised(l, rest)
  <2>1. Unshifted(a, num) = u
    BY <1>4 DEF Unshifted, r
  <2>2. /\ Sound(l) /\ l.fill = a.fill + a.offset /\ l.offset = 0 /\ l.real
        /\ \A i \in 0..(a.fill + a.offset) :
             l.cell[l.offset + i] = IF i < a.offset THEN Null ELSE r.cell[r.offset + (i - a.offset)]
    <3>1. a.offset <= r.offset /\ a.offset - a.offset = 0 /\ r.offset - a.offset = 0
      BY <1>1, <1>2
    <3>2. Lowered(r, a.offset).offset = r.offset - a.offset
      BY <1>1, <1>2, <3>1, LoweredSound
    <3>. QED BY <1>1, <1>2, <3>1, <3>2, LoweredSound
  <2>3. rest \in Nat \ {0} /\ rest = num - a.offset
    BY <1>2, <1>4
  <2>. HIDE DEF l, rest, u
  <2>4. /\ Sound(u) /\ u.fill = l.fill + rest
        /\ \A i \in 0..(l.fill + rest) :
             u.cell[u.offset + i] = IF i < rest THEN Null ELSE l.cell[l.offset + (i - rest)]
    BY <2>2, <2>3, RaisedSound DEF u
  <2>5. l.fill + rest = a.fill + num
    BY <1>2, <2>2, <2>3
  <2>6. \A i \in 0..(a.fill + num) :
          u.cell[u.offset + i] = IF i < num THEN Null ELSE a.cell[a.offset + (i - num)]
    <3> SUFFICES ASSUME NEW i \in 0..(a.fill + num)
        PROVE u.cell[u.offset + i] = IF i < num THEN Null ELSE a.cell[a.offset + (i - num)]
      OBVIOUS
    <3>1. CASE i < rest
      <4>1. i < num
        BY <1>2, <2>3, <3>1
      <4>. QED BY <2>4, <2>5, <3>1, <4>1
    <3>2. CASE ~(i < rest)
      <4>. DEFINE j == i - rest
      <4>1. j \in 0..(a.fill + a.offset) /\ j - a.offset = i - num
        BY <1>2, <2>3, <3>2
      <4>2. u.cell[u.offset + i] = l.cell[l.offset + j]
        BY <2>4, <2>5, <3>2
      <4>. HIDE DEF j
      <4>3. l.cell[l.offset + j] = IF j < a.offset THEN Null ELSE r.cell[r.offset + (j - a.offset)]
        BY <2>2, <4>1
      <4>4. CASE j < a.offset
        <5>1. i < num
          BY <1>2, <2>3, <4>4 DEF j
        <5>. QED BY <4>2, <4>3, <4>4, <5>1
      <4>5. CASE ~(j < a.offset)
        <5>1. ~(i < num) /\ i - num \in 0..a.fill
          BY <1>2, <2>3, <4>5 DEF j
        <5>2. r.cell[r.offset + (j - a.offset)] = r.cell[a.offset + (i - num)]
          BY <1>1, <4>1
        <5>. QED BY <1>1, <4>2, <4>3, <4>5, <5>1, <5>2
      <4>. QED BY <4>4, <4>5
    <3>. QED BY <3>1, <3>2
  <2>. QED BY <2>1, <2>4, <2>5, <2>6
<1>. QED BY <1>3, <1>4

\* What av_fill leaves when the room is enough.
Cut(a, fill) ==
  [a EXCEPT !.fill = fill,
            !.cell = [i \in DOMAIN @ |->
                        IF i \in (IF a.real THEN (a.offset + fill + 1)..(a.offset + a.fill)
                                  ELSE (a.offset + a.fill + 1)..(a.offset + fill))
                        THEN Null ELSE @[i]]]

LEMMA CutSound ==
  ASSUME NEW a, Sound(a), NEW fill \in Int, -1 <= fill, fill <= a.max
  PROVE  /\ Sound(Cut(a, fill)) /\ Cut(a, fill).fill = fill
         /\ \A i \in 0..fill : Cut(a, fill).cell[Cut(a, fill).offset + i] = At(a, i)
<1>. DEFINE c == [i \in DOMAIN a.cell |->
                    IF i \in (IF a.real THEN (a.offset + fill + 1)..(a.offset + a.fill)
                              ELSE (a.offset + a.fill + 1)..(a.offset + fill))
                    THEN Null ELSE a.cell[i]]
<1>0. Fields(a)
  BY DEF Sound, Typed
<1>1. Cut(a, fill) = [a EXCEPT !.cell = c, !.fill = fill]
  BY <1>0 DEF Fields, Cut
<1>2. /\ a.offset \in Nat /\ a.max \in Int /\ a.real \in BOOLEAN /\ a.fill \in Int
      /\ -1 <= a.fill /\ a.fill <= a.max /\ a.cell \in [0..(a.max + a.offset) -> Slot]
  BY Parts
<1>3. c \in [0..(a.max + a.offset) -> Slot]
  BY <1>2 DEF c, Slot
<1>4. \A i \in 0..(a.max + a.offset) :
        c[i] = IF \/ a.real /\ a.offset + fill < i /\ i <= a.offset + a.fill
                  \/ ~a.real /\ a.offset + a.fill < i /\ i <= a.offset + fill
               THEN Null ELSE a.cell[i]
  BY <1>2 DEF c
<1>. HIDE DEF c
<1>5. Cut(a, fill) = Array(c, a.offset, a.max, fill, a.real)
  BY <1>0, <1>1 DEF Fields, Array
<1>6. \A i \in 0..fill : c[a.offset + i] = At(a, i)
  <2> SUFFICES ASSUME NEW i \in 0..fill PROVE c[a.offset + i] = At(a, i)
    OBVIOUS
  <2>1. a.offset + i \in 0..(a.max + a.offset)
    BY <1>2
  <2>2. CASE a.real
    <3>1. i \in Nat /\ i <= a.max /\ ~(a.offset + fill < a.offset + i)
      BY <1>2
    <3>2. c[a.offset + i] = a.cell[a.offset + i]
      BY <1>4, <2>1, <2>2, <3>1
    <3>. QED BY <2>2, <3>1, <3>2, Beyond
  <2>3. CASE ~a.real
    <3>1. a.offset + i <= a.offset + fill /\ (a.offset + a.fill < a.offset + i <=> ~(i <= a.fill))
      BY <1>2
    <3>. QED BY <1>4, <2>1, <2>3, <3>1 DEF At
  <2>. QED BY <1>2, <2>2, <2>3
<1>7. \A i \in 0..fill : c[a.offset + i] # Junk
  <2>1. \A i \in 0..fill : At(a, i) # Junk
    BY AsAssumption, Parts DEF At
  <2>. QED BY <1>6, <2>1
<1>8. a.real => \A i \in 0..(a.max + a.offset) : ~(a.offset <= i /\ i <= a.offset + fill) => c[i] = Null
  BY <1>2, <1>4, Parts
<1>9. Makes(c, a.offset, a.max, fill, a.real)
  BY <1>2, <1>3, <1>7, <1>8 DEF Makes
<1>. QED BY <1>5, <1>6, <1>9, Made

\* What av_delete leaves of an array whose elements are its own.
Deleted(a, key, top) == [a EXCEPT !.cell[a.offset + key] = Null, !.fill = top]

\* Nothing but absent places lie between top and the last one, which is key.
Trims(a, key, top) ==
  /\ key \in 0..a.fill /\ top \in -1..a.fill
  /\ top # a.fill => /\ key = a.fill
                     /\ \A i \in (top + 1)..(key - 1) : a.cell[a.offset + i] = Null

LEMMA DeleteSound ==
  ASSUME NEW a, Sound(a), a.real, NEW key, NEW top, Trims(a, key, top)
  PROVE  /\ Sound(Deleted(a, key, top)) /\ Deleted(a, key, top).fill = top
         /\ \A i \in 0..top : Deleted(a, key, top).cell[Deleted(a, key, top).offset + i]
                              = IF i = key THEN Null ELSE a.cell[a.offset + i]
<1>. DEFINE c == [a.cell EXCEPT ![a.offset + key] = Null]
<1>0. Fields(a)
  BY DEF Sound, Typed
<1>1. Deleted(a, key, top) = [a EXCEPT !.cell = c, !.fill = top]
  BY <1>0 DEF Fields, Deleted
<1>2. /\ a.offset \in Nat /\ a.max \in Int /\ a.real \in BOOLEAN /\ a.fill \in Int
      /\ -1 <= a.fill /\ a.fill <= a.max /\ a.cell \in [0..(a.max + a.offset) -> Slot]
  BY Parts
<1>3. top \in Int /\ -1 <= top /\ top <= a.fill /\ key \in Nat /\ key <= a.fill
  BY <1>2 DEF Trims
<1>4. a.offset + key \in 0..(a.max + a.offset)
  BY <1>2, <1>3
<1>5. c \in [0..(a.max + a.offset) -> Slot]
  BY <1>2, <1>4 DEF c, Slot
<1>6. \A i \in 0..(a.max + a.offset) : c[i] = IF i = a.offset + key THEN Null ELSE a.cell[i]
  BY <1>2, <1>4 DEF c
<1>. HIDE DEF c
<1>7. Deleted(a, key, top) = Array(c, a.offset, a.max, top, a.real)
  BY <1>0, <1>1 DEF Fields, Array
<1>8. \A i \in 0..top : c[a.offset + i] = IF i = key THEN Null ELSE a.cell[a.offset + i]
  <2>1. \A i \in 0..top : /\ a.offset + i \in 0..(a.max + a.offset)
                          /\ a.offset + i = a.offset + key <=> i = key
    BY <1>2, <1>3
  <2>. QED BY <1>6, <2>1
<1>9. \A i \in 0..top : c[a.offset + i] # Junk
  <2>1. \A i \in 0..top : i \in 0..a.fill
    BY <1>2, <1>3
  <2>2. \A i \in 0..a.fill : a.cell[a.offset + i] # Junk
    BY Parts
  <2>3. Null # Junk
    BY AsAssumption
  <2>. QED BY <1>8, <2>1, <2>2, <2>3
<1>10. \A i \in 0..(a.max + a.offset) : ~(a.offset <= i /\ i <= a.offset + top) => c[i] = Null
  <2> SUFFICES ASSUME NEW i \in 0..(a.max + a.offset), ~(a.offset <= i /\ i <= a.offset + top),
                      i # a.offset + key
      PROVE c[i] = Null
    BY <1>6
  <2>1. CASE ~(a.offset <= i /\ i <= a.offset + a.fill)
    BY <1>6, <2>1, Parts
  <2>2. CASE a.offset <= i /\ i <= a.offset + a.fill
    <3>. DEFINE k == i - a.offset
    <3>1. top # a.fill
      BY <1>2, <1>3, <2>2
    <3>2. k \in (top + 1)..(key - 1) /\ a.offset + k = i
      BY <1>2, <1>3, <2>2, <3>1 DEF Trims
    <3>3. a.cell[a.offset + k] = Null
      BY <3>1, <3>2 DEF Trims
    <3>. QED BY <1>6, <3>2, <3>3
  <2>. QED BY <2>1, <2>2
<1>11. Makes(c, a.offset, a.max, top, a.real)
  BY <1>2, <1>3, <1>5, <1>9, <1>10 DEF Makes
<1>12. /\ Sound(Deleted(a, key, top)) /\ Deleted(a, key, top).fill = top
       /\ Deleted(a, key, top).cell = c /\ Deleted(a, key, top).offset = a.offset
  <2>. DEFINE e == Array(c, a.offset, a.max, top, a.real)
  <2>1. Sound(e)
    BY <1>11, Made
  <2>2. e.fill = top /\ e.cell = c /\ e.offset = a.offset
    BY DEF Array
  <2>. HIDE DEF e
  <2>3. Deleted(a, key, top) = e
    BY <1>7 DEF e
  <2>. QED BY <2>1, <2>2, <2>3
<1>. QED BY <1>8, <1>12

Cleared(a) ==
  Whole([a EXCEPT !.fill = -1,
         !.cell = [i \in DOMAIN @ |-> IF a.real /\ i \in a.offset..(a.offset + a.fill)
                                      THEN Null ELSE @[i]]])

LEMMA ClearSound ==
  ASSUME NEW a, Sound(a)
  PROVE  Sound(Cleared(a)) /\ Cleared(a).fill = -1
<1>. DEFINE c == [i \in DOMAIN a.cell |-> IF a.real /\ i \in a.offset..(a.offset + a.fill)
                                          THEN Null ELSE a.cell[i]]
            m == a.max + a.offset
<1>0. Fields(a)
  BY DEF Sound, Typed
<1>1. Cleared(a) = [a EXCEPT !.cell = c, !.fill = -1, !.offset = 0, !.max = m]
  BY <1>0 DEF Fields, Cleared, Whole
<1>2. /\ a.offset \in Nat /\ a.max \in Int /\ a.real \in BOOLEAN /\ a.fill \in Int
      /\ -1 <= a.fill /\ a.fill <= a.max /\ a.cell \in [0..m -> Slot]
  BY Parts
<1>3. c \in [0..(m + 0) -> Slot]
  BY <1>2 DEF c, Slot
<1>4. a.real => \A i \in 0..(m + 0) : c[i] = Null
  BY <1>2, Parts DEF c
<1>5. m \in Int /\ -1 <= m
  BY <1>2
<1>. HIDE DEF c, m
<1>6. Cleared(a) = Array(c, 0, m, -1, a.real)
  BY <1>0, <1>1 DEF Fields, Array
<1>7. \A i \in 0..(-1) : FALSE
  OBVIOUS
<1>8. Makes(c, 0, m, -1, a.real)
  BY <1>2, <1>3, <1>4, <1>5, <1>7 DEF Makes
<1>. QED BY <1>6, <1>8, Made

Left(a) == Whole([a EXCEPT !.fill = -1])

LEMMA LeftSound ==
  ASSUME NEW a, Sound(a), ~a.real
  PROVE  Sound(Left(a)) /\ Left(a).fill = -1
<1>. DEFINE m == a.max + a.offset
<1>0. Fields(a)
  BY DEF Sound, Typed
<1>1. Left(a) = [a EXCEPT !.fill = -1, !.offset = 0, !.max = m]
  BY <1>0 DEF Fields, Left, Whole
<1>2. m \in Int /\ -1 <= m /\ a.cell \in [0..(m + 0) -> Slot] /\ a.real \in BOOLEAN
  BY Parts
<1>. HIDE DEF m
<1>3. Left(a) = Array(a.cell, 0, m, -1, a.real)
  BY <1>0, <1>1 DEF Fields, Array
<1>4. \A i \in 0..(-1) : FALSE
  OBVIOUS
<1>5. Makes(a.cell, 0, m, -1, a.real)
  BY <1>2, <1>4 DEF Makes
<1>. QED BY <1>3, <1>5, Made

\* An @_ that was left is given n arguments.
Entered(a, n, args) ==
  [a EXCEPT !.max = Larger(a.max, n - 1), !.fill = n - 1,
            !.cell = [i \in Block(Larger(a.max, n - 1) + 1) |->
                        IF i < n THEN args[i] ELSE IF i \in DOMAIN @ THEN @[i] ELSE Junk]]

LEMMA EnterSound ==
  ASSUME NEW a, Sound(a), ~a.real, a.offset = 0, NEW n \in Nat, NEW args \in [Block(n) -> Element]
  PROVE  /\ Sound(Entered(a, n, args)) /\ Entered(a, n, args).fill = n - 1
         /\ \A i \in 0..(n - 1) : Entered(a, n, args).cell[Entered(a, n, args).offset + i] = args[i]
<1>. DEFINE top == Larger(a.max, n - 1)
            c == [i \in Block(top + 1) |->
                    IF i < n THEN args[i] ELSE IF i \in DOMAIN a.cell THEN a.cell[i] ELSE Junk]
            f == n - 1
<1>0. Fields(a)
  BY DEF Sound, Typed
<1>1. Entered(a, n, args) = [a EXCEPT !.max = top, !.fill = f, !.cell = c]
  BY <1>0 DEF Fields, Entered
<1>2. a.max \in Int /\ a.cell \in [0..a.max -> Slot] /\ a.real = FALSE /\ -1 <= a.max
  <2>1. a.max + a.offset = a.max
    BY Parts
  <2>. QED BY <2>1, Parts
<1>3. top \in Int /\ f \in Int /\ -1 <= f /\ f <= top /\ a.max <= top
  BY <1>2 DEF Larger
<1>4. Block(top + 1) = 0..(top + 0)
  BY <1>3 DEF Block
<1>5. \A i \in Block(n) : args[i] \in Slot /\ args[i] # Junk
  BY AsAssumption DEF Slot
<1>6. \A i \in Nat : i < n => i \in Block(n)
  BY DEF Block
<1>7. c \in [0..(top + 0) -> Slot]
  BY <1>2, <1>3, <1>4, <1>5, <1>6 DEF Slot
<1>8. \A i \in 0..f : c[0 + i] = args[i] /\ i \in Block(n)
  BY <1>3, <1>4, <1>6
<1>. HIDE DEF c, top, f
<1>9. Entered(a, n, args) = Array(c, 0, top, f, a.real)
  BY <1>0, <1>1 DEF Fields, Array
<1>10. Makes(c, 0, top, f, a.real)
  BY <1>2, <1>3, <1>5, <1>7, <1>8 DEF Makes
<1>. QED BY <1>8, <1>9, <1>10, Made DEF f
-----------------------------------------------------------------------------
\* The inductive invariant: the storage is typed and clean, the bound kept.
IInv == Sound(av) /\ av.fill <= MaxKey

Goal == IInv' /\ (Abstract!PaNext \/ UNCHANGED Abstract!paVars)

LEMMA Sizes ==
  ASSUME IInv
  PROVE  /\ av.fill \in Int /\ -1 <= av.fill /\ av.fill <= MaxKey /\ MaxKey \in Nat
         /\ av.max \in Int /\ av.fill <= av.max
         /\ Abstract!Places(av.fill + 1) = 0..av.fill
         /\ \A i \in Nat : Abstract!At(i) = At(av, i)
<1>1. av.fill \in Int /\ -1 <= av.fill /\ av.fill <= MaxKey /\ MaxKey \in Nat
      /\ av.max \in Int /\ av.fill <= av.max
  BY AsAssumption, Parts DEF IInv
<1>2. Abstract!Places(av.fill + 1) = 0..av.fill
  BY <1>1 DEF Abstract!Places
<1>3. \A i \in Nat : Abstract!At(i) = At(av, i)
  BY <1>1, <1>2 DEF Abstract!At, At, Contents
<1>. QED BY <1>1, <1>2, <1>3

\* A step that gives place key the element v.
LEMMA Stores ==
  ASSUME IInv, NEW key \in 0..MaxKey, NEW v \in Element, av' = Storing(av, key, v)
  PROVE  Goal
<1>1. v \in Slot \ {Junk} /\ key \in Nat
  BY AsAssumption DEF Slot
<1>2. /\ Sound(av') /\ av'.fill = Larger(key, av.fill)
      /\ \A i \in 0..Larger(key, av.fill) : av'.cell[av'.offset + i] = IF i = key THEN v ELSE At(av, i)
  BY <1>1, StoringSound DEF IInv
<1>3. /\ Larger(key, av.fill) \in Int /\ Larger(key, av.fill) <= MaxKey
      /\ Larger(key, av.fill) + 1 = IF key < av.fill + 1 THEN av.fill + 1 ELSE key + 1
  BY <1>1, Sizes DEF Larger
<1>4. IInv'
  BY <1>2, <1>3 DEF IInv
<1>5. Abstract!Put(key, v)
  <2>1. Abstract!Places(av'.fill + 1) = 0..av'.fill
    BY <1>2, <1>3 DEF Abstract!Places
  <2>2. \A i \in 0..av'.fill : av'.cell[av'.offset + i] = IF i = key THEN v ELSE Abstract!At(i)
    BY <1>2, Sizes
  <2>. QED BY <1>2, <1>3, <2>1, <2>2 DEF Abstract!Put, Contents
<1>6. key \in 0..(MaxKey + 1)
  BY Sizes
<1>. QED BY <1>4, <1>5, <1>6 DEF Goal, Abstract!PaNext

LEMMA Extends ==
  ASSUME IInv, NEW key \in 0..MaxKey, Extend(key)
  PROVE  Goal
<1>1. Sound(av') /\ Same(av, av')
  BY ExtendedSound DEF IInv, Extend
<1>2. IInv'
  BY <1>1 DEF IInv, Same
<1>3. UNCHANGED Abstract!paVars
  BY <1>1 DEF Same, Abstract!paVars, Contents
<1>. QED BY <1>2, <1>3 DEF Goal

\* A step that leaves the first n places and adds absent ones.
LEMMA Resizes ==
  ASSUME IInv, NEW n \in 0..(MaxKey + 1), Sound(av'), av'.fill = n - 1,
         \A i \in 0..(n - 1) : av'.cell[av'.offset + i] = At(av, i)
  PROVE  IInv' /\ Abstract!Resize(n)
<1>1. n \in Int /\ n - 1 <= MaxKey /\ n - 1 + 1 = n
  BY Sizes
<1>2. Abstract!Places(n) = 0..(n - 1) /\ \A i \in 0..(n - 1) : At(av, i) = Abstract!At(i)
  BY <1>1, Sizes DEF Abstract!Places
<1>3. av'.fill + 1 = n
  BY <1>1
<1>4. Contents' = [i \in 0..(n - 1) |-> Abstract!At(i)]
  BY <1>2 DEF Contents
<1>. QED BY <1>1, <1>2, <1>3, <1>4 DEF IInv, Abstract!Resize

LEMMA ResizeIsNext ==
  ASSUME NEW n \in 0..(MaxKey + 1), IInv', Abstract!Resize(n)
  PROVE  Goal
  BY DEF Goal, Abstract!PaNext

LEMMA Empties ==
  ASSUME IInv, Sound(av'), av'.fill = -1
  PROVE  Goal
<1>1. 0 \in 0..(MaxKey + 1) /\ 0 - 1 = -1 /\ \A i \in 0..(0 - 1) : FALSE
  BY AsAssumption
<1>. QED BY <1>1, Resizes, ResizeIsNext

LEMMA Takes ==
  ASSUME IInv, Pop
  PROVE  Goal
<1>1. av' = Popped(av) /\ av.fill >= 0
  BY DEF Pop, Popped
<1>2. /\ Sound(av') /\ av'.fill = av.fill - 1
      /\ \A i \in 0..(av.fill - 1) : av'.cell[av'.offset + i] = av.cell[av.offset + i]
  BY <1>1, PopSound DEF IInv
<1>3. PICK n \in 0..(MaxKey + 1) : n = av.fill
  BY <1>1, Sizes
<1>4. \A i \in 0..(n - 1) : av'.cell[av'.offset + i] = At(av, i)
  BY <1>2, <1>3, Sizes DEF At
<1>5. av'.fill = n - 1
  BY <1>2, <1>3
<1>6. IInv' /\ Abstract!Resize(n)
  BY <1>2, <1>4, <1>5, Resizes
<1>. QED BY <1>6, ResizeIsNext

LEMMA TakesFirst ==
  ASSUME IInv, Shift
  PROVE  Goal
<1>1. av' = Shifted(av) /\ av.fill >= 0
  BY DEF Shift, Shifted
<1>2. /\ Sound(av') /\ av'.fill = av.fill - 1
      /\ \A i \in 0..(av.fill - 1) : av'.cell[av'.offset + i] = av.cell[av.offset + (i + 1)]
  BY <1>1, ShiftSound DEF IInv
<1>3. (av.fill + 1) - 1 = av.fill /\ av.fill + 1 > 0 /\ av'.fill + 1 = av.fill /\ av'.fill <= MaxKey
  BY <1>1, <1>2, Sizes
<1>4. IInv'
  BY <1>2, <1>3 DEF IInv
<1>5. \A i \in 0..(av.fill - 1) : i + 1 \in 0..av.fill
  BY Sizes
<1>6. Abstract!Places((av.fill + 1) - 1) = 0..(av.fill - 1)
  BY <1>3 DEF Abstract!Places
<1>7. \A i \in 0..(av.fill - 1) : Abstract!At(i + 1) = av'.cell[av'.offset + i]
  BY <1>2, <1>5, Sizes DEF At
<1>8. Abstract!TakeFirst
  <2>1. av.fill + 1 > 0 /\ (av.fill + 1)' = (av.fill + 1) - 1
    BY <1>1, <1>3, Sizes
  <2>2. Contents' = [i \in Abstract!Places((av.fill + 1) - 1) |-> Abstract!At(i + 1)]
    <3>1. Contents' = [i \in 0..(av.fill - 1) |-> av'.cell[av'.offset + i]]
      BY <1>2 DEF Contents
    <3>2. Abstract!Places((av.fill + 1) - 1) = 0..(av.fill - 1)
      BY <1>6
    <3>. QED BY <1>7, <3>1, <3>2
  <2>. QED BY <2>1, <2>2 DEF Abstract!TakeFirst
<1>. QED BY <1>4, <1>8 DEF Goal, Abstract!PaNext

LEMMA Prepends ==
  ASSUME IInv, NEW num \in 0..MaxKey, av.fill + num <= MaxKey, Unshift(num)
  PROVE  Goal
<1>1. num \in Nat \ {0}
  BY AsAssumption DEF Unshift
<1>2. Reified(av).offset = av.offset
  BY ReifiedSound DEF IInv
<1>3. av' = Unshifted(av, num)
  BY <1>2 DEF Unshift, Unshifted
<1>4. /\ Sound(av') /\ av'.fill = av.fill + num
      /\ \A i \in 0..(av.fill + num) :
           av'.cell[av'.offset + i] = IF i < num THEN Null ELSE av.cell[av.offset + (i - num)]
  BY <1>1, <1>3, UnshiftSound DEF IInv
<1>5. IInv'
  BY <1>4 DEF IInv
<1>6. av'.fill + 1 = av.fill + 1 + num /\ num \in 0..(MaxKey + 1)
  BY <1>1, <1>4, Sizes
<1>7. \A i \in 0..(av.fill + num) : i >= num => i - num \in 0..av.fill
  BY <1>1, Sizes
<1>8. Abstract!Places(av.fill + 1 + num) = 0..(av.fill + num)
  BY <1>1, Sizes DEF Abstract!Places
<1>9. Contents' = [i \in 0..(av.fill + num) |-> IF i < num THEN Null ELSE Contents[i - num]]
  BY <1>1, <1>4, <1>7 DEF Contents
<1>10. Abstract!Prepend(num)
  BY <1>6, <1>8, <1>9 DEF Abstract!Prepend
<1>. QED BY <1>5, <1>6, <1>10 DEF Goal, Abstract!PaNext

LEMMA Fills ==
  ASSUME IInv, NEW fill \in -1..MaxKey, Fill(fill)
  PROVE  Goal
<1>1. fill \in Int /\ fill <= MaxKey /\ -1 <= fill /\ fill + 1 \in 0..(MaxKey + 1) /\ fill + 1 - 1 = fill
  BY Sizes
<1>2. Sound(av') /\ av'.fill = fill /\ \A i \in 0..fill : av'.cell[av'.offset + i] = At(av, i)
  <2>1. CASE fill > av.max
    <3>1. av' = Storing(av, fill, Null) /\ fill \in Nat /\ Null \in Slot \ {Junk} /\ ~(fill <= av.fill)
          /\ Larger(fill, av.fill) = fill
      BY <1>1, <2>1, Sizes, AsAssumption DEF Fill, Slot, Larger
    <3>2. /\ Sound(av') /\ av'.fill = fill
          /\ \A i \in 0..fill : av'.cell[av'.offset + i] = IF i = fill THEN Null ELSE At(av, i)
      BY <3>1, StoringSound DEF IInv
    <3>. QED BY <3>1, <3>2 DEF At
  <2>2. CASE ~(fill > av.max)
    <3>1. fill <= av.max
      BY <1>1, <2>2, Sizes
    <3>2. av' = Cut(av, fill)
      BY <2>2 DEF Fill, Cut
    <3>. QED BY <1>1, <3>1, <3>2, CutSound DEF IInv
  <2>. QED BY <2>1, <2>2
<1>3. IInv' /\ Abstract!Resize(fill + 1)
  BY <1>1, <1>2, Resizes
<1>. QED BY <1>1, <1>3, ResizeIsNext

LEMMA Assigns ==
  ASSUME IInv, NEW n \in 0..MaxKey, NEW args \in [Block(n) -> Element], EnterSub(n, args)
  PROVE  Goal
<1>1. av' = Entered(av, n, args) /\ ~av.real /\ av.offset = 0 /\ n \in Nat /\ n - 1 <= MaxKey
  BY Sizes DEF EnterSub, Entered
<1>2. Sound(av') /\ av'.fill = n - 1 /\ \A i \in 0..(n - 1) : av'.cell[av'.offset + i] = args[i]
  BY <1>1, EnterSound DEF IInv
<1>3. IInv'
  BY <1>1, <1>2 DEF IInv
<1>4. av'.fill + 1 = n /\ n \in 0..(MaxKey + 1) /\ Abstract!Places(n) = Block(n) /\ Block(n) = 0..(n - 1)
  BY <1>1, <1>2, Sizes DEF Abstract!Places, Block
<1>5. Contents' = args
  BY <1>2, <1>4 DEF Contents
<1>6. Abstract!Assign(n, args)
  BY <1>4, <1>5 DEF Abstract!Assign
<1>. QED BY <1>3, <1>4, <1>6 DEF Goal, Abstract!PaNext

LEMMA Removes ==
  ASSUME IInv, NEW key \in 0..MaxKey, DeleteElement(key)
  PROVE  Goal
<1>. DEFINE a == Reified(av)
<1>1. /\ Sound(a) /\ a.real /\ a.fill = av.fill /\ a.offset = av.offset
      /\ \A i \in 0..av.fill : a.cell[a.offset + i] = av.cell[av.offset + i]
  BY ReifiedSound DEF IInv, Same
<1>. HIDE DEF a
<1>2. PICK top \in -1..a.fill :
        /\ key \in 0..a.fill
        /\ IF key < a.fill THEN top = a.fill
           ELSE /\ top < key /\ (top >= 0 => a.cell[a.offset + top] # Null)
                /\ \A i \in (top + 1)..(key - 1) : a.cell[a.offset + i] = Null
        /\ av' = Deleted(a, key, top)
  BY DEF DeleteElement, a, Deleted
<1>3. av.fill \in Int /\ -1 <= av.fill /\ av.fill <= MaxKey /\ MaxKey \in Nat
  BY Sizes
<1>4. key \in Nat /\ key <= av.fill /\ top \in Int /\ -1 <= top /\ top <= av.fill
  BY <1>1, <1>2, <1>3
<1>5. Trims(a, key, top)
  <2>1. ~(key < a.fill) => key = a.fill
    BY <1>1, <1>3, <1>4
  <2>. QED BY <1>2, <2>1 DEF Trims
<1>6. /\ Sound(av') /\ av'.fill = top
      /\ \A i \in 0..top : av'.cell[av'.offset + i] = IF i = key THEN Null ELSE a.cell[a.offset + i]
  BY <1>1, <1>2, <1>5, DeleteSound
<1>7. IInv'
  BY <1>3, <1>4, <1>6 DEF IInv
<1>8. \A i \in 0..top : i \in 0..av.fill /\ i \in Nat /\ i <= av.fill
  BY <1>3, <1>4
<1>9. \A i \in 0..top : av'.cell[av'.offset + i] = IF i = key THEN Null ELSE Abstract!At(i)
  BY <1>1, <1>6, <1>8, Sizes DEF At
<1>10. Abstract!Remove(key)
  <2>1. key \in Abstract!Places(av.fill + 1)
    BY <1>3, <1>4, Sizes
  <2>2. CASE key < a.fill
    <3>1. top = av.fill /\ av'.fill + 1 = av.fill + 1 /\ key # (av.fill + 1) - 1
      BY <1>1, <1>2, <1>3, <1>4, <1>6, <2>2
    <3>2. Contents' = [Contents EXCEPT ![key] = Null]
      BY <1>1, <1>4, <1>6, <3>1 DEF Contents
    <3>. QED BY <2>1, <3>1, <3>2 DEF Abstract!Remove
  <2>3. CASE ~(key < a.fill)
    <3>1. key = av.fill /\ key = (av.fill + 1) - 1 /\ top < key
      BY <1>1, <1>2, <1>3, <1>4, <2>3
    <3>2. PICK n \in 0..key : n = top + 1
      BY <1>4, <3>1
    <3>3. n - 1 = top /\ n \in 0..(MaxKey + 1)
      BY <1>3, <1>4, <3>2
    <3>4. \A i \in 0..(n - 1) : i # key /\ i \in 0..top
      BY <1>4, <3>1, <3>3
    <3>5. \A i \in 0..(n - 1) : av'.cell[av'.offset + i] = At(av, i)
      BY <1>8, <1>9, <3>4, Sizes
    <3>6. Abstract!Resize(n)
      BY <1>6, <3>3, <3>5, Resizes
    <3>7. \A i \in 0..av.fill : Contents[i] = a.cell[a.offset + i]
      BY <1>1 DEF Contents
    <3>8. \A i \in n..(key - 1) : Contents[i] = Null
      <4>1. \A i \in n..(key - 1) : i \in (top + 1)..(key - 1) /\ i \in 0..av.fill
        BY <1>3, <1>4, <3>1, <3>2
      <4>. QED BY <1>2, <2>3, <3>7, <4>1
    <3>9. n > 0 => Contents[n - 1] # Null
      <4>1. n > 0 => top >= 0 /\ top \in 0..av.fill
        BY <1>4, <3>2
      <4>. QED BY <1>2, <2>3, <3>3, <3>7, <4>1
    <3>. QED BY <2>1, <3>1, <3>6, <3>8, <3>9 DEF Abstract!Remove
  <2>. QED BY <2>2, <2>3
<1>11. key \in 0..(MaxKey + 1)
  BY <1>3
<1>. QED BY <1>7, <1>10, <1>11 DEF Goal, Abstract!PaNext

\* A new block of n zeroed cells.
LEMMA ZeroedSound ==
  ASSUME NEW real \in BOOLEAN, NEW n \in Nat
  PROVE  LET e == Array([i \in Block(n) |-> Null], 0, n - 1, -1, real)
         IN  Sound(e) /\ e.fill = -1
<1>. DEFINE c == [i \in Block(n) |-> Null]
<1>1. Block(n) = 0..((n - 1) + 0) /\ n - 1 \in Int /\ -1 <= n - 1
  BY DEF Block
<1>2. c \in [0..((n - 1) + 0) -> Slot] /\ \A i \in 0..((n - 1) + 0) : c[i] = Null
  BY <1>1 DEF Slot
<1>. HIDE DEF c
<1>3. \A i \in 0..(-1) : FALSE
  OBVIOUS
<1>4. PICK m \in Int : m = n - 1
  OBVIOUS
<1>5. Makes(c, 0, m, -1, real)
  BY <1>1, <1>2, <1>3, <1>4 DEF Makes
<1>. QED BY <1>4, <1>5, Made DEF c

LEMMA Discards ==
  ASSUME IInv, ClearArray \/ Undef \/ LeaveSub
  PROVE  Goal
<1>1. Sound(av) /\ av.real \in BOOLEAN
  BY Parts DEF IInv
<1>2. CASE ClearArray
  <2>1. av' = Cleared(av)
    BY <1>2 DEF ClearArray, Cleared
  <2>. QED BY <1>1, <2>1, ClearSound, Empties
<1>3. CASE Undef
  BY <1>1, <1>3, EmptySound, Empties DEF Undef
<1>4. CASE LeaveSub /\ ~av.real
  <2>1. av' = Left(av)
    BY <1>4 DEF LeaveSub, Left
  <2>. QED BY <1>1, <1>4, <2>1, LeftSound, Empties
<1>5. CASE LeaveSub /\ av.real
  <2>1. PICK n : n = Larger(av.fill + 1, NewMinKey)
    OBVIOUS
  <2>2. n \in Nat
    <3>1. av.fill \in Int /\ -1 <= av.fill /\ NewMinKey \in Nat
      BY <1>1, AsAssumption DEF Sound, Typed
    <3>. QED BY <2>1, <3>1 DEF Larger
  <2>3. av' = Array([i \in Block(n) |-> Null], 0, n - 1, -1, FALSE)
    BY <1>5, <2>1 DEF LeaveSub, EmptyArray, Array
  <2>4. PICK real \in BOOLEAN : real = FALSE
    OBVIOUS
  <2>5. PICK e : e = Array([i \in Block(n) |-> Null], 0, n - 1, -1, real)
    OBVIOUS
  <2>6. av' = e
    BY <2>3, <2>4, <2>5
  <2>7. Sound(e) /\ e.fill = -1
    BY <2>2, <2>5, ZeroedSound
  <2>. QED BY <2>6, <2>7, Empties
<1>. QED BY <1>2, <1>3, <1>4, <1>5

LEMMA StoresKey ==
  ASSUME IInv, NEW key \in (-MaxKey)..MaxKey, NEW v \in Element, Store(key, v)
  PROVE  Goal
<1>1. PICK k : k >= 0 /\ k = (IF key < 0 THEN key + av.fill + 1 ELSE key) /\ av' = Storing(av, k, v)
  BY DEF Store
<1>2. k \in 0..MaxKey
  BY <1>1, Sizes
<1>. QED BY <1>1, <1>2, Stores

LEMMA Pushes ==
  ASSUME IInv, NEW v \in Element, av.fill < MaxKey, PushElement(v)
  PROVE  Goal
<1>1. PICK k \in 0..MaxKey : k = av.fill + 1
  BY Sizes
<1>. QED BY <1>1, Stores DEF PushElement

LEMMA Initially ==
  ASSUME AsInit
  PROVE  IInv /\ Abstract!PaInit
<1>1. av = EmptyArray(TRUE) \/ av = EmptyArray(FALSE)
  BY DEF AsInit
<1>2. Sound(av) /\ av.fill = -1
  BY <1>1, EmptySound
<1>3. 0..(-1) = {} /\ Abstract!Places(0) = {} /\ -1 + 1 = 0 /\ -1 <= MaxKey
  BY AsAssumption DEF Abstract!Places
<1>4. Contents = [i \in Abstract!Places(0) |-> Null]
  BY <1>2, <1>3 DEF Contents
<1>. QED BY <1>2, <1>3, <1>4 DEF IInv, Abstract!PaInit

LEMMA Steps ==
  ASSUME IInv, [AsNext]_av
  PROVE  Goal
<1>1. CASE UNCHANGED av
  BY <1>1 DEF Goal, IInv, Contents, Abstract!paVars
<1>2. ASSUME NEW k \in (-MaxKey)..MaxKey, NEW v \in Element, Store(k, v) PROVE Goal
  BY <1>2, StoresKey
<1>3. ASSUME NEW v \in Element, av.fill < MaxKey, PushElement(v) PROVE Goal
  BY <1>3, Pushes
<1>4. ASSUME NEW k \in 0..MaxKey, Extend(k) PROVE Goal
  BY <1>4, Extends
<1>5. ASSUME NEW k \in 0..MaxKey, DeleteElement(k) PROVE Goal
  BY <1>5, Removes
<1>6. ASSUME NEW n \in 0..MaxKey, av.fill + n <= MaxKey, Unshift(n) PROVE Goal
  BY <1>6, Prepends
<1>7. ASSUME NEW k \in -1..MaxKey, Fill(k) PROVE Goal
  BY <1>7, Fills
<1>8. ASSUME NEW n \in 0..MaxKey, NEW args \in [Block(n) -> Element], EnterSub(n, args) PROVE Goal
  BY <1>8, Assigns
<1>9. CASE Pop
  BY <1>9, Takes
<1>10. CASE Shift
  BY <1>10, TakesFirst
<1>11. CASE ClearArray \/ Undef \/ LeaveSub
  BY <1>11, Discards
<1>. QED BY <1>1, <1>2, <1>3, <1>4, <1>5, <1>6, <1>7, <1>8, <1>9, <1>10, <1>11 DEF AsNext

LEMMA Invariance == AsSpec => []IInv
<1>1. AsInit => IInv
  BY Initially
<1>2. IInv /\ [AsNext]_av => IInv'
  BY Steps DEF Goal
<1>. QED BY <1>1, <1>2, PTL DEF AsSpec

\* The AV is a block of cells with the array inside it.
THEOREM TypeCorrect == AsSpec => []AsTypeOK
<1>1. IInv => AsTypeOK
  <2> SUFFICES ASSUME IInv PROVE AsTypeOK
    OBVIOUS
  <2>1. Block(av.max + av.offset + 1) = 0..(av.max + av.offset)
    BY Parts DEF IInv, Block
  <2>2. /\ av.offset \in Nat /\ av.max \in Int /\ av.fill \in -1..av.max /\ av.real \in BOOLEAN
        /\ av.cell \in [0..(av.max + av.offset) -> Slot]
    BY Parts DEF IInv
  <2>. QED BY <2>1, <2>2 DEF AsTypeOK
<1>. QED BY <1>1, Invariance, PTL

\* Whatever moved in the block, no place of the array holds what memory held
\* before (av_extend_guts, av_unshift, av_fill), and the cells that a real
\* array does not use hold NULL.
THEOREM CleanStorage == AsSpec => []StorageIsClean
<1>1. IInv => StorageIsClean
  <2> SUFFICES ASSUME IInv PROVE StorageIsClean
    OBVIOUS
  <2>1. DOMAIN av.cell = 0..(av.max + av.offset)
    BY Parts DEF IInv
  <2>2. \A i \in 0..(av.max + av.offset) :
          i \notin av.offset..(av.offset + av.fill) => ~(av.offset <= i /\ i <= av.offset + av.fill)
    BY Parts DEF IInv
  <2>3. SpareIsNull
    BY <2>1, <2>2, Parts DEF IInv, SpareIsNull
  <2>. QED BY <2>3, Parts DEF IInv, StorageIsClean, NoJunk
<1>. QED BY <1>1, Invariance, PTL

\* The moves in the block are invisible: a program sees the list of places
\* that PerlArray describes.
THEOREM Refinement == AsSpec => ImplementsPerlArray
<1>1. AsInit => Abstract!PaInit
  BY Initially
<1>2. IInv /\ [AsNext]_av => [Abstract!PaNext]_(Abstract!paVars)
  BY Steps DEF Goal
<1>. QED BY <1>1, <1>2, Invariance, PTL DEF AsSpec, ImplementsPerlArray, Abstract!PaSpec
=============================================================================
