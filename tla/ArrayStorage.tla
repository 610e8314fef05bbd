---------------------------- MODULE ArrayStorage ----------------------------
(***************************************************************************)
(* The storage of an array (av.c): a block of cells of which the array is  *)
(* a part.  shift moves the start of the array up and leaves room in front *)
(* of it, which unshift and av_extend use again.  @_ begins as an array    *)
(* that does not own its elements ("AvREIFY"), whose spare cells may hold  *)
(* anything, and becomes real when something is stored in it.              *)
(*                                                                         *)
(* Tied and read-only arrays, the set magic of arrays and what destructors *)
(* of elements do meanwhile are left out; the argument stack, the one      *)
(* array that is neither real nor "AvREIFY", too.                          *)
(***************************************************************************)
EXTENDS Integers

CONSTANTS
  Element,   \* elements
  Null,      \* NULL: the content of a place that was never given an element
  Junk,      \* what memory holds that nobody has written
  NewMinKey, \* PERL_ARRAY_NEW_MIN_KEY, 3
  Margin,    \* the 10 in av_extend_guts
  Spare,     \* the 5 there: the fraction of the old size that is added
  MaxKey     \* bound: highest index, and number of arguments or new places

ASSUME AsAssumption ==
  /\ Null # Junk /\ Null \notin Element /\ Junk \notin Element
  /\ NewMinKey \in Nat /\ Margin \in Nat /\ Spare \in Nat \ {0} /\ MaxKey \in Nat

\* The AV: cells at AvALLOC, AvARRAY - AvALLOC, AvMAX, AvFILLp and AvREAL.
VARIABLE av

Slot == Element \cup {Null, Junk}
Block(n) == 0..(n - 1)

EmptyArray(real) ==
  [cell |-> [i \in Block(0) |-> Null], offset |-> 0, max |-> -1, fill |-> -1, real |-> real]

AsInit == av \in {EmptyArray(TRUE), EmptyArray(FALSE)}

Larger(x, y) == IF x < y THEN y ELSE x

\* The elements moved to the start of the block.
MovedDown(a) ==
  [i \in DOMAIN a.cell |-> IF i <= a.fill THEN a.cell[a.offset + i] ELSE a.cell[i]]

\* A block of n cells with the contents of c, and from..to zeroed.
Renewed(c, n, from, to) ==
  [i \in Block(n) |-> IF i \in from..to THEN Null ELSE IF i \in DOMAIN c THEN c[i] ELSE Junk]

\* Mutant of Extended: only what was shifted is zeroed.
ExtendedShort(a, key) ==
  LET whole == a.max + a.offset
      grown(c, top, from, to) ==
        [a EXCEPT !.cell = Renewed(c, top + 1, from, IF a.real THEN to ELSE -1),
                  !.offset = 0, !.max = top]
  IN  IF key <= a.max THEN a
      ELSE IF whole = -1 THEN LET top == Larger(key, NewMinKey)
                              IN  [a EXCEPT !.cell = [i \in Block(top + 1) |-> Null], !.max = top]
      ELSE IF a.offset = 0 THEN LET top == key + a.max \div Spare
                                IN  grown(a.cell, top, a.max + 1, top)
      ELSE grown(MovedDown(a), IF key > whole - Margin THEN key + whole ELSE whole,
                 a.fill + 1, a.fill + a.offset)

\* av_extend_guts makes room for index key.  Only the first block, and cells of
\* an array that owns its elements, are zeroed.
Extended(a, key) ==
  LET whole == a.max + a.offset
      grown(c, top, from, to) ==
        [a EXCEPT !.cell = Renewed(c, top + 1, from, IF a.real THEN to ELSE -1),
                  !.offset = 0, !.max = top]
  IN  IF key <= a.max THEN a
      ELSE IF whole = -1 THEN LET top == Larger(key, NewMinKey)
                              IN  [a EXCEPT !.cell = [i \in Block(top + 1) |-> Null], !.max = top]
      ELSE IF a.offset = 0 THEN LET top == key + a.max \div Spare
                                IN  grown(a.cell, top, a.max + 1, top)
      ELSE IF key > whole - Margin
           THEN grown(MovedDown(a), key + whole, a.fill + 1, key + whole)
           ELSE grown(MovedDown(a), whole, a.fill + 1, a.fill + a.offset)

\* Mutant of Reified: the cells in front of the array are not zeroed.
ReifiedAbove(a) ==
  [a EXCEPT !.real = TRUE,
            !.cell = IF a.real THEN @
                     ELSE [i \in DOMAIN @ |-> IF i <= a.offset + a.fill THEN @[i] ELSE Null]]

\* av_reify: the array takes its elements as its own and zeroes the other cells.
Reified(a) ==
  [a EXCEPT !.real = TRUE,
            !.cell = IF a.real THEN @
                     ELSE [i \in DOMAIN @ |-> IF i \in a.offset..(a.offset + a.fill)
                                              THEN @[i] ELSE Null]]

\* av_store; in a real array the places up to key are absent already.
Storing(a, key, v) ==
  LET e == Extended(Reified(a), key)
  IN  [e EXCEPT !.cell[e.offset + key] = v, !.fill = Larger(key, @)]

\* av_remove_offset
Whole(a) == [a EXCEPT !.offset = 0, !.max = a.max + a.offset]

Store(key, v) ==
  LET k == IF key < 0 THEN key + av.fill + 1 ELSE key IN k >= 0 /\ av' = Storing(av, k, v)

PushElement(v) == av' = Storing(av, av.fill + 1, v)

Extend(key) == av' = Extended(av, key)

Pop == av.fill >= 0 /\ av' = [av EXCEPT !.cell[av.offset + av.fill] = Null, !.fill = @ - 1]

Shift ==
  /\ av.fill >= 0
  /\ av' = [av EXCEPT !.cell[av.offset] = IF av.real THEN Null ELSE @,
                      !.offset = @ + 1, !.max = @ - 1, !.fill = @ - 1]

\* The places that av_unshift finds in front of the array.
Lowered(a, num) ==
  [a EXCEPT !.offset = @ - num, !.max = @ + num, !.fill = @ + num]

\* Mutant of Raised: the block is not extended by the new room.
RaisedTight(a, num) ==
  LET slide == Larger(a.fill, 0)
      e     == Extended(a, a.fill + num)
  IN  [e EXCEPT !.cell = [i \in DOMAIN @ |-> IF i < num + slide THEN Null
                                             ELSE IF i <= num + slide + a.fill
                                             THEN @[i - num - slide] ELSE @[i]],
                !.offset = slide, !.max = @ - slide, !.fill = a.fill + num]

\* For the rest it moves the elements up, and by their number more to make
\* new room in front.
Raised(a, num) ==
  LET slide == Larger(a.fill, 0)
      e     == Extended(a, a.fill + num + slide)
  IN  [e EXCEPT !.cell = [i \in DOMAIN @ |-> IF i < num + slide THEN Null
                                             ELSE IF i <= num + slide + a.fill
                                             THEN @[i - num - slide] ELSE @[i]],
                !.offset = slide, !.max = @ - slide, !.fill = a.fill + num]

Unshift(num) ==
  /\ num > 0
  /\ av' = IF num <= av.offset THEN Lowered(Reified(av), num)
           ELSE Raised(Lowered(Reified(av), av.offset), num - av.offset)

\* av_fill, also $#a = fill: a real array zeroes what is cut off, any other what
\* is added.
Fill(fill) ==
  av' = IF fill > av.max THEN Storing(av, fill, Null)
        ELSE LET cut   == (av.offset + fill + 1)..(av.offset + av.fill)
                 added == (av.offset + av.fill + 1)..(av.offset + fill)
             IN  [av EXCEPT !.fill = fill,
                            !.cell = [i \in DOMAIN @ |-> IF i \in (IF av.real THEN cut ELSE added)
                                                         THEN Null ELSE @[i]]]

\* av_delete; deleting the last element also takes the absent ones before it.
DeleteElement(key) ==
  LET a == Reified(av)
      at(i) == a.cell[a.offset + i]
  IN  /\ key \in 0..a.fill
      /\ \E top \in -1..a.fill :
           /\ IF key < a.fill THEN top = a.fill
              ELSE /\ top < key /\ (top >= 0 => at(top) # Null)
                   /\ \A i \in (top + 1)..(key - 1) : at(i) = Null
           /\ av' = [a EXCEPT !.cell[a.offset + key] = Null, !.fill = top]

\* av_clear
ClearArray ==
  /\ av.max >= 0
  /\ av' = Whole([av EXCEPT !.fill = -1,
                  !.cell = [i \in DOMAIN @ |-> IF av.real /\ i \in av.offset..(av.offset + av.fill)
                                               THEN Null ELSE @[i]]])

Undef == av' = EmptyArray(av.real)

\* pp_entersub gives @_, as LeaveSub left it, its arguments, over what its
\* cells hold.
EnterSub(n, args) ==
  /\ ~av.real /\ av.fill = -1 /\ av.offset = 0
  /\ LET top == Larger(av.max, n - 1)
     IN  av' = [av EXCEPT !.max = top, !.fill = n - 1,
                          !.cell = [i \in Block(top + 1) |-> IF i < n THEN args[i] ELSE
                                                             IF i \in DOMAIN @ THEN @[i] ELSE Junk]]

\* clear_defarray: an @_ that has become real is replaced by a new one, of
\* zeroed cells (newAV_alloc_xz).
LeaveSub ==
  LET size == Larger(av.fill + 1, NewMinKey)
  IN  av' = IF ~av.real THEN Whole([av EXCEPT !.fill = -1])
            ELSE [EmptyArray(FALSE) EXCEPT !.cell = [i \in Block(size) |-> Null],
                                           !.max = size - 1]

AsNext ==
  \/ \E k \in (-MaxKey)..MaxKey, v \in Element : Store(k, v)
  \/ \E v \in Element : av.fill < MaxKey /\ PushElement(v)
  \/ \E k \in 0..MaxKey : Extend(k) \/ DeleteElement(k)
  \/ \E n \in 0..MaxKey : av.fill + n <= MaxKey /\ Unshift(n)
  \/ \E k \in -1..MaxKey : Fill(k)
  \/ \E n \in 0..MaxKey : \E args \in [Block(n) -> Element] : EnterSub(n, args)
  \/ Pop \/ Shift \/ ClearArray \/ Undef \/ LeaveSub

AsSpec == AsInit /\ [][AsNext]_av
-----------------------------------------------------------------------------
AsTypeOK ==
  /\ av.offset \in Nat /\ av.max \in Int /\ av.fill \in -1..av.max
  /\ av.real \in BOOLEAN
  /\ av.cell \in [Block(av.max + av.offset + 1) -> Slot]

\* "This relies on the fact that uninitialized array elements are set to NULL"
\* (av_exists, av.c:1141): whatever moved in the block, no place holds what
\* memory held before.
NoJunk == \A i \in 0..av.fill : av.cell[av.offset + i] # Junk

\* The cells that a real array does not use hold nothing: growing it brings
\* back no element that was popped, shifted or cut off, nor frees it twice.
SpareIsNull ==
  av.real => \A i \in DOMAIN av.cell : i \notin av.offset..(av.offset + av.fill) => av.cell[i] = Null

\* No place of the array holds junk, no cell beside them an element.
StorageIsClean == NoJunk /\ SpareIsNull

\* What a program sees is a list of places.
Contents == [i \in 0..av.fill |-> av.cell[av.offset + i]]

Abstract == INSTANCE PerlArray WITH
  Absent  <- Null,
  MaxSize <- MaxKey + 1,
  size    <- av.fill + 1,
  content <- Contents

ImplementsPerlArray == Abstract!PaSpec
=============================================================================
