---------------------------- MODULE InversionList ----------------------------
(***************************************************************************)
(* Inversion lists (regcomp_invlist.c), in which the regular expression    *)
(* compiler keeps sets of code points: a sorted list of where the set      *)
(* begins and stops.  Elements at even indexes begin ranges that are in    *)
(* the set.  Indexes count from 0, as in the source; sequences from 1.     *)
(*                                                                         *)
(* The allocation of the arrays, and the 0 that is stored in front of a    *)
(* list that has none, are left out.                                       *)
(***************************************************************************)
EXTENDS Integers, Sequences, FiniteSets, SequencesExt

CONSTANT Highest   \* UV_MAX, which stands for all that is above it, too

ASSUME IlAssumption == Highest \in Nat

VARIABLES
  list,      \* an inversion list that is built up
  previous,  \* the index that the last binary search in it found
  contents   \* the set it is meant to be, by what each operation is for

ilVars == <<list, previous, contents>>

CodePoint == 0..Highest
Elem(l, i) == l[i + 1]
Begins(i) == i % 2 = 0
Taken(l, n) == SubSeq(l, 1, n)
Dropped(l, n) == SubSeq(l, n + 1, Len(l))

\* What a list means, and the one list that means s.
SetOf(l) == {c \in CodePoint : ~Begins(Cardinality({i \in DOMAIN l : l[i] <= c}))}
ListOf(s) ==
  SetToSortSeq({c \in CodePoint : (c \in s) # (c - 1 \in s)}, LAMBDA x, y : x < y)

IlInit == list = <<>> /\ previous = 0 /\ contents = {}

\* invlist_highest, for a list that is not empty
HighestIn(l) == IF Begins(Len(l) - 1) THEN Highest ELSE Last(l) - 1

\* _append_range_to_invlist
Appended(l, start, end) ==
  IF l # <<>> /\ Last(l) = start
  THEN IF end = Highest THEN Front(l) ELSE [l EXCEPT ![Len(l)] = end + 1]
  ELSE l \o IF end = Highest THEN <<start>> ELSE <<start, end + 1>>

RECURSIVE Converge(_, _, _, _), Merge(_, _, _, _, _, _, _)

\* The loop of the binary search: the first index above low with a greater element.
Converge(l, c, low, high) ==
  LET mid == (low + high) \div 2
  IN  IF low >= high THEN high
      ELSE IF Elem(l, mid) <= c THEN Converge(l, c, mid + 1, high)
      ELSE Converge(l, c, low, mid)

\* _invlist_search: the range that contains c, and what is remembered.
Search(l, prev, c) ==
  LET top == Len(l) - 1
      mid == IF prev > top THEN top ELSE prev
      found(i) == [index |-> i - 1, previous |-> i - 1]
  IN  IF l = <<>> \/ c < Elem(l, 0) THEN [index |-> -1, previous |-> prev]
      ELSE IF c >= Elem(l, mid)
        THEN IF c >= Elem(l, top) THEN [index |-> top, previous |-> prev]
             ELSE IF c < Elem(l, mid + 1) THEN [index |-> mid, previous |-> prev]
             ELSE found(Converge(l, c, mid + 1, top))
      ELSE IF c >= Elem(l, mid - 1) THEN found(mid)
      ELSE found(Converge(l, c, 0, mid))

\* b, or what _invlist_invert would make of it, without changing it
Complement(b) == IF b # <<>> /\ b[1] = 0 THEN Tail(b) ELSE <<0>> \o b

\* Whether a's element is next.  In a tie the one that begins a range comes
\* first in a union, and the one that ends a range in an intersection.
TakesA(a, b, i, j, enough) ==
  Elem(a, i) < Elem(b, j) \/ (Elem(a, i) = Elem(b, j) /\ (Begins(i) <=> enough = 1))

\* The loop that both have: an element goes out when the number of inputs that
\* are in their sets gets to enough, or falls below.
Merge(a, b, i, j, count, out, enough) ==
  IF i = Len(a) \/ j = Len(b) THEN [i |-> i, j |-> j, count |-> count, out |-> out]
  ELSE LET first  == TakesA(a, b, i, j, enough)
           c      == IF first THEN Elem(a, i) ELSE Elem(b, j)
           begins == IF first THEN Begins(i) ELSE Begins(j)
           after  == IF begins THEN count + 1 ELSE count - 1
           goes   == IF begins THEN after = enough ELSE count = enough
       IN  Merge(a, b, IF first THEN i + 1 ELSE i, IF first THEN j ELSE j + 1, after,
                 IF goes THEN Append(out, c) ELSE out, enough)

RestOf(a, b, m) == IF m.i < Len(a) THEN Dropped(a, m.i) ELSE Dropped(b, m.j)

\* _invlist_union_maybe_complement_2nd
Union(a, b, inverted) ==
  LET d == IF inverted THEN Complement(b) ELSE b
      m == Merge(a, d, 0, 0, 0, <<>>, 1)
      left == IF (m.i # Len(a) /\ ~Begins(m.i)) \/ (m.j # Len(d) /\ ~Begins(m.j))
              THEN m.count - 1 ELSE m.count
  IN  IF b = <<>> THEN IF inverted THEN <<0>> ELSE a
      ELSE IF a = <<>> THEN d
      ELSE IF left # 0 THEN m.out ELSE m.out \o RestOf(a, d, m)

\* _invlist_intersection_maybe_complement_2nd
Intersection(a, b, inverted) ==
  LET d == IF inverted THEN Complement(b) ELSE b
      m == Merge(a, d, 0, 0, 0, <<>>, 2)
      both == IF (m.i = Len(a) /\ ~Begins(m.i)) \/ (m.j = Len(d) /\ ~Begins(m.j))
              THEN m.count + 1 ELSE m.count
  IN  IF a = <<>> \/ b = <<>> THEN IF inverted THEN a ELSE <<>>
      ELSE IF both < 2 THEN m.out ELSE m.out \o RestOf(a, d, m)
-----------------------------------------------------------------------------
\* _add_range_to_invlist, when the range is neither all above the list nor
\* starts below it with 0.  First the ends get their places: s is where start
\* belongs and e where end does; len is the length before anything was appended.
Place(l, prev, start, end) ==
  LET above == end > HighestIn(l)
      b  == IF above THEN Appended(l, HighestIn(l) + 1, end) ELSE l
      s  == IF start < Elem(b, 0) THEN [index |-> 0, previous |-> prev] ELSE Search(b, prev, start)
      b1 == IF start < Elem(b, 0) THEN [b EXCEPT ![1] = start] ELSE b
      known == IF ~above THEN 0 ELSE IF end = Highest THEN Len(l) ELSE Len(l) - 2
      e  == IF known # 0 THEN [index |-> known, previous |-> s.previous]
            ELSE IF start = end THEN s ELSE Search(b1, s.previous, end)
  IN  [list |-> b1, s |-> s.index, e |-> e.index, start |-> start, previous |-> e.previous]

\* The ranges before and behind start, when it is in a gap, are extended.
ExtendAtStart(p, end) ==
  LET above == end = Highest \/ end + 1 >= Elem(p.list, p.s + 1)
      e1 == IF p.e - p.s <= 1 THEN p.e - 1 ELSE p.e
  IN  IF Begins(p.s) THEN p
      ELSE IF p.start = Elem(p.list, p.s)
        THEN [p EXCEPT !.list[p.s + 1] = IF end = Highest THEN Highest ELSE end + 1,
                       !.s = p.s - 1, !.e = e1, !.start = Elem(p.list, p.s - 1)]
      ELSE IF above
        THEN [p EXCEPT !.s = p.s + 1, !.e = IF p.e = p.s THEN p.e + 1 ELSE p.e,
                       !.list[p.s + 2] = p.start]
      ELSE p

\* The new range closes the gap between two ranges, and the list gets shorter.
ClosesGap(p, end) ==
  /\ ~Begins(p.s) /\ p.start = Elem(p.list, p.s) /\ p.e - p.s <= 1
  /\ end = Highest \/ end + 1 >= Elem(p.list, p.s + 1)

\* Mutant of ExtendAtEnd: a range that ends just below the next one is not
\* joined to it.
ExtendAtEndApart(p, end) ==
  IF Begins(p.e) \/ p.start > Elem(p.list, p.e) THEN p
  ELSE [p EXCEPT !.e = p.e - 1, !.list[p.e + 1] = end + 1]

\* The same where end is in a gap.
ExtendAtEnd(p, end) ==
  IF Begins(p.e) THEN p
  ELSE IF end + 1 = Elem(p.list, p.e + 1) THEN [p EXCEPT !.e = p.e + 1, !.list[p.e + 2] = p.start]
  ELSE IF p.start <= Elem(p.list, p.e) THEN [p EXCEPT !.e = p.e - 1, !.list[p.e + 1] = end + 1]
  ELSE p

Spliced(l, e, start, end) == Taken(l, e + 1) \o <<start, end + 1>> \o Dropped(l, e + 1)

\* The list that results, and what is remembered of the searches.
Inserted(l, prev, start, end) ==
  LET p == Place(l, prev, start, end)
      q == ExtendAtStart(p, end)
      r == ExtendAtEnd(q, end)
      new == IF ClosesGap(p, end) THEN Taken(p.list, p.s) \o Dropped(p.list, p.s + 2)
             ELSE IF end = Highest THEN Taken(q.list, q.s + 1)
             ELSE IF r.s # r.e THEN Taken(r.list, r.s + 1) \o Dropped(r.list, r.e + 1)
             ELSE IF Begins(r.s) THEN r.list
             ELSE Spliced(r.list, r.e, r.start, end)
  IN  [list |-> new, previous |-> p.previous]

AddRange(start, end) ==
  /\ start <= end
  /\ IF list = <<>> \/ start > HighestIn(list)
     THEN list' = Appended(list, start, end) /\ UNCHANGED previous
     ELSE IF start = 0 /\ list[1] > 0
     THEN /\ list' = Union(IF end > HighestIn(list) THEN Appended(list, HighestIn(list) + 1, end)
                           ELSE list, Appended(<<>>, 0, end), FALSE)
          /\ previous' = 0
     ELSE IF end < list[1] - 1
     THEN list' = Spliced(list, -1, start, end) /\ UNCHANGED previous
     ELSE LET new == Inserted(list, previous, start, end)
          IN  list' = new.list /\ previous' = new.previous
  /\ contents' = contents \cup start..end

Invert ==
  /\ list' = (IF list = <<>> THEN <<0>> ELSE Complement(list))
  /\ contents' = CodePoint \ contents /\ UNCHANGED previous

Look(c) ==
  /\ previous' = Search(list, previous, c).previous
  /\ UNCHANGED <<list, contents>>

\* A list that is made anew (invlist_replace_list_destroys_src) forgets the search.
Unite(s, inverted) ==
  /\ list' = Union(list, ListOf(s), inverted)
  /\ previous' = IF s = {} /\ ~inverted THEN previous ELSE 0
  /\ contents' = contents \cup (IF inverted THEN CodePoint \ s ELSE s)

Intersect(s, inverted) ==
  /\ list' = Intersection(list, ListOf(s), inverted)
  /\ previous' = IF list = <<>> \/ s = {} \/ list' = <<>> THEN previous ELSE 0
  /\ contents' = contents \cap (IF inverted THEN CodePoint \ s ELSE s)

IlNext ==
  \/ Invert
  \/ \E c \in CodePoint : Look(c)
  \/ \E start, end \in CodePoint : AddRange(start, end)
  \/ \E s \in SUBSET CodePoint, inverted \in BOOLEAN : Unite(s, inverted) \/ Intersect(s, inverted)

IlSpec == IlInit /\ [][IlNext]_ilVars
-----------------------------------------------------------------------------
IlTypeOK ==
  /\ list \in Seq(CodePoint) /\ previous \in 0..Highest /\ contents \subseteq CodePoint

\* Whatever is added, united, intersected and inverted, the list means the set
\* it is meant to mean, and is the only one that does: sorted, with no range
\* that is empty or adjoins the next.
MeansItsSet == list = ListOf(contents)

\* A search finds the range of a code point, whatever search before it and
\* whatever change of the list the remembered index is from.
SearchFinds == \A c \in CodePoint :
  Search(list, previous, c).index = Cardinality({i \in DOMAIN list : list[i] <= c}) - 1

\* The list and the searches in it agree with the set it stands for.
ListMeansItsSet == MeansItsSet /\ SearchFinds
=============================================================================
