--------------------------- MODULE WeakReferences ---------------------------
(***************************************************************************)
(* Weak references to one SV (sv.c).  The referent keeps an unordered list *)
(* of the references that do not count: none, a single one stored in the   *)
(* slot itself, or an array from which entries are taken at either end or  *)
(* out of the middle.  When the last reference that counts goes, the list  *)
(* is walked and every weak reference made undef.                          *)
(*                                                                         *)
(* Set magic of a weak reference, which runs Perl code within that walk,   *)
(* is left out, and so are the back-references of stashes.                 *)
(***************************************************************************)
EXTENDS Integers, FiniteSets, Sequences

CONSTANTS
  Ref,      \* variables that hold a reference to the SV
  NoRef     \* NULL

ASSUME WrAssumption == IsFiniteSet(Ref) /\ NoRef \notin Ref

VARIABLES
  holds,    \* holds[r]: "strong", "weak", "undef", or "gone" once r is freed
  refcnt,   \* SvREFCNT of the SV
  backrefs, \* "none", "one", or "array"
  cells,    \* the memory behind it; of an array, from AvALLOC on
  first,    \* AvARRAY - AvALLOC
  fill,     \* AvFILLp
  phase,    \* of the SV: "alive", "dying" (in sv_kill_backrefs), "freed";
            \* or "panic"
  svp       \* sv_kill_backrefs: the cell it is at and the last one

wrVars == <<holds, refcnt, backrefs, cells, first, fill, phase, svp>>

Cell(i) == first + i + 1   \* AvARRAY(av)[i]

WrInit ==
  /\ holds = [r \in Ref |-> "strong"]
  /\ refcnt = Cardinality(Ref)
  /\ backrefs = "none" /\ cells = <<>> /\ first = 0 /\ fill = -1
  /\ phase = "alive" /\ svp = [at |-> 1, last |-> 0]

Listed == IF backrefs = "none" THEN <<>>
          ELSE IF backrefs = "one" THEN cells ELSE SubSeq(cells, first + 1, Cell(fill))

\* sv_add_backref.  (An array without room at its end is moved to the start of
\* its memory by av_extend; where it lies matters to a walk only, and is
\* normalised here.)
AddBackref(r) ==
  /\ backrefs' = IF backrefs = "none" THEN "one" ELSE "array"
  /\ cells' = Listed \o <<r>>
  /\ first' = 0
  /\ fill' = IF backrefs' = "one" THEN fill ELSE Len(cells') - 1

\* Mutant of DelBackref: the last entry does not fill the hole.
DelBackrefOnly(r) ==
  \/ backrefs = "one" /\ backrefs' = "none" /\ cells' = <<>> /\ UNCHANGED <<first, fill>>
  \/ /\ backrefs = "array"
     /\ IF cells[Cell(0)] = r THEN first' = first + 1 ELSE UNCHANGED first
     /\ fill' = fill - 1
     /\ UNCHANGED <<backrefs, cells>>

\* sv_del_backref: the head goes by moving AvARRAY, the last by AvFILLp, and
\* another is replaced by the last.
DelBackref(r) ==
  \/ backrefs = "one" /\ backrefs' = "none" /\ cells' = <<>> /\ UNCHANGED <<first, fill>>
  \/ /\ backrefs = "array"
     /\ \/ cells[Cell(0)] = r /\ first' = first + 1 /\ UNCHANGED cells
        \/ cells[Cell(0)] # r /\ cells[Cell(fill)] = r /\ UNCHANGED <<first, cells>>
        \/ /\ cells[Cell(0)] # r /\ cells[Cell(fill)] # r
           /\ cells' = [i \in DOMAIN cells |->
                         IF i > Cell(0) /\ i < Cell(fill) /\ cells[i] = r
                         THEN cells[Cell(fill)] ELSE cells[i]]
           /\ UNCHANGED first
     /\ fill' = fill - 1
     /\ UNCHANGED backrefs

\* SvREFCNT_dec of the SV: with the last count sv_clear calls sv_kill_backrefs
\* for the list as it is then.
Dec ==
  /\ refcnt' = refcnt - 1
  /\ phase' = IF refcnt > 1 THEN phase ELSE IF backrefs' = "none" THEN "freed" ELSE "dying"
  /\ svp' = IF phase' # "dying" THEN svp
            ELSE IF backrefs' = "one" THEN [at |-> 1, last |-> 1]
            ELSE [at |-> first' + 1, last |-> first' + fill' + 1]

\* sv_rvweaken
Weaken(r) ==
  /\ phase = "alive" /\ holds[r] = "strong"
  /\ AddBackref(r)
  /\ holds' = [holds EXCEPT ![r] = "weak"]
  /\ Dec

\* sv_rvunweaken
Unweaken(r) ==
  /\ phase = "alive" /\ holds[r] = "weak"
  /\ holds' = [holds EXCEPT ![r] = "strong"]
  /\ refcnt' = refcnt + 1
  /\ DelBackref(r)
  /\ UNCHANGED <<phase, svp>>

\* $r = $other: a copy counts.
Assign(r, other) ==
  /\ phase = "alive" /\ holds[r] = "undef" /\ holds[other] \in {"strong", "weak"}
  /\ holds' = [holds EXCEPT ![r] = "strong"]
  /\ refcnt' = refcnt + 1
  /\ UNCHANGED <<backrefs, cells, first, fill, phase, svp>>

\* undef $r, or r is freed: sv_unref_flags.
ClearRef(r, to) ==
  /\ phase = "alive"
  /\ holds' = [holds EXCEPT ![r] = to]
  /\ \/ holds[r] = "strong" /\ UNCHANGED <<backrefs, cells, first, fill>> /\ Dec
     \/ holds[r] = "weak" /\ DelBackref(r) /\ UNCHANGED <<refcnt, phase, svp>>
     \/ /\ holds[r] = "undef" /\ to = "gone"
        /\ UNCHANGED <<refcnt, backrefs, cells, first, fill, phase, svp>>

\* sv_kill_backrefs clears the reference in the cell it is at; what is no weak
\* reference any more cannot be told from other things in the list.
KillBackref ==
  LET r == cells[svp.at]
      weak == r # NoRef /\ holds[r] = "weak"
  IN  /\ phase = "dying" /\ svp.at <= svp.last
      /\ holds' = IF weak THEN [holds EXCEPT ![r] = "undef"] ELSE holds
      /\ phase' = IF weak \/ r = NoRef THEN phase ELSE "panic"
      /\ cells' = IF backrefs = "array" THEN [cells EXCEPT ![svp.at] = NoRef] ELSE cells
      /\ svp' = [svp EXCEPT !.at = @ + 1]
      /\ UNCHANGED <<refcnt, backrefs, first, fill>>

\* The list is emptied and the SV freed.
KillEnd ==
  /\ phase = "dying" /\ svp.at > svp.last
  /\ fill' = -1 /\ phase' = "freed"
  /\ UNCHANGED <<holds, refcnt, backrefs, cells, first, svp>>

WrNext ==
  \/ KillBackref \/ KillEnd
  \/ \E r \in Ref :
       \/ Weaken(r) \/ Unweaken(r) \/ \E other \in Ref : Assign(r, other)
       \/ \E to \in {"undef", "gone"} : ClearRef(r, to)

WrSpec == WrInit /\ [][WrNext]_wrVars
-----------------------------------------------------------------------------
Weak == {r \in Ref : holds[r] = "weak"}

WrTypeOK ==
  /\ holds \in [Ref -> {"strong", "weak", "undef", "gone"}]
  /\ refcnt \in 0..Cardinality(Ref)
  /\ backrefs \in {"none", "one", "array"}
  /\ cells \in Seq(Ref \cup {NoRef}) /\ first \in Nat /\ fill \in Int
  /\ backrefs # "array" => Len(cells) = (IF backrefs = "one" THEN 1 ELSE 0)
  /\ backrefs = "array" => fill >= -1 /\ Cell(fill) <= Len(cells)
  /\ phase \in {"alive", "dying", "freed", "panic"}

\* While the SV lives its list holds each weak reference exactly once and
\* nothing else, whichever way entries were taken out, and its count is the
\* number of the other references.
ListedOnce ==
  phase = "alive" =>
    /\ Weak = {Listed[i] : i \in DOMAIN Listed}
    /\ Cardinality(Weak) = Len(Listed)
    /\ refcnt = Cardinality({r \in Ref : holds[r] = "strong"})

\* No weak reference to a freed SV is left, however entries
\* moved in the list: so no reference of any kind.
NoneDangles ==
  phase = "freed" => \A r \in Ref : holds[r] \in {"undef", "gone"}

\* perldiag has "panic: magic_killbackrefs" for the case that it "failed an
\* internal consistency check while trying to reset all weak references to an
\* object" (pod/perldiag.pod:5043): the walk meets weak references only.
NoPanic == phase # "panic"

\* The list of back-references is right while the SV lives and when it dies.
BackrefsAreRight == ListedOnce /\ NoneDangles /\ NoPanic
=============================================================================
