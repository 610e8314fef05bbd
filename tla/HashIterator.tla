---------------------------- MODULE HashIterator ----------------------------
(***************************************************************************)
(* A hash and its one iterator (hv.c).  The hash is an array of chains of  *)
(* entries; each(%h) goes through the buckets in an order scrambled by a   *)
(* random mask.  The entry that the iterator stands on may be deleted: it  *)
(* leaves its chain at once and is freed when the iterator moves on, which *)
(* HvLAZYDEL remembers; until then its own next pointer is kept right.     *)
(* In a restricted hash a deleted key leaves a placeholder.                *)
(*                                                                         *)
(* A step is one call.  Left out: tied hashes, and destructors of values   *)
(* that use the hash again.                                                *)
(***************************************************************************)
EXTENDS Integers, FiniteSets, Sequences, SequencesExt, FiniteSetsExt

CONSTANTS
  Node,     \* HE structures
  NoNode,   \* NULL
  KeyOf,    \* the key each is for
  Hash,     \* Hash[k]: the low bits of the key's hash value
  Mask,     \* values of xhv_rand
  Plans,    \* what programs do: "insert"; "restrict", where locking the keys
            \* starts the iterator again; "restrict anywhere", where it goes on
  PERL_HASH_DEFAULT_HVMAX,  \* of a new hash
  MAX_BUCKET_MAX            \* no hash is split beyond it

Bucket == 0..MAX_BUCKET_MAX

ASSUME HiAssumption ==
  /\ NoNode \notin Node /\ DOMAIN KeyOf = Node
  /\ \A n \in Node : Hash[KeyOf[n]] \in Bucket
  /\ Mask \subseteq Bucket /\ 0 \in Mask
  /\ PERL_HASH_DEFAULT_HVMAX = 3 /\ MAX_BUCKET_MAX = 7

VARIABLES
  plan,     \* never changes
  restricted, \* SvREADONLY(hv): a restricted hash
  hv,       \* HvMAX, HvARRAY, the placeholders, and the iterator: see HiInit
  grown,    \* since the iterator started the hash was inserted into or cleared
  seen,     \* entries it has returned since
  ended     \* it has come to the end

hiVars == <<plan, restricted, hv, grown, seen, ended>>

HiInit ==
  /\ plan \in Plans /\ restricted = FALSE
  /\ hv = [max |-> PERL_HASH_DEFAULT_HVMAX,    \* HvMAX
           array |-> [b \in Bucket |-> <<>>],  \* HvARRAY
           held |-> {},                        \* entries with a placeholder
           rand |-> 0,                         \* xhv_rand
           riter |-> -1, eiter |-> NoNode,     \* xhv_riter, xhv_eiter
           lazy |-> FALSE,                     \* HvLAZYDEL
           next |-> NoNode,                    \* HeNEXT of a lazily deleted one
           heap |-> {}]                        \* entries that are allocated
  /\ grown = FALSE /\ seen = {} /\ ended = FALSE

Linked(h) == UNION {Range(h.array[b]) : b \in Bucket}
Used(h) == Linked(h) \ h.held
At0(s) == IF s = <<>> THEN NoNode ELSE s[1]
ChainOf(h, n) == CHOOSE s \in Range(h.array) : n \in Range(s)
From(s, n) == SubSeq(s, CHOOSE i \in DOMAIN s : s[i] = n, Len(s))
NextIn(h, n) == At0(Tail(From(ChainOf(h, n), n)))

\* The bits of a that differ from those of b.
Xor(a, b) ==
  LET bit(k) == k * ((a \div k + b \div k) % 2) IN bit(1) + bit(2) + bit(4)
-----------------------------------------------------------------------------
FreeNode(h, n) == [h EXCEPT !.heap = @ \ {n}]   \* hv_free_ent

OutOfChain(h, n) ==
  [h EXCEPT !.array = [b \in Bucket |-> SelectSeq(@[b], LAMBDA m : m # n)],
            !.held = @ \ {n}]

\* Mutant of Unlink: the lazily deleted entry's pointer is not kept right.
UnlinkOnly(h, n) ==
  LET t == OutOfChain(h, n)
  IN  IF n = h.eiter THEN [t EXCEPT !.lazy = TRUE, !.next = NextIn(h, n)] ELSE FreeNode(t, n)

\* An entry leaves its chain, in hv_delete or clear_placeholders.
Unlink(h, n) ==
  LET t == OutOfChain(h, n)
  IN  IF n = h.eiter THEN [t EXCEPT !.lazy = TRUE, !.next = NextIn(h, n)]
      ELSE IF h.lazy /\ h.next = n THEN FreeNode([t EXCEPT !.next = NextIn(h, n)], n)
      ELSE FreeNode(t, n)

ClearPlaceholders(h) == FoldSet(LAMBDA n, g : Unlink(g, n), h, h.held)

\* An entry that was to be freed when the iterator leaves it.
FreeLazy(h) ==
  IF h.eiter # NoNode /\ h.lazy
  THEN [FreeNode(h, h.eiter) EXCEPT !.lazy = FALSE, !.next = NoNode] ELSE h

\* hv_iterinit
Started(h) == [FreeLazy(h) EXCEPT !.riter = -1, !.eiter = NoNode]

\* hsplit to twice the buckets.  (What goes to a new bucket gets there in some
\* order.)
Split(h) ==
  LET stays(b) == SelectSeq(h.array[b], LAMBDA n : Hash[KeyOf[n]] = b)
      goes(b) == Range(h.array[b]) \ Range(stays(b))
      old == 0..h.max
  IN  {[h EXCEPT !.max = 2 * h.max + 1,
                 !.array = [b \in Bucket |-> IF b \in old THEN stays(b) ELSE new[b - h.max - 1]]] :
         new \in {f \in [old -> UNION {SetToSeqs(goes(b)) : b \in old}] :
                    \A b \in old : f[b] \in SetToSeqs(goes(b))}}

DoHSplit(h) ==
  LET keys == Cardinality(Linked(h))
  IN  keys + keys \div 2 > h.max /\ h.max < MAX_BUCKET_MAX
-----------------------------------------------------------------------------
\* keys(%h), or the first use of the iterator: hv_iterinit.
IterInit ==
  /\ hv' = Started(hv)
  /\ grown' = FALSE /\ seen' = {} /\ ended' = FALSE
  /\ UNCHANGED <<plan, restricted>>

\* hv_common, for a key that has a placeholder: it is allowed again.
StoreAgain(n) ==
  /\ n \in hv.held
  /\ hv' = [hv EXCEPT !.held = @ \ {n}]
  /\ grown' = TRUE
  /\ UNCHANGED <<plan, restricted, seen, ended>>

\* hv_common, for a new key: first or second in its bucket, with a new mask for
\* the iterator; in a crowded bucket the hash is split, unless clearing old
\* placeholders makes room.
StoreNew(n) ==
  LET b == Hash[KeyOf[n]] % (hv.max + 1)
      c == hv.array[b]
  IN  /\ "insert" \in plan /\ ~restricted
      /\ n \notin hv.heap /\ \A m \in Linked(hv) : KeyOf[m] # KeyOf[n]
      /\ \E at \in 1..(IF c = <<>> THEN 1 ELSE 2), r \in Mask :
           LET h == [hv EXCEPT !.array[b] = InsertAt(c, at, n), !.rand = r,
                               !.heap = @ \cup {n}]
               k == ClearPlaceholders(h)
           IN  hv' \in IF c = <<>> \/ ~DoHSplit(h) THEN {h}
                       ELSE IF h.held = {} THEN Split(h)
                       ELSE IF DoHSplit(k) THEN Split(k) ELSE {k}
      /\ grown' = TRUE
      /\ UNCHANGED <<plan, restricted, seen, ended>>

\* hv_delete
DeleteKey(n) ==
  /\ n \in Used(hv)
  /\ hv' = IF restricted THEN [hv EXCEPT !.held = @ \cup {n}] ELSE Unlink(hv, n)
  /\ UNCHANGED <<plan, restricted, grown, seen, ended>>

\* %h = (): hv_clear, in a restricted hash
ClearRestricted ==
  /\ restricted /\ Linked(hv) # {}
  /\ hv' = [hv EXCEPT !.held = Linked(hv), !.eiter = NoNode]
  /\ grown' = TRUE
  /\ UNCHANGED <<plan, restricted, seen, ended>>

\* and in another (hv_free_entries), which starts an iterator again that stands
\* on an entry.
ClearHash ==
  /\ ~(restricted /\ Linked(hv) # {})
  /\ hv' = [(IF hv.eiter = NoNode THEN hv ELSE Started(hv)) EXCEPT
              !.array = [b \in Bucket |-> <<>>], !.held = {}, !.heap = @ \ Linked(hv)]
  /\ grown' = TRUE
  /\ UNCHANGED <<plan, restricted, seen, ended>>

\* Hash::Util's lock_keys(%h), by a program that starts the iterator again or
\* by one that does not.
LockKeys ==
  /\ ~restricted /\ restricted' = TRUE
  /\ \/ /\ "restrict" \in plan
        /\ hv' = ClearPlaceholders(Started(hv))
        /\ grown' = FALSE /\ seen' = {} /\ ended' = FALSE
     \/ /\ "restrict anywhere" \in plan
        /\ hv' = ClearPlaceholders(hv)
        /\ UNCHANGED <<grown, seen, ended>>
  /\ UNCHANGED plan

UnlockKeys ==
  /\ restricted /\ restricted' = FALSE
  /\ UNCHANGED <<plan, hv, grown, seen, ended>>

\* The first used entry of a piece of chain.
FirstUsed(h, c) == At0(SelectSeq(c, LAMBDA n : n \notin h.held))

\* The chain from the entry after the one the iterator stands on.
RestOfWalk(h) ==
  LET n == IF h.eiter = NoNode THEN NoNode
           ELSE IF h.lazy THEN h.next ELSE NextIn(h, h.eiter)
  IN  IF n = NoNode THEN <<>> ELSE From(ChainOf(h, n), n)

Tour(h) == [r \in 0..h.max |-> h.array[Xor(r, h.rand) % (h.max + 1)]]

\* each(%h): hv_iternext_flags.
IterNext ==
  LET here  == FirstUsed(hv, RestOfWalk(hv))
      later == {r \in (hv.riter + 1)..hv.max : FirstUsed(hv, Tour(hv)[r]) # NoNode}
      stop  == IF later = {} THEN -1 ELSE Min(later)
      found == IF here # NoNode \/ stop = -1 THEN here ELSE FirstUsed(hv, Tour(hv)[stop])
  IN  /\ hv' = [FreeLazy(hv) EXCEPT !.riter = IF here # NoNode THEN @ ELSE stop,
                                    !.eiter = found]
      /\ seen' = (IF ended THEN {} ELSE seen) \cup ({found} \cap Node)
      /\ grown' = (grown /\ ~ended)
      /\ ended' = (found = NoNode)
      /\ UNCHANGED <<plan, restricted>>

HiNext ==
  \/ ClearRestricted \/ ClearHash \/ LockKeys \/ UnlockKeys \/ IterInit \/ IterNext
  \/ \E n \in Node : StoreAgain(n) \/ StoreNew(n) \/ DeleteKey(n)

HiSpec == HiInit /\ [][HiNext]_hiVars
-----------------------------------------------------------------------------
HiTypeOK ==
  /\ plan \in Plans /\ restricted \in BOOLEAN /\ grown \in BOOLEAN /\ ended \in BOOLEAN
  /\ hv.max \in {PERL_HASH_DEFAULT_HVMAX, MAX_BUCKET_MAX}
  /\ \A b \in Bucket : IsInjective(hv.array[b]) /\ Range(hv.array[b]) \subseteq Node
  /\ hv.held \subseteq Linked(hv) /\ hv.rand \in Mask
  /\ hv.riter \in -1..hv.max /\ hv.eiter \in Node \cup {NoNode}
  /\ hv.lazy \in BOOLEAN /\ hv.next \in Node \cup {NoNode}
  /\ hv.heap \subseteq Node /\ seen \subseteq Node

\* A key is found where it is looked for, before and after a split.
InItsBucket ==
  \A b \in Bucket : \A n \in Range(hv.array[b]) : Hash[KeyOf[n]] % (hv.max + 1) = b

\* Whatever is deleted while the iterator stands somewhere: no chain, not the
\* iterator and not the entry it keeps alive leads to a freed structure, and no
\* structure is kept that nothing leads to.
NothingFreedInUse ==
  hv.heap = Linked(hv) \cup ({hv.eiter} \cap Node)
  /\ (hv.lazy => hv.next \in Linked(hv) \cup {NoNode})

\* The same, as far as entries in the hash are concerned, for a program that
\* uses Hash::Util's lock_keys whenever it likes: "It is always safe to delete
\* the item most recently returned by each" (pod/perlfunc.pod:2105).
NoFreedEntry == Linked(hv) \subseteq hv.heap

\* "It is always safe to delete the item most recently returned by each"
\* (pod/perlfunc.pod:2105); deleting others is as well, for the iterator: as
\* long as nothing is added, each returns no key twice and, when it comes to
\* the end, has returned all that are there.
EachOnce ==
  [][ (~grown /\ ~ended) =>
        /\ hv'.eiter \in seen => hv'.eiter = hv.eiter
        /\ ended' => Used(hv) \subseteq seen ]_hiVars

\* Deletion, splitting, clearing and iteration, in any order, go together.
IterationIsSafe == [](InItsBucket /\ NothingFreedInUse) /\ EachOnce
=============================================================================
