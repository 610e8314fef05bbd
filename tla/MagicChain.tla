----------------------------- MODULE MagicChain -----------------------------
(***************************************************************************)
(* The list of magic of one SV (mg.c, sv.c): mg_get and mg_set walk it     *)
(* while the callbacks they call delete their own entry or put new ones in *)
(* front.  A step of a walk is one turn of the loop, the callback and what *)
(* it does to the list included; the flags that announce the magic are off *)
(* meanwhile and come back with restore_magic.                             *)
(*                                                                         *)
(* Left out: a callback that reads or sets the same SV again while an      *)
(* addition has switched its flags back on, and the SV's reference count.  *)
(***************************************************************************)
EXTENDS Naturals, Sequences, SequencesExt

CONSTANTS
  Entry,     \* places for a MAGIC structure; one that was freed is used again
  NoEntry,   \* NULL
  MaxAdded,  \* bound: entries that callbacks of one walk add
  Habits,    \* sets of things that callbacks do: "add", "drop"
  Lists      \* the lists there are to begin with: sequences of [at, sort]

ASSUME MgAssumption == NoEntry \notin Entry /\ MaxAdded \in Nat

\* Sorts of magic: a tied element (its get sets MGf_GSKIP), another variable
\* with get magic, taint, the cache of UTF-8 lengths, and one with no vtable.
Sort == {"elem", "get", "taint", "utf8", "ext"}
HasGet == {"elem", "get", "taint"}
HasSet == {"elem", "get", "taint", "utf8"}

VARIABLES
  habit,     \* what callbacks do; never changes
  readonly,  \* SvREADONLY(sv); never changes outside a walk
  chain,     \* SvMAGIC(sv), head first
  sort,      \* mg_type and mg_virtual
  skip,      \* entries with MGf_GSKIP
  flags,     \* SvMAGICAL(sv): a subset of {"G", "S", "R"}
  cached,    \* the utf8 entry holds a length
  walk,      \* the locals of mg_get or mg_set
  calls      \* times svt_get was called for an entry in this walk

mgVars == <<habit, readonly, chain, sort, skip, flags, cached, walk, calls>>

\* Calls are counted up to 2: none, one, or more.
MaxCalls == 2

NoWalk == [op |-> "none", mg |-> NoEntry, cur |-> NoEntry, head |-> NoEntry,
           newmg |-> NoEntry, haveNew |-> FALSE, saved |-> FALSE, old |-> {},
           taintOnly |-> TRUE, added |-> 0]

InChain(c) == Range(c)
First(c) == IF c = <<>> THEN NoEntry ELSE c[1]
After(e, c) ==
  LET i == CHOOSE j \in DOMAIN c : c[j] = e
  IN  IF i = Len(c) THEN NoEntry ELSE c[i + 1]

Without(e) == SelectSeq(chain, LAMBDA f : f # e)

\* mg_magical
Magical(c, s, k) ==
  LET g == IF \E e \in InChain(c) : s[e] \in HasGet /\ e \notin k THEN {"G"} ELSE {}
      w == IF \E e \in InChain(c) : s[e] \in HasSet THEN {"S"} ELSE {}
      r == IF \E e \in InChain(c) : s[e] = "elem" THEN {"R"} ELSE {}
  IN  IF c # <<>> /\ g \cup w = {} THEN {"R"} ELSE g \cup w \cup r

MgInit ==
  /\ habit \in Habits /\ readonly \in BOOLEAN
  /\ \E l \in Lists :
       /\ chain = [i \in DOMAIN l |-> l[i].at]
       /\ sort = [e \in Entry |-> IF \E i \in DOMAIN l : l[i].at = e
                                  THEN (CHOOSE m \in Range(l) : m.at = e).sort ELSE "ext"]
  /\ skip = {} /\ flags = Magical(chain, sort, {}) /\ cached = FALSE
  /\ walk = NoWalk /\ calls = [e \in Entry |-> 0]

\* sv_magicext: the entry goes to the front of c, and mg_magical sets the flags.
Attach(e, s, c, k) ==
  /\ e \notin InChain(c)
  /\ chain' = <<e>> \o c
  /\ sort' = [f \in Entry |-> IF f = e THEN s ELSE IF f \in InChain(c) THEN sort[f] ELSE "ext"]
  /\ skip' = (k \ {e}) \cap InChain(c)
  /\ flags' = Magical(chain', sort', skip')

\* sv_unmagic, when the flags are f: those that are all off stay off.
Detach(e, f, k) ==
  /\ e \in InChain(chain)
  /\ chain' = Without(e)
  /\ flags' = IF chain' = <<>> \/ f = {} THEN {} ELSE Magical(chain', sort, k)
  /\ skip' = k \ {e}
  /\ sort' = [sort EXCEPT ![e] = "ext"]

Idle == walk.op = "none"

\* length($sv) fills the cache.
FillCache ==
  /\ Idle /\ ~cached /\ \E e \in InChain(chain) : sort[e] = "utf8"
  /\ cached' = TRUE
  /\ UNCHANGED <<habit, readonly, chain, sort, skip, flags, walk, calls>>

\* What save_magic_flags keeps: that the SV is read-only is among it.
MagicFlags == {"G", "S", "R"}
Saved == flags \cup (IF readonly THEN {"readonly"} ELSE {})

\* Where the next MAGIC structure goes, unless to the place freed last.
FreshEntry == CHOOSE e \in Entry \cup {NoEntry} :
                IF Entry \subseteq InChain(chain) THEN e = NoEntry
                ELSE e \in Entry \ InChain(chain)

\* What svt_get or svt_set of e may do to the list, from flags f and skip k.
Callback(e, f, k) ==
  \/ flags' = f /\ skip' = k /\ UNCHANGED <<chain, sort>>
  \/ "drop" \in habit /\ Detach(e, f, k)
  \/ /\ "add" \in habit /\ walk.added < MaxAdded
     /\ \E new \in {e, FreshEntry} \cap Entry :
          \/ Attach(new, "get", chain, k)
          \/ "drop" \in habit /\ Attach(new, "get", Without(e), k)

Added == walk.added + (IF InChain(chain') \subseteq InChain(chain) THEN 0 ELSE 1)

\* restore_magic
Restore ==
  /\ flags' = IF chain = <<>> \/ ~walk.saved THEN flags
              ELSE IF walk.old # {} THEN flags \cup (walk.old \cap MagicFlags)
              ELSE Magical(chain, sort, skip)
  /\ walk' = NoWalk /\ calls' = [e \in Entry |-> 0]
  /\ UNCHANGED <<habit, readonly, chain, sort, skip, cached>>
-----------------------------------------------------------------------------
\* mg_get(sv), which SvGETMAGIC calls when SvGMAGICAL(sv).
GetBegin ==
  /\ Idle /\ "G" \in flags
  /\ LET h == First(chain)
     IN  walk' = [NoWalk EXCEPT !.op = "get", !.mg = h, !.cur = h, !.head = h,
                                !.newmg = h]
  /\ UNCHANGED <<habit, readonly, chain, sort, skip, flags, cached, calls>>

\* Mutant of Turn: what is in front stays unseen.
TurnOnward(w, next, c) == [w EXCEPT !.mg = next]

\* The pointers of w after a turn in which the list became c; next was read
\* before the callback.
Turn(w, next, c) ==
  LET w1 == IF w.haveNew /\ next = w.head
            THEN [w EXCEPT !.haveNew = FALSE, !.mg = w.cur, !.head = w.newmg]
            ELSE [w EXCEPT !.mg = next]
  IN  IF ~w1.haveNew /\ First(c) # w1.head
      THEN [w1 EXCEPT !.newmg = First(c), !.haveNew = TRUE, !.cur = w1.mg,
                      !.mg = First(c), !.old = @ \ MagicFlags]
      ELSE w1

Again(n) == IF n = MaxCalls THEN n ELSE n + 1
At(op, e) == walk.op = op /\ walk.mg = e /\ e # NoEntry
Gets(e) == sort[e] \in HasGet /\ e \notin skip

\* One turn of mg_get's loop at an entry with get magic other than taint.  The
\* first such entry has save_magic turn the flags off.  If the callback deleted
\* the entry, its flags are then read from freed memory.
GetCall(e) ==
  LET f   == IF walk.saved THEN flags ELSE {}
      old == IF walk.saved THEN walk.old ELSE Saved
      w   == [walk EXCEPT !.taintOnly = FALSE, !.saved = TRUE, !.added = Added]
  IN  /\ At("get", e) /\ Gets(e) /\ sort[e] # "taint"
      /\ Callback(e, f, skip \cup (IF sort[e] = "elem" THEN {e} ELSE {}))
      /\ calls' = [g \in Entry |-> IF g = e THEN Again(calls[e])
                                   ELSE IF g \in InChain(chain) THEN calls[g] ELSE 0]
      /\ IF chain' = <<>>
         THEN walk' = [w EXCEPT !.mg = NoEntry, !.old = old \ MagicFlags]
         ELSE \E skipped \in IF e \in InChain(chain') THEN {e \in skip'} ELSE BOOLEAN :
                walk' = Turn([w EXCEPT !.old = IF skipped THEN old \ MagicFlags ELSE old],
                             After(e, chain), chain')
      /\ UNCHANGED <<habit, readonly, cached>>

\* taint's svt_get changes nothing here.
GetTaint(e) ==
  /\ At("get", e) /\ Gets(e) /\ sort[e] = "taint"
  /\ calls' = [calls EXCEPT ![e] = Again(@)]
  /\ walk' = Turn(walk, After(e, chain), chain)
  /\ UNCHANGED <<habit, readonly, chain, sort, skip, flags, cached>>

\* Get magic other than taint follows e in the list.
GetsLater(e) ==
  \E i, j \in DOMAIN chain :
    i < j /\ chain[i] = e /\ Gets(chain[j]) /\ sort[chain[j]] # "taint"

\* A turn at any other entry; a cached length does not survive get magic.
GetPass(e) ==
  LET alone == walk.taintOnly /\ (sort[e] = "utf8" => ~GetsLater(e))
  IN  /\ At("get", e) /\ ~Gets(e)
      /\ walk' = Turn([walk EXCEPT !.taintOnly = alone], After(e, chain), chain)
      /\ cached' = (cached /\ (sort[e] = "utf8" => alone))
      /\ UNCHANGED <<habit, readonly, chain, sort, skip, flags, calls>>

GetEnd == walk.op = "get" /\ walk.mg = NoEntry /\ Restore
-----------------------------------------------------------------------------
\* mg_set(sv), which SvSETMAGIC calls when SvSMAGICAL(sv).
SetBegin ==
  /\ Idle /\ "S" \in flags
  /\ walk' = [NoWalk EXCEPT !.op = "set", !.mg = First(chain), !.saved = TRUE, !.old = Saved]
  /\ flags' = flags \cap {"R"}
  /\ UNCHANGED <<habit, readonly, chain, sort, skip, cached, calls>>

\* One turn of its loop: a get is due again.
SetTurn(e) ==
  LET k == skip \ {e}
  IN  /\ At("set", e)
      /\ IF sort[e] \in {"elem", "get"} THEN Callback(e, flags, k)
         ELSE skip' = k /\ UNCHANGED <<chain, sort, flags>>
      /\ walk' = [walk EXCEPT !.mg = After(e, chain), !.added = Added,
                              !.old = IF e \in skip THEN @ \ MagicFlags ELSE @]
      /\ cached' = (cached /\ sort[e] # "utf8")
      /\ UNCHANGED <<habit, readonly, calls>>

SetEnd == walk.op = "set" /\ walk.mg = NoEntry /\ Restore

MgStep ==
  \/ GetEnd \/ SetEnd
  \/ \E e \in Entry : GetCall(e) \/ GetTaint(e) \/ GetPass(e) \/ SetTurn(e)

MgNext == MgStep \/ GetBegin \/ SetBegin \/ FillCache

MgSpec == MgInit /\ [][MgNext]_mgVars
MgFairness == WF_mgVars(MgStep)
-----------------------------------------------------------------------------
MgTypeOK ==
  /\ habit \in Habits /\ readonly \in BOOLEAN
  /\ IsInjective(chain) /\ InChain(chain) \subseteq Entry
  /\ sort \in [Entry -> Sort] /\ skip \subseteq Entry
  /\ flags \subseteq MagicFlags /\ cached \in BOOLEAN
  /\ walk.op \in {"none", "get", "set"} /\ walk.mg \in Entry \cup {NoEntry}
  /\ calls \in [Entry -> 0..MaxCalls]

\* A walk never stands on an entry that has been freed, whatever callbacks did
\* to the list ("it may delete itself", mg.c:185 and 284).
StandsOnEntry == walk.mg \in InChain(chain) \cup {NoEntry}

\* "We must call svt_get(sv, mg) for each valid entry in the linked list of
\* magic.  svt_get() may delete the current entry, add new magic to the head of
\* the list" (mg.c:178-180): for each once, as long as callbacks do either the
\* one or the other.
EachEntryRead ==
  [][ (walk.op = "get" /\ walk'.op = "none" /\ habit # {"add", "drop"})
      => \A e \in InChain(chain) :
           sort[e] \in HasGet => calls[e] = 1 \/ (calls[e] = 0 /\ e \in skip) ]_mgVars

\* After a walk the flags announce all the magic there is: no get or set
\* callback is silently passed over from then on.  (Not so for a read-only
\* value.)
FlagsAnnounce ==
  Idle /\ ~readonly => Magical(chain, sort, skip) \cap {"G", "S"} \subseteq flags

\* "get-magic can reallocate the PV" (mg.c:214): no cached length survives a
\* walk that called get magic, on whichever side of the cache it stands in the
\* list, nor one that set the value.
LengthForgotten ==
  [][ (~Idle /\ Idle')
      => \/ ~cached
         \/ /\ walk.op = "get"
            /\ \A e \in InChain(chain) : calls[e] > 0 => sort[e] = "taint" ]_mgVars

\* mg_get ends although the list grows in front of it.
WalksEnd == (walk.op = "get") ~> Idle

\* Walks over the list with callbacks that change it: never on a freed entry,
\* each read once, flags and cached length right afterwards, and they end.
WalksAreSound ==
  [](StandsOnEntry /\ FlagsAnnounce) /\ EachEntryRead /\ LengthForgotten /\ WalksEnd
=============================================================================
