----------------------------- MODULE MethodCache -----------------------------
(***************************************************************************)
(* Method resolution and its caches (mro_core.c, gv.c, sv.c): one method   *)
(* name in packages that inherit from each other.  An inherited method is  *)
(* remembered in the class's own symbol table under a generation number, a *)
(* linearisation of @ISA in the class, and PL_isarev lists who inherits    *)
(* from whom, so that a change knows whose generation to bump.  Destroying *)
(* an object looks its destructor up and remembers it in yet another cache.*)
(*                                                                         *)
(* Every package exists, no glob is aliased, and no class uses C3 or       *)
(* AUTOLOAD; a stash that is moved or deleted is left out.                 *)
(***************************************************************************)
EXTENDS Naturals, Sequences, SequencesExt, FiniteSets

CONSTANTS
  Package,
  Universal,   \* UNIVERSAL
  Parents,     \* the values that @ISA of each package may have
  Callers,     \* classes that methods are called on
  Destroyed,   \* classes of which objects are destroyed
  MaxChanges   \* bound: definitions, deletions and assignments to @ISA

ASSUME McAssumption ==
  /\ Universal \in Package /\ Destroyed \subseteq Package /\ MaxChanges \in Nat
  /\ Callers \subseteq Package
  /\ \A p \in Package : \A l \in Parents[p] : Range(l) \subseteq Package /\ IsInjective(l)

VARIABLES
  isa,       \* @ISA of each package
  glob,      \* the method's glob in each package: GvCV and GvCVGEN
  super,     \* the same in the cache for SUPER::
  linear,    \* mro_linear_current; <<>> when it is not there
  isarev,    \* PL_isarev: the classes known to inherit from each package
  cacheGen,  \* cache_gen
  subGen,    \* PL_sub_generation
  destroy,   \* destroy and destroy_gen
  changes    \* changes so far; the number of a change names the sub it defines

mcVars == <<isa, glob, super, linear, isarev, cacheGen, subGen, destroy, changes>>

NoSub == 0
Empty == [cv |-> NoSub, gen |-> 0]
NoGlob == [cv |-> NoSub, gen |-> 0, there |-> FALSE]
Glob(cv, gen) == [cv |-> cv, gen |-> gen, there |-> TRUE]

McInit ==
  /\ isa = [p \in Package |-> <<>>] /\ linear = [p \in Package |-> <<>>]
  /\ glob = [p \in Package |-> NoGlob] /\ super = glob
  /\ isarev = [p \in Package |-> {}]
  /\ cacheGen = [p \in Package |-> 1] /\ subGen = 1
  /\ destroy = [p \in Package |-> Empty] /\ changes = 0

\* Depth-first linearisations under @ISA as parents says, with those in cache
\* taken as they are.
Linear(parents, cache) ==
  LET f[p \in Package] ==
        IF cache[p] # <<>> THEN cache[p]
        ELSE FoldLeft(LAMBDA l, q : l \o SelectSeq(f[q], LAMBDA r : r \notin Range(l)),
                      <<p>>, parents[p])
  IN  f

Uncached == [p \in Package |-> <<>>]
Acyclic(parents) ==
  LET f[n \in 0..Cardinality(Package)] ==
        IF n = 0 THEN [p \in Package |-> {p}]
        ELSE [p \in Package |-> UNION {f[n - 1][q] : q \in Range(parents[p])}]
  IN  \A p \in Package : f[Cardinality(Package)][p] = {}

\* What the classes in ps and their ancestors are linearised to is remembered.
Linearised(parents, cache, ps) ==
  LET f == Linear(parents, cache)
      seen == UNION {Range(f[p]) : p \in ps}
  IN  [p \in Package |-> IF p \in seen THEN f[p] ELSE cache[p]]

IsUniversal(p) == p = Universal \/ Universal \in isarev[p]

Bumped(ps) == cacheGen' = [p \in Package |-> cacheGen[p] + IF p \in ps THEN 1 ELSE 0]

Forgotten(ps) == [p \in Package |-> IF p \in ps THEN [destroy[p] EXCEPT !.gen = 0] ELSE destroy[p]]

\* mro_method_changed_in
MethodChanged(p) ==
  IF IsUniversal(p)
  THEN subGen' = subGen + 1 /\ destroy' = Forgotten({p}) /\ UNCHANGED cacheGen
  ELSE Bumped(isarev[p]) /\ destroy' = Forgotten({p} \cup isarev[p]) /\ UNCHANGED subGen

Change == changes < MaxChanges /\ changes' = changes + 1

\* sub p::method {...}
Define(p) ==
  /\ Change
  /\ glob' = [glob EXCEPT ![p] = Glob(changes', 0)]
  /\ MethodChanged(p)
  /\ UNCHANGED <<isa, super, linear, isarev>>

Own(p) == IF glob[p].gen = 0 THEN glob[p].cv ELSE NoSub

\* delete $p::{method}
DeleteMethod(p) ==
  /\ Change /\ Own(p) # NoSub
  /\ glob' = [glob EXCEPT ![p] = NoGlob]
  /\ MethodChanged(p)
  /\ UNCHANGED <<isa, super, linear, isarev>>

IsaHash(cache, p) == IF cache[p] = <<>> THEN {} ELSE Range(cache[p]) \cup {Universal}

\* PL_isarev after p and the classes below it were linearised anew.
Relisted(p, kids, new) ==
  [q \in Package |->
     LET on  == {k \in kids \cup {p} : q \in Range(new[k]) \ {k}}
         off == {k \in kids \cup {p} : q \in IsaHash(linear, k) \ IsaHash(new, k)}
     IN  (isarev[q] \cup on) \ off]

\* Mutant of Wiped: the classes below p keep their linearisations.
WipedAlone(p, kids) == [linear EXCEPT ![p] = <<>>]

Wiped(p, kids) == [q \in Package |-> IF q \in kids \cup {p} THEN <<>> ELSE linear[q]]

\* @p::ISA = l, and mro_isa_changed_in
SetIsa(p, l) ==
  LET parents == [isa EXCEPT ![p] = l]
      kids    == isarev[p]
      new     == Linearised(parents, Wiped(p, kids), kids \cup {p})
  IN  /\ Change /\ Acyclic(parents)
      /\ isa' = parents
      /\ linear' = new
      /\ isarev' = Relisted(p, kids, new)
      /\ IF IsUniversal(p) THEN subGen' = subGen + 1 /\ UNCHANGED cacheGen
         ELSE Bumped(kids \cup {p}) /\ UNCHANGED subGen
      /\ destroy' = Forgotten({p})
      /\ UNCHANGED <<glob, super>>
-----------------------------------------------------------------------------
Gen(p) == cacheGen[p] + subGen
Remembers(g, p) == (g.cv # NoSub /\ g.gen = 0) \/ g.gen = Gen(p)

\* The first class after p in its linearisation with a method of its own.
Inherited(cache, p) ==
  LET l == Linear(isa, cache)[p]
      having == {i \in 2..Len(l) : Own(l[i]) # NoSub}
  IN  IF having = {} THEN NoSub
      ELSE Own(l[CHOOSE i \in having : \A j \in having : i <= j])

\* gv_fetchmeth in UNIVERSAL, which every lookup falls back to.
InUniversal ==
  IF Remembers(glob[Universal], Universal) THEN glob[Universal].cv
  ELSE Inherited(linear, Universal)

\* What a walk from p finds, and whether it goes as far as UNIVERSAL.
Walk(p) == LET m == Inherited(linear, p) IN IF m # NoSub THEN m ELSE InUniversal
Falls(p) == Inherited(linear, p) = NoSub

\* What UNIVERSAL's own glob remembers after a walk that came there.
UniversalAfter(falls) ==
  IF falls /\ ~Remembers(glob[Universal], Universal)
  THEN Glob(Inherited(linear, Universal), Gen(Universal)) ELSE glob[Universal]

\* gv_fetchmeth for a call, which makes the glob and remembers the answer there.
Lookup(p) ==
  /\ ~Remembers(glob[p], p)
  /\ glob' = [[glob EXCEPT ![Universal] = UniversalAfter(Falls(p) /\ p # Universal)]
              EXCEPT ![p] = Glob(Walk(p), Gen(p))]
  /\ linear' = Linearised(isa, linear, {p} \cup IF Falls(p) THEN {Universal} ELSE {})
  /\ UNCHANGED <<isa, super, isarev, cacheGen, subGen, destroy, changes>>

\* The same for SUPER::method.
LookupSuper(p) ==
  /\ ~Remembers(super[p], p)
  /\ super' = [super EXCEPT ![p] = Glob(Walk(p), Gen(p))]
  /\ glob' = [glob EXCEPT ![Universal] = UniversalAfter(Falls(p))]
  /\ linear' = Linearised(isa, linear, {p} \cup IF Falls(p) THEN {Universal} ELSE {})
  /\ UNCHANGED <<isa, isarev, cacheGen, subGen, destroy, changes>>

\* curse: the destructor of p is looked up, unless it is remembered.  A glob is
\* not made for it, but one that is there remembers it, too.
Destroy(p) ==
  /\ ~(destroy[p].gen # 0 /\ destroy[p].gen = subGen)
  /\ IF Remembers(glob[p], p)
     THEN destroy' = [destroy EXCEPT ![p] = [cv |-> glob[p].cv, gen |-> subGen]]
          /\ UNCHANGED <<glob, linear>>
     ELSE /\ destroy' = [destroy EXCEPT ![p] = [cv |-> Walk(p), gen |-> subGen]]
          /\ glob' = [[glob EXCEPT ![Universal] = UniversalAfter(Falls(p) /\ p # Universal)]
                      EXCEPT ![p] = IF @.there THEN Glob(Walk(p), Gen(p)) ELSE @]
          /\ linear' = Linearised(isa, linear, {p} \cup IF Falls(p) THEN {Universal} ELSE {})
  /\ UNCHANGED <<isa, super, isarev, cacheGen, subGen, changes>>

McNext ==
  \E p \in Package :
    \/ Define(p) \/ DeleteMethod(p)
    \/ \E l \in Parents[p] : SetIsa(p, l)
    \/ p \in Callers /\ (Lookup(p) \/ LookupSuper(p))
    \/ p \in Destroyed /\ Destroy(p)

McSpec == McInit /\ [][McNext]_mcVars
-----------------------------------------------------------------------------
McTypeOK ==
  /\ \A p \in Package :
       /\ isa[p] \in Parents[p] \cup {<<>>}
       /\ \A g \in {glob[p], super[p]} : g.cv \in 0..MaxChanges /\ g.gen <= Gen(p)
       /\ linear[p] # <<>> => linear[p][1] = p /\ IsInjective(linear[p])
       /\ isarev[p] \subseteq Package \ {p}
       /\ super[p].cv # NoSub => super[p].gen > 0
       /\ destroy[p].gen <= subGen
  /\ Acyclic(isa)

\* The method that p has by definition: its own, its nearest ancestor's in
\* depth-first order, or what UNIVERSAL has.
Uncovered(p) ==
  LET m == Inherited(Uncached, p) IN
  IF m # NoSub THEN m
  ELSE IF Own(Universal) # NoSub THEN Own(Universal) ELSE Inherited(Uncached, Universal)
Resolved(p) == IF Own(p) # NoSub THEN Own(p) ELSE Uncovered(p)

\* "invalidate the method caches of all child classes" (mro_core.c:1358): no
\* answer that is still taken for valid differs from what a search would find,
\* whatever was defined, deleted or inherited meanwhile, up to UNIVERSAL.
AnswersAreRight == \A p \in Package :
  /\ Remembers(glob[p], p) => glob[p].cv = Resolved(p)
  /\ Remembers(super[p], p) => super[p].cv = Uncovered(p)

\* A remembered linearisation is what @ISA says now, in all classes below.
LinearisationsAreRight == \A p \in Package :
  linear[p] # <<>> => linear[p] = Linear(isa, Uncached)[p]

\* PL_isarev knows every class that inherits from a package, however far below,
\* and lists no class, but under UNIVERSAL, that no longer does.
IsarevIsComplete == \A p, q \in Package :
  p # q => /\ q \in Range(Linear(isa, Uncached)[p]) => p \in isarev[q]
           /\ p \in isarev[q] /\ q # Universal => q \in Range(Linear(isa, Uncached)[p])

\* The destructor that an object of p gets is the one that p has, whatever was
\* defined or deleted in p and above: "DESTROY can be cached in meta"
\* (mro_core.c:563).  It does not hold for a class below one whose @ISA changes.
DestructorIsRight == \A p \in Package :
  destroy[p].gen # 0 /\ destroy[p].gen = subGen => destroy[p].cv = Resolved(p)

\* No cache answers other than a search without caches would.
CachesAreRight ==
  AnswersAreRight /\ LinearisationsAreRight /\ IsarevIsComplete /\ DestructorIsRight
=============================================================================
