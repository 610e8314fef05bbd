------------------------- MODULE ThreadQueueProofs -------------------------
(***************************************************************************)
(* Theorems of ThreadQueue for every set of threads, every scenario and    *)
(* every number of items.                                                  *)
(*                                                                         *)
(* Inv is inductive: TypeOK, what a thread's pc says of its call, the      *)
(* numbering of items (calls in progress own disjoint items that nobody    *)
(* has added yet), and the queue as an injective sequence of what was      *)
(* added and not removed.  The wake-up theorem adds that without a limit   *)
(* only dequeuers wait, and sorts the steps by what they mean to sleepers. *)
(* The last two theorems are about the limit of a bounded queue and about  *)
(* what insert, extract and peek take an index to mean.                    *)
(***************************************************************************)
EXTENDS ThreadQueue, FiniteSetTheorems, FunctionTheorems, SequenceTheorems, TLAPS

\* No item occurs twice.
Differs(s) == \A i, j \in DOMAIN s : s[i] = s[j] => i = j

LEMMA Domain == ASSUME NEW S, NEW s \in Seq(S) PROVE DOMAIN s = 1..Len(s) /\ Len(s) \in Nat
  OBVIOUS

\* A stretch of a sequence: its items are those at the positions it covers.
LEMMA PartItems ==
  ASSUME NEW S, NEW q \in Seq(S), NEW m \in 1..(Len(q) + 1), NEW n \in 0..Len(q)
  PROVE  /\ SubSeq(q, m, n) \in Seq(S)
         /\ Items(SubSeq(q, m, n)) = {q[k] : k \in m..n}
         /\ Differs(q) => Differs(SubSeq(q, m, n))
<1>. DEFINE a == SubSeq(q, m, n)
<1>1. /\ a \in Seq(S)
      /\ Len(a) = IF m <= n THEN n - m + 1 ELSE 0
      /\ \A i \in 1..(n - m + 1) : a[i] = q[m + i - 1]
  <2>1. \A i \in m..n : q[i] \in S
    OBVIOUS
  <2>. QED BY <2>1, SubSeqProperties
<1>. HIDE DEF a
<1>2. DOMAIN a = 1..Len(a)
  BY <1>1
<1>3. DOMAIN a = 1..(n - m + 1)
  BY <1>1, <1>2
<1>4. Items(a) = {q[k] : k \in m..n}
  <2>1. ASSUME NEW i \in DOMAIN a PROVE a[i] \in {q[k] : k \in m..n}
    <3>1. i \in 1..(n - m + 1) /\ m + i - 1 \in m..n
      BY <1>3
    <3>2. a[i] = q[m + i - 1]
      BY <1>1, <3>1
    <3>. QED BY <3>1, <3>2
  <2>2. ASSUME NEW k \in m..n PROVE q[k] \in {a[i] : i \in DOMAIN a}
    <3>1. k - m + 1 \in DOMAIN a /\ m + (k - m + 1) - 1 = k
      BY <1>3
    <3>2. a[k - m + 1] = q[k]
      <4>1. \A i \in 1..(n - m + 1) : a[i] = q[m + i - 1]
        BY <1>1
      <4>2. k - m + 1 \in 1..(n - m + 1)
        BY <1>3, <3>1
      <4>. QED BY <4>1, <4>2, <3>1
    <3>. QED BY <3>1, <3>2
  <2>. QED BY <2>1, <2>2 DEF Items
<1>5. ASSUME Differs(q) PROVE Differs(a)
  <2>. SUFFICES ASSUME NEW i \in DOMAIN a, NEW j \in DOMAIN a, a[i] = a[j] PROVE i = j
    BY DEF Differs
  <2>1. m + i - 1 \in DOMAIN q /\ m + j - 1 \in DOMAIN q
    BY <1>3
  <2>2. q[m + i - 1] = q[m + j - 1]
    BY <1>1, <1>3
  <2>3. m + i - 1 = m + j - 1
    BY <1>5, <2>1, <2>2 DEF Differs
  <2>. QED BY <2>3, <1>3
<1>. QED BY <1>1, <1>4, <1>5 DEF a

LEMMA ConcatItems ==
  ASSUME NEW S, NEW s \in Seq(S), NEW t \in Seq(S)
  PROVE  /\ s \o t \in Seq(S)
         /\ Items(s \o t) = Items(s) \cup Items(t)
         /\ (Differs(s) /\ Differs(t) /\ Items(s) \cap Items(t) = {})
              => Differs(s \o t)
<1>. DEFINE c == s \o t
<1>1. /\ c \in Seq(S) /\ Len(c) = Len(s) + Len(t)
      /\ \A i \in 1..(Len(s) + Len(t)) :
           c[i] = IF i <= Len(s) THEN s[i] ELSE t[i - Len(s)]
  BY ConcatProperties
<1>. HIDE DEF c
<1>2. /\ DOMAIN c = 1..(Len(s) + Len(t))
      /\ DOMAIN s = 1..Len(s) /\ DOMAIN t = 1..Len(t)
      /\ Len(s) \in Nat /\ Len(t) \in Nat
  BY <1>1
<1>3. Items(c) = Items(s) \cup Items(t)
  <2>1. ASSUME NEW i \in DOMAIN c PROVE c[i] \in Items(s) \cup Items(t)
    <3>1. CASE i <= Len(s)
      <4>1. i \in DOMAIN s /\ c[i] = s[i]
        BY <3>1, <1>1, <1>2
      <4>. QED BY <4>1 DEF Items
    <3>2. CASE ~(i <= Len(s))
      <4>1. i - Len(s) \in DOMAIN t /\ c[i] = t[i - Len(s)]
        BY <3>2, <1>1, <1>2
      <4>. QED BY <4>1 DEF Items
    <3>. QED BY <3>1, <3>2
  <2>2. ASSUME NEW i \in DOMAIN s PROVE s[i] \in Items(c)
    BY <1>1, <1>2 DEF Items
  <2>3. ASSUME NEW i \in DOMAIN t PROVE t[i] \in Items(c)
    <3>1. Len(s) + i \in DOMAIN c /\ (Len(s) + i) - Len(s) = i /\ ~(Len(s) + i <= Len(s))
      BY <1>2
    <3>2. c[Len(s) + i] = t[i]
      BY <1>1, <1>2, <3>1
    <3>. QED BY <3>1, <3>2 DEF Items
  <2>. QED BY <2>1, <2>2, <2>3 DEF Items
<1>4. ASSUME Differs(s), Differs(t), Items(s) \cap Items(t) = {} PROVE Differs(c)
  <2>. SUFFICES ASSUME NEW i \in DOMAIN c, NEW j \in DOMAIN c, c[i] = c[j] PROVE i = j
    BY DEF Differs
  <2>1. CASE i <= Len(s) /\ j <= Len(s)
    BY <2>1, <1>1, <1>2, <1>4 DEF Differs
  <2>2. CASE i > Len(s) /\ j > Len(s)
    <3>1. i - Len(s) \in DOMAIN t /\ j - Len(s) \in DOMAIN t
      BY <2>2, <1>2
    <3>2. t[i - Len(s)] = t[j - Len(s)]
      BY <2>2, <1>1, <1>2
    <3>3. i - Len(s) = j - Len(s)
      BY <3>1, <3>2, <1>4 DEF Differs
    <3>. QED BY <3>3, <1>2
  <2>3. ASSUME NEW k \in DOMAIN c
        PROVE  (k <= Len(s) => c[k] \in Items(s)) /\ (k > Len(s) => c[k] \in Items(t))
    <3>1. CASE k <= Len(s)
      <4>1. k \in DOMAIN s /\ c[k] = s[k]
        BY <3>1, <1>1, <1>2
      <4>. QED BY <4>1, <3>1, <1>2 DEF Items
    <3>2. CASE k > Len(s)
      <4>1. k - Len(s) \in DOMAIN t /\ c[k] = t[k - Len(s)]
        BY <3>2, <1>1, <1>2
      <4>. QED BY <4>1, <3>2, <1>2 DEF Items
    <3>. QED BY <3>1, <3>2, <1>2
  <2>4. (i <= Len(s)) <=> (j <= Len(s))
    BY <2>3, <1>2, <1>4
  <2>. QED BY <2>1, <2>2, <2>3, <2>4, <1>2
<1>. QED BY <1>1, <1>3, <1>4 DEF c
-----------------------------------------------------------------------------
Adders == {"enqueue", "insert"}
Takers == {"dequeue", "dequeue_timed"}

\* The items that t's call is about to add.
Given(t) ==
  IF call[t].op \in Adders THEN first[t]..(first[t] + call[t].n - 1) ELSE {}

\* Threads make only calls of the scenario, wait only in the three methods that
\* wait, and for one item at least.
CallsOK ==
  \A t \in Thread :
    /\ pc[t] = "idle" => call[t] = NoCall
    /\ pc[t] # "idle" => call[t] \in scenario.calls[t]
    /\ pc[t] = "wait" => call[t].op \in Takers \cup {"enqueue"}
    /\ pc[t] = "late" => call[t].op = "dequeue_timed"
    /\ pc[t] = "test" => call[t].op = "enqueue"
    /\ pc[t] \in {"wait", "late"} /\ call[t].op \in Takers => call[t].n >= 1

\* Calls in progress have items of their own, which have not been added yet.
NumbersOK ==
  /\ added \subseteq 1..asked
  /\ \A t \in Thread : Given(t) \subseteq 1..asked /\ Given(t) \cap added = {}
  /\ \A t, u \in Thread : t # u => Given(t) \cap Given(u) = {}

Stored == Differs(queue) /\ Items(queue) = added \ removed

\* A limit that nobody sets stays.
LimitOK == (\A t \in Thread : ~MayCall(t, "limit")) => limit = scenario.limit

Inv == TypeOK /\ CallsOK /\ NumbersOK /\ Stored /\ LimitOK

LEMMA InitInv == Init => Inv
<1>. SUFFICES ASSUME Init PROVE Inv
  OBVIOUS
<1>1. TypeOK
  <2>1. NoCall \in Call
    BY DEF NoCall, Call, Ops
  <2>2. queue \in Seq(1..MaxItems)
    BY DEF Init
  <2>3. scenario \in Scenario /\ limit \in Nat
    BY QueueAssumption DEF Init
  <2>4. MaxItems \in Nat
    BY QueueAssumption
  <2>5. call \in [Thread -> Call] /\ pc \in [Thread -> {"idle"}]
        /\ first \in [Thread -> Nat]
    BY <2>1 DEF Init
  <2>6. ended \in BOOLEAN /\ asleep = {} /\ asked = 0 /\ added = {} /\ removed = {}
    BY DEF Init
  <2>7. pc \in [Thread -> {"idle", "enter", "wait", "late", "test"}]
    BY <2>5
  <2>. HIDE DEF NoCall
  <2>. QED BY <2>2, <2>3, <2>4, <2>5, <2>6, <2>7 DEF TypeOK
<1>2. CallsOK /\ LimitOK
  BY DEF Init, CallsOK, LimitOK, NoCall
<1>3. NumbersOK
  BY DEF Init, NumbersOK, Given, NoCall, Adders
<1>4. Stored
  BY DEF Init, Stored, Differs, Items
<1>. QED BY <1>1, <1>2, <1>3, <1>4 DEF Inv

\* What a thread is doing: its call is one of the scenario's.
LEMMA CallType ==
  ASSUME Inv, NEW t \in Thread
  PROVE  /\ call[t].op \in Ops /\ call[t].n \in Nat /\ call[t].at \in Int
         /\ call[t].op = "limit" => call[t].at \in Nat
         /\ first[t] \in Nat
         /\ Given(t) \subseteq 1..MaxItems
<1>1. call[t] \in Call /\ first[t] \in Nat
  BY DEF Inv, TypeOK
<1>2. call[t].op = "limit" => call[t].at \in Nat
  <2>1. call[t].op = "limit" => call[t] \in scenario.calls[t]
    BY DEF Inv, CallsOK, NoCall
  <2>. QED BY <2>1, QueueAssumption DEF Inv, TypeOK
<1>3. Given(t) \subseteq 1..MaxItems
  BY QueueAssumption DEF Inv, NumbersOK, TypeOK
<1>. QED BY <1>1, <1>2, <1>3 DEF Call

\* A return that leaves the queue as it is.
LEMMA RestKeeps ==
  ASSUME Inv, NEW t \in Thread, t \notin asleep, Returns(t),
         asleep' \subseteq asleep, limit' \in Nat, ended' \in BOOLEAN, LimitOK',
         UNCHANGED <<scenario, queue, asked, added, removed>>
  PROVE  Inv'
<1>1. TypeOK'
  BY DEF Inv, TypeOK, Returns, NoCall, Call, Ops
<1>2. CallsOK'
  BY DEF Inv, TypeOK, CallsOK, Returns, NoCall, Takers
<1>3. \A u \in Thread : Given(u)' = IF u = t THEN {} ELSE Given(u)
  BY DEF Inv, TypeOK, Returns, Given, NoCall, Adders
<1>4. NumbersOK'
  BY <1>3 DEF Inv, NumbersOK
<1>5. Stored'
  BY DEF Inv, Stored, Differs, Items
<1>. QED BY <1>1, <1>2, <1>4, <1>5 DEF Inv

\* A return that has put the items of the call on the queue.
LEMMA AddKeeps ==
  ASSUME Inv, NEW t \in Thread, t \notin asleep, Returns(t),
         asleep' \subseteq asleep,
         queue' \in Seq(1..MaxItems), Differs(queue'),
         Items(queue') = Items(queue) \cup Given(t), added' = added \cup Given(t),
         UNCHANGED <<scenario, limit, ended, asked, removed>>
  PROVE  Inv'
<1>0. Given(t) \subseteq 1..MaxItems
  BY CallType
<1>1. TypeOK'
  <2>1. /\ pc' \in [Thread -> {"idle", "enter", "wait", "late", "test"}]
        /\ call' \in [Thread -> Call] /\ first' \in [Thread -> Nat]
    BY DEF Inv, TypeOK, Returns, NoCall, Call, Ops
  <2>2. asleep' \subseteq {u \in Thread : pc'[u] = "wait"}
    BY DEF Inv, TypeOK, Returns
  <2>3. added' \subseteq 1..MaxItems /\ removed' \subseteq added'
    BY <1>0 DEF Inv, TypeOK
  <2>4. scenario' \in Scenario /\ limit' \in Nat /\ ended' \in BOOLEAN
        /\ asked' \in 0..MaxItems
    BY DEF Inv, TypeOK
  <2>. QED BY <2>1, <2>2, <2>3, <2>4 DEF TypeOK
<1>2. CallsOK' /\ LimitOK'
  BY DEF Inv, TypeOK, CallsOK, LimitOK, MayCall, Returns, NoCall, Takers
<1>3. \A u \in Thread : Given(u)' = IF u = t THEN {} ELSE Given(u)
  BY DEF Inv, TypeOK, Returns, Given, NoCall, Adders
<1>4. NumbersOK'
  BY <1>3 DEF Inv, NumbersOK
<1>5. Stored'
  <2>1. Given(t) \cap removed = {}
    BY DEF Inv, TypeOK, NumbersOK
  <2>. QED BY <2>1 DEF Inv, Stored, Differs, Items
<1>. QED BY <1>1, <1>2, <1>4, <1>5 DEF Inv

\* A return that has taken the items R off the queue.
LEMMA RemoveKeeps ==
  ASSUME Inv, NEW t \in Thread, t \notin asleep, Returns(t),
         asleep' \subseteq asleep,
         queue' \in Seq(1..MaxItems), Differs(queue'),
         NEW R \in SUBSET Items(queue),
         Items(queue') = Items(queue) \ R, removed' = removed \cup R,
         UNCHANGED <<scenario, limit, ended, asked, added>>
  PROVE  Inv'
<1>1. TypeOK'
  <2>1. /\ pc' \in [Thread -> {"idle", "enter", "wait", "late", "test"}]
        /\ call' \in [Thread -> Call] /\ first' \in [Thread -> Nat]
    BY DEF Inv, TypeOK, Returns, NoCall, Call, Ops
  <2>2. asleep' \subseteq {u \in Thread : pc'[u] = "wait"}
    BY DEF Inv, TypeOK, Returns
  <2>3. added' \subseteq 1..MaxItems /\ removed' \subseteq added'
    BY DEF Inv, TypeOK, Stored
  <2>4. scenario' \in Scenario /\ limit' \in Nat /\ ended' \in BOOLEAN
        /\ asked' \in 0..MaxItems
    BY DEF Inv, TypeOK
  <2>. QED BY <2>1, <2>2, <2>3, <2>4 DEF TypeOK
<1>2. CallsOK' /\ LimitOK'
  BY DEF Inv, TypeOK, CallsOK, LimitOK, MayCall, Returns, NoCall, Takers
<1>3. \A u \in Thread : Given(u)' = IF u = t THEN {} ELSE Given(u)
  BY DEF Inv, TypeOK, Returns, Given, NoCall, Adders
<1>4. NumbersOK'
  BY <1>3 DEF Inv, NumbersOK
<1>5. Stored'
  BY DEF Inv, Stored, Differs, Items
<1>. QED BY <1>1, <1>2, <1>4, <1>5 DEF Inv

\* The items of an enqueue or insert, as push and unshift get them.
LEMMA NewItemsAre ==
  ASSUME Inv, NEW t \in Thread, call[t].op \in Adders
  PROVE  /\ NewItems(t) \in Seq(1..MaxItems)
         /\ Items(NewItems(t)) = Given(t)
         /\ Differs(NewItems(t))
         /\ Given(t) \cap Items(queue) = {}
<1>1. call[t].n \in Nat /\ first[t] \in Nat /\ Given(t) \subseteq 1..MaxItems
  BY CallType
<1>2. Given(t) = first[t]..(first[t] + call[t].n - 1)
  BY DEF Given
<1>. DEFINE s == NewItems(t)
<1>3. DOMAIN s = 1..call[t].n /\ \A i \in 1..call[t].n : s[i] = first[t] + i - 1
  BY DEF NewItems
<1>. HIDE DEF s
<1>4. Differs(s)
  BY <1>1, <1>3 DEF Differs
<1>5. Items(s) = Given(t)
  <2>1. ASSUME NEW i \in DOMAIN s PROVE s[i] \in Given(t)
    BY <1>1, <1>2, <1>3
  <2>2. ASSUME NEW k \in Given(t) PROVE k \in {s[i] : i \in DOMAIN s}
    <3>1. k - first[t] + 1 \in DOMAIN s /\ s[k - first[t] + 1] = k
      BY <1>1, <1>2, <1>3
    <3>. QED BY <3>1
  <2>. QED BY <2>1, <2>2 DEF Items
<1>6. s \in Seq(1..MaxItems)
  <2>1. \A i \in 1..call[t].n : s[i] \in 1..MaxItems
    BY <1>1, <1>3, <1>5 DEF Items
  <2>2. s = [i \in 1..call[t].n |-> s[i]]
    BY <1>3 DEF s, NewItems
  <2>3. s \in [1..call[t].n -> 1..MaxItems]
    BY <2>1, <2>2
  <2>. QED BY <1>1, <2>3, SeqDef
<1>7. Given(t) \cap Items(queue) = {}
  BY DEF Inv, Stored, NumbersOK
<1>. QED BY <1>4, <1>5, <1>6, <1>7 DEF s

LEMMA PushKeeps ==
  ASSUME Inv, NEW t \in Thread, t \notin asleep, call[t].op = "enqueue", Push(t)
  PROVE  Inv'
<1>1. queue \in Seq(1..MaxItems) /\ Differs(queue)
  BY DEF Inv, TypeOK, Stored
<1>2. call[t].op \in Adders
  BY DEF Adders
<1>3. /\ queue' \in Seq(1..MaxItems) /\ Differs(queue')
      /\ Items(queue') = Items(queue) \cup Given(t)
  BY <1>1, <1>2, NewItemsAre, ConcatItems DEF Push
<1>4. asleep' \subseteq asleep
  BY DEF Push, CondSignal
<1>5. added' = added \cup Given(t)
  BY <1>2, NewItemsAre DEF Push
<1>6. Returns(t) /\ UNCHANGED <<scenario, limit, ended, asked, removed>>
  BY DEF Push
<1>. QED BY <1>3, <1>4, <1>5, <1>6, AddKeeps

\* q is cut into three sequences, and none of them shares an item with another.
FallsInto(S, q, a, b, c) ==
  /\ a \in Seq(S) /\ b \in Seq(S) /\ c \in Seq(S)
  /\ Differs(a) /\ Differs(b) /\ Differs(c)
  /\ Items(q) = Items(a) \cup Items(b) \cup Items(c)
  /\ Items(a) \cap Items(b) = {} /\ Items(a) \cap Items(c) = {}
  /\ Items(b) \cap Items(c) = {}

\* The queue falls into the items before, in and behind a stretch.
LEMMA Parts ==
  ASSUME NEW S, NEW q \in Seq(S), Differs(q), NEW i \in 0..Len(q), NEW j \in i..Len(q)
  PROVE  FallsInto(S, q, SubSeq(q, 1, i), SubSeq(q, i + 1, j), SubSeq(q, j + 1, Len(q)))
<1>. DEFINE P(m, n) == {q[k] : k \in m..n}
            a == SubSeq(q, 1, i)
            b == SubSeq(q, i + 1, j)
            c == SubSeq(q, j + 1, Len(q))
<1>0. DOMAIN q = 1..Len(q) /\ Len(q) \in Nat
  OBVIOUS
<1>1. /\ a \in Seq(S) /\ Differs(a)
      /\ Items(a) = P(1, i)
  <2>1. 1 \in 1..(Len(q) + 1)
    BY <1>0
  <2>. QED BY <2>1, PartItems
<1>2. /\ b \in Seq(S) /\ Differs(b)
      /\ Items(b) = P(i + 1, j)
  <2>1. i + 1 \in 1..(Len(q) + 1) /\ j \in 0..Len(q)
    BY <1>0
  <2>. QED BY <2>1, PartItems
<1>3. /\ c \in Seq(S) /\ Differs(c)
      /\ Items(c) = P(j + 1, Len(q))
  <2>1. j + 1 \in 1..(Len(q) + 1) /\ Len(q) \in 0..Len(q)
    BY <1>0
  <2>. QED BY <2>1, PartItems
<1>4. Items(q) = P(1, i) \cup P(i + 1, j) \cup P(j + 1, Len(q))
  <2>1. \A k \in DOMAIN q : k \in 1..i \/ k \in (i + 1)..j \/ k \in (j + 1)..Len(q)
    BY <1>0
  <2>2. 1..i \subseteq DOMAIN q /\ (i + 1)..j \subseteq DOMAIN q
        /\ (j + 1)..Len(q) \subseteq DOMAIN q
    BY <1>0
  <2>. QED BY <2>1, <2>2 DEF Items
<1>5. ASSUME NEW m \in 1..(Len(q) + 1), NEW n \in 0..Len(q),
             NEW m2 \in 1..(Len(q) + 1), NEW n2 \in 0..Len(q), n < m2
      PROVE  P(m, n) \cap P(m2, n2) = {}
  <2>. SUFFICES ASSUME NEW k \in m..n, NEW l \in m2..n2, q[k] = q[l] PROVE FALSE
    OBVIOUS
  <2>1. k \in DOMAIN q /\ l \in DOMAIN q /\ k # l
    BY <1>0, <1>5
  <2>. QED BY <2>1 DEF Differs
<1>6. /\ P(1, i) \cap P(i + 1, j) = {} /\ P(1, i) \cap P(j + 1, Len(q)) = {}
      /\ P(i + 1, j) \cap P(j + 1, Len(q)) = {}
  <2>1. /\ 1 \in 1..(Len(q) + 1) /\ i + 1 \in 1..(Len(q) + 1) /\ j + 1 \in 1..(Len(q) + 1)
        /\ j \in 0..Len(q) /\ Len(q) \in 0..Len(q) /\ i < i + 1 /\ i < j + 1 /\ j < j + 1
    BY <1>0
  <2>. QED BY <1>5, <2>1
<1>7. FallsInto(S, q, a, b, c)
  <2>. HIDE DEF P, a, b, c
  <2>. QED BY <1>1, <1>2, <1>3, <1>4, <1>6 DEF FallsInto
<1>. QED BY <1>7

LEMMA Bounds ==
  ASSUME NEW a \in Int, NEW b \in Int
  PROVE  /\ Smaller(a, b) \in Int /\ Smaller(a, b) <= a /\ Smaller(a, b) <= b
         /\ Smaller(a, b) \in {a, b}
         /\ Larger(a, b) \in Int /\ Larger(a, b) >= a /\ Larger(a, b) >= b
         /\ Larger(a, b) \in {a, b}
  BY DEF Smaller, Larger

LEMMA EmptyItems ==
  ASSUME NEW q, NEW n \in Int PROVE Items(SubSeq(q, n + 1, n)) = {}
<1>1. SubSeq(q, n + 1, n) = <<>>
  <2>1. n + 1 \in Int /\ n < n + 1
    OBVIOUS
  <2>. QED BY <2>1, SubSeqEmpty
<1>2. Items(<<>>) = {}
  BY DEF Items
<1>. QED BY <1>1, <1>2

LEMMA InsertKeeps ==
  ASSUME Inv, NEW t \in Thread, Insert(t) PROVE Inv'
<1>1. t \notin asleep /\ call[t].op \in Adders
  BY DEF Insert, Entering, Inv, TypeOK, Adders
<1>2. queue \in Seq(1..MaxItems) /\ Differs(queue) /\ Len(queue) \in Nat
  BY DEF Inv, TypeOK, Stored
<1>3. call[t].at \in Int
  BY CallType
<1>. DEFINE i == IF call[t].at < 0 THEN Larger(call[t].at + Len(queue), 0)
                                   ELSE Smaller(call[t].at, Len(queue))
            a == SubSeq(queue, 1, i)
            c == SubSeq(queue, i + 1, Len(queue))
<1>4. CASE ended \/ call[t].n = 0
  <2>1. ReturnsAtOnce(t)
    BY <1>4 DEF Insert
  <2>2. limit' \in Nat /\ ended' \in BOOLEAN /\ LimitOK'
    BY <2>1 DEF ReturnsAtOnce, Inv, TypeOK, LimitOK, MayCall
  <2>. QED BY <1>1, <2>1, <2>2, RestKeeps DEF ReturnsAtOnce
<1>5. CASE ~(ended \/ call[t].n = 0)
  <2>1. i \in 0..Len(queue)
    BY <1>2, <1>3 DEF Larger, Smaller
  <2>2. /\ queue' = (a \o NewItems(t)) \o c
        /\ added' = added \cup Items(NewItems(t))
        /\ CondSignal /\ Returns(t)
        /\ UNCHANGED <<scenario, limit, ended, asked, removed>>
    BY <1>5 DEF Insert
  <2>. HIDE DEF i
  <2>3. /\ a \in Seq(1..MaxItems) /\ c \in Seq(1..MaxItems)
        /\ Differs(a) /\ Differs(c) /\ Items(a) \cap Items(c) = {}
        /\ Items(queue) = Items(a) \cup Items(c)
    <3>1. i \in i..Len(queue)
      BY <2>1
    <3>. DEFINE b == SubSeq(queue, i + 1, i)
    <3>2. i \in Int
      BY <1>2, <2>1
    <3>3. Items(b) = {}
      BY <3>2, EmptyItems
    <3>. HIDE DEF b
    <3>4. /\ a \in Seq(1..MaxItems) /\ c \in Seq(1..MaxItems)
          /\ Differs(a) /\ Differs(c) /\ Items(a) \cap Items(c) = {}
          /\ Items(queue) = Items(a) \cup Items(b) \cup Items(c)
      <4>1. FallsInto(1..MaxItems, queue, a, b, c)
        BY <1>2, <2>1, <3>1, Parts DEF b
      <4>. HIDE DEF a, c
      <4>. QED BY <4>1 DEF FallsInto
    <3>. HIDE DEF a, c
    <3>. QED BY <3>3, <3>4
  <2>. HIDE DEF a, c
  <2>4. /\ NewItems(t) \in Seq(1..MaxItems) /\ Differs(NewItems(t))
        /\ Items(NewItems(t)) = Given(t) /\ Given(t) \cap Items(queue) = {}
    BY <1>1, NewItemsAre
  <2>5. /\ a \o NewItems(t) \in Seq(1..MaxItems) /\ Differs(a \o NewItems(t))
        /\ Items(a \o NewItems(t)) = Items(a) \cup Given(t)
    BY <2>3, <2>4, ConcatItems
  <2>6. /\ queue' \in Seq(1..MaxItems) /\ Differs(queue')
        /\ Items(queue') = Items(queue) \cup Given(t)
    <3>1. (Items(a) \cup Given(t)) \cap Items(c) = {}
      BY <2>3, <2>4
    <3>2. queue' = (a \o NewItems(t)) \o c
      BY <2>2
    <3>. DEFINE d == a \o NewItems(t)
    <3>3. d \in Seq(1..MaxItems) /\ Differs(d) /\ Items(d) = Items(a) \cup Given(t)
      BY <2>5
    <3>4. queue' = d \o c
      BY <3>2
    <3>. HIDE DEF d
    <3>5. Items(d) \cap Items(c) = {}
      BY <3>1, <3>3
    <3>6. /\ queue' \in Seq(1..MaxItems) /\ Differs(queue')
          /\ Items(queue') = Items(d) \cup Items(c)
      BY <2>3, <3>3, <3>4, <3>5, ConcatItems
    <3>. QED BY <2>3, <3>3, <3>6
  <2>7. asleep' \subseteq asleep
    BY <2>2 DEF CondSignal
  <2>. QED BY <1>1, <2>2, <2>4, <2>6, <2>7, AddKeeps
<1>. QED BY <1>4, <1>5

LEMMA TakeHeadKeeps ==
  ASSUME Inv, NEW t \in Thread, t \notin asleep, NEW n \in Nat, TakeHead(t, n)
  PROVE  Inv'
<1>1. queue \in Seq(1..MaxItems) /\ Differs(queue) /\ Len(queue) \in Nat
  BY DEF Inv, TypeOK, Stored
<1>. DEFINE k == Smaller(n, Len(queue))
            b == SubSeq(queue, 1, k)
            c == SubSeq(queue, k + 1, Len(queue))
<1>2. k \in 0..Len(queue)
  BY <1>1 DEF Smaller
<1>3. /\ queue' = c /\ removed' = removed \cup Items(b)
      /\ CondSignal /\ Returns(t)
      /\ UNCHANGED <<scenario, limit, ended, asked, added>>
  BY DEF TakeHead
<1>. HIDE DEF k
<1>4. /\ c \in Seq(1..MaxItems) /\ Differs(c) /\ Items(b) \cap Items(c) = {}
      /\ Items(queue) = Items(b) \cup Items(c)
  <2>. DEFINE z == SubSeq(queue, k + 1, k)
  <2>1. k \in k..Len(queue) /\ k \in Int
    BY <1>1, <1>2
  <2>2. Items(z) = {}
    BY <2>1, EmptyItems
  <2>3. FallsInto(1..MaxItems, queue, b, z, c)
    BY <1>1, <1>2, <2>1, Parts
  <2>. HIDE DEF z, b, c
  <2>. QED BY <2>2, <2>3 DEF FallsInto
<1>. HIDE DEF b, c
<1>5. asleep' \subseteq asleep
  BY <1>3 DEF CondSignal
<1>6. Items(b) \in SUBSET Items(queue) /\ Items(queue') = Items(queue) \ Items(b)
  BY <1>3, <1>4
<1>. QED BY <1>3, <1>4, <1>5, <1>6, RemoveKeeps

LEMMA CutOutKeeps ==
  ASSUME Inv, NEW t \in Thread, t \notin asleep, NEW i \in Nat, NEW n \in Nat,
         CutOut(t, i, n)
  PROVE  Inv'
<1>1. queue \in Seq(1..MaxItems) /\ Differs(queue) /\ Len(queue) \in Nat
  BY DEF Inv, TypeOK, Stored
<1>. DEFINE from == Smaller(i, Len(queue))
            to == Smaller(i + n, Len(queue))
            a == SubSeq(queue, 1, from)
            b == SubSeq(queue, from + 1, to)
            c == SubSeq(queue, to + 1, Len(queue))
<1>2. from \in 0..Len(queue) /\ to \in from..Len(queue)
  BY <1>1 DEF Smaller
<1>3. /\ queue' = a \o c /\ removed' = removed \cup Items(b)
      /\ CondSignal /\ Returns(t)
      /\ UNCHANGED <<scenario, limit, ended, asked, added>>
  BY DEF CutOut
<1>. HIDE DEF from, to
<1>4. /\ a \in Seq(1..MaxItems) /\ b \in Seq(1..MaxItems) /\ c \in Seq(1..MaxItems)
      /\ Differs(a) /\ Differs(b) /\ Differs(c)
      /\ Items(queue) = Items(a) \cup Items(b) \cup Items(c)
      /\ Items(a) \cap Items(b) = {} /\ Items(a) \cap Items(c) = {}
      /\ Items(b) \cap Items(c) = {}
  <2>1. FallsInto(1..MaxItems, queue, a, b, c)
    BY <1>1, <1>2, Parts
  <2>. HIDE DEF a, b, c
  <2>. QED BY <2>1 DEF FallsInto
<1>. HIDE DEF a, b, c
<1>5. /\ queue' \in Seq(1..MaxItems) /\ Differs(queue')
      /\ Items(queue') = Items(a) \cup Items(c)
  BY <1>3, <1>4, ConcatItems
<1>6. asleep' \subseteq asleep
  BY <1>3 DEF CondSignal
<1>7. Items(b) \in SUBSET Items(queue) /\ Items(queue') = Items(queue) \ Items(b)
  BY <1>4, <1>5
<1>. QED BY <1>3, <1>5, <1>6, <1>7, RemoveKeeps

LEMMA CondWaitKeeps ==
  ASSUME Inv, NEW t \in Thread, CondWaits(t), call[t] \in scenario.calls[t],
         call[t].op \in Takers \cup {"enqueue"},
         call[t].op \in Takers => call[t].n >= 1
  PROVE  Inv'
<1>1. TypeOK'
  BY DEF Inv, TypeOK, CondWaits
<1>2. CallsOK' /\ LimitOK'
  BY DEF Inv, TypeOK, CallsOK, LimitOK, MayCall, CondWaits, Takers
<1>3. \A u \in Thread : Given(u)' = Given(u)
  BY DEF CondWaits, Given
<1>4. NumbersOK'
  BY <1>3 DEF Inv, NumbersOK, CondWaits
<1>5. Stored'
  BY DEF Inv, Stored, CondWaits, Differs, Items
<1>. QED BY <1>1, <1>2, <1>4, <1>5 DEF Inv

\* A step of one thread's pc, or of asleep, that touches nothing else.
LEMMA MoveKeeps ==
  ASSUME Inv, NEW t \in Thread, NEW p \in {"late", "test", "same"},
         pc' = IF p = "same" THEN pc ELSE [pc EXCEPT ![t] = p],
         asleep' \subseteq asleep, p # "same" => t \notin asleep',
         pc[t] # "idle",
         p = "late" => pc[t] = "wait" /\ call[t].op = "dequeue_timed",
         p = "test" => call[t].op = "enqueue",
         UNCHANGED <<scenario, queue, limit, ended, call, first, asked, added, removed>>
  PROVE  Inv'
<1>1. TypeOK'
  BY DEF Inv, TypeOK
<1>2. CallsOK' /\ LimitOK'
  BY DEF Inv, TypeOK, CallsOK, LimitOK, MayCall, Takers
<1>3. \A u \in Thread : Given(u)' = Given(u)
  BY DEF Given
<1>4. NumbersOK'
  BY <1>3 DEF Inv, NumbersOK
<1>5. Stored'
  BY DEF Inv, Stored, Differs, Items
<1>. QED BY <1>1, <1>2, <1>4, <1>5 DEF Inv

LEMMA ReturnsAtOnceKeeps ==
  ASSUME Inv, NEW t \in Thread, t \notin asleep, ReturnsAtOnce(t) PROVE Inv'
<1>1. limit' \in Nat /\ ended' \in BOOLEAN /\ LimitOK'
  BY DEF ReturnsAtOnce, Inv, TypeOK, LimitOK, MayCall
<1>. QED BY <1>1, RestKeeps DEF ReturnsAtOnce

LEMMA CallMethodKeeps ==
  ASSUME Inv, NEW t \in Thread, NEW c \in scenario.calls[t], CallMethod(t, c)
  PROVE  Inv'
<1>. DEFINE n == IF c.op \in Adders THEN c.n ELSE 0
<1>1. c \in Call
  BY QueueAssumption DEF Inv, TypeOK
<1>2. n \in Nat /\ c.n \in Nat
  BY <1>1 DEF Call
<1>3. /\ pc[t] = "idle" /\ asked + n <= MaxItems /\ asked' = asked + n
      /\ first' = [first EXCEPT ![t] = asked + 1]
      /\ pc' = [pc EXCEPT ![t] = "enter"] /\ call' = [call EXCEPT ![t] = c]
      /\ UNCHANGED <<scenario, queue, limit, ended, asleep, added, removed>>
  BY DEF CallMethod, Adders
<1>4. asked \in Nat /\ MaxItems \in Nat /\ t \notin asleep
  BY <1>3, QueueAssumption DEF Inv, TypeOK
<1>5. TypeOK'
  <2>1. asked' \in 0..MaxItems
    BY <1>2, <1>3, <1>4
  <2>. QED BY <1>1, <1>3, <1>4, <2>1 DEF Inv, TypeOK
<1>6. CallsOK' /\ LimitOK'
  BY <1>3 DEF Inv, TypeOK, CallsOK, LimitOK, MayCall
<1>7. \A u \in Thread \ {t} : Given(u)' = Given(u)
  BY <1>3 DEF Inv, TypeOK, Given
<1>8. Given(t)' = (asked + 1)..(asked + n)
  <2>1. call'[t] = c /\ first'[t] = asked + 1
    BY <1>3 DEF Inv, TypeOK
  <2>2. CASE c.op \in Adders
    BY <2>1, <2>2, <1>2, <1>4 DEF Given
  <2>3. CASE c.op \notin Adders
    BY <2>1, <2>3, <1>2, <1>4 DEF Given
  <2>. QED BY <2>2, <2>3
<1>. HIDE DEF n
<1>9. NumbersOK'
  <2>1. added' \subseteq 1..asked' /\ \A u \in Thread : Given(u) \subseteq 1..asked'
    BY <1>2, <1>3, <1>4 DEF Inv, NumbersOK
  <2>2. Given(t)' \subseteq 1..asked' /\ Given(t)' \cap 1..asked = {}
    BY <1>2, <1>3, <1>4, <1>8
  <2>3. \A u \in Thread : Given(u)' \subseteq 1..asked' /\ Given(u)' \cap added' = {}
    BY <1>3, <1>7, <2>1, <2>2 DEF Inv, NumbersOK
  <2>4. \A u, w \in Thread : u # w => Given(u)' \cap Given(w)' = {}
    BY <1>3, <1>7, <2>2 DEF Inv, NumbersOK
  <2>. QED BY <2>1, <2>3, <2>4, <1>3 DEF NumbersOK
<1>10. Stored'
  BY <1>3 DEF Inv, Stored, Differs, Items
<1>. QED BY <1>5, <1>6, <1>9, <1>10 DEF Inv

\* A thread that does something in a method is not asleep, and its call is one
\* of the scenario's.
LEMMA Active ==
  ASSUME Inv, NEW t \in Thread, Step(t)
  PROVE  /\ t \notin asleep /\ pc[t] # "idle" /\ call[t] \in scenario.calls[t]
         /\ call[t].n \in Nat /\ call[t].at \in Int
<1>1. t \notin asleep /\ pc[t] # "idle"
  BY DEF Inv, TypeOK, Step, EnqueueTest, EnqueueCompare, Dequeue, DequeueNb, DequeueTimed,
         Insert, Extract, SetLimit, End, Running, Entering, Resuming
<1>. QED BY <1>1, CallType DEF Inv, CallsOK

LEMMA EnqueueKeeps ==
  ASSUME Inv, NEW t \in Thread, Step(t), EnqueueTest(t) \/ EnqueueCompare(t) PROVE Inv'
<1>1. t \notin asleep /\ pc[t] # "idle" /\ call[t] \in scenario.calls[t]
  BY Active
<1>2. call[t].op = "enqueue"
  BY DEF EnqueueTest, EnqueueCompare, Running, Entering, Resuming, Inv, CallsOK
<1>3. CASE ReturnsAtOnce(t)
  BY <1>1, <1>3, ReturnsAtOnceKeeps
<1>4. CASE Push(t)
  BY <1>1, <1>2, <1>4, PushKeeps
<1>5. CASE CondWaits(t)
  BY <1>1, <1>2, <1>5, CondWaitKeeps DEF Takers
<1>6. CASE /\ pc' = [pc EXCEPT ![t] = "test"]
           /\ UNCHANGED <<scenario, queue, limit, ended, call, first, asleep,
                          asked, added, removed>>
  BY <1>1, <1>2, <1>6, MoveKeeps
<1>. QED BY <1>3, <1>4, <1>5, <1>6 DEF EnqueueTest, EnqueueCompare

LEMMA DequeueKeeps ==
  ASSUME Inv, NEW t \in Thread, Step(t), Dequeue(t) \/ DequeueNb(t) \/ DequeueTimed(t)
  PROVE  Inv'
<1>1. t \notin asleep /\ pc[t] # "idle" /\ call[t] \in scenario.calls[t] /\ call[t].n \in Nat
  BY Active
<1>2. CASE ReturnsAtOnce(t)
  BY <1>1, <1>2, ReturnsAtOnceKeeps
<1>3. CASE TakeHead(t, call[t].n)
  BY <1>1, <1>3, TakeHeadKeeps
<1>4. CASE Dequeue(t) /\ CondWaits(t) /\ ~((pc[t] = "enter" \/ ended) /\ BadCount(t))
  <2>1. call[t].op = "dequeue" /\ (pc[t] = "enter" \/ pc[t] = "wait")
    BY <1>4 DEF Dequeue, Running, Entering, Resuming
  <2>2. call[t].n >= 1
    BY <1>1, <1>4, <2>1 DEF BadCount, Inv, CallsOK, Takers
  <2>. QED BY <1>1, <1>4, <2>1, <2>2, CondWaitKeeps DEF Takers
<1>5. CASE DequeueTimed(t) /\ CondWaits(t) /\ pc[t] # "late" /\ (pc[t] = "wait" \/ ~BadCount(t))
  <2>1. call[t].op = "dequeue_timed" /\ (pc[t] = "enter" \/ pc[t] = "wait")
    BY <1>5 DEF DequeueTimed, Running, Entering, Resuming
  <2>2. call[t].n >= 1
    BY <1>1, <1>5, <2>1 DEF BadCount, Inv, CallsOK, Takers
  <2>. QED BY <1>1, <1>5, <2>1, <2>2, CondWaitKeeps DEF Takers
<1>. QED BY <1>2, <1>3, <1>4, <1>5 DEF Dequeue, DequeueNb, DequeueTimed

LEMMA ExtractKeeps ==
  ASSUME Inv, NEW t \in Thread, Step(t), Extract(t) PROVE Inv'
<1>1. t \notin asleep /\ call[t].n \in Nat /\ call[t].at \in Int /\ Len(queue) \in Nat
  BY Active DEF Inv, TypeOK
<1>. DEFINE n == call[t].n
            i == IF call[t].at < 0 THEN call[t].at + Len(queue) ELSE call[t].at
<1>2. n \in Nat /\ i \in Int
  BY <1>1
<1>3. \/ ReturnsAtOnce(t)
      \/ n + i > 0 /\ TakeHead(t, n + i)
      \/ i >= 0 /\ CutOut(t, i, n)
  BY DEF Extract
<1>. HIDE DEF i, n
<1>4. CASE ReturnsAtOnce(t)
  BY <1>1, <1>4, ReturnsAtOnceKeeps
<1>5. CASE n + i > 0 /\ TakeHead(t, n + i)
  <2>. DEFINE m == n + i
  <2>1. m \in Nat /\ TakeHead(t, m)
    BY <1>2, <1>5
  <2>. HIDE DEF m
  <2>. QED BY <1>1, <2>1, TakeHeadKeeps
<1>6. CASE i >= 0 /\ CutOut(t, i, n)
  <2>1. i \in Nat
    BY <1>2, <1>6
  <2>. QED BY <1>1, <1>2, <1>6, <2>1, CutOutKeeps
<1>. QED BY <1>3, <1>4, <1>5, <1>6

LEMMA SetLimitKeeps ==
  ASSUME Inv, NEW t \in Thread, Step(t), SetLimit(t) PROVE Inv'
<1>1. t \notin asleep /\ call[t] \in scenario.calls[t]
  BY Active
<1>2. MayCall(t, "limit") /\ limit' \in Nat
  BY <1>1, CallType DEF SetLimit, MayCall
<1>3. LimitOK' /\ ended' \in BOOLEAN
  BY <1>2 DEF SetLimit, LimitOK, MayCall, Inv, TypeOK
<1>. QED BY <1>1, <1>2, <1>3, RestKeeps DEF SetLimit

LEMMA EndKeeps ==
  ASSUME Inv, NEW t \in Thread, Step(t), End(t) PROVE Inv'
<1>1. t \notin asleep
  BY Active
<1>2. limit' \in Nat /\ ended' \in BOOLEAN /\ LimitOK' /\ asleep' \subseteq asleep
  BY DEF End, CondSignal, LimitOK, MayCall, Inv, TypeOK
<1>. QED BY <1>1, <1>2, RestKeeps DEF End

LEMMA WakeKeeps ==
  ASSUME Inv, NEW t \in Thread, Timeout(t) \/ SpuriousWakeup(t) PROVE Inv'
<1>1. t \in asleep /\ pc[t] = "wait"
  BY DEF Timeout, SpuriousWakeup, Inv, TypeOK
<1>2. CASE Timeout(t)
  BY <1>1, <1>2, MoveKeeps DEF Timeout
<1>3. CASE SpuriousWakeup(t)
  BY <1>1, <1>3, MoveKeeps DEF SpuriousWakeup
<1>. QED BY <1>2, <1>3

LEMMA NextInv == Inv /\ [Next]_vars => Inv'
<1>. SUFFICES ASSUME Inv, [Next]_vars PROVE Inv'
  OBVIOUS
<1>1. ASSUME NEW t \in Thread, NEW c \in scenario.calls[t], CallMethod(t, c) PROVE Inv'
  BY <1>1, CallMethodKeeps
<1>2. ASSUME NEW t \in Thread, Step(t) PROVE Inv'
  BY <1>2, EnqueueKeeps, DequeueKeeps, InsertKeeps, ExtractKeeps, SetLimitKeeps, EndKeeps
     DEF Step
<1>3. ASSUME NEW t \in Thread, Timeout(t) \/ SpuriousWakeup(t) PROVE Inv'
  BY <1>3, WakeKeeps
<1>4. CASE UNCHANGED vars
  <2>1. TypeOK'
    BY <1>4 DEF vars, Inv, TypeOK
  <2>2. CallsOK' /\ LimitOK'
    BY <1>4 DEF vars, Inv, CallsOK, LimitOK, MayCall
  <2>3. NumbersOK' /\ Stored'
    BY <1>4 DEF vars, Inv, NumbersOK, Given, Stored, Differs, Items
  <2>. QED BY <2>1, <2>2, <2>3 DEF Inv
<1>. QED BY <1>1, <1>2, <1>3, <1>4 DEF Next

\* Every reachable state of a Thread::Queue satisfies the inductive invariant.
THEOREM Invariance == Spec => []Inv
  BY InitInv, NextInv, PTL DEF Spec
-----------------------------------------------------------------------------
\* The variables keep their types: the queue holds numbered items only, no
\* more are handed out than MaxItems, and only threads in cond_wait sleep.
THEOREM TypeCorrect == Spec => []TypeOK
<1>1. Inv => TypeOK
  BY DEF Inv
<1>. QED BY <1>1, Invariance, PTL

LEMMA InvNothingLost == Inv => NothingLost
<1>. SUFFICES ASSUME Inv PROVE NothingLost
  OBVIOUS
<1>1. queue \in Seq(1..MaxItems) /\ Differs(queue) /\ Items(queue) = added \ removed
  BY DEF Inv, TypeOK, Stored
<1>2. DOMAIN queue = 1..Len(queue) /\ Len(queue) \in Nat
  BY <1>1
<1>3. queue \in Bijection(1..Len(queue), Items(queue))
  <2>1. queue = [i \in 1..Len(queue) |-> queue[i]]
    BY <1>1
  <2>2. \A i \in 1..Len(queue) : queue[i] \in Items(queue)
    BY <1>2 DEF Items
  <2>3. queue \in [1..Len(queue) -> Items(queue)]
    BY <2>1, <2>2
  <2>4. \A e \in Items(queue) : \E i \in 1..Len(queue) : queue[i] = e
    BY <1>2 DEF Items
  <2>5. \A i, j \in 1..Len(queue) : queue[i] = queue[j] => i = j
    BY <1>1, <1>2 DEF Differs
  <2>. QED BY <2>3, <2>4, <2>5 DEF Bijection, Injection, Surjection, IsInjective
<1>4. Cardinality(Items(queue)) = Len(queue)
  <2>1. ExistsBijection(1..Len(queue), Items(queue))
    BY <1>3 DEF ExistsBijection
  <2>. QED BY <1>2, <2>1, FS_CountingElements
<1>. QED BY <1>1, <1>4 DEF NothingLost

\* The queue holds, once each, the items that were added and not removed.
THEOREM NoItemIsLost == Spec => []NothingLost
  BY Invariance, InvNothingLost, PTL
-----------------------------------------------------------------------------
\* Somebody is on the way out of cond_wait or cond_timedwait.
Waking == \E u \in Thread \ asleep : pc[u] \in {"wait", "late"}

\* Where all wait for the same thing, only dequeuers wait.
OnlyTakersWait ==
  SameWait => \A t \in Thread : /\ pc[t] # "test"
                                /\ pc[t] = "wait" => call[t].op \in Takers

\* What a step can mean to the sleepers: nothing; somebody else is on the way
\* out, or nobody sleeps; or one more goes to sleep because it has to.
Unnoticed ==
  /\ asleep' = asleep /\ queue' = queue /\ ended' = ended /\ limit' = limit
  /\ \A u \in asleep : pc'[u] = pc[u] /\ call'[u] = call[u]
  /\ Waking => Waking'

Roused == Waking' \/ asleep' = {}

FallsAsleep(t) ==
  CondWaits(t) /\ Short(t) /\ call[t].op \in Takers /\ pc[t] # "idle"

Outcome == Unnoticed \/ Roused \/ \E t \in Thread : FallsAsleep(t)

\* Without a limit a count is bad only if it is below 1, which that of a woken
\* thread is not.
LEMMA WokenCountIsGood ==
  ASSUME Inv, SameWait, NEW t \in Thread, pc[t] \in {"wait", "late"},
         call[t].op \in Takers
  PROVE  ~BadCount(t)
<1>1. limit = 0
  BY DEF Inv, LimitOK, SameWait
<1>2. call[t].n >= 1 /\ call[t].n \in Nat
  BY CallType DEF Inv, CallsOK
<1>. QED BY <1>1, <1>2 DEF BadCount

\* A method that returns from "enter" without a change is not noticed.
LEMMA ReturnUnnoticed ==
  ASSUME Inv, NEW t \in Thread, pc[t] = "enter", Returns(t), limit' = limit,
         asleep' = asleep, queue' = queue, ended' = ended
  PROVE  Unnoticed
<1>1. t \notin asleep /\ \A u \in Thread \ {t} : pc'[u] = pc[u] /\ call'[u] = call[u]
  BY DEF Inv, TypeOK, Returns
<1>2. Waking => Waking'
  BY <1>1 DEF Waking
<1>3. asleep \subseteq Thread
  BY DEF Inv, TypeOK
<1>. QED BY <1>1, <1>2, <1>3 DEF Unnoticed

\* A method that returns with a cond_signal rouses somebody, if anybody sleeps.
LEMMA SignalRouses ==
  ASSUME Inv, NEW t \in Thread, t \notin asleep, Returns(t), CondSignal
  PROVE  Roused
<1>1. CASE asleep = {}
  BY <1>1 DEF CondSignal, Roused
<1>2. CASE asleep # {}
  <2>1. PICK u \in asleep : asleep' = asleep \ {u}
    BY <1>2 DEF CondSignal
  <2>2. u \in Thread /\ pc[u] = "wait" /\ u # t
    BY <2>1 DEF Inv, TypeOK
  <2>3. pc'[u] = "wait" /\ u \notin asleep'
    BY <2>1, <2>2 DEF Returns, Inv, TypeOK
  <2>. QED BY <2>2, <2>3 DEF Roused, Waking
<1>. QED BY <1>1, <1>2

LEMMA StepOutcome ==
  ASSUME Inv, OnlyTakersWait, SameWait, NEW t \in Thread, Step(t)
  PROVE  Outcome
<1>1. /\ t \notin asleep /\ pc[t] # "idle" /\ call[t] \in scenario.calls[t]
      /\ limit = 0 /\ pc[t] # "test" /\ (pc[t] = "wait" => call[t].op \in Takers)
  BY Active DEF Inv, LimitOK, SameWait, OnlyTakersWait
<1>2. CASE ReturnsAtOnce(t) /\ pc[t] = "enter"
  BY <1>2, ReturnUnnoticed DEF ReturnsAtOnce, Outcome
<1>3. CASE Returns(t) /\ CondSignal
  BY <1>1, <1>3, SignalRouses DEF Outcome
<1>4. CASE EnqueueTest(t)
  <2>1. pc[t] = "enter"
    BY <1>1, <1>4 DEF EnqueueTest, Running, Entering, Resuming, Takers
  <2>2. CASE Push(t) /\ queue' = <<>>
    <3>1. queue' = queue
      <4>1. call[t].op \in Adders
        BY <1>4 DEF EnqueueTest, Running, Entering, Resuming, Adders
      <4>. DEFINE s == NewItems(t)
      <4>2. queue \in Seq(1..MaxItems) /\ s \in Seq(1..MaxItems) /\ queue \o s = <<>>
        BY <2>2, <4>1, NewItemsAre DEF Push, Inv, TypeOK
      <4>. HIDE DEF s
      <4>3. Len(queue \o s) = Len(queue) + Len(s) /\ Len(queue) \in Nat /\ Len(s) \in Nat
        BY <4>2, ConcatProperties
      <4>4. Len(queue) = 0
        BY <4>2, <4>3
      <4>. QED BY <2>2, <4>2, <4>4, EmptySeq
    <3>. QED BY <2>1, <2>2, <3>1, ReturnUnnoticed DEF Push, Outcome
  <2>3. CASE Push(t) /\ queue' # <<>>
    BY <1>3, <2>3 DEF Push
  <2>. QED BY <1>1, <1>2, <1>4, <2>1, <2>2, <2>3 DEF EnqueueTest
<1>5. CASE Dequeue(t) \/ DequeueNb(t) \/ DequeueTimed(t)
  <2>1. CASE TakeHead(t, call[t].n)
    BY <1>3, <2>1 DEF TakeHead
  <2>2. CASE ReturnsAtOnce(t) /\ BadCount(t)
    <3>1. call[t].op \in Takers \cup {"dequeue_nb"} /\ pc[t] \in {"enter", "wait", "late"}
      BY <1>5 DEF Dequeue, DequeueNb, DequeueTimed, Running, Entering, Resuming, Takers,
                  Inv, CallsOK
    <3>2. pc[t] = "enter"
      <4>1. pc[t] = "late" => call[t].op \in Takers
        BY DEF Inv, CallsOK, Takers
      <4>. QED BY <1>1, <2>2, <3>1, <4>1, WokenCountIsGood
    <3>. QED BY <1>2, <2>2, <3>2
  <2>3. CASE CondWaits(t) /\ Short(t) /\ ~DequeueNb(t)
    <3>1. call[t].op \in Takers
      BY <1>5, <2>3 DEF Dequeue, DequeueTimed, Running, Entering, Resuming, Takers, Inv, CallsOK
    <3>. QED BY <1>1, <2>3, <3>1 DEF FallsAsleep, Outcome
  <2>4. CASE DequeueNb(t)
    BY <2>1, <2>2, <2>4 DEF DequeueNb
  <2>. QED BY <1>5, <2>1, <2>2, <2>3, <2>4 DEF Dequeue, DequeueTimed
<1>6. CASE Insert(t)
  BY <1>2, <1>3, <1>6 DEF Insert, Entering
<1>7. CASE Extract(t)
  BY <1>2, <1>3, <1>7 DEF Extract, Entering, TakeHead, CutOut
<1>8. CASE SetLimit(t)
  <2>1. MayCall(t, "limit")
    BY <1>1, <1>8 DEF SetLimit, MayCall
  <2>. QED BY <2>1 DEF SameWait
<1>9. CASE End(t)
  BY <1>3, <1>9 DEF End
<1>. QED BY <1>1, <1>4, <1>5, <1>6, <1>7, <1>8, <1>9 DEF Step, EnqueueCompare

LEMMA ScenarioStays == ASSUME [Next]_vars PROVE scenario' = scenario
<1>1. CASE UNCHANGED vars
  BY <1>1 DEF vars
<1>2. ASSUME NEW t \in Thread, NEW c \in scenario.calls[t], CallMethod(t, c)
      PROVE  scenario' = scenario
  BY <1>2 DEF CallMethod
<1>3. ASSUME NEW t \in Thread, Step(t) PROVE scenario' = scenario
  BY <1>3 DEF Step, EnqueueTest, EnqueueCompare, Dequeue, DequeueNb, DequeueTimed, Insert,
         Extract, SetLimit, End, Push, TakeHead, CutOut, ReturnsAtOnce, CondWaits
<1>4. ASSUME NEW t \in Thread, Timeout(t) \/ SpuriousWakeup(t) PROVE scenario' = scenario
  BY <1>4 DEF Timeout, SpuriousWakeup
<1>. QED BY <1>1, <1>2, <1>3, <1>4 DEF Next

LEMMA NextOutcome ==
  ASSUME Inv, OnlyTakersWait, SameWait, [Next]_vars PROVE Outcome
<1>1. CASE UNCHANGED vars
  BY <1>1 DEF vars, Outcome, Unnoticed, Waking
<1>2. ASSUME NEW t \in Thread, NEW c \in scenario.calls[t], CallMethod(t, c) PROVE Outcome
  <2>1. t \notin asleep /\ pc[t] = "idle"
    BY <1>2 DEF CallMethod, Inv, TypeOK
  <2>2. \A u \in Thread \ {t} : pc'[u] = pc[u] /\ call'[u] = call[u]
    BY <1>2 DEF CallMethod, Inv, TypeOK
  <2>3. asleep \subseteq Thread
    BY DEF Inv, TypeOK
  <2>. QED BY <1>2, <2>1, <2>2, <2>3 DEF CallMethod, Outcome, Unnoticed, Waking
<1>3. ASSUME NEW t \in Thread, Timeout(t) \/ SpuriousWakeup(t) PROVE Outcome
  <2>1. t \notin asleep' /\ pc'[t] \in {"wait", "late"}
    BY <1>3 DEF Timeout, SpuriousWakeup, Inv, TypeOK
  <2>. QED BY <2>1 DEF Outcome, Roused, Waking
<1>4. ASSUME NEW t \in Thread, Step(t) PROVE Outcome
  BY <1>4, StepOutcome
<1>. QED BY <1>1, <1>2, <1>3, <1>4 DEF Next

LEMMA OnlyTakersWaitStays ==
  ASSUME Inv, OnlyTakersWait, [Next]_vars PROVE OnlyTakersWait'
<1>. SUFFICES ASSUME SameWait'
              PROVE  \A t \in Thread : pc'[t] # "test"
                                       /\ (pc'[t] = "wait" => call'[t].op \in Takers)
  BY DEF OnlyTakersWait
<1>1. SameWait /\ limit = 0
  BY ScenarioStays DEF SameWait, MayCall, Inv, LimitOK
<1>2. \A t \in Thread : pc[t] # "test" /\ (pc[t] = "wait" => call[t].op \in Takers)
  BY <1>1 DEF OnlyTakersWait
<1>3. CASE UNCHANGED vars
  BY <1>2, <1>3 DEF vars
<1>4. ASSUME NEW t \in Thread, NEW c \in scenario.calls[t], CallMethod(t, c)
      PROVE  \A u \in Thread : pc'[u] # "test" /\ (pc'[u] = "wait" => call'[u].op \in Takers)
  BY <1>2, <1>4 DEF CallMethod, Inv, TypeOK
<1>5. ASSUME NEW t \in Thread, Timeout(t) \/ SpuriousWakeup(t)
      PROVE  \A u \in Thread : pc'[u] # "test" /\ (pc'[u] = "wait" => call'[u].op \in Takers)
  BY <1>2, <1>5 DEF Timeout, SpuriousWakeup, Inv, TypeOK
<1>6. ASSUME NEW t \in Thread, Step(t)
      PROVE  \A u \in Thread : pc'[u] # "test" /\ (pc'[u] = "wait" => call'[u].op \in Takers)
  <2>1. Returns(t) \/ (CondWaits(t) /\ call[t].op \in Takers)
    BY <1>1, <1>2, <1>6 DEF Step, EnqueueTest, EnqueueCompare, Dequeue, DequeueNb, DequeueTimed,
         Insert, Extract, SetLimit, End, Push, TakeHead, CutOut, ReturnsAtOnce, Running,
         Entering, Resuming, Takers, Inv, CallsOK
  <2>. QED BY <1>2, <2>1 DEF Returns, CondWaits, Inv, TypeOK
<1>. QED BY <1>3, <1>4, <1>5, <1>6 DEF Next

\* Blocking dequeues in progress have the same count.
LEMMA OneCount ==
  ASSUME Inv, SameWait, NEW t \in Thread, NEW u \in Thread,
         pc[t] # "idle", pc[u] # "idle", call[t].op \in Takers, call[u].op \in Takers
  PROVE  call[t].n = call[u].n
  BY DEF Inv, CallsOK, SameWait, Takers

LEMMA NoLostWakeupStays ==
  ASSUME Inv, Inv', OnlyTakersWait, NoLostWakeup, [Next]_vars PROVE NoLostWakeup'
<1>. SUFFICES ASSUME SameWait', NEW t \in asleep', CanGo(t)' PROVE Waking'
  BY DEF NoLostWakeup, Waking
<1>1. SameWait
  BY ScenarioStays DEF SameWait, MayCall
<1>2. OnlyTakersWait'
  BY OnlyTakersWaitStays
<1>3. Unnoticed \/ Roused \/ \E u \in Thread : FallsAsleep(u)
  BY <1>1, NextOutcome DEF Outcome
<1>4. CASE Unnoticed
  <2>1. t \in asleep /\ CanGo(t)
    BY <1>4 DEF Unnoticed, CanGo, Short
  <2>. QED BY <1>1, <1>4, <2>1 DEF NoLostWakeup, Waking, Unnoticed
<1>5. CASE Roused
  BY <1>5 DEF Roused
<1>6. ASSUME NEW u \in Thread, FallsAsleep(u) PROVE FALSE
  <2>1. t \in Thread /\ pc'[t] = "wait" /\ call'[t].op \in Takers
    BY <1>2 DEF Inv, TypeOK, OnlyTakersWait
  <2>2. /\ pc'[u] = "wait" /\ queue' = queue /\ ended' = ended /\ call' = call
        /\ Short(u) /\ call'[u].op \in Takers
    BY <1>6 DEF FallsAsleep, CondWaits, Inv, TypeOK
  <2>3. pc[t] # "idle" /\ pc[u] # "idle"
    BY <1>6, <2>1 DEF FallsAsleep, CondWaits, Inv, TypeOK
  <2>4. call[t].n = call[u].n
    BY <1>1, <2>1, <2>2, <2>3, OneCount
  <2>5. Short(t)'
    BY <2>2, <2>4 DEF Short
  <2>. QED BY <2>1, <2>5 DEF CanGo, Takers
<1>. QED BY <1>3, <1>4, <1>5, <1>6

\* Where all wait for the same thing, cond_signal loses no wake-up: a sleeper
\* whose items are there has a thread on its way out of cond_wait before it.
THEOREM NoWakeupIsLost == Spec => []NoLostWakeup
<1>. DEFINE J == Inv /\ OnlyTakersWait /\ NoLostWakeup
<1>1. Init => J
  BY InitInv DEF Init, OnlyTakersWait, NoLostWakeup
<1>2. J /\ [Next]_vars => J'
  BY NextInv, OnlyTakersWaitStays, NoLostWakeupStays
<1>3. J => NoLostWakeup
  OBVIOUS
<1>. HIDE DEF J
<1>. QED BY <1>1, <1>2, <1>3, PTL DEF Spec
-----------------------------------------------------------------------------
\* What a blocking dequeue takes when nothing is short, and the rest.
LEMMA HeadAndRest ==
  ASSUME NEW S, NEW q \in Seq(S), NEW n \in Nat, n >= 1, n <= Len(q)
  PROVE  q = SubSeq(q, 1, n) \o SubSeq(q, n + 1, Len(q))
<1>1. Len(q) \in Nat /\ 1 \in 1..(Len(q) + 1) /\ n \in 0..Len(q) /\ Len(q) \in n..Len(q)
  OBVIOUS
<1>2. SubSeq(q, 1, n) \o SubSeq(q, n + 1, Len(q)) = SubSeq(q, 1, Len(q))
  <2>1. 1 \in 1..(Len(q) + 1) /\ Len(q) \in 0..Len(q) /\ n \in (1 - 1)..Len(q)
    BY <1>1
  <2>. QED BY <2>1, ConcatAdjacentSubSeq
<1>3. SubSeq(q, 1, Len(q)) = q
  BY SubSeqFull
<1>. QED BY <1>2, <1>3

\* The effect of the step in which a blocking dequeue leaves its method.
LEMMA DequeueReturns ==
  ASSUME Inv, NEW t \in Thread, Dequeue(t), queue' # queue, ~ended
  PROVE  /\ Len(queue) >= call[t].n
         /\ queue = SubSeq(queue, 1, call[t].n) \o queue'
<1>1. /\ queue \in Seq(1..MaxItems) /\ Len(queue) \in Nat /\ call[t].n \in Nat
  BY CallType DEF Inv, TypeOK
<1>2. ~Short(t) /\ TakeHead(t, call[t].n)
  BY DEF Dequeue, ReturnsAtOnce, CondWaits
<1>3. Len(queue) >= call[t].n
  BY <1>1, <1>2 DEF Short
<1>4. Smaller(call[t].n, Len(queue)) = call[t].n
  BY <1>1, <1>3 DEF Smaller
<1>5. queue' = SubSeq(queue, call[t].n + 1, Len(queue))
  BY <1>2, <1>4 DEF TakeHead
<1>6. CASE call[t].n >= 1
  BY <1>1, <1>3, <1>5, <1>6, HeadAndRest
<1>7. CASE call[t].n = 0
  <2>1. queue' = SubSeq(queue, 1, Len(queue))
    BY <1>5, <1>7
  <2>2. SubSeq(queue, 1, Len(queue)) = queue
    BY <1>1, SubSeqFull
  <2>. QED BY <2>1, <2>2
<1>. QED BY <1>1, <1>3, <1>6, <1>7

LEMMA NextGetsItsCount ==
  ASSUME Inv, [Next]_vars, NEW t \in Thread,
         call[t].op = "dequeue", pc[t] \in {"enter", "wait"}, pc'[t] = "idle",
         queue' # queue, ~ended
  PROVE  /\ Len(queue) >= call[t].n
         /\ queue = SubSeq(queue, 1, call[t].n) \o queue'
<1>1. CASE UNCHANGED vars
  BY <1>1 DEF vars
<1>2. ASSUME NEW u \in Thread, NEW c \in scenario.calls[u], CallMethod(u, c) PROVE FALSE
  BY <1>2 DEF CallMethod
<1>3. ASSUME NEW u \in Thread, Timeout(u) \/ SpuriousWakeup(u) PROVE FALSE
  BY <1>3 DEF Timeout, SpuriousWakeup
<1>4. ASSUME NEW u \in Thread, Step(u) PROVE Dequeue(t)
  <2>1. u = t
    <3>1. \/ Returns(u) \/ CondWaits(u) \/ pc' = [pc EXCEPT ![u] = "test"]
      BY <1>4 DEF Step, EnqueueTest, EnqueueCompare, Dequeue, DequeueNb, DequeueTimed,
         Insert, Extract, SetLimit, End, Push, TakeHead, CutOut, ReturnsAtOnce
    <3>2. u # t => pc'[t] = pc[t]
      BY <3>1 DEF Returns, CondWaits, Inv, TypeOK
    <3>. QED BY <3>2
  <2>. QED BY <1>4, <2>1 DEF Step, EnqueueTest, EnqueueCompare, DequeueNb, DequeueTimed,
         Insert, Extract, SetLimit, End, Running, Entering, Resuming
<1>5. Dequeue(t)
  BY <1>1, <1>2, <1>3, <1>4 DEF Next, vars
<1>. QED BY <1>5, DequeueReturns

\* A blocking dequeue that removes items from a queue that has not ended takes
\* exactly COUNT off its head, however often it was woken and overtaken.
THEOREM DequeueTakesItsCount == Spec => DequeueGetsItsCount
<1>. DEFINE A == \A t \in Thread :
       /\ call[t].op = "dequeue" /\ pc[t] \in {"enter", "wait"}
       /\ pc'[t] = "idle" /\ queue' # queue /\ ~ended
       => /\ Len(queue) >= call[t].n
          /\ queue = SubSeq(queue, 1, call[t].n) \o queue'
<1>1. Inv /\ [Next]_vars => [A]_vars
  BY NextGetsItsCount
<1>2. [][A]_vars => DequeueGetsItsCount
  BY DEF DequeueGetsItsCount
<1>. HIDE DEF A
<1>. QED BY <1>1, <1>2, Invariance, PTL DEF Spec
-----------------------------------------------------------------------------
\* The two parts of a sequence, their lengths and their elements.
LEMMA Lengths ==
  ASSUME NEW S, NEW s \in Seq(S), NEW n \in 0..Len(s)
  PROVE  /\ SubSeq(s, 1, n) \in Seq(S) /\ Len(SubSeq(s, 1, n)) = n
         /\ \A k \in 1..n : SubSeq(s, 1, n)[k] = s[k]
         /\ SubSeq(s, n + 1, Len(s)) \in Seq(S)
         /\ Len(SubSeq(s, n + 1, Len(s))) = Len(s) - n
         /\ \A k \in (n + 1)..Len(s) : SubSeq(s, n + 1, Len(s))[k - n] = s[k]
<1>1. Len(s) \in Nat
  OBVIOUS
<1>2. (\A i \in 1..n : s[i] \in S) /\ \A i \in (n + 1)..Len(s) : s[i] \in S
  BY <1>1
<1>3. /\ SubSeq(s, 1, n) \in Seq(S)
      /\ Len(SubSeq(s, 1, n)) = IF 1 <= n THEN n - 1 + 1 ELSE 0
      /\ \A k \in 1..(n - 1 + 1) : SubSeq(s, 1, n)[k] = s[1 + k - 1]
  BY <1>1, <1>2, SubSeqProperties
<1>. DEFINE c == SubSeq(s, n + 1, Len(s))
<1>4. /\ c \in Seq(S) /\ Len(c) = IF n + 1 <= Len(s) THEN Len(s) - (n + 1) + 1 ELSE 0
      /\ \A k \in 1..(Len(s) - (n + 1) + 1) : c[k] = s[(n + 1) + k - 1]
  BY <1>1, <1>2, SubSeqProperties
<1>. HIDE DEF c
<1>5. ASSUME NEW k \in (n + 1)..Len(s) PROVE c[k - n] = s[k]
  <2>1. k - n \in 1..(Len(s) - (n + 1) + 1) /\ (n + 1) + (k - n) - 1 = k
    BY <1>1
  <2>. QED BY <1>4, <2>1
<1>6. Len(c) = Len(s) - n
  BY <1>1, <1>4
<1>7. (\A k \in 1..n : SubSeq(s, 1, n)[k] = s[k]) /\ Len(SubSeq(s, 1, n)) = n
  BY <1>3
<1>. QED BY <1>3, <1>4, <1>5, <1>6, <1>7 DEF c

\* Taking items off makes the queue no longer.
LEMMA TakingShortens ==
  ASSUME Inv, NEW t \in Thread, NEW i \in Nat, NEW n \in Nat, TakeHead(t, n) \/ CutOut(t, i, n)
  PROVE  Len(queue') <= Len(queue)
<1>1. queue \in Seq(1..MaxItems) /\ Len(queue) \in Nat
  BY DEF Inv, TypeOK
<1>2. CASE TakeHead(t, n)
  <2>. DEFINE k == Smaller(n, Len(queue))
  <2>1. k \in 0..Len(queue)
    BY <1>1 DEF Smaller
  <2>2. queue' = SubSeq(queue, k + 1, Len(queue))
    BY <1>2 DEF TakeHead
  <2>. HIDE DEF k
  <2>. QED BY <1>1, <2>1, <2>2, Lengths
<1>3. CASE CutOut(t, i, n)
  <2>. DEFINE from == Smaller(i, Len(queue))
              to == Smaller(i + n, Len(queue))
              a == SubSeq(queue, 1, from)
              c == SubSeq(queue, to + 1, Len(queue))
  <2>1. from \in 0..Len(queue) /\ to \in from..Len(queue) /\ to \in 0..Len(queue)
    BY <1>1 DEF Smaller
  <2>2. queue' = a \o c
    BY <1>3 DEF CutOut
  <2>. HIDE DEF from, to
  <2>3. a \in Seq(1..MaxItems) /\ Len(a) = from
    BY <1>1, <2>1, Lengths
  <2>4. c \in Seq(1..MaxItems) /\ Len(c) = Len(queue) - to
    BY <1>1, <2>1, Lengths
  <2>. HIDE DEF a, c
  <2>5. Len(queue') = from + (Len(queue) - to)
    BY <2>2, <2>3, <2>4, ConcatProperties
  <2>. QED BY <1>1, <2>1, <2>5
<1>. QED BY <1>2, <1>3

\* An enqueue adds the items of its list.
LEMMA PushLengthens ==
  ASSUME Inv, NEW t \in Thread, call[t].op = "enqueue", Push(t)
  PROVE  Len(queue') = Len(queue) + call[t].n
<1>. DEFINE s == NewItems(t)
<1>1. queue \in Seq(1..MaxItems) /\ s \in Seq(1..MaxItems) /\ call[t].n \in Nat
  BY CallType, NewItemsAre DEF Inv, TypeOK, Adders
<1>2. DOMAIN s = 1..call[t].n
  BY DEF NewItems
<1>3. queue' = queue \o s
  BY DEF Push
<1>. HIDE DEF s
<1>4. Len(s) = call[t].n
  <2>1. DOMAIN s = 1..Len(s) /\ Len(s) \in Nat
    BY <1>1
  <2>2. 1..Len(s) = 1..call[t].n
    BY <1>2, <2>1
  <2>. QED BY <1>1, <2>1, <2>2
<1>. QED BY <1>1, <1>3, <1>4, ConcatProperties

\* Where the limit stays and nobody inserts: a step that makes the queue longer
\* is an enqueue that has found it below the limit.
LEMMA OnlyBelowLimit ==
  ASSUME Inv, NEW t \in Thread, Step(t), limit > 0,
         ~MayCall(t, "limit"), ~MayCall(t, "insert")
  PROVE  /\ limit' = limit
         /\ \/ Len(queue') <= Len(queue)
            \/ /\ Len(queue) < limit /\ call[t].op = "enqueue" /\ call[t] \in scenario.calls[t]
               /\ Len(queue') = Len(queue) + call[t].n
<1>1. /\ call[t] \in scenario.calls[t] /\ call[t].n \in Nat /\ call[t].at \in Int
      /\ queue \in Seq(1..MaxItems) /\ Len(queue) \in Nat /\ limit \in Nat
  BY Active DEF Inv, TypeOK
<1>2. call[t].op \notin {"limit", "insert"}
  BY <1>1 DEF MayCall
<1>3. limit' = limit
  BY <1>2 DEF Step, EnqueueTest, EnqueueCompare, Dequeue, DequeueNb, DequeueTimed, Insert,
       Extract, SetLimit, End, Push, TakeHead, CutOut, ReturnsAtOnce, CondWaits, Entering
<1>4. CASE queue' = queue
  BY <1>1, <1>3, <1>4
<1>5. CASE EnqueueTest(t) \/ EnqueueCompare(t)
  <2>1. queue' = queue \/ (Len(queue) < limit /\ Push(t))
    BY <1>1, <1>5 DEF EnqueueTest, EnqueueCompare, ReturnsAtOnce, CondWaits
  <2>2. call[t].op = "enqueue"
    BY <1>5 DEF EnqueueTest, EnqueueCompare, Running, Entering, Resuming, Inv, CallsOK
  <2>. QED BY <1>1, <1>3, <1>4, <2>1, <2>2, PushLengthens
<1>6. CASE TakeHead(t, call[t].n)
  BY <1>1, <1>3, <1>6, TakingShortens
<1>7. CASE Extract(t)
  <2>. DEFINE i == IF call[t].at < 0 THEN call[t].at + Len(queue) ELSE call[t].at
              n == call[t].n
  <2>1. \/ queue' = queue
        \/ i < 0 /\ n + i > 0 /\ TakeHead(t, n + i)
        \/ i >= 0 /\ CutOut(t, i, n)
    BY <1>7 DEF Extract, ReturnsAtOnce
  <2>2. i \in Int /\ n \in Nat
    BY <1>1
  <2>. HIDE DEF i, n
  <2>3. (i < 0 /\ n + i > 0 => n + i \in Nat) /\ (i >= 0 => i \in Nat) /\ 0 \in Nat
    BY <2>2
  <2>. QED BY <1>3, <1>4, <2>1, <2>2, <2>3, TakingShortens
<1>8. CASE End(t) \/ SetLimit(t) \/ Insert(t)
  BY <1>2, <1>4, <1>8 DEF End, SetLimit, Insert, Entering
<1>. QED BY <1>4, <1>5, <1>6, <1>7, <1>8
       DEF Step, Dequeue, DequeueNb, DequeueTimed, ReturnsAtOnce, CondWaits

LEMMA LimitHoldsStays == ASSUME Inv, Inv', LimitHolds, [Next]_vars PROVE LimitHolds'
<1>1. scenario' = scenario
  BY ScenarioStays
<1>. SUFFICES ASSUME limit' > 0, queue' # <<>>,
                     \A t \in Thread : ~MayCall(t, "limit") /\ ~MayCall(t, "insert")
              PROVE  \E t \in Thread : \E c \in scenario.calls[t] :
                       c.op = "enqueue" /\ Len(queue') < limit' + c.n
  BY <1>1 DEF LimitHolds, MayCall
<1>2. /\ queue \in Seq(1..MaxItems) /\ Len(queue) \in Nat /\ limit \in Nat
      /\ queue' \in Seq(1..MaxItems) /\ Len(queue') \in Nat
      /\ \A t \in Thread : \A c \in scenario.calls[t] : c.n \in Nat
  BY QueueAssumption DEF Inv, TypeOK, Call
<1>3. limit' = limit
  BY <1>1 DEF Inv, LimitOK, MayCall
<1>4. CASE Len(queue') <= Len(queue)
  <2>1. queue # <<>>
    BY <1>2, <1>4, EmptySeq
  <2>2. PICK t \in Thread : \E c \in scenario.calls[t] :
          c.op = "enqueue" /\ Len(queue) < limit + c.n
    BY <1>3, <2>1 DEF LimitHolds
  <2>3. PICK c \in scenario.calls[t] : c.op = "enqueue" /\ Len(queue) < limit + c.n
    BY <2>2
  <2>4. Len(queue') < limit' + c.n
    BY <1>2, <1>3, <1>4, <2>3
  <2>. QED BY <2>3, <2>4
<1>5. ASSUME NEW t \in Thread, Step(t), ~(Len(queue') <= Len(queue))
      PROVE  call[t] \in scenario.calls[t] /\ call[t].op = "enqueue"
             /\ Len(queue') < limit' + call[t].n
  BY <1>2, <1>3, <1>5, OnlyBelowLimit
<1>6. CASE queue' = queue
  BY <1>2, <1>4, <1>6
<1>. QED BY <1>4, <1>5, <1>6 DEF Next, CallMethod, Timeout, SpuriousWakeup, vars

\* A limit that nobody changes is exceeded by the batch of one enqueue at most,
\* however many enqueuers wait at it.
THEOREM LimitIsKept == Spec => []LimitHolds
<1>1. Init => LimitHolds
  BY DEF Init, LimitHolds
<1>2. Inv /\ Inv' /\ LimitHolds /\ [Next]_vars => LimitHolds'
  BY LimitHoldsStays
<1>. QED BY <1>1, <1>2, Invariance, PTL DEF Spec
-----------------------------------------------------------------------------
\* The items at the positions j of the queue that a step takes off.
Cut(i, n) == {queue[k] : k \in {j \in 1..Len(queue) : i < j /\ j <= i + n}}

\* Nothing that is on the queue has been removed.
LEMMA NewlyRemoved ==
  ASSUME Inv, NEW m \in 1..(Len(queue) + 1), NEW n \in 0..Len(queue),
         removed' = removed \cup Items(SubSeq(queue, m, n))
  PROVE  removed' \ removed = {queue[k] : k \in m..n}
<1>1. queue \in Seq(1..MaxItems)
  BY DEF Inv, TypeOK
<1>2. Items(SubSeq(queue, m, n)) = {queue[k] : k \in m..n}
  BY <1>1, PartItems
<1>3. m..n \subseteq DOMAIN queue
  BY <1>1
<1>4. {queue[k] : k \in m..n} \cap removed = {}
  BY <1>3 DEF Inv, Stored, Items
<1>. QED BY <1>2, <1>4

LEMMA TakeHeadCuts ==
  ASSUME Inv, NEW t \in Thread, NEW n \in Nat, NEW i \in Int, i <= 0, i + n >= 0,
         TakeHead(t, i + n)
  PROVE  removed' \ removed = Cut(i, n)
<1>1. queue \in Seq(1..MaxItems) /\ Len(queue) \in Nat
  BY DEF Inv, TypeOK
<1>. DEFINE k == Smaller(i + n, Len(queue))
<1>2. /\ k \in 0..Len(queue)
      /\ 1..k = {j \in 1..Len(queue) : i < j /\ j <= i + n}
  BY <1>1 DEF Smaller
<1>3. removed' = removed \cup Items(SubSeq(queue, 1, k))
  BY DEF TakeHead
<1>. HIDE DEF k
<1>4. 1 \in 1..(Len(queue) + 1)
  BY <1>1
<1>. QED BY <1>2, <1>3, <1>4, NewlyRemoved DEF Cut

LEMMA CutOutCuts ==
  ASSUME Inv, NEW t \in Thread, NEW n \in Nat, NEW i \in Nat, CutOut(t, i, n)
  PROVE  removed' \ removed = Cut(i, n)
<1>1. queue \in Seq(1..MaxItems) /\ Len(queue) \in Nat
  BY DEF Inv, TypeOK
<1>. DEFINE from == Smaller(i, Len(queue))
            to == Smaller(i + n, Len(queue))
<1>2. /\ from + 1 \in 1..(Len(queue) + 1) /\ to \in 0..Len(queue)
      /\ (from + 1)..to = {j \in 1..Len(queue) : i < j /\ j <= i + n}
  BY <1>1 DEF Smaller
<1>3. removed' = removed \cup Items(SubSeq(queue, from + 1, to))
  BY DEF CutOut
<1>. HIDE DEF from, to
<1>. QED BY <1>2, <1>3, NewlyRemoved DEF Cut

\* What extract takes: the items that its index and count cover.
LEMMA ExtractCuts ==
  ASSUME Inv, NEW t \in Thread, Extract(t), ~BadCount(t)
  PROVE  LET at == call[t].at
             i  == IF at < 0 THEN at + Len(queue) ELSE at
         IN  removed' \ removed = Cut(i, call[t].n)
<1>1. call[t].at \in Int /\ call[t].n \in Nat /\ Len(queue) \in Nat
  BY CallType DEF Inv, TypeOK
<1>. DEFINE i == IF call[t].at < 0 THEN call[t].at + Len(queue) ELSE call[t].at
            n == call[t].n
<1>2. \/ (i < 0 /\ n + i <= 0) /\ ReturnsAtOnce(t)
      \/ i < 0 /\ n + i > 0 /\ TakeHead(t, n + i)
      \/ i >= 0 /\ CutOut(t, i, n)
  BY DEF Extract
<1>3. i \in Int /\ n \in Nat
  BY <1>1
<1>4. removed' \ removed = Cut(i, n)
  <2>. HIDE DEF i, n
  <2>1. CASE (i < 0 /\ n + i <= 0) /\ ReturnsAtOnce(t)
    <3>1. {j \in 1..Len(queue) : i < j /\ j <= i + n} = {}
      BY <1>1, <1>3, <2>1
    <3>. QED BY <2>1, <3>1 DEF Cut, ReturnsAtOnce
  <2>2. CASE i < 0 /\ n + i > 0 /\ TakeHead(t, n + i)
    <3>1. n + i = i + n /\ i <= 0 /\ i + n >= 0
      BY <1>3, <2>2
    <3>. QED BY <1>3, <2>2, <3>1, TakeHeadCuts
  <2>3. CASE i >= 0 /\ CutOut(t, i, n)
    <3>1. i \in Nat
      BY <1>3, <2>3
    <3>. QED BY <1>3, <2>3, <3>1, CutOutCuts
  <2>. QED BY <1>2, <2>1, <2>2, <2>3
<1>. QED BY <1>4

\* Where insert puts its items, and where the others stay or move to.
InsertsAt(i, n) ==
  \E p \in 0..Len(queue) :
    /\ \A q \in 0..Len(queue) : Larger(p - i, i - p) <= Larger(q - i, i - q)
    /\ \A k \in 1..Len(queue) : queue'[IF k <= p THEN k ELSE k + n] = queue[k]

LEMMA InsertPlaces ==
  ASSUME Inv, NEW t \in Thread, Insert(t), queue' # queue
  PROVE  LET at == call[t].at
             i  == IF at < 0 THEN at + Len(queue) ELSE at
         IN  InsertsAt(i, call[t].n)
<1>1. /\ queue \in Seq(1..MaxItems) /\ Len(queue) \in Nat
      /\ call[t].at \in Int /\ call[t].n \in Nat
  BY CallType DEF Inv, TypeOK
<1>. DEFINE at == call[t].at
            n == call[t].n
            i == IF at < 0 THEN at + Len(queue) ELSE at
            p == IF at < 0 THEN Larger(at + Len(queue), 0) ELSE Smaller(at, Len(queue))
            a == SubSeq(queue, 1, p)
            b == NewItems(t)
            c == SubSeq(queue, p + 1, Len(queue))
<1>2. queue' = a \o b \o c
  BY DEF Insert, ReturnsAtOnce
<1>3. i \in Int /\ p \in 0..Len(queue) /\ p \in Nat
  BY <1>1 DEF Larger, Smaller
<1>9. \A q \in 0..Len(queue) : Larger(p - i, i - p) <= Larger(q - i, i - q)
  BY <1>1 DEF Larger, Smaller
<1>. HIDE DEF i, p
<1>4. /\ a \in Seq(1..MaxItems) /\ Len(a) = p /\ (\A k \in 1..p : a[k] = queue[k])
      /\ c \in Seq(1..MaxItems) /\ Len(c) = Len(queue) - p
      /\ \A k \in (p + 1)..Len(queue) : c[k - p] = queue[k]
  BY <1>1, <1>3, Lengths
<1>5. b \in Seq(1..MaxItems) /\ Len(b) = n
  <2>1. b \in Seq(1..MaxItems) /\ DOMAIN b = 1..n
    BY NewItemsAre DEF Insert, Entering, Adders, NewItems
  <2>. HIDE DEF b
  <2>2. 1..Len(b) = 1..n /\ Len(b) \in Nat
    BY <2>1
  <2>. QED BY <1>1, <2>1, <2>2
<1>. HIDE DEF a, b, c, n
<1>6. /\ a \o b \in Seq(1..MaxItems) /\ Len(a \o b) = p + n
      /\ \A k \in 1..p : (a \o b)[k] = a[k]
  <2>1. /\ a \o b \in Seq(1..MaxItems) /\ Len(a \o b) = Len(a) + Len(b)
        /\ \A k \in 1..(Len(a) + Len(b)) : k <= Len(a) => (a \o b)[k] = a[k]
    BY <1>4, <1>5, ConcatProperties
  <2>2. n \in Nat /\ p \in Nat
    BY <1>1, <1>3 DEF n
  <2>. QED BY <1>4, <1>5, <2>1, <2>2
<1>7. ASSUME NEW k \in 1..Len(queue)
      PROVE  queue'[IF k <= p THEN k ELSE k + n] = queue[k]
  <2>1. \A j \in 1..(Len(a \o b) + Len(c)) :
          queue'[j] = IF j <= Len(a \o b) THEN (a \o b)[j] ELSE c[j - Len(a \o b)]
    BY <1>2, <1>4, <1>6, ConcatProperties
  <2>2. n \in Nat /\ p \in Nat /\ p <= Len(queue) /\ Len(queue) \in Nat
    BY <1>1, <1>3 DEF n
  <2>3. \A j \in 1..(Len(queue) + n) :
          queue'[j] = IF j <= p + n THEN (a \o b)[j] ELSE c[j - (p + n)]
    BY <1>4, <1>6, <2>1, <2>2
  <2>4. CASE k <= p
    <3>1. k \in 1..(Len(queue) + n) /\ k <= p + n /\ k \in 1..p
      BY <2>2, <2>4
    <3>. QED BY <1>4, <1>6, <2>3, <2>4, <3>1
  <2>5. CASE ~(k <= p)
    <3>1. /\ k + n \in 1..(Len(queue) + n) /\ ~(k + n <= p + n)
          /\ (k + n) - (p + n) = k - p /\ k \in (p + 1)..Len(queue)
      BY <2>2, <2>5
    <3>. QED BY <1>4, <2>3, <2>5, <3>1
  <2>. QED BY <2>4, <2>5
<1>8. InsertsAt(i, n)
  BY <1>3, <1>7, <1>9 DEF InsertsAt
<1>. QED BY <1>8 DEF i, n

\* A method returns by a step of its own thread.
LEMMA ReturnsItself ==
  ASSUME Inv, [Next]_vars, NEW t \in Thread, pc[t] = "enter", pc'[t] = "idle"
  PROVE  Step(t)
<1>1. CASE UNCHANGED vars
  BY <1>1 DEF vars
<1>2. ASSUME NEW u \in Thread, NEW c \in scenario.calls[u], CallMethod(u, c) PROVE FALSE
  BY <1>2 DEF CallMethod, Inv, TypeOK
<1>3. ASSUME NEW u \in Thread, Timeout(u) \/ SpuriousWakeup(u) PROVE FALSE
  BY <1>3 DEF Timeout, SpuriousWakeup, Inv, TypeOK
<1>4. ASSUME NEW u \in Thread, Step(u) PROVE u = t
  <2>1. \/ Returns(u) \/ CondWaits(u) \/ pc' = [pc EXCEPT ![u] = "test"]
    BY <1>4 DEF Step, EnqueueTest, EnqueueCompare, Dequeue, DequeueNb, DequeueTimed,
       Insert, Extract, SetLimit, End, Push, TakeHead, CutOut, ReturnsAtOnce
  <2>2. u # t => pc'[t] = pc[t]
    BY <2>1 DEF Returns, CondWaits, Inv, TypeOK
  <2>. QED BY <2>2
<1>. QED BY <1>1, <1>2, <1>3, <1>4 DEF Next

LEMMA NextKeepsPositions ==
  ASSUME Inv, [Next]_vars, NEW t \in Thread, pc[t] = "enter", pc'[t] = "idle"
  PROVE  LET at == call[t].at
             i  == IF at < 0 THEN at + Len(queue) ELSE at
         IN  /\ call[t].op = "insert" /\ queue' # queue => InsertsAt(i, call[t].n)
             /\ call[t].op = "extract" /\ ~BadCount(t) =>
                  removed' \ removed = Cut(i, call[t].n)
<1>1. Step(t)
  BY ReturnsItself
<1>2. call[t].op = "insert" => Insert(t)
  BY <1>1 DEF Step, EnqueueTest, EnqueueCompare, Dequeue, DequeueNb, DequeueTimed, Extract,
       SetLimit, End, Running, Entering, Resuming
<1>3. call[t].op = "extract" => Extract(t)
  BY <1>1 DEF Step, EnqueueTest, EnqueueCompare, Dequeue, DequeueNb, DequeueTimed, Insert,
       SetLimit, End, Running, Entering, Resuming
<1>. QED BY <1>2, <1>3, InsertPlaces, ExtractCuts

\* insert puts its items side by side before the item at its index, and extract
\* takes the items that its index and count cover, for every index, count and
\* queue.
THEOREM IndexesArePositions == Spec => IndexesMeanPositions
<1>. DEFINE A == \A t \in Thread :
       LET at == call[t].at
           n  == call[t].n
           i  == IF at < 0 THEN at + Len(queue) ELSE at
       IN  pc[t] = "enter" /\ pc'[t] = "idle" =>
             /\ call[t].op = "insert" /\ queue' # queue =>
                  \E p \in 0..Len(queue) :
                    /\ \A q \in 0..Len(queue) :
                         Larger(p - i, i - p) <= Larger(q - i, i - q)
                    /\ \A k \in 1..Len(queue) :
                         queue'[IF k <= p THEN k ELSE k + n] = queue[k]
             /\ call[t].op = "extract" /\ ~BadCount(t) =>
                  removed' \ removed =
                    {queue[k] : k \in {j \in 1..Len(queue) :
                                        i < j /\ j <= i + n}}
<1>1. Inv /\ [Next]_vars => [A]_vars
  BY NextKeepsPositions, Zenon DEF InsertsAt, Cut
<1>2. [][A]_vars => IndexesMeanPositions
  BY DEF IndexesMeanPositions
<1>. HIDE DEF A
<1>. QED BY <1>1, <1>2, Invariance, PTL DEF Spec
=============================================================================
