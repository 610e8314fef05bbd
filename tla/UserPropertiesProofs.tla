------------------------ MODULE UserPropertiesProofs ------------------------
(***************************************************************************)
(* Proofs about UserProperties, for any threads, properties and programs   *)
(* in which no property is deferred to the time of the match (NoDeferral): *)
(* a deferred one leaves its place in the table empty, and the second      *)
(* S_delete_recursion_entry may then meet somebody else's placeholder.     *)
(* Otherwise that second run always finds a permanent entry (FrameOK), so  *)
(* only the thread that put a placeholder takes it away.                   *)
(***************************************************************************)
EXTENDS UserProperties, SequenceTheorems, TLAPS

NoDeferral == \A p \in Program : TRUE \notin p.defers

FrameType ==
  [prop : Property, at : Places, tries : 0..Retries, todo : Seq(Property),
   result : {"list", "error"}]

Busy == {"call", "expand", "store"}

\* All that the definition of k names has a list in the table e.
UsesListed(p, k, e) == \A i \in DOMAIN p.uses[k] : e[p.uses[k][i]] = "list"

\* One call of parse_uniprop_string in thread t, program p and table e.
FrameOK(p, t, f, e) ==
  /\ f \in FrameType
  /\ f.at \in Busy => e[f.prop] = t
  /\ f.at = "leave" => e[f.prop] = f.result
  /\ f.at = "expand" =>
       \A i \in DOMAIN p.uses[f.prop] :
         \/ e[p.uses[f.prop][i]] = "list"
         \/ \E j \in DOMAIN f.todo : f.todo[j] = p.uses[f.prop][i]
  /\ f.at = "store" /\ f.result = "list" /\ p.subs[f.prop] = {"lines"} =>
       UsesListed(p, f.prop, e)

\* All nested calls of one thread.
CallsOK(p, t, fs, e) ==
  /\ fs \in Seq(FrameType)
  /\ \A i \in 1..Len(fs) : FrameOK(p, t, fs[i], e)
  /\ \A i \in 2..Len(fs) :
       fs[i].at = "expand" /\ fs[i].todo # <<>> /\ Head(fs[i].todo) = fs[i-1].prop
  /\ \A i, j \in 1..Len(fs) :
       fs[i].at \in Busy /\ fs[j].at \in Busy /\ fs[i].prop = fs[j].prop => i = j

\* Each placeholder of t in the table e has its call among fs.
PlaceholdersUsed(t, fs, e) ==
  \A k \in Property : e[k] = t =>
    \E i \in 1..Len(fs) : fs[i].prop = k /\ fs[i].at \in Busy

IInv ==
  /\ program \in Program
  /\ entry \in [Property -> {"none", "list", "error"} \cup Compiler]
  /\ frames \in [Compiler -> Seq(FrameType)]
  /\ deferrable = [t \in Compiler |-> FALSE]
  /\ \A t \in Compiler :
       CallsOK(program, t, frames[t], entry) /\ PlaceholdersUsed(t, frames[t], entry)
  /\ CirclesFail
-----------------------------------------------------------------------------
LEMMA HeadReplaced ==
  ASSUME NEW S, NEW s \in Seq(S), s # <<>>, NEW f \in S
  PROVE  /\ <<f>> \o Tail(s) \in Seq(S) /\ Len(<<f>> \o Tail(s)) = Len(s) /\ Len(s) \in Nat \ {0}
         /\ (<<f>> \o Tail(s))[1] = f
         /\ \A i \in 2..Len(s) : (<<f>> \o Tail(s))[i] = s[i]
<1>1. Tail(s) \in Seq(S) /\ Len(Tail(s)) = Len(s) - 1 /\ Len(s) \in Nat \ {0}
  OBVIOUS
<1>2. \A i \in 1..(Len(s) - 1) : Tail(s)[i] = s[i + 1]
  OBVIOUS
<1>. QED BY <1>1, <1>2

LEMMA Pushed ==
  ASSUME NEW S, NEW s \in Seq(S), NEW f \in S
  PROVE  /\ <<f>> \o s \in Seq(S) /\ Len(<<f>> \o s) = Len(s) + 1 /\ Len(s) \in Nat
         /\ (<<f>> \o s)[1] = f
         /\ \A i \in 2..(Len(s) + 1) : (<<f>> \o s)[i] = s[i - 1]
  OBVIOUS

LEMMA Popped ==
  ASSUME NEW S, NEW s \in Seq(S), s # <<>>
  PROVE  /\ Tail(s) \in Seq(S) /\ Len(Tail(s)) = Len(s) - 1 /\ Len(s) \in Nat \ {0}
         /\ \A i \in 1..(Len(s) - 1) : Tail(s)[i] = s[i + 1]
         /\ Head(s) = s[1] /\ Head(s) \in S
  OBVIOUS

LEMMA StillThere ==
  ASSUME NEW S, NEW s \in Seq(S), s # <<>>, NEW x, x # Head(s), \E j \in DOMAIN s : s[j] = x
  PROVE  \E j \in DOMAIN Tail(s) : Tail(s)[j] = x
<1>1. /\ Len(s) \in Nat \ {0} /\ DOMAIN s = 1..Len(s) /\ Head(s) = s[1]
      /\ DOMAIN Tail(s) = 1..(Len(s) - 1)
      /\ \A i \in 1..(Len(s) - 1) : Tail(s)[i] = s[i + 1]
  OBVIOUS
<1>2. PICK j \in 1..Len(s) : s[j] = x
  BY <1>1
<1>3. j - 1 \in 1..(Len(s) - 1) /\ (j - 1) + 1 = j
  BY <1>1, <1>2
<1>. QED BY <1>1, <1>2, <1>3

LEMMA LineDone ==
  ASSUME NEW f \in FrameType, f.todo # <<>>
  PROVE  /\ [f EXCEPT !.todo = Tail(@)] \in FrameType
         /\ [f EXCEPT !.todo = Tail(@)].prop = f.prop
         /\ [f EXCEPT !.todo = Tail(@)].at = f.at
         /\ [f EXCEPT !.todo = Tail(@)].todo = Tail(f.todo)
<1>. DEFINE rest == Tail(f.todo)
            g == [f EXCEPT !.todo = rest]
<1>1. f.todo \in Seq(Property)
  BY DEF FrameType
<1>2. rest \in Seq(Property)
  BY <1>1, Popped
<1>3. g \in FrameType /\ g.prop = f.prop /\ g.at = f.at /\ g.todo = rest
  <2>. HIDE DEF rest
  <2>. QED BY <1>2 DEF FrameType
<1>. QED BY <1>3

LEMMA FrameIsTyped == ASSUME NEW k \in Property PROVE Frame(k) \in FrameType
  BY UserPropAssumption DEF Frame, FrameType, Places
-----------------------------------------------------------------------------
\* How thread t may change the table: it puts its own placeholder where there
\* is nothing, and a permanent entry in place of its own placeholder.
TableStep(t) ==
  \A k \in Property :
    \/ entry'[k] = entry[k]
    \/ entry[k] = "none" /\ entry'[k] = t
    \/ entry[k] = t /\ entry'[k] \in {"list", "error"}

LEMMA NotThreads ==
  ASSUME NEW t \in Compiler PROVE t \notin {"none", "list", "error"}
  BY UserPropAssumption

\* Such a change concerns no other thread.
LEMMA OthersKeep ==
  ASSUME IInv, NEW t \in Compiler, NEW u \in Compiler, u # t, TableStep(t)
  PROVE  CallsOK(program, u, frames[u], entry') /\ PlaceholdersUsed(u, frames[u], entry')
<1>. DEFINE fs == frames[u]
<1>1. CallsOK(program, u, fs, entry) /\ PlaceholdersUsed(u, fs, entry)
  BY DEF IInv
<1>2. \A k \in Property : /\ entry'[k] = u <=> entry[k] = u
                          /\ entry[k] \in {"list", "error"} => entry'[k] = entry[k]
  BY NotThreads DEF TableStep
<1>3. program.uses \in [Property -> Seq(Property)]
  BY UserPropAssumption DEF IInv
<1>4. \A k \in Property : \A i \in DOMAIN program.uses[k] : program.uses[k][i] \in Property
  BY <1>3
<1>5. \A i \in 1..Len(fs) : FrameOK(program, u, fs[i], entry')
  <2> SUFFICES ASSUME NEW i \in 1..Len(fs) PROVE FrameOK(program, u, fs[i], entry')
    OBVIOUS
  <2>1. FrameOK(program, u, fs[i], entry) /\ fs[i].prop \in Property /\ fs[i].result \in {"list", "error"}
    BY <1>1 DEF CallsOK, FrameOK, FrameType
  <2>. QED BY <1>2, <1>4, <2>1 DEF FrameOK, UsesListed
<1>6. CallsOK(program, u, fs, entry')
  BY <1>1, <1>5 DEF CallsOK
<1>. QED BY <1>1, <1>2, <1>6 DEF PlaceholdersUsed

\* A step of t, and what of it is left to show: the calls of t and the circles.
LEMMA StepOfOne ==
  ASSUME IInv, NEW t \in Compiler, NEW fs, frames' = [frames EXCEPT ![t] = fs],
         UNCHANGED <<program, deferrable>>, TableStep(t),
         entry' \in [Property -> {"none", "list", "error"} \cup Compiler],
         CallsOK(program, t, fs, entry'), PlaceholdersUsed(t, fs, entry'), CirclesFail'
  PROVE  IInv'
<1>1. fs \in Seq(FrameType)
  BY DEF CallsOK
<1>2. \A u \in Compiler : frames'[u] = IF u = t THEN fs ELSE frames[u]
  BY DEF IInv
<1>3. \A u \in Compiler :
        CallsOK(program', u, frames'[u], entry') /\ PlaceholdersUsed(u, frames'[u], entry')
  BY <1>2, OthersKeep
<1>. QED BY <1>1, <1>3 DEF IInv

\* The same when the table stays.
LEMMA StepWithoutTable ==
  ASSUME IInv, NEW t \in Compiler, NEW fs, frames' = [frames EXCEPT ![t] = fs],
         UNCHANGED <<program, entry, deferrable>>,
         CallsOK(program, t, fs, entry), PlaceholdersUsed(t, fs, entry)
  PROVE  IInv'
<1>1. TableStep(t) /\ CirclesFail' /\ entry' \in [Property -> {"none", "list", "error"} \cup Compiler]
  BY DEF IInv, TableStep, CirclesFail
<1>. QED BY <1>1, StepOfOne

\* The innermost call goes on, and stays in the same place of the table.
LEMMA HeadMoves ==
  ASSUME NEW p, NEW t, NEW e, NEW fs, CallsOK(p, t, fs, e), fs # <<>>,
         NEW f, FrameOK(p, t, f, e), f.prop = Head(fs).prop,
         f.at \in Busy => Head(fs).at \in Busy
  PROVE  CallsOK(p, t, <<f>> \o Tail(fs), e)
<1>. DEFINE gs == <<f>> \o Tail(fs)
<1>1. /\ gs \in Seq(FrameType) /\ Len(gs) = Len(fs) /\ Len(fs) \in Nat \ {0}
      /\ gs[1] = f /\ \A i \in 2..Len(fs) : gs[i] = fs[i]
  BY HeadReplaced DEF CallsOK, FrameOK
<1>2. Head(fs) = fs[1]
  BY DEF CallsOK
<1>3. \A i \in 1..Len(fs) : /\ i = 1 \/ i \in 2..Len(fs)
                            /\ gs[i].prop = fs[i].prop
                            /\ gs[i].at \in Busy => fs[i].at \in Busy
  BY <1>1, <1>2
<1>4. \A i \in 2..Len(fs) : i - 1 \in 1..Len(fs) /\ i \in 1..Len(fs)
  BY <1>1
<1>. QED BY <1>1, <1>3, <1>4 DEF CallsOK

LEMMA HeadMovesUsed ==
  ASSUME NEW p, NEW t, NEW e, NEW fs \in Seq(FrameType), PlaceholdersUsed(t, fs, e), fs # <<>>,
         NEW f \in FrameType, f.prop = Head(fs).prop, Head(fs).at \in Busy => f.at \in Busy
  PROVE  PlaceholdersUsed(t, <<f>> \o Tail(fs), e)
<1>. DEFINE gs == <<f>> \o Tail(fs)
<1>1. /\ Len(gs) = Len(fs) /\ Len(fs) \in Nat \ {0}
      /\ gs[1] = f /\ \A i \in 2..Len(fs) : gs[i] = fs[i]
  BY HeadReplaced
<1>2. Head(fs) = fs[1]
  OBVIOUS
<1>3. \A i \in 1..Len(fs) : /\ gs[i].prop = fs[i].prop
                            /\ fs[i].at \in Busy => gs[i].at \in Busy
  BY <1>1, <1>2
<1>. QED BY <1>1, <1>3 DEF PlaceholdersUsed
-----------------------------------------------------------------------------
\* What a thread with calls under way can use.
LEMMA Innermost ==
  ASSUME IInv, NEW t \in Compiler, frames[t] # <<>>
  PROVE  /\ frames[t] \in Seq(FrameType) /\ Len(frames[t]) \in Nat \ {0}
         /\ Head(frames[t]) = frames[t][1] /\ 1 \in 1..Len(frames[t])
         /\ FrameOK(program, t, Head(frames[t]), entry)
         /\ Head(frames[t]) \in FrameType
         /\ CallsOK(program, t, frames[t], entry) /\ PlaceholdersUsed(t, frames[t], entry)
<1>1. frames[t] \in Seq(FrameType) /\ CallsOK(program, t, frames[t], entry)
        /\ PlaceholdersUsed(t, frames[t], entry)
  BY DEF IInv
<1>2. Len(frames[t]) \in Nat \ {0} /\ Head(frames[t]) = frames[t][1] /\ 1 \in 1..Len(frames[t])
  BY <1>1
<1>3. FrameOK(program, t, frames[t][1], entry)
  BY <1>1, <1>2 DEF CallsOK
<1>4. FrameOK(program, t, Head(frames[t]), entry)
  BY <1>2, <1>3
<1>5. Head(frames[t]) \in FrameType
  BY <1>4 DEF FrameOK
<1>. QED BY <1>1, <1>2, <1>4, <1>5

LEMMA ProgramTyped ==
  ASSUME IInv, NEW k \in Property
  PROVE  program.uses[k] \in Seq(Property) /\ program.subs[k] \subseteq SubKinds
  BY UserPropAssumption DEF IInv

\* parse_uniprop_string returns from the innermost call, which holds no
\* placeholder: with a list only if there is one in the table.
LEMMA ReturnKeeps ==
  ASSUME IInv, NEW t \in Compiler, frames[t] # <<>>, Head(frames[t]).at \notin Busy,
         NEW r \in {"list", "error"}, r = "list" => entry[Head(frames[t]).prop] = "list",
         Return(t, r), UNCHANGED <<program, entry, deferrable>>
  PROVE  IInv'
<1>. DEFINE fs == frames[t]
            outer == Tail(fs)
            f == Head(outer)
            n == Len(fs)
<1>1. /\ fs \in Seq(FrameType) /\ n \in Nat \ {0} /\ Head(fs) = fs[1]
      /\ CallsOK(program, t, fs, entry) /\ PlaceholdersUsed(t, fs, entry)
  BY Innermost
<1>2. outer \in Seq(FrameType) /\ Len(outer) = n - 1 /\ \A i \in 1..(n - 1) : outer[i] = fs[i + 1]
  BY <1>1, Popped
<1>3. \A i \in 1..(n - 1) : i + 1 \in 1..n /\ i + 1 \in 2..n
  BY <1>1
<1>4. CallsOK(program, t, outer, entry)
  <2>1. \A i \in 1..Len(outer) : FrameOK(program, t, outer[i], entry)
    BY <1>1, <1>2, <1>3 DEF CallsOK
  <2>2. \A i \in 2..Len(outer) :
          outer[i].at = "expand" /\ outer[i].todo # <<>> /\ Head(outer[i].todo) = outer[i-1].prop
    <3> SUFFICES ASSUME NEW i \in 2..Len(outer)
                 PROVE  outer[i].at = "expand" /\ outer[i].todo # <<>> /\ Head(outer[i].todo) = outer[i-1].prop
      OBVIOUS
    <3>1. i \in 1..(n - 1) /\ i - 1 \in 1..(n - 1) /\ (i - 1) + 1 = i /\ i + 1 \in 2..n /\ (i + 1) - 1 = i
      BY <1>1, <1>2
    <3>2. outer[i] = fs[i + 1] /\ outer[i - 1] = fs[i]
      BY <1>2, <3>1
    <3>. QED BY <1>1, <3>1, <3>2 DEF CallsOK
  <2>3. \A i, j \in 1..Len(outer) :
          outer[i].at \in Busy /\ outer[j].at \in Busy /\ outer[i].prop = outer[j].prop => i = j
    <3> SUFFICES ASSUME NEW i \in 1..(n - 1), NEW j \in 1..(n - 1),
                        outer[i].at \in Busy, outer[j].at \in Busy, outer[i].prop = outer[j].prop
                 PROVE  i = j
      BY <1>2
    <3>1. i + 1 = j + 1
      BY <1>1, <1>2, <1>3 DEF CallsOK
    <3>. QED BY <1>1, <3>1
  <2>. QED BY <1>2, <2>1, <2>2, <2>3 DEF CallsOK
<1>5. PlaceholdersUsed(t, outer, entry)
  <2> SUFFICES ASSUME NEW k \in Property, entry[k] = t
               PROVE  \E i \in 1..Len(outer) : outer[i].prop = k /\ outer[i].at \in Busy
    BY DEF PlaceholdersUsed
  <2>1. PICK i \in 1..n : fs[i].prop = k /\ fs[i].at \in Busy
    BY <1>1 DEF PlaceholdersUsed
  <2>2. i # 1
    BY <1>1, <2>1
  <2>3. i - 1 \in 1..(n - 1) /\ (i - 1) + 1 = i
    BY <1>1, <2>2
  <2>. QED BY <1>2, <2>1, <2>3
<1>6. CASE outer = <<>>
  <2>1. frames' = [frames EXCEPT ![t] = outer]
    BY <1>6 DEF Return
  <2>. QED BY <1>4, <1>5, <2>1, StepWithoutTable
<1>7. CASE outer # <<>>
  <2>1. /\ n - 1 \in Nat \ {0} /\ 2 \in 2..n /\ f = outer[1] /\ f = fs[2] /\ f \in FrameType
        /\ 2 - 1 = 1
    BY <1>1, <1>2, <1>3, <1>7
  <2>2. f.at = "expand" /\ f.todo # <<>> /\ Head(f.todo) = Head(fs).prop
    BY <1>1, <2>1 DEF CallsOK
  <2>3. FrameOK(program, t, f, entry) /\ f.todo \in Seq(Property)
    BY <1>2, <1>4, <2>1 DEF CallsOK, FrameType
  <2>4. CASE r = "list"
    <3>. DEFINE g == [f EXCEPT !.todo = Tail(@)]
    <3>1. frames' = [frames EXCEPT ![t] = <<g>> \o Tail(outer)]
      BY <1>7, <2>4 DEF Return
    <3>2. /\ g \in FrameType /\ g.prop = f.prop /\ g.at = "expand" /\ g.todo = Tail(f.todo)
      BY <2>1, <2>2, LineDone
    <3>3. \A i \in DOMAIN program.uses[g.prop] :
            \/ entry[program.uses[g.prop][i]] = "list"
            \/ \E j \in DOMAIN g.todo : g.todo[j] = program.uses[g.prop][i]
      <4> SUFFICES ASSUME NEW i \in DOMAIN program.uses[f.prop],
                          entry[program.uses[f.prop][i]] # "list"
                   PROVE  \E j \in DOMAIN Tail(f.todo) : Tail(f.todo)[j] = program.uses[f.prop][i]
        BY <3>2
      <4>1. \E j \in DOMAIN f.todo : f.todo[j] = program.uses[f.prop][i]
        BY <2>2, <2>3 DEF FrameOK
      <4>2. program.uses[f.prop][i] # Head(f.todo)
        BY <2>2, <2>4
      <4>. DEFINE todo == f.todo
                  x == program.uses[f.prop][i]
      <4>3. todo \in Seq(Property) /\ todo # <<>> /\ x # Head(todo) /\ \E j \in DOMAIN todo : todo[j] = x
        BY <2>2, <2>3, <4>1, <4>2
      <4>4. \E j \in DOMAIN Tail(todo) : Tail(todo)[j] = x
        <5>. HIDE DEF todo, x
        <5>. QED BY <4>3, StillThere
      <4>. QED BY <4>4
    <3>4. FrameOK(program, t, g, entry)
      BY <2>2, <2>3, <3>2, <3>3 DEF FrameOK, Busy
    <3>5. CallsOK(program, t, <<g>> \o Tail(outer), entry)
      BY <1>4, <1>7, <2>2, <3>2, <3>4, HeadMoves DEF Busy
    <3>6. PlaceholdersUsed(t, <<g>> \o Tail(outer), entry)
      BY <1>2, <1>5, <1>7, <3>2, HeadMovesUsed DEF Busy
    <3>. QED BY <3>1, <3>5, <3>6, StepWithoutTable
  <2>5. CASE r = "error"
    <3>. DEFINE g == [f EXCEPT !.result = "error", !.at = "store"]
    <3>1. frames' = [frames EXCEPT ![t] = <<g>> \o Tail(outer)]
      BY <1>7, <2>5 DEF Return
    <3>2. /\ g \in FrameType /\ g.prop = f.prop /\ g.at = "store" /\ g.result = "error"
      BY <2>1 DEF FrameType, Places
    <3>3. FrameOK(program, t, g, entry)
      BY <2>2, <2>3, <3>2 DEF FrameOK, Busy
    <3>4. CallsOK(program, t, <<g>> \o Tail(outer), entry)
      BY <1>4, <1>7, <2>2, <3>2, <3>3, HeadMoves DEF Busy
    <3>5. PlaceholdersUsed(t, <<g>> \o Tail(outer), entry)
      BY <1>2, <1>5, <1>7, <3>2, HeadMovesUsed DEF Busy
    <3>. QED BY <3>1, <3>4, <3>5, StepWithoutTable
  <2>. QED BY <2>4, <2>5
<1>. QED BY <1>6, <1>7

\* The innermost call goes on and the table stays.
LEMMA MoveKeeps ==
  ASSUME IInv, NEW t \in Compiler, frames[t] # <<>>, NEW g, Become(t, g),
         UNCHANGED <<program, entry, deferrable>>,
         FrameOK(program, t, g, entry), g.prop = Head(frames[t]).prop,
         g.at \in Busy <=> Head(frames[t]).at \in Busy
  PROVE  IInv'
<1>1. /\ CallsOK(program, t, frames[t], entry) /\ PlaceholdersUsed(t, frames[t], entry)
      /\ frames[t] \in Seq(FrameType) /\ g \in FrameType
  BY Innermost DEF FrameOK
<1>2. CallsOK(program, t, <<g>> \o Tail(frames[t]), entry)
  BY <1>1, HeadMoves
<1>3. PlaceholdersUsed(t, <<g>> \o Tail(frames[t]), entry)
  BY <1>1, HeadMovesUsed
<1>4. frames' = [frames EXCEPT ![t] = <<g>> \o Tail(frames[t])]
  BY DEF Become, IInv
<1>. QED BY <1>2, <1>3, <1>4, StepWithoutTable
-----------------------------------------------------------------------------
LEMMA InitIInv == NoDeferral => (UpInit => IInv)
<1> SUFFICES ASSUME UpInit PROVE IInv
  OBVIOUS
<1>1. \A t \in Compiler : frames[t] = <<>>
  BY DEF UpInit
<1>2. <<>> \in Seq(FrameType) /\ Len(<<>>) = 0 /\ 1..0 = {} /\ 2..0 = {}
  OBVIOUS
<1>3. \A t \in Compiler : CallsOK(program, t, frames[t], entry)
  <2>1. \A t \in Compiler : CallsOK(program, t, <<>>, entry)
    BY <1>2 DEF CallsOK
  <2>. QED BY <1>1, <2>1
<1>4. \A t \in Compiler : PlaceholdersUsed(t, frames[t], entry)
  BY NotThreads DEF PlaceholdersUsed, UpInit
<1>5. CirclesFail
  BY DEF CirclesFail, UpInit
<1>. QED BY <1>2, <1>3, <1>4, <1>5 DEF IInv, UpInit

LEMMA CompileKeeps ==
  ASSUME NoDeferral, IInv, NEW t \in Compiler, NEW k \in Property, NEW d \in BOOLEAN, Compile(t, k, d)
  PROVE  IInv'
<1>1. d = FALSE
  BY DEF NoDeferral, Compile, IInv
<1>2. deferrable' = deferrable
  BY <1>1 DEF Compile, IInv
<1>3. /\ Frame(k) \in FrameType /\ Frame(k).at = "fetch"
  BY FrameIsTyped DEF Frame
<1>4. <<Frame(k)>> \in Seq(FrameType) /\ Len(<<Frame(k)>>) = 1 /\ <<Frame(k)>>[1] = Frame(k)
  BY <1>3
<1>5. CallsOK(program, t, <<Frame(k)>>, entry)
  BY <1>3, <1>4 DEF CallsOK, FrameOK, Busy
<1>6. PlaceholdersUsed(t, <<Frame(k)>>, entry)
  <2>1. \A l \in Property : entry[l] # t
    BY DEF IInv, PlaceholdersUsed, Compile
  <2>. QED BY <2>1 DEF PlaceholdersUsed
<1>. QED BY <1>2, <1>5, <1>6, StepWithoutTable DEF Compile

LEMMA FetchUnstableKeeps ==
  ASSUME IInv, NEW t \in Compiler, FetchUnstable(t) PROVE IInv'
<1>. DEFINE f == Head(frames[t])
<1>1. frames[t] # <<>> /\ f.at = "fetch" /\ UNCHANGED <<program, entry, deferrable>>
  BY DEF FetchUnstable, At
<1>2. FrameOK(program, t, f, entry) /\ f \in FrameType
  BY <1>1, Innermost
<1>3. CASE f.tries > 0
  <2>. DEFINE g == [f EXCEPT !.tries = @ - 1]
  <2>1. Become(t, g)
    BY <1>3 DEF FetchUnstable
  <2>2. g \in FrameType /\ g.at = "fetch" /\ g.prop = f.prop
    BY <1>1, <1>2, <1>3, UserPropAssumption DEF FrameType
  <2>3. FrameOK(program, t, g, entry)
    BY <2>2 DEF FrameOK, Busy
  <2>. QED BY <1>1, <2>1, <2>2, <2>3, MoveKeeps DEF Busy
<1>4. CASE ~(f.tries > 0)
  <2>1. Return(t, "error")
    BY <1>4 DEF FetchUnstable
  <2>. QED BY <1>1, <2>1, ReturnKeeps DEF Busy
<1>. QED BY <1>3, <1>4

LEMMA FetchKnownKeeps ==
  ASSUME IInv, NEW t \in Compiler, FetchKnown(t) PROVE IInv'
<1>. DEFINE f == Head(frames[t])
            e == entry[f.prop]
            r == IF e = t THEN "error" ELSE e
<1>1. /\ frames[t] # <<>> /\ f.at = "fetch" /\ UNCHANGED <<program, entry, deferrable>>
      /\ Permanent(e) \/ e = t
      /\ Return(t, r)
  BY DEF FetchKnown, At
<1>2. r \in {"list", "error"} /\ (r = "list" => e = "list")
  BY <1>1 DEF Permanent
<1>. QED BY <1>1, <1>2, ReturnKeeps DEF Busy

LEMMA FetchNewKeeps ==
  ASSUME IInv, NEW t \in Compiler, FetchNew(t) PROVE IInv'
<1>. DEFINE fs == frames[t]
            f == Head(fs)
            g == [f EXCEPT !.at = "call"]
            gs == <<g>> \o Tail(fs)
<1>1. /\ fs # <<>> /\ f.at = "fetch" /\ entry[f.prop] = "none"
      /\ entry' = [entry EXCEPT ![f.prop] = t] /\ UNCHANGED <<program, deferrable>>
      /\ frames' = [frames EXCEPT ![t] = gs]
  BY DEF FetchNew, At, Become
<1>2. /\ fs \in Seq(FrameType) /\ Len(fs) \in Nat \ {0} /\ f = fs[1] /\ f \in FrameType
      /\ CallsOK(program, t, fs, entry) /\ PlaceholdersUsed(t, fs, entry)
  BY <1>1, Innermost
<1>3. g \in FrameType /\ g.at = "call" /\ g.prop = f.prop /\ f.prop \in Property
  BY <1>2 DEF FrameType, Places
<1>4. \A k \in Property : entry'[k] = IF k = f.prop THEN t ELSE entry[k]
  BY <1>1 DEF IInv
<1>5. TableStep(t) /\ entry' \in [Property -> {"none", "list", "error"} \cup Compiler]
  BY <1>1, <1>4 DEF IInv, TableStep
<1>6. CirclesFail'
  BY <1>1, <1>4, NotThreads DEF IInv, CirclesFail
<1>7. /\ gs \in Seq(FrameType) /\ Len(gs) = Len(fs)
      /\ gs[1] = g /\ \A i \in 2..Len(fs) : gs[i] = fs[i]
  BY <1>1, <1>2, <1>3, HeadReplaced
<1>8. \A i \in 1..Len(fs) : (i = 1 \/ i \in 2..Len(fs)) /\ gs[i].prop = fs[i].prop /\ fs[i].prop \in Property
  <2>1. \A i \in 1..Len(fs) : i = 1 \/ i \in 2..Len(fs)
    BY <1>2
  <2>2. \A i \in 1..Len(fs) : fs[i] \in FrameType
    BY <1>2 DEF CallsOK, FrameOK
  <2>3. \A i \in 1..Len(fs) : fs[i].prop \in Property
    BY <2>2 DEF FrameType
  <2>4. gs[1].prop = fs[1].prop
    BY <1>2, <1>3, <1>7
  <2>. QED BY <1>7, <2>1, <2>3, <2>4
<1>9. \A i \in 2..Len(fs) : /\ i \in 1..Len(fs) /\ i - 1 \in 1..Len(fs)
                            /\ FrameOK(program, t, fs[i], entry)
                            /\ fs[i].at \in Busy /\ fs[i].prop # f.prop
  <2> SUFFICES ASSUME NEW i \in 2..Len(fs)
               PROVE  /\ i \in 1..Len(fs) /\ i - 1 \in 1..Len(fs)
                      /\ FrameOK(program, t, fs[i], entry)
                      /\ fs[i].at \in Busy /\ fs[i].prop # f.prop
    OBVIOUS
  <2>1. i \in 1..Len(fs) /\ i - 1 \in 1..Len(fs)
    BY <1>2
  <2>2. FrameOK(program, t, fs[i], entry) /\ fs[i].at \in Busy
    BY <1>2, <2>1 DEF CallsOK, Busy
  <2>3. entry[fs[i].prop] = t
    BY <2>2 DEF FrameOK
  <2>. QED BY <1>1, <2>1, <2>2, <2>3, NotThreads
<1>10. \A i \in 2..Len(fs) : FrameOK(program, t, fs[i], entry')
  <2> SUFFICES ASSUME NEW i \in 2..Len(fs) PROVE FrameOK(program, t, fs[i], entry')
    OBVIOUS
  <2>1. \A l \in DOMAIN program.uses[fs[i].prop] : program.uses[fs[i].prop][l] \in Property
    BY <1>8, <1>9, ProgramTyped
  <2>2. \A k \in Property : entry[k] = "list" => entry'[k] = "list"
    BY <1>1, <1>4
  <2>3. entry'[fs[i].prop] = t /\ FrameOK(program, t, fs[i], entry) /\ fs[i].at \in Busy
    BY <1>4, <1>8, <1>9 DEF FrameOK
  <2>. QED BY <2>1, <2>2, <2>3 DEF FrameOK, UsesListed, Busy
<1>11. FrameOK(program, t, g, entry')
  BY <1>3, <1>4 DEF FrameOK, Busy
<1>12. CallsOK(program, t, gs, entry')
  <2>1. \A i \in 1..Len(gs) : FrameOK(program, t, gs[i], entry')
    BY <1>7, <1>8, <1>10, <1>11
  <2>2. \A i \in 2..Len(gs) :
          gs[i].at = "expand" /\ gs[i].todo # <<>> /\ Head(gs[i].todo) = gs[i-1].prop
    BY <1>2, <1>7, <1>8, <1>9 DEF CallsOK
  <2>3. \A i, j \in 1..Len(gs) :
          gs[i].at \in Busy /\ gs[j].at \in Busy /\ gs[i].prop = gs[j].prop => i = j
    <3> SUFFICES ASSUME NEW i \in 1..Len(fs), NEW j \in 1..Len(fs), gs[i].prop = gs[j].prop PROVE i = j
      BY <1>7
    <3>1. fs[i].prop = fs[j].prop /\ fs[1].prop = f.prop
      BY <1>2, <1>8
    <3>2. CASE i = 1
      BY <1>8, <1>9, <3>1, <3>2
    <3>3. CASE j = 1
      BY <1>8, <1>9, <3>1, <3>3
    <3>4. CASE i # 1 /\ j # 1
      BY <1>2, <1>8, <1>9, <3>1, <3>4 DEF CallsOK
    <3>. QED BY <3>2, <3>3, <3>4
  <2>. QED BY <1>7, <2>1, <2>2, <2>3 DEF CallsOK
<1>13. PlaceholdersUsed(t, gs, entry')
  <2> SUFFICES ASSUME NEW k \in Property, entry'[k] = t
               PROVE  \E i \in 1..Len(gs) : gs[i].prop = k /\ gs[i].at \in Busy
    BY DEF PlaceholdersUsed
  <2>1. CASE k = f.prop
    <3>1. 1 \in 1..Len(gs)
      BY <1>2, <1>7
    <3>2. gs[1].prop = k /\ gs[1].at \in Busy
      BY <1>3, <1>7, <2>1 DEF Busy
    <3>. QED BY <3>1, <3>2
  <2>2. CASE k # f.prop
    <3>1. PICK i \in 1..Len(fs) : fs[i].prop = k /\ fs[i].at \in Busy
      BY <1>2, <1>4, <2>2 DEF PlaceholdersUsed
    <3>2. i \in 2..Len(fs)
      BY <1>2, <1>8, <2>2, <3>1
    <3>. QED BY <1>7, <3>1, <3>2
  <2>. QED BY <2>1, <2>2
<1>. QED BY <1>1, <1>5, <1>6, <1>12, <1>13, StepOfOne
-----------------------------------------------------------------------------
\* The innermost call has its result.
LEMMA FinishedKeeps ==
  ASSUME IInv, NEW t \in Compiler, frames[t] # <<>>, Head(frames[t]).at \in Busy,
         UNCHANGED <<program, entry, deferrable>>,
         NEW r \in {"list", "error"}, Finished(t, r),
         r = "list" /\ program.subs[Head(frames[t]).prop] = {"lines"} =>
           UsesListed(program, Head(frames[t]).prop, entry)
  PROVE  IInv'
<1>. DEFINE f == Head(frames[t])
            g == [f EXCEPT !.result = r, !.at = "store"]
<1>1. FrameOK(program, t, f, entry) /\ f \in FrameType
  BY Innermost
<1>2. g \in FrameType /\ g.at = "store" /\ g.prop = f.prop /\ g.result = r
  BY <1>1 DEF FrameType, Places
<1>3. FrameOK(program, t, g, entry)
  BY <1>1, <1>2 DEF FrameOK, Busy
<1>4. Become(t, g)
  BY DEF Finished
<1>. QED BY <1>2, <1>3, <1>4, MoveKeeps DEF Busy

LEMMA CallSubKeeps ==
  ASSUME IInv, NEW t \in Compiler, CallSub(t) PROVE IInv'
<1>. DEFINE f == Head(frames[t])
<1>1. frames[t] # <<>> /\ f.at = "call" /\ UNCHANGED <<program, entry, deferrable>>
  BY DEF CallSub, At
<1>2. FrameOK(program, t, f, entry) /\ f \in FrameType /\ deferrable[t] = FALSE
  BY <1>1, Innermost DEF IInv
<1>3. f.prop \in Property /\ f.at \in Busy
  BY <1>1, <1>2 DEF FrameType, Busy
<1>4. PICK kind \in program.subs[f.prop] :
           \/ kind = "dies" /\ Finished(t, "error")
           \/ kind = "empty" /\ Finished(t, "list")
           \/ kind = "unknown" /\ Finished(t, "error")
           \/ /\ kind = "lines"
              /\ Become(t, [f EXCEPT !.at = "expand", !.todo = program.uses[f.prop]])
  BY <1>2 DEF CallSub
<1>5. CASE Finished(t, "error")
  BY <1>1, <1>3, <1>5, FinishedKeeps
<1>6. CASE kind = "empty" /\ Finished(t, "list")
  <2>1. program.subs[f.prop] # {"lines"}
    BY <1>4, <1>6
  <2>. QED BY <1>1, <1>3, <1>6, <2>1, FinishedKeeps
<1>7. CASE Become(t, [f EXCEPT !.at = "expand", !.todo = program.uses[f.prop]])
  <2>. DEFINE g == [f EXCEPT !.at = "expand", !.todo = program.uses[f.prop]]
  <2>1. program.uses[f.prop] \in Seq(Property)
    BY <1>3, ProgramTyped
  <2>2. /\ g \in FrameType /\ g.at = "expand" /\ g.prop = f.prop
        /\ g.todo = program.uses[f.prop]
    BY <1>2, <2>1 DEF FrameType, Places
  <2>3. FrameOK(program, t, g, entry)
    BY <1>1, <1>2, <2>2 DEF FrameOK, Busy
  <2>. QED BY <1>1, <1>3, <1>7, <2>2, <2>3, MoveKeeps DEF Busy
<1>. QED BY <1>4, <1>5, <1>6, <1>7

LEMMA ExpandLineKeeps ==
  ASSUME IInv, NEW t \in Compiler, ExpandLine(t) PROVE IInv'
<1>. DEFINE fs == frames[t]
            f == Head(fs)
<1>1. fs # <<>> /\ f.at = "expand" /\ UNCHANGED <<program, entry, deferrable>>
  BY DEF ExpandLine, At
<1>2. /\ fs \in Seq(FrameType) /\ Len(fs) \in Nat \ {0} /\ f = fs[1] /\ 1 \in 1..Len(fs)
      /\ CallsOK(program, t, fs, entry) /\ PlaceholdersUsed(t, fs, entry)
      /\ FrameOK(program, t, f, entry) /\ f \in FrameType
  BY <1>1, Innermost
<1>3. f.prop \in Property /\ f.todo \in Seq(Property)
  BY <1>2 DEF FrameType
<1>4. CASE f.todo = <<>>
  <2>1. Finished(t, "list")
    BY <1>4 DEF ExpandLine
  <2>2. UsesListed(program, f.prop, entry)
    <3>1. \A todo : todo = <<>> => DOMAIN todo = {}
      OBVIOUS
    <3>. QED BY <1>1, <1>2, <1>4, <3>1 DEF FrameOK, UsesListed
  <2>. QED BY <1>1, <2>1, <2>2, FinishedKeeps DEF Busy
<1>5. CASE f.todo # <<>>
  <2>. DEFINE k == Head(f.todo)
              g == Frame(k)
              gs == <<g>> \o fs
  <2>1. k \in Property
    BY <1>3, <1>5, Popped
  <2>2. frames' = [frames EXCEPT ![t] = gs]
    BY <1>5 DEF ExpandLine
  <2>3. g \in FrameType /\ g.at = "fetch" /\ g.prop = k
    BY <2>1, FrameIsTyped DEF Frame
  <2>4. /\ gs \in Seq(FrameType) /\ Len(gs) = Len(fs) + 1 /\ gs[1] = g
        /\ \A i \in 2..(Len(fs) + 1) : gs[i] = fs[i - 1]
    BY <1>2, <2>3, Pushed
  <2>5. \A i \in 1..Len(gs) : i = 1 \/ (i \in 2..(Len(fs) + 1) /\ i - 1 \in 1..Len(fs))
    BY <1>2, <2>4
  <2>6. \A i \in 1..Len(gs) : FrameOK(program, t, gs[i], entry)
    <3>1. FrameOK(program, t, g, entry)
      BY <2>3 DEF FrameOK, Busy
    <3>. QED BY <1>2, <2>4, <2>5, <3>1 DEF CallsOK
  <2>7. \A i \in 2..Len(gs) :
          gs[i].at = "expand" /\ gs[i].todo # <<>> /\ Head(gs[i].todo) = gs[i-1].prop
    <3> SUFFICES ASSUME NEW i \in 2..(Len(fs) + 1)
                 PROVE  gs[i].at = "expand" /\ gs[i].todo # <<>> /\ Head(gs[i].todo) = gs[i-1].prop
      BY <2>4
    <3>1. CASE i = 2
      <4>1. gs[2] = f /\ gs[i - 1] = g
        BY <1>2, <2>4, <3>1
      <4>. QED BY <1>1, <1>5, <2>3, <3>1, <4>1
    <3>2. CASE i # 2
      <4>1. i - 1 \in 2..Len(fs) /\ i - 1 \in 2..(Len(fs) + 1)
        BY <1>2, <3>2
      <4>2. gs[i] = fs[i - 1] /\ gs[i - 1] = fs[(i - 1) - 1]
        BY <2>4, <4>1
      <4>. QED BY <1>2, <4>1, <4>2 DEF CallsOK
    <3>. QED BY <3>1, <3>2
  <2>8. \A i, j \in 1..Len(gs) :
          gs[i].at \in Busy /\ gs[j].at \in Busy /\ gs[i].prop = gs[j].prop => i = j
    <3> SUFFICES ASSUME NEW i \in 1..Len(gs), NEW j \in 1..Len(gs),
                        gs[i].at \in Busy, gs[j].at \in Busy, gs[i].prop = gs[j].prop
                 PROVE  i = j
      OBVIOUS
    <3>1. i # 1 /\ j # 1
      BY <2>3, <2>4 DEF Busy
    <3>2. /\ i - 1 \in 1..Len(fs) /\ j - 1 \in 1..Len(fs)
          /\ gs[i] = fs[i - 1] /\ gs[j] = fs[j - 1]
      BY <2>4, <2>5, <3>1
    <3>3. i - 1 = j - 1
      BY <1>2, <3>2 DEF CallsOK
    <3>. QED BY <2>4, <3>3
  <2>9. CallsOK(program, t, gs, entry)
    BY <2>4, <2>6, <2>7, <2>8 DEF CallsOK
  <2>10. PlaceholdersUsed(t, gs, entry)
    <3> SUFFICES ASSUME NEW l \in Property, entry[l] = t
                 PROVE  \E i \in 1..Len(gs) : gs[i].prop = l /\ gs[i].at \in Busy
      BY DEF PlaceholdersUsed
    <3>1. PICK i \in 1..Len(fs) : fs[i].prop = l /\ fs[i].at \in Busy
      BY <1>2 DEF PlaceholdersUsed
    <3>2. i + 1 \in 1..Len(gs) /\ i + 1 \in 2..(Len(fs) + 1) /\ (i + 1) - 1 = i
      BY <1>2, <2>4
    <3>3. gs[i + 1] = fs[i]
      BY <2>4, <3>2
    <3>. QED BY <3>1, <3>2, <3>3
  <2>. QED BY <1>1, <2>2, <2>9, <2>10, StepWithoutTable
<1>. QED BY <1>4, <1>5

\* The list or the message takes the placeholder's place.  A list closes no
\* circle: the property's own entry was no list, nor was that of any other
\* member.
LEMMA StoreKeeps ==
  ASSUME IInv, NEW t \in Compiler, Store(t) PROVE IInv'
<1>. DEFINE fs == frames[t]
            f == Head(fs)
            g == [f EXCEPT !.at = "leave"]
            gs == <<g>> \o Tail(fs)
<1>1. fs # <<>> /\ f.at = "store" /\ UNCHANGED <<program, deferrable>>
  BY DEF Store, At
<1>2. /\ fs \in Seq(FrameType) /\ Len(fs) \in Nat \ {0} /\ f = fs[1] /\ 1 \in 1..Len(fs)
      /\ CallsOK(program, t, fs, entry) /\ PlaceholdersUsed(t, fs, entry)
      /\ FrameOK(program, t, f, entry) /\ f \in FrameType
  BY <1>1, Innermost
<1>3. f.prop \in Property /\ f.result \in {"list", "error"} /\ entry[f.prop] = t
  BY <1>1, <1>2 DEF FrameType, FrameOK, Busy
<1>4. frames' = [frames EXCEPT ![t] = gs]
  BY DEF Store, Become
<1>5. \A k \in Property : entry'[k] = IF k = f.prop THEN f.result ELSE entry[k]
  BY <1>3 DEF Store, IInv
<1>6. TableStep(t) /\ entry' \in [Property -> {"none", "list", "error"} \cup Compiler]
  <2>1. entry' = [entry EXCEPT ![f.prop] = f.result]
    BY <1>3 DEF Store
  <2>. QED BY <1>3, <1>5, <2>1 DEF IInv, TableStep
<1>7. g \in FrameType /\ g.at = "leave" /\ g.prop = f.prop /\ g.result = f.result
  BY <1>2 DEF FrameType, Places
<1>8. /\ gs \in Seq(FrameType) /\ Len(gs) = Len(fs)
      /\ gs[1] = g /\ \A i \in 2..Len(fs) : gs[i] = fs[i]
  BY <1>1, <1>2, <1>7, HeadReplaced
<1>9. \A i \in 1..Len(fs) : i = 1 \/ i \in 2..Len(fs)
  BY <1>2
<1>10. \A i \in 1..Len(fs) : FrameOK(program, t, fs[i], entry) /\ fs[i].prop \in Property
  BY <1>2 DEF CallsOK, FrameOK, FrameType
<1>11. \A i \in 2..Len(fs) : /\ i \in 1..Len(fs) /\ fs[i].at = "expand" /\ fs[i].prop # f.prop
  <2> SUFFICES ASSUME NEW i \in 2..Len(fs)
               PROVE  i \in 1..Len(fs) /\ fs[i].at = "expand" /\ fs[i].prop # f.prop
    OBVIOUS
  <2>1. i \in 1..Len(fs) /\ i # 1
    BY <1>2
  <2>2. fs[i].at = "expand"
    BY <1>2 DEF CallsOK
  <2>3. fs[i].at \in Busy /\ fs[1].at \in Busy
    BY <1>1, <1>2, <2>2 DEF Busy
  <2>. QED BY <1>2, <2>1, <2>2, <2>3 DEF CallsOK
<1>12. \A k \in Property : entry[k] = "list" => entry'[k] = "list"
  BY <1>3, <1>5, NotThreads
<1>13. \A i \in 2..Len(fs) : FrameOK(program, t, fs[i], entry')
  <2> SUFFICES ASSUME NEW i \in 2..Len(fs) PROVE FrameOK(program, t, fs[i], entry')
    OBVIOUS
  <2>1. \A l \in DOMAIN program.uses[fs[i].prop] : program.uses[fs[i].prop][l] \in Property
    BY <1>10, <1>11, ProgramTyped
  <2>2. /\ entry'[fs[i].prop] = entry[fs[i].prop] /\ fs[i].at = "expand"
        /\ FrameOK(program, t, fs[i], entry)
    BY <1>5, <1>10, <1>11
  <2>. QED BY <1>12, <2>1, <2>2 DEF FrameOK, UsesListed, Busy
<1>14. FrameOK(program, t, g, entry')
  BY <1>3, <1>5, <1>7 DEF FrameOK, Busy
<1>15. CallsOK(program, t, gs, entry')
  <2>1. \A i \in 1..Len(gs) : FrameOK(program, t, gs[i], entry')
    BY <1>8, <1>9, <1>13, <1>14
  <2>2. \A i \in 2..Len(gs) : i - 1 \in 1..Len(fs)
    BY <1>2, <1>8
  <2>3. \A i \in 1..Len(fs) : gs[i].prop = fs[i].prop
    BY <1>2, <1>7, <1>8, <1>9
  <2>4. \A i \in 2..Len(gs) :
          gs[i].at = "expand" /\ gs[i].todo # <<>> /\ Head(gs[i].todo) = gs[i-1].prop
    BY <1>2, <1>8, <2>2, <2>3 DEF CallsOK
  <2>5. \A i, j \in 1..Len(gs) :
          gs[i].at \in Busy /\ gs[j].at \in Busy /\ gs[i].prop = gs[j].prop => i = j
    <3> SUFFICES ASSUME NEW i \in 1..Len(fs), NEW j \in 1..Len(fs),
                        gs[i].at \in Busy, gs[j].at \in Busy, gs[i].prop = gs[j].prop
                 PROVE  i = j
      BY <1>8
    <3>1. i # 1 /\ j # 1
      BY <1>7, <1>8 DEF Busy
    <3>2. gs[i] = fs[i] /\ gs[j] = fs[j]
      BY <1>8, <1>9, <3>1
    <3>. QED BY <1>2, <3>2 DEF CallsOK
  <2>. QED BY <1>8, <2>1, <2>4, <2>5 DEF CallsOK
<1>16. PlaceholdersUsed(t, gs, entry')
  <2> SUFFICES ASSUME NEW k \in Property, entry'[k] = t
               PROVE  \E i \in 1..Len(gs) : gs[i].prop = k /\ gs[i].at \in Busy
    BY DEF PlaceholdersUsed
  <2>1. k # f.prop /\ entry[k] = t
    BY <1>3, <1>5, NotThreads
  <2>2. PICK i \in 1..Len(fs) : fs[i].prop = k /\ fs[i].at \in Busy
    BY <1>2, <2>1 DEF PlaceholdersUsed
  <2>3. i \in 2..Len(fs)
    BY <1>2, <1>9, <2>1, <2>2
  <2>. QED BY <1>8, <2>2, <2>3
<1>17. CirclesFail'
  <2> SUFFICES ASSUME NEW circle \in SUBSET Property,
                      \A k \in circle : /\ program.subs[k] = {"lines"}
                                        /\ \E i \in DOMAIN program.uses[k] : program.uses[k][i] \in circle,
                      NEW k \in circle
               PROVE  entry'[k] # "list"
    BY <1>1 DEF CirclesFail
  <2>1. \A l \in circle : entry[l] # "list"
    BY DEF IInv, CirclesFail
  <2>2. CASE k # f.prop
    BY <1>5, <2>1, <2>2
  <2>3. CASE k = f.prop
    <3>1. PICK i \in DOMAIN program.uses[k] : program.uses[k][i] \in circle
      OBVIOUS
    <3>2. entry[program.uses[k][i]] # "list" /\ program.subs[f.prop] = {"lines"}
      BY <2>1, <2>3, <3>1
    <3>3. f.result # "list"
      BY <1>1, <1>2, <2>3, <3>1, <3>2 DEF FrameOK, UsesListed
    <3>. QED BY <1>5, <2>3, <3>3
  <2>. QED BY <2>2, <2>3
<1>. QED BY <1>1, <1>4, <1>6, <1>15, <1>16, <1>17, StepOfOne

\* The second deletion of the placeholder finds a permanent entry.
LEMMA LeaveScopeKeeps ==
  ASSUME IInv, NEW t \in Compiler, LeaveScope(t) PROVE IInv'
<1>. DEFINE f == Head(frames[t])
<1>1. /\ frames[t] # <<>> /\ f.at = "leave" /\ UNCHANGED <<program, deferrable>>
      /\ entry' = WithoutPlaceholder(f.prop) /\ Return(t, f.result)
  BY DEF LeaveScope, At
<1>2. FrameOK(program, t, f, entry) /\ f \in FrameType
  BY <1>1, Innermost
<1>3. f.prop \in Property /\ f.result \in {"list", "error"} /\ entry[f.prop] = f.result
  BY <1>1, <1>2 DEF FrameOK, FrameType
<1>4. entry' = entry
  BY <1>1, <1>3 DEF WithoutPlaceholder, Permanent, IInv
<1>. QED BY <1>1, <1>3, <1>4, ReturnKeeps DEF Busy

LEMMA NextIInv == NoDeferral => (IInv /\ [UpNext]_upVars => IInv')
<1> SUFFICES ASSUME NoDeferral, IInv, [UpNext]_upVars PROVE IInv'
  OBVIOUS
<1>1. CASE UNCHANGED upVars
  BY <1>1 DEF upVars, IInv, CirclesFail
<1>2. CASE UpNext
  BY <1>2, CompileKeeps, FetchUnstableKeeps, FetchKnownKeeps, FetchNewKeeps, CallSubKeeps,
     ExpandLineKeeps, StoreKeeps, LeaveScopeKeeps DEF UpNext, UpStep
<1>. QED BY <1>1, <1>2

LEMMA Invariance == NoDeferral => (UpSpec => []IInv)
<1> SUFFICES ASSUME NoDeferral PROVE UpSpec => []IInv
  OBVIOUS
<1>1. UpInit => IInv
  BY InitIInv
<1>2. IInv /\ [UpNext]_upVars => IInv'
  BY NextIInv
<1>. QED BY <1>1, <1>2, PTL DEF UpSpec
-----------------------------------------------------------------------------
\* With nothing deferred, the variables have their types: an outer call is
\* always expanding a line, and has that line to go on with.
THEOREM TypeCorrect == NoDeferral => (UpSpec => []UpTypeOK)
<1> SUFFICES ASSUME NoDeferral PROVE UpSpec => []UpTypeOK
  OBVIOUS
<1>1. UpSpec => []IInv
  BY Invariance
<1>2. IInv => UpTypeOK
  <2> SUFFICES ASSUME IInv PROVE UpTypeOK
    OBVIOUS
  <2>1. \A t \in Compiler : \A i \in DOMAIN frames[t] :
          LET f == frames[t][i]
          IN  /\ f.prop \in Property /\ f.at \in Places /\ f.tries \in 0..Retries
              /\ f.result \in {"list", "error", "deferred"}
              /\ i > 1 => f.at = "expand" /\ f.todo # <<>>
    <3> SUFFICES ASSUME NEW t \in Compiler, NEW i \in DOMAIN frames[t]
                 PROVE  LET f == frames[t][i]
                        IN  /\ f.prop \in Property /\ f.at \in Places /\ f.tries \in 0..Retries
                            /\ f.result \in {"list", "error", "deferred"}
                            /\ i > 1 => f.at = "expand" /\ f.todo # <<>>
      OBVIOUS
    <3>1. frames[t] \in Seq(FrameType) /\ CallsOK(program, t, frames[t], entry)
      BY DEF IInv
    <3>2. i \in 1..Len(frames[t]) /\ frames[t][i] \in FrameType /\ Len(frames[t]) \in Nat
      BY <3>1
    <3>3. i > 1 => i \in 2..Len(frames[t])
      BY <3>2
    <3>. QED BY <3>1, <3>2, <3>3 DEF CallsOK, FrameType
  <2>. QED BY <2>1 DEF IInv, UpTypeOK
<1>. QED BY <1>1, <1>2, PTL

\* With nothing deferred, a placeholder belongs to the one thread that is
\* expanding its property, and properties that need each other never get a
\* list, for any number of threads and any way in which definitions name each
\* other.
THEOREM ExpansionsStaySound == NoDeferral => (UpSpec => []ExpansionsAreSound)
<1> SUFFICES ASSUME NoDeferral PROVE UpSpec => []ExpansionsAreSound
  OBVIOUS
<1>1. UpSpec => []IInv
  BY Invariance
<1>2. IInv => ExpansionsAreSound
  <2> SUFFICES ASSUME IInv PROVE PlaceholderIsExpander
    BY DEF ExpansionsAreSound, IInv
  <2> SUFFICES ASSUME NEW k \in Property, NEW t \in Compiler
               PROVE  entry[k] = t <=> Expanding(t, k)
    BY DEF PlaceholderIsExpander
  <2>1. /\ CallsOK(program, t, frames[t], entry) /\ PlaceholdersUsed(t, frames[t], entry)
        /\ DOMAIN frames[t] = 1..Len(frames[t])
    BY DEF IInv
  <2>2. entry[k] = t => Expanding(t, k)
    BY <2>1 DEF PlaceholdersUsed, Expanding, Busy
  <2>3. Expanding(t, k) => entry[k] = t
    BY <2>1 DEF CallsOK, FrameOK, Expanding, Busy
  <2>. QED BY <2>2, <2>3
<1>. QED BY <1>1, <1>2, PTL
=============================================================================
