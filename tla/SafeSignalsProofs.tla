-------------------------- MODULE SafeSignalsProofs --------------------------
(***************************************************************************)
(* Theorems of SafeSignals for every number of signals, every program and  *)
(* every nesting of handlers, assignments to %SIG and dies.                *)
(*                                                                         *)
(* The inductive invariant describes the stack of frames: which frame may  *)
(* lie on which, that each has saved the signal mask as it was below it,   *)
(* that what is blocked for a frame stays blocked while other frames lie   *)
(* on it, and what despatch_signals has still to see of the counts.        *)
(***************************************************************************)
EXTENDS SafeSignals, SequenceTheorems, TLAPS

\* Who may lie directly on whom: despatch_signals and assignments on Perl code,
\* despatch_signals on the assignment that called it, and on despatch_signals the
\* handler that it called.
MayLieOn(f, g) ==
  \/ f.kind = "handler" /\ g.kind \in {"despatch", "setsig", "set"}
  \/ f.kind = "set" /\ g.kind = "despatch"
  \/ f.kind = "despatch" /\ g.kind = "handler" /\ g.sig = f.sig

\* Frame i is one that can be where it is.
LiesRight(i) ==
  /\ sgStack[i].kind # "despatch" => sgStack[i].sig \in Signal
  /\ i = 1 => sgStack[i].kind # "handler"
  /\ i > 1 => MayLieOn(sgStack[i - 1], sgStack[i])

Nesting == \A i \in 1..Len(sgStack) : LiesRight(i)

Assigns(i) == sgStack[i].kind \in {"setsig", "set"}

\* What is blocked on behalf of the main code and of the innermost i frames.
Asked(i) ==
  umask \cup {sgStack[j].sig : j \in {k \in 1..i : sgStack[k].kind # "despatch"}}

\* Frame i has saved the mask as it was below it.
SavedRight(i) ==
  /\ Assigns(i) => sgStack[i].save = Asked(i - 1)
  /\ sgStack[i].kind = "despatch" /\ i < Len(sgStack) =>
       (sgStack[i].was <=> sgStack[i].sig \in Asked(i - 1))

MasksNest ==
  ~flooded =>
    mask = Asked(Len(sgStack)) /\ \A i \in 1..Len(sgStack) : SavedRight(i)

\* Leaving frame j, or the handler that it has called, does not unblock the signal
\* of frame i.
LeavesBlocked(i, j) ==
  /\ Assigns(j) => sgStack[i].sig \in sgStack[j].save
  /\ sgStack[j].kind = "despatch" /\ j < Len(sgStack) /\ sgStack[j].sig = sgStack[i].sig
       => sgStack[j].was

\* A signal whose handler runs, or whose element is assigned to, is blocked, and
\* no frame over that one unblocks it; also after the maximal count was exceeded.
StaysBlocked ==
  \A i \in 1..Len(sgStack) : sgStack[i].kind # "despatch" =>
    /\ sgStack[i].sig \in mask
    /\ \A j \in 1..Len(sgStack) : i < j => LeavesBlocked(i, j)

\* A signal is not counted while its handler runs.
RunningAreQuiet ==
  \A i \in 1..Len(sgStack) : sgStack[i].kind = "handler" => pend[sgStack[i].sig] = 0

\* The despatch_signals of frame i is still to see signal s.
Sees(i, s) ==
  /\ sgStack[i].kind = "despatch"
  /\ sgStack[i].sig < s \/ (i = Len(sgStack) /\ sgStack[i].sig = s)

\* A handler that the main code is about to delete has no signal left that the
\* despatch_signals called for it is not still to see.
LastIsSeen ==
  Len(sgStack) > 0 /\ sgStack[1].kind = "set" /\ sgStack[1].value = "NULL" =>
    pend[sgStack[1].sig] = 0 \/ (Len(sgStack) >= 2 /\ Sees(2, sgStack[1].sig))

\* Where handlers neither die nor delete, a handler that has gone leaves no signal
\* behind, and only the main code makes handlers go.
GoneAreQuiet ==
  ~sgScenario.dies /\ "handler" \notin sgScenario.deletes =>
    /\ over # "exit" /\ LastIsSeen
    /\ \A s \in Signal : ptr[s] = "NULL" => disp[s] = "default" /\ pend[s] = 0
    /\ \A i \in 1..Len(sgStack) : Assigns(i) /\ sgStack[i].value = "NULL" => i = 1

IInv ==
  /\ SgTypeOK /\ Nesting /\ MasksNest /\ StaysBlocked /\ RunningAreQuiet
  /\ HandlersDoNotNest /\ NothingStranded /\ GoneAreQuiet /\ HandledAtMostOnce
-----------------------------------------------------------------------------
\* The stack after a step: its innermost k frames stay, others lie on them.
Keeps(k) == /\ k \in 0..Len(sgStack) /\ k <= Len(sgStack')
            /\ \A i \in 1..k : sgStack'[i] = sgStack[i]

LEMMA FirstFrames ==
  ASSUME NEW S, NEW st \in Seq(S), NEW k \in 0..Len(st)
  PROVE  /\ SubSeq(st, 1, k) \in Seq(S) /\ Len(SubSeq(st, 1, k)) = k
         /\ \A i \in 1..k : SubSeq(st, 1, k)[i] = st[i]
<1>1. /\ Len(st) \in Nat /\ k \in Nat /\ k <= Len(st)
      /\ \A i \in 1..k : st[i] \in S
  OBVIOUS
<1>2. /\ SubSeq(st, 1, k) \in Seq(S)
      /\ Len(SubSeq(st, 1, k)) = IF 1 <= k THEN k - 1 + 1 ELSE 0
      /\ \A i \in 1..(k - 1 + 1) : SubSeq(st, 1, k)[i] = st[1 + i - 1]
  BY <1>1, SubSeqProperties
<1>. QED BY <1>1, <1>2

LEMMA OnTop ==
  ASSUME NEW S, NEW st \in Seq(S), NEW f \in S
  PROVE  /\ st \o <<f>> \in Seq(S) /\ Len(st \o <<f>>) = Len(st) + 1
         /\ \A i \in 1..Len(st) : (st \o <<f>>)[i] = st[i]
         /\ (st \o <<f>>)[Len(st) + 1] = f
<1>1. <<f>> \in Seq(S) /\ Len(<<f>>) = 1 /\ <<f>>[1] = f
  OBVIOUS
<1>2. /\ st \o <<f>> \in Seq(S) /\ Len(st \o <<f>>) = Len(st) + 1
      /\ \A i \in 1..(Len(st) + 1) :
           (st \o <<f>>)[i] = IF i <= Len(st) THEN st[i] ELSE <<f>>[i - Len(st)]
  BY <1>1, ConcatProperties
<1>. QED BY <1>1, <1>2

\* k frames stay, and none, one or two lie on them.
LEMMA StackIsCut ==
  ASSUME sgStack \in Seq(Frame), NEW k \in 0..Len(sgStack),
         sgStack' = SubSeq(sgStack, 1, k)
  PROVE  sgStack' \in Seq(Frame) /\ Len(sgStack') = k /\ Keeps(k)
  BY FirstFrames DEF Keeps

LEMMA StackGets ==
  ASSUME sgStack \in Seq(Frame), NEW k \in 0..Len(sgStack), NEW f \in Frame,
         sgStack' = SubSeq(sgStack, 1, k) \o <<f>>
  PROVE  sgStack' \in Seq(Frame) /\ Len(sgStack') = k + 1 /\ Keeps(k) /\ sgStack'[k + 1] = f
<1>. DEFINE st == SubSeq(sgStack, 1, k)
<1>1. st \in Seq(Frame) /\ Len(st) = k /\ \A i \in 1..k : st[i] = sgStack[i]
  BY FirstFrames
<1>. HIDE DEF st
<1>2. sgStack' = st \o <<f>>
  BY DEF st
<1>. QED BY <1>1, <1>2, OnTop DEF Keeps

LEMMA StackGetsTwo ==
  ASSUME sgStack \in Seq(Frame), NEW k \in 0..Len(sgStack), NEW f \in Frame,
         NEW g \in Frame, sgStack' = SubSeq(sgStack, 1, k) \o <<f, g>>
  PROVE  /\ sgStack' \in Seq(Frame) /\ Len(sgStack') = k + 2 /\ Keeps(k)
         /\ sgStack'[k + 1] = f /\ sgStack'[k + 2] = g
<1>. DEFINE st == SubSeq(sgStack, 1, k)
            two == <<f, g>>
<1>1. st \in Seq(Frame) /\ Len(st) = k /\ \A i \in 1..k : st[i] = sgStack[i]
  BY FirstFrames
<1>2. two \in Seq(Frame) /\ Len(two) = 2 /\ two[1] = f /\ two[2] = g
  OBVIOUS
<1>3. sgStack' = st \o two
  OBVIOUS
<1>. HIDE DEF st, two
<1>4. /\ sgStack' \in Seq(Frame) /\ Len(sgStack') = k + 2
      /\ \A i \in 1..(k + 2) : sgStack'[i] = IF i <= k THEN st[i] ELSE two[i - k]
  BY <1>1, <1>2, <1>3, ConcatProperties
<1>5. k \in Nat /\ k + 1 \in 1..(k + 2) /\ k + 2 \in 1..(k + 2) /\ ~(k + 1 <= k)
      /\ ~(k + 2 <= k) /\ (k + 1) - k = 1 /\ (k + 2) - k = 2
  OBVIOUS
<1>. QED BY <1>1, <1>2, <1>4, <1>5 DEF Keeps

\* The stack as it is after PushFrame(f), which is not a SubSeq.
LEMMA StackPushes ==
  ASSUME sgStack \in Seq(Frame), NEW f \in Frame, PushFrame(f)
  PROVE  /\ sgStack' \in Seq(Frame) /\ Len(sgStack') = Len(sgStack) + 1
         /\ Keeps(Len(sgStack)) /\ sgStack'[Len(sgStack) + 1] = f
  BY OnTop DEF PushFrame, Keeps
-----------------------------------------------------------------------------
LEMMA SignalRange == /\ MaxSignal \in Nat \ {0} /\ Signal = 1..MaxSignal /\ Signal \subseteq Nat
                     /\ SIG_PENDING_DIE_COUNT \in Nat \ {0} /\ MaxSent \in Nat \ {0}
  BY SignalsAssumption DEF Signal

\* The frames that steps put on the stack.
LEMMA NewFrames ==
  ASSUME SgTypeOK
  PROVE  /\ DespatchFrame \in Frame /\ DespatchFrame.kind = "despatch" /\ DespatchFrame.sig = 0
         /\ \A s \in Signal :
              /\ HandlerFrame(s) \in Frame
              /\ HandlerFrame(s).kind = "handler" /\ HandlerFrame(s).sig = s
              /\ \A v \in {"code", "IGNORE", "DEFAULT", "NULL"} :
                   /\ SetFrame(s, v) \in Frame
                   /\ SetFrame(s, v).kind = "setsig" /\ SetFrame(s, v).sig = s
                   /\ SetFrame(s, v).save = mask /\ SetFrame(s, v).value = v
<1>1. DespatchFrame \in Frame /\ DespatchFrame.kind = "despatch" /\ DespatchFrame.sig = 0
  BY SignalRange DEF DespatchFrame, Frame
<1>2. ASSUME NEW s \in Signal
      PROVE  /\ HandlerFrame(s) \in Frame
             /\ HandlerFrame(s).kind = "handler" /\ HandlerFrame(s).sig = s
  <2>1. s \in 0..(MaxSignal + 1)
    BY SignalRange
  <2>. QED BY <1>1, <2>1 DEF HandlerFrame, Frame
<1>3. ASSUME NEW s \in Signal, NEW v \in {"code", "IGNORE", "DEFAULT", "NULL"}
      PROVE  /\ SetFrame(s, v) \in Frame
             /\ SetFrame(s, v).kind = "setsig" /\ SetFrame(s, v).sig = s
             /\ SetFrame(s, v).save = mask /\ SetFrame(s, v).value = v
  BY SignalRange DEF SetFrame, Frame, SgTypeOK
<1>. QED BY <1>1, <1>2, <1>3

\* The fields of a frame, and of one that a step has changed.
LEMMA FrameFields ==
  ASSUME NEW f \in Frame
  PROVE  /\ f.kind \in {"despatch", "handler", "setsig", "set"}
         /\ f.sig \in 0..(MaxSignal + 1) /\ f.sig \in Nat
         /\ f.was \in BOOLEAN /\ f.save \subseteq Signal
         /\ f.value \in {"code", "IGNORE", "DEFAULT", "NULL"}
  BY SignalRange DEF Frame

LEMMA ChangedFrame ==
  ASSUME NEW f \in Frame, NEW n \in 0..(MaxSignal + 1), NEW b \in BOOLEAN
  PROVE  /\ LET g == [f EXCEPT !.sig = n]
            IN  /\ g \in Frame /\ g.kind = f.kind /\ g.sig = n /\ g.was = f.was
                /\ g.save = f.save /\ g.value = f.value
         /\ LET g == [f EXCEPT !.sig = n, !.was = b]
            IN  /\ g \in Frame /\ g.kind = f.kind /\ g.sig = n /\ g.was = b
                /\ g.save = f.save /\ g.value = f.value
         /\ LET g == [f EXCEPT !.was = b]
            IN  /\ g \in Frame /\ g.kind = f.kind /\ g.sig = f.sig /\ g.was = b
                /\ g.save = f.save /\ g.value = f.value
         /\ LET g == [f EXCEPT !.kind = "set"]
            IN  /\ g \in Frame /\ g.kind = "set" /\ g.sig = f.sig /\ g.was = f.was
                /\ g.save = f.save /\ g.value = f.value
  BY DEF Frame

\* A non-empty stack: its innermost frame, and the others.
LEMMA TopFrame ==
  ASSUME SgTypeOK, sgStack # <<>>
  PROVE  /\ Len(sgStack) \in Nat /\ Len(sgStack) >= 1
         /\ Len(sgStack) \in 1..Len(sgStack) /\ Len(sgStack) - 1 \in 0..Len(sgStack)
         /\ Top = sgStack[Len(sgStack)] /\ Top \in Frame
         /\ Below = SubSeq(sgStack, 1, Len(sgStack) - 1)
<1>1. sgStack \in Seq(Frame)
  BY DEF SgTypeOK
<1>2. Len(sgStack) \in Nat /\ Len(sgStack) # 0
  BY <1>1, EmptySeq
<1>3. Len(sgStack) \in 1..Len(sgStack)
  BY <1>2
<1>4. sgStack[Len(sgStack)] \in Frame
  BY <1>1, <1>3
<1>. QED BY <1>2, <1>3, <1>4 DEF Top, Below

LEMMA EveryFrame ==
  ASSUME SgTypeOK
  PROVE  Len(sgStack) \in Nat /\ \A i \in 1..Len(sgStack) : sgStack[i] \in Frame
<1>1. sgStack \in Seq(Frame)
  BY DEF SgTypeOK
<1>. QED BY <1>1

\* Over Perl code, or nothing, another frame may lie.
LEMMA PerlCodeBelow ==
  ASSUME SgTypeOK, InPerlCode
  PROVE  Len(sgStack) > 0 => sgStack[Len(sgStack)].kind = "handler"
<1>1. Len(sgStack) > 0 => sgStack # <<>>
  BY EmptySeq
<1>. QED BY <1>1 DEF InPerlCode, Top

\* A handler lies on the despatch_signals that has called it.
LEMMA CallerFrame ==
  ASSUME SgTypeOK, Nesting, In("handler")
  PROVE  LET n == Len(sgStack)
         IN  /\ n \in Nat /\ n >= 2 /\ n - 1 \in 1..n /\ n \in 1..n
             /\ n - 2 \in 0..n
             /\ sgStack[n].kind = "handler" /\ sgStack[n].sig \in Signal
             /\ sgStack[n - 1].kind = "despatch" /\ sgStack[n - 1].sig = sgStack[n].sig
             /\ sgStack[n - 1] \in Frame
             /\ Below[Len(Below)] = sgStack[n - 1]
             /\ Len(Below) = n - 1 /\ Below \in Seq(Frame)
             /\ \A i \in 1..(n - 1) : Below[i] = sgStack[i]
<1>. DEFINE n == Len(sgStack)
<1>1. /\ sgStack # <<>> /\ sgStack[n].kind = "handler" /\ n \in Nat /\ n >= 1 /\ n \in 1..n
      /\ n - 1 \in 0..n /\ Below = SubSeq(sgStack, 1, n - 1)
  BY TopFrame DEF In
<1>2. LiesRight(n)
  BY <1>1 DEF Nesting
<1>3. n # 1
  BY <1>1, <1>2 DEF LiesRight
<1>4. n - 1 \in 1..n /\ n - 2 \in 0..n /\ n >= 2 /\ n > 1
  <2>. HIDE DEF n
  <2>. QED BY <1>1, <1>3
<1>5. /\ sgStack[n].sig \in Signal
      /\ sgStack[n - 1].kind = "despatch" /\ sgStack[n - 1].sig = sgStack[n].sig
  BY <1>1, <1>2, <1>4 DEF LiesRight, MayLieOn
<1>6. sgStack \in Seq(Frame)
  BY DEF SgTypeOK
<1>7. Len(Below) = n - 1 /\ Below \in Seq(Frame) /\ \A i \in 1..(n - 1) : Below[i] = sgStack[i]
  BY <1>1, <1>6, FirstFrames
<1>8. n - 1 \in 1..(n - 1)
  BY <1>4
<1>. QED BY <1>1, <1>4, <1>5, <1>6, <1>7, <1>8

\* What is asked for below a frame does not depend on it.
LEMMA AskedBelow ==
  ASSUME umask' = umask, NEW k, Keeps(k), NEW i \in 0..k
  PROVE  Asked(i)' = Asked(i)
<1>1. \A j \in 1..i : sgStack'[j] = sgStack[j]
  BY DEF Keeps
<1>. QED BY <1>1 DEF Asked

LEMMA AskedWith ==
  ASSUME NEW n \in Nat, n >= 1
  PROVE  Asked(n) = Asked(n - 1) \cup
                      (IF sgStack[n].kind = "despatch" THEN {} ELSE {sgStack[n].sig})
<1>1. 1..n = (1..(n - 1)) \cup {n}
  OBVIOUS
<1>. QED BY <1>1 DEF Asked

LEMMA BudgetSpent ==
  ASSUME NEW b \in Budget
  PROVE  /\ b.sets > 0 => [b EXCEPT !.sets = @ - 1] \in Budget
         /\ b.masks > 0 => [b EXCEPT !.masks = @ - 1] \in Budget
         /\ b.forks > 0 => [b EXCEPT !.forks = @ - 1] \in Budget
<1>1. b.sets \in Nat /\ b.masks \in Nat /\ b.forks \in Nat
  BY DEF Budget
<1>2. ASSUME NEW n \in Nat
      PROVE  /\ [b EXCEPT !.sets = n] \in Budget /\ [b EXCEPT !.masks = n] \in Budget
             /\ [b EXCEPT !.forks = n] \in Budget
  BY DEF Budget
<1>3. \A n \in Nat : n > 0 => n - 1 \in Nat
  OBVIOUS
<1>. QED BY <1>1, <1>2, <1>3

LEMMA Domain == ASSUME NEW S, NEW st \in Seq(S) PROVE DOMAIN st = 1..Len(st) /\ Len(st) \in Nat
  OBVIOUS
-----------------------------------------------------------------------------
\* Steps that leave the stack alone, and unblock nothing.
LEMMA StackStays ==
  ASSUME IInv, sgStack' = sgStack, umask' = umask, mask \subseteq mask',
         flooded => flooded', mask' = mask \/ flooded'
  PROVE  Nesting' /\ MasksNest' /\ StaysBlocked' /\ HandlersDoNotNest'
<1>1. Nesting' /\ HandlersDoNotNest'
  BY DEF IInv, Nesting, LiesRight, MayLieOn, HandlersDoNotNest
<1>2. MasksNest'
  BY DEF IInv, MasksNest, SavedRight, Asked, Assigns
<1>3. StaysBlocked'
  BY DEF IInv, StaysBlocked, LeavesBlocked, Assigns
<1>. QED BY <1>1, <1>2, <1>3

\* Steps that leave stack and counters alone.
LEMMA CountersStay ==
  ASSUME IInv, sgStack' = sgStack, sgScenario' = sgScenario, UNCHANGED counters
  PROVE  RunningAreQuiet' /\ NothingStranded'
  BY DEF IInv, RunningAreQuiet, NothingStranded, counters

LEMMA GoneStay ==
  ASSUME IInv, sgStack' = sgStack, sgScenario' = sgScenario, UNCHANGED counters,
         ptr' = ptr, disp' = disp, over' = over \/ over' # "exit"
  PROVE  GoneAreQuiet'
  BY DEF IInv, GoneAreQuiet, LastIsSeen, Sees, Assigns, counters

LEMMA SendKeeps == ASSUME IInv, NEW s \in Signal, Send(s) PROVE IInv'
<1>1. SgTypeOK'
  <2>1. sent[s] + 1 \in 0..MaxSent
    BY SignalRange DEF Send, IInv, SgTypeOK
  <2>2. sent' \in [Signal -> 0..MaxSent]
    BY <2>1 DEF Send, IInv, SgTypeOK
  <2>. QED BY <2>2 DEF Send, IInv, SgTypeOK, counters, program
<1>2. Nesting' /\ MasksNest' /\ StaysBlocked' /\ HandlersDoNotNest'
  BY StackStays DEF Send, program
<1>3. RunningAreQuiet' /\ NothingStranded' /\ GoneAreQuiet'
  BY CountersStay, GoneStay DEF Send, program
<1>4. HandledAtMostOnce'
  <2>. SUFFICES ASSUME NEW u \in Signal
                PROVE  runs'[u] + (IF pend'[u] > 0 THEN 1 ELSE 0)
                         + (IF u \in kpending' THEN 1 ELSE 0) <= sent'[u]
    BY DEF HandledAtMostOnce
  <2>1. /\ runs' = runs /\ pend' = pend /\ kpending' \subseteq kpending \cup {s}
        /\ sent'[u] = IF u = s THEN sent[u] + 1 ELSE sent[u]
    BY DEF Send, IInv, SgTypeOK, counters
  <2>2. runs[u] \in Nat /\ sent[u] \in Nat
    BY SignalRange DEF IInv, SgTypeOK
  <2>3. runs[u] + (IF pend[u] > 0 THEN 1 ELSE 0) + (IF u \in kpending THEN 1 ELSE 0) <= sent[u]
    BY DEF IInv, HandledAtMostOnce
  <2>. QED BY <2>1, <2>2, <2>3
<1>. QED BY <1>1, <1>2, <1>3, <1>4 DEF IInv

\* What was handled stays handled if nothing is counted anew.
LEMMA TalliesStay ==
  ASSUME IInv, UNCHANGED <<sent, runs>>, kpending' \subseteq kpending,
         \A u \in Signal : pend'[u] = pend[u] \/ pend'[u] = 0
  PROVE  HandledAtMostOnce'
<1>. SUFFICES ASSUME NEW u \in Signal
              PROVE  runs[u] + (IF pend'[u] > 0 THEN 1 ELSE 0)
                       + (IF u \in kpending' THEN 1 ELSE 0) <= sent[u]
  BY DEF HandledAtMostOnce
<1>1. runs[u] \in Nat /\ sent[u] \in Nat /\ (pend'[u] = pend[u] \/ pend'[u] = 0)
  BY SignalRange DEF IInv, SgTypeOK
<1>2. runs[u] + (IF pend[u] > 0 THEN 1 ELSE 0) + (IF u \in kpending THEN 1 ELSE 0) <= sent[u]
  BY DEF IInv, HandledAtMostOnce
<1>. QED BY <1>1, <1>2

LEMMA KilledKeeps == ASSUME IInv, NEW s \in Signal, Killed(s) PROVE IInv'
<1>1. SgTypeOK'
  BY DEF Killed, IInv, SgTypeOK, counters, kernel
<1>2. Nesting' /\ MasksNest' /\ StaysBlocked' /\ HandlersDoNotNest'
  BY StackStays DEF Killed
<1>3. RunningAreQuiet' /\ NothingStranded' /\ GoneAreQuiet'
  BY CountersStay, GoneStay DEF Killed, kernel
<1>4. HandledAtMostOnce'
  BY TalliesStay DEF Killed, kernel, counters
<1>. QED BY <1>1, <1>2, <1>3, <1>4 DEF IInv

LEMMA GetSigKeeps == ASSUME IInv, NEW s \in Signal, GetSig(s) PROVE IInv'
<1>1. SgTypeOK'
  BY DEF GetSig, IInv, SgTypeOK, counters, kernel, program
<1>2. Nesting' /\ MasksNest' /\ StaysBlocked' /\ HandlersDoNotNest'
  BY StackStays DEF GetSig, program
<1>3. RunningAreQuiet' /\ NothingStranded'
  BY CountersStay DEF GetSig, program
<1>4. HandledAtMostOnce'
  BY TalliesStay DEF GetSig, kernel, counters
<1>5. GoneAreQuiet'
  <2>1. \A u \in Signal : ptr'[u] = "NULL" => ptr[u] = "NULL"
    BY DEF GetSig, IInv, SgTypeOK
  <2>. QED BY <2>1 DEF GetSig, IInv, GoneAreQuiet, LastIsSeen, Sees, Assigns, kernel, counters, program
<1>. QED BY <1>1, <1>2, <1>3, <1>4, <1>5 DEF IInv

LEMMA SigprocmaskKeeps ==
  ASSUME IInv, NEW m \in SUBSET Signal, Sigprocmask(m) PROVE IInv'
<1>0. sgStack = <<>> /\ sgStack' = <<>> /\ Len(<<>>) = 0 /\ 1..0 = {}
  BY DEF Sigprocmask
<1>1. SgTypeOK'
  <2>1. left' \in Budget
    BY BudgetSpent DEF Sigprocmask, IInv, SgTypeOK
  <2>. QED BY <2>1 DEF Sigprocmask, IInv, SgTypeOK, counters, kernel
<1>2. Nesting' /\ StaysBlocked' /\ RunningAreQuiet'
  BY <1>0 DEF Nesting, StaysBlocked, RunningAreQuiet
<1>6. HandlersDoNotNest'
  BY <1>0 DEF IInv, HandlersDoNotNest
<1>3. MasksNest'
  BY <1>0 DEF MasksNest, Asked, Sigprocmask
<1>4. NothingStranded' /\ GoneAreQuiet'
  BY CountersStay, GoneStay DEF Sigprocmask, kernel
<1>5. HandledAtMostOnce'
  BY TalliesStay DEF Sigprocmask, kernel, counters
<1>. QED BY <1>1, <1>2, <1>3, <1>4, <1>5, <1>6 DEF IInv

LEMMA ForkKeeps == ASSUME IInv, Fork PROVE IInv'
<1>1. SgTypeOK'
  <2>1. /\ sent' \in [Signal -> 0..MaxSent] /\ runs' \in [Signal -> Nat]
        /\ pend' \in [Signal -> Nat] /\ sig_pending' \in Nat /\ kpending' \subseteq Signal
    BY SignalRange DEF Fork
  <2>2. left' \in Budget
    BY BudgetSpent DEF Fork, IInv, SgTypeOK
  <2>. QED BY <2>1, <2>2 DEF Fork, IInv, SgTypeOK
<1>2. Nesting' /\ MasksNest' /\ StaysBlocked' /\ HandlersDoNotNest'
  BY StackStays DEF Fork
<1>3. \A s \in Signal : pend'[s] = 0 /\ runs'[s] = 0 /\ sent'[s] = 0 /\ kpending' = {}
  BY DEF Fork
<1>4. RunningAreQuiet'
  BY <1>2, <1>3 DEF Fork, RunningAreQuiet, Nesting, LiesRight
<1>5. NothingStranded' /\ HandledAtMostOnce'
  BY <1>3 DEF NothingStranded, HandledAtMostOnce
<1>6. GoneAreQuiet'
  <2>1. Len(sgStack) > 0 => 1 \in 1..Len(sgStack)
    BY EveryFrame DEF IInv
  <2>2. Len(sgStack') > 0 /\ sgStack'[1].kind = "set" => pend'[sgStack'[1].sig] = 0
    BY <1>2, <1>3, <2>1 DEF Fork, Nesting, LiesRight
  <2>. QED BY <1>3, <2>2, EveryFrame DEF Fork, IInv, GoneAreQuiet, LastIsSeen, Sees, Assigns
<1>. QED BY <1>1, <1>2, <1>4, <1>5, <1>6 DEF IInv

LEMMA DespatchExitsKeeps == ASSUME IInv, DespatchExits PROVE IInv'
<1>. DEFINE k == Top.sig
<1>0. k \in Signal /\ pend[k] > 0 /\ ptr[k] = "NULL" /\ pend' = [pend EXCEPT ![k] = 0]
  BY DEF DespatchExits
<1>1. SgTypeOK'
  BY DEF DespatchExits, IInv, SgTypeOK, kernel
<1>2. Nesting' /\ MasksNest' /\ StaysBlocked' /\ HandlersDoNotNest'
  BY StackStays DEF DespatchExits
<1>3. \A u \in Signal : pend'[u] = IF u = k THEN 0 ELSE pend[u]
  BY <1>0 DEF IInv, SgTypeOK
<1>4. RunningAreQuiet'
  BY <1>2, <1>3 DEF DespatchExits, IInv, RunningAreQuiet, Nesting, LiesRight
<1>5. NothingStranded'
  BY <1>3 DEF DespatchExits, IInv, NothingStranded
<1>6. GoneAreQuiet'
  <2>1. pend[k] # 0
    BY <1>0
  <2>. QED BY <1>0, <2>1 DEF DespatchExits, IInv, GoneAreQuiet
<1>7. HandledAtMostOnce'
  BY <1>3, TalliesStay DEF DespatchExits, kernel
<1>. QED BY <1>1, <1>2, <1>4, <1>5, <1>6, <1>7 DEF IInv
-----------------------------------------------------------------------------
\* A step keeps k frames and may put others on them.  What is to be shown of the
\* frames it puts there, and of the mask.
FramesAreRight(k) ==
  \A i \in (k + 1)..Len(sgStack') :
    /\ LiesRight(i)'
    /\ ~flooded' => SavedRight(i)'
    /\ sgStack'[i].kind # "despatch" => sgStack'[i].sig \in mask'
    /\ \A j \in 1..(i - 1) :
         /\ sgStack'[j].kind # "despatch" => LeavesBlocked(j, i)'
         /\ sgStack'[j].kind = "handler" /\ sgStack'[i].kind = "handler" =>
              sgStack'[j].sig # sgStack'[i].sig

MaskIsRight(k) ==
  /\ ~flooded' => mask' = Asked(Len(sgStack))'
  /\ \A i \in 1..k : sgStack[i].kind # "despatch" => sgStack[i].sig \in mask'

\* The innermost of the frames that stay was covered before if it is now.
StaysCovered(k) ==
  k = Len(sgStack) /\ k < Len(sgStack') /\ k > 0 => sgStack[k].kind # "despatch"

LEMMA StackMoves ==
  ASSUME IInv, sgStack' \in Seq(Frame), umask' = umask, flooded => flooded',
         NEW k \in Nat, Keeps(k), StaysCovered(k), FramesAreRight(k), MaskIsRight(k)
  PROVE  Nesting' /\ MasksNest' /\ StaysBlocked' /\ HandlersDoNotNest'
<1>. DEFINE n == Len(sgStack)
            m == Len(sgStack')
<1>1. /\ n \in Nat /\ m \in Nat /\ k <= n /\ k <= m
      /\ DOMAIN sgStack = 1..n /\ DOMAIN sgStack' = 1..m
  BY Domain DEF IInv, SgTypeOK, Keeps
<1>2. /\ \A i \in 1..k : sgStack'[i] = sgStack[i]
      /\ \A i \in 0..k : Asked(i)' = Asked(i)
  BY AskedBelow DEF Keeps
<1>. HIDE DEF n, m
<1>3. \A i \in 1..m : i \in 1..k \/ i \in (k + 1)..m
  BY <1>1
<1>4. ASSUME NEW i \in 1..k
      PROVE  /\ i \in 1..n /\ i \in 1..m /\ i - 1 \in 0..k /\ (i > 1 => i - 1 \in 1..k)
             /\ sgStack[i].kind = "despatch" /\ i < m => i < n
  <2>1. i \in 1..n /\ i \in 1..m /\ i - 1 \in 0..k /\ (i > 1 => i - 1 \in 1..k)
    BY <1>1
  <2>2. ASSUME sgStack[i].kind = "despatch", i < m PROVE i < n
    <3>1. ~(k = n /\ k < m /\ k > 0 /\ i = k)
      BY <2>2 DEF StaysCovered, n, m
    <3>. QED BY <1>1, <2>1, <2>2, <3>1
  <2>. QED BY <2>1, <2>2
<1>5. Nesting'
  <2>. SUFFICES ASSUME NEW i \in 1..k PROVE LiesRight(i)'
    BY <1>3 DEF Nesting, FramesAreRight, m
  <2>1. LiesRight(i)
    BY <1>4 DEF IInv, Nesting, n
  <2>2. sgStack'[i] = sgStack[i] /\ (i > 1 => sgStack'[i - 1] = sgStack[i - 1])
    BY <1>2, <1>4
  <2>3. i > 1 => MayLieOn(sgStack'[i - 1], sgStack'[i])
    BY <2>1, <2>2 DEF LiesRight
  <2>. QED BY <2>1, <2>2, <2>3 DEF LiesRight, MayLieOn
<1>6. MasksNest'
  <2>. SUFFICES ASSUME ~flooded', NEW i \in 1..k PROVE SavedRight(i)'
    BY <1>3 DEF MasksNest, FramesAreRight, MaskIsRight, m
  <2>1. SavedRight(i)
    BY <1>4 DEF IInv, MasksNest, n
  <2>2. sgStack'[i] = sgStack[i] /\ Asked(i - 1)' = Asked(i - 1)
    BY <1>2, <1>4
  <2>. QED BY <1>4, <2>1, <2>2 DEF SavedRight, Assigns, n, m
<1>7. StaysBlocked'
  <2>. SUFFICES ASSUME NEW i \in 1..m, sgStack'[i].kind # "despatch"
                PROVE  /\ sgStack'[i].sig \in mask'
                       /\ \A j \in 1..m : i < j => LeavesBlocked(i, j)'
    BY DEF StaysBlocked, m
  <2>1. sgStack'[i].sig \in mask'
    BY <1>2, <1>3 DEF FramesAreRight, MaskIsRight, m
  <2>2. ASSUME NEW j \in (k + 1)..m, i < j PROVE LeavesBlocked(i, j)'
    <3>1. i \in 1..(j - 1)
      BY <1>1, <2>2
    <3>. QED BY <2>2, <3>1 DEF FramesAreRight, m
  <2>3. ASSUME NEW j \in 1..k, i < j PROVE LeavesBlocked(i, j)'
    <3>1. i \in 1..k /\ i \in 1..n /\ j \in 1..n
      BY <1>1, <2>3
    <3>2. sgStack'[i] = sgStack[i] /\ sgStack'[j] = sgStack[j]
      BY <1>2, <3>1
    <3>3. LeavesBlocked(i, j)
      BY <2>3, <3>1, <3>2 DEF IInv, StaysBlocked, n
    <3>. QED BY <1>4, <3>2, <3>3 DEF LeavesBlocked, Assigns, n, m
  <2>. QED BY <1>3, <2>1, <2>2, <2>3
<1>8. HandlersDoNotNest'
  <2>1. ASSUME NEW i \in 1..m, NEW j \in (k + 1)..m, i < j,
               sgStack'[i].kind = "handler", sgStack'[j].kind = "handler"
        PROVE  sgStack'[i].sig # sgStack'[j].sig
    <3>1. i \in 1..(j - 1)
      BY <1>1, <2>1
    <3>. QED BY <2>1, <3>1 DEF FramesAreRight, m
  <2>2. ASSUME NEW i \in 1..k, NEW j \in 1..k, i # j,
               sgStack'[i].kind = "handler", sgStack'[j].kind = "handler"
        PROVE  sgStack'[i].sig # sgStack'[j].sig
    BY <1>1, <1>2, <1>4, <2>2 DEF IInv, HandlersDoNotNest
  <2>3. ASSUME NEW i \in 1..m, NEW j \in 1..m, i # j,
               sgStack'[i].kind = "handler", sgStack'[j].kind = "handler"
        PROVE  sgStack'[i].sig # sgStack'[j].sig
    <3>1. CASE i \in 1..k /\ j \in 1..k
      BY <2>2, <2>3, <3>1
    <3>2. CASE ~(i \in 1..k /\ j \in 1..k)
      <4>1. (i < j /\ j \in (k + 1)..m) \/ (j < i /\ i \in (k + 1)..m)
        BY <1>1, <2>3, <3>2
      <4>. QED BY <2>1, <2>3, <4>1
    <3>. QED BY <3>1, <3>2
  <2>. QED BY <1>1, <2>3 DEF HandlersDoNotNest
<1>. QED BY <1>5, <1>6, <1>7, <1>8

\* The frames that go leave no signal that they were still to see, and the
\* handlers that come have no signal of theirs counted.
StillSees(k) ==
  \A i \in (k + 1)..Len(sgStack), s \in Signal :
    pend'[s] > 0 /\ Sees(i, s) => i \in 1..Len(sgStack') /\ Sees(i, s)'

NewAreQuiet(k) ==
  \A i \in (k + 1)..Len(sgStack') :
    sgStack'[i].kind = "handler" => pend'[sgStack'[i].sig] = 0

LEMMA SeesStays ==
  ASSUME NEW k \in Nat, Keeps(k), StaysCovered(k), NEW i \in 1..k, NEW s, Sees(i, s),
         Len(sgStack) \in Nat, Len(sgStack') \in Nat
  PROVE  Sees(i, s)'
<1>1. sgStack'[i] = sgStack[i] /\ k <= Len(sgStack) /\ k <= Len(sgStack')
  BY DEF Keeps
<1>2. CASE sgStack[i].sig < s
  BY <1>1, <1>2 DEF Sees
<1>3. CASE i = Len(sgStack) /\ sgStack[i].sig = s
  <2>1. k = Len(sgStack) /\ k > 0 /\ i = k
    BY <1>1, <1>3
  <2>2. k = Len(sgStack')
    BY <1>1, <2>1 DEF StaysCovered, Sees
  <2>. QED BY <1>1, <1>3, <2>1, <2>2 DEF Sees
<1>. QED BY <1>2, <1>3 DEF Sees

LEMMA CountersMove ==
  ASSUME IInv, Nesting', sgStack' \in Seq(Frame), sgScenario' = sgScenario,
         NEW k \in Nat, Keeps(k), StaysCovered(k), StillSees(k), NewAreQuiet(k),
         sig_pending' = sig_pending,
         \A s \in Signal : pend'[s] = pend[s] \/ pend'[s] = 0
  PROVE  RunningAreQuiet' /\ NothingStranded'
<1>. DEFINE n == Len(sgStack)
            m == Len(sgStack')
<1>1. /\ n \in Nat /\ m \in Nat /\ k <= n /\ k <= m
      /\ DOMAIN sgStack = 1..n /\ DOMAIN sgStack' = 1..m
      /\ \A i \in 1..k : sgStack'[i] = sgStack[i]
  BY Domain DEF IInv, SgTypeOK, Keeps
<1>. HIDE DEF n, m
<1>2. RunningAreQuiet'
  <2>1. ASSUME NEW i \in 1..k, sgStack'[i].kind = "handler" PROVE pend'[sgStack'[i].sig] = 0
    <3>1. i \in 1..n /\ sgStack'[i] = sgStack[i]
      BY <1>1
    <3>2. sgStack[i].sig \in Signal /\ pend[sgStack[i].sig] = 0
      BY <2>1, <3>1 DEF IInv, Nesting, LiesRight, RunningAreQuiet, n
    <3>. QED BY <3>1, <3>2
  <2>2. \A i \in 1..m : i \in 1..k \/ i \in (k + 1)..m
    BY <1>1
  <2>. QED BY <2>1, <2>2 DEF RunningAreQuiet, NewAreQuiet, m
<1>3. NothingStranded'
  <2>. SUFFICES ASSUME ~sgScenario.dies, NEW s \in Signal, pend'[s] > 0, ~(sig_pending > 0)
                PROVE  \E i \in 1..m : Sees(i, s)'
    BY <1>1 DEF NothingStranded, Sees, m
  <2>0. pend[s] > 0
    OBVIOUS
  <2>4. \E i \in DOMAIN sgStack :
           /\ sgStack[i].kind = "despatch"
           /\ sgStack[i].sig < s \/ (i = Len(sgStack) /\ sgStack[i].sig = s)
    BY <2>0 DEF IInv, NothingStranded
  <2>1. PICK i \in 1..n : Sees(i, s)
    BY <1>1, <2>4 DEF Sees
  <2>2. CASE i \in 1..k
    BY <1>1, <2>1, <2>2, SeesStays DEF n, m
  <2>3. CASE i \notin 1..k
    <3>1. i \in (k + 1)..n
      BY <1>1, <2>1, <2>3
    <3>. QED BY <2>1, <3>1 DEF StillSees, n, m
  <2>. QED BY <2>2, <2>3
<1>. QED BY <1>2, <1>3

LEMMA GoneMove ==
  ASSUME IInv, sgStack' \in Seq(Frame), sgScenario' = sgScenario,
         NEW k \in Nat, Keeps(k), StaysCovered(k), StillSees(k),
         over' = over \/ over' # "exit",
         k = 0 /\ ~sgScenario.dies => LastIsSeen',
         ~sgScenario.dies /\ "handler" \notin sgScenario.deletes =>
           /\ \A s \in Signal : ptr'[s] = "NULL" => disp'[s] = "default" /\ pend'[s] = 0
           /\ \A i \in (k + 1)..Len(sgStack') :
                Assigns(i)' /\ sgStack'[i].value = "NULL" => i = 1,
         \A s \in Signal : pend'[s] = pend[s] \/ pend'[s] = 0, pend' \in [Signal -> Nat]
  PROVE  GoneAreQuiet'
<1>. DEFINE n == Len(sgStack)
            m == Len(sgStack')
<1>1. /\ n \in Nat /\ m \in Nat /\ k <= n /\ k <= m
      /\ \A i \in 1..k : sgStack'[i] = sgStack[i]
  BY Domain DEF IInv, SgTypeOK, Keeps
<1>. HIDE DEF n, m
<1>. SUFFICES ASSUME ~sgScenario.dies, "handler" \notin sgScenario.deletes
              PROVE  /\ over' # "exit" /\ LastIsSeen'
                     /\ \A i \in 1..m : Assigns(i)' /\ sgStack'[i].value = "NULL" => i = 1
  BY DEF GoneAreQuiet, m
<1>2. over' # "exit"
  BY DEF IInv, GoneAreQuiet
<1>3. ASSUME NEW i \in 1..m, Assigns(i)', sgStack'[i].value = "NULL" PROVE i = 1
  <2>1. CASE i \in 1..k
    <3>1. i \in 1..n /\ sgStack'[i] = sgStack[i]
      BY <1>1, <2>1
    <3>. QED BY <1>3, <3>1 DEF IInv, GoneAreQuiet, Assigns, n
  <2>2. CASE i \notin 1..k
    <3>1. i \in (k + 1)..m
      BY <1>1, <2>2
    <3>. QED BY <1>3, <3>1 DEF m
  <2>. QED BY <2>1, <2>2
<1>4. CASE k > 0
  <2>. SUFFICES ASSUME sgStack'[1].kind = "set", sgStack'[1].value = "NULL",
                       pend'[sgStack'[1].sig] # 0
                PROVE  m >= 2 /\ Sees(2, sgStack[1].sig)'
    BY <1>2, <1>3 DEF LastIsSeen, m
  <2>1. 1 \in 1..k /\ 1 \in 1..n /\ sgStack'[1] = sgStack[1] /\ n > 0
    BY <1>1, <1>4
  <2>5. PICK s \in Signal : s = sgStack[1].sig
    <3>1. LiesRight(1)
      BY <2>1 DEF IInv, Nesting, n
    <3>2. sgStack[1].sig \in Signal
      BY <2>1, <3>1 DEF LiesRight
    <3>. QED BY <3>2
  <2>2. pend[s] # 0 /\ pend'[s] > 0
    <3>1. pend'[s] \in Nat /\ (pend'[s] = pend[s] \/ pend'[s] = 0)
      OBVIOUS
    <3>2. pend'[s] # 0
      BY <2>1, <2>5
    <3>. QED BY <3>1, <3>2
  <2>3. n >= 2 /\ Sees(2, s)
    BY <2>1, <2>2, <2>5 DEF IInv, GoneAreQuiet, LastIsSeen, n
  <2>4. m >= 2 /\ Sees(2, s)'
    <3>1. CASE k >= 2
      <4>1. 2 \in 1..k /\ m >= 2
        BY <1>1, <3>1
      <4>. QED BY <1>1, <2>3, <4>1, SeesStays DEF n, m
    <3>2. CASE k = 1
      <4>1. 2 \in (k + 1)..n
        BY <1>1, <2>3, <3>2
      <4>2. 2 \in 1..m /\ Sees(2, s)'
        BY <2>2, <2>3, <4>1 DEF StillSees, n, m
      <4>. QED BY <1>1, <4>2
    <3>. QED BY <1>4, <3>1, <3>2
  <2>. QED BY <2>1, <2>4, <2>5 DEF Sees
<1>. QED BY <1>2, <1>3, <1>4
-----------------------------------------------------------------------------
\* Steps that put a frame on Perl code.
LEMMA PutOnPerlCode ==
  ASSUME IInv, NEW f \in Frame, InPerlCode, PushFrame(f), f.kind \in {"despatch", "setsig"},
         f.kind = "setsig" => f.sig \in Signal /\ f.save = mask,
         umask' = umask, flooded' = flooded, sgScenario' = sgScenario, UNCHANGED counters,
         mask' = mask \cup (IF f.kind = "despatch" THEN {} ELSE {f.sig}),
         UNCHANGED <<ptr, disp, over>>,
         f.value = "NULL" /\ f.kind = "setsig" /\ "handler" \notin sgScenario.deletes =>
           sgStack = <<>>
  PROVE  /\ Nesting' /\ MasksNest' /\ StaysBlocked' /\ HandlersDoNotNest'
         /\ RunningAreQuiet' /\ NothingStranded' /\ GoneAreQuiet'
         /\ sgStack' \in Seq(Frame)
<1>0. PICK n \in Nat : n = Len(sgStack)
  BY EveryFrame DEF IInv
<1>1. sgStack' \in Seq(Frame) /\ Len(sgStack') = n + 1 /\ Keeps(n) /\ sgStack'[n + 1] = f
  BY <1>0, StackPushes DEF IInv, SgTypeOK
<1>2. /\ n \in Nat /\ (n > 0 => sgStack[n].kind = "handler")
      /\ \A i \in 1..n : sgStack'[i] = sgStack[i]
  BY <1>0, <1>1, PerlCodeBelow DEF Keeps, IInv
<1>3. n = 0 \/ (n > 0 /\ n \in 1..n /\ n + 1 > 1 /\ (n + 1) - 1 = n /\ n + 1 # 1)
  BY <1>2
<1>4. \A i \in (n + 1)..(n + 1) : i = n + 1
  BY <1>2
<1>5. n \in 0..n /\ \A j \in 1..((n + 1) - 1) : j \in 1..n
  BY <1>2
<1>6. StaysCovered(n)
  BY <1>0, <1>2 DEF StaysCovered
<1>7. FramesAreRight(n)
  <2>1. LiesRight(n + 1)'
    BY <1>1, <1>2, <1>3 DEF LiesRight, MayLieOn
  <2>2. ASSUME ~flooded' PROVE SavedRight(n + 1)'
    <3>1. mask = Asked(n) /\ Asked(n)' = Asked(n) /\ (n + 1) - 1 = n /\ ~(n + 1 < n + 1)
      BY <1>1, <1>2, <1>5, <2>2, <1>0, AskedBelow DEF IInv, MasksNest
    <3>. QED BY <1>1, <3>1 DEF SavedRight, Assigns
  <2>3. f.kind # "despatch" => f.sig \in mask'
    OBVIOUS
  <2>4. ASSUME NEW j \in 1..n
        PROVE  /\ sgStack'[j].kind # "despatch" => LeavesBlocked(j, n + 1)'
               /\ f.kind # "handler"
    <3>1. sgStack[j].kind # "despatch" => sgStack[j].sig \in mask
      BY <1>0 DEF IInv, StaysBlocked
    <3>. QED BY <1>1, <1>2, <3>1 DEF LeavesBlocked, Assigns
  <2>. QED BY <1>1, <1>4, <1>5, <2>1, <2>2, <2>3, <2>4 DEF FramesAreRight
<1>8. MaskIsRight(n)
  <2>1. ASSUME ~flooded' PROVE mask' = Asked(n + 1)'
    <3>1. mask = Asked(n) /\ Asked(n)' = Asked(n)
      BY <1>1, <1>5, <2>1, <1>0, AskedBelow DEF IInv, MasksNest
    <3>2. 1..(n + 1) = 1..n \cup {n + 1}
      BY <1>2
    <3>3. Asked(n + 1)' = Asked(n)' \cup (IF f.kind = "despatch" THEN {} ELSE {f.sig})
      BY <1>1, <3>2 DEF Asked
    <3>. QED BY <3>1, <3>3
  <2>2. \A i \in 1..n : sgStack[i].kind # "despatch" => sgStack[i].sig \in mask
    BY <1>0 DEF IInv, StaysBlocked
  <2>. QED BY <1>1, <2>1, <2>2 DEF MaskIsRight
<1>9. Nesting' /\ MasksNest' /\ StaysBlocked' /\ HandlersDoNotNest'
  BY <1>1, <1>2, <1>6, <1>7, <1>8, StackMoves
<1>10. StillSees(n) /\ NewAreQuiet(n)
  <2>1. (n + 1)..n = {}
    BY <1>2
  <2>. QED BY <1>0, <1>1, <1>4, <2>1 DEF StillSees, NewAreQuiet
<1>11. RunningAreQuiet' /\ NothingStranded'
  BY <1>1, <1>2, <1>6, <1>9, <1>10, CountersMove DEF counters
<1>12. GoneAreQuiet'
  <2>1. n = 0 => LastIsSeen'
    BY <1>1 DEF LastIsSeen
  <2>2. ~sgScenario.dies /\ "handler" \notin sgScenario.deletes =>
           /\ \A s \in Signal : ptr'[s] = "NULL" => disp'[s] = "default" /\ pend'[s] = 0
           /\ \A i \in (n + 1)..Len(sgStack') :
                Assigns(i)' /\ sgStack'[i].value = "NULL" => i = 1
    <3>1. sgStack = <<>> => n = 0 /\ n + 1 = 1
      BY <1>0
    <3>. QED BY <1>1, <1>4, <3>1 DEF IInv, GoneAreQuiet, Assigns, counters
  <2>3. pend' \in [Signal -> Nat] /\ pend' = pend
    BY DEF IInv, SgTypeOK, counters
  <2>. QED BY <1>1, <1>2, <1>6, <1>10, <2>1, <2>2, <2>3, GoneMove DEF counters
<1>. QED BY <1>1, <1>9, <1>11, <1>12

LEMMA AsyncCheckKeeps == ASSUME IInv, AsyncCheck PROVE IInv'
<1>1. /\ Nesting' /\ MasksNest' /\ StaysBlocked' /\ HandlersDoNotNest'
      /\ RunningAreQuiet' /\ NothingStranded' /\ GoneAreQuiet' /\ sgStack' \in Seq(Frame)
  <2>1. SgTypeOK
    BY DEF IInv
  <2>2. /\ DespatchFrame \in Frame /\ DespatchFrame.kind = "despatch"
        /\ InPerlCode /\ PushFrame(DespatchFrame)
        /\ umask' = umask /\ flooded' = flooded /\ sgScenario' = sgScenario
        /\ UNCHANGED counters /\ UNCHANGED <<ptr, disp, over>> /\ mask' = mask
    BY <2>1, NewFrames DEF AsyncCheck, kernel, program
  <2>. QED BY <2>2, PutOnPerlCode
<1>2. SgTypeOK' /\ HandledAtMostOnce'
  BY <1>1, TalliesStay DEF AsyncCheck, IInv, SgTypeOK, kernel, counters, program
<1>. QED BY <1>1, <1>2 DEF IInv

LEMMA SetSigKeeps ==
  ASSUME IInv, NEW s \in Signal, NEW v \in {"code", "IGNORE", "DEFAULT", "NULL"}, SetSig(s, v)
  PROVE  IInv'
<1>1. /\ Nesting' /\ MasksNest' /\ StaysBlocked' /\ HandlersDoNotNest'
      /\ RunningAreQuiet' /\ NothingStranded' /\ GoneAreQuiet' /\ sgStack' \in Seq(Frame)
  <2>. DEFINE f == SetFrame(s, v)
  <2>1. SgTypeOK
    BY DEF IInv
  <2>2. /\ f \in Frame /\ f.kind = "setsig" /\ f.sig = s /\ f.save = mask /\ f.value = v
    BY <2>1, NewFrames
  <2>3. /\ InPerlCode /\ PushFrame(f) /\ umask' = umask /\ flooded' = flooded
        /\ sgScenario' = sgScenario /\ UNCHANGED counters
        /\ UNCHANGED <<ptr, disp, over>> /\ mask' = mask \cup {s}
        /\ v = "NULL" => Deletes
    BY DEF SetSig, kernel
  <2>4. v = "NULL" /\ "handler" \notin sgScenario.deletes => sgStack = <<>>
    BY <2>3 DEF Deletes
  <2>. HIDE DEF f
  <2>. QED BY <2>2, <2>3, <2>4, PutOnPerlCode
<1>2. SgTypeOK'
  <2>1. left' \in Budget
    BY BudgetSpent DEF SetSig, IInv, SgTypeOK
  <2>. QED BY <1>1, <2>1 DEF SetSig, IInv, SgTypeOK, kernel, counters
<1>3. HandledAtMostOnce'
  BY TalliesStay DEF SetSig, kernel, counters
<1>. QED BY <1>1, <1>2, <1>3 DEF IInv
-----------------------------------------------------------------------------
\* Steps after which the despatch_signals of frame k + 1 is the innermost.
LEMMA DespatchOnTop ==
  ASSUME IInv, NEW k \in Nat, k < Len(sgStack), sgStack[k + 1].kind = "despatch",
         NEW f \in Frame, f.kind = "despatch", sgStack' = SubSeq(sgStack, 1, k) \o <<f>>,
         umask' = umask, flooded' = flooded, MaskIsRight(k)
  PROVE  /\ Nesting' /\ MasksNest' /\ StaysBlocked' /\ HandlersDoNotNest'
         /\ sgStack' \in Seq(Frame) /\ Len(sgStack') = k + 1 /\ Keeps(k)
         /\ sgStack'[k + 1] = f /\ StaysCovered(k) /\ NewAreQuiet(k)
<1>1. Len(sgStack) \in Nat /\ sgStack \in Seq(Frame) /\ k \in 0..Len(sgStack)
  BY EveryFrame DEF IInv, SgTypeOK
<1>2. /\ sgStack' \in Seq(Frame) /\ Len(sgStack') = k + 1 /\ Keeps(k)
      /\ sgStack'[k + 1] = f
  BY <1>1, StackGets
<1>3. /\ \A i \in 1..k : sgStack'[i] = sgStack[i]
      /\ \A i \in (k + 1)..(k + 1) : i = k + 1
      /\ k + 1 \in 1..Len(sgStack) /\ (k + 1 > 1 => (k + 1) - 1 \in 1..k)
      /\ ~(k + 1 < k + 1)
  BY <1>1, <1>2 DEF Keeps
<1>4. LiesRight(k + 1)'
  <2>1. LiesRight(k + 1)
    BY <1>3 DEF IInv, Nesting
  <2>2. k + 1 > 1 => sgStack'[(k + 1) - 1] = sgStack[(k + 1) - 1]
    BY <1>3
  <2>. QED BY <1>2, <2>1, <2>2 DEF LiesRight, MayLieOn
<1>5. FramesAreRight(k)
  <2>1. SavedRight(k + 1)'
    BY <1>2, <1>3 DEF SavedRight, Assigns
  <2>2. \A j \in 1..k : LeavesBlocked(j, k + 1)'
    BY <1>2, <1>3 DEF LeavesBlocked, Assigns
  <2>3. (k + 1) - 1 = k
    OBVIOUS
  <2>. QED BY <1>2, <1>3, <1>4, <2>1, <2>2, <2>3 DEF FramesAreRight
<1>6. StaysCovered(k)
  BY DEF StaysCovered
<1>7. Nesting' /\ MasksNest' /\ StaysBlocked' /\ HandlersDoNotNest'
  BY <1>2, <1>5, <1>6, StackMoves
<1>8. NewAreQuiet(k)
  BY <1>2, <1>3 DEF NewAreQuiet
<1>. QED BY <1>2, <1>6, <1>7, <1>8

\* What is asked for with a frame of despatch_signals is what is asked for below.
LEMMA AskedSame ==
  ASSUME NEW k \in Nat, sgStack[k + 1].kind = "despatch" PROVE Asked(k + 1) = Asked(k)
<1>1. 1..(k + 1) = 1..k \cup {k + 1}
  OBVIOUS
<1>. QED BY <1>1 DEF Asked

LEMMA AskedMore ==
  ASSUME NEW k \in Nat, sgStack[k + 1].kind # "despatch"
  PROVE  Asked(k + 1) = Asked(k) \cup {sgStack[k + 1].sig}
<1>1. 1..(k + 1) = 1..k \cup {k + 1}
  OBVIOUS
<1>. QED BY <1>1 DEF Asked

\* despatch_signals goes on to another signal.
LEMMA DespatchGoesOn ==
  ASSUME IInv, In("despatch"), NEW g \in Nat, Top.sig <= g, g <= MaxSignal + 1,
         SetTop([Top EXCEPT !.sig = g]), mask' = mask, UNCHANGED <<ptr, disp, program>>,
         sig_pending' = sig_pending \/ (g = 1 /\ Top.sig = 0),
         \A s \in Signal : pend'[s] = pend[s] \/ pend'[s] = 0,
         pend' \in [Signal -> Nat],
         \A s \in Signal : Top.sig <= s /\ s < g => pend'[s] = 0
  PROVE  /\ Nesting' /\ MasksNest' /\ StaysBlocked' /\ HandlersDoNotNest'
         /\ RunningAreQuiet' /\ NothingStranded' /\ GoneAreQuiet'
         /\ sgStack' \in Seq(Frame)
<1>0. PICK k \in Nat : k + 1 = Len(sgStack)
  <2>1. Len(sgStack) \in Nat /\ Len(sgStack) >= 1
    BY TopFrame DEF In, IInv
  <2>2. Len(sgStack) - 1 \in Nat /\ (Len(sgStack) - 1) + 1 = Len(sgStack)
    BY <2>1
  <2>. QED BY <2>2
<1>. DEFINE f == [Top EXCEPT !.sig = g]
<1>1. /\ Top = sgStack[k + 1] /\ Top \in Frame /\ Top.kind = "despatch"
      /\ Below = SubSeq(sgStack, 1, k) /\ Top.sig \in Nat
  <2>1. SgTypeOK /\ sgStack # <<>> /\ Len(sgStack) - 1 = k
    BY <1>0 DEF In, IInv
  <2>2. Top \in Frame
    BY <2>1, TopFrame
  <2>. QED BY <1>0, <2>1, <2>2, TopFrame, FrameFields DEF In
<1>2. f \in Frame /\ f.kind = "despatch" /\ f.sig = g
  <2>1. g \in 0..(MaxSignal + 1)
    BY SignalRange
  <2>2. \A t \in Frame : LET h == [t EXCEPT !.sig = g]
                        IN  h \in Frame /\ h.kind = t.kind /\ h.sig = g
    <3>. SUFFICES ASSUME NEW t \in Frame
                  PROVE  LET h == [t EXCEPT !.sig = g]
                         IN  h \in Frame /\ h.kind = t.kind /\ h.sig = g
      OBVIOUS
    <3>. QED BY <2>1 DEF Frame
  <2>. QED BY <1>1, <2>2
<1>. HIDE DEF f
<1>3. sgStack' = SubSeq(sgStack, 1, k) \o <<f>>
  BY <1>1 DEF SetTop, f
<1>4. umask' = umask /\ flooded' = flooded /\ sgScenario' = sgScenario /\ over' = over
  BY DEF program
<1>5. k \in 0..Len(sgStack) /\ k < Len(sgStack) /\ k + 1 \in 1..Len(sgStack)
  BY <1>0
<1>6. MaskIsRight(k)
  <2>1. sgStack' \in Seq(Frame) /\ Len(sgStack') = k + 1 /\ Keeps(k) /\ sgStack'[k + 1] = f
    BY <1>2, <1>3, <1>5, StackGets DEF IInv, SgTypeOK
  <2>2. ASSUME ~flooded' PROVE mask' = Asked(k + 1)'
    <3>1. mask = Asked(k + 1)
      BY <1>0, <1>4, <2>2 DEF IInv, MasksNest
    <3>2. Asked(k + 1) = Asked(k) /\ Asked(k + 1)' = Asked(k)'
      <4>1. sgStack'[k + 1].kind = "despatch"
        BY <1>2, <2>1
      <4>2. 1..(k + 1) = 1..k \cup {k + 1}
        OBVIOUS
      <4>. QED BY <1>1, <4>1, <4>2 DEF Asked
    <3>3. Asked(k)' = Asked(k)
      BY <1>4, <2>1, AskedBelow
    <3>. QED BY <3>1, <3>2, <3>3
  <2>3. ASSUME NEW i \in 1..k, sgStack[i].kind # "despatch" PROVE sgStack[i].sig \in mask'
    <3>1. i \in 1..Len(sgStack)
      BY <1>5
    <3>. QED BY <2>3, <3>1 DEF IInv, StaysBlocked
  <2>4. ~flooded' => mask' = Asked(Len(sgStack))'
    <3>1. Asked(Len(sgStack))' = Asked(k + 1)'
      BY <2>1
    <3>. QED BY <2>2, <3>1
  <2>. QED BY <2>3, <2>4 DEF MaskIsRight
<1>7. /\ Nesting' /\ MasksNest' /\ StaysBlocked' /\ HandlersDoNotNest'
      /\ sgStack' \in Seq(Frame) /\ Len(sgStack') = k + 1 /\ Keeps(k)
      /\ sgStack'[k + 1] = f /\ StaysCovered(k) /\ NewAreQuiet(k)
  BY <1>1, <1>2, <1>3, <1>4, <1>5, <1>6, DespatchOnTop
<1>8. ASSUME NEW s \in Signal, pend'[s] > 0, Top.sig <= s PROVE Sees(k + 1, s)'
  <2>1. s \in Nat /\ ~(s < g)
    BY <1>8, SignalRange
  <2>. QED BY <1>2, <1>7, <2>1 DEF Sees
<1>9. StillSees(k)
  <2>1. \A i \in (k + 1)..Len(sgStack) : i = k + 1
    BY <1>0
  <2>2. ASSUME NEW s \in Signal, pend'[s] > 0, Sees(k + 1, s) PROVE Sees(k + 1, s)'
    <3>1. Top.sig <= s
      BY <1>1, <2>2, SignalRange DEF Sees
    <3>. QED BY <1>8, <2>2, <3>1
  <2>. QED BY <1>5, <1>7, <2>1, <2>2 DEF StillSees
<1>10. RunningAreQuiet' /\ NothingStranded'
  <2>1. CASE sig_pending' = sig_pending
    BY <1>4, <1>7, <1>9, <2>1, CountersMove
  <2>2. CASE g = 1 /\ Top.sig = 0
    <3>1. \A s \in Signal : pend'[s] > 0 => Sees(k + 1, s)'
      BY <1>8, <2>2, SignalRange
    <3>2. k + 1 \in DOMAIN sgStack'
      BY <1>7, Domain
    <3>3. NothingStranded'
      BY <3>1, <3>2 DEF NothingStranded, Sees
    <3>4. RunningAreQuiet'
      <4>1. \A i \in 1..(k + 1) : i \in 1..k \/ i = k + 1
        OBVIOUS
      <4>2. ASSUME NEW i \in 1..k, sgStack'[i].kind = "handler"
            PROVE  pend'[sgStack'[i].sig] = 0
        <5>1. i \in 1..Len(sgStack) /\ sgStack'[i] = sgStack[i]
          BY <1>5, <1>7 DEF Keeps
        <5>2. sgStack[i].sig \in Signal /\ pend[sgStack[i].sig] = 0
          BY <4>2, <5>1 DEF IInv, Nesting, LiesRight, RunningAreQuiet
        <5>. QED BY <5>1, <5>2
      <4>. QED BY <1>2, <1>7, <4>1, <4>2 DEF RunningAreQuiet
    <3>. QED BY <3>3, <3>4
  <2>. QED BY <2>1, <2>2
<1>11. GoneAreQuiet'
  <2>1. LastIsSeen' \/ k # 0
    BY <1>2, <1>7 DEF LastIsSeen
  <2>2. \A i \in (k + 1)..(k + 1) : i = k + 1
    OBVIOUS
  <2>3. \A i \in (k + 1)..Len(sgStack') : ~Assigns(i)'
    BY <1>2, <1>7, <2>2 DEF Assigns
  <2>4. ~sgScenario.dies /\ "handler" \notin sgScenario.deletes =>
          \A s \in Signal : ptr'[s] = "NULL" => disp'[s] = "default" /\ pend'[s] = 0
    BY DEF IInv, GoneAreQuiet
  <2>. QED BY <1>4, <1>7, <1>9, <2>1, <2>3, <2>4, GoneMove
<1>. QED BY <1>7, <1>10, <1>11

LEMMA DespatchBeginsKeeps == ASSUME IInv, DespatchBegins PROVE IInv'
<1>1. /\ Nesting' /\ MasksNest' /\ StaysBlocked' /\ HandlersDoNotNest'
      /\ RunningAreQuiet' /\ NothingStranded' /\ GoneAreQuiet' /\ sgStack' \in Seq(Frame)
  <2>1. /\ In("despatch") /\ Top.sig = 0 /\ SetTop([Top EXCEPT !.sig = 1])
        /\ mask' = mask /\ UNCHANGED <<ptr, disp, program>> /\ pend' = pend
    BY DEF DespatchBegins, kernel
  <2>2. pend' \in [Signal -> Nat]
    BY <2>1 DEF IInv, SgTypeOK
  <2>3. 1 \in Nat /\ 1 <= MaxSignal + 1 /\ 0 <= 1
    BY SignalRange
  <2>4. \A s \in Signal : Top.sig <= s /\ s < 1 => pend'[s] = 0
    BY SignalRange
  <2>. QED BY <2>1, <2>2, <2>3, <2>4, DespatchGoesOn
<1>2. SgTypeOK'
  BY <1>1 DEF DespatchBegins, IInv, SgTypeOK, kernel, program
<1>3. HandledAtMostOnce'
  BY TalliesStay DEF DespatchBegins, kernel
<1>. QED BY <1>1, <1>2, <1>3 DEF IInv

\* A round of the loop that calls no handler.
LEMMA RoundKeeps ==
  ASSUME IInv, In("despatch"), Top.sig \in Signal, SetTop([Top EXCEPT !.sig = @ + 1]),
         UNCHANGED <<kernel, mask, ptr, sig_pending, runs, program>>,
         pend' = pend \/ pend' = [pend EXCEPT ![Top.sig] = 0], pend'[Top.sig] = 0
  PROVE  IInv'
<1>0. PICK g \in Nat : g = Top.sig + 1
  BY SignalRange
<1>1. SetTop([Top EXCEPT !.sig = g]) /\ Top.sig <= g /\ g <= MaxSignal + 1
  BY <1>0, SignalRange
<1>2. pend' \in [Signal -> Nat] /\ \A s \in Signal : pend'[s] = pend[s] \/ pend'[s] = 0
  <2>1. PICK t \in Signal : t = Top.sig
    OBVIOUS
  <2>2. pend \in [Signal -> Nat] /\ (pend' = pend \/ pend' = [pend EXCEPT ![t] = 0])
    BY <2>1 DEF IInv, SgTypeOK
  <2>. QED BY <2>2
<1>3. \A s \in Signal : Top.sig <= s /\ s < g => pend'[s] = 0
  <2>1. \A s \in Signal : Top.sig <= s /\ s < g => s = Top.sig
    BY <1>0, SignalRange
  <2>. QED BY <2>1
<1>4. /\ Nesting' /\ MasksNest' /\ StaysBlocked' /\ HandlersDoNotNest'
      /\ RunningAreQuiet' /\ NothingStranded' /\ GoneAreQuiet' /\ sgStack' \in Seq(Frame)
  <2>1. UNCHANGED <<ptr, disp, program>> /\ mask' = mask /\ sig_pending' = sig_pending
    BY DEF kernel
  <2>. QED BY <1>1, <1>2, <1>3, <2>1, DespatchGoesOn
<1>5. SgTypeOK'
  BY <1>2, <1>4 DEF IInv, SgTypeOK, kernel, program
<1>6. HandledAtMostOnce'
  BY <1>2, TalliesStay DEF kernel
<1>. QED BY <1>4, <1>5, <1>6 DEF IInv

LEMMA DespatchSkipsKeeps == ASSUME IInv, DespatchSkips PROVE IInv'
  BY RoundKeeps DEF DespatchSkips, counters

LEMMA DespatchWarnsKeeps == ASSUME IInv, DespatchWarns PROVE IInv'
<1>1. pend \in [Signal -> Nat]
  BY DEF IInv, SgTypeOK
<1>. QED BY <1>1, RoundKeeps DEF DespatchWarns

LEMMA DespatchCallsKeeps == ASSUME IInv, DespatchCalls PROVE IInv'
<1>0. PICK k \in Nat : k + 1 = Len(sgStack)
  <2>1. Len(sgStack) \in Nat /\ Len(sgStack) >= 1
    BY TopFrame DEF DespatchCalls, In, IInv
  <2>2. Len(sgStack) - 1 \in Nat /\ (Len(sgStack) - 1) + 1 = Len(sgStack)
    BY <2>1
  <2>. QED BY <2>2
<1>01. /\ Top = sgStack[k + 1] /\ Top \in Frame /\ Top.kind = "despatch"
       /\ Below = SubSeq(sgStack, 1, k)
  <2>1. SgTypeOK /\ sgStack # <<>> /\ Len(sgStack) - 1 = k
    BY <1>0 DEF DespatchCalls, In, IInv
  <2>. QED BY <1>0, <2>1, TopFrame DEF DespatchCalls, In
<1>02. PICK s \in Signal : s = Top.sig
  BY DEF DespatchCalls
<1>03. PICK b \in BOOLEAN : b = (s \in mask)
  <2>1. (s \in mask) \in BOOLEAN
    <3>1. CASE s \in mask
      <4>1. (s \in mask) = TRUE
        BY <3>1
      <4>. QED BY <4>1
    <3>2. CASE s \notin mask
      <4>1. (s \in mask) = FALSE
        BY <3>2
      <4>. QED BY <4>1
    <3>. QED BY <3>1, <3>2
  <2>. QED BY <2>1, Zenon
<1>04. PICK f \in Frame : f = [Top EXCEPT !.was = s \in mask]
  <2>1. [Top EXCEPT !.was = b] \in Frame
    BY <1>01 DEF Frame
  <2>. QED BY <1>03, <2>1
<1>05. f.kind = "despatch" /\ f.sig = s /\ (f.was <=> s \in mask)
  <2>1. /\ [Top EXCEPT !.was = b].kind = Top.kind /\ [Top EXCEPT !.was = b].sig = Top.sig
        /\ [Top EXCEPT !.was = b].was = b
    BY <1>01 DEF Frame
  <2>. QED BY <1>01, <1>02, <1>03, <1>04, <2>1
<1>06. PICK h \in Frame : h = HandlerFrame(s) /\ h.kind = "handler" /\ h.sig = s
  BY NewFrames DEF IInv
<1>1. /\ sgStack' \in Seq(Frame) /\ Len(sgStack') = k + 2 /\ Keeps(k)
      /\ sgStack'[k + 1] = f /\ sgStack'[k + 2] = h
  <2>1. sgStack' = SubSeq(sgStack, 1, k) \o <<f, h>>
    BY <1>01, <1>02, <1>04, <1>06 DEF DespatchCalls
  <2>2. k \in 0..Len(sgStack) /\ sgStack \in Seq(Frame)
    BY <1>0 DEF IInv, SgTypeOK
  <2>. QED BY <2>1, <2>2, StackGetsTwo
<1>2. /\ umask' = umask /\ flooded' = flooded /\ sgScenario' = sgScenario /\ over' = over
      /\ mask' = mask \cup {s} /\ pend[s] > 0 /\ sig_pending' = sig_pending
      /\ UNCHANGED <<ptr, kernel>> /\ disp' = disp
      /\ pend' = [pend EXCEPT ![s] = 0] /\ runs' = [runs EXCEPT ![s] = @ + 1]
  BY <1>02 DEF DespatchCalls, program, kernel
<1>3. \A u \in Signal : pend'[u] = IF u = s THEN 0 ELSE pend[u]
  BY <1>2 DEF IInv, SgTypeOK
<1>4. /\ \A i \in 1..k : sgStack'[i] = sgStack[i] /\ i \in 1..Len(sgStack)
      /\ \A i \in (k + 1)..(k + 2) : i = k + 1 \/ i = k + 2
      /\ \A i \in (k + 1)..(k + 1) : i = k + 1
      /\ \A i \in 1..((k + 2) - 1) : i \in 1..k \/ i = k + 1
      /\ (k + 1) - 1 = k /\ (k + 2) - 1 = k + 1 /\ k + 2 # 1 /\ k + 2 > 1 /\ k + 1 # k + 2
      /\ k + 1 \in 1..Len(sgStack) /\ (k + 1 > 1 => k \in 1..k) /\ k \in 0..k
      /\ ~(k + 2 < k + 2)
  BY <1>0, <1>1 DEF Keeps
<1>5. \A i \in 1..k : sgStack[i].kind # "despatch" => sgStack[i].sig \in mask
  BY <1>4 DEF IInv, StaysBlocked
<1>6. StaysCovered(k)
  BY <1>0 DEF StaysCovered
<1>7. ASSUME ~flooded PROVE mask = Asked(k) /\ Asked(k)' = Asked(k)
  <2>1. mask = Asked(k + 1)
    BY <1>0, <1>7 DEF IInv, MasksNest
  <2>. QED BY <1>01, <1>1, <1>2, <1>4, <2>1, AskedSame, AskedBelow
<1>8. FramesAreRight(k)
  <2>1. LiesRight(k + 1)'
    <3>1. LiesRight(k + 1)
      BY <1>4 DEF IInv, Nesting
    <3>. QED BY <1>01, <1>05, <1>1, <1>4, <3>1 DEF LiesRight, MayLieOn
  <2>2. LiesRight(k + 2)'
    BY <1>05, <1>06, <1>1, <1>4 DEF LiesRight, MayLieOn
  <2>3. ~flooded' => SavedRight(k + 1)' /\ SavedRight(k + 2)'
    BY <1>05, <1>06, <1>1, <1>2, <1>4, <1>7 DEF SavedRight, Assigns
  <2>4. \A j \in 1..k : sgStack'[j].kind # "despatch" => LeavesBlocked(j, k + 1)'
    BY <1>05, <1>1, <1>4, <1>5 DEF LeavesBlocked, Assigns
  <2>5. \A j \in 1..(k + 1) : LeavesBlocked(j, k + 2)'
    BY <1>06, <1>1 DEF LeavesBlocked, Assigns
  <2>6. \A j \in 1..(k + 1) : sgStack'[j].kind = "handler" => sgStack'[j].sig # s
    <3>1. \A j \in 1..k : sgStack[j].kind = "handler" => pend[sgStack[j].sig] = 0
      BY <1>4 DEF IInv, RunningAreQuiet
    <3>. QED BY <1>05, <1>1, <1>2, <1>4, <3>1
  <2>7. s \in mask'
    BY <1>2
  <2>. QED BY <1>05, <1>06, <1>1, <1>4, <2>1, <2>2, <2>3, <2>4, <2>5, <2>6, <2>7
           DEF FramesAreRight
<1>9. MaskIsRight(k)
  <2>1. Asked(k + 1)' = Asked(k)' /\ Asked(k + 2)' = Asked(k + 1)' \cup {s}
    <3>1. 1..(k + 1) = 1..k \cup {k + 1} /\ 1..(k + 2) = 1..(k + 1) \cup {k + 2}
      OBVIOUS
    <3>. QED BY <1>05, <1>06, <1>1, <3>1 DEF Asked
  <2>2. ~flooded' => mask' = Asked(k + 2)'
    BY <1>2, <1>7, <2>1
  <2>3. Asked(Len(sgStack))' = Asked(k + 2)'
    BY <1>1
  <2>4. \A i \in 1..k : sgStack[i].kind # "despatch" => sgStack[i].sig \in mask'
    BY <1>2, <1>5
  <2>. QED BY <2>2, <2>3, <2>4 DEF MaskIsRight
<1>10. Nesting' /\ MasksNest' /\ StaysBlocked' /\ HandlersDoNotNest'
  BY <1>1, <1>2, <1>6, <1>8, <1>9, StackMoves
<1>11. StillSees(k) /\ NewAreQuiet(k)
  <2>1. ASSUME NEW u \in Signal, pend'[u] > 0, Sees(k + 1, u) PROVE Sees(k + 1, u)'
    <3>1. u # s
      BY <1>3, <2>1
    <3>. QED BY <1>01, <1>02, <1>05, <1>1, <2>1, <3>1 DEF Sees
  <2>2. \A i \in (k + 1)..Len(sgStack) : i = k + 1
    BY <1>0, <1>4
  <2>3. k + 1 \in 1..Len(sgStack')
    BY <1>1
  <2>4. StillSees(k)
    BY <2>1, <2>2, <2>3 DEF StillSees
  <2>5. NewAreQuiet(k)
    BY <1>05, <1>06, <1>1, <1>3, <1>4 DEF NewAreQuiet
  <2>. QED BY <2>4, <2>5
<1>12. pend' \in [Signal -> Nat] /\ \A u \in Signal : pend'[u] = pend[u] \/ pend'[u] = 0
  BY <1>2, <1>3 DEF IInv, SgTypeOK
<1>13. RunningAreQuiet' /\ NothingStranded'
  BY <1>1, <1>2, <1>6, <1>10, <1>11, <1>12, CountersMove
<1>14. GoneAreQuiet'
  <2>1. k = 0 => LastIsSeen'
    BY <1>05, <1>1 DEF LastIsSeen
  <2>2. \A i \in (k + 1)..Len(sgStack') : ~Assigns(i)'
    BY <1>05, <1>06, <1>1, <1>4 DEF Assigns
  <2>3. ~sgScenario.dies /\ "handler" \notin sgScenario.deletes =>
          \A u \in Signal : ptr'[u] = "NULL" => disp'[u] = "default" /\ pend'[u] = 0
    BY <1>2, <1>3 DEF IInv, GoneAreQuiet
  <2>. QED BY <1>1, <1>2, <1>6, <1>11, <1>12, <2>1, <2>2, <2>3, GoneMove
<1>15. SgTypeOK'
  <2>1. runs' \in [Signal -> Nat]
    BY <1>2 DEF IInv, SgTypeOK
  <2>. QED BY <1>1, <1>12, <2>1 DEF DespatchCalls, IInv, SgTypeOK, kernel, program
<1>16. HandledAtMostOnce'
  <2>. SUFFICES ASSUME NEW u \in Signal
                PROVE  runs'[u] + (IF pend'[u] > 0 THEN 1 ELSE 0)
                         + (IF u \in kpending THEN 1 ELSE 0) <= sent[u]
    BY <1>2 DEF HandledAtMostOnce, kernel
  <2>1. runs'[u] = IF u = s THEN runs[u] + 1 ELSE runs[u]
    BY <1>2 DEF IInv, SgTypeOK
  <2>2. runs[u] \in Nat /\ sent[u] \in Nat
    BY SignalRange DEF IInv, SgTypeOK
  <2>3. runs[u] + (IF pend[u] > 0 THEN 1 ELSE 0) + (IF u \in kpending THEN 1 ELSE 0) <= sent[u]
    BY DEF IInv, HandledAtMostOnce
  <2>. QED BY <1>2, <1>3, <2>1, <2>2, <2>3
<1>. QED BY <1>10, <1>13, <1>14, <1>15, <1>16 DEF IInv
-----------------------------------------------------------------------------
\* Steps that take frames off the stack.
LEMMA FramesGo ==
  ASSUME IInv, sgStack' \in Seq(Frame), NEW k \in Nat, Len(sgStack') = k, Keeps(k),
         umask' = umask, flooded => flooded', MaskIsRight(k)
  PROVE  /\ Nesting' /\ MasksNest' /\ StaysBlocked' /\ HandlersDoNotNest'
         /\ StaysCovered(k) /\ NewAreQuiet(k)
<1>1. (k + 1)..k = {} /\ ~(k < k)
  OBVIOUS
<1>2. StaysCovered(k) /\ FramesAreRight(k) /\ NewAreQuiet(k)
  BY <1>1 DEF StaysCovered, FramesAreRight, NewAreQuiet
<1>. QED BY <1>2, StackMoves

\* The number of the frames below the innermost one.
LEMMA Depth ==
  ASSUME IInv, sgStack # <<>>
  PROVE  \E k \in Nat :
           /\ k + 1 = Len(sgStack) /\ k \in 0..Len(sgStack) /\ k + 1 \in 1..Len(sgStack)
           /\ Top = sgStack[k + 1] /\ Top \in Frame /\ Below = SubSeq(sgStack, 1, k)
           /\ \A i \in (k + 1)..Len(sgStack) : i = k + 1
           /\ \A i \in 1..k : i \in 1..Len(sgStack)
           /\ k = 0 \/ k \in 1..k
<1>1. /\ Len(sgStack) \in Nat /\ Len(sgStack) >= 1 /\ Top = sgStack[Len(sgStack)]
      /\ Top \in Frame /\ Below = SubSeq(sgStack, 1, Len(sgStack) - 1)
  BY TopFrame DEF IInv
<1>2. PICK k \in Nat : k = Len(sgStack) - 1
  BY <1>1
<1>3. k + 1 = Len(sgStack)
  BY <1>1, <1>2
<1>. QED BY <1>1, <1>2, <1>3

LEMMA DespatchEndsKeeps == ASSUME IInv, DespatchEnds PROVE IInv'
<1>0. PICK k \in Nat :
         /\ k + 1 = Len(sgStack) /\ k \in 0..Len(sgStack) /\ k + 1 \in 1..Len(sgStack)
         /\ Top = sgStack[k + 1] /\ Top \in Frame /\ Below = SubSeq(sgStack, 1, k)
         /\ \A i \in (k + 1)..Len(sgStack) : i = k + 1
         /\ \A i \in 1..k : i \in 1..Len(sgStack)
  BY Depth DEF DespatchEnds, In
<1>1. /\ Top.kind = "despatch" /\ Top.sig > MaxSignal /\ sgStack' = SubSeq(sgStack, 1, k)
      /\ mask' = mask /\ UNCHANGED <<kernel, ptr, counters, runs, program>>
  BY <1>0 DEF DespatchEnds, In
<1>2. sgStack' \in Seq(Frame) /\ Len(sgStack') = k /\ Keeps(k)
  BY <1>0, <1>1, StackIsCut DEF IInv, SgTypeOK
<1>3. umask' = umask /\ flooded' = flooded /\ sgScenario' = sgScenario /\ over' = over
      /\ pend' = pend /\ sig_pending' = sig_pending /\ disp' = disp /\ ptr' = ptr
  BY <1>1 DEF program, counters, kernel
<1>4. MaskIsRight(k)
  <2>1. ASSUME ~flooded PROVE mask = Asked(k) /\ Asked(k)' = Asked(k)
    <3>1. mask = Asked(k + 1) /\ k \in 0..k
      BY <1>0, <2>1 DEF IInv, MasksNest
    <3>. QED BY <1>0, <1>1, <1>2, <1>3, <3>1, AskedSame, AskedBelow
  <2>2. Asked(Len(sgStack))' = Asked(k)'
    BY <1>2
  <2>3. \A i \in 1..k : sgStack[i].kind # "despatch" => sgStack[i].sig \in mask
    BY <1>0 DEF IInv, StaysBlocked
  <2>. QED BY <1>1, <1>3, <2>1, <2>2, <2>3 DEF MaskIsRight
<1>5. /\ Nesting' /\ MasksNest' /\ StaysBlocked' /\ HandlersDoNotNest'
      /\ StaysCovered(k) /\ NewAreQuiet(k)
  BY <1>2, <1>3, <1>4, FramesGo
<1>6. StillSees(k)
  <2>1. \A s \in Signal : ~Sees(k + 1, s)
    <3>1. Top.sig \in Nat
      BY <1>0, FrameFields
    <3>2. \A s \in Signal : ~(Top.sig < s) /\ Top.sig # s
      BY <1>1, <3>1, SignalRange
    <3>. QED BY <1>0, <3>2 DEF Sees
  <2>. QED BY <1>0, <2>1 DEF StillSees
<1>7. pend' \in [Signal -> Nat]
  BY <1>3 DEF IInv, SgTypeOK
<1>8. RunningAreQuiet' /\ NothingStranded'
  BY <1>2, <1>3, <1>5, <1>6, CountersMove
<1>9. GoneAreQuiet'
  <2>1. k = 0 => LastIsSeen'
    BY <1>2 DEF LastIsSeen
  <2>2. (k + 1)..Len(sgStack') = {}
    BY <1>2
  <2>3. ~sgScenario.dies /\ "handler" \notin sgScenario.deletes =>
          \A u \in Signal : ptr'[u] = "NULL" => disp'[u] = "default" /\ pend'[u] = 0
    BY <1>3 DEF IInv, GoneAreQuiet
  <2>. QED BY <1>2, <1>3, <1>5, <1>6, <1>7, <2>1, <2>2, <2>3, GoneMove
<1>10. SgTypeOK' /\ HandledAtMostOnce'
  BY <1>1, <1>2, TalliesStay DEF IInv, SgTypeOK, kernel, counters, program
<1>. QED BY <1>5, <1>8, <1>9, <1>10 DEF IInv

\* A handler and the despatch_signals that has called it: the numbers of their
\* frames, and the mask as the handler's return or death leaves it.
LEMMA HandlerLeaves ==
  ASSUME IInv, In("handler")
  PROVE  \E k \in Nat :
           /\ k + 2 = Len(sgStack) /\ k \in 0..Len(sgStack) /\ k + 1 \in 1..Len(sgStack)
           /\ sgStack[k + 1].kind = "despatch" /\ sgStack[k + 2].kind = "handler"
           /\ sgStack[k + 1].sig \in Signal /\ sgStack[k + 1] \in Frame
           /\ Below[Len(Below)] = sgStack[k + 1] /\ Len(Below) = k + 1 /\ Below \in Seq(Frame)
           /\ \A i \in 1..(k + 1) : Below[i] = sgStack[i]
           /\ \A i \in 1..k : /\ i \in 1..Len(sgStack)
                              /\ sgStack[i].kind # "despatch" =>
                                   sgStack[i].sig \in Unblocked(mask, sgStack[k + 1])
           /\ ~flooded => Unblocked(mask, sgStack[k + 1]) = Asked(k)
<1>1. SgTypeOK /\ Nesting
  BY DEF IInv
<1>0. PICK n \in Nat : n = Len(sgStack)
  BY <1>1, EveryFrame
<1>2. /\ n >= 2 /\ n \in 1..n /\ n - 1 \in 1..n
      /\ sgStack[n].kind = "handler" /\ sgStack[n].sig \in Signal
      /\ sgStack[n - 1].kind = "despatch" /\ sgStack[n - 1].sig = sgStack[n].sig
      /\ sgStack[n - 1] \in Frame /\ Below[Len(Below)] = sgStack[n - 1]
      /\ Len(Below) = n - 1 /\ Below \in Seq(Frame)
      /\ \A i \in 1..(n - 1) : Below[i] = sgStack[i]
  BY <1>0, <1>1, CallerFrame
<1>3. PICK k \in Nat : k + 2 = n /\ k + 1 = n - 1
  BY <1>2
<1>4. /\ k \in 0..n /\ k + 1 < n /\ k + 1 \in 1..n /\ (k + 1) - 1 = k
      /\ \A i \in 1..k : i \in 1..n /\ i < k + 1
  BY <1>3
<1>5. ASSUME NEW i \in 1..k, sgStack[i].kind # "despatch"
      PROVE  sgStack[i].sig \in Unblocked(mask, sgStack[k + 1])
  <2>1. sgStack[i].sig \in mask /\ LeavesBlocked(i, k + 1)
    BY <1>0, <1>4, <1>5 DEF IInv, StaysBlocked
  <2>. QED BY <1>0, <1>2, <1>3, <1>4, <2>1 DEF LeavesBlocked, Unblocked
<1>6. ASSUME ~flooded PROVE Unblocked(mask, sgStack[k + 1]) = Asked(k)
  <2>1. mask = Asked(k + 2) /\ SavedRight(k + 1)
    BY <1>0, <1>3, <1>4, <1>6 DEF IInv, MasksNest
  <2>2. 1..(k + 2) = 1..k \cup {k + 1, k + 2}
    OBVIOUS
  <2>3. Asked(k + 2) = Asked(k) \cup {sgStack[k + 2].sig}
    BY <1>2, <1>3, <2>2 DEF Asked
  <2>4. sgStack[k + 1].was <=> sgStack[k + 1].sig \in Asked(k)
    BY <1>0, <1>2, <1>3, <1>4, <2>1 DEF SavedRight
  <2>. QED BY <1>2, <1>3, <2>1, <2>3, <2>4 DEF Unblocked
<1>. QED BY <1>0, <1>2, <1>3, <1>4, <1>5, <1>6

LEMMA HandlerReturnsKeeps == ASSUME IInv, HandlerReturns PROVE IInv'
<1>0. PICK k \in Nat :
         /\ k + 2 = Len(sgStack) /\ k \in 0..Len(sgStack) /\ k + 1 \in 1..Len(sgStack)
         /\ sgStack[k + 1].kind = "despatch" /\ sgStack[k + 2].kind = "handler"
         /\ sgStack[k + 1].sig \in Signal /\ sgStack[k + 1] \in Frame
         /\ Below[Len(Below)] = sgStack[k + 1]
         /\ \A i \in 1..k : /\ i \in 1..Len(sgStack)
                            /\ sgStack[i].kind # "despatch" =>
                                 sgStack[i].sig \in Unblocked(mask, sgStack[k + 1])
         /\ ~flooded => Unblocked(mask, sgStack[k + 1]) = Asked(k)
  BY HandlerLeaves DEF HandlerReturns
<1>1. PICK t \in Frame : t = sgStack[k + 1]
  BY <1>0
<1>2. PICK g \in 0..(MaxSignal + 1) : g = t.sig + 1 /\ g \in Nat /\ t.sig \in Nat
  BY <1>0, <1>1, SignalRange
<1>3. PICK f \in Frame : /\ f = [t EXCEPT !.sig = g, !.was = FALSE]
                         /\ f.kind = "despatch" /\ f.sig = g
  <2>1. t.kind = "despatch" /\ FALSE \in BOOLEAN
    BY <1>0, <1>1
  <2>2. \A h \in Frame, x \in 0..(MaxSignal + 1) :
           /\ [h EXCEPT !.sig = x, !.was = FALSE] \in Frame
           /\ [h EXCEPT !.sig = x, !.was = FALSE].kind = h.kind
           /\ [h EXCEPT !.sig = x, !.was = FALSE].sig = x
    BY DEF Frame
  <2>3. /\ [t EXCEPT !.sig = g, !.was = FALSE] \in Frame
        /\ [t EXCEPT !.sig = g, !.was = FALSE].kind = "despatch"
        /\ [t EXCEPT !.sig = g, !.was = FALSE].sig = g
    BY <2>1, <2>2
  <2>. QED BY <2>3
<1>4. /\ sgStack' = SubSeq(sgStack, 1, k) \o <<f>> /\ mask' = Unblocked(mask, sgStack[k + 1])
      /\ UNCHANGED <<kernel, ptr, counters, runs, program>>
  <2>1. Len(sgStack) - 2 = k
    BY <1>0
  <2>2. f = [sgStack[k + 1] EXCEPT !.sig = @ + 1, !.was = FALSE]
    BY <1>1, <1>2, <1>3
  <2>. QED BY <1>0, <2>1, <2>2 DEF HandlerReturns
<1>5. umask' = umask /\ flooded' = flooded /\ sgScenario' = sgScenario /\ over' = over
      /\ pend' = pend /\ sig_pending' = sig_pending /\ disp' = disp /\ ptr' = ptr
  BY <1>4 DEF program, counters, kernel
<1>6. sgStack' \in Seq(Frame) /\ Len(sgStack') = k + 1 /\ Keeps(k) /\ sgStack'[k + 1] = f
  BY <1>0, <1>4, StackGets DEF IInv, SgTypeOK
<1>7. MaskIsRight(k)
  <2>1. Asked(Len(sgStack))' = Asked(k + 1)'
    BY <1>6
  <2>2. 1..(k + 1) = 1..k \cup {k + 1} /\ k \in 0..k
    OBVIOUS
  <2>3. Asked(k + 1)' = Asked(k)'
    BY <1>3, <1>6, <2>2 DEF Asked
  <2>4. Asked(k)' = Asked(k)
    BY <1>5, <1>6, <2>2, AskedBelow
  <2>. QED BY <1>0, <1>4, <1>5, <2>1, <2>3, <2>4 DEF MaskIsRight
<1>8. /\ Nesting' /\ MasksNest' /\ StaysBlocked' /\ HandlersDoNotNest'
      /\ StaysCovered(k) /\ NewAreQuiet(k)
  <2>1. k < Len(sgStack)
    BY <1>0
  <2>. QED BY <1>0, <1>3, <1>4, <1>5, <1>7, <2>1, DespatchOnTop
<1>9. StillSees(k)
  <2>1. ASSUME NEW s \in Signal, Sees(k + 1, s) PROVE Sees(k + 1, s)'
    <3>1. t.sig < s
      BY <1>0, <1>1, <2>1 DEF Sees
    <3>2. g < s \/ g = s
      BY <1>2, <3>1, SignalRange
    <3>. QED BY <1>3, <1>6, <3>2 DEF Sees
  <2>2. \A i \in (k + 1)..Len(sgStack) : i = k + 1 \/ i = k + 2
    BY <1>0
  <2>3. \A s \in Signal : ~Sees(k + 2, s)
    BY <1>0 DEF Sees
  <2>4. k + 1 \in 1..Len(sgStack')
    BY <1>6
  <2>. QED BY <2>1, <2>2, <2>3, <2>4 DEF StillSees
<1>10. pend' \in [Signal -> Nat]
  BY <1>5 DEF IInv, SgTypeOK
<1>11. RunningAreQuiet' /\ NothingStranded'
  BY <1>5, <1>6, <1>8, <1>9, CountersMove
<1>12. GoneAreQuiet'
  <2>1. k = 0 => LastIsSeen'
    <3>1. sgStack'[k + 1].kind = "despatch" /\ (k = 0 => k + 1 = 1)
      BY <1>3, <1>6
    <3>. QED BY <3>1 DEF LastIsSeen
  <2>2. \A i \in (k + 1)..Len(sgStack') : i = k + 1
    <3>1. \A i \in (k + 1)..(k + 1) : i = k + 1
      OBVIOUS
    <3>. QED BY <1>6, <3>1
  <2>3. \A i \in (k + 1)..Len(sgStack') : ~Assigns(i)'
    BY <1>3, <1>6, <2>2 DEF Assigns
  <2>4. ~sgScenario.dies /\ "handler" \notin sgScenario.deletes =>
          \A u \in Signal : ptr'[u] = "NULL" => disp'[u] = "default" /\ pend'[u] = 0
    BY <1>5 DEF IInv, GoneAreQuiet
  <2>. QED BY <1>5, <1>6, <1>8, <1>9, <1>10, <2>1, <2>3, <2>4, GoneMove
<1>13. SgTypeOK' /\ HandledAtMostOnce'
  <2>1. mask' \subseteq Signal
    BY <1>4 DEF Unblocked, IInv, SgTypeOK
  <2>. QED BY <1>4, <1>6, <2>1, TalliesStay DEF IInv, SgTypeOK, kernel, counters, program
<1>. QED BY <1>8, <1>11, <1>12, <1>13 DEF IInv
-----------------------------------------------------------------------------
\* magic_setsig takes its frame away, and puts back the mask that it has saved.
LEMMA SavedIsRight ==
  ASSUME IInv, NEW k \in Nat, k + 1 \in 1..Len(sgStack), Assigns(k + 1)
  PROVE  /\ ~flooded => sgStack[k + 1].save = Asked(k)
         /\ \A i \in 1..k : sgStack[i].kind # "despatch" => sgStack[i].sig \in sgStack[k + 1].save
<1>1. (k + 1) - 1 = k
  OBVIOUS
<1>2. ~flooded => sgStack[k + 1].save = Asked(k)
  BY <1>1 DEF IInv, MasksNest, SavedRight
<1>3. Len(sgStack) \in Nat
  BY EveryFrame DEF IInv
<1>4. \A i \in 1..k : i \in 1..Len(sgStack) /\ i < k + 1
  BY <1>3
<1>5. \A i \in 1..k : sgStack[i].kind # "despatch" => LeavesBlocked(i, k + 1)
  BY <1>4 DEF IInv, StaysBlocked
<1>. QED BY <1>2, <1>5 DEF LeavesBlocked

LEMMA SetSigSetsKeeps == ASSUME IInv, SetSigSets PROVE IInv'
<1>0. PICK k \in Nat :
         /\ k + 1 = Len(sgStack) /\ k \in 0..Len(sgStack) /\ k + 1 \in 1..Len(sgStack)
         /\ Top = sgStack[k + 1] /\ Top \in Frame /\ Below = SubSeq(sgStack, 1, k)
         /\ \A i \in (k + 1)..Len(sgStack) : i = k + 1
         /\ \A i \in 1..k : i \in 1..Len(sgStack)
         /\ k = 0 \/ k \in 1..k
  BY Depth DEF SetSigSets, In
<1>1. PICK s \in Signal : s = Top.sig
  <2>1. Top.kind = "set" /\ LiesRight(k + 1)
    BY <1>0 DEF SetSigSets, In, IInv, Nesting
  <2>. QED BY <1>0, <2>1 DEF LiesRight
<1>2. PICK v \in {"code", "IGNORE", "DEFAULT", "NULL"} : v = Top.value
  BY <1>0, FrameFields
<1>3. PICK d \in {"catch", "ignore", "default"} :
        d = CASE v = "code" -> "catch" [] v = "IGNORE" -> "ignore" [] OTHER -> "default"
  OBVIOUS
<1>4. /\ Top.kind = "set" /\ ptr' = [ptr EXCEPT ![s] = v] /\ disp' = [disp EXCEPT ![s] = d]
      /\ kpending' = IF d = "ignore" THEN kpending \ {s} ELSE kpending
      /\ mask' = Top.save /\ sgStack' = SubSeq(sgStack, 1, k)
      /\ UNCHANGED <<sent, counters, runs, program>>
  BY <1>0, <1>1, <1>2, <1>3 DEF SetSigSets, In
<1>5. /\ umask' = umask /\ flooded' = flooded /\ sgScenario' = sgScenario /\ over' = over
      /\ pend' = pend /\ sig_pending' = sig_pending
  BY <1>4 DEF program, counters
<1>6. sgStack' \in Seq(Frame) /\ Len(sgStack') = k /\ Keeps(k)
  BY <1>0, <1>4, StackIsCut DEF IInv, SgTypeOK
<1>7. Assigns(k + 1)
  BY <1>0, <1>4 DEF Assigns
<1>8. MaskIsRight(k)
  <2>1. k \in 0..k
    OBVIOUS
  <2>2. Asked(Len(sgStack))' = Asked(k)
    BY <1>5, <1>6, <2>1, AskedBelow
  <2>. QED BY <1>0, <1>4, <1>5, <1>7, <2>2, SavedIsRight DEF MaskIsRight
<1>9. /\ Nesting' /\ MasksNest' /\ StaysBlocked' /\ HandlersDoNotNest'
      /\ StaysCovered(k) /\ NewAreQuiet(k)
  BY <1>5, <1>6, <1>8, FramesGo
<1>10. StillSees(k)
  <2>1. \A u \in Signal : ~Sees(k + 1, u)
    BY <1>0, <1>4 DEF Sees
  <2>. QED BY <1>0, <2>1 DEF StillSees
<1>11. pend' \in [Signal -> Nat]
  BY <1>5 DEF IInv, SgTypeOK
<1>12. RunningAreQuiet' /\ NothingStranded'
  BY <1>5, <1>6, <1>9, <1>10, CountersMove
<1>13. GoneAreQuiet'
  <2>1. k = 0 => LastIsSeen'
    BY <1>6 DEF LastIsSeen
  <2>2. (k + 1)..Len(sgStack') = {}
    BY <1>6
  <2>3. ASSUME ~sgScenario.dies, "handler" \notin sgScenario.deletes, NEW u \in Signal,
               ptr'[u] = "NULL"
        PROVE  disp'[u] = "default" /\ pend'[u] = 0
    <3>1. CASE u # s
      <4>1. ptr'[u] = ptr[u] /\ disp'[u] = disp[u]
        BY <1>4, <3>1 DEF IInv, SgTypeOK
      <4>. QED BY <1>5, <2>3, <4>1 DEF IInv, GoneAreQuiet
    <3>2. CASE u = s
      <4>1. ptr'[s] = v /\ disp'[s] = d
        BY <1>4 DEF IInv, SgTypeOK
      <4>2. v = "NULL" /\ d = "default"
        BY <1>3, <2>3, <3>2, <4>1
      <4>3. k + 1 = 1
        BY <1>0, <1>2, <1>7, <2>3, <4>2 DEF IInv, GoneAreQuiet
      <4>4. LastIsSeen
        BY <2>3 DEF IInv, GoneAreQuiet
      <4>5. Len(sgStack) = 1 /\ sgStack[1] = Top
        BY <1>0, <4>3
      <4>6. pend[s] = 0
        <5>1. /\ sgStack[1].kind = "set" /\ sgStack[1].value = "NULL" /\ sgStack[1].sig = s
              /\ Len(sgStack) > 0 /\ ~(Len(sgStack) >= 2)
          <6>1. Top.kind = "set" /\ Top.value = "NULL" /\ Top.sig = s
            BY <1>1, <1>2, <1>4, <4>2
          <6>. QED BY <4>5, <6>1
        <5>. QED BY <4>4, <5>1 DEF LastIsSeen
      <4>. QED BY <1>5, <3>2, <4>1, <4>2, <4>6
    <3>. QED BY <3>1, <3>2
  <2>. QED BY <1>5, <1>6, <1>9, <1>10, <1>11, <2>1, <2>2, <2>3, GoneMove
<1>14. SgTypeOK'
  <2>1. mask' \subseteq Signal
    BY <1>0, <1>4, FrameFields
  <2>2. /\ ptr' \in [Signal -> {"code", "IGNORE", "DEFAULT", "NULL"}]
        /\ disp' \in [Signal -> {"catch", "ignore", "default"}]
        /\ kpending' \subseteq Signal
    BY <1>4 DEF IInv, SgTypeOK
  <2>. QED BY <1>4, <1>6, <2>1, <2>2 DEF IInv, SgTypeOK, counters, program
<1>15. HandledAtMostOnce'
  <2>1. kpending' \subseteq kpending
    BY <1>4
  <2>. QED BY <1>4, <1>5, <2>1, TalliesStay
<1>. QED BY <1>9, <1>12, <1>13, <1>14, <1>15 DEF IInv

\* PERL_ASYNC_CHECK in magic_setsig.
LEMMA SetSigChecksKeeps == ASSUME IInv, SetSigChecks PROVE IInv'
<1>0. PICK k \in Nat :
         /\ k + 1 = Len(sgStack) /\ k \in 0..Len(sgStack) /\ k + 1 \in 1..Len(sgStack)
         /\ Top = sgStack[k + 1] /\ Top \in Frame /\ Below = SubSeq(sgStack, 1, k)
         /\ \A i \in (k + 1)..Len(sgStack) : i = k + 1
         /\ \A i \in 1..k : i \in 1..Len(sgStack)
         /\ k = 0 \/ k \in 1..k
  BY Depth DEF SetSigChecks, In
<1>1. PICK t \in Frame : t = Top /\ t = sgStack[k + 1] /\ t.kind = "setsig"
  BY <1>0 DEF SetSigChecks, In
<1>2. PICK f \in Frame : /\ f = [Top EXCEPT !.kind = "set"]
                         /\ f.kind = "set" /\ f.sig = t.sig /\ f.save = t.save
                         /\ f.value = t.value
  <2>1. /\ [t EXCEPT !.kind = "set"] \in Frame /\ [t EXCEPT !.kind = "set"].kind = "set"
        /\ [t EXCEPT !.kind = "set"].sig = t.sig /\ [t EXCEPT !.kind = "set"].save = t.save
        /\ [t EXCEPT !.kind = "set"].value = t.value
    BY DEF Frame
  <2>. QED BY <1>1, <2>1
<1>3. PICK e \in Frame : e = DespatchFrame /\ e.kind = "despatch" /\ e.sig = 0
  BY NewFrames DEF IInv
<1>4. PICK m \in Nat : /\ m = (IF sig_pending > 0 THEN k + 2 ELSE k + 1)
                       /\ sgStack' \in Seq(Frame) /\ Len(sgStack') = m /\ Keeps(k)
                       /\ sgStack'[k + 1] = f /\ (sig_pending > 0 => sgStack'[k + 2] = e)
  <2>1. k \in 0..Len(sgStack) /\ sgStack \in Seq(Frame)
    BY <1>0 DEF IInv, SgTypeOK
  <2>2. sgStack' = SubSeq(sgStack, 1, k) \o (IF sig_pending > 0 THEN <<f, e>> ELSE <<f>>)
    BY <1>0, <1>2, <1>3 DEF SetSigChecks
  <2>3. CASE sig_pending > 0
    <3>1. sgStack' = SubSeq(sgStack, 1, k) \o <<f, e>>
      BY <2>2, <2>3
    <3>. QED BY <2>1, <2>3, <3>1, StackGetsTwo
  <2>4. CASE ~(sig_pending > 0)
    <3>1. sgStack' = SubSeq(sgStack, 1, k) \o <<f>>
      BY <2>2, <2>4
    <3>. QED BY <2>1, <2>4, <3>1, StackGets
  <2>. QED BY <2>3, <2>4
<1>41. /\ sgStack'[k + 1].kind = "set" /\ sgStack'[k + 1].sig = t.sig
       /\ sgStack'[k + 1].value = t.value
       /\ sig_pending > 0 => sgStack'[k + 2].kind = "despatch"
  BY <1>2, <1>3, <1>4
<1>42. Len(sgStack') = m /\ m = (IF sig_pending > 0 THEN k + 2 ELSE k + 1)
  BY <1>4
<1>5. /\ UNCHANGED <<kernel, ptr, counters, runs, program>> /\ mask' = mask
      /\ umask' = umask /\ flooded' = flooded /\ sgScenario' = sgScenario /\ over' = over
      /\ pend' = pend /\ sig_pending' = sig_pending /\ disp' = disp /\ ptr' = ptr
  BY DEF SetSigChecks, program, counters, kernel
<1>6. /\ \A i \in 1..k : sgStack'[i] = sgStack[i]
      /\ (k + 1) - 1 = k /\ (k + 2) - 1 = k + 1 /\ k + 2 # 1 /\ k + 2 > 1 /\ k + 1 # k + 2
      /\ \A i \in 1..(k + 1) : i \in 1..k \/ i = k + 1
      /\ \A i \in (k + 1)..m : i = k + 1 \/ (i = k + 2 /\ sig_pending > 0)
      /\ (k + 1 > 1 => k \in 1..k) /\ k \in 0..k /\ (k + 2 = m \/ sig_pending = 0)
  <2>1. sig_pending \in Nat
    BY DEF IInv, SgTypeOK
  <2>2. \A i \in 1..k : sgStack'[i] = sgStack[i]
    BY <1>4 DEF Keeps
  <2>3. m = (IF sig_pending > 0 THEN k + 2 ELSE k + 1)
    BY <1>4
  <2>. QED BY <2>1, <2>2, <2>3
<1>7. Assigns(k + 1) /\ t.sig \in Signal /\ t.sig \in mask /\ LiesRight(k + 1)
  BY <1>0, <1>1 DEF Assigns, IInv, Nesting, LiesRight, StaysBlocked
<1>8. /\ ~flooded => t.save = Asked(k)
      /\ \A i \in 1..k : sgStack[i].kind # "despatch" => sgStack[i].sig \in t.save
  BY <1>0, <1>1, <1>7, SavedIsRight
<1>9. StaysCovered(k)
  <2>1. k # Len(sgStack)
    BY <1>0
  <2>. QED BY <2>1 DEF StaysCovered
<1>10. FramesAreRight(k)
  <2>1. LiesRight(k + 1)'
    BY <1>1, <1>2, <1>4, <1>6, <1>7 DEF LiesRight, MayLieOn
  <2>2. sig_pending > 0 => LiesRight(k + 2)'
    BY <1>2, <1>3, <1>4, <1>6 DEF LiesRight, MayLieOn
  <2>3. ~flooded' => SavedRight(k + 1)'
    <3>1. Asked(k)' = Asked(k)
      BY <1>4, <1>5, <1>6, AskedBelow
    <3>. QED BY <1>2, <1>4, <1>5, <1>6, <1>8, <3>1 DEF SavedRight, Assigns
  <2>4. sig_pending > 0 => SavedRight(k + 2)'
    <3>1. sig_pending > 0 => ~(k + 2 < m)
      BY <1>4
    <3>. QED BY <1>3, <1>4, <3>1 DEF SavedRight, Assigns
  <2>5. \A j \in 1..k : sgStack'[j].kind # "despatch" => LeavesBlocked(j, k + 1)'
    BY <1>2, <1>4, <1>6, <1>8 DEF LeavesBlocked, Assigns
  <2>6. sig_pending > 0 => \A j \in 1..(k + 1) : LeavesBlocked(j, k + 2)'
    <3>1. sig_pending > 0 => ~(k + 2 < m)
      BY <1>4
    <3>. QED BY <1>3, <1>4, <3>1 DEF LeavesBlocked, Assigns
  <2>7. sgStack'[k + 1].sig \in mask'
    BY <1>2, <1>4, <1>5, <1>7
  <2>8. sgStack'[k + 1].kind # "handler" /\ (sig_pending > 0 => sgStack'[k + 2].kind = "despatch")
    BY <1>2, <1>3, <1>4
  <2>. QED BY <1>4, <1>6, <2>1, <2>2, <2>3, <2>4, <2>5, <2>6, <2>7, <2>8 DEF FramesAreRight
<1>11. MaskIsRight(k)
  <2>1. ~flooded => mask = Asked(k + 1)
    BY <1>0 DEF IInv, MasksNest
  <2>2. Asked(k + 1) = Asked(k) \cup {t.sig}
    BY <1>1, AskedMore
  <2>3. Asked(k)' = Asked(k)
    BY <1>4, <1>5, <1>6, AskedBelow
  <2>4. 1..(k + 1) = 1..k \cup {k + 1} /\ 1..(k + 2) = 1..k \cup {k + 1, k + 2}
    OBVIOUS
  <2>5. Asked(k + 1)' = Asked(k)' \cup {t.sig}
    BY <1>41, <2>4 DEF Asked
  <2>6. Asked(Len(sgStack))' = Asked(k)' \cup {t.sig}
    <3>1. CASE sig_pending > 0
      <4>1. Asked(k + 2)' = Asked(k)' \cup {t.sig}
        BY <1>41, <2>4, <3>1 DEF Asked
      <4>. QED BY <1>42, <3>1, <4>1
    <3>2. CASE ~(sig_pending > 0)
      BY <1>42, <2>5, <3>2
    <3>. QED BY <3>1, <3>2
  <2>7. \A i \in 1..k : sgStack[i].kind # "despatch" => sgStack[i].sig \in mask
    BY <1>0 DEF IInv, StaysBlocked
  <2>. QED BY <1>5, <2>1, <2>2, <2>3, <2>6, <2>7 DEF MaskIsRight
<1>12. Nesting' /\ MasksNest' /\ StaysBlocked' /\ HandlersDoNotNest'
  BY <1>4, <1>5, <1>9, <1>10, <1>11, StackMoves
<1>13. StillSees(k) /\ NewAreQuiet(k)
  <2>1. \A u \in Signal : ~Sees(k + 1, u)
    BY <1>1 DEF Sees
  <2>2. StillSees(k)
    BY <1>0, <2>1 DEF StillSees
  <2>3. NewAreQuiet(k)
    BY <1>41, <1>42, <1>6 DEF NewAreQuiet
  <2>. QED BY <2>2, <2>3
<1>14. pend' \in [Signal -> Nat]
  BY <1>5 DEF IInv, SgTypeOK
<1>15. RunningAreQuiet' /\ NothingStranded'
  BY <1>4, <1>5, <1>9, <1>12, <1>13, CountersMove
<1>16. GoneAreQuiet'
  <2>1. ASSUME k = 0, ~sgScenario.dies PROVE LastIsSeen'
    <3>0. k + 1 = 1 /\ k + 2 = 2
      BY <2>1
    <3>1. sgStack'[1] = f /\ sgStack[1] = t
      BY <1>1, <1>4, <3>0
    <3>2. CASE sig_pending > 0
      <4>1. Len(sgStack') = 2 /\ sgStack'[2] = e
        BY <1>4, <3>0, <3>2
      <4>2. 0 < t.sig
        BY <1>7, SignalRange
      <4>. QED BY <1>2, <1>3, <3>1, <4>1, <4>2 DEF LastIsSeen, Sees
    <3>3. CASE ~(sig_pending > 0)
      <4>1. DOMAIN sgStack = 1..1
        BY <1>0, <2>1, Domain DEF IInv, SgTypeOK
      <4>2. \A i \in DOMAIN sgStack : sgStack[i].kind = "setsig"
        BY <1>1, <3>1, <4>1
      <4>3. ~(pend[t.sig] > 0)
        BY <1>7, <2>1, <3>3, <4>2 DEF IInv, NothingStranded
      <4>4. pend[t.sig] \in Nat
        BY <1>7 DEF IInv, SgTypeOK
      <4>5. pend'[sgStack'[1].sig] = 0
        BY <1>2, <1>5, <3>1, <4>3, <4>4
      <4>. QED BY <4>5 DEF LastIsSeen
    <3>. QED BY <3>2, <3>3
  <2>2. ~sgScenario.dies /\ "handler" \notin sgScenario.deletes =>
          \A u \in Signal : ptr'[u] = "NULL" => disp'[u] = "default" /\ pend'[u] = 0
    BY <1>5 DEF IInv, GoneAreQuiet
  <2>3. ~sgScenario.dies /\ "handler" \notin sgScenario.deletes =>
          \A i \in (k + 1)..Len(sgStack') : Assigns(i)' /\ sgStack'[i].value = "NULL" => i = 1
    <3>1. sig_pending > 0 => ~Assigns(k + 2)'
      BY <1>3, <1>4 DEF Assigns
    <3>2. ~sgScenario.dies /\ "handler" \notin sgScenario.deletes /\ t.value = "NULL" => k + 1 = 1
      BY <1>0, <1>1, <1>7 DEF IInv, GoneAreQuiet
    <3>. QED BY <1>41, <1>42, <1>6, <3>1, <3>2
  <2>. QED BY <1>4, <1>5, <1>9, <1>13, <1>14, <2>1, <2>2, <2>3, GoneMove
<1>17. SgTypeOK' /\ HandledAtMostOnce'
  BY <1>4, <1>5, TalliesStay DEF IInv, SgTypeOK, kernel, counters, program
<1>. QED BY <1>12, <1>15, <1>16, <1>17 DEF IInv
-----------------------------------------------------------------------------
\* A signal is not counted while its handler runs: k frames stay.
LEMMA QuietMoves ==
  ASSUME IInv, sgStack' \in Seq(Frame), NEW k \in Nat, Keeps(k), NewAreQuiet(k),
         \A u \in Signal : u \in mask => pend'[u] = pend[u] \/ pend'[u] = 0
  PROVE  RunningAreQuiet'
<1>1. /\ k <= Len(sgStack) /\ Len(sgStack) \in Nat /\ Len(sgStack') \in Nat
      /\ \A i \in 1..k : sgStack'[i] = sgStack[i]
  BY Domain DEF IInv, SgTypeOK, Keeps
<1>2. ASSUME NEW i \in 1..k, sgStack'[i].kind = "handler" PROVE pend'[sgStack'[i].sig] = 0
  <2>1. i \in 1..Len(sgStack) /\ sgStack'[i] = sgStack[i]
    BY <1>1
  <2>2. /\ sgStack[i].sig \in Signal /\ pend[sgStack[i].sig] = 0 /\ sgStack[i].sig \in mask
    BY <1>2, <2>1 DEF IInv, Nesting, LiesRight, RunningAreQuiet, StaysBlocked
  <2>. QED BY <2>1, <2>2
<1>3. \A i \in 1..Len(sgStack') : i \in 1..k \/ i \in (k + 1)..Len(sgStack')
  BY <1>1
<1>. QED BY <1>2, <1>3 DEF RunningAreQuiet, NewAreQuiet

\* A die unwinds to below the innermost frame of st, the stack's or that without
\* its handler, or to below the assignment that this frame lies on.
LEMMA UnwindGoes ==
  ASSUME IInv, NEW n \in Nat, n + 1 \in 1..Len(sgStack), NEW st \in Seq(Frame),
         Len(st) = n + 1, \A i \in 1..(n + 1) : st[i] = sgStack[i],
         sgStack[n + 1].kind # "handler", NEW m, Unwind(st, m)
  PROVE  \E k \in Nat :
           /\ sgStack' \in Seq(Frame) /\ Len(sgStack') = k /\ Keeps(k)
           /\ \/ /\ k = n /\ k + 1 \in 1..Len(sgStack)
                 /\ mask' = IF sgStack[k + 1].kind = "despatch" THEN m ELSE sgStack[k + 1].save
                 /\ sgStack[k + 1].kind = "despatch" /\ k > 0 => sgStack[k].kind # "set"
              \/ /\ k + 1 = n /\ k + 1 \in 1..Len(sgStack) /\ sgStack[k + 2].kind = "despatch"
                 /\ sgStack[k + 1].kind = "set" /\ mask' = sgStack[k + 1].save
<1>1. ASSUME NEW k \in Nat, k <= n, NEW tt \in Seq(Frame), Len(tt) = k + 1,
             \A i \in 1..(k + 1) : tt[i] = sgStack[i], UnwindC(tt, m)
      PROVE  /\ sgStack' \in Seq(Frame) /\ Len(sgStack') = k /\ Keeps(k)
             /\ k + 1 \in 1..Len(sgStack)
             /\ mask' = IF sgStack[k + 1].kind = "despatch" THEN m ELSE sgStack[k + 1].save
  <2>1. Len(sgStack) \in Nat /\ k + 1 \in 1..(k + 1) /\ k \in 0..(k + 1)
        /\ (k + 1) - 1 = k
    BY EveryFrame DEF IInv
  <2>2. sgStack' = SubSeq(tt, 1, k) /\ tt[k + 1] = sgStack[k + 1]
    BY <1>1, <2>1 DEF UnwindC
  <2>3. /\ SubSeq(tt, 1, k) \in Seq(Frame) /\ Len(SubSeq(tt, 1, k)) = k
        /\ \A i \in 1..k : SubSeq(tt, 1, k)[i] = tt[i]
    BY <1>1, <2>1, FirstFrames
  <2>4. k \in 0..Len(sgStack) /\ k + 1 \in 1..Len(sgStack) /\ k <= k
        /\ \A i \in 1..k : i \in 1..(k + 1)
    BY <1>1, <2>1
  <2>5. sgStack' \in Seq(Frame) /\ Len(sgStack') = k /\ Keeps(k)
    BY <1>1, <2>2, <2>3, <2>4 DEF Keeps
  <2>6. mask' = IF sgStack[k + 1].kind = "despatch" THEN m ELSE sgStack[k + 1].save
    BY <1>1, <2>2 DEF UnwindC
  <2>. QED BY <2>4, <2>5, <2>6
<1>2. /\ Len(st) - 1 = n /\ n + 1 \in 1..(n + 1) /\ (n > 0 => n \in 1..(n + 1)) /\ n <= n
      /\ n \in 0..(n + 1)
  OBVIOUS
<1>3. CASE sgStack[n + 1].kind = "despatch" /\ n > 0 /\ sgStack[n].kind = "set"
  <2>1. PICK k \in Nat : k + 1 = n
    <3>1. n - 1 \in Nat /\ (n - 1) + 1 = n
      BY <1>3
    <3>. QED BY <3>1
  <2>2. UnwindC(SubSeq(st, 1, n), m)
    BY <1>2, <1>3 DEF Unwind
  <2>3. /\ SubSeq(st, 1, n) \in Seq(Frame) /\ Len(SubSeq(st, 1, n)) = n
        /\ \A i \in 1..n : SubSeq(st, 1, n)[i] = st[i]
    BY <1>2, FirstFrames
  <2>4. \A i \in 1..(k + 1) : i \in 1..n /\ i \in 1..(n + 1)
    BY <2>1
  <2>5. k <= n /\ k + 2 = n + 1
    BY <2>1
  <2>6. \A i \in 1..(k + 1) : SubSeq(st, 1, n)[i] = sgStack[i]
    BY <2>3, <2>4
  <2>7. /\ sgStack' \in Seq(Frame) /\ Len(sgStack') = k /\ Keeps(k)
        /\ k + 1 \in 1..Len(sgStack)
        /\ mask' = IF sgStack[k + 1].kind = "despatch" THEN m ELSE sgStack[k + 1].save
    BY <1>1, <2>1, <2>2, <2>3, <2>5, <2>6
  <2>8. sgStack[k + 1].kind = "set" /\ sgStack[k + 2].kind = "despatch"
    BY <1>3, <2>1, <2>5
  <2>. QED BY <2>1, <2>7, <2>8
<1>4. CASE ~(sgStack[n + 1].kind = "despatch" /\ n > 0 /\ sgStack[n].kind = "set")
  <2>1. UnwindC(st, m)
    BY <1>2, <1>4 DEF Unwind
  <2>. QED BY <1>1, <1>2, <1>4, <2>1
<1>. QED BY <1>3, <1>4

LEMMA HandlerDiesKeeps == ASSUME IInv, HandlerDies PROVE IInv'
<1>0. PICK n \in Nat :
         /\ n + 2 = Len(sgStack) /\ n \in 0..Len(sgStack) /\ n + 1 \in 1..Len(sgStack)
         /\ sgStack[n + 1].kind = "despatch"
         /\ Below[Len(Below)] = sgStack[n + 1] /\ Len(Below) = n + 1 /\ Below \in Seq(Frame)
         /\ \A i \in 1..(n + 1) : Below[i] = sgStack[i]
         /\ \A i \in 1..n : /\ i \in 1..Len(sgStack)
                            /\ sgStack[i].kind # "despatch" =>
                                 sgStack[i].sig \in Unblocked(mask, sgStack[n + 1])
         /\ ~flooded => Unblocked(mask, sgStack[n + 1]) = Asked(n)
  BY HandlerLeaves DEF HandlerDies
<1>1. PICK st \in Seq(Frame) : st = Below
  BY <1>0
<1>2. PICK m : m = Unblocked(mask, sgStack[n + 1])
  OBVIOUS
<1>3. /\ Unwind(st, m) /\ sgScenario.dies
      /\ UNCHANGED <<kernel, ptr, counters, runs, program>>
  BY <1>0, <1>1, <1>2 DEF HandlerDies
<1>4. PICK k \in Nat :
        /\ sgStack' \in Seq(Frame) /\ Len(sgStack') = k /\ Keeps(k)
        /\ \/ /\ k = n /\ k + 1 \in 1..Len(sgStack)
              /\ mask' = IF sgStack[k + 1].kind = "despatch" THEN m ELSE sgStack[k + 1].save
              /\ sgStack[k + 1].kind = "despatch" /\ k > 0 => sgStack[k].kind # "set"
           \/ /\ k + 1 = n /\ k + 1 \in 1..Len(sgStack) /\ sgStack[k + 2].kind = "despatch"
              /\ sgStack[k + 1].kind = "set" /\ mask' = sgStack[k + 1].save
  <2>1. Len(st) = n + 1 /\ \A i \in 1..(n + 1) : st[i] = sgStack[i]
    BY <1>0, <1>1
  <2>2. sgStack[n + 1].kind # "handler" /\ n + 1 \in 1..Len(sgStack)
    BY <1>0
  <2>. QED BY <1>3, <2>1, <2>2, UnwindGoes
<1>5. /\ umask' = umask /\ flooded' = flooded /\ sgScenario' = sgScenario /\ over' = over
      /\ pend' = pend
  BY <1>3 DEF program, counters
<1>6. MaskIsRight(k) /\ mask' \subseteq Signal
  <2>1. Asked(Len(sgStack))' = Asked(k)
    <3>1. k \in 0..k
      OBVIOUS
    <3>. QED BY <1>4, <1>5, <3>1, AskedBelow
  <2>2. CASE k = n
    <3>1. mask' = m
      BY <1>0, <1>4, <2>2
    <3>2. mask' \subseteq Signal
      BY <1>2, <3>1 DEF Unblocked, IInv, SgTypeOK
    <3>. QED BY <1>0, <1>2, <1>5, <2>1, <2>2, <3>1, <3>2 DEF MaskIsRight
  <2>3. CASE k # n
    <3>1. Assigns(k + 1) /\ mask' = sgStack[k + 1].save /\ k + 1 \in 1..Len(sgStack)
      BY <1>4, <2>3 DEF Assigns
    <3>2. sgStack[k + 1] \in Frame
      BY <3>1, EveryFrame DEF IInv
    <3>3. mask' \subseteq Signal
      BY <3>1, <3>2, FrameFields
    <3>. QED BY <1>5, <2>1, <3>1, <3>3, SavedIsRight DEF MaskIsRight
  <2>. QED BY <2>2, <2>3
<1>7. /\ Nesting' /\ MasksNest' /\ StaysBlocked' /\ HandlersDoNotNest'
      /\ StaysCovered(k) /\ NewAreQuiet(k)
  BY <1>4, <1>5, <1>6, FramesGo
<1>8. RunningAreQuiet'
  BY <1>4, <1>5, <1>7, QuietMoves
<1>9. NothingStranded' /\ GoneAreQuiet'
  BY <1>3, <1>5 DEF NothingStranded, GoneAreQuiet
<1>10. SgTypeOK' /\ HandledAtMostOnce'
  BY <1>3, <1>4, <1>6, TalliesStay DEF IInv, SgTypeOK, kernel, counters, program
<1>. QED BY <1>7, <1>8, <1>9, <1>10 DEF IInv

\* What the C handler counts.
LEMMA CountedOnce ==
  ASSUME IInv, NEW s \in Signal, Csighandler(s)
  PROVE  /\ HandledAtMostOnce' /\ NothingStranded'
         /\ pend' \in [Signal -> Nat] /\ sig_pending' \in Nat /\ sig_pending' > 0
         /\ \A u \in Signal : pend'[u] = IF u = s THEN pend[u] + 1 ELSE pend[u]
         /\ \A i \in 1..Len(sgStack) : sgStack[i].kind # "despatch" => sgStack[i].sig # s
<1>1. /\ s \in kpending /\ s \notin mask /\ kpending' = kpending \ {s} /\ runs' = runs
      /\ sent' = sent /\ pend' = [pend EXCEPT ![s] = @ + 1] /\ sig_pending' = sig_pending + 1
  BY DEF Csighandler
<1>2. /\ pend \in [Signal -> Nat] /\ sig_pending \in Nat
  BY DEF IInv, SgTypeOK
<1>3. pend' \in [Signal -> Nat] /\ sig_pending' \in Nat /\ sig_pending' > 0
      /\ \A u \in Signal : pend'[u] = IF u = s THEN pend[u] + 1 ELSE pend[u]
  BY <1>1, <1>2
<1>4. HandledAtMostOnce'
  <2>. SUFFICES ASSUME NEW u \in Signal
                PROVE  runs[u] + (IF pend'[u] > 0 THEN 1 ELSE 0)
                         + (IF u \in kpending' THEN 1 ELSE 0) <= sent[u]
    BY <1>1 DEF HandledAtMostOnce
  <2>1. runs[u] \in Nat /\ sent[u] \in Nat /\ pend[u] \in Nat
    BY SignalRange DEF IInv, SgTypeOK
  <2>2. runs[u] + (IF pend[u] > 0 THEN 1 ELSE 0) + (IF u \in kpending THEN 1 ELSE 0) <= sent[u]
    BY DEF IInv, HandledAtMostOnce
  <2>3. CASE u = s
    <3>1. u \in kpending /\ u \notin kpending'
      BY <1>1, <2>3
    <3>. QED BY <2>1, <2>2, <3>1
  <2>4. CASE u # s
    <3>1. (u \in kpending' <=> u \in kpending) /\ pend'[u] = pend[u]
      BY <1>1, <1>3, <2>4
    <3>. QED BY <2>2, <3>1
  <2>. QED BY <2>3, <2>4
<1>5. NothingStranded'
  BY <1>3 DEF NothingStranded
<1>6. \A i \in 1..Len(sgStack) : sgStack[i].kind # "despatch" => sgStack[i].sig # s
  BY <1>1 DEF IInv, StaysBlocked
<1>. QED BY <1>3, <1>4, <1>5, <1>6

\* The C handler leaves handlers that have gone alone, which catch no signal: the
\* k innermost frames stay, and if the main code is about to delete a handler then
\* the despatch_signals called for it is among them, or goes with the assignment.
LEMMA CaughtIsThere ==
  ASSUME IInv, NEW s \in Signal, Csighandler(s), sgStack' \in Seq(Frame),
         NEW k \in Nat, Len(sgStack') = k, Keeps(k),
         k = Len(sgStack) \/ k >= 2 \/
           (k = 1 /\ sgStack[1].kind = "set" /\ Len(sgStack) >= 2 =>
              sgStack[2].kind # "despatch")
  PROVE  GoneAreQuiet'
<1>. SUFFICES ASSUME ~sgScenario.dies, "handler" \notin sgScenario.deletes
              PROVE  /\ over' # "exit" /\ LastIsSeen'
                     /\ \A u \in Signal : ptr'[u] = "NULL" => disp'[u] = "default" /\ pend'[u] = 0
                     /\ \A i \in 1..k : Assigns(i)' /\ sgStack'[i].value = "NULL" => i = 1
  BY DEF Csighandler, GoneAreQuiet
<1>1. PICK n \in Nat : n = Len(sgStack) /\ k <= n
  BY EveryFrame DEF Keeps, IInv
<1>2. \A i \in 1..k : sgStack'[i] = sgStack[i] /\ i \in 1..n
  BY <1>1 DEF Keeps
<1>3. over' # "exit" /\ \A u \in Signal : ptr'[u] = "NULL" => disp'[u] = "default" /\ pend'[u] = 0
  <2>1. over' = over /\ ptr' = ptr /\ disp' = disp /\ disp[s] = "catch"
    BY DEF Csighandler
  <2>2. \A u \in Signal : u # s => pend'[u] = pend[u]
    BY CountedOnce
  <2>3. over # "exit" /\ \A u \in Signal : ptr[u] = "NULL" => disp[u] = "default" /\ pend[u] = 0
    BY DEF IInv, GoneAreQuiet
  <2>. QED BY <2>1, <2>2, <2>3
<1>4. \A i \in 1..k : Assigns(i)' /\ sgStack'[i].value = "NULL" => i = 1
  BY <1>1, <1>2 DEF IInv, GoneAreQuiet, Assigns
<1>5. LastIsSeen'
  <2>. SUFFICES ASSUME k > 0, sgStack'[1].kind = "set", sgStack'[1].value = "NULL"
                PROVE  pend'[sgStack'[1].sig] = 0 \/ (k >= 2 /\ Sees(2, sgStack[1].sig)')
    BY <1>2 DEF LastIsSeen, Sees
  <2>1. 1 \in 1..k /\ 1 \in 1..n /\ sgStack'[1] = sgStack[1] /\ n > 0
    BY <1>1, <1>2
  <2>2. sgStack[1].sig \in Signal /\ pend'[sgStack[1].sig] = pend[sgStack[1].sig]
    <3>1. LiesRight(1)
      BY <1>1, <2>1 DEF IInv, Nesting
    <3>2. sgStack[1].sig \in Signal /\ sgStack[1].sig # s
      BY <1>1, <2>1, <3>1, CountedOnce DEF LiesRight
    <3>. QED BY <3>2, CountedOnce
  <2>3. pend[sgStack[1].sig] = 0 \/ (n >= 2 /\ Sees(2, sgStack[1].sig))
    BY <1>1, <2>1 DEF IInv, GoneAreQuiet, LastIsSeen
  <2>4. ASSUME n >= 2, Sees(2, sgStack[1].sig) PROVE k >= 2 /\ Sees(2, sgStack[1].sig)'
    <3>1. k >= 2
      BY <1>1, <2>1, <2>4 DEF Sees
    <3>2. 2 \in 1..k
      BY <3>1
    <3>3. 2 = n => k = n
      <4>1. k <= n
        BY <1>1
      <4>. QED BY <3>1, <4>1
    <3>. QED BY <1>1, <1>2, <2>1, <2>4, <3>1, <3>2, <3>3 DEF Sees
  <2>. QED BY <2>1, <2>2, <2>3, <2>4
<1>. QED BY <1>3, <1>4, <1>5

LEMMA CsighandlerKeeps == ASSUME IInv, NEW s \in Signal, Csighandler(s) PROVE IInv'
<1>1. /\ HandledAtMostOnce' /\ NothingStranded'
      /\ pend' \in [Signal -> Nat] /\ sig_pending' \in Nat
      /\ \A u \in Signal : pend'[u] = IF u = s THEN pend[u] + 1 ELSE pend[u]
  BY CountedOnce
<1>2. /\ s \notin mask /\ UNCHANGED <<sent, disp, ptr, runs, sgScenario, umask, left, over>>
      /\ kpending' \subseteq kpending
  BY DEF Csighandler
<1>3. PICK n \in Nat : n = Len(sgStack)
  BY EveryFrame DEF IInv
<1>4. \A u \in Signal : u \in mask => pend'[u] = pend[u] \/ pend'[u] = 0
  BY <1>1, <1>2
<1>5. sgStack \in Seq(Frame) /\ mask \subseteq Signal
  BY DEF IInv, SgTypeOK
<1>6. CASE sgStack' = sgStack /\ mask \subseteq mask' /\ mask' \subseteq mask \cup {s}
             /\ flooded' \in BOOLEAN /\ (flooded => flooded') /\ (mask' = mask \/ flooded')
  <2>1. Nesting' /\ MasksNest' /\ StaysBlocked' /\ HandlersDoNotNest'
    BY <1>2, <1>6, StackStays
  <2>2. Len(sgStack') = n /\ Keeps(n) /\ sgStack' \in Seq(Frame)
    BY <1>3, <1>5, <1>6 DEF Keeps
  <2>3. NewAreQuiet(n)
    <3>1. (n + 1)..n = {}
      OBVIOUS
    <3>. QED BY <2>2, <3>1 DEF NewAreQuiet
  <2>4. RunningAreQuiet'
    BY <1>4, <2>2, <2>3, QuietMoves
  <2>5. GoneAreQuiet'
    BY <1>3, <2>2, CaughtIsThere
  <2>6. SgTypeOK'
    BY <1>1, <1>2, <1>6 DEF IInv, SgTypeOK
  <2>. QED BY <1>1, <2>1, <2>4, <2>5, <2>6 DEF IInv
<1>7. CASE ~InPerlCode /\ flooded' = TRUE /\ Unwind(sgStack, mask \cup {s})
  <2>1. PICK l \in Nat : l + 1 = n /\ sgStack[l + 1].kind # "handler"
    <3>1. sgStack # <<>> /\ Top.kind # "handler"
      BY <1>7 DEF InPerlCode, Csighandler
    <3>2. PICK l \in Nat : l + 1 = Len(sgStack) /\ Top = sgStack[l + 1]
      BY <3>1, Depth
    <3>. QED BY <1>3, <3>1, <3>2
  <2>2. Len(sgStack) = l + 1 /\ l + 1 \in 1..Len(sgStack)
    BY <1>3, <2>1
  <2>3. PICK k \in Nat :
          /\ sgStack' \in Seq(Frame) /\ Len(sgStack') = k /\ Keeps(k)
          /\ \/ /\ k = l /\ k + 1 \in 1..Len(sgStack)
                /\ mask' = IF sgStack[k + 1].kind = "despatch" THEN mask \cup {s}
                           ELSE sgStack[k + 1].save
                /\ sgStack[k + 1].kind = "despatch" /\ k > 0 => sgStack[k].kind # "set"
             \/ /\ k + 1 = l /\ k + 1 \in 1..Len(sgStack) /\ sgStack[k + 2].kind = "despatch"
                /\ sgStack[k + 1].kind = "set" /\ mask' = sgStack[k + 1].save
    BY <1>5, <1>7, <2>1, <2>2, UnwindGoes
  <2>4. MaskIsRight(k) /\ mask' \subseteq Signal
    <3>1. CASE mask' = mask \cup {s}
      <4>1. \A i \in 1..k : i \in 1..Len(sgStack)
        BY <1>3, <2>3 DEF Keeps
      <4>2. \A i \in 1..k : sgStack[i].kind # "despatch" => sgStack[i].sig \in mask
        BY <4>1 DEF IInv, StaysBlocked
      <4>. QED BY <1>5, <1>7, <3>1, <4>2 DEF MaskIsRight
    <3>2. CASE mask' # mask \cup {s}
      <4>1. sgStack[k + 1].kind # "despatch" /\ mask' = sgStack[k + 1].save
            /\ k + 1 \in 1..Len(sgStack)
        BY <2>3, <3>2
      <4>2. sgStack[k + 1].kind # "handler" /\ sgStack[k + 1] \in Frame
        BY <2>1, <2>3, <4>1, EveryFrame DEF IInv
      <4>3. Assigns(k + 1) /\ mask' \subseteq Signal
        BY <4>1, <4>2, FrameFields DEF Assigns
      <4>. QED BY <1>7, <4>1, <4>3, SavedIsRight DEF MaskIsRight
    <3>. QED BY <3>1, <3>2
  <2>5. /\ Nesting' /\ MasksNest' /\ StaysBlocked' /\ HandlersDoNotNest'
        /\ NewAreQuiet(k)
    BY <1>2, <1>7, <2>3, <2>4, FramesGo
  <2>6. RunningAreQuiet'
    BY <1>4, <2>3, <2>5, QuietMoves
  <2>7. GoneAreQuiet'
    <3>1. ASSUME k = 1, sgStack[1].kind = "set", n >= 2 PROVE sgStack[2].kind # "despatch"
      <4>0. k + 1 = 2 /\ k + 2 = 3 /\ k > 0
        BY <3>1
      <4>1. CASE k = l
        BY <2>3, <3>1, <4>0, <4>1
      <4>2. CASE k # l
        BY <2>3, <4>0, <4>2
      <4>. QED BY <4>1, <4>2
    <3>2. k = 0 \/ k = 1 \/ k >= 2
      OBVIOUS
    <3>. QED BY <1>3, <2>3, <3>1, <3>2, CaughtIsThere
  <2>8. SgTypeOK'
    BY <1>1, <1>2, <1>7, <2>3, <2>4 DEF IInv, SgTypeOK
  <2>. QED BY <1>1, <2>5, <2>6, <2>7, <2>8 DEF IInv
<1>8. (flooded \in BOOLEAN) /\ (~InPerlCode \/ InPerlCode)
  BY DEF IInv, SgTypeOK
<1>9. CASE UNCHANGED <<sgStack, mask, flooded>>
  BY <1>6, <1>8, <1>9
<1>10. CASE flooded' = TRUE /\ mask' = mask \cup {s} /\ UNCHANGED sgStack
  BY <1>6, <1>10
<1>11. \/ UNCHANGED <<sgStack, mask, flooded>>
       \/ /\ flooded' = TRUE
          /\ \/ InPerlCode /\ mask' = mask \cup {s} /\ UNCHANGED sgStack
             \/ ~InPerlCode /\ Unwind(sgStack, mask \cup {s})
  BY Zenon DEF Csighandler
<1>. QED BY <1>7, <1>9, <1>10, <1>11
-----------------------------------------------------------------------------
LEMMA IInvInit == SgInit => IInv
<1>. SUFFICES ASSUME SgInit PROVE IInv
  OBVIOUS
<1>1. sgStack = <<>> /\ Len(sgStack) = 0 /\ 1..0 = {} /\ DOMAIN sgStack = {} /\ mask = {}
      /\ umask = {} /\ \A s \in Signal : pend[s] = 0 /\ ptr[s] = "code" /\ runs[s] = 0
                                          /\ sent[s] = 0
  BY DEF SgInit
<1>2. SgTypeOK
  <2>1. left \in Budget /\ sgScenario \in SgScenario
    BY SignalsAssumption DEF SgInit
  <2>2. /\ sent \in [Signal -> 0..MaxSent] /\ runs \in [Signal -> Nat]
        /\ pend \in [Signal -> Nat] /\ sig_pending \in Nat
    BY SignalRange DEF SgInit
  <2>3. /\ disp \in [Signal -> {"catch", "ignore", "default"}]
        /\ ptr \in [Signal -> {"code", "IGNORE", "DEFAULT", "NULL"}]
    BY DEF SgInit
  <2>4. sgStack \in Seq(Frame)
    BY <1>1
  <2>. QED BY <2>1, <2>2, <2>3, <2>4 DEF SgInit, SgTypeOK
<1>3. Nesting /\ StaysBlocked /\ RunningAreQuiet /\ HandlersDoNotNest /\ NothingStranded
  BY <1>1 DEF Nesting, StaysBlocked, RunningAreQuiet, HandlersDoNotNest, NothingStranded
<1>4. MasksNest
  BY <1>1 DEF MasksNest, Asked
<1>5. GoneAreQuiet
  BY <1>1 DEF SgInit, GoneAreQuiet, LastIsSeen
<1>6. HandledAtMostOnce
  BY <1>1 DEF SgInit, HandledAtMostOnce
<1>. QED BY <1>2, <1>3, <1>4, <1>5, <1>6 DEF IInv

LEMMA IInvNext == IInv /\ [SgNext]_sgVars => IInv'
<1>. SUFFICES ASSUME IInv, [SgNext]_sgVars PROVE IInv'
  OBVIOUS
<1>1. CASE \E s \in Signal : Send(s) \/ Killed(s) \/ Csighandler(s)
  BY <1>1, SendKeeps, KilledKeeps, CsighandlerKeeps
<1>2. CASE Interpreter
  BY <1>2, AsyncCheckKeeps, DespatchBeginsKeeps, DespatchSkipsKeeps, DespatchCallsKeeps,
     DespatchWarnsKeeps, DespatchExitsKeeps, DespatchEndsKeeps, HandlerReturnsKeeps,
     SetSigChecksKeeps, SetSigSetsKeeps
     DEF Interpreter
<1>3. CASE HandlerDies
  BY <1>3, HandlerDiesKeeps
<1>4. CASE \E s \in Signal, v \in {"code", "IGNORE", "DEFAULT", "NULL"} : SetSig(s, v)
  BY <1>4, SetSigKeeps
<1>5. CASE \E s \in Signal : GetSig(s)
  BY <1>5, GetSigKeeps
<1>6. CASE \E m \in SUBSET Signal : Sigprocmask(m)
  BY <1>6, SigprocmaskKeeps
<1>7. CASE Fork
  BY <1>7, ForkKeeps
<1>8. CASE UNCHANGED sgVars
  <2>1. /\ UNCHANGED <<sgScenario, umask, left, flooded, over, sent, kpending, disp, pend>>
        /\ UNCHANGED <<mask, ptr, sgStack, runs, sig_pending>>
    BY <1>8 DEF sgVars, kernel, counters, program
  <2>2. Nesting' /\ MasksNest' /\ StaysBlocked' /\ HandlersDoNotNest'
    BY <2>1, StackStays
  <2>3. RunningAreQuiet' /\ NothingStranded' /\ GoneAreQuiet' /\ HandledAtMostOnce'
    BY <2>1, CountersStay, GoneStay, TalliesStay DEF counters
  <2>4. SgTypeOK'
    BY <2>1 DEF IInv, SgTypeOK
  <2>. QED BY <2>2, <2>3, <2>4 DEF IInv
<1>. QED BY <1>1, <1>2, <1>3, <1>4, <1>5, <1>6, <1>7, <1>8 DEF SgNext

LEMMA Invariance == SgSpec => []IInv
  BY IInvInit, IInvNext, PTL DEF SgSpec

\* The variables keep their types, and so do the frames (mg.c,
\* Perl_despatch_signals, Perl_magic_setsig).
THEOREM SignalTypes == SgSpec => []SgTypeOK
<1>1. IInv => SgTypeOK
  BY DEF IInv
<1>. QED BY <1>1, Invariance, PTL

\* No signal is left behind, handled twice or sent to a handler that has gone, and
\* the mask follows the nesting of handlers and assignments, for every number of
\* signals, every program and every maximal count: SignalsAreKept is an invariant.
THEOREM SignalsStayKept == SgSpec => []SignalsAreKept
<1>1. ASSUME IInv PROVE SignalsAreKept
  <2>1. DOMAIN sgStack = 1..Len(sgStack)
    BY <1>1, Domain DEF IInv, SgTypeOK
  <2>2. /\ MasksNest /\ NothingStranded /\ HandledAtMostOnce /\ HandlersDoNotNest
        /\ GoneAreQuiet
    BY <1>1 DEF IInv
  <2>3. MaskFollowsStack
    BY <2>1, <2>2 DEF MasksNest, Asked, MaskFollowsStack
  <2>4. HandlerIsThere
    BY <2>2 DEF GoneAreQuiet, HandlerIsThere
  <2>. QED BY <2>2, <2>3, <2>4 DEF SignalsAreKept
<1>2. IInv => SignalsAreKept
  BY <1>1
<1>. QED BY <1>2, Invariance, PTL
=============================================================================
