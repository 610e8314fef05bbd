---------------------------- MODULE SafeSignals ----------------------------
(***************************************************************************)
(* Deferred ("safe") signals: the C handler that the kernel calls at any   *)
(* machine instruction only counts (mg.c, Perl_csighandler3); the program  *)
(* runs the %SIG handlers at its next safe point (Perl_despatch_signals),  *)
(* where they may be interrupted, may set %SIG and may die.                *)
(*                                                                         *)
(* The program is a stack of frames of C functions over its main code.  A  *)
(* C handler touches only the counters, so it is one action of the kernel  *)
(* between any two steps of the program.                                   *)
(*                                                                         *)
(* Left out: faults (SEGV, BUS, ILL, FPE) and PERL_SIGNALS=unsafe, whose   *)
(* handlers run at once; threads, of which only the first may set signals. *)
(***************************************************************************)
EXTENDS Integers, Sequences, FiniteSets

CONSTANTS
  MaxSignal,               \* signals are numbered 1..MaxSignal
  SIG_PENDING_DIE_COUNT,   \* 120
  SgScenario,                \* what the program does, see SignalsAssumption
  MaxSent                  \* bound on the times one signal is sent

Signal == 1..MaxSignal

\* Bounds on the assignments to %SIG and on the calls of POSIX::sigprocmask and
\* of fork.
Budget == [sets : Nat, masks : Nat, forks : Nat]

\* dies: handlers may die; deletes: who deletes elements of %SIG.
ASSUME SignalsAssumption ==
  /\ {MaxSignal, SIG_PENDING_DIE_COUNT, MaxSent} \subseteq Nat \ {0}
  /\ SgScenario \subseteq
       [dies : BOOLEAN, deletes : SUBSET {"main", "handler"}, budget : Budget]

VARIABLES
  sgScenario,   \* never changes
  sent,       \* how often each signal was sent to this process
  kpending,   \* sent, caught by a handler, but not delivered yet
  mask,       \* the process's signal mask
  disp,       \* what rsignal() has set: "catch", "ignore" or "default"
  ptr,        \* PL_psig_ptr: "code", a word that is no sub, or "NULL"
  pend,       \* PL_psig_pend
  sig_pending,\* PL_sig_pending
  sgStack,      \* frames, the innermost last
  runs,       \* how often each %SIG handler was called in this process
  umask,      \* the mask that the main code has asked for
  left,       \* what is left of the budget
  flooded,    \* the maximal count was exceeded
  over        \* "no", "exit" (no handler set) or "killed"

kernel == <<sent, kpending, disp>>
counters == <<pend, sig_pending>>
program == <<sgScenario, umask, left, flooded, over>>
sgVars == <<kernel, mask, ptr, counters, sgStack, runs, program>>

\* despatch: sig is the loop's variable, 0 before PL_sig_pending is reset; was
\* is was_blocked.  setsig and set: before and after PERL_ASYNC_CHECK; save and
\* value are the old mask and what is assigned.  handler: the handler of sig,
\* over its despatch frame.
Frame == [kind : {"despatch", "handler", "setsig", "set"}, sig : 0..(MaxSignal + 1),
          was : BOOLEAN, save : SUBSET Signal,
          value : {"code", "IGNORE", "DEFAULT", "NULL"}]

DespatchFrame ==
  [kind |-> "despatch", sig |-> 0, was |-> FALSE, save |-> {}, value |-> "NULL"]
HandlerFrame(s) == [DespatchFrame EXCEPT !.kind = "handler", !.sig = s]
SetFrame(s, v) ==
  [kind |-> "setsig", sig |-> s, was |-> FALSE, save |-> mask, value |-> v]

SgInit ==
  /\ sgScenario \in SgScenario
  /\ sent = [s \in Signal |-> 0] /\ kpending = {} /\ mask = {} /\ umask = {}
  /\ disp = [s \in Signal |-> "catch"] /\ ptr = [s \in Signal |-> "code"]
  /\ pend = [s \in Signal |-> 0] /\ sig_pending = 0
  /\ sgStack = <<>>
  /\ runs = [s \in Signal |-> 0]
  /\ left = sgScenario.budget
  /\ flooded = FALSE /\ over = "no"

Top == sgStack[Len(sgStack)]
Below == SubSeq(sgStack, 1, Len(sgStack) - 1)
In(kind) == over = "no" /\ sgStack # <<>> /\ Top.kind = kind

\* The main code, or the code of a handler, is running.
InPerlCode == over = "no" /\ (sgStack # <<>> => Top.kind = "handler")

SetTop(f) == sgStack' = Below \o <<f>>
PushFrame(f) == sgStack' = sgStack \o <<f>>

\* Leaving the scope that despatch_signals entered if it blocked the signal.
Unblocked(m, f) == IF f.was THEN m ELSE m \ {f.sig}

\* The innermost frame's C code dies, with m as the mask: its scopes are left,
\* down to the code that can have an eval.
UnwindC(st, m) ==
  LET f == st[Len(st)]
  IN  /\ sgStack' = SubSeq(st, 1, Len(st) - 1)
      /\ mask' = IF f.kind = "despatch" THEN m ELSE f.save

\* The same for a frame with a despatch frame over it, or without one.
Unwind(st, m) ==
  LET under == Len(st) - 1
  IN  IF st[Len(st)].kind = "despatch" /\ under > 0 /\ st[under].kind = "set"
      THEN UnwindC(SubSeq(st, 1, under), m)
      ELSE UnwindC(st, m)
-----------------------------------------------------------------------------
\* Somebody sends signal s to the process.  A signal that is already pending
\* in the kernel is merged with it.
Send(s) ==
  /\ over = "no" /\ sent[s] < MaxSent
  /\ sent' = [sent EXCEPT ![s] = @ + 1]
  /\ kpending' = IF disp[s] = "ignore" THEN kpending ELSE kpending \cup {s}
  /\ UNCHANGED <<mask, disp, ptr, counters, sgStack, runs, program>>

Killed(s) ==
  /\ over = "no" /\ s \in kpending \ mask /\ disp[s] = "default"
  /\ over' = "killed"
  /\ UNCHANGED <<kernel, mask, ptr, counters, sgStack, runs, sgScenario, umask, left,
                 flooded>>

\* Mutant of Csighandler: the flag that _a_ signal is pending is not raised.
CsighandlerNoFlag(s) ==
  /\ over = "no" /\ s \in kpending \ mask /\ disp[s] = "catch"
  /\ kpending' = kpending \ {s}
  /\ pend' = [pend EXCEPT ![s] = @ + 1]
  /\ UNCHANGED <<sent, disp, mask, sig_pending, ptr, sgStack, runs, program>>

\* Perl_csighandler3.  At the maximal count it croaks out of the C handler, in
\* which the kernel has s blocked, and nobody unblocks it: the jump restores no
\* mask (SCOPE_SAVES_SIGNAL_MASK is 0).  Perl code may have an eval of its own.
Csighandler(s) ==
  /\ over = "no" /\ s \in kpending \ mask /\ disp[s] = "catch"
  /\ kpending' = kpending \ {s}
  /\ pend' = [pend EXCEPT ![s] = @ + 1]
  /\ sig_pending' = sig_pending + 1
  /\ UNCHANGED <<sent, disp, ptr, runs, sgScenario, umask, left, over>>
  /\ IF sig_pending' < SIG_PENDING_DIE_COUNT
     THEN UNCHANGED <<sgStack, mask, flooded>>
     ELSE /\ flooded' = TRUE
          /\ \/ InPerlCode /\ mask' = mask \cup {s} /\ UNCHANGED sgStack
             \/ ~InPerlCode /\ Unwind(sgStack, mask \cup {s})
-----------------------------------------------------------------------------
\* PERL_ASYNC_CHECK in Perl code.
AsyncCheck ==
  /\ InPerlCode /\ sig_pending > 0
  /\ PushFrame(DespatchFrame)
  /\ UNCHANGED <<kernel, mask, ptr, counters, runs, program>>

\* Perl_despatch_signals: PL_sig_pending = 0.
DespatchBegins ==
  /\ In("despatch") /\ Top.sig = 0
  /\ sig_pending' = 0
  /\ SetTop([Top EXCEPT !.sig = 1])
  /\ UNCHANGED <<kernel, mask, ptr, pend, runs, program>>

DespatchEnds ==
  /\ In("despatch") /\ Top.sig > MaxSignal
  /\ sgStack' = Below
  /\ UNCHANGED <<kernel, mask, ptr, counters, runs, program>>

\* One round of the loop: nothing, or the signal is blocked, its count reset and
\* perly_sighandler called, which exits without a handler and only warns if the
\* handler is no sub.
DespatchSkips ==
  /\ In("despatch") /\ Top.sig \in Signal /\ pend[Top.sig] = 0
  /\ SetTop([Top EXCEPT !.sig = @ + 1])
  /\ UNCHANGED <<kernel, mask, ptr, counters, runs, program>>

DespatchCalls ==
  LET s == Top.sig
      f == [Top EXCEPT !.was = s \in mask]
  IN  /\ In("despatch") /\ s \in Signal /\ pend[s] > 0 /\ ptr[s] = "code"
      /\ pend' = [pend EXCEPT ![s] = 0]
      /\ sgStack' = Below \o <<f, HandlerFrame(s)>>
      /\ mask' = mask \cup {s}
      /\ runs' = [runs EXCEPT ![s] = @ + 1]
      /\ UNCHANGED <<kernel, ptr, sig_pending, program>>

DespatchWarns ==
  /\ In("despatch") /\ Top.sig \in Signal /\ pend[Top.sig] > 0
  /\ ptr[Top.sig] \in {"IGNORE", "DEFAULT"}
  /\ pend' = [pend EXCEPT ![Top.sig] = 0]
  /\ SetTop([Top EXCEPT !.sig = @ + 1])
  /\ UNCHANGED <<kernel, mask, ptr, sig_pending, runs, program>>

DespatchExits ==
  /\ In("despatch") /\ Top.sig \in Signal /\ pend[Top.sig] > 0
  /\ ptr[Top.sig] = "NULL"
  /\ pend' = [pend EXCEPT ![Top.sig] = 0]
  /\ over' = "exit"
  /\ UNCHANGED <<kernel, mask, ptr, sig_pending, sgStack, runs, sgScenario, umask, left,
                 flooded>>

\* A handler returns to the loop that called it.
HandlerReturns ==
  LET f == Below[Len(Below)]
  IN  /\ In("handler")
      /\ sgStack' = SubSeq(sgStack, 1, Len(sgStack) - 2)
                  \o <<[f EXCEPT !.sig = @ + 1, !.was = FALSE]>>
      /\ mask' = Unblocked(mask, f)
      /\ UNCHANGED <<kernel, ptr, counters, runs, program>>

\* A handler dies, and perly_sighandler dies on its behalf: despatch_signals is
\* left, and the magic_setsig that called it.
HandlerDies ==
  /\ In("handler") /\ sgScenario.dies
  /\ Unwind(Below, Unblocked(mask, Below[Len(Below)]))
  /\ UNCHANGED <<kernel, ptr, counters, runs, program>>
-----------------------------------------------------------------------------
Deletes == (IF sgStack = <<>> THEN "main" ELSE "handler") \in sgScenario.deletes

\* $SIG{s} = v, or delete $SIG{s}: magic_setsig blocks s before its check.
SetSig(s, v) ==
  /\ InPerlCode /\ left.sets > 0
  /\ v = "NULL" => Deletes
  /\ left' = [left EXCEPT !.sets = @ - 1]
  /\ mask' = mask \cup {s}
  /\ PushFrame(SetFrame(s, v))
  /\ UNCHANGED <<kernel, ptr, counters, runs, sgScenario, umask, flooded, over>>

SetSigChecks ==
  /\ In("setsig")
  /\ LET f == [Top EXCEPT !.kind = "set"]
     IN  sgStack' = Below \o (IF sig_pending > 0 THEN <<f, DespatchFrame>> ELSE <<f>>)
  /\ UNCHANGED <<kernel, mask, ptr, counters, runs, program>>

\* The new disposition, and the old mask.  A signal that is ignored does not
\* stay pending in the kernel.
SetSigSets ==
  LET s == Top.sig
      v == Top.value
      d == CASE v = "code" -> "catch" [] v = "IGNORE" -> "ignore" [] OTHER -> "default"
  IN  /\ In("set")
      /\ ptr' = [ptr EXCEPT ![s] = v]
      /\ disp' = [disp EXCEPT ![s] = d]
      /\ kpending' = IF d = "ignore" THEN kpending \ {s} ELSE kpending
      /\ mask' = Top.save
      /\ sgStack' = Below
      /\ UNCHANGED <<sent, counters, runs, program>>

\* $SIG{s} is read after it was deleted: magic_getsig caches what it returns
\* where the handlers are kept (undef, which like 'DEFAULT' is no sub).
GetSig(s) ==
  /\ InPerlCode /\ ptr[s] = "NULL"
  /\ ptr' = [ptr EXCEPT ![s] = "DEFAULT"]
  /\ UNCHANGED <<kernel, mask, counters, sgStack, runs, program>>

\* POSIX::sigprocmask in the main code.
Sigprocmask(m) ==
  /\ over = "no" /\ sgStack = <<>> /\ left.masks > 0
  /\ left' = [left EXCEPT !.masks = @ - 1]
  /\ mask' = m /\ umask' = m
  /\ UNCHANGED <<kernel, ptr, counters, sgStack, runs, sgScenario, flooded, over>>

\* Mutant of Fork: the child keeps the counts.
ForkKeepsCounts ==
  /\ InPerlCode /\ left.forks > 0
  /\ left' = [left EXCEPT !.forks = @ - 1]
  /\ kpending' = {} /\ sent' = [s \in Signal |-> 0] /\ runs' = [s \in Signal |-> 0]
  /\ UNCHANGED <<disp, mask, ptr, counters, sgStack, sgScenario, umask, flooded, over>>

\* pp_fork, with all signals blocked around it, as the child goes on (to the
\* parent it does nothing).  Signals sent to the parent are not the child's.
Fork ==
  /\ InPerlCode /\ left.forks > 0
  /\ left' = [left EXCEPT !.forks = @ - 1]
  /\ sig_pending' = 0 /\ pend' = [s \in Signal |-> 0]
  /\ kpending' = {} /\ sent' = [s \in Signal |-> 0] /\ runs' = [s \in Signal |-> 0]
  /\ UNCHANGED <<disp, mask, ptr, sgStack, sgScenario, umask, flooded, over>>

\* What the interpreter does of itself.
Interpreter ==
  \/ AsyncCheck
  \/ DespatchBegins \/ DespatchSkips \/ DespatchCalls \/ DespatchWarns
  \/ DespatchExits \/ DespatchEnds
  \/ HandlerReturns
  \/ SetSigChecks \/ SetSigSets

SgNext ==
  \/ \E s \in Signal : Send(s) \/ Killed(s) \/ Csighandler(s)
  \/ Interpreter
  \/ HandlerDies
  \/ \E s \in Signal, v \in {"code", "IGNORE", "DEFAULT", "NULL"} : SetSig(s, v)
  \/ \E s \in Signal : GetSig(s)
  \/ \E m \in SUBSET Signal : Sigprocmask(m)
  \/ Fork

SgSpec == SgInit /\ [][SgNext]_sgVars

\* The interpreter runs on, and handlers return or die.  Nothing makes the
\* program assign to %SIG, or anybody send a signal.
SgFairSpec == SgSpec /\ WF_sgVars(Interpreter)
-----------------------------------------------------------------------------
SgTypeOK ==
  /\ sgScenario \in SgScenario
  /\ sent \in [Signal -> 0..MaxSent] /\ runs \in [Signal -> Nat]
  /\ kpending \subseteq Signal /\ mask \subseteq Signal /\ umask \subseteq Signal
  /\ disp \in [Signal -> {"catch", "ignore", "default"}]
  /\ ptr \in [Signal -> {"code", "IGNORE", "DEFAULT", "NULL"}]
  /\ pend \in [Signal -> Nat] /\ sig_pending \in Nat
  /\ sgStack \in Seq(Frame)
  /\ left \in Budget
  /\ flooded \in BOOLEAN /\ over \in {"no", "exit", "killed"}

\* The signals blocked are those the main code has asked for, those whose
\* handlers run and those whose %SIG elements are being set, however handlers,
\* assignments and dies are nested (unless the maximal count was exceeded).
MaskFollowsStack ==
  ~flooded =>
    mask = umask \cup {sgStack[i].sig : i \in {j \in DOMAIN sgStack : sgStack[j].kind # "despatch"}}

\* While the handler of a signal runs it is not called again (mg.c: "Signal
\* routines normally execute with the signal that caused their invocation
\* blocked").
HandlersDoNotNest ==
  \A i, j \in DOMAIN sgStack :
    sgStack[i].kind = "handler" /\ sgStack[j].kind = "handler" /\ i # j =>
      sgStack[i].sig # sgStack[j].sig

\* A pending signal is going to be seen, if no handler dies: the flag is
\* raised, or despatch_signals has not reached it yet.
NothingStranded ==
  ~sgScenario.dies =>
    \A s \in Signal : pend[s] > 0 =>
      \/ sig_pending > 0
      \/ \E i \in DOMAIN sgStack :
           /\ sgStack[i].kind = "despatch"
           /\ sgStack[i].sig < s \/ (i = Len(sgStack) /\ sgStack[i].sig = s)

\* despatch_signals finds no signal without a handler, in programs where no
\* handler dies or deletes elements of %SIG: magic_setsig lets none slip in.
HandlerIsThere ==
  ~sgScenario.dies /\ "handler" \notin sgScenario.deletes => over # "exit"

\* A handler runs at most once for each time that its signal was sent to this
\* process; a child that fork made handles none that was sent to its parent.
HandledAtMostOnce ==
  \A s \in Signal :
    runs[s] + (IF pend[s] > 0 THEN 1 ELSE 0) + (IF s \in kpending THEN 1 ELSE 0)
      <= sent[s]

\* No signal is left behind, handled twice or sent to a handler that has gone, and
\* what is blocked, and so which handlers may run, follows the nesting.
SignalsAreKept ==
  /\ NothingStranded /\ HandlerIsThere /\ HandledAtMostOnce
  /\ MaskFollowsStack /\ HandlersDoNotNest

\* If no handler dies, a signal that the C handler has counted is handled.
PendingIsHandled ==
  \A s \in Signal :
    (pend[s] > 0 /\ ~sgScenario.dies) ~> (pend[s] = 0 \/ over # "no")

\* perl58delta.pod: Perl looks at "any arrived signals (and before starting the
\* next operation)".  With the main code running and the flag down, no signal
\* that the C handler has counted waits for its handler.
HandledBeforeNextOp ==
  sgStack = <<>> /\ sig_pending = 0 => \A s \in Signal : pend[s] = 0
=============================================================================
