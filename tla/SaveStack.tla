------------------------------ MODULE SaveStack ------------------------------
(***************************************************************************)
(* The save stack and the context stack (scope.c, pp_ctl.c): local saves a *)
(* variable and leaving its scope puts it back.  Restoring a tied variable *)
(* calls STORE and leaving a scope calls destructors, so Perl code runs    *)
(* between two pops: it opens scopes of its own, saves more, and may die,  *)
(* which unwinds to the innermost eval from within the unwinding.          *)
(*                                                                         *)
(* A frame is an activation of leave_scope or of a callback on the C       *)
(* stack.  The stack of temporaries and the reference counts of globs are  *)
(* left out.                                                               *)
(***************************************************************************)
EXTENDS Naturals, Sequences, FiniteSets, FiniteSetsExt, SequencesExt

CONSTANTS
  Var,        \* names of global scalars
  TiedVars,   \* those that are tied: getting and setting them calls a method
  MaxValue,   \* bound: scalar structures
  MaxScopes,  \* bound: contexts open at once
  MaxFrames,  \* bound: leave_scope and callbacks nested on the C stack
  MaxSaves,   \* bound: things saved in one execution
  MaxDeaths   \* bound: calls of die in one execution

ASSUME SsAssumption ==
  /\ IsFiniteSet(Var) /\ TiedVars \subseteq Var /\ Cardinality(Var) <= MaxValue
  /\ MaxSaves \in Nat /\ MaxDeaths \in Nat
  /\ MaxScopes \in Nat \ {0} /\ MaxFrames \in Nat /\ MaxValue \in Nat

VARIABLES
  slot,        \* GvSV of each variable
  refs,        \* reference counts
  saved,       \* the save stack
  scopes,      \* the context stack
  frames,      \* the C stack
  localizing,  \* PL_localizing
  saves,       \* things saved so far
  deaths       \* calls of die so far

ssVars == <<slot, refs, saved, scopes, frames, localizing, saves, deaths>>

Value == 1..MaxValue
Free(r) == {s \in Value : r[s] = 0}

Scope(kind, base, depth) == [kind |-> kind, base |-> base, depth |-> depth, before |-> slot]

SsInit ==
  /\ slot = CHOOSE f \in [Var -> 1..Cardinality(Var)] : IsInjective(f)
  /\ refs = [s \in Value |-> IF s \in Range(slot) THEN 1 ELSE 0]
  /\ saved = <<>> /\ scopes = <<Scope("block", 0, 0)>> /\ frames = <<>>
  /\ localizing = 0 /\ saves = 0 /\ deaths = 0

Above == Last(frames)

\* Code that runs: the program's, or that of the innermost callback.  A
\* destructor is C code and has no context of its own.
Runs(op) == frames # <<>> /\ Above.op = op
CodeRuns == frames # <<>> => Above.op # "leave"

\* The number of contexts below those of the running code.
Outside == IF frames = <<>> THEN 1 ELSE Above.outside

\* Calls a method of a tied variable: call_sv makes a sub context.
Call(op, v, sv, stack) ==
  /\ Len(frames) < MaxFrames /\ Len(scopes) < MaxScopes
  /\ frames' = Append(frames, [op |-> op, var |-> v, outside |-> Len(scopes)])
  /\ scopes' = Append(scopes, [kind |-> "sub", base |-> Len(stack), depth |-> Len(frames) + 1,
                               before |-> sv])

\* A block or an eval is entered.
Enter(kind) ==
  /\ CodeRuns /\ Len(scopes) < MaxScopes
  /\ scopes' = Append(scopes, Scope(kind, Len(saved), Len(frames)))
  /\ UNCHANGED <<slot, refs, saved, frames, localizing, saves, deaths>>

\* save_scalar once the old value was fetched: the old value stays referenced
\* twice, and a new one takes its place.
Swap(v) ==
  LET new == CHOOSE s \in Free(refs) : \A t \in Free(refs) : s <= t
  IN  /\ Free(refs) # {}
      /\ saved' = Append(saved, [what |-> "value", var |-> v, value |-> slot[v]])
      /\ refs' = [refs EXCEPT ![slot[v]] = @ + 1, ![new] = 1]
      /\ slot' = [slot EXCEPT ![v] = new]

\* local $v
Local(v) ==
  /\ CodeRuns /\ saves < MaxSaves /\ saves' = saves + 1
  /\ IF v \in TiedVars
     THEN /\ localizing' = 1 /\ Call("fetch", v, slot, saved)
          /\ UNCHANGED <<slot, refs, saved>>
     ELSE Swap(v) /\ UNCHANGED <<scopes, frames, localizing>>
  /\ UNCHANGED deaths

\* A method that local called is back: mg_localize has STORE called for the
\* new value, and then nothing is left to do.
Fetched ==
  /\ Runs("fetch") /\ Len(scopes) = Above.outside
  /\ Swap(Above.var)
  /\ localizing' = 1
  /\ Len(scopes) < MaxScopes
  /\ frames' = [frames EXCEPT ![Len(frames)].op = "store"]
  /\ scopes' = Append(scopes, [kind |-> "sub", base |-> Len(saved'), depth |-> Len(frames),
                               before |-> slot'])
  /\ UNCHANGED <<saves, deaths>>

Stored ==
  /\ Runs("store") \/ Runs("restore")
  /\ Len(scopes) = Above.outside
  /\ localizing' = 0 /\ frames' = Front(frames)
  /\ UNCHANGED <<slot, refs, saved, scopes, saves, deaths>>

\* SAVEDESTRUCTOR_X
SaveDestructor ==
  /\ CodeRuns /\ saves < MaxSaves /\ saves' = saves + 1
  /\ saved' = Append(saved, [what |-> "destructor"])
  /\ UNCHANGED <<slot, refs, scopes, frames, localizing, deaths>>

\* CX_LEAVE_SCOPE of the innermost context
Leave ==
  /\ CodeRuns /\ Len(scopes) > Outside /\ Len(frames) < MaxFrames
  /\ frames' = Append(frames, [op |-> "leave", base |-> Last(scopes).base, catch |-> 0])
  /\ UNCHANGED <<slot, refs, saved, scopes, localizing, saves, deaths>>

\* dopoptoeval: the innermost eval, which may be one that is being left.
Catcher ==
  LET e == {i \in DOMAIN scopes : scopes[i].kind = "eval"} IN IF e = {} THEN 0 ELSE Max(e)

\* die_unwind: dounwind leaves the contexts inside the eval and then its own.
Die ==
  /\ CodeRuns /\ deaths < MaxDeaths /\ deaths' = deaths + 1
  /\ Catcher # 0
  /\ Len(frames) < MaxFrames
  /\ frames' = Append(frames, [op |-> "leave", base |-> Last(scopes).base, catch |-> Catcher])
  /\ UNCHANGED <<slot, refs, saved, scopes, localizing, saves>>
-----------------------------------------------------------------------------
\* leave_scope: one turn of its loop takes the top entry off the stack first.
Popping(what) ==
  /\ Runs("leave") /\ Len(saved) > Above.base /\ Last(saved).what = what

\* Mutant of PopValue: what must be freed is freed after the STORE that may die.
PopValueFreesLater ==
  LET e == Last(saved) IN
  /\ Popping("value")
  /\ slot' = [slot EXCEPT ![e.var] = e.value]
  /\ IF e.var \in TiedVars
     THEN /\ refs' = [refs EXCEPT ![slot[e.var]] = @ - 1]
          /\ saved' = Front(saved)
          /\ localizing' = 2
          /\ Call("restore", e.var, slot', saved')
     ELSE /\ refs' = [[refs EXCEPT ![slot[e.var]] = @ - 1] EXCEPT ![e.value] = @ - 1]
          /\ saved' = Front(saved)
          /\ UNCHANGED <<scopes, frames, localizing>>
  /\ UNCHANGED <<saves, deaths>>

\* SAVEt_SV.  STORE may die, so the value to free goes back on the stack first.
PopValue ==
  LET e == Last(saved) IN
  /\ Popping("value")
  /\ slot' = [slot EXCEPT ![e.var] = e.value]
  /\ IF e.var \in TiedVars
     THEN /\ refs' = [refs EXCEPT ![slot[e.var]] = @ - 1]
          /\ saved' = Append(Front(saved), [what |-> "free", value |-> e.value])
          /\ localizing' = 2
          /\ Call("restore", e.var, slot', saved')
     ELSE /\ refs' = [[refs EXCEPT ![slot[e.var]] = @ - 1] EXCEPT ![e.value] = @ - 1]
          /\ saved' = Front(saved)
          /\ UNCHANGED <<scopes, frames, localizing>>
  /\ UNCHANGED <<saves, deaths>>

\* SAVEt_FREESV
PopFree ==
  /\ Popping("free")
  /\ refs' = [refs EXCEPT ![Last(saved).value] = @ - 1]
  /\ saved' = Front(saved)
  /\ UNCHANGED <<slot, scopes, frames, localizing, saves, deaths>>

\* SAVEt_DESTRUCTOR_X
PopDestructor ==
  /\ Popping("destructor") /\ Len(frames) < MaxFrames
  /\ saved' = Front(saved)
  /\ frames' = Append(frames, [op |-> "destroy", var |-> 0, outside |-> Len(scopes)])
  /\ UNCHANGED <<slot, refs, scopes, localizing, saves, deaths>>

Destructed ==
  /\ Runs("destroy") /\ Len(scopes) = Above.outside
  /\ frames' = Front(frames)
  /\ UNCHANGED <<slot, refs, saved, scopes, localizing, saves, deaths>>

\* leave_scope is done.  dounwind goes on to the next context out; at the
\* eval itself JMPENV_JUMP drops all that has been called since it was entered.
Left ==
  LET n == Len(scopes) IN
  /\ Runs("leave") /\ Len(saved) <= Above.base
  /\ scopes' = Front(scopes)
  /\ IF Above.catch = 0 THEN frames' = Front(frames)
     ELSE IF Above.catch = n THEN frames' = SubSeq(frames, 1, scopes[n].depth)
     ELSE frames' = [frames EXCEPT ![Len(frames)].base = scopes[n - 1].base]
  /\ UNCHANGED <<slot, refs, saved, localizing, saves, deaths>>

SsStep == PopValue \/ PopFree \/ PopDestructor \/ Left

SsNext ==
  \/ \E kind \in {"block", "eval"} : Enter(kind)
  \/ \E v \in Var : Local(v)
  \/ Fetched \/ Stored \/ SaveDestructor \/ Leave \/ Die \/ Destructed \/ SsStep

SsSpec == SsInit /\ [][SsNext]_ssVars
-----------------------------------------------------------------------------
SsTypeOK ==
  /\ slot \in [Var -> Value] /\ refs \in [Value -> 0..(2 + 2 * MaxSaves)]
  /\ \A i \in DOMAIN saved :
       \/ saved[i].what = "value" /\ saved[i].var \in Var /\ saved[i].value \in Value
       \/ saved[i].what = "free" /\ saved[i].value \in Value
       \/ saved[i].what = "destructor"
  /\ \A i \in DOMAIN scopes :
       /\ scopes[i].kind \in {"block", "eval", "sub"}
       /\ scopes[i].base \in 0..Len(saved) /\ scopes[i].depth \in 0..Len(frames)
  /\ localizing \in 0..2

\* The value that v will have when all above base is popped.
ValueUnder(base, v) ==
  LET e == {i \in (base + 1)..Len(saved) : saved[i].what = "value" /\ saved[i].var = v}
  IN  IF e = {} THEN slot[v] ELSE saved[Min(e)].value

\* Whatever callbacks save, leave or break off with die, each open context will
\* give every variable back the value it had when the context was entered.
Restored == \A i \in DOMAIN scopes : \A v \in Var :
              ValueUnder(scopes[i].base, v) = scopes[i].before[v]

\* "Ensure that they're always freed in that case" (scope.c:1162): no
\* reference is lost or dropped twice when a STORE dies.
CountsHold == \A s \in Value :
  refs[s] = Cardinality({v \in Var : slot[v] = s})
            + 2 * Cardinality({i \in DOMAIN saved : saved[i].what = "value" /\ saved[i].value = s})
            + Cardinality({i \in DOMAIN saved : saved[i].what = "free" /\ saved[i].value = s})

\* The C stack and the context stack agree: a context was entered by a frame
\* that is still there, and running code owns the contexts above the line.
StacksAgree ==
  /\ \A i, j \in DOMAIN scopes : i < j => /\ scopes[i].base <= scopes[j].base
                                          /\ scopes[i].depth <= scopes[j].depth
  /\ CodeRuns => Len(scopes) >= Outside

\* "are we processing a local() list?  0 = no" (intrpvar.h:133): when no
\* callback runs, no; unless one of them died.
LocalizingEnds == frames = <<>> /\ deaths = 0 => localizing = 0

\* Leaving contexts, by their ends or by a die, undoes exactly what was saved in
\* them.
UnwindingIsRight == Restored /\ CountsHold /\ StacksAgree /\ LocalizingEnds
=============================================================================
