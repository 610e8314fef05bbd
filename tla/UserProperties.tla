--------------------------- MODULE UserProperties ---------------------------
(***************************************************************************)
(* User-defined Unicode properties (\p{IsFoo}; parse_uniprop_string and    *)
(* handle_user_defined_property in regcomp.c).  A Perl sub defines the     *)
(* property, and its text may name others, which are expanded in their     *)
(* turn.  The results of all threads live in one hash, PL_user_def_props,  *)
(* under PL_user_prop_mutex; while a thread expands a property the hash    *)
(* holds that thread's aTHX in its place.                                  *)
(*                                                                         *)
(* A stretch under the mutex is one action; the sub runs outside of it.    *)
(***************************************************************************)
EXTENDS Integers, Sequences

CONSTANTS
  Compiler,   \* threads that compile or run patterns
  Property,   \* keys of the hash: names with the /i flag
  Program,    \* what the subs and the threads may do, see UserPropAssumption
  Retries     \* the initial retry_countdown, 10 in the code

\* What a sub may do: die; return nothing; name a property that no sub defines
\* yet; return lines that name the properties in uses.
SubKinds == {"dies", "empty", "unknown", "lines"}

ASSUME UserPropAssumption ==
  /\ Program \subseteq [uses : [Property -> Seq(Property)],
                        subs : [Property -> SUBSET SubKinds],
                        compiles : [Compiler -> SUBSET Property],
                        defers : SUBSET BOOLEAN]
  /\ Compiler \cap {"none", "list", "error"} = {}
  /\ Retries \in Nat

VARIABLES
  program,  \* never changes
  entry,    \* PL_user_def_props: "none", "list" (an inversion list), "error"
            \* (a message), or the thread that is expanding the property
  frames,   \* each thread's nested calls of parse_uniprop_string, innermost
            \* first
  deferrable  \* may the pattern's properties wait for the time of the match?

upVars == <<program, entry, frames, deferrable>>

Places == {"fetch", "call", "expand", "store", "leave"}
Frame(k) ==
  [prop |-> k, at |-> "fetch", tries |-> Retries, todo |-> <<>>, result |-> "list"]

UpInit ==
  /\ program \in Program
  /\ entry = [k \in Property |-> "none"]
  /\ frames = [t \in Compiler |-> <<>>]
  /\ deferrable = [t \in Compiler |-> FALSE]

Permanent(e) == e \in {"list", "error"}

At(t, place) == frames[t] # <<>> /\ Head(frames[t]).at = place

Become(t, f) == frames' = [frames EXCEPT ![t] = <<f>> \o Tail(@)]

Finished(t, r) ==
  Become(t, [Head(frames[t]) EXCEPT !.result = r, !.at = "store"])

\* parse_uniprop_string returns r.  The caller, if it is another expansion,
\* goes on with its next line or, unless it got a list, is done.
Return(t, r) ==
  LET outer == Tail(frames[t])
      f     == Head(outer)
  IN  frames' = [frames EXCEPT ![t] =
        IF outer = <<>> THEN <<>>
        ELSE IF r = "list" THEN <<[f EXCEPT !.todo = Tail(@)]>> \o Tail(outer)
        ELSE <<[f EXCEPT !.result = r, !.at = "store"]>> \o Tail(outer)]

\* S_delete_recursion_entry: whoever's placeholder it is.
WithoutPlaceholder(k) ==
  [entry EXCEPT ![k] = IF Permanent(@) THEN @ ELSE "none"]
-----------------------------------------------------------------------------
\* A pattern with \p{k} is compiled (d may be TRUE) or run (d is FALSE).
Compile(t, k, d) ==
  /\ frames[t] = <<>> /\ k \in program.compiles[t] /\ d \in program.defers
  /\ frames' = [frames EXCEPT ![t] = <<Frame(k)>>]
  /\ deferrable' = [deferrable EXCEPT ![t] = d]
  /\ UNCHANGED <<program, entry>>

\* Mutant of FetchUnstable: retrying for ever.
FetchUnstableForever(t) ==
  LET f == Head(frames[t])
  IN  /\ At(t, "fetch")
      /\ entry[f.prop] \in Compiler \ {t}
      /\ Become(t, f)
      /\ UNCHANGED <<program, entry, deferrable>>

\* re_fetch, for an entry that another thread is expanding: sleep and retry,
\* or give up.
FetchUnstable(t) ==
  LET f == Head(frames[t])
  IN  /\ At(t, "fetch")
      /\ entry[f.prop] \in Compiler \ {t}
      /\ IF f.tries > 0 THEN Become(t, [f EXCEPT !.tries = @ - 1])
                        ELSE Return(t, "error")
      /\ UNCHANGED <<program, entry, deferrable>>

\* re_fetch, for a permanent entry, or for one's own: infinite recursion.
FetchKnown(t) ==
  LET e == entry[Head(frames[t]).prop]
  IN  /\ At(t, "fetch")
      /\ Permanent(e) \/ e = t
      /\ Return(t, IF e = t THEN "error" ELSE e)
      /\ UNCHANGED <<program, entry, deferrable>>

\* Mutant of FetchNew: the mutex is dropped before the placeholder is stored,
\* so that two threads may both see nothing.
FetchNewUnlocked(t) ==
  LET f == Head(frames[t])
  IN  /\ At(t, "fetch")
      /\ ~Permanent(entry[f.prop]) /\ entry[f.prop] # t
      /\ entry' = [entry EXCEPT ![f.prop] = t]
      /\ Become(t, [f EXCEPT !.at = "call"])
      /\ UNCHANGED <<program, deferrable>>

\* re_fetch, for no entry: put the placeholder.
FetchNew(t) ==
  LET f == Head(frames[t])
  IN  /\ At(t, "fetch")
      /\ entry[f.prop] = "none"
      /\ entry' = [entry EXCEPT ![f.prop] = t]
      /\ Become(t, [f EXCEPT !.at = "call"])
      /\ UNCHANGED <<program, deferrable>>

\* call_sv(user_sub_sv, G_EVAL | G_SCALAR)
CallSub(t) ==
  LET f == Head(frames[t])
  IN  /\ At(t, "call")
      /\ \E kind \in program.subs[f.prop] :
           \/ kind = "dies" /\ Finished(t, "error")
           \/ kind = "empty"
              /\ Finished(t, IF deferrable[t] THEN "deferred" ELSE "list")
           \/ kind = "unknown"
              /\ Finished(t, IF deferrable[t] THEN "deferred" ELSE "error")
           \/ kind = "lines"
              /\ Become(t, [f EXCEPT !.at = "expand", !.todo = program.uses[f.prop]])
      /\ UNCHANGED <<program, entry, deferrable>>

\* handle_user_defined_property: the next line, or the end.
ExpandLine(t) ==
  LET f == Head(frames[t])
  IN  /\ At(t, "expand")
      /\ IF f.todo = <<>>
         THEN Finished(t, "list")
         ELSE frames' = [frames EXCEPT ![t] = <<Frame(Head(f.todo))>> \o @]
      /\ UNCHANGED <<program, entry, deferrable>>

\* Under the mutex, the placeholder gives way to the permanent entry.
Store(t) ==
  LET f == Head(frames[t])
  IN  /\ At(t, "store")
      /\ entry' = IF f.result = "deferred"
                  THEN WithoutPlaceholder(f.prop)
                  ELSE [entry EXCEPT ![f.prop] = f.result]
      /\ Become(t, [f EXCEPT !.at = "leave"])
      /\ UNCHANGED <<program, deferrable>>

\* LEAVE runs S_delete_recursion_entry again, now without the mutex.
LeaveScope(t) ==
  LET f == Head(frames[t])
  IN  /\ At(t, "leave")
      /\ entry' = WithoutPlaceholder(f.prop)
      /\ Return(t, f.result)
      /\ UNCHANGED <<program, deferrable>>

UpStep(t) ==
  \/ FetchUnstable(t) \/ FetchKnown(t) \/ FetchNew(t)
  \/ CallSub(t) \/ ExpandLine(t) \/ Store(t) \/ LeaveScope(t)

UpNext ==
  \E t \in Compiler :
    \/ \E k \in Property, d \in BOOLEAN : Compile(t, k, d)
    \/ UpStep(t)

UpSpec == UpInit /\ [][UpNext]_upVars

\* Subs return.  Nothing makes a thread compile a pattern.
UpFairness == \A t \in Compiler : WF_upVars(UpStep(t))
-----------------------------------------------------------------------------
\* t is between its placeholder and the permanent entry.
Expanding(t, k) ==
  \E i \in DOMAIN frames[t] :
    frames[t][i].prop = k /\ frames[t][i].at \in {"call", "expand", "store"}

UpTypeOK ==
  /\ program \in Program
  /\ entry \in [Property -> {"none", "list", "error"} \cup Compiler]
  /\ \A t \in Compiler : \A i \in DOMAIN frames[t] :
       LET f == frames[t][i]
       IN  /\ f.prop \in Property /\ f.at \in Places /\ f.tries \in 0..Retries
           /\ f.result \in {"list", "error", "deferred"}
           /\ i > 1 => f.at = "expand" /\ f.todo # <<>>
  /\ deferrable \in [Compiler -> BOOLEAN]

\* A placeholder is that of a thread that is expanding the property now, and
\* two threads never expand the same property at once: otherwise all others
\* would wait, time out and fail for ever (regcomp.c:15244, "it means that that
\* thread has gotten here first, and hasn't finished").
PlaceholderIsExpander ==
  \A k \in Property, t \in Compiler : entry[k] = t <=> Expanding(t, k)

\* Properties whose definitions lead back to each other, or into such a circle,
\* are never given a list, wherever on it the threads start: no member of a
\* set in which each definition names another member.
CirclesFail ==
  \A circle \in SUBSET Property :
    (\A k \in circle : /\ program.subs[k] = {"lines"}
                       /\ \E i \in DOMAIN program.uses[k] : program.uses[k][i] \in circle)
    => \A k \in circle : entry[k] # "list"

\* At most one thread expands a property, and nobody has one that needs itself.
ExpansionsAreSound == PlaceholderIsExpander /\ CirclesFail

\* Threads that wait for each other's properties time out: no compilation
\* lasts for ever, not even on a circle that two threads entered at different
\* places.
CompilationEnds == \A t \in Compiler : (frames[t] # <<>>) ~> (frames[t] = <<>>)
=============================================================================
