---------------------------- MODULE MCMagicChain ----------------------------
(* MagicChain with a few lists and all habits. *)
EXTENDS MagicChain

CONSTANTS m1, m2, m3, m4

Entries == {m1, m2, m3, m4}

L(s) == [i \in DOMAIN s |-> [at |-> <<m1, m2, m3>>[i], sort |-> s[i]]]

\* The cache before and after get magic; several that can go or grow.
SomeLists ==
  {L(s) : s \in {<<"taint", "utf8", "get">>, <<"elem", "utf8">>, <<"taint", "utf8">>,
                 <<"get", "elem", "ext">>, <<"get", "get", "get">>}}

AllHabits == SUBSET {"add", "drop"}
=============================================================================
