------------------------------ MODULE PerlArray ------------------------------
(***************************************************************************)
(* What an array promises to its program: a list of places, numbered from  *)
(* 0, each of which holds an element or was never given one.               *)
(***************************************************************************)
EXTENDS Integers

CONSTANTS
  Element,
  Absent,   \* the content of a place that was never given an element
  MaxSize   \* bound: number of places

VARIABLES
  size,     \* number of places
  content   \* of each place

paVars == <<size, content>>

Places(n) == 0..(n - 1)
At(i) == IF i \in Places(size) THEN content[i] ELSE Absent

PaInit == size = 0 /\ content = [i \in Places(0) |-> Absent]

\* The array becomes n places long; new places are absent.
Resize(n) == size' = n /\ content' = [i \in Places(n) |-> At(i)]

\* Place k is given an element; the array grows to it if need be.
Put(k, v) ==
  /\ size' = (IF k < size THEN size ELSE k + 1)
  /\ content' = [i \in Places(size') |-> IF i = k THEN v ELSE At(i)]

TakeLast == size > 0 /\ Resize(size - 1)
TakeFirst ==
  size > 0 /\ size' = size - 1 /\ content' = [i \in Places(size - 1) |-> At(i + 1)]

Prepend(n) ==
  /\ size' = size + n
  /\ content' = [i \in Places(size + n) |-> IF i < n THEN Absent ELSE content[i - n]]

\* An element is deleted; with the last one go the absent places before it.
Remove(k) ==
  /\ k \in Places(size)
  /\ IF k # size - 1
     THEN size' = size /\ content' = [content EXCEPT ![k] = Absent]
     ELSE \E n \in 0..k :
            /\ Resize(n)
            /\ \A i \in n..(k - 1) : content[i] = Absent
            /\ n > 0 => content[n - 1] # Absent

Assign(n, args) == size' = n /\ content' = args

PaNext ==
  \/ \E n \in 0..MaxSize : Resize(n) \/ Prepend(n) \/ Remove(n)
  \/ \E k \in 0..MaxSize, v \in Element : Put(k, v)
  \/ TakeLast \/ TakeFirst
  \/ \E n \in 0..MaxSize : \E args \in [Places(n) -> Element] : Assign(n, args)

PaSpec == PaInit /\ [][PaNext]_paVars
=============================================================================
