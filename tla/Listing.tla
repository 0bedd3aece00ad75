------------------------------ MODULE Listing -------------------------------
(***************************************************************************)
(* Numbers in the order of their keys, as a stable sort by key leaves them. *)
(***************************************************************************)
EXTENDS Integers, FiniteSets

\* What comes no later than i: a smaller key, or the same and no larger a number.
UpTo(key, i) ==
  {j \in DOMAIN key : key[j] < key[i] \/ (key[j] = key[i] /\ j <= i)}

InOrder(key) ==
  [k \in 1..Cardinality(DOMAIN key) |->
     CHOOSE i \in DOMAIN key : Cardinality(UpTo(key, i)) = k]

\* The numbers of a set, the smallest first.
Ascending(S) == InOrder([i \in S |-> i])
=============================================================================
