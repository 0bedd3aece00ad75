----------------------------- MODULE RobotTable -----------------------------
(***************************************************************************)
(* The studio's table of a robot's collision meshes                        *)
(* (apps/morphit-studio/src/state.rs): a row per mesh, with its key.       *)
(***************************************************************************)
EXTENDS Integers, Sequences, SequencesExt

\* The numbers of a set, the smallest first.
Ascending(S) ==
  CHOOSE f \in [1..Cardinality(S) -> S] : \A i, j \in DOMAIN f : i < j => f[i] < f[j]

\* The keys of some rows, in the table's order.
Rows(table, chosen) == [n \in 1..Cardinality(chosen) |-> table[Ascending(chosen)[n]]]
=============================================================================
