---------------------------- MODULE MCPackSession ---------------------------
(***************************************************************************)
(* Sessions on a small instance, in two kinds of behaviour: PackSession    *)
(* with every verdict of the geometry, populations below, at and above the *)
(* target and intervals short enough for several passes; or a session with *)
(* its geometry on a line.                                                 *)
(***************************************************************************)
EXTENDS LineSession

\* Session::new starts with the target; from_parts with any population.
Starts == {1, 2, 3}

\* Twins, nested chains, tiny, escaped and overlapping spheres.
SomeBalls == {Ball(c, r) : c \in {-1, 3, 7}, r \in {1, 2, 4}}
Lines ==
  {<<b>> : b \in SomeBalls} \cup (SomeBalls \X SomeBalls)
    \cup {<<Ball(3, 2), b, c>> : b \in SomeBalls, c \in {Ball(3, 2), Ball(4, 1), Ball(7, 4)}}
Samples == <<2, 5, 8>>
SomeMoves == {Ball(0, 0), Ball(-3, 1)}

\* Losses that can all be zero, so that gradients may be small.
SomeWeights ==
  [id \in LossIds |-> IF id \in {"surface", "sqem", "hausdorff"} THEN 0
                      ELSE IF id = "coverage" THEN 2 ELSE 1]

MCInit ==
  \/ Init /\ balls = NoBalls /\ history = <<>>
  \/ LineInit

MCNext ==
  \/ balls = NoBalls /\ Next /\ UNCHANGED <<balls, history>>
  \/ balls # NoBalls /\ LineNext

MCSpec == MCInit /\ [][MCNext]_lineVars

=============================================================================
