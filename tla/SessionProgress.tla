--------------------------- MODULE SessionProgress ---------------------------
(***************************************************************************)
(* What a packing session promises to whoever watches it: its observable   *)
(* part moves from one completed iteration to the next, one iteration at a *)
(* time, and ends with a single prune.  The sequential session             *)
(* (PackSession) and the snapshots a shared session publishes to other     *)
(* threads (CApiSession) are both shown to implement this specification.   *)
(***************************************************************************)
EXTENDS Integers

CONSTANTS
  Iterations,   \* training.iterations
  StartCounts   \* the sphere counts a session may start with

States == {"running", "converged", "completed", "finalized"}

VARIABLE view   \* what an observer sees

(***************************************************************************)
(* A view: the session's state, the iterations run, the number of spheres, *)
(* the density-control passes made and the spheres the final prune removed *)
(***************************************************************************)
View(state, iteration, count, passes, pruned) ==
  [state |-> state, iteration |-> iteration, count |-> count,
   passes |-> passes, pruned |-> pruned]

Init ==
  \E n \in StartCounts :
    view = View(IF Iterations = 0 THEN "completed" ELSE "running", 0, n, 0, 0)

(***************************************************************************)
(* One iteration: it may converge (and then makes no density-control       *)
(* pass), and the last one completes the session.  The number of spheres   *)
(* never changes here.                                                     *)
(***************************************************************************)
Advance ==
  /\ view.state = "running"
  /\ \/ view' = View("converged", view.iteration + 1, view.count,
                     view.passes, view.pruned)
     \/ \E fired \in {0, 1} :
          view' = View(IF view.iteration + 1 >= Iterations
                       THEN "completed" ELSE "running",
                       view.iteration + 1, view.count,
                       view.passes + fired, view.pruned)

(***************************************************************************)
(* The final prune keeps at least one sphere and accounts for the others.  *)
(***************************************************************************)
Prune ==
  /\ view.state # "finalized"
  /\ \E kept \in 1..view.count :
       view' = View("finalized", view.iteration, kept,
                    view.passes, view.count - kept)

Next == Advance \/ Prune

Spec == Init /\ [][Next]_view
=============================================================================
