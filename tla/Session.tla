------------------------------- MODULE Session -------------------------------
(***************************************************************************)
(* One packing session over one mesh (crates/morphit/src/trainer.rs):      *)
(* train iteration by iteration, stop when the losses converge or the      *)
(* iterations run out, re-pack the spheres now and then, and prune once at *)
(* the end.                                                                *)
(*                                                                         *)
(* A session is one record, so that the operators below (StepResults,      *)
(* FinalizeResults) are also the session inside the language bindings,     *)
(* where several threads share it.                                         *)
(***************************************************************************)
EXTENDS DensityControl

CONSTANTS
  Iterations,           \* training.iterations
  StartCounts,          \* the sphere counts a session may start with
  EarlyStopping,        \* training.early_stopping
  VerboseFrequency,     \* training.verbose_frequency
  ConvergencePatience,  \* training.convergence_patience
  DensityEnabled,       \* training.density_control_enabled
  PruneContained,       \* training.prune_contained_spheres
  NoStep                \* last_step before the first iteration

ASSUME SessionAssumption ==
  /\ Iterations \in Nat
  /\ StartCounts \subseteq Nat \ {0}
  /\ VerboseFrequency \in Nat \ {0}
  /\ ConvergencePatience \in Nat \ {0}
  /\ {EarlyStopping, DensityEnabled, PruneContained} \subseteq BOOLEAN

States == {"running", "converged", "completed", "finalized"}

(***************************************************************************)
(* Session::new / from_parts: n spheres, an optimizer whose moments are    *)
(* all zero (0 stands for "no sphere"), and the density controller at its  *)
(* initial temperature.  moments[i] names the sphere the Adam moments of   *)
(* slot i were accumulated for.                                            *)
(***************************************************************************)
NewSession(n) ==
  [state    |-> IF Iterations = 0 THEN "completed" ELSE "running",
   iteration |-> 0,
   spheres  |-> [i \in 1..n |-> i],
   born     |-> n,
   moments  |-> [i \in 1..n |-> 0],
   lastPass |-> 0,
   temperature |-> InitialTemperature,
   passes   |-> 0,
   pruned   |-> 0,
   last     |-> NoStep]

IsDone(s) == s.state # "running"

(***************************************************************************)
(* The convergence test runs every VerboseFrequency iterations once enough *)
(* of them have passed; its verdict on the losses is left open.            *)
(***************************************************************************)
ConvergenceVerdicts(s) ==
  IF /\ s.iteration % VerboseFrequency = 0
     /\ EarlyStopping
     /\ s.iteration > ConvergencePatience
  THEN BOOLEAN ELSE {FALSE}

(***************************************************************************)
(* The training part of a step: the optimizer moves every sphere and from  *)
(* then on slot i's moments belong to the sphere in slot i.                *)
(***************************************************************************)
Trained(s) == [s EXCEPT !.moments = s.spheres]

(***************************************************************************)
(* Whether density control runs at the end of this step.  The history      *)
(* already holds the iteration that just trained.                          *)
(***************************************************************************)
PassVerdicts(s, converged) ==
  IF ~converged /\ DensityEnabled
  THEN TriggerVerdicts(s.iteration, s.lastPass, s.iteration + 1)
  ELSE {FALSE}

(***************************************************************************)
(* The sessions a density-control pass may leave: the pass is marked and   *)
(* counted even when it changed nothing, the optimizer forgets its moments *)
(* only when it did.                                                       *)
(***************************************************************************)
\* A bug for the checks to find: the optimizer is not reset after a pass.
WithPassKeepingMoments(s, out) ==
  [s EXCEPT !.spheres     = out.spheres,
            !.born        = out.born,
            !.temperature = out.temperature,
            !.lastPass    = s.iteration,
            !.passes      = s.passes + 1]

WithPass(s, out) ==
  [s EXCEPT !.spheres     = out.spheres,
            !.born        = out.born,
            !.temperature = out.temperature,
            !.lastPass    = s.iteration,
            !.passes      = s.passes + 1,
            !.moments     = IF out.removed > 0
                            THEN [i \in 1..Len(out.spheres) |-> 0]
                            ELSE s.moments]

(***************************************************************************)
(* The end of a step: count the iteration, complete the session after the  *)
(* last one, and keep the StepInfo.                                        *)
(***************************************************************************)
\* A bug for the checks to find: `done' taken before the state moves on.
EndedDoneTooEarly(s, converged, fired, removed, bad) ==
  [s EXCEPT !.state = IF converged THEN "converged"
                      ELSE IF s.iteration + 1 >= Iterations THEN "completed"
                      ELSE "running",
            !.iteration = s.iteration + 1,
            !.last = [iteration |-> s.iteration, fired |-> fired,
                      removed |-> removed, bad |-> bad,
                      done |-> s.state # "running", converged |-> converged]]

Ended(s, converged, fired, removed, bad) ==
  LET state == IF converged THEN "converged"
               ELSE IF s.iteration + 1 >= Iterations THEN "completed"
               ELSE "running"
  IN  [s EXCEPT !.state = state,
                !.iteration = s.iteration + 1,
                !.last = [iteration |-> s.iteration, fired |-> fired,
                          removed |-> removed, bad |-> bad,
                          done |-> state # "running",
                          converged |-> converged]]

(***************************************************************************)
(* Session::step: every session one call may leave behind.                 *)
(***************************************************************************)
StepResults(s) ==
  UNION { UNION { IF fired
                  THEN { Ended(WithPass(Trained(s), out), converged, TRUE,
                               out.removed, out.bad)
                         : out \in Repacks(s.spheres, s.born, s.temperature) }
                  ELSE { Ended(Trained(s), converged, FALSE, 0, {}) }
                  : fired \in PassVerdicts(s, converged) }
          : converged \in ConvergenceVerdicts(s) }

(***************************************************************************)
(* Session::finalize: keep the spheres whose centers are inside the mesh   *)
(* (the first sphere if none is) and, when asked to, drop those that lie   *)
(* inside another survivor; one survivor is never inside another, so one   *)
(* always remains.  Idempotent.                                            *)
(***************************************************************************)
Survivors(n) ==
  LET inside == { IF in = {} THEN {1} ELSE in : in \in SUBSET (1..n) }
  IN  IF PruneContained
      THEN UNION { (SUBSET keep) \ {{}} : keep \in inside }
      ELSE inside

\* The survivors keep their order: increasing maps into 1..n.
Selections(n) ==
  { p \in UNION { [1..m -> 1..n] : m \in 0..n } :
      /\ \A i, j \in DOMAIN p : i < j => p[i] < p[j]
      /\ Range(p) \in Survivors(n) }

\* A bug for the checks to find: a second finalize prunes again.
FinalizeTwice(s) ==
  { [s EXCEPT !.spheres = [i \in DOMAIN p |-> s.spheres[p[i]]],
              !.pruned  = Len(s.spheres) - Cardinality(DOMAIN p),
              !.state   = "finalized"]
    : p \in Selections(Len(s.spheres)) }

FinalizeResults(s) ==
  IF s.state = "finalized" THEN {s}
  ELSE { [s EXCEPT !.spheres = [i \in DOMAIN p |-> s.spheres[p[i]]],
                   !.pruned  = Len(s.spheres) - Cardinality(DOMAIN p),
                   !.state   = "finalized"]
         : p \in Selections(Len(s.spheres)) }
-----------------------------------------------------------------------------
\* What an observer of a session sees of it.
ViewOf(s) ==
  [state |-> s.state, iteration |-> s.iteration, count |-> Len(s.spheres),
   passes |-> s.passes, pruned |-> s.pruned]

\* What one iteration reports, and what a session is made of.
StepInfos ==
  [iteration : Nat, fired : BOOLEAN, removed : Nat, bad : SUBSET Nat,
   done : BOOLEAN, converged : BOOLEAN]

Sessions ==
  [state : States, iteration : Nat, spheres : Seq(Nat), born : Nat,
   moments : Seq(Nat), lastPass : Nat, temperature : Nat, passes : Nat,
   pruned : Nat, last : StepInfos \cup {NoStep}]
=============================================================================
