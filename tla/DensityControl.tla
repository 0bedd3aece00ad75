--------------------------- MODULE DensityControl ---------------------------
(***************************************************************************)
(* The annealed, count-preserving re-packing pass of                       *)
(* crates/morphit/src/density.rs: when a pass fires, how many spheres it   *)
(* culls, which ones survive and in which order, and how it cools.         *)
(*                                                                         *)
(* Spheres are identities (natural numbers): every sphere a session ever   *)
(* places gets the next number.  What the floating-point code computes     *)
(* from the geometry - which spheres are bad, how they rank by marginal    *)
(* value, whether the losses have reached a plateau - is left open; what   *)
(* the code does with those verdicts is exact.                             *)
(***************************************************************************)
EXTENDS Integers, FiniteSets, Sequences, Functions

CONSTANTS
  Target,       \* model.num_spheres, the controller's target
  MinInterval,  \* training.density_control_min_interval
  Patience,     \* training.density_control_patience
  Cooling       \* training.density_control_cooling_factor, in percent

ASSUME DensityAssumption ==
  /\ Target \in Nat \ {0}
  /\ MinInterval \in Nat
  /\ Patience \in Nat \ {0}
  /\ Cooling \in 1..100

(***************************************************************************)
(* Temperatures are counted in units of 1/TemperatureUnit.                 *)
(***************************************************************************)
TemperatureUnit    == 10000
InitialTemperature == 4000
MinTemperature     == 400

AtLeast(a, b) == IF a < b THEN b ELSE a
AtMost(a, b)  == IF a > b THEN b ELSE a

(***************************************************************************)
(* should_trigger: the answers it may give at `iteration' when the last    *)
(* pass was at `lastPass' and the history holds `recorded' iterations.     *)
(* Inside the window the plateau and gradient tests decide, so both        *)
(* answers are possible.                                                   *)
(***************************************************************************)
\* A bug for the checks to find: nothing forces an overdue pass.
NeverForced(iteration, lastPass, recorded) ==
  IF iteration - lastPass < MinInterval \/ recorded < Patience
  THEN {FALSE} ELSE BOOLEAN

TriggerVerdicts(iteration, lastPass, recorded) ==
  LET since == IF iteration < lastPass THEN 0 ELSE iteration - lastPass
  IN  IF since < MinInterval THEN {FALSE}
      ELSE IF since > 2 * MinInterval THEN {TRUE}
      ELSE IF recorded < Patience THEN {FALSE}
      ELSE BOOLEAN

(***************************************************************************)
(* The number of spheres a pass culls out of n, nBad of which are tiny or  *)
(* have their center outside the mesh.  The target and the population may  *)
(* differ (Session::from_parts), and both subtractions saturate.           *)
(***************************************************************************)
\* A bug for the checks to find: the temperature alone decides.
CullIgnoringBad(temperature, n, nBad) ==
  AtMost(AtMost(AtLeast((Target * temperature) \div TemperatureUnit, 1),
                Target - 1), n - 1)

CullCount(temperature, n, nBad) ==
  LET byTemperature == AtLeast((Target * temperature) \div TemperatureUnit, 1)
  IN  AtMost(AtMost(AtLeast(byTemperature, nBad), Target - 1), n - 1)

Cooled(temperature) == AtLeast((temperature * Cooling) \div 100, MinTemperature)

(***************************************************************************)
(* The survivors in descending value order: any ranking of the good        *)
(* spheres, and the bad ones (value -infinity) behind every good one, in   *)
(* index order.                                                            *)
(***************************************************************************)
Rankings(n, k, bad) ==
  { keep \in Injection(1..(n - k), 1..n) :
      \A i \in 1..(n - k) : keep[i] \in bad =>
        \A j \in 1..n : (j \notin bad \/ j < keep[i]) =>
                          \E h \in 1..(i - 1) : keep[h] = j }

(***************************************************************************)
(* repack_async: the outcomes of one pass over `spheres', `born' spheres   *)
(* having been placed so far.  A pass that can cull nothing leaves         *)
(* everything alone, the temperature included.                             *)
(***************************************************************************)
Outcome(spheres, born, temperature, removed, bad) ==
  [spheres |-> spheres, born |-> born, temperature |-> temperature,
   removed |-> removed, bad |-> bad]

Repacks(spheres, born, temperature) ==
  LET n == Len(spheres) IN
  UNION { LET k == CullCount(temperature, n, Cardinality(bad))
              badSpheres == { spheres[i] : i \in bad }
          IN  IF k = 0
              THEN { Outcome(spheres, born, temperature, 0, badSpheres) }
              ELSE { Outcome([ i \in 1..n |-> IF i <= n - k
                                               THEN spheres[keep[i]]
                                               ELSE born + i - (n - k) ],
                             born + k, Cooled(temperature), k, badSpheres)
                     : keep \in Rankings(n, k, bad) }
          : bad \in SUBSET (1..n) }
=============================================================================
