---------------------------- MODULE LineSession -----------------------------
(***************************************************************************)
(* A packing session with its geometry, on a line: the mesh is the segment *)
(* from 0 to Length, spheres are intervals with whole centers and radii.   *)
(* What Session leaves open is computed here as the code computes it:      *)
(* which spheres are bad, how they rank, where new ones are placed         *)
(* (crates/morphit/src/density.rs), which centers are snapped back and     *)
(* which spheres are pruned (trainer.rs, state.rs), and how the result is  *)
(* scored (quality.rs).  Gradients are left open: an iteration moves each  *)
(* sphere by one of Moves.  Numbers are whole and never NaN.               *)
(***************************************************************************)
EXTENDS PackSession, LineLosses, Listing

CONSTANTS
  MinRadius,      \* density_control_min_radius_fraction times the scale
  Threshold,      \* training.convergence_threshold, in percent
  Epsilon,        \* how far inside a center is snapped
  FirstBalls,     \* bound: the spheres a session may start with
  Moves,          \* bound: what an iteration does to one sphere
  MaxIterations,  \* bound: the iterations made on the line
  NoBalls         \* the balls of a session without geometry

Balls == [center : Int, radius : Int]

ASSUME LineSessionAssumption ==
  /\ {MinRadius, Threshold, Epsilon} \subseteq Nat
  /\ FirstBalls \subseteq Seq(Balls) /\ \A bs \in FirstBalls : Len(bs) \in StartCounts
  /\ Moves \subseteq Balls

VARIABLES
  balls,          \* the geometry of sess.spheres, slot by slot
  history         \* the losses and gradients of the iterations so far

lineVars == <<sess, balls, history>>

(***************************************************************************)
(* The history: the loss of an iteration and whether its gradients were    *)
(* small, for centers and for radii; here a small gradient is none.        *)
(***************************************************************************)
Record(bs) ==
  LET e == Evaluate(Problem, bs)
  IN  [loss   |-> e.total,
       center |-> \A j \in DOMAIN bs : e.grads[j].center = 0,
       radius |-> \A j \in DOMAIN bs : e.grads[j].radius = 0]

\* Over the last `window' iterations the loss changed by less than `percent'
\* or both gradients were mostly small.
Stalled(h, window, percent) ==
  LET recent == SubSeq(h, Len(h) - window + 1, Len(h))
      first  == recent[1].loss
      change == Dist(first, recent[window].loss)
      Mostly(of) == Cardinality({i \in DOMAIN recent : recent[i][of]}) > window \div 2
  IN  \/ percent > 0 /\ change = 0
      \/ 100 * change < percent * first
      \/ Mostly("center") /\ Mostly("radius")

\* analyze_convergence, at the iterations that ask for it.
Converged(s, h) ==
  /\ s.iteration % VerboseFrequency = 0 /\ EarlyStopping
  /\ s.iteration > ConvergencePatience
  /\ Stalled(h, ConvergencePatience, Threshold)

ShouldTrigger(s, h) ==
  LET since == s.iteration - s.lastPass
  IN  /\ since >= MinInterval
      /\ \/ since > 2 * MinInterval
         \/ Patience > 0 /\ Len(h) >= Patience /\ Stalled(h, Patience, 1)

\* The lower of the two middle values.
TorchMedian(values) == values[InOrder(values)[(Len(values) + 1) \div 2]]

\* The first index of the largest value.
ArgmaxFirst(values) ==
  Smallest({i \in DOMAIN values : values[i] = Largest(Range(values))})
-----------------------------------------------------------------------------
(***************************************************************************)
(* The density-control pass.                                               *)
(***************************************************************************)
IdentifyBad(bs) == {i \in DOMAIN bs : bs[i].radius < MinRadius \/ ~IsInside(bs[i].center)}

\* With one sphere there is no second nearest; Far stands for 1e6.
Far == 1000000

\* The hole that opens at p if its nearest sphere goes.
Hole(p, bs) ==
  LET second == {Gap(p, bs[j]) : j \in Others(bs, Nearest(p, bs))}
  IN  (IF second = {} THEN Far ELSE Smallest(second)) - MinGap(p, bs)

Score(i, bs, samples) ==
  SumFunction([s \in Own(samples, bs, i) |-> Hole(samples[s], bs)])

MarginalValue(i, bs) ==
  Weights["coverage"] * Score(i, bs, Problem.inside)
    + (Weights["surface"] + Weights["boundary"] + Weights["sqem"])
        * Score(i, bs, Problem.surface)

\* A bug for the checks to find: bad spheres are ranked like the others.
RankingByValueOnly(bs, bad) ==
  InOrder([i \in DOMAIN bs |-> -MarginalValue(i, bs)])

\* Descending by value, the lower index first on ties; -1 stands for -infinity.
Ranking(bs, bad) ==
  LET value == [i \in DOMAIN bs |-> IF i \in bad THEN -1 ELSE MarginalValue(i, bs)]
  IN  InOrder([i \in DOMAIN bs |-> -value[i]])

(***************************************************************************)
(* farthest_point_reseed: k spheres, each at the sample the spheres so far *)
(* cover worst, sized to fill the hole within bounds the survivors set.    *)
(***************************************************************************)
ReseedRadius(gap, survivors) ==
  LET median == TorchMedian([i \in DOMAIN survivors |-> survivors[i].radius])
  IN  AtMost(AtMost(AtLeast(gap, median), (3 * median) \div 2), (3 * Length) \div 10)

Reseeded(survivors, k) ==
  LET Place[j \in 0..k] ==
        IF j = 0 THEN survivors
        ELSE LET soFar == Place[j - 1]
                 gaps   == [s \in DOMAIN InsideSamples |-> MinGap(InsideSamples[s], soFar)]
                 worst  == ArgmaxFirst(gaps)
             IN  Append(soFar, Ball(InsideSamples[worst], ReseedRadius(gaps[worst], survivors)))
  IN  Place[k]

\* What the optimizer does to a sphere; softplus keeps radii positive.
Moved(b, move) == Ball(b.center + move.center, AtLeast(b.radius + move.radius, 1))

\* Warmup restores the survivors, of which there are `kept'.
Warmups(bs, kept) ==
  {[i \in DOMAIN bs |-> IF i <= kept THEN bs[i] ELSE Moved(bs[i], f[i])] :
     f \in [(kept + 1)..Len(bs) -> Moves]}

Repack(s, bs) ==
  LET n    == Len(bs)
      bad  == IdentifyBad(bs)
      k    == CullCount(s.temperature, n, Cardinality(bad))
      keep == SubSeq(Ranking(bs, bad), 1, n - k)
      badSpheres == {s.spheres[i] : i \in bad}
  IN  IF k = 0
      THEN {[out |-> Outcome(s.spheres, s.born, s.temperature, 0, badSpheres), balls |-> bs]}
      ELSE {[out |-> Outcome([i \in 1..n |-> IF i <= n - k THEN s.spheres[keep[i]]
                                             ELSE s.born + i - (n - k)],
                             s.born + k, Cooled(s.temperature), k, badSpheres),
             balls |-> warm] :
              warm \in Warmups(Reseeded([i \in DOMAIN keep |-> bs[keep[i]]], k), n - k)}
-----------------------------------------------------------------------------
(***************************************************************************)
(* An iteration: the optimizer moves the spheres, those whose centers left *)
(* the mesh are snapped back, and perhaps a pass re-packs them.            *)
(***************************************************************************)
ProjectInside(b) ==
  LET h == Height(Problem, b.center)
      n == Problem.normals[NearestSample(Problem, b.center)]
  IN  IF h > 0 THEN [b EXCEPT !.center = @ - n * (h + Epsilon)] ELSE b

TrainedBalls(bs) ==
  {[i \in DOMAIN bs |-> ProjectInside(IF i = j THEN Moved(bs[i], move) ELSE bs[i])] :
     j \in DOMAIN bs, move \in Moves}

LineStep ==
  /\ ~IsDone(sess) /\ sess.iteration < MaxIterations
  /\ history' = Append(history, Record(balls))
  /\ LET converged == Converged(sess, history')
         fired == ~converged /\ DensityEnabled /\ ShouldTrigger(sess, history')
     IN  \E bs \in TrainedBalls(balls) :
           IF fired
           THEN \E r \in Repack(Trained(sess), bs) :
                  /\ sess' = Ended(WithPass(Trained(sess), r.out), converged, TRUE,
                                   r.out.removed, r.out.bad)
                  /\ balls' = r.balls
           ELSE /\ sess' = Ended(Trained(sess), converged, FALSE, 0, {})
                /\ balls' = bs
-----------------------------------------------------------------------------
(***************************************************************************)
(* The end: spheres outside the mesh go, then those inside another one; of *)
(* equal spheres the first stays.                                          *)
(***************************************************************************)
\* A bug for the checks to find: equal spheres remove each other.
WithinIgnoringOrder(bs, j, i) ==
  i # j /\ Dist(bs[i].center, bs[j].center) + bs[j].radius <= bs[i].radius

Within(bs, j, i) ==
  LET d == Dist(bs[i].center, bs[j].center)
  IN  /\ i # j /\ d + bs[j].radius <= bs[i].radius
      /\ i < j \/ d + bs[i].radius > bs[j].radius

ContainedInAnother(bs) == {j \in DOMAIN bs : \E i \in DOMAIN bs : Within(bs, j, i)}

Select(seq, keep) == [i \in 1..Cardinality(keep) |-> seq[Ascending(keep)[i]]]

InsideMesh(bs) ==
  LET inside == {i \in DOMAIN bs : IsInside(bs[i].center)}
  IN  IF inside = {} THEN {1} ELSE inside

Kept(bs) ==
  LET inside == Ascending(InsideMesh(bs))
      nested == ContainedInAnother([i \in DOMAIN inside |-> bs[inside[i]]])
  IN  IF PruneContained THEN {inside[i] : i \in DOMAIN inside \ nested} ELSE Range(inside)

LineFinalize ==
  IF sess.state = "finalized" THEN UNCHANGED lineVars
  ELSE LET keep == Kept(balls)
       IN  /\ sess' = [sess EXCEPT !.spheres = Select(@, keep), !.state = "finalized",
                                   !.pruned = Len(balls) - Cardinality(keep)]
           /\ balls' = Select(balls, keep)
           /\ UNCHANGED history

LineInit == balls \in FirstBalls /\ sess = NewSession(Len(balls)) /\ history = <<>>
LineNext == LineStep \/ LineFinalize
LineSpec == LineInit /\ [][LineNext]_lineVars
-----------------------------------------------------------------------------
(***************************************************************************)
(* Scores of a packing, as far as they depend on the union of the spheres: *)
(* evaluate_packing with every point of a box around the mesh as a sample, *)
(* and quality_metrics of the robot pipeline.                              *)
(***************************************************************************)
Box == (-Length)..(2 * Length)
SurfaceGaps(bs) == [s \in DOMAIN Problem.surface |-> Dist(MinGap(Problem.surface[s], bs), 0)]
Covers(bs, p)   == \E i \in DOMAIN bs : Dist(p, bs[i].center) <= bs[i].radius

EvaluatePacking(bs) ==
  [n_out |-> Cardinality({i \in DOMAIN bs : ~IsInside(bs[i].center)}),
   r_in  |-> Cardinality({p \in Box : Covers(bs, p) /\ IsInside(p)}),
   r_out |-> Cardinality({p \in Box : Covers(bs, p) /\ ~IsInside(p)}),
   d_avg |-> SumFunction(SurfaceGaps(bs)),
   d_max |-> Largest(Range(SurfaceGaps(bs)))]

LinkQuality(bs) ==
  [d_min |-> Smallest(Range(SurfaceGaps(bs))),
   d_max |-> Largest(Range(SurfaceGaps(bs))),
   coverage |-> Cardinality({s \in DOMAIN InsideSamples : MinGap(InsideSamples[s], bs) <= 0})]

(***************************************************************************)
(* Pruning nested spheres costs nothing ("the union of the kept spheres    *)
(* equals the union of all", state.rs:76): every metric of the union is    *)
(* that of all spheres inside the mesh.  Only a session none of whose      *)
(* spheres is inside keeps one that is not.                                *)
(***************************************************************************)
PruningChangesNoMetric ==
  [][balls # NoBalls /\ sess.state # "finalized" /\ sess'.state = "finalized" =>
       LET inside == Select(balls, InsideMesh(balls)) IN
         /\ balls' # <<>>
         /\ EvaluatePacking(balls') = EvaluatePacking(inside)
         /\ LinkQuality(balls') = LinkQuality(inside)
         /\ EvaluatePacking(balls').n_out > 0 => Len(balls') = 1]_lineVars

(***************************************************************************)
(* The hand-derived gradients ("compare analytic raw gradients with        *)
(* central differences", loss/fd.rs:51) of every packing a session starts  *)
(* with, also where spheres coincide or touch, samples are equally near to *)
(* two spheres or lie on one: the gradient of each term of a loss lies     *)
(* between the term's derivatives to either side and is its derivative     *)
(* where there is one, and gradients and derivatives add up to the loss's. *)
(***************************************************************************)
GradientsAreDerivatives ==
  (balls # NoBalls /\ sess.state = "running" /\ history = <<>>) =>
    GradientsAreDerivativesOf(balls)

(***************************************************************************)
(* The verdicts the geometry gives are among those Session explores, and   *)
(* the geometry stays in step with the slots: the session with geometry is *)
(* a session as PackSession describes it.                                  *)
(***************************************************************************)
ImplementsSession ==
  Spec /\ [](balls = NoBalls \/ Len(balls) = Len(sess.spheres))
=============================================================================
