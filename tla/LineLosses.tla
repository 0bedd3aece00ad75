----------------------------- MODULE LineLosses -----------------------------
(***************************************************************************)
(* The geometry a packing is judged by, on a line: the mesh is a segment,  *)
(* spheres are intervals with whole centers and radii.  Eight of the       *)
(* eleven losses with their hand-derived gradients                         *)
(* (crates/morphit/src/loss/), as sums: the divisors come in with the      *)
(* weights.  The three physics losses are not here.                        *)
(***************************************************************************)
EXTENDS Integers, SequencesExt

CONSTANTS
  Length,         \* the mesh is the segment [0, Length]; also Mesh::scale
  InsideEnds,     \* ends of the segment the ray test calls inside
  InsideSamples,  \* samples.inside, a sequence of points
  Weights         \* from names of losses to their weights

ASSUME LineAssumption ==
  /\ Length \in Nat \ {0} /\ InsideEnds \subseteq {0, Length}
  /\ InsideSamples \in Seq(0..Length) /\ InsideSamples # <<>>
  /\ {"coverage", "surface", "boundary", "sqem"} \subseteq DOMAIN Weights
  /\ \A id \in DOMAIN Weights : Weights[id] \in Nat

Ball(center, radius) == [center |-> center, radius |-> radius]

\* Samples: the points of the mesh the losses look at; the normals point outward.
Problem ==
  [inside |-> InsideSamples, surface |-> <<0, Length>>, normals |-> <<-1, 1>>]

IsInside(p) == p \in 1..(Length - 1) \/ p \in InsideEnds

Sign(x)     == IF x > 0 THEN 1 ELSE IF x < 0 THEN -1 ELSE 0
Positive(x) == IF x > 0 THEN x ELSE 0
Dist(p, q)  == Sign(p - q) * (p - q)

Smallest(S) == CHOOSE x \in S : \A y \in S : x <= y
Largest(S)  == CHOOSE x \in S : \A y \in S : x >= y

(***************************************************************************)
(* row_minima: the sphere whose surface is nearest to a sample (the first  *)
(* of several) and its signed distance.                                    *)
(***************************************************************************)
Gap(p, b)      == Dist(p, b.center) - b.radius
MinGap(p, bs)  == Smallest({Gap(p, bs[i]) : i \in DOMAIN bs})
Nearest(p, bs) == Smallest({i \in DOMAIN bs : Gap(p, bs[i]) = MinGap(p, bs)})

\* The samples for which sphere j is the nearest.
Own(samples, bs, j) == {s \in DOMAIN samples : Nearest(samples[s], bs) = j}

\* The surface sample nearest to a center and the height of the center over it.
NearestSample(p, center) ==
  Smallest({i \in DOMAIN p.surface : \A k \in DOMAIN p.surface :
              Dist(p.surface[i], center) <= Dist(p.surface[k], center)})
Height(p, center) ==
  LET s == NearestSample(p, center) IN (center - p.surface[s]) * p.normals[s]

Others(bs, j) == DOMAIN bs \ {j}
-----------------------------------------------------------------------------
(***************************************************************************)
(* Values and gradients.  |x - y| has gradient 0 where it is 0, the        *)
(* positive part has gradient 0 at 0, and a minimum passes its gradient to *)
(* the first index only.                                                   *)
(***************************************************************************)
Along(b, point) == Sign(b.center - point)

Coverage(p, bs) ==
  SumFunction([s \in DOMAIN p.inside |-> Positive(MinGap(p.inside[s], bs))])
CoverageGrad(p, bs, j) ==
  LET mine == {s \in Own(p.inside, bs, j) : MinGap(p.inside[s], bs) > 0}
  IN  Ball(SumFunction([s \in mine |-> Along(bs[j], p.inside[s])]), -Cardinality(mine))

Depth(bs, j, k) == bs[j].radius + bs[k].radius - Dist(bs[j].center, bs[k].center)
Overlap(bs) ==
  SumFunction([j \in DOMAIN bs |->
    SumFunction([k \in Others(bs, j) |-> Positive(Depth(bs, j, k))])])

\* A bug for the checks to find: each pair counted once.
OverlapGradOnce(bs, j) ==
  LET touching == {k \in Others(bs, j) : Depth(bs, j, k) > 0}
  IN  Ball(-SumFunction([k \in touching |-> Along(bs[j], bs[k].center)]), Cardinality(touching))

OverlapGrad(bs, j) ==
  LET touching == {k \in Others(bs, j) : Depth(bs, j, k) > 0}
  IN  Ball(-2 * SumFunction([k \in touching |-> Along(bs[j], bs[k].center)]),
           2 * Cardinality(touching))

Boundary(p, bs) ==
  SumFunction([s \in DOMAIN p.surface |->
    SumFunction([j \in DOMAIN bs |-> Positive(-Gap(p.surface[s], bs[j]))])])
BoundaryGrad(p, bs, j) ==
  LET engulfed == {s \in DOMAIN p.surface : Gap(p.surface[s], bs[j]) < 0}
  IN  Ball(-SumFunction([s \in engulfed |-> Along(bs[j], p.surface[s])]), Cardinality(engulfed))

Surface(p, bs) ==
  SumFunction([s \in DOMAIN p.surface |-> Dist(MinGap(p.surface[s], bs), 0)])
SurfaceGrad(p, bs, j) ==
  LET sign == [s \in Own(p.surface, bs, j) |-> Sign(MinGap(p.surface[s], bs))]
  IN  Ball(SumFunction([s \in DOMAIN sign |-> sign[s] * Along(bs[j], p.surface[s])]),
           -SumFunction(sign))

\* How deep sphere j lies inside sphere k.
Nested(bs, j, k) ==
  Positive(bs[k].radius - (Dist(bs[j].center, bs[k].center) + bs[j].radius))
Containment(bs) ==
  SumFunction([j \in DOMAIN bs |->
    SumFunction([k \in Others(bs, j) |-> Nested(bs, j, k) * Nested(bs, j, k)])])
ContainmentGrad(bs, j) ==
  Ball(SumFunction([k \in Others(bs, j) |->
         -2 * (Nested(bs, j, k) + Nested(bs, k, j)) * Along(bs[j], bs[k].center)]),
       SumFunction([k \in Others(bs, j) |-> 2 * (Nested(bs, k, j) - Nested(bs, j, k))]))

\* The distance along the normal to the nearest sphere, positive or not.
Signed(p, bs, s) ==
  LET b == bs[Nearest(p.surface[s], bs)]
  IN  (p.surface[s] - b.center) * p.normals[s] - b.radius
Sqem(p, bs) ==
  SumFunction([s \in DOMAIN p.surface |-> Signed(p, bs, s) * Signed(p, bs, s)])
SqemGrad(p, bs, j) ==
  LET mine == Own(p.surface, bs, j)
  IN  Ball(SumFunction([s \in mine |-> -2 * Signed(p, bs, s) * p.normals[s]]),
           SumFunction([s \in mine |-> -2 * Signed(p, bs, s)]))

\* The worst covered surface samples: 15 % of them but at least one, here one.
Worst(p, bs) ==
  LET h == [s \in DOMAIN p.surface |-> Positive(MinGap(p.surface[s], bs))]
  IN  Smallest({s \in DOMAIN h : h[s] = Largest(Range(h))})
Hausdorff(p, bs) ==
  LET h == Positive(MinGap(p.surface[Worst(p, bs)], bs)) IN h * h
HausdorffGrad(p, bs, j) ==
  LET s == Worst(p, bs)
      h == IF Nearest(p.surface[s], bs) = j THEN Positive(MinGap(p.surface[s], bs)) ELSE 0
  IN  Ball(2 * h * Along(bs[j], p.surface[s]), -2 * h)

MeshContainment(p, bs) ==
  SumFunction([j \in DOMAIN bs |->
    Positive(Height(p, bs[j].center)) * Positive(Height(p, bs[j].center))])
MeshContainmentGrad(p, bs, j) ==
  LET c == bs[j].center
  IN  Ball(2 * Positive(Height(p, c)) * p.normals[NearestSample(p, c)], 0)
-----------------------------------------------------------------------------
(***************************************************************************)
(* evaluate: the active losses, their weighted sum and its gradient, all   *)
(* times what the divisors have in common.                                 *)
(***************************************************************************)
LossIds == {"coverage", "overlap", "boundary", "surface", "containment", "sqem",
            "hausdorff", "mesh_containment"}

Loss(id, p, bs) ==
  CASE id = "coverage"    -> Coverage(p, bs)
    [] id = "overlap"     -> Overlap(bs)
    [] id = "boundary"    -> Boundary(p, bs)
    [] id = "surface"     -> Surface(p, bs)
    [] id = "containment" -> Containment(bs)
    [] id = "sqem"        -> Sqem(p, bs)
    [] id = "hausdorff"   -> Hausdorff(p, bs)
    [] id = "mesh_containment" -> MeshContainment(p, bs)

Grad(id, p, bs, j) ==
  CASE id = "coverage"    -> CoverageGrad(p, bs, j)
    [] id = "overlap"     -> OverlapGrad(bs, j)
    [] id = "boundary"    -> BoundaryGrad(p, bs, j)
    [] id = "surface"     -> SurfaceGrad(p, bs, j)
    [] id = "containment" -> ContainmentGrad(bs, j)
    [] id = "sqem"        -> SqemGrad(p, bs, j)
    [] id = "hausdorff"   -> HausdorffGrad(p, bs, j)
    [] id = "mesh_containment" -> MeshContainmentGrad(p, bs, j)

\* Times the numbers of inside samples, surface samples and spheres (twice),
\* over the divisor of the loss.
Share(id, p, n) ==
  LET in == Len(p.inside)
      on == Len(p.surface)
  IN  CASE id = "coverage"                   -> on * n * n
        [] id \in {"overlap", "containment"} -> in * on
        [] id = "boundary"                   -> in * n
        [] id \in {"surface", "sqem"}        -> in * n * n
        [] id = "hausdorff"                  -> in * on * n * n
        [] id = "mesh_containment"           -> in * on * n

Evaluate(p, bs) ==
  LET weight == [id \in {i \in DOMAIN Weights : Weights[i] # 0} |->
                   Weights[id] * Share(id, p, Len(bs))]
      grad == [id \in DOMAIN weight |-> [j \in DOMAIN bs |-> Grad(id, p, bs, j)]]
      Part(j, of) == SumFunction([id \in DOMAIN weight |-> weight[id] * grad[id][j][of]])
  IN  [total |-> SumFunction([id \in DOMAIN weight |-> weight[id] * Loss(id, p, bs)]),
       grads |-> [j \in DOMAIN bs |-> Ball(Part(j, "center"), Part(j, "radius"))]]
-----------------------------------------------------------------------------
(***************************************************************************)
(* Gradients are checked on a lattice four times finer than the data: all  *)
(* kinks then lie at even points and the values at 0, 1 and 2 steps to one *)
(* side give the one-sided derivative (twice it) exactly.                  *)
(***************************************************************************)
Fine == 4
Finer(samples) == [s \in DOMAIN samples |-> Fine * samples[s]]
FineProblem == [Problem EXCEPT !.inside = Finer(@), !.surface = Finer(@)]
FineBalls(bs) == [i \in DOMAIN bs |-> Ball(Fine * bs[i].center, Fine * bs[i].radius)]

(***************************************************************************)
(* The terms of a loss that sphere j is in: one sample, two spheres, or    *)
(* both; with the spheres they depend on and where j is among those.       *)
(***************************************************************************)
Term(p, bs, j)   == [p |-> p, bs |-> bs, j |-> j]
OneInside(p, s)  == [p EXCEPT !.inside = <<@[s]>>]
OneSurface(p, s) == [p EXCEPT !.surface = <<@[s]>>, !.normals = <<@[s]>>]

Terms(id, t) ==
  LET on == DOMAIN t.p.surface
      ball == t.bs[t.j]
  IN  CASE id = "coverage" -> [s \in DOMAIN t.p.inside |-> Term(OneInside(t.p, s), t.bs, t.j)]
        [] id \in {"surface", "sqem"} -> [s \in on |-> Term(OneSurface(t.p, s), t.bs, t.j)]
        [] id = "boundary" -> [s \in on |-> Term(OneSurface(t.p, s), <<ball>>, 1)]
        [] id \in {"overlap", "containment"} ->
             [k \in Others(t.bs, t.j) |-> Term(t.p, <<ball, t.bs[k]>>, 1)]
        [] id = "mesh_containment" -> <<Term(t.p, <<ball>>, 1)>>
        [] id = "hausdorff" -> <<t>>

TwiceGrad(id, t, of) == 2 * Grad(id, t.p, t.bs, t.j)[of]
TwiceSlope(id, t, of, side) ==
  LET At(h) == Loss(id, t.p, [t.bs EXCEPT ![t.j][of] = @ + h * side])
  IN  side * (4 * At(1) - 3 * At(0) - At(2))

Between(x, a, b) == (a <= x /\ x <= b) \/ (b <= x /\ x <= a)
IsDerivative(id, t, of) ==
  Between(TwiceGrad(id, t, of), TwiceSlope(id, t, of, -1), TwiceSlope(id, t, of, 1))

\* Two spheres equally near to a surface sample: sqem jumps there, and the
\* worst sample of hausdorff may have several slopes on either side.
Tied(t) ==
  \E s \in DOMAIN t.p.surface, j, k \in DOMAIN t.bs :
    j # k /\ Gap(t.p.surface[s], t.bs[j]) = Gap(t.p.surface[s], t.bs[k])

(***************************************************************************)
(* The kinks of several terms may meet and bend against each other, so     *)
(* that the sum has no slope near any of its terms' gradients; therefore   *)
(* the gradient is that of all terms together, each of which is compared.  *)
(***************************************************************************)
GradientsAreDerivativesOf(bs) ==
  \A id \in LossIds, j \in DOMAIN bs, of \in {"center", "radius"} :
    LET whole == Term(FineProblem, FineBalls(bs), j)
        terms == Terms(id, whole)
    IN  /\ TwiceGrad(id, whole, of)
             = SumFunction([i \in DOMAIN terms |-> TwiceGrad(id, terms[i], of)])
        /\ \A side \in {-1, 1} :
             TwiceSlope(id, whole, of, side)
               = SumFunction([i \in DOMAIN terms |-> TwiceSlope(id, terms[i], of, side)])
        /\ \A i \in DOMAIN terms :
             IsDerivative(id, terms[i], of) \/ (id \in {"sqem", "hausdorff"} /\ Tied(terms[i]))
=============================================================================
