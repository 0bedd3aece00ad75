---------------------------- MODULE SearchRules ----------------------------
(***************************************************************************)
(* The distance searches of the optimizer as pure operators: what the CPU  *)
(* computes (distances.rs, search/mod.rs) and how a GPU proposal in f32 is *)
(* turned into a decision (search/gpu/session.rs, search.wgsl), together   *)
(* with the choice of an adapter (search/gpu/mod.rs).                      *)
(*                                                                         *)
(* Distances are integers.  The f32 arithmetic of a kernel is the exact    *)
(* value plus a rounding of at most Err that belongs to the query: a kernel *)
(* repeats its results bit by bit.  Tol is the tolerance the code derives  *)
(* from the same coordinates as Err.                                       *)
(***************************************************************************)
EXTENDS Integers, Sequences, SequencesExt, FiniteSets

CONSTANTS
  Err,      \* the largest f32 error of one distance or gap
  Tol,      \* SessionSearch::tol of the query
  Big,      \* f32::MAX, where the kernels start their minima
  Samples   \* how many inside and surface samples a session has

SampleSets == {"inside", "surface"}

ASSUME SearchAssumption ==
  /\ Err \in Nat /\ Tol \in Nat /\ Big \in Nat
  /\ Tol >= 2 * Err
  /\ Samples \in [SampleSets -> Nat]

(***************************************************************************)
(* A query: what is wanted of n spheres, the distance of each sample to    *)
(* each center, the radii, the f32 rounding of each, whether all numbers   *)
(* are finite and whether the grid of workgroups is large enough.          *)
(***************************************************************************)
Wanted == {"inside", "surface", "pairs", "nearest"}

Gaps(q, set, i) == [j \in 1..q.n |-> q.dist[set][i][j] - q.radius[j]]

Distances(q, j) == [i \in 1..Samples["surface"] |-> q.dist["surface"][i][j]]

\* The first index of the smallest value of a list.
FirstMin(f) ==
  CHOOSE j \in DOMAIN f :
    \A k \in DOMAIN f : f[j] < f[k] \/ (f[j] = f[k] /\ j <= k)

-----------------------------------------------------------------------------
(* The CPU. *)

Row(q, set, i, j) ==
  [gap |-> q.dist[set][i][j] - q.radius[j], d |-> q.dist[set][i][j], j |-> j]

\* With no spheres a row is the infinite gap the loop starts with.
NoRow == [gap |-> "infinite", d |-> 0, j |-> 0]

RowMin(q, set, i) ==
  IF q.n = 0 THEN NoRow ELSE Row(q, set, i, FirstMin(Gaps(q, set, i)))

RowMinima(q, set) == [i \in 1..Samples[set] |-> RowMin(q, set, i)]

NearestOne(q, j) ==
  IF Samples["surface"] = 0 THEN 0 ELSE FirstMin(Distances(q, j))

\* The numbers of a set, the smallest first.
Ascending(S) ==
  CHOOSE f \in [1..Cardinality(S) -> S] : \A i, j \in DOMAIN f : i < j => f[i] < f[j]

Engulfed(q, j) ==
  {i \in 1..Samples["surface"] : -(q.dist["surface"][i][j] - q.radius[j]) > 0}

CpuBoundaryPairs(q) == [j \in 1..q.n |-> Ascending(Engulfed(q, j))]

NearestPerCenter(q) == [j \in 1..q.n |-> NearestOne(q, j)]

Answer(q, inside, surface, pairs, nearest) ==
  LET Part(name, value) == IF name \in q.wants THEN value ELSE <<>>
  IN  [inside  |-> Part("inside", inside),   surface |-> Part("surface", surface),
       pairs   |-> Part("pairs", pairs),     nearest |-> Part("nearest", nearest)]

CpuAnswer(q) ==
  Answer(q, RowMinima(q, "inside"), RowMinima(q, "surface"),
         CpuBoundaryPairs(q), NearestPerCenter(q))

-----------------------------------------------------------------------------
(* The kernels and the decision. *)

Rounded(q, set, i) ==
  [j \in 1..q.n |-> q.dist[set][i][j] - q.radius[j] + q.noise[set][i][j]]

RoundedDistances(q, j) ==
  [i \in 1..Samples["surface"] |->
     q.dist["surface"][i][j] + q.noise["surface"][i][j]]

\* The winner of a row and its margin over the runner-up, both in f32.
Proposal(f) ==
  LET j == FirstMin(f)
      runnerUp == {f[k] : k \in DOMAIN f \ {j}} \cup {Big}
  IN  [idx    |-> j,
       margin |-> (CHOOSE g \in runnerUp : \A h \in runnerUp : g <= h) - f[j]]

\* The pairs row_min lists for a sample: the engulfing spheres and a band.
Listed(q, set, i) ==
  {<<i, j>> : j \in {k \in 1..q.n :
     q.radius[k] - (q.dist[set][i][k] + q.noise[set][i][k]) > -Tol}}

Decisive(row) == row.margin > Tol

DecideRow(q, set, i, row) ==
  IF Decisive(row) THEN Row(q, set, i, row.idx) ELSE RowMin(q, set, i)

DecideRows(q, set, rows) ==
  [i \in 1..Samples[set] |-> DecideRow(q, set, i, rows[i])]

DecideNearest(q, rows) ==
  [j \in 1..q.n |-> IF Decisive(rows[j]) THEN rows[j].idx ELSE NearestOne(q, j)]

\* Where the pairs of a sphere are in the flat list, the smallest sample first.
Sorted(flat, own) ==
  CHOOSE f \in [1..Cardinality(own) -> own] :
    \A i, j \in DOMAIN f : i < j => f[i] # f[j] /\ flat[f[i]][1] <= flat[f[j]][1]

\* Each sphere's samples out of the flat list of pairs, in ascending order.
ToCsr(n, flat) ==
  [j \in 1..n |->
     LET own == {k \in DOMAIN flat : flat[k][2] = j}
     IN  [m \in 1..Cardinality(own) |-> flat[Sorted(flat, own)[m]][1]]]

-----------------------------------------------------------------------------
(* The adapter a request selects: adapters are listed best first, `work'   *)
(* says whether the problem reaches AUTO_GPU_MIN_WORK.                      *)

\* kind_rank: discrete, integrated, virtual, other, software.
KindRank(kind) ==
  CASE kind = "discrete" -> 0 [] kind = "integrated" -> 1
    [] kind = "virtual" -> 2  [] kind = "other" -> 3 [] kind = "software" -> 4

\* The same physical device shows up once per backend: the first is kept.
RankAdapters(raw) ==
  LET first == {k \in DOMAIN raw : \A l \in 1..k-1 : raw[l] # raw[k]}
      Before(k, l) ==
        \/ KindRank(raw[k].kind) < KindRank(raw[l].kind)
        \/ KindRank(raw[k].kind) = KindRank(raw[l].kind) /\ k < l
      order == SetToSortSeq(first, Before)
  IN  [k \in 1..Len(order) |-> raw[order[k]]]

Software(list, k) == list[k].kind = "software"

\* best_real, or the best of all where software rasterizers are allowed.
NoAdapter == 0
Best(list, allowSoftware) ==
  LET real   == {k \in DOMAIN list : ~Software(list, k)}
      usable == IF real = {} /\ allowSoftware THEN DOMAIN list ELSE real
  IN  IF usable = {} THEN NoAdapter
      ELSE CHOOSE k \in usable : \A l \in usable : k <= l

\* What a session runs on: an adapter, the CPU, or nothing (an error).
OnCpu   == 0
Refused == -1

Select(list, request, work, allowSoftware) ==
  LET best == Best(list, allowSoftware) IN
  CASE request.device = "cpu"  -> OnCpu
    [] request.device = "auto" -> IF work THEN best ELSE OnCpu
    [] request.device = "gpu"  -> IF best = NoAdapter THEN Refused ELSE best
    [] request.device = "gpu:" -> IF request.index \in DOMAIN list
                                  THEN request.index ELSE Refused
=============================================================================
