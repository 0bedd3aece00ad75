---------------------------- MODULE MCGpuSearch ----------------------------
(***************************************************************************)
(* GpuSearch for TLC: two sessions that mostly share the best adapter, one *)
(* inside and two surface samples, and queries whose f32 rounding turns    *)
(* near ties around.                                                       *)
(***************************************************************************)
EXTENDS GpuSearch

OneAndTwo == [inside |-> 1, surface |-> 2]

Adapter(name, kind) == [name |-> name, kind |-> kind]

\* The integrated adapter shows up for two backends, the best one comes last.
Enumerated ==
  << Adapter("cpu", "software"), Adapter("igp", "integrated"),
     Adapter("igp", "integrated"), Adapter("dgp", "discrete") >>

Asked == {[device |-> "auto", index |-> 0], [device |-> "gpu:", index |-> 9]}

Query(wants, n, finite, inside, surface, radius, noise) ==
  [wants |-> wants, n |-> n, finite |-> finite, fits |-> TRUE, radius |-> radius,
   dist  |-> [inside |-> inside, surface |-> surface],
   noise |-> [inside |-> noise[1], surface |-> noise[2]]]

\* Both spheres are nearly as far from the inside sample, and the rounding
\* makes the wrong one win; the first one engulfs one surface sample and
\* has the other in its band.
Near ==
  Query({"inside", "surface", "pairs"}, 2, TRUE,
        <<<<5, 6>>>>, <<<<3, 9>>, <<1, 9>>>>, <<2, 2>>,
        <<<<<<1, -1>>>>, <<<<0, 0>>, <<1, 0>>>>>>)

\* One sphere, one pair: only what the last query left could add more.
Alone ==
  Query({"pairs"}, 1, TRUE, <<<<9>>>>, <<<<9>>, <<1>>>>, <<2>>, <<<<<<0>>>>, <<<<0>>, <<1>>>>>>)

\* The nearest samples of two centers: a near tie and a clear winner.
NearestQuery ==
  Query({"nearest"}, 2, TRUE, <<<<0, 0>>>>, <<<<4, 9>>, <<5, 1>>>>, <<0, 0>>,
        <<<<<<0, 0>>>>, <<<<1, 0>>, <<-1, 0>>>>>>)

NotFinite == [Near EXCEPT !.finite = FALSE]

SomeQueries == {Near, Alone, NearestQuery, NotFinite}
=============================================================================
