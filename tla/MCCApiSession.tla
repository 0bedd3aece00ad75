--------------------------- MODULE MCCApiSession ---------------------------
(***************************************************************************)
(* CApiSession for TLC: two host threads that make two calls each, over a  *)
(* session of two spheres and two or three iterations.                     *)
(***************************************************************************)
EXTENDS CApiSession

TwoSpheres  == {2}
AllMutators == {"step", "finalize", "free"}
NoMutators  == {}
=============================================================================
