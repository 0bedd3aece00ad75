------------------------------ MODULE MCStudio ------------------------------
(***************************************************************************)
(* Studio for TLC: the collision meshes of a robot with one or two of      *)
(* them.  The other bounds are in the configurations.                      *)
(***************************************************************************)
EXTENDS Studio

CONSTANTS linkA, linkB

OneLink  == <<linkA>>
TwoLinks == <<linkA, linkB>>
=============================================================================
