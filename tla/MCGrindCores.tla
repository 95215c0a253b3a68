----------------------------- MODULE MCGrindCores -----------------------------
(* Small instances of GrindCores for TLC. *)
EXTENDS GrindCores

MayFailToStart == {TRUE, FALSE}
=============================================================================
