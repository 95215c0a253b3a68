-------------------------- MODULE MCGrindController --------------------------
(* Small instance of GrindController for TLC. *)
EXTENDS GrindController

MayFailToStart == {TRUE, FALSE}
=============================================================================
