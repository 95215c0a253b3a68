---------------------------- MODULE MCGrindScreen ----------------------------
(* Small instances of GrindScreen for TLC. *)
EXTENDS GrindScreen

AllCommands == {"START", "STOP", "CONTINUE", "IDLE"}
=============================================================================
