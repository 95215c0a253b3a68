---------------------------- MODULE MCSessionLog ----------------------------
(* Small instances of SessionLog for TLC. *)
EXTENDS SessionLog
=============================================================================
