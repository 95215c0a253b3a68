--------------------------- MODULE MCFirmwareUpdate ---------------------------
(* Small instances of FirmwareUpdate for TLC. *)
EXTENDS FirmwareUpdate
=============================================================================
