---------------------------- MODULE MCCalibration ----------------------------
(* A small instance of Calibration: an empty scale reads 2, and 4 with the   *)
(* reference weight on it; times are in units of the shortest.               *)
EXTENDS Calibration
=============================================================================
