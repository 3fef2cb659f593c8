--------------------------- MODULE MCCalibration ---------------------------
(* Instances of Calibration for TLC: a master and a follower. *)
EXTENDS Calibration

CONSTANTS m, f        \* phones

Pair == <<m, f>>
Alone == <<m>>
=============================================================================
