--------------------------- MODULE MCSystemTimeBase ---------------------------
(***************************************************************************)
(* Instances of SystemTimeBase for TLC: an error of 2 looks like a reboot, *)
(* an error of 1 like a slew.                                              *)
(***************************************************************************)
EXTENDS SystemTimeBase

MCErrors == {0, 1, 2}
MCMinAlt == -4
MCNoBootTime == -20
=============================================================================
