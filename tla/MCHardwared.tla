----------------------------- MODULE MCHardwared -----------------------------
(* A temperature in every band and between two; short times.               *)
EXTENDS Hardwared
mcTemps == {70, 90, 110}
=============================================================================
