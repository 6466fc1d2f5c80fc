--------------------------- MODULE MCCruiseSpeed ---------------------------
(* The speeds of CruiseSpeed, small.                                       *)
EXTENDS CruiseSpeed
mcInitials == {4, 6}
mcSpeeds == {5}
=============================================================================
