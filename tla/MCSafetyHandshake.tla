-------------------------- MODULE MCSafetyHandshake --------------------------
(* Two pandas, one of them configured; see the cfg files for the bounds.   *)
EXTENDS SafetyHandshake
CONSTANTS p1, p2
mcPandas == {p1, p2}
mcConfigured == {p1}
=============================================================================
