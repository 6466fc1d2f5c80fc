------------------------------ MODULE MCManager ------------------------------
(* Three processes like ui, card and camerad.                              *)
EXTENDS Manager, TLC
mcKind == 1 :> "always" @@ 2 :> "onroad" @@ 3 :> "driverview"
mcRestarted == {1}
=============================================================================
