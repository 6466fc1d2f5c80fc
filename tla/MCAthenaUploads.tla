-------------------------- MODULE MCAthenaUploads ---------------------------
(* Two uploads of different priority, one allowed on cellular, and two     *)
(* upload threads; see the cfg.                                            *)
EXTENDS AthenaUploads, TLC
CONSTANTS i1, i2, u1, u2, w1
mcItems == {i1, i2}
mcUploaders == {u1, u2}
mcWorkers == {w1}
mcPriority == i1 :> 1 @@ i2 :> 2
mcCellular == {i2}
=============================================================================
