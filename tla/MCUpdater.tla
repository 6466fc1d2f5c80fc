------------------------------ MODULE MCUpdater ------------------------------
(* The second commit needs a new AGNOS, the third goes back to the first.  *)
EXTENDS Updater
mcOSOf == <<1, 2, 1>>
=============================================================================
