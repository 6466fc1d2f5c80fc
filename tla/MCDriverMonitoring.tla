------------------------- MODULE MCDriverMonitoring -------------------------
(* A short scale: five units of passive awareness; see the cfg.            *)
EXTENDS DriverMonitoring
=============================================================================
