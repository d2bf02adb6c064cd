--------------------------- MODULE MCHealthChecker ---------------------------
(* Small instances of HealthChecker for TLC; the cfgs say which. *)
EXTENDS HealthChecker
=============================================================================
