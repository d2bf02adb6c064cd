------------------------------ MODULE MCForwarder ------------------------------
(* Small instances of Forwarder for TLC; the cfgs give the bounds. *)
EXTENDS Forwarder
=============================================================================
