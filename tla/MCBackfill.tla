------------------------------ MODULE MCBackfill ------------------------------
(* Two series of the pattern and one that only shares a metric name, for TLC. *)
EXTENDS Backfill, TLC

CONSTANTS a, b, other

MCSeries   == {a, b, other}
MCMatching == {a, b}
MCMetricOf == (a :> "m") @@ (b :> "k") @@ (other :> "m")
=============================================================================
