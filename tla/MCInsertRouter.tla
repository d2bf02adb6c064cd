---------------------------- MODULE MCInsertRouter ----------------------------
(* A cluster of two or three nodes with a partition each, for TLC. *)
EXTENDS InsertRouter, TLC

CONSTANTS n1, n2, c1, c2

MCNodes          == {n1, n2}
MCCallers        == {c1, c2}
MCPartitionStart == (n1 :> 0) @@ (n2 :> 1)
MCPartitionEnd   == (n1 :> 1) @@ (n2 :> 2)
MCScore          == [p \in 0..1 |-> (n1 :> 1) @@ (n2 :> 2)]
MCPartitionOf    == (c1 :> 0) @@ (c2 :> 1)
MCSketched       == {c1}
=============================================================================
