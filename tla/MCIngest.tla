------------------------------- MODULE MCIngest -------------------------------
(***************************************************************************)
(* A request and a scrape that bring the same new series in the opposite   *)
(* order; two requests when there is memory for one series; a request with *)
(* the tracker running.  All label sets have one hash; no target matches   *)
(* one of them.  A batch of three series, one without a target, for three  *)
(* nodes, two of which own the partitions.                                 *)
(***************************************************************************)
EXTENDS Ingest

One(l) == [lset |-> l, samples |-> 1]
MCHash == [l \in LabelSets |-> 0]
MCDelivered == [write |-> <<[lset |-> "a", samples |-> 2], One("other"), One("b")>>,
                late |-> <<One("b")>>,
                scrape |-> <<One("b"), One("a")>>]
MCDeliverers == [both |-> {"write", "scrape"}, late |-> {"write", "late"},
                 rates |-> {"write"}, batch |-> {}]
MCMaxUpdates == [both |-> 0, late |-> 0, rates |-> 4, batch |-> 0]
MCMemoryFor == [both |-> 2, late |-> 1, rates |-> 2, batch |-> 0]
MCStart == [n1 |-> 0, n2 |-> 1, n3 |-> 2]
MCEnd == [n1 |-> 1, n2 |-> 2, n3 |-> 2]
MCScore == [p \in 0..1 |-> [n1 |-> 3, n2 |-> 2, n3 |-> 1 + 3 * p]]
MCBatchPartition == [s1 |-> 0, s2 |-> 1, s3 |-> 1]
MCSamplesIn == [s1 |-> 1, s2 |-> 2, s3 |-> 1]
=============================================================================
