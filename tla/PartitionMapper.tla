--------------------------- MODULE PartitionMapper ---------------------------
(***************************************************************************)
(* internal/cluster/hash/partitioner.go: which nodes a partition's samples *)
(* are sent to.  The mapper never changes after NewPartitionMapper, so it  *)
(* is a set of operators over the configuration.                           *)
(*                                                                         *)
(* xxhash is external: Score[p][n] stands for the hash of "p:n", taken     *)
(* injective (ties of a 64-bit hash are left out).                         *)
(***************************************************************************)
EXTENDS Integers, FiniteSets

CONSTANTS TotalPartitions,
          PNodes,           \* the configured psksketch nodes
          PartitionStart,   \* PartitionStart[n]: first partition of node n
          PartitionEnd,     \* PartitionEnd[n]: one past its last partition
          Score             \* Score[p][n]: rendezvous weight of node n for p

Partitions == 0..(TotalPartitions - 1)

OwnsPartition(n, p) == p >= PartitionStart[n] /\ p < PartitionEnd[n]

\* NewPartitionMapper returns no error.  It rejects a range that passes the last
\* partition, a partition of two nodes and a partition of none.
AcceptedByNewPartitionMapper ==
  /\ TotalPartitions > 0
  /\ PNodes # {}
  /\ \A n \in PNodes : PartitionStart[n] < PartitionEnd[n] => PartitionEnd[n] <= TotalPartitions
  /\ \A p \in Partitions : \A m, n \in PNodes :
       OwnsPartition(m, p) /\ OwnsPartition(n, p) => m = n
  /\ \A p \in Partitions : \E n \in PNodes : OwnsPartition(n, p)

GetPrimaryNode(p) == CHOOSE n \in PNodes : OwnsPartition(n, p)

\* Candidates are ranked by weight, the primary left out.
ReplicaRank(p, n) ==
  Cardinality({m \in PNodes \ {GetPrimaryNode(p)} : Score[p][m] > Score[p][n]})

\* The primary, and the replicaCount - 1 heaviest of the other nodes.
GetNodesForPartition(p, replicaCount) ==
  {n \in PNodes : \/ n = GetPrimaryNode(p)
                  \/ ReplicaRank(p, n) < replicaCount - 1}
=============================================================================
