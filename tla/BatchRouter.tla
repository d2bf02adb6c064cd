----------------------------- MODULE BatchRouter -----------------------------
(***************************************************************************)
(* internal/pskinsert/router/router.go (Router.BatchInsert) and the        *)
(* BatchInsert handler of a psksketch node: the series of a batch are      *)
(* grouped by node, each node is sent its group once, and nil is returned  *)
(* unless every group failed.  IsHealthy may give any answer, for each     *)
(* series anew; reports to the health checker go nowhere else here.        *)
(***************************************************************************)
EXTENDS PartitionMapper, FiniteSetsExt

CONSTANTS BatchSeries,    \* the series of the batch
          BatchPartition, \* BatchPartition[s]: of its metric name
          BatchMatched,   \* the series that match a sketch target
          SamplesIn,      \* SamplesIn[s]: how many samples it brings
          ReplicaCount

ASSUME BatchAssumption ==
  /\ AcceptedByNewPartitionMapper
  /\ IsFiniteSet(PNodes) /\ IsFiniteSet(BatchSeries)
  /\ \A s \in BatchSeries : BatchPartition[s] \in Partitions /\ SamplesIn[s] \in Nat
  /\ BatchMatched \subseteq BatchSeries
  /\ ReplicaCount \in Nat

VARIABLES ungrouped,     \* series that the loop has not come to
          nodeGroups,    \* nodeGroups[n]: the series for node n
          batchRpc,      \* batchRpc[n]: "none", "sent", "served", "ok" or "error"
          batchServed,   \* the nodes whose handler has gone through its group
          batchStored,   \* batchStored[n]: the series node n has stored
          batchResult,   \* "none", "nil" or "error"
          RPCsSent, RPCsFailed, SamplesRouted

batchVars == <<ungrouped, nodeGroups, batchRpc, batchServed, batchStored, batchResult,
               RPCsSent, RPCsFailed, SamplesRouted>>

BatchInit ==
  /\ ungrouped = BatchSeries
  /\ nodeGroups = [n \in PNodes |-> {}]
  /\ batchRpc = [n \in PNodes |-> "none"]
  /\ batchServed = {}
  /\ batchStored = [n \in PNodes |-> {}]
  /\ batchResult = "none"
  /\ RPCsSent = 0 /\ RPCsFailed = 0 /\ SamplesRouted = 0

Groups == {n \in PNodes : nodeGroups[n] # {}}
SumOver(f, set) == MapThenSumSet(LAMBDA x : f[x], set)
Samples(set) == SumOver(SamplesIn, set)

Group(s) ==
  /\ s \in ungrouped
  /\ \E healthy \in SUBSET GetNodesForPartition(BatchPartition[s], ReplicaCount) :
       nodeGroups' = [n \in PNodes |->
                        IF n \in healthy THEN nodeGroups[n] \cup {s} ELSE nodeGroups[n]]
  /\ ungrouped' = ungrouped \ {s}
  /\ UNCHANGED <<batchRpc, batchServed, batchStored, batchResult, RPCsSent, RPCsFailed,
                 SamplesRouted>>

\* A goroutine for each group.
SendGroup(n) ==
  /\ ungrouped = {} /\ n \in Groups /\ batchRpc[n] = "none"
  /\ batchRpc' = [batchRpc EXCEPT ![n] = "sent"]
  /\ RPCsSent' = RPCsSent + 1
  /\ UNCHANGED <<ungrouped, nodeGroups, batchServed, batchStored, batchResult, RPCsFailed,
                 SamplesRouted>>

\* Insert returns nil, storing nothing, for a series that no target matches, on an owner
\* or not; then it looks at the partition.
Passed(n) == nodeGroups[n] \ BatchMatched
Storable(n) == {s \in nodeGroups[n] \cap BatchMatched : OwnsPartition(n, BatchPartition[s])}

\* The handler goes through the group once, and counts a sample as failed or inserted by
\* what Insert says.  A series that the node could store may fail (memory limit), here with
\* all its samples.  A node may come to it after the deadline.
ServeBatch(n) ==
  /\ batchRpc[n] \in {"sent", "error"} /\ n \notin batchServed
  /\ \E taken \in SUBSET Storable(n) : batchStored' = [batchStored EXCEPT ![n] = taken]
  /\ batchServed' = batchServed \cup {n}
  /\ batchRpc' = [batchRpc EXCEPT ![n] = IF @ = "sent" THEN "served" ELSE @]
  /\ UNCHANGED <<ungrouped, nodeGroups, batchResult, RPCsSent, RPCsFailed, SamplesRouted>>

\* The field Inserted of a node's response.
InsertedAt(n) == Samples(batchStored[n]) + Samples(Passed(n))

\* Samples that failed at the node are logged only.
BatchAnswered(n) ==
  /\ batchRpc[n] = "served"
  /\ batchRpc' = [batchRpc EXCEPT ![n] = "ok"]
  /\ SamplesRouted' = SamplesRouted + InsertedAt(n)
  /\ UNCHANGED <<ungrouped, nodeGroups, batchServed, batchStored, batchResult, RPCsSent,
                 RPCsFailed>>

BatchFails(n) ==
  /\ batchRpc[n] \in {"sent", "served"}
  /\ batchRpc' = [batchRpc EXCEPT ![n] = "error"]
  /\ RPCsFailed' = RPCsFailed + 1
  /\ UNCHANGED <<ungrouped, nodeGroups, batchServed, batchStored, batchResult, RPCsSent,
                 SamplesRouted>>

AllFailed == Groups # {} /\ \A n \in Groups : batchRpc[n] = "error"

BatchReturns ==
  /\ ungrouped = {} /\ batchResult = "none"
  /\ \A n \in Groups : batchRpc[n] \in {"ok", "error"}
  /\ batchResult' = IF AllFailed THEN "error" ELSE "nil"
  /\ UNCHANGED <<ungrouped, nodeGroups, batchRpc, batchServed, batchStored, RPCsSent,
                 RPCsFailed, SamplesRouted>>

BatchNext ==
  \/ \E s \in BatchSeries : Group(s)
  \/ \E n \in PNodes : SendGroup(n) \/ ServeBatch(n) \/ BatchAnswered(n) \/ BatchFails(n)
  \/ BatchReturns

-----------------------------------------------------------------------------
\* Although answers are lost, come late or name failures: no sample is in two nodes; what
\* is counted as routed is in a node, except that the samples no target matches are counted
\* again for each node that answered, and are in none; an error means that no node answered,
\* and nil that one did or that there was none to ask - not that anything was stored.
BatchIsCounted ==
  LET Answering == {n \in PNodes : batchRpc[n] = "ok"}
  IN /\ \A m, n \in PNodes : m # n => batchStored[m] \cap batchStored[n] = {}
     /\ \A n \in PNodes : batchStored[n] \subseteq BatchMatched
     /\ SamplesRouted = SumOver([n \in PNodes |-> Samples(batchStored[n])], Answering)
                          + SumOver([n \in PNodes |-> Samples(Passed(n))], Answering)
     /\ RPCsFailed = Cardinality({n \in PNodes : batchRpc[n] = "error"})
     /\ RPCsSent = Cardinality({n \in PNodes : batchRpc[n] # "none"})
     /\ batchResult = "error" => SamplesRouted = 0 /\ RPCsSent = RPCsFailed /\ RPCsSent > 0
     /\ batchResult = "nil" => RPCsSent = 0 \/ RPCsFailed < RPCsSent
=============================================================================
