----------------------------- MODULE InsertRouter -----------------------------
(***************************************************************************)
(* internal/pskinsert/router/router.go (Router.Insert) with the parties    *)
(* it depends on: the health checker, the psksketch nodes that serve its   *)
(* RPCs (internal/psksketch/server/grpc.go, internal/storage/storage.go)   *)
(* and the network between them.                                           *)
(*                                                                         *)
(* A caller is one call of Insert, for one sample.  The call asks the      *)
(* health checker about each node of the sample's partition in turn, sends *)
(* an RPC to those that pass, waits for all of them and acknowledges the   *)
(* sample if any of them succeeded.  A node keeps samples in memory only.  *)
(***************************************************************************)
EXTENDS HealthChecker, PartitionMapper

CONSTANTS PartitionOf,      \* PartitionOf[c]: hash of the sample's metric name
          Sketched,         \* samples whose metric matches a sketch target
          ReplicationFactor,
          MaxOutages,       \* bound: crashes and disconnections of nodes
          MaxRounds         \* bound: rounds of health checks

ASSUME RouterAssumption ==
  /\ AcceptedByNewPartitionMapper
  /\ PNodes = Nodes
  /\ \A c \in Callers : PartitionOf[c] \in Partitions
  /\ Sketched \subseteq Callers
  /\ ReplicationFactor \in Nat
  /\ MaxOutages \in Nat
  /\ MaxRounds \in Nat

VARIABLES call,             \* call[c]: where Insert stands
          todo,             \* todo[c]: nodes the loop has not reached
          accepted,         \* accepted[c]: successCount > 0
          net,              \* net[c][n]: the RPC as the server sees it
          store,            \* store[n]: the samples in node n's sketches
          lost,             \* history: samples whose sketches a crash erased
          outages,          \* counts toward MaxOutages
          rounds            \* counts toward MaxRounds

routerVars == <<call, todo, accepted, net, store, lost, outages, rounds>>
vars == <<healthVars, routerVars>>

Primary(c) == GetPrimaryNode(PartitionOf[c])
Targets(c) == GetNodesForPartition(PartitionOf[c], ReplicationFactor)

\* The slice of nodes has the primary first and then the replicas by weight, so the loop
\* comes to one of these next (weights differ, so there is one).
NextTargets(c) ==
  {n \in todo[c] :
     \/ n = Primary(c)
     \/ /\ Primary(c) \notin todo[c]
        /\ \A m \in todo[c] : ReplicaRank(PartitionOf[c], n) <= ReplicaRank(PartitionOf[c], m)}

-----------------------------------------------------------------------------
Init ==
  /\ HealthInit
  /\ call = [c \in Callers |-> "idle"]
  /\ todo = [c \in Callers |-> {}]
  /\ accepted = [c \in Callers |-> FALSE]
  /\ net = [c \in Callers |-> [n \in Nodes |-> "none"]]
  /\ store = [n \in Nodes |-> {}]
  /\ lost = {}
  /\ outages = 0
  /\ rounds = 0

(* Router.Insert. *)

Insert(c) ==
  /\ call[c] = "idle"
  /\ call' = [call EXCEPT ![c] = "selecting"]
  /\ todo' = [todo EXCEPT ![c] = Targets(c)]
  /\ UNCHANGED <<healthVars, accepted, net, store, lost, outages, rounds>>

\* The node is passed as healthy: its goroutine sends the RPC.
SendToTarget(c, n) ==
  /\ call[c] = "selecting"
  /\ SendRpc(c, n)
  /\ todo' = [todo EXCEPT ![c] = @ \ {n}]
  /\ net' = [net EXCEPT ![c][n] = "sent"]
  /\ UNCHANGED <<call, accepted, store, lost, outages, rounds>>

SkipTarget(c, n) ==
  /\ call[c] = "selecting"
  /\ ~IsHealthy(n)
  /\ todo' = [todo EXCEPT ![c] = @ \ {n}]
  /\ UNCHANGED <<healthVars, call, accepted, net, store, lost, outages, rounds>>

\* A response arrives, or the RPC fails while the node cannot be reached.
Returns(c, n, st) ==
  /\ RpcReturns(c, n, st)
  /\ st \in {"ok", "rejected"} => net[c][n] = st
  /\ UNCHANGED routerVars

\* Planted fault: any response counts as a success.
ReportsAnyResponse(c, n) ==
  /\ ReportRpc(c, n)
  /\ accepted' = [accepted EXCEPT ![c] = @ \/ rpc[c][n] # "err"]
  /\ UNCHANGED <<call, todo, net, store, lost, outages, rounds>>

\* The goroutine reports to the health checker and counts a success.
Reports(c, n) ==
  /\ ReportRpc(c, n)
  /\ accepted' = [accepted EXCEPT ![c] = @ \/ rpc[c][n] = "ok"]
  /\ UNCHANGED <<call, todo, net, store, lost, outages, rounds>>

\* Planted fault: no error is reported when no node was passed as healthy.
FinishWithoutSuccess(c) ==
  /\ call[c] = "selecting" /\ todo[c] = {}
  /\ \A n \in Nodes : rpc[c][n] = "none"
  /\ call' = [call EXCEPT ![c] = "acked"]
  /\ UNCHANGED <<healthVars, todo, accepted, net, store, lost, outages, rounds>>

\* wg.Wait returns; one success is enough.
Finish(c) ==
  /\ call[c] = "selecting" /\ todo[c] = {}
  /\ \A n \in Nodes : rpc[c][n] = "none"
  /\ call' = [call EXCEPT ![c] = IF accepted[c] THEN "acked" ELSE "failed"]
  /\ UNCHANGED <<healthVars, todo, accepted, net, store, lost, outages, rounds>>

(* The psksketch node. *)

\* SketchServer.Insert: a sample that matches no target is accepted and dropped,
\* one of a partition the node does not own is rejected, and a new series may be
\* rejected (memory limit).
ServeInsert(c, n) ==
  /\ up[n] /\ net[c][n] = "sent"
  /\ \/ /\ c \notin Sketched
        /\ net' = [net EXCEPT ![c][n] = "ok"]
        /\ UNCHANGED store
     \/ /\ c \in Sketched /\ OwnsPartition(n, PartitionOf[c])
        /\ net' = [net EXCEPT ![c][n] = "ok"]
        /\ store' = [store EXCEPT ![n] = @ \cup {c}]
     \/ /\ c \in Sketched
        /\ net' = [net EXCEPT ![c][n] = "rejected"]
        /\ UNCHANGED store
  /\ UNCHANGED <<healthVars, call, todo, accepted, lost, outages, rounds>>

\* The process dies and loses its sketches, and the RPCs it was serving.
Crash(n) ==
  /\ outages < MaxOutages
  /\ NodeDown(n, Callers)
  /\ store' = [store EXCEPT ![n] = {}]
  /\ net' = [c \in Callers |-> [net[c] EXCEPT ![n] = IF @ = "none" THEN @ ELSE "lost"]]
  /\ lost' = lost \cup store[n]
  /\ outages' = outages + 1
  /\ UNCHANGED <<call, todo, accepted, rounds>>

\* The node cannot be reached for a while; it keeps its sketches, and the requests
\* sent to it are served when it is back, whether or not the caller still waits.
Disconnect(n) ==
  /\ outages < MaxOutages
  /\ NodeDown(n, {})
  /\ outages' = outages + 1
  /\ UNCHANGED <<call, todo, accepted, net, store, lost, rounds>>

Reconnect(n) == NodeUp(n) /\ UNCHANGED routerVars

\* The checker goroutine; it is stopped only after the insert path is.
CheckerStep ==
  \/ /\ rounds < MaxRounds
     /\ CheckAll
     /\ rounds' = rounds + 1
     /\ UNCHANGED <<call, todo, accepted, net, store, lost, outages>>
  \/ \E n \in Nodes : ProbeStep(n) /\ UNCHANGED routerVars

InsertStep(c) ==
  \/ Insert(c)
  \/ \E n \in NextTargets(c) : SendToTarget(c, n) \/ SkipTarget(c, n)
  \/ \E n \in Nodes, st \in RpcState : Returns(c, n, st)
  \/ \E n \in Nodes : Reports(c, n)
  \/ Finish(c)

Next ==
  \/ \E c \in Callers : InsertStep(c)
  \/ \E c \in Callers, n \in Nodes : ServeInsert(c, n)
  \/ \E n \in Nodes : Crash(n) \/ Disconnect(n) \/ Reconnect(n)
  \/ CheckerStep

Spec == Init /\ [][Next]_vars

-----------------------------------------------------------------------------
(* Properties. *)

NetState == {"none", "sent", "ok", "rejected", "lost"}

TypeOK ==
  /\ HealthTypeOK
  /\ call \in [Callers -> {"idle", "selecting", "acked", "failed"}]
  /\ todo \in [Callers -> SUBSET Nodes]
  /\ accepted \in [Callers -> BOOLEAN]
  /\ net \in [Callers -> [Nodes -> NetState]]
  /\ store \in [Nodes -> SUBSET Callers]
  /\ lost \subseteq Callers
  /\ outages \in 0..MaxOutages
  /\ rounds \in 0..MaxRounds

\* The sample reached the sketches of the node that owns its partition.
Held(c) == c \in store[Primary(c)] \cup lost

\* An acknowledged sample that has a sketch reached the sketches of the node that owns
\* its partition, and is in no other node's: no late response, lost RPC, restart or
\* skipped node lets Insert return nil for a sample that was stored nowhere.
AckedOnPrimary ==
  \A c \in Sketched :
    /\ call[c] = "acked" => Held(c)
    /\ \A n \in Nodes : c \in store[n] => n = Primary(c)

\* What Insert promises, as an abstract protocol for each sample.
Promise == INSTANCE InsertPromise WITH
  Samples <- Callers,
  outcome <- [c \in Callers |-> CASE call[c] = "idle"      -> "new"
                                   [] call[c] = "selecting" -> "pending"
                                   [] OTHER                 -> call[c]],
  kept    <- [c \in Callers |-> IF c \in store[Primary(c)] THEN "kept"
                               ELSE IF c \in lost THEN "lost" ELSE "never"]

\* The router, the health checker and the nodes together implement that protocol.
ImplementsPromise == Promise!Spec
=============================================================================
