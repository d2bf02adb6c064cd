---------------------------- MODULE HealthChecker ----------------------------
(***************************************************************************)
(* internal/cluster/health/checker.go: what pskinsert believes about each  *)
(* psksketch node.  Two parties change that belief: the checker goroutine, *)
(* which probes every node once per tick, and the insert requests, which   *)
(* report how their RPCs ended.  Neither holds hc.mu while it waits for a  *)
(* node, so an answer may be recorded long after it was true.              *)
(*                                                                         *)
(* up[n] says whether node n answers within the timeouts; it is the        *)
(* environment's variable.                                                 *)
(***************************************************************************)
EXTENDS CircuitBreaker

CONSTANTS Nodes,        \* the registered psksketch nodes
          Callers       \* insert requests that can be in progress together

VARIABLES up,           \* up[n]: node n is reachable and answers in time
          nodes,        \* nodes[n]: NodeHealth, [healthy, breaker]
          loop,         \* the checker goroutine: "running", "cancelled", "exited"
          probe,        \* probe[n]: checkNode(n): "idle", "sent", "ok" or "err"
          rpc           \* rpc[c][n]: the RPC of request c to node n

healthVars == <<up, nodes, loop, probe, rpc>>

NodeHealth == [healthy : BOOLEAN, breaker : Breaker]
ProbeState == {"idle", "sent", "ok", "err"}
\* "rejected" is a response whose Success field is false.
RpcState   == {"none", "sent", "ok", "rejected", "err"}

-----------------------------------------------------------------------------
(* The methods of HealthChecker; hc.mu makes each of them one step. *)

IsHealthy(n) == nodes[n].healthy /\ Allows(nodes[n].breaker)

\* IsHealthy also moves the breaker: it calls Allow, but only for a healthy node.
NodesAfterIsHealthy(n) ==
  IF nodes[n].healthy
    THEN [nodes EXCEPT ![n].breaker = AfterAllow(@)]
    ELSE nodes

\* Planted fault: the node stays healthy when its breaker opens.
RecordFailureKeepsHealthy(n) ==
  nodes' = [nodes EXCEPT ![n].breaker = AfterFailure(@)]

\* RecordFailure: an RPC error marks the node unhealthy only if the breaker is open.
RecordFailure(n) ==
  LET b == AfterFailure(nodes[n].breaker)
  IN  nodes' = [nodes EXCEPT ![n] =
                  [healthy |-> @.healthy /\ b.state # StateOpen, breaker |-> b]]

RecordSuccess(n) ==
  nodes' = [nodes EXCEPT ![n] =
              [healthy |-> TRUE, breaker |-> AfterSuccess(@.breaker)]]

\* Planted fault: a failed probe leaves the node healthy.
RecordProbeKeepsHealthy(n) ==
  nodes' = [nodes EXCEPT ![n] =
              IF probe[n] = "ok"
                THEN [healthy |-> TRUE,      breaker |-> AfterSuccess(@.breaker)]
                ELSE [healthy |-> @.healthy, breaker |-> AfterFailure(@.breaker)]]

\* Planted fault: a successful probe does not restore the node.
RecordProbeKeepsUnhealthy(n) ==
  nodes' = [nodes EXCEPT ![n] =
              IF probe[n] = "ok"
                THEN [healthy |-> @.healthy, breaker |-> AfterSuccess(@.breaker)]
                ELSE [healthy |-> FALSE,     breaker |-> AfterFailure(@.breaker)]]

\* The locked part of checkNode: a failed probe always marks the node unhealthy.
RecordProbe(n) ==
  nodes' = [nodes EXCEPT ![n] =
              IF probe[n] = "ok"
                THEN [healthy |-> TRUE,  breaker |-> AfterSuccess(@.breaker)]
                ELSE [healthy |-> FALSE, breaker |-> AfterFailure(@.breaker)]]

-----------------------------------------------------------------------------
\* RegisterNodes: every node is assumed healthy.
HealthInit ==
  /\ up = [n \in Nodes |-> TRUE]
  /\ nodes = [n \in Nodes |-> [healthy |-> TRUE, breaker |-> NewCircuitBreaker]]
  /\ loop = "running"
  /\ probe = [n \in Nodes |-> "idle"]
  /\ rpc = [c \in Callers |-> [n \in Nodes |-> "none"]]

(* The environment. *)

\* Node n goes down; the connections of the requests in broken are reset at once, the
\* others wait for their deadline.
NodeDown(n, broken) ==
  /\ up[n]
  /\ up' = [up EXCEPT ![n] = FALSE]
  /\ rpc' = [c \in Callers |->
               IF c \in broken /\ rpc[c][n] = "sent"
                 THEN [rpc[c] EXCEPT ![n] = "err"]
                 ELSE rpc[c]]
  /\ UNCHANGED <<nodes, loop, probe>>

NodeUp(n) == /\ ~up[n]
             /\ up' = [up EXCEPT ![n] = TRUE]
             /\ UNCHANGED <<nodes, loop, probe, rpc>>

\* cb.timeout passes without another failure of node n.
TimeoutElapses(n) ==
  /\ ~nodes[n].breaker.elapsed
  /\ nodes' = [nodes EXCEPT ![n].breaker = AfterTimeout(@)]
  /\ UNCHANGED <<up, loop, probe, rpc>>

(* The checker goroutine. *)

\* checkAll starts a round when the last one has ended: wg.Wait holds the loop.
\* After Stop the select may still pick the ticker.
CheckAll ==
  /\ loop # "exited"
  /\ \A n \in Nodes : probe[n] = "idle"
  /\ probe' = [n \in Nodes |-> "sent"]
  /\ UNCHANGED <<up, nodes, loop, rpc>>

\* checkFn returns: it fails for a node that does not answer and on a cancelled ctx.
ProbeReturns(n) ==
  /\ probe[n] = "sent"
  /\ probe' = [probe EXCEPT ![n] = IF up[n] /\ loop = "running" THEN "ok" ELSE "err"]
  /\ UNCHANGED <<up, nodes, loop, rpc>>

\* checkNode takes hc.mu and records what the probe found.
CheckNode(n) ==
  /\ probe[n] \in {"ok", "err"}
  /\ RecordProbe(n)
  /\ probe' = [probe EXCEPT ![n] = "idle"]
  /\ UNCHANGED <<up, loop, rpc>>

Stop == /\ loop = "running"
        /\ loop' = "cancelled"
        /\ UNCHANGED <<up, nodes, probe, rpc>>

LoopExits == /\ loop = "cancelled"
             /\ \A n \in Nodes : probe[n] = "idle"
             /\ loop' = "exited"
             /\ UNCHANGED <<up, nodes, probe, rpc>>

(* The insert requests. *)

\* IsHealthy admits request c to node n and the RPC is sent.
SendRpc(c, n) ==
  /\ rpc[c][n] = "none"
  /\ IsHealthy(n)
  /\ nodes' = NodesAfterIsHealthy(n)
  /\ rpc' = [rpc EXCEPT ![c][n] = "sent"]
  /\ UNCHANGED <<up, loop, probe>>

\* The RPC ends: with a response from a node that is up, with an error (refused,
\* timed out) from one that is not.
RpcReturns(c, n, st) ==
  /\ rpc[c][n] = "sent"
  /\ IF up[n] THEN st \in {"ok", "rejected"} ELSE st = "err"
  /\ rpc' = [rpc EXCEPT ![c][n] = st]
  /\ UNCHANGED <<up, nodes, loop, probe>>

\* The caller's goroutine reports the outcome.  A rejection is reported to nobody.
ReportRpc(c, n) ==
  /\ rpc[c][n] \in {"ok", "rejected", "err"}
  /\ CASE rpc[c][n] = "ok"       -> RecordSuccess(n)
       [] rpc[c][n] = "err"      -> RecordFailure(n)
       [] rpc[c][n] = "rejected" -> UNCHANGED nodes
  /\ rpc' = [rpc EXCEPT ![c][n] = "none"]
  /\ UNCHANGED <<up, loop, probe>>

ProbeStep(n) == ProbeReturns(n) \/ CheckNode(n) \/ TimeoutElapses(n)

HealthNext ==
  \/ CheckAll
  \/ Stop
  \/ LoopExits
  \/ \E n \in Nodes : ProbeStep(n)
  \/ \E n \in Nodes, broken \in SUBSET Callers : NodeDown(n, broken)
  \/ \E n \in Nodes : NodeUp(n)
  \/ \E c \in Callers, n \in Nodes :
       \/ SendRpc(c, n)
       \/ \E st \in {"ok", "rejected", "err"} : RpcReturns(c, n, st)
       \/ ReportRpc(c, n)

HealthSafety == HealthInit /\ [][HealthNext]_healthVars

\* Time passes, the ticker ticks, goroutines that can run do, RPCs and probes end
\* (each has a deadline).  Neither traffic nor the environment is fair.
HealthFairness ==
  /\ WF_healthVars(CheckAll)
  /\ \A n \in Nodes : /\ WF_healthVars(ProbeReturns(n))
                      /\ WF_healthVars(CheckNode(n))
                      /\ WF_healthVars(TimeoutElapses(n))
  /\ \A c \in Callers, n \in Nodes :
       /\ WF_healthVars(\E st \in RpcState : RpcReturns(c, n, st))
       /\ WF_healthVars(ReportRpc(c, n))

HealthSpec == HealthSafety /\ HealthFairness
-----------------------------------------------------------------------------
(* Properties. *)

HealthTypeOK ==
  /\ up \in [Nodes -> BOOLEAN]
  /\ nodes \in [Nodes -> NodeHealth]
  /\ loop \in {"running", "cancelled", "exited"}
  /\ probe \in [Nodes -> ProbeState]
  /\ rpc \in [Callers -> [Nodes -> RpcState]]

\* A breaker that lets everything through has seen fewer failures in a row than its
\* threshold, whichever of RPC reports, probes and Allow interleaved to get there.
ClosedBelowThreshold ==
  \A n \in Nodes : nodes[n].breaker.state = StateClosed
                      => nodes[n].breaker.failures < Threshold

\* The two beliefs about a node, Healthy and its breaker, are written by different
\* branches of different methods, and agree: a node is skipped only when the last
\* outcome recorded for it is a failure, and while its breaker is open it is passed
\* as healthy exactly if a success was recorded since the last failure.
HealthMatchesBreaker ==
  \A n \in Nodes :
    LET nh == nodes[n]
    IN  /\ ~nh.healthy => nh.breaker.failures > 0
        /\ nh.breaker.state = StateOpen => (nh.healthy <=> nh.breaker.failures = 0)

\* Both hold whatever late outcomes of RPCs and probes are recorded, and in whichever
\* order.
HealthIsConsistent == ClosedBelowThreshold /\ HealthMatchesBreaker

\* A node that stays down is in the end skipped by every request, even if late
\* successes are recorded for it and no request is sent to it, unless the checker is
\* stopped.
DeadNodeIsSkipped ==
  \A n \in Nodes : <>[]~up[n] /\ [](loop = "running") => <>[]~IsHealthy(n)

\* A node that stays up is in the end passed to every request, without any request
\* having to try it first, unless the checker is stopped.
RecoveredNodeIsRouted ==
  \A n \in Nodes :
    <>[]up[n] /\ [](loop = "running") => <>[]IsHealthy(n)

\* If requests keep being sent to a node that stays up, its breaker closes for good:
\* no interleaving of failures below the threshold leaves it half-open.
CircuitCloses ==
  \A n \in Nodes :
    /\ <>[]up[n]
    /\ [](loop = "running")
    /\ []<>(\E c \in Callers : rpc[c][n] = "sent")
    => <>[](nodes[n].breaker.state = StateClosed)
=============================================================================
