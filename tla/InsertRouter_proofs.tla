-------------------------- MODULE InsertRouter_proofs --------------------------
(***************************************************************************)
(* Proofs about HealthChecker, for any number of nodes and callers and any *)
(* threshold: the type invariant, and the two invariants that tie Healthy, *)
(* the breaker's state and its count of failures together; and about       *)
(* InsertRouter, for any cluster that NewPartitionMapper accepts, any      *)
(* replication factor and any number of requests and outages: it drives    *)
(* the health checker only as HealthChecker allows, an acknowledged sample *)
(* reached its primary, and the whole implements InsertPromise.            *)
(***************************************************************************)
EXTENDS InsertRouter, TLAPS

-----------------------------------------------------------------------------
(* The health checker: nothing here but ThresholdAssumption is assumed. *)

\* A breaker that opens has seen Threshold failures, and a record written by any method
\* satisfies both invariants: they are properties of each node's record by itself.
NodeInv(nh) ==
  /\ nh.breaker.state = StateClosed => nh.breaker.failures < Threshold
  /\ ~nh.healthy => nh.breaker.failures > 0
  /\ nh.breaker.state = StateOpen => (nh.healthy <=> nh.breaker.failures = 0)

HealthInv == \A n \in Nodes : NodeInv(nodes[n])

-----------------------------------------------------------------------------
(* The methods of the breaker. *)

\* A new breaker is a breaker, closed, that has counted nothing.
LEMMA NewBreakerType == NewCircuitBreaker \in Breaker
BY ThresholdAssumption
DEF NewCircuitBreaker, Breaker, SuccessesToClose, StateClosed, StateOpen, StateHalfOpen

\* Allow keeps a breaker a breaker; it only ever makes an open one half-open.
LEMMA AfterAllowFacts ==
  ASSUME NEW b \in Breaker
  PROVE  /\ AfterAllow(b) \in Breaker
         /\ AfterAllow(b).failures = b.failures
         /\ AfterAllow(b).state = StateClosed => b.state = StateClosed
         /\ AfterAllow(b).state = StateOpen => b.state = StateOpen
<1>1. CASE b.state = StateOpen /\ b.elapsed
  <2>1. b = [state |-> b.state, failures |-> b.failures,
             successes |-> b.successes, elapsed |-> b.elapsed]
    BY DEF Breaker
  <2>2. AfterAllow(b) = [state |-> StateHalfOpen, failures |-> b.failures,
                         successes |-> 0, elapsed |-> b.elapsed]
    BY <1>1, <2>1 DEF AfterAllow
  <2>3. AfterAllow(b) \in Breaker
    BY <2>2 DEF Breaker, SuccessesToClose
  <2> QED
    BY <2>2, <2>3 DEF StateClosed, StateOpen, StateHalfOpen
<1>2. CASE ~(b.state = StateOpen /\ b.elapsed)
  BY <1>2 DEF AfterAllow
<1> QED
  BY <1>1, <1>2

\* A counter that is within its cap still is when it has counted.
LEMMA CountToFacts ==
  ASSUME NEW cap \in Nat \ {0}, NEW n \in 0..cap
  PROVE  CountTo(n, cap) \in 1..cap
BY DEF CountTo

\* The clock touches nothing but elapsed.
LEMMA AfterTimeoutFacts ==
  ASSUME NEW b \in Breaker
  PROVE  /\ AfterTimeout(b) \in Breaker
         /\ AfterTimeout(b).failures = b.failures
         /\ AfterTimeout(b).state = b.state
BY DEF AfterTimeout, Breaker

\* A success leaves no failure counted.
LEMMA AfterSuccessFacts ==
  ASSUME NEW b \in Breaker
  PROVE  /\ AfterSuccess(b) \in Breaker
         /\ AfterSuccess(b).failures = 0
<1> DEFINE n == CountTo(b.successes, SuccessesToClose)
<1>1. n \in 0..SuccessesToClose
  BY CountToFacts DEF Breaker, SuccessesToClose
<1>2. /\ b.state \in {StateClosed, StateOpen, StateHalfOpen}
      /\ b.elapsed \in BOOLEAN
      /\ 0 \in 0..Threshold
      /\ 0 \in 0..SuccessesToClose
  BY ThresholdAssumption DEF Breaker, SuccessesToClose
<1>3. CASE b.state = StateHalfOpen /\ n = SuccessesToClose
  <2>1. AfterSuccess(b) = [state |-> StateClosed, failures |-> 0,
                           successes |-> 0, elapsed |-> b.elapsed]
    BY <1>3 DEF AfterSuccess, Breaker
  <2> QED
    BY <1>2, <2>1 DEF Breaker
<1>4. CASE ~(b.state = StateHalfOpen /\ n = SuccessesToClose)
  <2>1. AfterSuccess(b) = [state |-> b.state, failures |-> 0,
                           successes |-> n, elapsed |-> b.elapsed]
    BY <1>4 DEF AfterSuccess, Breaker
  <2> HIDE DEF n
  <2> QED
    BY <1>1, <1>2, <2>1 DEF Breaker
<1> QED
  BY <1>3, <1>4

\* A failure is counted, and the breaker is open when the count reaches Threshold.
LEMMA AfterFailureFacts ==
  ASSUME NEW b \in Breaker
  PROVE  /\ AfterFailure(b) \in Breaker
         /\ AfterFailure(b).failures > 0
         /\ AfterFailure(b).state = StateClosed =>
              AfterFailure(b).failures < Threshold
<1> DEFINE n == CountTo(b.failures, Threshold)
           st == IF n = Threshold THEN StateOpen ELSE b.state
<1>1. n \in 1..Threshold
  BY CountToFacts, ThresholdAssumption DEF Breaker
<1>2. st \in {StateClosed, StateOpen, StateHalfOpen} /\ (st = StateClosed => n # Threshold)
  BY DEF Breaker, StateClosed, StateOpen, StateHalfOpen
<1>3. AfterFailure(b) = [state |-> st, failures |-> n, successes |-> 0, elapsed |-> FALSE]
  <2>1. b = [state |-> b.state, failures |-> b.failures,
             successes |-> b.successes, elapsed |-> b.elapsed]
    BY DEF Breaker
  <2>2. AfterFailure(b) = [b EXCEPT !.failures = n, !.successes = 0, !.elapsed = FALSE,
                                    !.state = IF n = Threshold THEN StateOpen ELSE @]
    BY DEF AfterFailure
  <2> HIDE DEF n
  <2> QED
    BY <2>1, <2>2
<1>4. n \in 0..Threshold /\ 0 \in 0..SuccessesToClose
  BY <1>1, ThresholdAssumption DEF SuccessesToClose
<1> HIDE DEF n, st
<1>5. AfterFailure(b) \in Breaker
  BY <1>2, <1>3, <1>4 DEF Breaker
<1>6. AfterFailure(b).failures > 0
  BY <1>1, <1>3, ThresholdAssumption
<1>7. AfterFailure(b).state = StateClosed => AfterFailure(b).failures < Threshold
  BY <1>1, <1>2, <1>3, ThresholdAssumption
<1> QED
  BY <1>5, <1>6, <1>7
-----------------------------------------------------------------------------
(* The methods of the checker: each keeps nodes a function to good records. *)

\* Whatever new breaker and belief a method writes for node n, the other nodes' records
\* are left as they were.
LEMMA NodeUpdate ==
  ASSUME nodes \in [Nodes -> NodeHealth], HealthInv,
         NEW n \in Nodes, NEW nh \in NodeHealth, NodeInv(nh),
         nodes' = [nodes EXCEPT ![n] = nh]
  PROVE  nodes' \in [Nodes -> NodeHealth] /\ HealthInv'
<1>1. nodes' \in [Nodes -> NodeHealth]
  OBVIOUS
<1>2. ASSUME NEW m \in Nodes
      PROVE  NodeInv(nodes'[m])
  <2>1. CASE m = n
    BY <2>1
  <2>2. CASE m # n
    BY <2>2 DEF HealthInv
  <2> QED
    BY <2>1, <2>2
<1>3. HealthInv'
  BY <1>2 DEF HealthInv, NodeInv
<1> QED
  BY <1>1, <1>3

\* A record whose breaker is replaced, written out field by field.
LEMMA WithBreaker ==
  ASSUME nodes \in [Nodes -> NodeHealth], NEW n \in Nodes, NEW b
  PROVE  [nodes EXCEPT ![n].breaker = b]
           = [nodes EXCEPT ![n] = [healthy |-> nodes[n].healthy, breaker |-> b]]
<1>1. [nodes EXCEPT ![n].breaker = b] = [nodes EXCEPT ![n] = [nodes[n] EXCEPT !.breaker = b]]
  OBVIOUS
<1>2. nodes[n] = [healthy |-> nodes[n].healthy, breaker |-> nodes[n].breaker]
  BY DEF NodeHealth
<1>3. ASSUME NEW x, NEW y
      PROVE  [[healthy |-> x, breaker |-> y] EXCEPT !.breaker = b]
               = [healthy |-> x, breaker |-> b]
  OBVIOUS
<1>4. [nodes[n] EXCEPT !.breaker = b] = [healthy |-> nodes[n].healthy, breaker |-> b]
  BY <1>2, <1>3
<1> QED
  BY <1>1, <1>4

LEMMA RecordSuccessKeeps ==
  ASSUME nodes \in [Nodes -> NodeHealth], HealthInv, NEW n \in Nodes, RecordSuccess(n)
  PROVE  nodes' \in [Nodes -> NodeHealth] /\ HealthInv'
<1> DEFINE b == AfterSuccess(nodes[n].breaker)
           nh == [healthy |-> TRUE, breaker |-> b]
<1>1. b \in Breaker /\ b.failures = 0
  BY AfterSuccessFacts DEF NodeHealth
<1>2. nodes' = [nodes EXCEPT ![n] = nh]
  BY DEF RecordSuccess
<1> HIDE DEF b
<1>3. nh \in NodeHealth /\ NodeInv(nh)
  BY <1>1, ThresholdAssumption DEF NodeHealth, NodeInv
<1> HIDE DEF nh
<1> QED
  BY <1>2, <1>3, NodeUpdate

LEMMA RecordFailureKeeps ==
  ASSUME nodes \in [Nodes -> NodeHealth], HealthInv, NEW n \in Nodes, RecordFailure(n)
  PROVE  nodes' \in [Nodes -> NodeHealth] /\ HealthInv'
<1> DEFINE b == AfterFailure(nodes[n].breaker)
           healthy == nodes[n].healthy /\ b.state # StateOpen
           nh == [healthy |-> healthy, breaker |-> b]
<1>1. /\ b \in Breaker
      /\ b.failures > 0
      /\ b.state = StateClosed => b.failures < Threshold
  BY AfterFailureFacts DEF NodeHealth
<1>2. nodes' = [nodes EXCEPT ![n] = nh]
  BY DEF RecordFailure
<1>3. healthy \in BOOLEAN /\ (b.state = StateOpen => ~healthy)
  OBVIOUS
<1> HIDE DEF b, healthy
<1>4. nh \in NodeHealth
  BY <1>1, <1>3 DEF NodeHealth
<1>5. NodeInv(nh)
  BY <1>1, <1>3 DEF NodeInv
<1> HIDE DEF nh
<1> QED
  BY <1>2, <1>4, <1>5, NodeUpdate

LEMMA RecordProbeKeeps ==
  ASSUME nodes \in [Nodes -> NodeHealth], HealthInv, NEW n \in Nodes, RecordProbe(n)
  PROVE  nodes' \in [Nodes -> NodeHealth] /\ HealthInv'
<1>1. CASE probe[n] = "ok"
  <2>1. RecordSuccess(n)
    BY <1>1 DEF RecordProbe, RecordSuccess
  <2> QED
    BY <2>1, RecordSuccessKeeps
<1>2. CASE probe[n] # "ok"
  <2> DEFINE b == AfterFailure(nodes[n].breaker)
             nh == [healthy |-> FALSE, breaker |-> b]
  <2>1. /\ b \in Breaker
        /\ b.failures > 0
        /\ b.state = StateClosed => b.failures < Threshold
    BY AfterFailureFacts DEF NodeHealth
  <2>2. nodes' = [nodes EXCEPT ![n] = nh]
    BY <1>2 DEF RecordProbe
  <2> HIDE DEF b
  <2>3. nh \in NodeHealth
    BY <2>1 DEF NodeHealth
  <2>4. NodeInv(nh)
    BY <2>1 DEF NodeInv
  <2> HIDE DEF nh
  <2> QED
    BY <2>2, <2>3, <2>4, NodeUpdate
<1> QED
  BY <1>1, <1>2

\* The breaker's move in IsHealthy.
LEMMA IsHealthyKeeps ==
  ASSUME nodes \in [Nodes -> NodeHealth], HealthInv, NEW n \in Nodes,
         nodes' = NodesAfterIsHealthy(n)
  PROVE  nodes' \in [Nodes -> NodeHealth] /\ HealthInv'
<1>1. CASE nodes[n].healthy
  <2> DEFINE b == AfterAllow(nodes[n].breaker)
             nh == [healthy |-> nodes[n].healthy, breaker |-> b]
  <2>1. /\ nodes[n].breaker \in Breaker
        /\ nodes[n] = [healthy |-> nodes[n].healthy, breaker |-> nodes[n].breaker]
        /\ NodeInv(nodes[n])
    BY DEF NodeHealth, HealthInv
  <2>2. /\ b \in Breaker
        /\ b.failures = nodes[n].breaker.failures
        /\ b.state = StateClosed => nodes[n].breaker.state = StateClosed
        /\ b.state = StateOpen => nodes[n].breaker.state = StateOpen
    BY <2>1, AfterAllowFacts
  <2>3. nodes' = [nodes EXCEPT ![n] = nh]
    BY <1>1, WithBreaker DEF NodesAfterIsHealthy
  <2> HIDE DEF b
  <2>4. nh \in NodeHealth
    BY <2>2 DEF NodeHealth
  <2>5. NodeInv(nh)
    BY <2>1, <2>2, <1>1 DEF NodeInv
  <2> HIDE DEF nh
  <2> QED
    BY <2>3, <2>4, <2>5, NodeUpdate
<1>2. CASE ~nodes[n].healthy
  BY <1>2 DEF NodesAfterIsHealthy, HealthInv, NodeInv
<1> QED
  BY <1>1, <1>2

\* Time passing.
LEMMA TimeoutKeeps ==
  ASSUME nodes \in [Nodes -> NodeHealth], HealthInv, NEW n \in Nodes,
         nodes' = [nodes EXCEPT ![n].breaker = AfterTimeout(@)]
  PROVE  nodes' \in [Nodes -> NodeHealth] /\ HealthInv'
<1> DEFINE b == AfterTimeout(nodes[n].breaker)
           nh == [healthy |-> nodes[n].healthy, breaker |-> b]
<1>1. /\ nodes[n].breaker \in Breaker
      /\ nodes[n] = [healthy |-> nodes[n].healthy, breaker |-> nodes[n].breaker]
      /\ NodeInv(nodes[n])
  BY DEF NodeHealth, HealthInv
<1>2. /\ b \in Breaker
      /\ b.failures = nodes[n].breaker.failures
      /\ b.state = nodes[n].breaker.state
  BY <1>1, AfterTimeoutFacts
<1>3. nodes' = [nodes EXCEPT ![n] = nh]
  BY WithBreaker
<1> HIDE DEF b
<1>4. nh \in NodeHealth
  BY <1>1, <1>2 DEF NodeHealth
<1>5. NodeInv(nh)
  BY <1>1, <1>2 DEF NodeInv
<1> HIDE DEF nh
<1> QED
  BY <1>3, <1>4, <1>5, NodeUpdate

-----------------------------------------------------------------------------
(* The invariants of HealthChecker. *)

IInv == HealthTypeOK /\ HealthInv

LEMMA HealthInitHolds == HealthInit => IInv
<1> SUFFICES ASSUME HealthInit PROVE IInv
  OBVIOUS
<1>1. nodes \in [Nodes -> NodeHealth]
  BY NewBreakerType DEF HealthInit, NodeHealth
<1>2. HealthTypeOK
  BY <1>1 DEF HealthInit, HealthTypeOK, ProbeState, RpcState
<1>3. HealthInv
  BY ThresholdAssumption
  DEF HealthInit, HealthInv, NodeInv, NewCircuitBreaker, StateClosed, StateOpen
<1> QED
  BY <1>2, <1>3 DEF IInv

\* A step that leaves every belief alone keeps them good.
LEMMA UnchangedNodes ==
  ASSUME HealthInv, UNCHANGED nodes PROVE HealthInv'
BY DEF HealthInv, NodeInv

LEMMA HealthStepKeeps == IInv /\ [HealthNext]_healthVars => IInv'
<1> SUFFICES ASSUME IInv, [HealthNext]_healthVars PROVE IInv'
  OBVIOUS
<1> USE DEF IInv
<1>0. /\ up \in [Nodes -> BOOLEAN]
      /\ nodes \in [Nodes -> NodeHealth]
      /\ loop \in {"running", "cancelled", "exited"}
      /\ probe \in [Nodes -> ProbeState]
      /\ rpc \in [Callers -> [Nodes -> RpcState]]
      /\ HealthInv
  BY DEF HealthTypeOK
<1>1. ASSUME NEW n \in Nodes, NEW broken \in SUBSET Callers, NodeDown(n, broken)
      PROVE  IInv'
  <2>1. rpc' \in [Callers -> [Nodes -> RpcState]]
    <3>1. ASSUME NEW c \in Callers
          PROVE  [rpc[c] EXCEPT ![n] = "err"] \in [Nodes -> RpcState]
      BY <1>0 DEF RpcState
    <3> QED
      BY <1>0, <1>1, <3>1 DEF NodeDown
  <2> QED
    BY <1>0, <1>1, <2>1, UnchangedNodes DEF NodeDown, HealthTypeOK
<1>2. ASSUME NEW n \in Nodes, NodeUp(n) PROVE IInv'
  BY <1>0, <1>2, UnchangedNodes DEF NodeUp, HealthTypeOK
<1>3. ASSUME NEW n \in Nodes, TimeoutElapses(n) PROVE IInv'
  <2>1. nodes' \in [Nodes -> NodeHealth] /\ HealthInv'
    BY <1>0, <1>3, TimeoutKeeps DEF TimeoutElapses
  <2> QED
    BY <1>0, <1>3, <2>1 DEF TimeoutElapses, HealthTypeOK
<1>4. ASSUME CheckAll PROVE IInv'
  BY <1>0, <1>4, UnchangedNodes DEF CheckAll, HealthTypeOK, ProbeState
<1>5. ASSUME NEW n \in Nodes, ProbeReturns(n) PROVE IInv'
  BY <1>0, <1>5, UnchangedNodes DEF ProbeReturns, HealthTypeOK, ProbeState
<1>6. ASSUME NEW n \in Nodes, CheckNode(n) PROVE IInv'
  <2>1. nodes' \in [Nodes -> NodeHealth] /\ HealthInv'
    BY <1>0, <1>6, RecordProbeKeeps DEF CheckNode
  <2>2. probe' \in [Nodes -> ProbeState]
    BY <1>0, <1>6 DEF CheckNode, ProbeState
  <2> QED
    BY <1>0, <1>6, <2>1, <2>2 DEF CheckNode, HealthTypeOK
<1>7. ASSUME Stop PROVE IInv'
  BY <1>0, <1>7, UnchangedNodes DEF Stop, HealthTypeOK
<1>8. ASSUME LoopExits PROVE IInv'
  BY <1>0, <1>8, UnchangedNodes DEF LoopExits, HealthTypeOK
<1>9. ASSUME NEW c \in Callers, NEW n \in Nodes, SendRpc(c, n) PROVE IInv'
  <2>1. nodes' \in [Nodes -> NodeHealth] /\ HealthInv'
    BY <1>0, <1>9, IsHealthyKeeps DEF SendRpc
  <2>2. rpc' \in [Callers -> [Nodes -> RpcState]]
    BY <1>0, <1>9 DEF SendRpc, RpcState
  <2> QED
    BY <1>0, <1>9, <2>1, <2>2 DEF SendRpc, HealthTypeOK
<1>10. ASSUME NEW c \in Callers, NEW n \in Nodes, NEW st \in {"ok", "rejected", "err"},
              RpcReturns(c, n, st)
       PROVE  IInv'
  <2>1. rpc' \in [Callers -> [Nodes -> RpcState]]
    <3>1. [rpc[c] EXCEPT ![n] = st] \in [Nodes -> RpcState]
      BY <1>0 DEF RpcState
    <3>2. rpc' = [rpc EXCEPT ![c] = [rpc[c] EXCEPT ![n] = st]]
      BY <1>10 DEF RpcReturns
    <3> QED
      BY <1>0, <3>1, <3>2
  <2> QED
    BY <1>0, <1>10, <2>1, UnchangedNodes DEF RpcReturns, HealthTypeOK
<1>11. ASSUME NEW c \in Callers, NEW n \in Nodes, ReportRpc(c, n) PROVE IInv'
  <2>1. nodes' \in [Nodes -> NodeHealth] /\ HealthInv'
    <3>1. CASE rpc[c][n] = "ok"
      BY <1>0, <1>11, <3>1, RecordSuccessKeeps DEF ReportRpc
    <3>2. CASE rpc[c][n] = "err"
      BY <1>0, <1>11, <3>2, RecordFailureKeeps DEF ReportRpc
    <3>3. CASE rpc[c][n] = "rejected"
      BY <1>0, <1>11, <3>3, UnchangedNodes DEF ReportRpc
    <3> QED
      BY <1>11, <3>1, <3>2, <3>3 DEF ReportRpc
  <2>2. rpc' \in [Callers -> [Nodes -> RpcState]]
    BY <1>0, <1>11 DEF ReportRpc, RpcState
  <2> QED
    BY <1>0, <1>11, <2>1, <2>2 DEF ReportRpc, HealthTypeOK
<1>12. CASE UNCHANGED healthVars
  BY <1>0, <1>12, UnchangedNodes DEF healthVars, HealthTypeOK
<1> QED
  BY <1>1, <1>2, <1>3, <1>4, <1>5, <1>6, <1>7, <1>8, <1>9, <1>10, <1>11, <1>12
  DEF HealthNext, ProbeStep

\* Both invariants, and the types, hold in every reachable state, however the probes, the
\* reports of RPCs and the clock interleave.
THEOREM HealthInvariant == HealthSafety => []IInv
<1>1. HealthInit => IInv
  BY HealthInitHolds
<1>2. IInv /\ [HealthNext]_healthVars => IInv'
  BY HealthStepKeeps
<1> QED
  BY <1>1, <1>2, PTL DEF HealthSafety

\* The variables keep their types for any cluster.
THEOREM HealthTypes == HealthSafety => []HealthTypeOK
<1>1. IInv => HealthTypeOK
  BY DEF IInv
<1> QED
  BY <1>1, HealthInvariant, PTL

\* No interleaving of reports, probes and Allow leaves a closed breaker at its threshold,
\* and Healthy and the breaker, written by different methods, agree about every node.
THEOREM HealthStaysConsistent == HealthSafety => []HealthIsConsistent
<1>1. IInv => HealthIsConsistent
  BY DEF IInv, HealthInv, NodeInv, HealthIsConsistent, ClosedBelowThreshold,
         HealthMatchesBreaker
<1> QED
  BY <1>1, HealthInvariant, PTL

-----------------------------------------------------------------------------
(* The insert path. *)

\* A node that the loop has not reached was sent nothing.
TodoIsUnsent ==
  \A c \in Callers : \A n \in todo[c] : call[c] = "selecting" /\ net[c][n] = "none"

\* A call that has not begun has sent nothing.
IdleIsUnsent == \A c \in Callers : call[c] = "idle" => \A n \in Nodes : net[c][n] = "none"

\* Only the owner of a sample's partition stores it, and only if it has a sketch.
StoredOnPrimary ==
  /\ \A n \in Nodes : \A c \in store[n] : c \in Sketched /\ n = Primary(c)
  /\ lost \subseteq Sketched

\* A sample is stored when the primary serves its request, which it does once.
HeldIsServed ==
  \A c \in Callers : Held(c) => net[c][Primary(c)] \notin {"none", "sent"}

\* Everything on the way back that counts as a success stands for a stored sample.
SuccessIsHeld ==
  \A c \in Sketched :
    /\ \A n \in Nodes : net[c][n] = "ok" \/ rpc[c][n] = "ok" => Held(c)
    /\ accepted[c] \/ call[c] = "acked" => Held(c)

RequestInv == TodoIsUnsent /\ IdleIsUnsent /\ StoredOnPrimary /\ HeldIsServed /\ SuccessIsHeld

\* The inductive invariant; IInv is that of the health checker.
RouterInv == TypeOK /\ IInv /\ RequestInv

-----------------------------------------------------------------------------
\* Each partition has an owner, and one only.
LEMMA PrimaryIsOwner ==
  ASSUME NEW c \in Callers
  PROVE  /\ Primary(c) \in Nodes
         /\ \A n \in Nodes : OwnsPartition(n, PartitionOf[c]) => n = Primary(c)
<1> DEFINE p == PartitionOf[c]
<1>1. p \in Partitions /\ PNodes = Nodes
  BY RouterAssumption
<1>2. \E n \in PNodes : OwnsPartition(n, p)
  BY <1>1, RouterAssumption DEF AcceptedByNewPartitionMapper
<1>3. GetPrimaryNode(p) \in PNodes /\ OwnsPartition(GetPrimaryNode(p), p)
  BY <1>2 DEF GetPrimaryNode
<1>4. \A m, n \in PNodes : OwnsPartition(m, p) /\ OwnsPartition(n, p) => m = n
  BY <1>1, RouterAssumption DEF AcceptedByNewPartitionMapper
<1> QED
  BY <1>1, <1>3, <1>4 DEF Primary

LEMMA TargetsAreNodes == \A c \in Callers : Targets(c) \subseteq Nodes
BY RouterAssumption DEF Targets, GetNodesForPartition

LEMMA InitHolds == Init => RouterInv
<1> SUFFICES ASSUME Init PROVE RouterInv
  OBVIOUS
<1>1. IInv
  BY HealthInitHolds DEF Init
<1>2. TypeOK
  BY <1>1, RouterAssumption DEF IInv, Init, TypeOK, NetState
<1>3. RequestInv
  <2>1. \A c \in Callers, n \in Nodes : rpc[c][n] = "none"
    BY DEF Init, HealthInit
  <2> QED
    BY <2>1, PrimaryIsOwner, RouterAssumption
    DEF Init, RequestInv, TodoIsUnsent, IdleIsUnsent, StoredOnPrimary, HeldIsServed,
        SuccessIsHeld, Held
<1> QED
  BY <1>1, <1>2, <1>3 DEF RouterInv

-----------------------------------------------------------------------------
\* Every step of the composition is a step of the health checker or leaves it alone.
LEMMA HealthStep ==
  ASSUME TypeOK, [Next]_vars
  PROVE  [HealthNext]_healthVars
<1>1. \A c \in Callers : NextTargets(c) \subseteq Nodes
  BY DEF TypeOK, NextTargets
<1>2. ASSUME NEW c \in Callers, InsertStep(c) PROVE [HealthNext]_healthVars
  <2>1. CASE Insert(c) \/ Finish(c)
    BY <2>1 DEF Insert, Finish
  <2>2. CASE \E n \in NextTargets(c) : SendToTarget(c, n) \/ SkipTarget(c, n)
    BY <1>1, <2>2 DEF SendToTarget, SkipTarget, HealthNext
  <2>3. CASE \E n \in Nodes, st \in RpcState : Returns(c, n, st)
    BY <2>3 DEF Returns, RpcReturns, HealthNext
  <2>4. CASE \E n \in Nodes : Reports(c, n)
    BY <2>4 DEF Reports, HealthNext
  <2> QED
    BY <1>2, <2>1, <2>2, <2>3, <2>4 DEF InsertStep
<1>3. ASSUME NEW c \in Callers, NEW n \in Nodes, ServeInsert(c, n)
      PROVE  [HealthNext]_healthVars
  BY <1>3 DEF ServeInsert
<1>4. ASSUME NEW n \in Nodes, Crash(n) \/ Disconnect(n) \/ Reconnect(n)
      PROVE  [HealthNext]_healthVars
  BY <1>4 DEF Crash, Disconnect, Reconnect, HealthNext
<1>5. CASE CheckerStep
  BY <1>5 DEF CheckerStep, HealthNext
<1>6. CASE UNCHANGED vars
  BY <1>6 DEF vars
<1> QED
  BY <1>2, <1>3, <1>4, <1>5, <1>6 DEF Next

-----------------------------------------------------------------------------
LEMMA NetUpdate ==
  ASSUME net \in [Callers -> [Nodes -> NetState]],
         NEW c \in Callers, NEW n \in Nodes, NEW st \in NetState,
         net' = [net EXCEPT ![c][n] = st]
  PROVE  net' \in [Callers -> [Nodes -> NetState]]
<1>1. [net[c] EXCEPT ![n] = st] \in [Nodes -> NetState]
  OBVIOUS
<1>2. net' = [net EXCEPT ![c] = [net[c] EXCEPT ![n] = st]]
  OBVIOUS
<1> QED
  BY <1>1, <1>2

LEMMA TypeStep ==
  ASSUME TypeOK, HealthTypeOK', [Next]_vars
  PROVE  TypeOK'
<1>1. ASSUME NEW c \in Callers, InsertStep(c) PROVE TypeOK'
  <2>1. CASE Insert(c)
    BY <2>1, TargetsAreNodes DEF Insert, TypeOK
  <2>2. CASE \E n \in NextTargets(c) : SendToTarget(c, n) \/ SkipTarget(c, n)
    <3>1. PICK n \in NextTargets(c) : SendToTarget(c, n) \/ SkipTarget(c, n)
      BY <2>2
    <3>2. n \in Nodes /\ todo' = [todo EXCEPT ![c] = @ \ {n}]
      BY <3>1 DEF NextTargets, TypeOK, SendToTarget, SkipTarget
    <3>3. net' = [net EXCEPT ![c][n] = "sent"] \/ net' = net
      BY <3>1 DEF SendToTarget, SkipTarget
    <3>4. todo' \in [Callers -> SUBSET Nodes]
      BY <3>2 DEF TypeOK
    <3>5. "sent" \in NetState
      BY DEF NetState
    <3>6. net' \in [Callers -> [Nodes -> NetState]]
      BY <3>2, <3>3, <3>5, NetUpdate DEF TypeOK
    <3>7. UNCHANGED <<call, accepted, store, lost, outages, rounds>>
      BY <3>1 DEF SendToTarget, SkipTarget
    <3> QED
      BY <3>4, <3>6, <3>7 DEF TypeOK
  <2>3. CASE \E n \in Nodes, st \in RpcState : Returns(c, n, st)
    BY <2>3 DEF Returns, routerVars, TypeOK
  <2>4. CASE \E n \in Nodes : Reports(c, n)
    BY <2>4 DEF Reports, TypeOK
  <2>5. CASE Finish(c)
    BY <2>5 DEF Finish, TypeOK
  <2> QED
    BY <1>1, <2>1, <2>2, <2>3, <2>4, <2>5 DEF InsertStep
<1>2. ASSUME NEW c \in Callers, NEW n \in Nodes, ServeInsert(c, n) PROVE TypeOK'
  <2>1. net' \in {[net EXCEPT ![c][n] = "ok"], [net EXCEPT ![c][n] = "rejected"]}
    BY <1>2 DEF ServeInsert
  <2>2. net' \in [Callers -> [Nodes -> NetState]]
    <3>1. "ok" \in NetState /\ "rejected" \in NetState
      BY DEF NetState
    <3> QED
      BY <2>1, <3>1, NetUpdate DEF TypeOK
  <2>3. store' = store \/ store' = [store EXCEPT ![n] = @ \cup {c}]
    BY <1>2 DEF ServeInsert
  <2>4. store' \in [Nodes -> SUBSET Callers]
    BY <2>3 DEF TypeOK
  <2>5. UNCHANGED <<call, todo, accepted, lost, outages, rounds>>
    BY <1>2 DEF ServeInsert
  <2> QED
    BY <2>2, <2>4, <2>5 DEF TypeOK
<1>3. ASSUME NEW n \in Nodes, Crash(n) PROVE TypeOK'
  <2>1. /\ store' \in [Nodes -> SUBSET Callers] /\ lost' \subseteq Callers
        /\ outages' \in 0..MaxOutages
    BY <1>3, RouterAssumption DEF Crash, TypeOK
  <2>2. net' \in [Callers -> [Nodes -> NetState]]
    BY <1>3 DEF Crash, TypeOK, NetState
  <2> QED
    BY <1>3, <2>1, <2>2 DEF Crash, TypeOK
<1>4. ASSUME NEW n \in Nodes, Disconnect(n) \/ Reconnect(n) PROVE TypeOK'
  BY <1>4, RouterAssumption DEF Disconnect, Reconnect, routerVars, TypeOK
<1>5. CASE CheckerStep
  BY <1>5, RouterAssumption DEF CheckerStep, routerVars, TypeOK
<1>6. CASE UNCHANGED vars
  BY <1>6 DEF vars, routerVars, TypeOK
<1> QED
  BY <1>1, <1>2, <1>3, <1>4, <1>5, <1>6 DEF Next

-----------------------------------------------------------------------------
(* The steps of a request. *)

\* A step that moves no request and no sample, and lets no RPC succeed, changes nothing
\* of what RequestInv relates.
LEMMA OtherSteps ==
  ASSUME RequestInv, UNCHANGED <<call, todo, accepted, net, store, lost>>,
         \A c \in Callers, n \in Nodes : rpc'[c][n] = "ok" =>
            rpc[c][n] = "ok" \/ net[c][n] = "ok"
  PROVE  RequestInv'
<1>1. Sketched \subseteq Callers
  BY RouterAssumption
<1> QED
  BY <1>1 DEF RequestInv, TodoIsUnsent, IdleIsUnsent, StoredOnPrimary, HeldIsServed,
              SuccessIsHeld, Held

LEMMA InsertKeeps ==
  ASSUME RouterInv, NEW c \in Callers, Insert(c)
  PROVE  RequestInv'
<1>1. TodoIsUnsent'
  BY TargetsAreNodes DEF RouterInv, TypeOK, RequestInv, TodoIsUnsent, IdleIsUnsent, Insert
<1>2. IdleIsUnsent'
  BY DEF RouterInv, TypeOK, RequestInv, IdleIsUnsent, Insert
<1>3. SuccessIsHeld'
  BY RouterAssumption
  DEF RouterInv, TypeOK, RequestInv, SuccessIsHeld, Held, Insert, healthVars
<1> QED
  BY <1>1, <1>2, <1>3
  DEF RouterInv, RequestInv, StoredOnPrimary, HeldIsServed, Held, Insert

\* The RPC is the first one of the call to that node, so its sample is not stored yet.
LEMMA SendKeeps ==
  ASSUME RouterInv, NEW c \in Callers, NEW n \in NextTargets(c), SendToTarget(c, n)
  PROVE  RequestInv'
<1>1. n \in todo[c] /\ n \in Nodes
  BY DEF NextTargets, RouterInv, TypeOK
<1>2. /\ call[c] = "selecting" /\ net[c][n] = "none"
      /\ todo' = [todo EXCEPT ![c] = @ \ {n}]
      /\ net' = [net EXCEPT ![c][n] = "sent"]
      /\ UNCHANGED <<call, accepted, store, lost>>
  BY <1>1 DEF SendToTarget, RouterInv, RequestInv, TodoIsUnsent
<1>3. \A d \in Callers, m \in Nodes : rpc'[d][m] = "ok" => rpc[d][m] = "ok"
  BY DEF SendToTarget, SendRpc, RouterInv, TypeOK, HealthTypeOK
<1>4. \A d \in Callers, m \in Nodes : net'[d][m] = net[d][m] \/ (d = c /\ m = n)
  BY <1>1, <1>2 DEF RouterInv, TypeOK
<1>5. ~Held(c) \/ n # Primary(c)
  BY <1>2 DEF RouterInv, RequestInv, HeldIsServed
<1>6. TodoIsUnsent' /\ IdleIsUnsent'
  BY <1>1, <1>2, <1>4 DEF RouterInv, TypeOK, RequestInv, TodoIsUnsent, IdleIsUnsent
<1>7. StoredOnPrimary' /\ HeldIsServed'
  BY <1>1, <1>2, <1>4, <1>5, PrimaryIsOwner
  DEF RouterInv, RequestInv, StoredOnPrimary, HeldIsServed, Held
<1>8. SuccessIsHeld'
  BY <1>1, <1>2, <1>3, <1>4, RouterAssumption
  DEF RouterInv, TypeOK, RequestInv, SuccessIsHeld, Held
<1> QED
  BY <1>6, <1>7, <1>8 DEF RequestInv

LEMMA SkipKeeps ==
  ASSUME RouterInv, NEW c \in Callers, NEW n \in NextTargets(c), SkipTarget(c, n)
  PROVE  RequestInv'
<1>1. TodoIsUnsent'
  BY DEF RouterInv, TypeOK, RequestInv, TodoIsUnsent, SkipTarget
<1> QED
  BY <1>1
  DEF RouterInv, RequestInv, IdleIsUnsent, StoredOnPrimary, HeldIsServed, SuccessIsHeld,
      Held, SkipTarget, healthVars

\* A response only brings back what the server answered.
LEMMA ReturnsKeep ==
  ASSUME RouterInv, NEW c \in Callers, NEW n \in Nodes, NEW st \in RpcState,
         Returns(c, n, st)
  PROVE  RequestInv'
<1>1. \A d \in Callers, m \in Nodes :
        rpc'[d][m] = "ok" => rpc[d][m] = "ok" \/ net[d][m] = "ok"
  BY DEF Returns, RpcReturns, RouterInv, TypeOK, HealthTypeOK
<1>2. UNCHANGED <<call, todo, accepted, net, store, lost>>
  BY DEF Returns, routerVars
<1> QED
  BY <1>1, <1>2, OtherSteps DEF RouterInv

\* A success is counted only for an RPC that succeeded.
LEMMA ReportsKeep ==
  ASSUME RouterInv, NEW c \in Callers, NEW n \in Nodes, Reports(c, n)
  PROVE  RequestInv'
<1>1. /\ accepted' = [accepted EXCEPT ![c] = @ \/ rpc[c][n] = "ok"]
      /\ rpc' = [rpc EXCEPT ![c][n] = "none"]
      /\ UNCHANGED <<call, todo, net, store, lost>>
  BY DEF Reports, ReportRpc
<1>2. \A d \in Callers, m \in Nodes : rpc'[d][m] = "ok" => rpc[d][m] = "ok"
  BY <1>1 DEF RouterInv, TypeOK, HealthTypeOK
<1>3. \A d \in Callers : accepted'[d] => accepted[d] \/ (d = c /\ rpc[c][n] = "ok")
  BY <1>1 DEF RouterInv, TypeOK
<1>4. SuccessIsHeld'
  BY <1>1, <1>2, <1>3, RouterAssumption
  DEF RouterInv, RequestInv, SuccessIsHeld, Held
<1> QED
  BY <1>1, <1>4
  DEF RouterInv, RequestInv, TodoIsUnsent, IdleIsUnsent, StoredOnPrimary, HeldIsServed, Held

LEMMA FinishKeeps ==
  ASSUME RouterInv, NEW c \in Callers, Finish(c)
  PROVE  RequestInv'
<1>1. /\ call[c] = "selecting" /\ todo[c] = {}
      /\ call' = [call EXCEPT ![c] = IF accepted[c] THEN "acked" ELSE "failed"]
      /\ UNCHANGED <<rpc, todo, accepted, net, store, lost>>
  BY DEF Finish, healthVars
<1>2. \A d \in Callers : /\ call'[d] = "idle" => call[d] = "idle"
                         /\ call'[d] = "acked" => call[d] = "acked" \/ accepted[d]
                         /\ d # c => call'[d] = call[d]
  BY <1>1 DEF RouterInv, TypeOK
<1>3. TodoIsUnsent' /\ IdleIsUnsent'
  BY <1>1, <1>2 DEF RouterInv, RequestInv, TodoIsUnsent, IdleIsUnsent
<1>4. SuccessIsHeld'
  BY <1>1, <1>2, RouterAssumption DEF RouterInv, RequestInv, SuccessIsHeld, Held
<1> QED
  BY <1>1, <1>3, <1>4
  DEF RouterInv, RequestInv, StoredOnPrimary, HeldIsServed, Held

(* The steps of a node. *)

\* What the server does with a request, with the sample's owner made explicit.
LEMMA ServeFacts ==
  ASSUME RouterInv, NEW c \in Callers, NEW n \in Nodes, ServeInsert(c, n)
  PROVE  /\ net[c][n] = "sent" /\ net'[c][n] \in {"ok", "rejected"}
         /\ \A d \in Callers, m \in Nodes : d # c \/ m # n => net'[d][m] = net[d][m]
         /\ \A m \in Nodes : store[m] \subseteq store'[m]
         /\ \A m \in Nodes : \A d \in store'[m] :
              d \in store[m] \/ (d = c /\ m = n /\ c \in Sketched /\ n = Primary(c))
         /\ c \in Sketched /\ net'[c][n] = "ok" => n = Primary(c) /\ c \in store'[n]
<1>1. net[c][n] = "sent"
  BY DEF ServeInsert
<1>2. /\ net' \in {[net EXCEPT ![c][n] = "ok"], [net EXCEPT ![c][n] = "rejected"]}
      /\ store' = store \/ store' = [store EXCEPT ![n] = @ \cup {c}]
  BY DEF ServeInsert
<1>3. /\ net'[c][n] \in {"ok", "rejected"}
      /\ \A d \in Callers, m \in Nodes : d # c \/ m # n => net'[d][m] = net[d][m]
  BY <1>2 DEF RouterInv, TypeOK
<1>4. CASE store' = store
  <2>1. c \in Sketched => net'[c][n] = "rejected" \/ c \in store'[n]
    BY <1>4 DEF ServeInsert, RouterInv, TypeOK
  <2>2. c \in store'[n] => n = Primary(c)
    BY <1>4 DEF RouterInv, RequestInv, StoredOnPrimary
  <2> QED
    BY <1>1, <1>3, <1>4, <2>1, <2>2
<1>5. CASE store' # store
  <2>1. /\ c \in Sketched /\ OwnsPartition(n, PartitionOf[c])
        /\ store' = [store EXCEPT ![n] = @ \cup {c}]
    BY <1>5 DEF ServeInsert
  <2>2. n = Primary(c)
    BY <2>1, PrimaryIsOwner
  <2>3. \A m \in Nodes : store'[m] = IF m = n THEN store[m] \cup {c} ELSE store[m]
    BY <2>1 DEF RouterInv, TypeOK
  <2> QED
    BY <1>1, <1>3, <2>1, <2>2, <2>3
<1> QED
  BY <1>4, <1>5

LEMMA ServeKeeps ==
  ASSUME RouterInv, NEW c \in Callers, NEW n \in Nodes, ServeInsert(c, n)
  PROVE  RequestInv'
<1>1. UNCHANGED <<rpc, call, todo, accepted, lost>>
  BY DEF ServeInsert, healthVars
<1>2. \A d \in Callers : Held(d) => Held(d)'
  BY <1>1, ServeFacts, PrimaryIsOwner DEF Held
<1>3. TodoIsUnsent' /\ IdleIsUnsent'
  <2>1. \A d \in Callers, m \in Nodes : net[d][m] = "none" => net'[d][m] = "none"
    BY ServeFacts
  <2> QED
    BY <1>1, <2>1 DEF RouterInv, TypeOK, RequestInv, TodoIsUnsent, IdleIsUnsent
<1>4. StoredOnPrimary'
  BY <1>1, ServeFacts DEF RouterInv, RequestInv, StoredOnPrimary
<1>5. HeldIsServed'
  <2> SUFFICES ASSUME NEW d \in Callers, Held(d)'
               PROVE  net'[d][Primary(d)] \notin {"none", "sent"}
    BY DEF HeldIsServed
  <2>1. CASE Held(d)
    BY <2>1, ServeFacts, PrimaryIsOwner DEF RouterInv, RequestInv, HeldIsServed
  <2>2. CASE ~Held(d)
    BY <1>1, <2>2, ServeFacts, PrimaryIsOwner DEF Held
  <2> QED
    BY <2>1, <2>2
<1>6. SuccessIsHeld'
  <2> SUFFICES ASSUME NEW d \in Sketched
               PROVE  /\ \A m \in Nodes : net'[d][m] = "ok" \/ rpc'[d][m] = "ok" => Held(d)'
                      /\ accepted'[d] \/ call'[d] = "acked" => Held(d)'
    BY DEF SuccessIsHeld
  <2>1. d \in Callers
    BY RouterAssumption
  <2>2. ASSUME NEW m \in Nodes, net'[d][m] = "ok" PROVE Held(d)'
    <3>1. CASE d = c /\ m = n
      BY <2>2, <3>1, ServeFacts DEF Held
    <3>2. CASE ~(d = c /\ m = n)
      BY <1>2, <2>1, <2>2, <3>2, ServeFacts DEF RouterInv, RequestInv, SuccessIsHeld
    <3> QED
      BY <3>1, <3>2
  <2> QED
    BY <1>1, <1>2, <2>1, <2>2 DEF RouterInv, RequestInv, SuccessIsHeld
<1> QED
  BY <1>3, <1>4, <1>5, <1>6 DEF RequestInv

\* A crash moves samples from the store to those lost, and ends what was under way.
LEMMA CrashKeeps ==
  ASSUME RouterInv, NEW n \in Nodes, Crash(n)
  PROVE  RequestInv'
<1>1. /\ \A d \in Callers, m \in Nodes :
           net'[d][m] = IF m = n /\ net[d][m] # "none" THEN "lost" ELSE net[d][m]
      /\ \A m \in Nodes : store'[m] = IF m = n THEN {} ELSE store[m]
      /\ lost' = lost \cup store[n]
      /\ UNCHANGED <<call, todo, accepted>>
  BY DEF Crash, RouterInv, TypeOK
<1>2. \A d \in Callers, m \in Nodes : rpc'[d][m] = "ok" => rpc[d][m] = "ok"
  BY DEF Crash, NodeDown, RouterInv, TypeOK, HealthTypeOK
<1>3. \A d \in Callers : Held(d)' <=> Held(d)
  <2> SUFFICES ASSUME NEW d \in Callers PROVE Held(d)' <=> Held(d)
    OBVIOUS
  <2>1. d \in store[n] => n = Primary(d)
    BY DEF RouterInv, RequestInv, StoredOnPrimary
  <2> QED
    BY <1>1, <2>1, PrimaryIsOwner DEF Held
<1>4. TodoIsUnsent' /\ IdleIsUnsent'
  BY <1>1 DEF RouterInv, TypeOK, RequestInv, TodoIsUnsent, IdleIsUnsent
<1>5. StoredOnPrimary'
  BY <1>1 DEF RouterInv, RequestInv, StoredOnPrimary
<1>6. HeldIsServed'
  BY <1>1, <1>3, PrimaryIsOwner DEF RouterInv, RequestInv, HeldIsServed
<1>7. SuccessIsHeld'
  BY <1>1, <1>2, <1>3, RouterAssumption DEF RouterInv, RequestInv, SuccessIsHeld
<1> QED
  BY <1>4, <1>5, <1>6, <1>7 DEF RequestInv

\* A disconnection ends RPCs, with an error; the requests stay with the server.
LEMMA DisconnectKeeps ==
  ASSUME RouterInv, NEW n \in Nodes, Disconnect(n)
  PROVE  RequestInv'
<1>1. \A d \in Callers, m \in Nodes : rpc'[d][m] = "ok" => rpc[d][m] = "ok"
  BY DEF Disconnect, NodeDown, RouterInv, TypeOK, HealthTypeOK
<1> QED
  BY <1>1, OtherSteps DEF RouterInv, Disconnect

LEMMA CheckerKeeps ==
  ASSUME RouterInv, CheckerStep \/ (\E n \in Nodes : Reconnect(n)) \/ UNCHANGED vars
  PROVE  RequestInv'
<1>1. UNCHANGED <<rpc, call, todo, accepted, net, store, lost>>
  BY DEF CheckerStep, CheckAll, ProbeStep, ProbeReturns, CheckNode, TimeoutElapses, Reconnect,
         NodeUp, routerVars, vars, healthVars
<1> QED
  BY <1>1, OtherSteps DEF RouterInv

-----------------------------------------------------------------------------
LEMMA NextKeeps == RouterInv /\ [Next]_vars => RouterInv'
<1> SUFFICES ASSUME RouterInv, [Next]_vars PROVE RouterInv'
  OBVIOUS
<1>1. IInv'
  BY HealthStep, HealthStepKeeps DEF RouterInv
<1>2. TypeOK'
  BY <1>1, TypeStep DEF RouterInv, IInv
<1>3. RequestInv'
  <2>1. ASSUME NEW c \in Callers, InsertStep(c) PROVE RequestInv'
    BY <2>1, InsertKeeps, SendKeeps, SkipKeeps, ReturnsKeep, ReportsKeep, FinishKeeps
    DEF InsertStep
  <2> QED
    BY <2>1, ServeKeeps, CrashKeeps, DisconnectKeeps, CheckerKeeps DEF Next
<1> QED
  BY <1>1, <1>2, <1>3 DEF RouterInv

\* The inductive invariant holds: whatever is on its way back as a success stands for a
\* sample that its primary has stored, once.
THEOREM RouterInvariant == Spec => []RouterInv
  BY InitHolds, NextKeeps, PTL DEF Spec

\* The variables of the composition keep their types.
THEOREM RouterTypes == Spec => []TypeOK
<1>1. RouterInv => TypeOK
  BY DEF RouterInv
<1> QED
  BY <1>1, RouterInvariant, PTL

\* An acknowledged sample that has a sketch reached the node that owns its partition, and
\* is in no other node's sketches.
THEOREM AckedReachedPrimary == Spec => []AckedOnPrimary
<1>1. RouterInv => AckedOnPrimary
  BY RouterAssumption
  DEF RouterInv, RequestInv, SuccessIsHeld, StoredOnPrimary, AckedOnPrimary
<1> QED
  BY <1>1, RouterInvariant, PTL

\* The router, the nodes and the network drive the health checker as its own module
\* allows: what is proved of HealthChecker holds in the composition.
THEOREM ComposesHealthChecker == Spec => HealthSafety
<1>1. Init => HealthInit
  BY DEF Init
<1>2. RouterInv /\ [Next]_vars => [HealthNext]_healthVars
  BY HealthStep DEF RouterInv
<1> QED
  BY <1>1, <1>2, RouterInvariant, PTL DEF Spec, HealthSafety

-----------------------------------------------------------------------------
(* The refinement, under the mapping of the instance Promise. *)

\* A step that moves no sample and no call is no step of the protocol.
LEMMA QuietStep ==
  ASSUME UNCHANGED <<call, store, lost>>
  PROVE  UNCHANGED Promise!promiseVars
BY DEF Promise!promiseVars

LEMMA InitMaps == Init => Promise!Init
<1> SUFFICES ASSUME Init PROVE Promise!Init
  OBVIOUS
<1>1. \A c \in Callers : call[c] = "idle" /\ c \notin store[Primary(c)] /\ c \notin lost
  BY PrimaryIsOwner DEF Init
<1> QED
  BY <1>1 DEF Promise!Init

LEMMA BeginMaps ==
  ASSUME RouterInv, NEW c \in Callers, Insert(c)
  PROVE  Promise!Begin(c)
BY DEF Insert, Promise!Begin, RouterInv, TypeOK

LEMMA FinishMaps ==
  ASSUME RouterInv, NEW c \in Callers, Finish(c)
  PROVE  Promise!Acknowledge(c) \/ Promise!Refuse(c)
<1>1. accepted[c] /\ c \in Sketched => Held(c)
  BY DEF RouterInv, RequestInv, SuccessIsHeld
<1>2. CASE accepted[c]
  BY <1>1, <1>2 DEF Finish, Promise!Acknowledge, RouterInv, TypeOK, Held
<1>3. CASE ~accepted[c]
  BY <1>3 DEF Finish, Promise!Refuse, RouterInv, TypeOK
<1> QED
  BY <1>2, <1>3

\* The server keeps a sample that was never kept, or adds nothing.
LEMMA ServeMaps ==
  ASSUME RouterInv, NEW c \in Callers, NEW n \in Nodes, ServeInsert(c, n)
  PROVE  Promise!Keep(c) \/ UNCHANGED Promise!promiseVars
<1>1. UNCHANGED <<call, lost>>
  BY DEF ServeInsert
<1>2. CASE store' = store
  BY <1>1, <1>2, QuietStep
<1>3. CASE store' # store
  <2>1. store' = [store EXCEPT ![n] = @ \cup {c}] /\ c \in Sketched
    BY <1>3 DEF ServeInsert
  <2>2. n = Primary(c)
    BY <1>3, PrimaryIsOwner DEF ServeInsert
  <2>3. ~Held(c) /\ call[c] # "idle"
    BY <2>2 DEF ServeInsert, RouterInv, RequestInv, HeldIsServed, IdleIsUnsent
  <2> QED
    BY <1>1, <2>1, <2>2, <2>3, PrimaryIsOwner DEF Promise!Keep, RouterInv, TypeOK, Held
<1> QED
  BY <1>2, <1>3

\* A crash loses what the node had kept, all at once.
LEMMA CrashMaps ==
  ASSUME RouterInv, NEW n \in Nodes, Crash(n), NEW S, S = store[n]
  PROVE  Promise!Lose(S)
<1>1. /\ UNCHANGED call
      /\ \A m \in Nodes : store'[m] = IF m = n THEN {} ELSE store[m]
      /\ lost' = lost \cup store[n]
  BY DEF Crash, RouterInv, TypeOK
<1>2. store[n] \subseteq Callers /\ \A c \in store[n] : n = Primary(c)
  BY DEF RouterInv, TypeOK, RequestInv, StoredOnPrimary
<1> QED
  BY <1>1, <1>2, PrimaryIsOwner DEF Promise!Lose

LEMMA NextMaps ==
  ASSUME RouterInv, [Next]_vars
  PROVE  [Promise!Next]_(Promise!promiseVars)
<1>1. ASSUME NEW c \in Callers, InsertStep(c)
      PROVE  [Promise!Next]_(Promise!promiseVars)
  <2>1. CASE Insert(c) \/ Finish(c)
    BY <2>1, BeginMaps, FinishMaps DEF Promise!Next
  <2>2. CASE \E n \in NextTargets(c) : SendToTarget(c, n) \/ SkipTarget(c, n)
    BY <2>2, QuietStep DEF SendToTarget, SkipTarget
  <2>3. CASE \E n \in Nodes, st \in RpcState : Returns(c, n, st)
    BY <2>3, QuietStep DEF Returns, routerVars
  <2>4. CASE \E n \in Nodes : Reports(c, n)
    BY <2>4, QuietStep DEF Reports
  <2> QED
    BY <1>1, <2>1, <2>2, <2>3, <2>4 DEF InsertStep
<1>2. ASSUME NEW c \in Callers, NEW n \in Nodes, ServeInsert(c, n)
      PROVE  [Promise!Next]_(Promise!promiseVars)
  BY <1>2, ServeMaps DEF Promise!Next
<1>3. ASSUME NEW n \in Nodes, Crash(n)
      PROVE  [Promise!Next]_(Promise!promiseVars)
  <2>1. PICK S \in SUBSET Callers : S = store[n]
    BY DEF RouterInv, TypeOK
  <2>2. Promise!Lose(S)
    BY <1>3, <2>1, CrashMaps
  <2> QED
    BY <2>2 DEF Promise!Next
<1>4. ASSUME NEW n \in Nodes, Disconnect(n) \/ Reconnect(n)
      PROVE  [Promise!Next]_(Promise!promiseVars)
  BY <1>4, QuietStep DEF Disconnect, Reconnect, routerVars
<1>5. CASE CheckerStep \/ UNCHANGED vars
  BY <1>5, QuietStep DEF CheckerStep, routerVars, vars
<1> QED
  BY <1>1, <1>2, <1>3, <1>4, <1>5 DEF Next

\* The router, the health checker, the nodes and the network together implement the
\* protocol InsertPromise: what a caller is told about a sample is never more than is true.
THEOREM RouterImplementsPromise == Spec => ImplementsPromise
<1>1. Init => Promise!Init
  BY InitMaps
<1>2. RouterInv /\ [Next]_vars => [Promise!Next]_(Promise!promiseVars)
  BY NextMaps
<1> QED
  BY <1>1, <1>2, RouterInvariant, PTL DEF Spec, ImplementsPromise, Promise!Spec
=============================================================================
