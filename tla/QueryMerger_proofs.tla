-------------------------- MODULE QueryMerger_proofs --------------------------
(***************************************************************************)
(* Proofs about QueryMerger, for any number of nodes, queries, slots and   *)
(* crashes and any requests and series: its slots and counters, what an    *)
(* answer of the sketches is worth, and that it implements QueryPromise.   *)
(***************************************************************************)
EXTENDS QueryMerger, FiniteSetTheorems, TLAPS

\* Each phase has its kind of outcome, and a query has none before it is done.
OutcomeFits ==
  \A q \in Queries :
    /\ phase[q] = "done" <=> response[q].status # "none"
    /\ response[q].source # "none" <=> response[q].status = "success"
    /\ phase[q] \in {"idle", "waiting"} => found[q] = {}
    /\ q \in failed => phase[q] = "done" /\ response[q].source = "none"

\* The queries that take part in each counter.
With(p) == {q \in Queries : phase[q] = p}
From(source) == {q \in Queries : response[q].source = source}

SlotsFit == querySem = Cardinality(InService)

CountersFit ==
  /\ metrics["SketchQueries"] =
       metrics["SketchHits"] + metrics["SketchMisses"] + Cardinality(With("fanout"))
  /\ metrics["SketchHits"] = Cardinality(From("sketch"))
  /\ metrics["BackendQueries"] = metrics["BackendQueryCount"] + Cardinality(With("backend"))
  /\ metrics["BackendQueryCount"] = Cardinality(From("backend")) + Cardinality(failed)

\* A node holds the series of its partitions, and what a query is due is held still.
HeldByOwner ==
  /\ \A n \in Nodes : \A s \in held[n] : OwnerOfLabels(s) = n
  /\ \A q \in Queries : \A s \in due[q] :
       OwnerOfLabels(s) \in Nodes /\ s \in held[OwnerOfLabels(s)]

\* What has been found for q matches its labels, and is all that q is due or the one
\* series that has exactly these labels.
Matching(q, s) == mergerLabels(Info(q)) \subseteq s
Whole(q) ==
  \/ {s \in due[q] : Matching(q, s)} \subseteq found[q]
  \/ found[q] = {mergerLabels(Info(q))}

Fits(q) ==
  /\ \A s \in found[q] : Matching(q, s)
  /\ found[q] # {} /\ Info(q).MetricName # {} => Whole(q)
  /\ response[q].source = "sketch" => response[q].series = found[q] /\ found[q] # {}

FoundFits == \A q \in Queries : Fits(q)

IInv == TypeOK /\ OutcomeFits /\ SlotsFit /\ CountersFit /\ HeldByOwner /\ FoundFits

-----------------------------------------------------------------------------
(* Slots and types *)

LEMMA Finite ==
  ASSUME NEW S, S \subseteq Queries
  PROVE  IsFiniteSet(S) /\ Cardinality(S) \in Nat
BY MergerAssumption, FS_Subset, FS_CardinalityType

LEMMA OneMore ==
  ASSUME NEW S, S \subseteq Queries, NEW T, NEW q, q \notin S, T = S \cup {q}
  PROVE  Cardinality(T) = Cardinality(S) + 1
BY Finite, FS_AddElement

LEMMA OneLess ==
  ASSUME NEW S, S \subseteq Queries, NEW T, NEW q \in S, T = S \ {q}
  PROVE  Cardinality(T) = Cardinality(S) - 1 /\ Cardinality(S) > 0
<1>1. Cardinality(T) = Cardinality(S) - 1
  BY Finite, FS_RemoveElement
<1>2. T \subseteq Queries
  OBVIOUS
<1> QED
  BY <1>1, <1>2, Finite

\* What a node answers.
LEMMA EvalIsHeld ==
  ASSUME TypeOK, NEW n \in Nodes, NEW lbls
  PROVE  EvalWithLabels(n, lbls) \subseteq held[n] /\ held[n] \subseteq Series
BY DEF TypeOK, EvalWithLabels

\* The answer and the counters at the end of a query.
LEMMA AtTheEnd ==
  ASSUME TypeOK, SlotsFit, NEW q \in Queries, phase[q] \in {"fanout", "backend"},
         NEW resp \in Responses, NEW names, End(q, resp, names)
  PROVE  /\ phase' = [phase EXCEPT ![q] = "done"]
         /\ response' = [response EXCEPT ![q] = resp]
         /\ querySem' = querySem - 1 /\ querySem' \in 0..MaxConcurrentQueries
         /\ metrics' \in [Metrics -> Nat]
         /\ SlotsFit'
<1>1. /\ phase' = [phase EXCEPT ![q] = "done"]
      /\ response' = [response EXCEPT ![q] = resp]
      /\ querySem' = querySem - 1
      /\ metrics' = Bump(names \cup Timed(q))
  BY DEF End, Release
<1>2. InService' = InService \ {q} /\ q \in InService /\ InService \subseteq Queries
  BY <1>1 DEF InService, TypeOK
<1>3. Cardinality(InService') = Cardinality(InService) - 1 /\ Cardinality(InService) > 0
  BY <1>2, OneLess
<1>4. querySem' \in 0..MaxConcurrentQueries
  BY <1>1, <1>3, MergerAssumption DEF SlotsFit, TypeOK
<1>5. metrics' \in [Metrics -> Nat]
  BY <1>1 DEF TypeOK, Bump
<1> QED
  BY <1>1, <1>3, <1>4, <1>5 DEF SlotsFit

LEMMA ResponsesAreTyped ==
  ASSUME TypeOK
  PROVE  /\ \A e \in {"bad_data", "execution"} :
              /\ sendError(e) \in Responses
              /\ sendError(e).status = e /\ sendError(e).source = "none"
         /\ \A q \in Queries, o \in {"sketch", "backend"} : \A series \in SUBSET Series :
              /\ sendQueryResult(q, o, series) \in Responses
              /\ sendQueryResult(q, o, series).status = "success"
              /\ sendQueryResult(q, o, series).source = o
              /\ sendQueryResult(q, o, series).series = series
BY DEF sendError, NoResponse, sendQueryResult, buildWarnings, Responses

LEMMA TypeKept ==
  ASSUME TypeOK, SlotsFit, [Next]_vars PROVE TypeOK' /\ SlotsFit'
<1> USE MergerAssumption
<1>1. ASSUME UNCHANGED <<phase, querySem>> PROVE SlotsFit'
  BY <1>1 DEF SlotsFit, InService
<1>2. ASSUME NEW q \in Queries, NEW r \in Requests, Arrive(q, r) PROVE TypeOK' /\ SlotsFit'
  <2>1. TypeOK'
    BY <1>2, ResponsesAreTyped DEF TypeOK, Arrive, nodeVars
  <2>2. InService' = InService
    BY <1>2 DEF Arrive, InService, TypeOK
  <2> QED
    BY <1>2, <2>1, <2>2 DEF SlotsFit, Arrive
<1>3. ASSUME NEW q \in Queries, Leave(q) PROVE TypeOK' /\ SlotsFit'
  BY <1>1, <1>3 DEF TypeOK, Leave, nodeVars
<1>4. ASSUME NEW q \in Queries, GiveUpWaiting(q) PROVE TypeOK' /\ SlotsFit'
  <2>1. TypeOK'
    BY <1>4, ResponsesAreTyped DEF TypeOK, GiveUpWaiting, nodeVars
  <2>2. InService' = InService
    BY <1>4 DEF GiveUpWaiting, InService, TypeOK
  <2> QED
    BY <1>4, <2>1, <2>2 DEF SlotsFit, GiveUpWaiting
<1>5. ASSUME NEW q \in Queries, Acquire(q) PROVE TypeOK' /\ SlotsFit'
  <2>1. found' \in [Queries -> SUBSET Series]
    BY <1>5 DEF TypeOK, Acquire
  <2>2. UNION {held[n] : n \in up} \subseteq Series
    BY DEF TypeOK
  <2>3. metrics' \in [Metrics -> Nat]
    BY <1>5 DEF TypeOK, Acquire, Bump
  <2>4. CASE phase' = [phase EXCEPT ![q] = "done"] /\ UNCHANGED <<querySem, pending, due>>
             /\ response' = [response EXCEPT ![q] = sendError("execution")]
    <3>1. InService' = InService
      BY <1>5, <2>4 DEF Acquire, InService, TypeOK
    <3>2. response' \in [Queries -> Responses]
      BY <2>4, ResponsesAreTyped DEF TypeOK
    <3> QED
      BY <1>5, <2>1, <2>3, <2>4, <3>1, <3>2 DEF SlotsFit, TypeOK, Acquire, nodeVars
  <2>5. CASE /\ \/ phase' = [phase EXCEPT ![q] = "backend"] /\ UNCHANGED <<pending, due>>
                \/ /\ phase' = [phase EXCEPT ![q] = "fanout"]
                   /\ pending' = [pending EXCEPT ![q] = Nodes]
                   /\ due' = [due EXCEPT ![q] = UNION {held[n] : n \in up}]
             /\ querySem' = querySem + 1 /\ UNCHANGED response
    <3>1. InService' = InService \cup {q} /\ q \notin InService
      BY <1>5, <2>5 DEF Acquire, InService, TypeOK
    <3>2. Cardinality(InService') = Cardinality(InService) + 1
      BY <3>1, OneMore DEF InService
    <3>3. querySem' \in 0..MaxConcurrentQueries
      BY <1>5, <2>5 DEF Acquire, TypeOK
    <3>4. phase' \in [Queries -> {"idle", "waiting", "fanout", "backend", "done"}]
      BY <2>5 DEF TypeOK
    <3>5. pending' \in [Queries -> SUBSET Nodes] /\ due' \in [Queries -> SUBSET Series]
      BY <2>2, <2>5 DEF TypeOK
    <3> QED
      BY <1>5, <2>1, <2>3, <2>5, <3>2, <3>3, <3>4, <3>5 DEF SlotsFit, TypeOK, Acquire, nodeVars
  <2> QED
    BY <1>5, <2>4, <2>5 DEF Acquire
<1>6. ASSUME NEW q \in Queries, NEW n \in Nodes, NodeAnswers(q, n) PROVE TypeOK' /\ SlotsFit'
  <2>1. found' \in [Queries -> SUBSET Series]
    BY <1>6, EvalIsHeld DEF TypeOK, NodeAnswers
  <2> QED
    BY <1>1, <1>6, <2>1 DEF TypeOK, NodeAnswers, Answered, nodeVars
<1>7. ASSUME NEW q \in Queries, NEW n \in Nodes, NodeFails(q, n) PROVE TypeOK' /\ SlotsFit'
  BY <1>1, <1>7 DEF TypeOK, NodeFails, Answered, nodeVars
<1>8. ASSUME NEW q \in Queries, NextStep(q) PROVE TypeOK' /\ SlotsFit'
  BY <1>1, <1>8 DEF TypeOK, NextStep, nodeVars
<1>9. ASSUME NEW q \in Queries, Hit(q) PROVE TypeOK' /\ SlotsFit'
  <2> DEFINE resp == sendQueryResult(q, "sketch", found[q])
  <2>1. resp \in Responses
    BY ResponsesAreTyped DEF TypeOK
  <2>2. phase[q] = "fanout" /\ End(q, resp, {"SketchHits"})
    BY <1>9 DEF Hit
  <2> HIDE DEF resp
  <2> QED
    BY <1>9, <2>1, <2>2, AtTheEnd DEF TypeOK, Hit, nodeVars
<1>10. ASSUME NEW q \in Queries, Miss(q) PROVE TypeOK' /\ SlotsFit'
  <2>1. metrics' \in [Metrics -> Nat]
    BY <1>10 DEF TypeOK, Miss, FallBack, Bump
  <2>2. InService' = InService
    BY <1>10 DEF Miss, FallBack, InService, TypeOK
  <2> QED
    BY <1>10, <2>1, <2>2 DEF TypeOK, SlotsFit, Miss, FallBack, nodeVars
<1>11. ASSUME NEW q \in Queries, BackendAnswers(q) PROVE TypeOK' /\ SlotsFit'
  <2> DEFINE resp == sendQueryResult(q, "backend", {})
  <2>1. resp \in Responses
    BY ResponsesAreTyped
  <2>2. phase[q] = "backend" /\ End(q, resp, {"BackendQueryCount"})
    BY <1>11 DEF BackendAnswers
  <2> HIDE DEF resp
  <2> QED
    BY <1>11, <2>1, <2>2, AtTheEnd DEF TypeOK, BackendAnswers, nodeVars
<1>12. ASSUME NEW q \in Queries, BackendFails(q) PROVE TypeOK' /\ SlotsFit'
  <2> DEFINE resp == sendError("execution")
  <2>1. resp \in Responses
    BY ResponsesAreTyped
  <2>2. phase[q] = "backend" /\ End(q, resp, {"BackendQueryCount"})
    BY <1>12 DEF BackendFails
  <2> HIDE DEF resp
  <2> QED
    BY <1>12, <2>1, <2>2, AtTheEnd DEF TypeOK, BackendFails, nodeVars
<1>13. ASSUME NEW s \in Series, Ingest(s) PROVE TypeOK' /\ SlotsFit'
  BY <1>1, <1>13 DEF TypeOK, Ingest
<1>14. ASSUME NEW n \in Nodes, Crash(n) PROVE TypeOK' /\ SlotsFit'
  BY <1>1, <1>14 DEF TypeOK, Crash
<1>15. ASSUME NEW n \in Nodes, Restart(n) PROVE TypeOK' /\ SlotsFit'
  BY <1>1, <1>15 DEF TypeOK, Restart
<1>16. CASE UNCHANGED vars
  BY <1>1, <1>16 DEF TypeOK, vars, nodeVars
<1> QED
  BY <1>2, <1>3, <1>4, <1>5, <1>6, <1>7, <1>8, <1>9, <1>10, <1>11, <1>12, <1>13, <1>14, <1>15,
     <1>16 DEF Next, Serve

-----------------------------------------------------------------------------
(* Outcomes and counters *)

LEMMA OutcomeKept ==
  ASSUME TypeOK, SlotsFit, OutcomeFits, [Next]_vars PROVE OutcomeFits'
<1>1. ASSUME NEW q \in Queries, NEW r \in Requests, Arrive(q, r) PROVE OutcomeFits'
  BY <1>1, ResponsesAreTyped DEF TypeOK, OutcomeFits, Arrive
<1>2. ASSUME NEW q \in Queries, Leave(q) PROVE OutcomeFits'
  BY <1>2 DEF OutcomeFits, Leave
<1>3. ASSUME NEW q \in Queries, GiveUpWaiting(q) PROVE OutcomeFits'
  BY <1>3, ResponsesAreTyped DEF TypeOK, OutcomeFits, GiveUpWaiting
<1>4. ASSUME NEW q \in Queries, Acquire(q) PROVE OutcomeFits'
  <2>1. /\ phase[q] = "waiting" /\ UNCHANGED failed
        /\ found' = [found EXCEPT ![q] = {}]
        /\ \/ /\ phase' = [phase EXCEPT ![q] = "done"]
              /\ response' = [response EXCEPT ![q] = sendError("execution")]
           \/ phase' = [phase EXCEPT ![q] = "backend"] /\ UNCHANGED response
           \/ phase' = [phase EXCEPT ![q] = "fanout"] /\ UNCHANGED response
    BY <1>4 DEF Acquire
  <2> QED
    BY <2>1, ResponsesAreTyped DEF TypeOK, OutcomeFits
<1>5. ASSUME NEW q \in Queries, NEW n \in Nodes, NodeAnswers(q, n) \/ NodeFails(q, n)
      PROVE  OutcomeFits'
  <2>1. /\ phase[q] = "fanout" /\ UNCHANGED <<phase, response, failed>>
        /\ \A d \in Queries \ {q} : found'[d] = found[d]
    BY <1>5 DEF TypeOK, NodeAnswers, NodeFails, Answered
  <2> QED
    BY <2>1 DEF OutcomeFits
<1>6. ASSUME NEW q \in Queries, NextStep(q) PROVE OutcomeFits'
  BY <1>6 DEF OutcomeFits, NextStep
<1>7. ASSUME NEW q \in Queries, NEW o \in {"sketch", "backend"}, NEW series \in SUBSET Series,
             NEW names, phase[q] \in {"fanout", "backend"},
             End(q, sendQueryResult(q, o, series), names), UNCHANGED <<found, failed>>
      PROVE  OutcomeFits'
  <2> DEFINE resp == sendQueryResult(q, o, series)
  <2>1. resp \in Responses /\ resp.status = "success" /\ resp.source = o
    BY ResponsesAreTyped
  <2>2. phase' = [phase EXCEPT ![q] = "done"] /\ response' = [response EXCEPT ![q] = resp]
    BY <1>7 DEF End
  <2> HIDE DEF resp
  <2> QED
    BY <1>7, <2>1, <2>2 DEF TypeOK, OutcomeFits
<1>8. ASSUME NEW q \in Queries, Hit(q) PROVE OutcomeFits'
  BY <1>7, <1>8 DEF TypeOK, Hit
<1>9. ASSUME NEW q \in Queries, Miss(q) PROVE OutcomeFits'
  BY <1>9 DEF TypeOK, OutcomeFits, Miss, FallBack
<1>10. ASSUME NEW q \in Queries, BackendAnswers(q) PROVE OutcomeFits'
  BY <1>7, <1>10 DEF BackendAnswers
<1>11. ASSUME NEW q \in Queries, BackendFails(q) PROVE OutcomeFits'
  <2>1. /\ phase' = [phase EXCEPT ![q] = "done"] /\ UNCHANGED found
        /\ response' = [response EXCEPT ![q] = sendError("execution")]
        /\ failed' = failed \cup {q} /\ phase[q] = "backend"
    BY <1>11 DEF BackendFails, End
  <2> QED
    BY <2>1, ResponsesAreTyped DEF TypeOK, OutcomeFits
<1>12. CASE UNCHANGED <<phase, response, found, failed>>
  BY <1>12 DEF OutcomeFits
<1> QED
  BY <1>1, <1>2, <1>3, <1>4, <1>5, <1>6, <1>8, <1>9, <1>10, <1>11, <1>12
  DEF Next, Serve, Ingest, Crash, Restart, vars

\* Counters change with the sets they count.
LEMMA SameCounts ==
  ASSUME TypeOK, CountersFit, UNCHANGED <<metrics, failed>>,
         With("fanout")' = With("fanout"), With("backend")' = With("backend"),
         From("sketch")' = From("sketch"), From("backend")' = From("backend")
  PROVE  CountersFit'
BY DEF CountersFit

LEMMA CountersKept ==
  ASSUME TypeOK, SlotsFit, OutcomeFits, CountersFit, [Next]_vars PROVE CountersFit'
<1> DEFINE Counted == {"SketchQueries", "SketchHits", "SketchMisses", "BackendQueries",
                       "BackendQueryCount"}
<1>1. /\ Counted \subseteq Metrics
      /\ \A p, o : With(p) \subseteq Queries /\ From(o) \subseteq Queries
      /\ failed \subseteq Queries
  BY DEF TypeOK, Metrics, With, From
<1>2. /\ \A p, o : Cardinality(With(p)) \in Nat /\ Cardinality(From(o)) \in Nat
      /\ Cardinality(failed) \in Nat
  BY <1>1, Finite
<1>3. \A c \in Counted : metrics[c] \in Nat
  BY <1>1 DEF TypeOK
<1>4. ASSUME NEW names, metrics' = Bump(names), NEW c \in Counted
      PROVE  metrics'[c] = metrics[c] + (IF c \in names THEN 1 ELSE 0)
  BY <1>1, <1>4 DEF Bump
<1>5. ASSUME NEW q \in Queries, NEW x \in Counted, metrics' = Bump({x} \cup Timed(q))
      PROVE  \A c \in Counted : metrics'[c] = metrics[c] + (IF c = x THEN 1 ELSE 0)
  <2>1. ASSUME NEW c \in Counted PROVE c \in {x} \cup Timed(q) <=> c = x
    BY DEF Timed
  <2> QED
    BY <1>4, <1>5, <2>1
<1>6. ASSUME NEW q \in Queries, NEW r \in Requests, Arrive(q, r) PROVE CountersFit'
  <2>1. /\ UNCHANGED <<metrics, failed>> /\ phase[q] = "idle"
        /\ \/ phase' = [phase EXCEPT ![q] = "waiting"] /\ UNCHANGED response
           \/ /\ phase' = [phase EXCEPT ![q] = "done"]
              /\ response' = [response EXCEPT ![q] = sendError("bad_data")]
    BY <1>6 DEF Arrive
  <2>2. response[q].source = "none" /\ response[q].status = "none"
    BY <2>1 DEF OutcomeFits, TypeOK, Responses
  <2>3. \A p \in {"fanout", "backend"} : With(p)' = With(p)
    BY <2>1 DEF TypeOK, With
  <2>4. \A o \in {"sketch", "backend"} : From(o)' = From(o)
    BY <2>1, <2>2, ResponsesAreTyped DEF TypeOK, From
  <2> QED
    BY <2>1, <2>3, <2>4, SameCounts
<1>7. ASSUME NEW q \in Queries, GiveUpWaiting(q) PROVE CountersFit'
  <2>1. /\ UNCHANGED <<metrics, failed>> /\ phase[q] = "waiting"
        /\ phase' = [phase EXCEPT ![q] = "done"]
        /\ response' = [response EXCEPT ![q] = sendError("execution")]
    BY <1>7 DEF GiveUpWaiting
  <2>2. response[q].source = "none" /\ response[q].status = "none"
    BY <2>1 DEF OutcomeFits, TypeOK, Responses
  <2>3. \A p \in {"fanout", "backend"} : With(p)' = With(p)
    BY <2>1 DEF TypeOK, With
  <2>4. \A o \in {"sketch", "backend"} : From(o)' = From(o)
    BY <2>1, <2>2, ResponsesAreTyped DEF TypeOK, From
  <2> QED
    BY <2>1, <2>3, <2>4, SameCounts
<1>8. ASSUME NEW q \in Queries, Acquire(q) PROVE CountersFit'
  <2>1. /\ UNCHANGED failed /\ phase[q] = "waiting"
        /\ \/ /\ phase' = [phase EXCEPT ![q] = "done"] /\ metrics' = Bump(Timed(q))
              /\ response' = [response EXCEPT ![q] = sendError("execution")]
           \/ /\ phase' = [phase EXCEPT ![q] = "backend"] /\ metrics' = Bump({"BackendQueries"})
              /\ UNCHANGED response
           \/ /\ phase' = [phase EXCEPT ![q] = "fanout"] /\ metrics' = Bump({"SketchQueries"})
              /\ UNCHANGED response
    BY <1>8 DEF Acquire
  <2>2. response[q].source = "none" /\ response[q].status = "none"
    BY <2>1 DEF OutcomeFits, TypeOK, Responses
  <2>3. \A o \in {"sketch", "backend"} : From(o)' = From(o)
    BY <2>1, <2>2, ResponsesAreTyped DEF TypeOK, From
  <2>4. CASE phase' = [phase EXCEPT ![q] = "done"] /\ metrics' = Bump(Timed(q))
    <3>1. \A p \in {"fanout", "backend"} : With(p)' = With(p)
      BY <2>1, <2>4 DEF TypeOK, With
    <3>2. \A c \in Counted : metrics'[c] = metrics[c]
      BY <1>3, <1>4, <2>4 DEF Timed
    <3> QED
      BY <2>1, <2>3, <3>1, <3>2 DEF CountersFit
  <2>5. CASE phase' = [phase EXCEPT ![q] = "backend"] /\ metrics' = Bump({"BackendQueries"})
    <3>1. With("fanout")' = With("fanout")
      BY <2>1, <2>5 DEF TypeOK, With
    <3>2. With("backend")' = With("backend") \cup {q} /\ q \notin With("backend")
      BY <2>1, <2>5 DEF TypeOK, With
    <3>3. Cardinality(With("backend")') = Cardinality(With("backend")) + 1
      BY <1>1, <3>2, OneMore
    <3>4. \A c \in Counted :
            metrics'[c] = metrics[c] + (IF c = "BackendQueries" THEN 1 ELSE 0)
      BY <1>4, <2>5
    <3> QED
      BY <1>2, <1>3, <2>1, <2>3, <3>1, <3>3, <3>4 DEF CountersFit
  <2>6. CASE phase' = [phase EXCEPT ![q] = "fanout"] /\ metrics' = Bump({"SketchQueries"})
    <3>1. With("backend")' = With("backend")
      BY <2>1, <2>6 DEF TypeOK, With
    <3>2. With("fanout")' = With("fanout") \cup {q} /\ q \notin With("fanout")
      BY <2>1, <2>6 DEF TypeOK, With
    <3>3. Cardinality(With("fanout")') = Cardinality(With("fanout")) + 1
      BY <1>1, <3>2, OneMore
    <3>4. \A c \in Counted :
            metrics'[c] = metrics[c] + (IF c = "SketchQueries" THEN 1 ELSE 0)
      BY <1>4, <2>6
    <3>5. metrics'["SketchQueries"] = metrics["SketchQueries"] + 1
      BY <1>3, <3>4
    <3>6. \A c \in Counted \ {"SketchQueries"} : metrics'[c] = metrics[c]
      BY <1>3, <3>4
    <3> QED
      BY <1>2, <1>3, <2>1, <2>3, <3>1, <3>3, <3>5, <3>6 DEF CountersFit
  <2> QED
    BY <2>1, <2>4, <2>5, <2>6
<1>9. ASSUME NEW q \in Queries, Hit(q) PROVE CountersFit'
  <2> DEFINE resp == sendQueryResult(q, "sketch", found[q])
  <2>1. resp.source = "sketch"
    BY ResponsesAreTyped DEF TypeOK
  <2>2. /\ phase[q] = "fanout" /\ UNCHANGED failed
        /\ phase' = [phase EXCEPT ![q] = "done"] /\ response' = [response EXCEPT ![q] = resp]
        /\ metrics' = Bump({"SketchHits"} \cup Timed(q))
    BY <1>9 DEF Hit, End
  <2> HIDE DEF resp
  <2>3. response[q].source = "none"
    BY <2>2 DEF OutcomeFits, TypeOK, Responses
  <2>4. With("fanout")' = With("fanout") \ {q} /\ q \in With("fanout")
    BY <2>2 DEF TypeOK, With
  <2>5. With("backend")' = With("backend")
    BY <2>2 DEF TypeOK, With
  <2>6. From("sketch")' = From("sketch") \cup {q} /\ q \notin From("sketch")
    BY <2>1, <2>2, <2>3 DEF TypeOK, From
  <2>7. From("backend")' = From("backend")
    BY <2>1, <2>2, <2>3 DEF TypeOK, From
  <2>8. /\ Cardinality(With("fanout")') = Cardinality(With("fanout")) - 1
        /\ Cardinality(From("sketch")') = Cardinality(From("sketch")) + 1
    BY <1>1, <2>4, <2>6, OneMore, OneLess
  <2>9. \A c \in Counted : metrics'[c] = metrics[c] + (IF c = "SketchHits" THEN 1 ELSE 0)
    BY <1>5, <2>2
  <2> QED
    BY <1>2, <1>3, <2>2, <2>5, <2>7, <2>8, <2>9 DEF CountersFit
<1>10. ASSUME NEW q \in Queries, Miss(q) PROVE CountersFit'
  <2>1. /\ phase[q] = "fanout" /\ UNCHANGED <<failed, response>>
        /\ phase' = [phase EXCEPT ![q] = "backend"]
        /\ metrics' = Bump({"SketchMisses", "BackendQueries"})
    BY <1>10 DEF Miss, FallBack
  <2>2. With("fanout")' = With("fanout") \ {q} /\ q \in With("fanout")
    BY <2>1 DEF TypeOK, With
  <2>3. With("backend")' = With("backend") \cup {q} /\ q \notin With("backend")
    BY <2>1 DEF TypeOK, With
  <2>4. \A o : From(o)' = From(o)
    BY <2>1 DEF From
  <2>5. /\ Cardinality(With("fanout")') = Cardinality(With("fanout")) - 1
        /\ Cardinality(With("backend")') = Cardinality(With("backend")) + 1
    BY <1>1, <2>2, <2>3, OneMore, OneLess
  <2>6. \A c \in Counted :
          metrics'[c] = metrics[c] + (IF c \in {"SketchMisses", "BackendQueries"} THEN 1 ELSE 0)
    BY <1>4, <2>1
  <2> QED
    BY <1>2, <1>3, <2>1, <2>4, <2>5, <2>6 DEF CountersFit
<1>11. ASSUME NEW q \in Queries, BackendAnswers(q) PROVE CountersFit'
  <2> DEFINE resp == sendQueryResult(q, "backend", {})
  <2>1. resp.source = "backend"
    BY ResponsesAreTyped
  <2>2. /\ phase[q] = "backend" /\ UNCHANGED failed
        /\ phase' = [phase EXCEPT ![q] = "done"] /\ response' = [response EXCEPT ![q] = resp]
        /\ metrics' = Bump({"BackendQueryCount"} \cup Timed(q))
    BY <1>11 DEF BackendAnswers, End
  <2> HIDE DEF resp
  <2>3. response[q].source = "none"
    BY <2>2 DEF OutcomeFits, TypeOK, Responses
  <2>4. With("backend")' = With("backend") \ {q} /\ q \in With("backend")
    BY <2>2 DEF TypeOK, With
  <2>5. With("fanout")' = With("fanout")
    BY <2>2 DEF TypeOK, With
  <2>6. From("backend")' = From("backend") \cup {q} /\ q \notin From("backend")
    BY <2>1, <2>2, <2>3 DEF TypeOK, From
  <2>7. From("sketch")' = From("sketch")
    BY <2>1, <2>2, <2>3 DEF TypeOK, From
  <2>8. /\ Cardinality(With("backend")') = Cardinality(With("backend")) - 1
        /\ Cardinality(From("backend")') = Cardinality(From("backend")) + 1
    BY <1>1, <2>4, <2>6, OneMore, OneLess
  <2>9. \A c \in Counted :
          metrics'[c] = metrics[c] + (IF c = "BackendQueryCount" THEN 1 ELSE 0)
    BY <1>5, <2>2
  <2> QED
    BY <1>2, <1>3, <2>2, <2>5, <2>7, <2>8, <2>9 DEF CountersFit
<1>12. ASSUME NEW q \in Queries, BackendFails(q) PROVE CountersFit'
  <2> DEFINE resp == sendError("execution")
  <2>1. resp.source = "none"
    BY ResponsesAreTyped
  <2>2. /\ phase[q] = "backend" /\ failed' = failed \cup {q}
        /\ phase' = [phase EXCEPT ![q] = "done"] /\ response' = [response EXCEPT ![q] = resp]
        /\ metrics' = Bump({"BackendQueryCount"} \cup Timed(q))
    BY <1>12 DEF BackendFails, End
  <2> HIDE DEF resp
  <2>3. response[q].source = "none" /\ q \notin failed
    BY <2>2 DEF OutcomeFits, TypeOK, Responses
  <2>4. With("backend")' = With("backend") \ {q} /\ q \in With("backend")
    BY <2>2 DEF TypeOK, With
  <2>5. With("fanout")' = With("fanout")
    BY <2>2 DEF TypeOK, With
  <2>6. From("sketch")' = From("sketch") /\ From("backend")' = From("backend")
    BY <2>1, <2>2, <2>3 DEF TypeOK, From
  <2>7. /\ Cardinality(With("backend")') = Cardinality(With("backend")) - 1
        /\ Cardinality(failed') = Cardinality(failed) + 1
    BY <1>1, <2>2, <2>3, <2>4, OneMore, OneLess
  <2>8. \A c \in Counted :
          metrics'[c] = metrics[c] + (IF c = "BackendQueryCount" THEN 1 ELSE 0)
    BY <1>5, <2>2
  <2>9. metrics'["BackendQueryCount"] = metrics["BackendQueryCount"] + 1
    BY <1>3, <2>8
  <2>10. \A c \in Counted \ {"BackendQueryCount"} : metrics'[c] = metrics[c]
    BY <1>3, <2>8
  <2> QED
    BY <1>2, <1>3, <2>5, <2>6, <2>7, <2>9, <2>10 DEF CountersFit
<1>13. CASE UNCHANGED <<phase, response, metrics, failed>>
  <2>1. \A p, o : With(p)' = With(p) /\ From(o)' = From(o)
    BY <1>13 DEF With, From
  <2> QED
    BY <1>13, <2>1 DEF CountersFit
<1>14. ASSUME NEW q \in Queries, Serve(q) PROVE CountersFit'
  BY <1>7, <1>8, <1>9, <1>10, <1>11, <1>12, <1>13, <1>14
  DEF Serve, NodeAnswers, NodeFails, Answered, NextStep
<1> QED
  BY <1>6, <1>13, <1>14 DEF Next, Leave, Ingest, Crash, Restart, vars

-----------------------------------------------------------------------------
(* What is held, due and found *)

LEMMA HeldKept ==
  ASSUME TypeOK, HeldByOwner, [Next]_vars PROVE HeldByOwner'
<1>1. CASE UNCHANGED <<held, due>>
  BY <1>1 DEF HeldByOwner
<1>2. ASSUME NEW s \in Series, Ingest(s) PROVE HeldByOwner'
  <2> DEFINE n == OwnerOfLabels(s)
  <2>1. n \in Nodes /\ held' = [held EXCEPT ![n] = @ \cup {s}] /\ UNCHANGED due
    BY <1>2 DEF Ingest, TypeOK
  <2>2. \A m \in Nodes : held[m] \subseteq held'[m] /\ (m # n => held'[m] = held[m])
    BY <2>1 DEF TypeOK
  <2>3. held'[n] = held[n] \cup {s}
    BY <2>1 DEF TypeOK
  <2>4. OwnerOfLabels(s) = n
    OBVIOUS
  <2> HIDE DEF n
  <2> QED
    BY <2>1, <2>2, <2>3, <2>4 DEF HeldByOwner
<1>3. ASSUME NEW n \in Nodes, Crash(n) PROVE HeldByOwner'
  <2>1. /\ held' = [held EXCEPT ![n] = {}]
        /\ due' = [q \in Queries |-> due[q] \ held[n]]
    BY <1>3 DEF Crash
  <2>2. held'[n] = {} /\ \A m \in Nodes \ {n} : held'[m] = held[m]
    BY <2>1 DEF TypeOK
  <2>3. \A q \in Queries : due'[q] = due[q] \ held[n]
    BY <2>1
  <2> QED
    BY <2>2, <2>3 DEF HeldByOwner
<1>4. ASSUME NEW q \in Queries, Acquire(q) PROVE HeldByOwner'
  <2>1. UNCHANGED held
    BY <1>4 DEF Acquire, nodeVars
  <2>2. \/ UNCHANGED due
        \/ due' = [due EXCEPT ![q] = UNION {held[n] : n \in up}]
    BY <1>4 DEF Acquire
  <2>3. \A s \in UNION {held[n] : n \in up} :
          OwnerOfLabels(s) \in Nodes /\ s \in held[OwnerOfLabels(s)]
    BY DEF HeldByOwner, TypeOK
  <2>4. \A d \in Queries : due'[d] = due[d] \/ due'[d] = UNION {held[n] : n \in up}
    BY <2>2 DEF TypeOK
  <2> QED
    BY <2>1, <2>3, <2>4 DEF HeldByOwner
<1> QED
  BY <1>1, <1>2, <1>3, <1>4
  DEF Next, Serve, Arrive, Leave, GiveUpWaiting, NextStep, Hit, Miss, BackendAnswers,
      BackendFails, NodeAnswers, NodeFails, Answered, Restart, nodeVars, vars

\* Labels with a name have the owner of every series that has them all.
LEMMA OwnerOfMatch ==
  ASSUME NEW s \in Series, NEW lbls \in SUBSET s, LabelMatches(lbls, MetricNameLabel) # {}
  PROVE  OwnerOfLabels(lbls) = OwnerOfLabels(s)
<1>1. PICK p \in lbls : p[1] = MetricNameLabel
  BY DEF LabelMatches
<1>2. \A r \in s : r[1] = MetricNameLabel => r = p
  BY <1>1, SeriesAssumption
<1>3. LabelMatches(lbls, MetricNameLabel) = {p[2]} /\ LabelMatches(s, MetricNameLabel) = {p[2]}
  BY <1>1, <1>2 DEF LabelMatches
<1> QED
  BY <1>3 DEF OwnerOfLabels

LEMMA NameIsAsked ==
  ASSUME NEW info, info.MetricName # {}
  PROVE  LabelMatches(mergerLabels(info), MetricNameLabel) # {}
<1>1. PICK name \in info.MetricName : TRUE
  OBVIOUS
<1>2. <<MetricNameLabel, name>> \in mergerLabels(info)
  BY <1>1 DEF mergerLabels
<1> QED
  BY <1>2 DEF LabelMatches

\* An answer matches, and it has all that is due or is exactly what was asked for.
LEMMA EvalIsWhole ==
  ASSUME TypeOK, HeldByOwner, NEW q \in Queries, NEW n \in Nodes, NEW series,
         n = OwnerOfLabels(mergerLabels(Info(q))),
         series = EvalWithLabels(n, mergerLabels(Info(q)))
  PROVE  /\ \A s \in series : Matching(q, s)
         /\ Info(q).MetricName # {} =>
              \/ {s \in due[q] : Matching(q, s)} \subseteq series
              \/ series = {mergerLabels(Info(q))}
<1> DEFINE lbls == mergerLabels(Info(q))
<1>1. \/ series = {lbls}
      \/ series = {s \in held[n] : lbls \subseteq s}
  BY DEF EvalWithLabels, labelsContainAll
<1>2. \A s : Matching(q, s) <=> lbls \subseteq s
  BY DEF Matching
<1>3. ASSUME Info(q).MetricName # {}, NEW s \in due[q], Matching(q, s) PROVE s \in held[n]
  <2>1. s \in Series
    BY DEF TypeOK
  <2>2. OwnerOfLabels(s) = n
    BY <1>2, <1>3, <2>1, NameIsAsked, OwnerOfMatch
  <2> QED
    BY <2>2 DEF HeldByOwner
<1> HIDE DEF lbls
<1>4. CASE series = {lbls}
  BY <1>2, <1>4 DEF lbls
<1>5. CASE series = {s \in held[n] : lbls \subseteq s}
  BY <1>2, <1>3, <1>5
<1> QED
  BY <1>1, <1>4, <1>5

LEMMA FitsAlone ==
  ASSUME NEW d \in Queries, Fits(d), request'[d] = request[d], found'[d] = found[d],
         due'[d] \subseteq due[d], response'[d] = response[d] \/ response'[d].source # "sketch"
  PROVE  Fits(d)'
<1>1. Info(d)' = Info(d) /\ \A s : Matching(d, s)' <=> Matching(d, s)
  BY DEF Info, Matching
<1>2. Whole(d) => Whole(d)'
  BY <1>1 DEF Whole
<1> QED
  BY <1>1, <1>2 DEF Fits

LEMMA AnswerFits ==
  ASSUME TypeOK, OutcomeFits, HeldByOwner, NEW q \in Queries, NEW n \in Nodes, Fits(q),
         NodeAnswers(q, n)
  PROVE  Fits(q)'
<1> DEFINE lbls == mergerLabels(Info(q))
           series == IF OwnerOfLabels(lbls) = n THEN EvalWithLabels(n, lbls) ELSE {}
<1>1. found'[q] = found[q] \/ found'[q] = found[q] \cup series
  BY DEF NodeAnswers, TypeOK
<1>2. UNCHANGED <<request, due, response>> /\ phase[q] = "fanout"
  BY DEF NodeAnswers, Answered
<1>3. response'[q].source # "sketch"
  BY <1>2 DEF OutcomeFits
<1>4. CASE found'[q] = found[q]
  BY <1>2, <1>4, FitsAlone
<1>5. CASE found'[q] = found[q] \cup series /\ series # {}
  <2>1. n = OwnerOfLabels(lbls) /\ series = EvalWithLabels(n, lbls)
    BY <1>5
  <2>2. /\ \A s \in series : Matching(q, s)
        /\ Info(q).MetricName # {} =>
             {s \in due[q] : Matching(q, s)} \subseteq series \/ series = {lbls}
    BY <2>1, EvalIsWhole
  <2>3. Info(q)' = Info(q) /\ \A s : Matching(q, s)' <=> Matching(q, s)
    BY <1>2 DEF Info, Matching
  <2> HIDE DEF series
  <2>4. \A s \in found'[q] : Matching(q, s)'
    BY <1>5, <2>2, <2>3 DEF Fits
  <2>5. ASSUME Info(q).MetricName # {} PROVE Whole(q)'
    <3>1. CASE {s \in due[q] : Matching(q, s)} \subseteq series
      BY <1>2, <1>5, <2>3, <3>1 DEF Whole
    <3>2. CASE series = {lbls} /\ found[q] = {}
      BY <1>2, <1>5, <2>3, <3>2 DEF Whole
    <3>3. CASE series = {lbls} /\ found[q] # {}
      BY <1>2, <1>5, <2>3, <2>5, <3>3 DEF Whole, Fits
    <3> QED
      BY <2>2, <2>5, <3>1, <3>2, <3>3
  <2> QED
    BY <1>3, <2>3, <2>4, <2>5 DEF Fits
<1>6. CASE found'[q] = found[q] \cup series /\ series = {}
  BY <1>4, <1>6
<1> QED
  BY <1>1, <1>4, <1>5, <1>6

LEMMA FoundKept ==
  ASSUME TypeOK, OutcomeFits, HeldByOwner, FoundFits, [Next]_vars PROVE FoundFits'
<1>1. ASSUME NEW q \in Queries, NEW r \in Requests, Arrive(q, r) PROVE FoundFits'
  <2>1. /\ request' = [request EXCEPT ![q] = r] /\ UNCHANGED <<found, due>>
        /\ \/ UNCHANGED response
           \/ response' = [response EXCEPT ![q] = sendError("bad_data")]
    BY <1>1 DEF Arrive
  <2>2. found'[q] = {} /\ response'[q].source # "sketch"
    BY <1>1, <2>1, ResponsesAreTyped DEF Arrive, OutcomeFits, TypeOK
  <2>3. Fits(q)'
    BY <2>2 DEF Fits
  <2>4. ASSUME NEW d \in Queries \ {q} PROVE Fits(d)'
    BY <2>1, FitsAlone DEF FoundFits, TypeOK
  <2> QED
    BY <2>3, <2>4 DEF FoundFits
<1>2. ASSUME NEW q \in Queries, Acquire(q) PROVE FoundFits'
  <2>1. /\ found' = [found EXCEPT ![q] = {}] /\ UNCHANGED request
        /\ \/ UNCHANGED response
           \/ response' = [response EXCEPT ![q] = sendError("execution")]
    BY <1>2 DEF Acquire
  <2>2. found'[q] = {} /\ response'[q].source # "sketch"
    BY <1>2, <2>1, ResponsesAreTyped DEF Acquire, OutcomeFits, TypeOK
  <2>3. Fits(q)'
    BY <2>2 DEF Fits
  <2>4. ASSUME NEW d \in Queries \ {q} PROVE Fits(d)'
    <3>1. UNCHANGED due \/ due' = [due EXCEPT ![q] = UNION {held[n] : n \in up}]
      BY <1>2 DEF Acquire
    <3>2. due'[d] = due[d]
      BY <3>1 DEF TypeOK
    <3> QED
      BY <2>1, <3>2, FitsAlone DEF FoundFits, TypeOK
  <2> QED
    BY <2>3, <2>4 DEF FoundFits
<1>3. ASSUME NEW q \in Queries, NEW n \in Nodes, NodeAnswers(q, n) PROVE FoundFits'
  <2>1. UNCHANGED <<request, due, response>> /\ \A d \in Queries \ {q} : found'[d] = found[d]
    BY <1>3 DEF NodeAnswers, Answered, TypeOK
  <2>2. ASSUME NEW d \in Queries \ {q} PROVE Fits(d)'
    BY <2>1, FitsAlone DEF FoundFits
  <2> QED
    BY <1>3, <2>2, AnswerFits DEF FoundFits
<1>4. ASSUME NEW q \in Queries, NEW resp, UNCHANGED <<request, found, due>>,
             response' = [response EXCEPT ![q] = resp],
             resp.source = "sketch" => resp.series = found[q] /\ found[q] # {}
      PROVE  FoundFits'
  <2>1. ASSUME NEW d \in Queries \ {q} PROVE Fits(d)'
    BY <1>4, <2>1, FitsAlone DEF FoundFits, TypeOK
  <2>2. Info(q)' = Info(q) /\ \A s : Matching(q, s)' <=> Matching(q, s)
    BY <1>4 DEF Info, Matching
  <2>3. Whole(q) => Whole(q)'
    BY <1>4, <2>2 DEF Whole
  <2>4. response'[q] = resp
    BY <1>4 DEF TypeOK
  <2>5. Fits(q)'
    BY <1>4, <2>2, <2>3, <2>4 DEF FoundFits, Fits
  <2> QED
    BY <2>1, <2>5 DEF FoundFits
<1>5. ASSUME NEW q \in Queries, GiveUpWaiting(q) PROVE FoundFits'
  BY <1>4, <1>5, ResponsesAreTyped DEF GiveUpWaiting
<1>6. ASSUME NEW q \in Queries, Hit(q) PROVE FoundFits'
  <2>1. found[q] \in SUBSET Series
    BY DEF TypeOK
  <2>2. sendQueryResult(q, "sketch", found[q]).series = found[q]
    BY <2>1, ResponsesAreTyped
  <2> QED
    BY <1>4, <1>6, <2>2 DEF Hit, End
<1>7. ASSUME NEW q \in Queries, BackendAnswers(q) PROVE FoundFits'
  <2>1. sendQueryResult(q, "backend", {}).source = "backend"
    BY ResponsesAreTyped
  <2> QED
    BY <1>4, <1>7, <2>1 DEF BackendAnswers, End
<1>8. ASSUME NEW q \in Queries, BackendFails(q) PROVE FoundFits'
  BY <1>4, <1>8, ResponsesAreTyped DEF BackendFails, End
<1>9. CASE UNCHANGED <<request, found, response>> /\ \A d \in Queries : due'[d] \subseteq due[d]
  BY <1>9, FitsAlone DEF FoundFits
<1>10. ASSUME NEW n \in Nodes, Crash(n) PROVE FoundFits'
  BY <1>9, <1>10 DEF Crash
<1>11. ASSUME UNCHANGED <<request, found, response, due>> PROVE FoundFits'
  BY <1>9, <1>11
<1> QED
  BY <1>1, <1>2, <1>3, <1>5, <1>6, <1>7, <1>8, <1>10, <1>11
  DEF Next, Serve, Leave, NextStep, Miss, FallBack, NodeFails, Answered, Ingest, Restart, vars

-----------------------------------------------------------------------------
(* The theorems *)

LEMMA InitHolds ==
  ASSUME Init PROVE IInv
<1>1. TypeOK
  BY MergerAssumption DEF Init, TypeOK, Responses, NoResponse
<1>2. OutcomeFits /\ HeldByOwner /\ FoundFits
  BY DEF Init, OutcomeFits, HeldByOwner, FoundFits, Fits, NoResponse
<1>3. /\ InService = {} /\ failed = {}
      /\ \A o \in {"sketch", "backend"} : From(o) = {}
      /\ \A p \in {"fanout", "backend"} : With(p) = {}
  BY DEF Init, InService, From, With, NoResponse
<1>4. SlotsFit
  BY <1>3, FS_EmptySet DEF Init, SlotsFit
<1>5. CountersFit
  <2>1. \A c \in {"SketchQueries", "SketchHits", "SketchMisses", "BackendQueries",
                  "BackendQueryCount"} : metrics[c] = 0
    BY DEF Init, Metrics
  <2> QED
    BY <1>3, <2>1, FS_EmptySet DEF CountersFit
<1> QED
  BY <1>1, <1>2, <1>4, <1>5 DEF IInv

LEMMA NextKeeps ==
  IInv /\ [Next]_vars => IInv'
BY TypeKept, OutcomeKept, CountersKept, HeldKept, FoundKept DEF IInv

\* Every reachable state of the query path, with nodes that crash and clients that leave,
\* satisfies the inductive invariant.
THEOREM Invariance == Spec => []IInv
BY InitHolds, NextKeeps, PTL DEF Spec

\* The state of the merger is well typed, and never are more slots taken than there are.
THEOREM Types == Spec => []TypeOK
<1>1. IInv => TypeOK
  BY DEF IInv
<1> QED
  BY <1>1, Invariance, PTL

\* No path through the merger keeps a slot or gives one back twice, and its counters of
\* hits, misses and backend queries agree with what the queries are doing.
THEOREM SlotsAndCounters == Spec => []SlotsAndCountersAgree
<1>1. IInv => SlotsAndCountersAgree
  BY MergerAssumption
  DEF IInv, TypeOK, SlotsFit, CountersFit, With, From, SlotsAndCountersAgree
<1> QED
  BY <1>1, Invariance, PTL

\* What a selector of plain filters means for a series.
LEMMA PlainMeansLabels ==
  ASSUME NEW q \in Queries, PlainSelector(Info(q)), NEW s \in Series
  PROVE  Matching(q, s) <=> Selects(Info(q).LabelMatchers, s)
<1> DEFINE info == Info(q)
<1>1. info.MetricName = MetricNameOf(info.LabelMatchers)
  BY DEF Info, Parse
<1>2. \A f \in info.LabelMatchers : f.op = "=" /\ f.text # ""
  BY DEF PlainSelector
<1>3. ASSUME NEW f \in info.LabelMatchers, <<f.label, f.text>> \in s
      PROVE  Satisfies(s, f)
  <2>1. \A p \in s : p[1] = f.label => p = <<f.label, f.text>>
    BY <1>3, SeriesAssumption
  <2>2. LabelMatches(s, f.label) = {f.text}
    BY <1>3, <2>1 DEF LabelMatches
  <2> QED
    BY <1>2, <2>2 DEF Satisfies
<1>4. ASSUME NEW f \in info.LabelMatchers, Satisfies(s, f)
      PROVE  <<f.label, f.text>> \in s
  <2>1. f.text \in LabelMatches(s, f.label)
    BY <1>2, <1>4 DEF Satisfies
  <2>2. PICK p \in s : p[1] = f.label /\ p[2] = f.text
    BY <2>1 DEF LabelMatches
  <2> QED
    BY <2>2, SeriesAssumption
<1>5. mergerLabels(info) = {<<f.label, f.text>> : f \in info.LabelMatchers}
  BY <1>1, <1>2 DEF mergerLabels, MetricNameOf
<1> HIDE DEF info
<1>6. mergerLabels(info) \subseteq s <=> \A f \in info.LabelMatchers : Satisfies(s, f)
  BY <1>3, <1>4, <1>5
<1> QED
  BY <1>6 DEF info, Matching, Selects

\* However nodes fail, time out and restart while they are asked, an answer of the
\* sketches to a selector of "=" filters has selected series only, and all of those that
\* were held when the nodes were asked and have not been lost since, unless the series
\* with exactly the labels of the selector is the answer.
THEOREM AnswersAreWhole == Spec => []AnswerIsWholeAndSelected
<1>1. ASSUME IInv, NEW q \in Queries, response[q].source = "sketch", PlainSelector(Info(q))
      PROVE  /\ \A s \in response[q].series : Selects(Info(q).LabelMatchers, s)
             /\ \/ {s \in due[q] : Selects(Info(q).LabelMatchers, s)} \subseteq response[q].series
                \/ response[q].series = {mergerLabels(Info(q))}
  <2>1. Fits(q) /\ response[q].series = found[q] /\ found[q] # {}
    BY <1>1 DEF IInv, FoundFits, Fits
  <2>2. found[q] \subseteq Series /\ due[q] \subseteq Series
    BY <1>1 DEF IInv, TypeOK
  <2>3. Whole(q)
    BY <1>1, <2>1 DEF Fits, PlainSelector
  <2> QED
    BY <1>1, <2>1, <2>2, <2>3, PlainMeansLabels DEF Fits, Whole
<1>2. IInv => AnswerIsWholeAndSelected
  BY <1>1 DEF AnswerIsWholeAndSelected
<1> QED
  BY <1>2, Invariance, PTL

-----------------------------------------------------------------------------
(* QueryPromise *)

\* The variables of QueryPromise.
Asked == {q \in Queries : phase[q] # "idle"}
Offered == {q \in Queries : found[q] # {}}
Excused == {q \in Queries : Faulty(q)} \cup failed \cup gone
Outcome == [q \in Queries |->
              CASE response[q].status = "none" -> "none"
                [] response[q].status \in {"bad_data", "execution"} -> "failed"
                [] OTHER -> response[q].source]

Stutters == UNCHANGED <<Asked, Offered, Excused, Outcome>>

LEMMA SettleMaps ==
  ASSUME NEW q \in Queries, NEW o \in {"sketch", "backend", "failed"},
         q \in Asked', Asked' \in {Asked, Asked \cup {q}},
         Excused' \in {Excused, Excused \cup {q}},
         Outcome[q] = "none", Outcome' = [Outcome EXCEPT ![q] = o], Offered' = Offered,
         o = "sketch" => q \in Offered, o = "failed" => q \in Excused'
  PROVE  Promise!PromiseNext
BY DEF Promise!PromiseNext, Promise!Settle, Asked, Offered, Excused, Outcome

\* The outcome of a query that is settled by resp.
LEMMA OutcomeOf ==
  ASSUME TypeOK, NEW q \in Queries, NEW resp, response' = [response EXCEPT ![q] = resp],
         resp.status # "none"
  PROVE  Outcome' = [Outcome EXCEPT ![q] =
                       IF resp.status \in {"bad_data", "execution"} THEN "failed"
                       ELSE resp.source]
<1>1. response'[q] = resp /\ \A d \in Queries \ {q} : response'[d] = response[d]
  BY DEF TypeOK
<1> DEFINE o == IF resp.status \in {"bad_data", "execution"} THEN "failed" ELSE resp.source
<1>2. Outcome'[q] = o
  BY <1>1 DEF Outcome
<1>3. \A d \in Queries \ {q} : Outcome'[d] = Outcome[d]
  BY <1>1 DEF Outcome
<1>4. Outcome = [d \in Queries |-> Outcome[d]] /\ Outcome' = [d \in Queries |-> Outcome'[d]]
  BY DEF Outcome
<1> HIDE DEF o
<1>5. Outcome' = [Outcome EXCEPT ![q] = o]
  BY <1>2, <1>3, <1>4
<1> QED
  BY <1>5 DEF o

\* The end of a query that the nodes or the backend have settled.
LEMMA EndMaps ==
  ASSUME TypeOK, OutcomeFits, NEW q \in Queries, phase[q] \in {"waiting", "fanout", "backend"},
         phase' = [phase EXCEPT ![q] = "done"], UNCHANGED <<request, gone>>,
         Offered' = Offered, failed' \in {failed, failed \cup {q}},
         NEW resp, response' = [response EXCEPT ![q] = resp],
         \/ resp.status = "execution" /\ q \in Excused'
         \/ resp.status = "success" /\ resp.source = "backend"
         \/ resp.status = "success" /\ resp.source = "sketch" /\ q \in Offered
  PROVE  Promise!PromiseNext
<1>1. Asked' = Asked /\ q \in Asked'
  BY DEF Asked, TypeOK
<1>2. \A d \in Queries : Faulty(d)' <=> Faulty(d)
  BY DEF Faulty, TypeOK
<1>3. Excused' \in {Excused, Excused \cup {q}}
  BY <1>2 DEF Excused
<1>4. Outcome[q] = "none"
  BY DEF OutcomeFits, Outcome
<1> DEFINE o == IF resp.status \in {"bad_data", "execution"} THEN "failed" ELSE resp.source
<1>5. Outcome' = [Outcome EXCEPT ![q] = o]
  BY OutcomeOf
<1>6. /\ o \in {"sketch", "backend", "failed"}
      /\ o = "sketch" => q \in Offered
      /\ o = "failed" => q \in Excused'
  OBVIOUS
<1> HIDE DEF o
<1> QED
  BY <1>1, <1>3, <1>4, <1>5, <1>6, SettleMaps

LEMMA StepMaps ==
  ASSUME IInv, [Next]_vars PROVE Promise!PromiseNext \/ Stutters
<1> USE DEF IInv
<1>1. ASSUME UNCHANGED <<found, request, failed, gone, response>>,
             \A d \in Queries : phase'[d] = "idle" <=> phase[d] = "idle"
      PROVE  Stutters
  <2>1. \A d \in Queries : Faulty(d)' <=> Faulty(d)
    BY <1>1 DEF Faulty
  <2> QED
    BY <1>1, <2>1 DEF Stutters, Asked, Offered, Excused, Outcome
<1>2. ASSUME NEW q \in Queries, NEW r \in Requests, Arrive(q, r)
      PROVE  Promise!PromiseNext
  <2>1. /\ phase[q] = "idle" /\ request' = [request EXCEPT ![q] = r]
        /\ UNCHANGED <<found, gone, failed>>
        /\ \/ r.valid /\ phase' = [phase EXCEPT ![q] = "waiting"] /\ UNCHANGED response
           \/ /\ ~r.valid /\ phase' = [phase EXCEPT ![q] = "done"]
              /\ response' = [response EXCEPT ![q] = sendError("bad_data")]
    BY <1>2 DEF Arrive
  <2>2. Asked' = Asked \cup {q} /\ Offered' = Offered
    BY <2>1 DEF Asked, Offered, TypeOK
  <2>3. \A d \in Queries \ {q} : Faulty(d)' <=> Faulty(d)
    BY <2>1 DEF Faulty, TypeOK
  <2>4. ~Faulty(q)
    BY <2>1 DEF Faulty
  <2>5. Excused' \in {Excused, Excused \cup {q}}
    BY <2>1, <2>3, <2>4 DEF Excused
  <2>6. CASE UNCHANGED response
    BY <2>2, <2>5, <2>6
    DEF Promise!PromiseNext, Promise!Ask, Asked, Offered, Excused, Outcome
  <2>7. CASE ~r.valid /\ phase' = [phase EXCEPT ![q] = "done"]
             /\ response' = [response EXCEPT ![q] = sendError("bad_data")]
    <3>1. Outcome[q] = "none"
      BY <2>1 DEF OutcomeFits, Outcome
    <3>2. sendError("bad_data").status = "bad_data"
      BY ResponsesAreTyped
    <3>3. Outcome' = [Outcome EXCEPT ![q] = "failed"]
      BY <2>7, <3>2, OutcomeOf
    <3>4. Faulty(q)'
      BY <2>1, <2>7 DEF Faulty, TypeOK
    <3>5. q \in Excused' /\ q \in Asked'
      BY <2>2, <3>4 DEF Excused
    <3> QED
      BY <2>2, <2>5, <3>1, <3>3, <3>5, SettleMaps
  <2> QED
    BY <2>1, <2>6, <2>7
<1>3. ASSUME NEW q \in Queries, Leave(q) PROVE Promise!PromiseNext
  <2>1. /\ phase[q] \in {"waiting", "fanout", "backend"} /\ gone' = gone \cup {q}
        /\ UNCHANGED <<phase, request, found, response, failed>>
    BY <1>3 DEF Leave
  <2>2. \A d \in Queries : Faulty(d)' <=> Faulty(d)
    BY <2>1 DEF Faulty
  <2>3. Excused' = Excused \cup {q} /\ UNCHANGED <<Asked, Offered, Outcome>>
    BY <2>1, <2>2 DEF Excused, Asked, Offered, Outcome
  <2>4. q \in Asked' /\ Outcome[q] = "none"
    BY <2>1 DEF Asked, Outcome, OutcomeFits
  <2> QED
    BY <2>3, <2>4 DEF Promise!PromiseNext, Promise!Excuse, Asked, Offered, Excused, Outcome
<1>4. ASSUME NEW q \in Queries, GiveUpWaiting(q) PROVE Promise!PromiseNext
  <2>1. Offered' = Offered /\ q \in Excused'
    BY <1>4 DEF GiveUpWaiting, Offered, Excused
  <2> QED
    BY <1>4, <2>1, EndMaps, ResponsesAreTyped DEF GiveUpWaiting
<1>5. ASSUME NEW q \in Queries, Acquire(q) PROVE Promise!PromiseNext \/ Stutters
  <2>1. UNCHANGED <<found, request, gone, failed>> /\ phase[q] = "waiting"
    BY <1>5 DEF Acquire, OutcomeFits, TypeOK
  <2>2. CASE /\ ParseFails(request[q].expr) /\ phase' = [phase EXCEPT ![q] = "done"]
             /\ response' = [response EXCEPT ![q] = sendError("execution")]
    <3>1. Faulty(q)'
      BY <2>1, <2>2 DEF Faulty, TypeOK
    <3>2. Offered' = Offered /\ q \in Excused'
      BY <2>1, <3>1 DEF Offered, Excused
    <3> QED
      BY <2>1, <2>2, <3>2, EndMaps, ResponsesAreTyped
  <2>3. CASE UNCHANGED response /\ \/ phase' = [phase EXCEPT ![q] = "backend"]
                                   \/ phase' = [phase EXCEPT ![q] = "fanout"]
    BY <1>1, <2>1, <2>3 DEF TypeOK
  <2> QED
    BY <1>5, <2>2, <2>3 DEF Acquire
<1>6. ASSUME NEW q \in Queries, NEW n \in Nodes, NodeAnswers(q, n)
      PROVE  Promise!PromiseNext \/ Stutters
  <2>1. /\ UNCHANGED <<phase, request, response, gone, failed>> /\ phase[q] = "fanout"
        /\ \A d \in Queries \ {q} : found'[d] = found[d]
        /\ found[q] \subseteq found'[q]
    BY <1>6 DEF NodeAnswers, Answered, TypeOK
  <2>2. \A d \in Queries : Faulty(d)' <=> Faulty(d)
    BY <2>1 DEF Faulty
  <2>3. UNCHANGED <<Asked, Excused, Outcome>> /\ Offered' \in {Offered, Offered \cup {q}}
    BY <2>1, <2>2 DEF Asked, Excused, Outcome, Offered
  <2>4. q \in Asked /\ Outcome[q] = "none"
    BY <2>1 DEF Asked, Outcome, OutcomeFits
  <2>5. CASE Offered' = Offered \cup {q}
    BY <2>3, <2>4, <2>5 DEF Promise!PromiseNext, Promise!Offer, Asked, Offered, Excused, Outcome
  <2> QED
    BY <2>3, <2>5 DEF Stutters
<1>7. ASSUME NEW q \in Queries, Hit(q) PROVE Promise!PromiseNext
  <2> DEFINE resp == sendQueryResult(q, "sketch", found[q])
  <2>1. found[q] \in SUBSET Series
    BY DEF TypeOK
  <2>2. resp.status = "success" /\ resp.source = "sketch"
    BY <2>1, ResponsesAreTyped
  <2>3. /\ phase[q] = "fanout" /\ phase' = [phase EXCEPT ![q] = "done"] /\ found[q] # {}
        /\ response' = [response EXCEPT ![q] = resp] /\ UNCHANGED <<request, gone, found, failed>>
    BY <1>7 DEF Hit, End
  <2> HIDE DEF resp
  <2>4. Offered' = Offered /\ q \in Offered
    BY <2>3 DEF Offered
  <2> QED
    BY <2>2, <2>3, <2>4, EndMaps
<1>8. ASSUME NEW q \in Queries, BackendAnswers(q) PROVE Promise!PromiseNext
  <2> DEFINE resp == sendQueryResult(q, "backend", {})
  <2>1. resp.status = "success" /\ resp.source = "backend"
    BY ResponsesAreTyped
  <2>2. /\ phase[q] = "backend" /\ phase' = [phase EXCEPT ![q] = "done"]
        /\ response' = [response EXCEPT ![q] = resp] /\ UNCHANGED <<request, gone, found, failed>>
    BY <1>8 DEF BackendAnswers, End
  <2> HIDE DEF resp
  <2>3. Offered' = Offered
    BY <2>2 DEF Offered
  <2> QED
    BY <2>1, <2>2, <2>3, EndMaps
<1>9. ASSUME NEW q \in Queries, BackendFails(q) PROVE Promise!PromiseNext
  <2>1. /\ phase[q] = "backend" /\ phase' = [phase EXCEPT ![q] = "done"]
        /\ response' = [response EXCEPT ![q] = sendError("execution")]
        /\ failed' = failed \cup {q} /\ UNCHANGED <<request, gone, found>>
    BY <1>9 DEF BackendFails, End
  <2>2. Offered' = Offered /\ q \in Excused'
    BY <2>1 DEF Offered, Excused
  <2> QED
    BY <2>1, <2>2, EndMaps, ResponsesAreTyped
<1>10. ASSUME NEW q \in Queries, Miss(q) PROVE Stutters
  BY <1>1, <1>10 DEF Miss, FallBack, TypeOK
<1>11. CASE UNCHANGED <<found, request, failed, gone, response, phase>>
  BY <1>1, <1>11
<1> QED
  BY <1>2, <1>3, <1>4, <1>5, <1>6, <1>7, <1>8, <1>9, <1>10, <1>11
  DEF Next, Serve, NextStep, NodeFails, Answered, Ingest, Crash, Restart, vars

\* The merger implements QueryPromise: a query is settled once, by the sketches only if
\* a node has named a series, and fails only if it is at fault, its client has left or
\* the backend has failed it.
THEOREM RefinesQueryPromise == Spec => ImplementsQueryPromise
<1>1. Init => Promise!PromiseInit
  BY DEF Init, NoResponse, Faulty, Promise!PromiseInit
<1>2. IInv /\ [Next]_vars => Promise!PromiseNext \/ Stutters
  BY StepMaps
<1>3. IInv /\ [Next]_vars =>
        [Promise!PromiseNext]_<<Asked, Offered, Excused, Outcome>>
  BY <1>2 DEF Stutters
<1> QED
  BY <1>1, <1>3, Invariance, PTL
  DEF Spec, ImplementsQueryPromise, Promise!PromiseSpec, Asked, Offered, Excused, Outcome
=============================================================================
