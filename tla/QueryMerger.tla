----------------------------- MODULE QueryMerger -----------------------------
(***************************************************************************)
(* internal/pskquery/merger/merger.go and cmd/pskquery/main.go: the query  *)
(* path of the cluster.  A query waits for a slot, asks every psksketch    *)
(* node at once (a range query does so for every step), waits for all of   *)
(* them, and falls back to the backend if no node has named a series.      *)
(* The client may leave, nodes crash and lose their sketches, and an RPC   *)
(* may time out.  A series is its label set; an answer is the set of       *)
(* series it has values for, and the values are the business of the sketch *)
(* modules.  A request is as in QueryRouter.                               *)
(***************************************************************************)
EXTENDS QueryPlan

CONSTANTS Nodes, Queries, Requests,
          MaxConcurrentQueries,
          Series,     \* the series that are ingested
          OwnerOf,    \* OwnerOf[name]: the node whose range has the name's partition
          MaxCrashes  \* bound: crashes of nodes

ASSUME MergerAssumption ==
  /\ MaxConcurrentQueries \in Nat \ {0}
  /\ MaxCrashes \in Nat
  /\ \A r \in Requests : r.endpoint = "range" => r.step \in Nat \ {0}
  /\ IsFiniteSet(Queries)

\* A label set gives a label one value.
ASSUME SeriesAssumption ==
  \A s \in Series : \A p \in s :
    p = <<p[1], p[2]>> /\ \A r \in s : r[1] = p[1] => r = p

VARIABLES phase,    \* "idle", "waiting", "fanout", "backend" or "done"
          request,
          at,       \* at[q]: the step that a range query is at
          pending,  \* pending[q]: the nodes that have not answered this step
          found,    \* found[q]: the series in the answers so far
          querySem, \* slots taken
          response,
          metrics,
          gone,     \* the queries whose client has left
          up, held, \* the nodes that run, and the series each has sketches of
          crashes,
          due,      \* history: series held when q asked the nodes, by nodes up since
          failed    \* history: the queries that the backend has failed

nodeVars == <<up, held, crashes>>
vars == <<phase, request, at, pending, found, querySem, response, metrics, gone,
          nodeVars, due, failed>>

NoRequest == [endpoint |-> "none"]
NoResponse == [status |-> "none", source |-> "none", series |-> {}, warnings |-> {}]

Metrics == {"SketchQueries", "BackendQueries", "SketchHits", "SketchMisses",
            "InstantQueryCount", "RangeQueryCount", "BackendQueryCount"}

Bump(names) == [c \in Metrics |-> metrics[c] + (IF c \in names THEN 1 ELSE 0)]

Info(q) == Parse(request[q].expr)
InService == {q \in Queries : phase[q] \in {"fanout", "backend"}}

Init ==
  /\ phase = [q \in Queries |-> "idle"]
  /\ request = [q \in Queries |-> NoRequest]
  /\ at = [q \in Queries |-> 0]
  /\ pending = [q \in Queries |-> {}]
  /\ found = [q \in Queries |-> {}]
  /\ querySem = 0
  /\ response = [q \in Queries |-> NoResponse]
  /\ metrics = [c \in Metrics |-> 0]
  /\ gone = {}
  /\ up = Nodes
  /\ held = [n \in Nodes |-> {}]
  /\ crashes = 0
  /\ due = [q \in Queries |-> {}]
  /\ failed = {}

-----------------------------------------------------------------------------
(* The nodes *)

\* The partition of a label set is that of its metric name, "" if it has none.
OwnerOfLabels(lbls) ==
  LET names == LabelMatches(lbls, MetricNameLabel)
  IN OwnerOf[IF names = {} THEN "" ELSE CHOOSE n \in names : TRUE]

Ingest(s) ==
  LET n == OwnerOfLabels(s)
  IN /\ n \in up /\ s \notin held[n]
     /\ held' = [held EXCEPT ![n] = @ \cup {s}]
     /\ UNCHANGED <<phase, request, at, pending, found, querySem, response, metrics,
                    gone, up, crashes, due, failed>>

Crash(n) ==
  /\ n \in up /\ crashes < MaxCrashes
  /\ up' = up \ {n}
  /\ held' = [held EXCEPT ![n] = {}]
  /\ crashes' = crashes + 1
  /\ due' = [q \in Queries |-> due[q] \ held[n]]
  /\ UNCHANGED <<phase, request, at, pending, found, querySem, response, metrics, gone,
                 failed>>

Restart(n) ==
  /\ n \notin up
  /\ up' = up \cup {n}
  /\ UNCHANGED <<phase, request, at, pending, found, querySem, response, metrics, gone,
                 held, crashes, due, failed>>

\* getByLabelSubset; a label that is absent reads as "".
labelsContainAll(full, subset) == subset \subseteq full

\* Planted fault: a series with exactly the labels asked for is not preferred, and
\* series that have one of the labels are enough.
LooseEval(n, lbls) == {s \in held[n] : s \cap lbls # {}}

\* EvalWithLabels: a series with exactly these labels is the only answer.
EvalWithLabels(n, lbls) ==
  IF lbls \in held[n] THEN {lbls} ELSE {s \in held[n] : labelsContainAll(s, lbls)}

-----------------------------------------------------------------------------
(* Arrival, slots and the end of a query *)

sendError(errorType) == [NoResponse EXCEPT !.status = errorType]

\* buildWarnings of main.go.
buildWarnings(source, attempted) ==
  CASE source = "sketch" -> {"approximation"}
    [] source = "backend" /\ attempted -> {"sketch miss"}
    [] OTHER -> {}

sendQueryResult(q, source, series) ==
  [status |-> "success", source |-> source, series |-> series,
   warnings |-> buildWarnings(source, CanHandle(Info(q)))]

\* The deferred functions of Query and QueryRange.
Timed(q) ==
  {IF request[q].endpoint = "instant" THEN "InstantQueryCount" ELSE "RangeQueryCount"}

\* Planted fault: the slot is kept when the query fails.
ReleaseUnlessFailed(q) ==
  querySem' = IF response'[q].status = "execution" THEN querySem ELSE querySem - 1

Release(q) == querySem' = querySem - 1

End(q, resp, names) ==
  /\ phase' = [phase EXCEPT ![q] = "done"]
  /\ response' = [response EXCEPT ![q] = resp]
  /\ metrics' = Bump(names \cup Timed(q))
  /\ Release(q)

Arrive(q, r) ==
  /\ phase[q] = "idle"
  /\ request' = [request EXCEPT ![q] = r]
  /\ \/ r.valid /\ phase' = [phase EXCEPT ![q] = "waiting"] /\ UNCHANGED response
     \/ /\ ~r.valid
        /\ phase' = [phase EXCEPT ![q] = "done"]
        /\ response' = [response EXCEPT ![q] = sendError("bad_data")]
  /\ UNCHANGED <<at, pending, found, querySem, metrics, gone, nodeVars, due, failed>>

Leave(q) ==
  /\ phase[q] \in {"waiting", "fanout", "backend"} /\ q \notin gone
  /\ gone' = gone \cup {q}
  /\ UNCHANGED <<phase, request, at, pending, found, querySem, response, metrics,
                 nodeVars, due, failed>>

\* ctx.Done while waiting for a slot.
GiveUpWaiting(q) ==
  /\ phase[q] = "waiting" /\ q \in gone
  /\ phase' = [phase EXCEPT ![q] = "done"]
  /\ response' = [response EXCEPT ![q] = sendError("execution")]
  /\ UNCHANGED <<request, at, pending, found, querySem, metrics, gone, nodeVars, due,
                 failed>>

Acquire(q) ==
  /\ phase[q] = "waiting" /\ querySem < MaxConcurrentQueries
  /\ found' = [found EXCEPT ![q] = {}]
  /\ at' = [at EXCEPT ![q] = request[q].start]
  /\ \/ /\ ParseFails(request[q].expr)
        /\ phase' = [phase EXCEPT ![q] = "done"]
        /\ response' = [response EXCEPT ![q] = sendError("execution")]
        /\ metrics' = Bump(Timed(q))
        /\ UNCHANGED <<querySem, pending, due>>
     \/ /\ ~ParseFails(request[q].expr) /\ ~CanHandle(Info(q))
        /\ phase' = [phase EXCEPT ![q] = "backend"]
        /\ metrics' = Bump({"BackendQueries"})
        /\ querySem' = querySem + 1
        /\ UNCHANGED <<response, pending, due>>
     \/ /\ ~ParseFails(request[q].expr) /\ CanHandle(Info(q))
        /\ phase' = [phase EXCEPT ![q] = "fanout"]
        /\ metrics' = Bump({"SketchQueries"})
        /\ querySem' = querySem + 1
        /\ pending' = [pending EXCEPT ![q] = Nodes]
        /\ due' = [due EXCEPT ![q] = UNION {held[n] : n \in up}]
        /\ UNCHANGED response
  /\ UNCHANGED <<request, gone, nodeVars, failed>>

-----------------------------------------------------------------------------
(* The fan-out *)

Answered(q, n) ==
  /\ pending' = [pending EXCEPT ![q] = @ \ {n}]
  /\ UNCHANGED <<phase, request, at, querySem, response, metrics, gone, nodeVars, due,
                 failed>>

\* A node that does not own the partition answers with an error, and so does one that
\* has no such series.  The server fills Series; QueryRange reads Samples, which it
\* never fills.
NodeAnswers(q, n) ==
  LET lbls == mergerLabels(Info(q))
      series == IF OwnerOfLabels(lbls) = n THEN EvalWithLabels(n, lbls) ELSE {}
  IN /\ phase[q] = "fanout" /\ n \in pending[q] /\ n \in up
     /\ found' = [found EXCEPT ![q] =
                    IF request[q].endpoint = "instant" THEN @ \cup series ELSE @]
     /\ Answered(q, n)

\* The node is down, queryTimeout has passed or the client has left.
NodeFails(q, n) ==
  /\ phase[q] = "fanout" /\ n \in pending[q]
  /\ UNCHANGED found
  /\ Answered(q, n)

MoreSteps(q) == request[q].endpoint = "range" /\ at[q] + request[q].step <= request[q].end

NextStep(q) ==
  /\ phase[q] = "fanout" /\ pending[q] = {} /\ MoreSteps(q)
  /\ at' = [at EXCEPT ![q] = @ + request[q].step]
  /\ pending' = [pending EXCEPT ![q] = Nodes]
  /\ UNCHANGED <<phase, request, found, querySem, response, metrics, gone, nodeVars, due,
                 failed>>

Hit(q) ==
  /\ phase[q] = "fanout" /\ pending[q] = {} /\ ~MoreSteps(q) /\ found[q] # {}
  /\ End(q, sendQueryResult(q, "sketch", found[q]), {"SketchHits"})
  /\ UNCHANGED <<request, at, pending, found, gone, nodeVars, due, failed>>

\* Planted fault: nothing found is an answer without series.
MissIsEmptyHit(q) ==
  /\ End(q, sendQueryResult(q, "sketch", {}), {"SketchHits"})

FallBack(q) ==
  /\ phase' = [phase EXCEPT ![q] = "backend"]
  /\ metrics' = Bump({"SketchMisses", "BackendQueries"})
  /\ UNCHANGED <<querySem, response>>

Miss(q) ==
  /\ phase[q] = "fanout" /\ pending[q] = {} /\ ~MoreSteps(q) /\ found[q] = {}
  /\ FallBack(q)
  /\ UNCHANGED <<request, at, pending, found, gone, nodeVars, due, failed>>

-----------------------------------------------------------------------------
(* The backend *)

BackendAnswers(q) ==
  /\ phase[q] = "backend"
  /\ End(q, sendQueryResult(q, "backend", {}), {"BackendQueryCount"})
  /\ UNCHANGED <<request, at, pending, found, gone, nodeVars, due, failed>>

\* The backend fails, or the client has left.
BackendFails(q) ==
  /\ phase[q] = "backend"
  /\ End(q, sendError("execution"), {"BackendQueryCount"})
  /\ failed' = failed \cup {q}
  /\ UNCHANGED <<request, at, pending, found, gone, nodeVars, due>>

-----------------------------------------------------------------------------
Serve(q) ==
  \/ GiveUpWaiting(q) \/ Acquire(q) \/ NextStep(q) \/ Hit(q) \/ Miss(q)
  \/ BackendAnswers(q) \/ BackendFails(q)
  \/ \E n \in Nodes : NodeAnswers(q, n) \/ NodeFails(q, n)

Next ==
  \/ \E q \in Queries, r \in Requests : Arrive(q, r)
  \/ \E q \in Queries : Leave(q) \/ Serve(q)
  \/ \E s \in Series : Ingest(s)
  \/ \E n \in Nodes : Crash(n) \/ Restart(n)

\* Goroutines run on, and every RPC and every backend call has a deadline.
Spec == Init /\ [][Next]_vars /\ \A q \in Queries : WF_vars(Serve(q))

-----------------------------------------------------------------------------
(* Properties *)

Responses ==
  [status : {"none", "success", "bad_data", "execution"}, source : {"none", "sketch", "backend"},
   series : SUBSET Series, warnings : SUBSET {"approximation", "sketch miss"}]

TypeOK ==
  /\ phase \in [Queries -> {"idle", "waiting", "fanout", "backend", "done"}]
  /\ request \in [Queries -> Requests \cup {NoRequest}]
  /\ pending \in [Queries -> SUBSET Nodes]
  /\ found \in [Queries -> SUBSET Series]
  /\ querySem \in 0..MaxConcurrentQueries
  /\ response \in [Queries -> Responses]
  /\ metrics \in [Metrics -> Nat]
  /\ gone \subseteq Queries /\ failed \subseteq Queries
  /\ up \subseteq Nodes
  /\ held \in [Nodes -> SUBSET Series]
  /\ due \in [Queries -> SUBSET Series]

\* The slots and the counters agree with what the queries are doing: no path, by error,
\* departure or fallback, keeps a slot or gives one back twice, and every query that
\* the sketches tried is a hit, a miss or still with the nodes.
SlotsAndCountersAgree ==
  LET In(p) == Cardinality({q \in Queries : phase[q] = p})
      From(source) == Cardinality({q \in Queries : response[q].source = source})
  IN /\ querySem = Cardinality(InService) /\ querySem <= MaxConcurrentQueries
     /\ metrics["SketchQueries"] =
          metrics["SketchHits"] + metrics["SketchMisses"] + In("fanout")
     /\ metrics["SketchHits"] = From("sketch")
     /\ metrics["BackendQueries"] = metrics["BackendQueryCount"] + In("backend")
     /\ metrics["BackendQueryCount"] = From("backend") + Cardinality(failed)

\* The selectors that buildLabelsFromQuery keeps all of.
PlainSelector(info) ==
  info.MetricName # {} /\ \A f \in info.LabelMatchers : f.op = "=" /\ f.text # ""

\* A sketch answer to a plain selector has only series that the selector selects, and
\* all of those that the nodes held when they were asked and have not lost in a crash
\* since - although nodes fail, time out and restart meanwhile - unless one of them has
\* exactly the labels of the selector, which hides the others.
AnswerIsWholeAndSelected ==
  \A q \in Queries : response[q].source = "sketch" /\ PlainSelector(Info(q)) =>
    LET series == response[q].series
        filters == Info(q).LabelMatchers
    IN /\ \A s \in series : Selects(filters, s)
       /\ \/ {s \in due[q] : Selects(filters, s)} \subseteq series
          \/ series = {mergerLabels(Info(q))}

\* Every query that has arrived is settled, also one that waits for a slot while nodes
\* and backend time out: nobody holds a slot for ever.
QueriesAreSettled == \A q \in Queries : phase[q] # "idle" ~> phase[q] = "done"

Faulty(q) ==
  phase[q] # "idle" /\ (~request[q].valid \/ ParseFails(request[q].expr))

Promise == INSTANCE QueryPromise WITH
  asked <- {q \in Queries : phase[q] # "idle"},
  answerable <- {q \in Queries : found[q] # {}},
  excused <- {q \in Queries : Faulty(q)} \cup failed \cup gone,
  outcome <- [q \in Queries |->
                CASE response[q].status = "none" -> "none"
                  [] response[q].status \in {"bad_data", "execution"} -> "failed"
                  [] OTHER -> response[q].source]

\* The merger keeps what QueryPromise promises: it answers from the sketches only with a
\* series a node has named, and fails a query only if it is faulty, its client has left
\* or the backend, which it always falls back to, has failed it.
ImplementsQueryPromise == Promise!PromiseSpec
=============================================================================
