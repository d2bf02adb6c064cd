----------------------------- MODULE QueryRouter -----------------------------
(***************************************************************************)
(* internal/query/router/router.go and internal/query/api/handlers.go: the *)
(* query path of the drop-in.  A query is tried on the sketches if the     *)
(* registry allows it and falls back to the backend.                       *)
(*                                                                         *)
(* The storage holds one series, with the sampling sketch of               *)
(* UniformSampling, and samples keep arriving while queries run: LookUp,   *)
(* each Eval of a range query and the backend's answer are steps of their  *)
(* own.  Requests use the functions behind that sketch; the other sketches *)
(* have modules of their own.  A client's request is a record              *)
(*   [endpoint |-> "instant" or "range", expr, valid, start, end, step]    *)
(* where valid says whether the handler accepts its parameters, and an     *)
(* instant query has its time in start and in end.                         *)
(***************************************************************************)
EXTENDS UniformSampling, QueryPlan

CONSTANTS Queries,     \* names for the requests of clients
          Requests,    \* what a client may send
          SeriesLabels \* the label set of the series

ASSUME RouterAssumption ==
  /\ \A r \in Requests : r.endpoint = "range" => r.step \in Nat \ {0}
  /\ IsFiniteSet(Queries)

VARIABLES phase,    \* "idle", "lookup", "eval", "backend" or "done"
          request,  \* request[q]: what q asks
          at,       \* at[q]: the timestamp that the loop of a range query is at
          results,  \* results[q]: the points computed so far, in the order of the steps
          response, \* response[q]
          covered,  \* history: the queries for which LookUp has said yes
          failed,   \* history: the queries that the backend has failed
          counters  \* routerMetrics and apiMetrics

routerVars == <<phase, request, at, results, response, covered, failed, counters>>
vars == <<samplingVars, routerVars>>

NoRequest == [endpoint |-> "none"]
NoResponse == [status |-> "none", source |-> "none", metric |-> {}, points |-> <<>>,
               warnings |-> {}]

Counters == {"sketchQueries", "backendQueries", "sketchHits", "sketchMisses",
             "parsingErrors", "executionErrors", "requests", "errors"}

Bump(names) == [c \in Counters |-> counters[c] + (IF c \in names THEN 1 ELSE 0)]

Info(q) == Parse(request[q].expr)

RouterInit ==
  /\ phase = [q \in Queries |-> "idle"]
  /\ request = [q \in Queries |-> NoRequest]
  /\ at = [q \in Queries |-> 0]
  /\ results = [q \in Queries |-> <<>>]
  /\ response = [q \in Queries |-> NoResponse]
  /\ covered = {}
  /\ failed = {}
  /\ counters = [c \in Counters |-> 0]

Init == SamplingInit /\ RouterInit

-----------------------------------------------------------------------------
(* Responses *)

\* A sketch answer names the labels of the query, not those of the series.
reconstructLabelsFromQuery(info) ==
  {<<MetricNameLabel, n>> : n \in info.MetricName} \cup
  {<<f.label, f.text>> : f \in {g \in info.LabelMatchers : g.op = "="}}

buildWarnings(source, attempted) ==
  CASE source = "sketch" -> {"approximation: sketch"}
    [] source = "backend" /\ attempted -> {"approximation: backend_fallback", "sketch miss"}
    [] OTHER -> {}

\* convertToQueryData and convertToQueryRangeData: a range answer without any value has
\* no series in it, which points = <<>> stands for.
convertToQueryData(q) ==
  [status |-> "success", source |-> "sketch",
   metric |-> reconstructLabelsFromQuery(Info(q)), points |-> results'[q],
   warnings |-> buildWarnings("sketch", TRUE)]

\* What the backend says is passed on.
FromBackend(q) ==
  [NoResponse EXCEPT !.status = "success", !.source = "backend",
                     !.warnings = buildWarnings("backend", CanHandle(Info(q)))]

sendError(errorType) == [NoResponse EXCEPT !.status = errorType]

Respond(q, r) ==
  /\ phase' = [phase EXCEPT ![q] = "done"]
  /\ response' = [response EXCEPT ![q] = r]

-----------------------------------------------------------------------------
(* Query and QueryRange up to the first step that looks at shared state *)

\* Planted fault: the counter of tried queries also counts those never tried.
CountAlways(capable) == {"sketchQueries"}

RoutingCounters(capable) == IF capable THEN {"sketchQueries"} ELSE {"backendQueries"}

handleQuery(q, r) ==
  /\ phase[q] = "idle"
  /\ request' = [request EXCEPT ![q] = r]
  /\ at' = [at EXCEPT ![q] = r.start]
  /\ \/ /\ ~r.valid
        /\ Respond(q, sendError("bad_data"))
        /\ counters' = Bump({"requests", "errors"})
     \/ /\ r.valid /\ ParseFails(r.expr)
        /\ Respond(q, sendError("execution"))
        /\ counters' = Bump({"requests", "errors", "parsingErrors"})
     \/ /\ r.valid /\ ~ParseFails(r.expr)
        /\ phase' = [phase EXCEPT ![q] =
                       IF CanHandle(Parse(r.expr)) THEN "lookup" ELSE "backend"]
        /\ counters' = Bump({"requests"} \cup RoutingCounters(CanHandle(Parse(r.expr))))
        /\ UNCHANGED response
  /\ UNCHANGED <<results, covered, failed, samplingVars>>

-----------------------------------------------------------------------------
(* executeWithSketches and executeWithSketchesRange *)

\* Storage.LookUp finds a series by its full label set only.
StorageLookUp(lbls, mint, maxt) == lbls = SeriesLabels /\ Cover(mint, maxt)

\* The calls of functions.go that reach this sketch.
StorageEval(fn, mint, maxt) ==
  CASE fn = "avg_over_time"    -> QueryAvg(mint, maxt)
    [] fn = "sum_over_time"    -> QuerySum(mint, maxt)
    [] fn = "sum2_over_time"   -> QuerySum2(mint, maxt)
    [] fn = "count_over_time"  -> QueryCount(mint, maxt)
    [] fn = "stddev_over_time" -> QueryStddev(mint, maxt)
    [] fn = "stdvar_over_time" -> QueryStdvar(mint, maxt)

\* They leave the time T of a Sample unset: every point of an answer says 0.
Point(q, ts) ==
  [T |-> 0, F |-> StorageEval(Info(q).FunctionName, WindowStart(Info(q), ts), ts)]

\* Planted fault: a miss is reported to the client instead of falling back.
MissIsAnError(q) ==
  /\ Respond(q, sendError("execution"))
  /\ counters' = Bump({"sketchMisses", "errors"})

\* Planted fault: a miss is looked up again until the sketch covers it.
TryAgain(q) == UNCHANGED <<phase, counters, response>>

Miss(q) ==
  /\ phase' = [phase EXCEPT ![q] = "backend"]
  /\ counters' = Bump({"sketchMisses", "backendQueries"})
  /\ UNCHANGED response

\* An instant query looks its window up, a range query only [start, end].
LookUp(q) ==
  LET r == request[q]
      mint == IF r.endpoint = "instant" THEN WindowStart(Info(q), r.end) ELSE r.start
      yes == StorageLookUp(buildLabelsFromQuery(Info(q)), mint, r.end)
  IN /\ phase[q] = "lookup"
     /\ covered' = IF yes THEN covered \cup {q} ELSE covered
     /\ \/ /\ yes
           /\ phase' = [phase EXCEPT ![q] = "eval"]
           /\ UNCHANGED <<counters, response>>
        \/ ~yes /\ Miss(q)
     /\ UNCHANGED <<request, at, results, failed, samplingVars>>

Hit(q) ==
  /\ Respond(q, convertToQueryData(q))
  /\ counters' = Bump({"sketchHits"})

EvalInstant(q) ==
  /\ phase[q] = "eval" /\ request[q].endpoint = "instant"
  /\ results' = [results EXCEPT ![q] = <<Point(q, at[q])>>]
  /\ Hit(q)
  /\ UNCHANGED <<request, at, covered, failed, samplingVars>>

NextAt(q) == at[q] + request[q].step

EvalRangePoint(q) ==
  /\ phase[q] = "eval" /\ request[q].endpoint = "range" /\ at[q] <= request[q].end
  /\ results' = [results EXCEPT ![q] = Append(@, Point(q, at[q]))]
  /\ at' = [at EXCEPT ![q] = NextAt(q)]
  /\ UNCHANGED <<phase, request, response, covered, failed, counters, samplingVars>>

\* A range with start after end has no point and is a miss.
EvalRangeEnd(q) ==
  /\ phase[q] = "eval" /\ request[q].endpoint = "range" /\ at[q] > request[q].end
  /\ \/ results[q] # <<>> /\ UNCHANGED results /\ Hit(q)
     \/ results[q] = <<>> /\ UNCHANGED results /\ Miss(q)
  /\ UNCHANGED <<request, at, covered, failed, samplingVars>>

-----------------------------------------------------------------------------
(* The backend *)

BackendAnswers(q) ==
  /\ phase[q] = "backend"
  /\ Respond(q, FromBackend(q))
  /\ UNCHANGED <<request, at, results, covered, failed, counters, samplingVars>>

BackendFails(q) ==
  /\ phase[q] = "backend"
  /\ failed' = failed \cup {q}
  /\ Respond(q, sendError("execution"))
  /\ counters' = Bump({"executionErrors", "errors"})
  /\ UNCHANGED <<request, at, results, covered, samplingVars>>

-----------------------------------------------------------------------------
Serve(q) ==
  LookUp(q) \/ EvalInstant(q) \/ EvalRangePoint(q) \/ EvalRangeEnd(q)
  \/ BackendAnswers(q) \/ BackendFails(q)

Next ==
  \/ SamplingNext /\ UNCHANGED routerVars
  \/ \E q \in Queries, r \in Requests : handleQuery(q, r)
  \/ \E q \in Queries : Serve(q)

\* A handler's goroutine runs on, and the HTTP client of the backend has a timeout.
Spec == Init /\ [][Next]_vars /\ \A q \in Queries : WF_vars(Serve(q))

-----------------------------------------------------------------------------
(* Properties *)

\* The counters tell one story: every query that was tried on the sketches is a hit, a
\* miss or still being tried, every query that went to the backend was not tried or
\* missed, and every error answer is counted once.
CountersAgree ==
  LET In(phases) == Cardinality({q \in Queries : phase[q] \in phases})
      Answered(status) == Cardinality({q \in Queries : response[q].status = status})
      From(source) == Cardinality({q \in Queries : response[q].source = source})
  IN /\ counters["requests"] = In({"lookup", "eval", "backend", "done"})
     /\ counters["errors"] = Answered("bad_data") + Answered("execution")
     /\ counters["sketchHits"] = From("sketch")
     /\ counters["sketchQueries"] =
          counters["sketchHits"] + counters["sketchMisses"] + In({"lookup", "eval"})
     /\ counters["backendQueries"] =
          From("backend") + counters["executionErrors"] + In({"backend"})

\* A query ends, by an answer or a fallback, however many samples arrive meanwhile: a
\* range query of a positive step comes to its end, and a miss does not wait for samples.
QueryEnds == \A q \in Queries : phase[q] # "idle" ~> phase[q] = "done"

Faulty(q) ==
  phase[q] # "idle" /\ (~request[q].valid \/ ParseFails(request[q].expr))

Promise == INSTANCE QueryPromise WITH
  asked <- {q \in Queries : phase[q] # "idle"},
  answerable <- covered,
  excused <- {q \in Queries : Faulty(q)} \cup failed,
  outcome <- [q \in Queries |->
                CASE response[q].status = "none" -> "none"
                  [] response[q].status \in {"bad_data", "execution"} -> "failed"
                  [] OTHER -> response[q].source]

\* The drop-in keeps what QueryPromise promises: in particular a valid query fails only
\* if the backend failed it, so that every miss was sent on to the backend.
ImplementsQueryPromise == Promise!PromiseSpec
=============================================================================
