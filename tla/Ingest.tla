-------------------------------- MODULE Ingest --------------------------------
(***************************************************************************)
(* The ways in.  Of a promsketch-dropin process: the handlers of remote    *)
(* write and OTLP and the scraper, the pipeline that gives each sample to  *)
(* the storage and each series to the forwarder, the throughput tracker,   *)
(* and main's shutdown, which stops them one after the other while late    *)
(* requests may still run.  Of a pskinsert process: Router.BatchInsert.    *)
(* The two share no state, so a behaviour is that of one of them.          *)
(*                                                                         *)
(* A call is one delivery of parsed series.  The parsers call the pipeline *)
(* from the goroutine of the request; net/http recovers a panic there,     *)
(* while one in the scraper or in main ends the process.                   *)
(***************************************************************************)
EXTENDS SeriesTable, BatchRouter

CONSTANTS Paths,        \* what to look at: "batch", or a bound on the other process
          Deliverers,   \* Deliverers[path]: bound: the calls that may come
          MaxUpdates,   \* MaxUpdates[path]: bound: updates of the tracker
          MemoryFor,    \* MemoryFor[path]: the series that memory_limit has room for
          Http,         \* the calls that are HTTP requests; the others are scrapes
          Delivered,    \* Delivered[c]: the series of call c, as records of lset and samples
          Matched,      \* the label sets that match a target
          TrackerWindow

ASSUME IngestAssumption ==
  /\ IsFiniteSet(Calls) /\ Http \subseteq Calls
  /\ \A c \in Calls : Delivered[c] \in Seq([lset : LabelSets, samples : Nat]) \ {<<>>}
  /\ TrackerWindow \in Nat

VARIABLES path,
          call,         \* call[c]: its step, the series and the sample it is at
          unread,       \* history: a series was queued when nobody reads the queue any more
          memoryUsed,   \* in series
          received,     \* requestsReceived of both handlers
          failed,       \* requestsFailed
          totalSamplesReceived, sketchSamplesInserted, backendSamplesForwarded,
          MemoryRejections,
          tracker,      \* lastTotal, the rates as their samples, and those forgotten
          stage,        \* how far the shutdown is
          nextId,       \* the loop of StopBackground
          timedOut,     \* Shutdown gave up waiting for requests
          crashed       \* a panic that nobody recovers

ingestVars == <<call, unread, memoryUsed, received, failed, totalSamplesReceived,
                sketchSamplesInserted, backendSamplesForwarded, MemoryRejections>>
mainVars == <<stage, nextId, timedOut>>
vars == <<path, ingestVars, tracker, mainVars, crashed, tableVars, batchVars>>

Init ==
  /\ path \in Paths
  /\ TableInit /\ BatchInit
  /\ call = [c \in Calls |-> [step |-> "none", at |-> 1, sample |-> 1]]
  /\ unread = FALSE
  /\ memoryUsed = 0
  /\ received = 0 /\ failed = 0
  /\ totalSamplesReceived = 0 /\ sketchSamplesInserted = 0
  /\ backendSamplesForwarded = 0 /\ MemoryRejections = 0
  /\ tracker = [lastTotal |-> 0, rates |-> <<>>, updates |-> 0, forgotten |-> 0]
  /\ stage = "serving" /\ nextId = 0 /\ timedOut = FALSE
  /\ crashed = FALSE

-----------------------------------------------------------------------------
(* The handlers and the pipeline *)

Step(c) == call[c].step
Moves(c, step) == call' = [call EXCEPT ![c].step = step]
Running(c) == Step(c) \notin {"none", "done", "refused", "aborted"}
Current(c) == Delivered[c][call[c].at]

Begins(c) ==
  /\ c \in Deliverers[path] /\ Step(c) = "none"
  /\ UNCHANGED <<unread, memoryUsed, totalSamplesReceived, sketchSamplesInserted,
                 backendSamplesForwarded, MemoryRejections, tableVars, crashed>>

\* The server takes requests until Shutdown is called.  One may be refused, for its method
\* or for a body that does not parse.
Request(c) ==
  /\ Begins(c) /\ c \in Http /\ stage = "serving"
  /\ received' = received + 1
  /\ \/ Moves(c, "sample") /\ UNCHANGED failed
     \/ Moves(c, "refused") /\ failed' = failed + 1

\* The scraper scrapes until Stop.
Scrape(c) ==
  /\ Begins(c) /\ c \notin Http /\ stage \in {"serving", "server", "tracker", "scrape"}
  /\ Moves(c, "sample")
  /\ UNCHANGED <<received, failed>>

\* The loop over the samples of a series: each is counted and given to Insert.
Takes(c) ==
  /\ Step(c) = "sample" /\ call[c].sample <= Current(c).samples
  /\ totalSamplesReceived' = totalSamplesReceived + 1
  /\ UNCHANGED <<unread, memoryUsed, received, failed, backendSamplesForwarded, tableVars>>

NextSample(c) == call' = [call EXCEPT ![c].step = "sample", ![c].sample = @ + 1]

\* Insert returned err; nil also for a series that no target matches.
Inserted(err) ==
  sketchSamplesInserted' = sketchSamplesInserted + (IF err = "nil" THEN 1 ELSE 0)

Unmatched(c) ==
  /\ Takes(c) /\ Current(c).lset \notin Matched
  /\ NextSample(c) /\ Inserted("nil")
  /\ UNCHANGED <<MemoryRejections, crashed>>

\* hasSketchInstance follows the sketchInstances of a series that has been registered.
Known(c) ==
  LET i == getByHash(Current(c).lset)
  IN /\ Takes(c) /\ Current(c).lset \in Matched /\ i # 0
     /\ \/ /\ memSeries[i].instances = "nil"
           /\ Moves(c, "aborted") /\ crashed' = (c \notin Http)
           /\ UNCHANGED sketchSamplesInserted
        \/ /\ memSeries[i].instances # "nil"
           /\ NextSample(c) /\ Inserted("nil") /\ UNCHANGED crashed
     /\ UNCHANGED MemoryRejections

Missing(c) == Current(c).lset \in Matched /\ getByHash(Current(c).lset) = 0

Rejected(c) ==
  /\ Takes(c) /\ Missing(c) /\ memoryUsed + 1 > MemoryFor[path]
  /\ MemoryRejections' = MemoryRejections + 1
  /\ NextSample(c) /\ Inserted("error")
  /\ UNCHANGED crashed

\* createSketchInstance begins; what the checks found may be stale by its first lookup.
Create(c) ==
  /\ Takes(c) /\ Missing(c) /\ memoryUsed + 1 <= MemoryFor[path]
  /\ Moves(c, "create")
  /\ UNCHANGED <<sketchSamplesInserted, MemoryRejections, crashed>>

InTable(c) ==
  /\ Step(c) = "create"
  /\ Look(c, Current(c).lset) /\ Moves(c, "creating")
  /\ UNCHANGED <<unread, memoryUsed, received, failed, totalSamplesReceived,
                 sketchSamplesInserted, backendSamplesForwarded, MemoryRejections, crashed>>

Creating(c) ==
  /\ Step(c) = "creating"
  /\ CreatorStep(c)
  /\ UNCHANGED <<ingestVars, crashed>>

Created(c) ==
  /\ Step(c) = "creating" /\ MakeUniv(c)
  /\ memoryUsed' = memoryUsed + 1
  /\ NextSample(c) /\ Inserted("nil")
  /\ UNCHANGED <<unread, received, failed, totalSamplesReceived,
                 backendSamplesForwarded, MemoryRejections, crashed>>

\* Once for a series; a full queue drops it, and no one is told.
Forward(c) ==
  /\ Step(c) = "sample" /\ call[c].sample > Current(c).samples
  /\ \E queued \in BOOLEAN :
       /\ unread' = (unread \/ (queued /\ stage = "storage"))
       /\ backendSamplesForwarded' =
            backendSamplesForwarded + (IF queued THEN Current(c).samples ELSE 0)
  /\ call' = [call EXCEPT ![c] = IF @.at = Len(Delivered[c]) THEN [@ EXCEPT !.step = "done"]
                                 ELSE [step |-> "sample", at |-> @.at + 1, sample |-> 1]]
  /\ UNCHANGED <<memoryUsed, received, failed, totalSamplesReceived, sketchSamplesInserted,
                 MemoryRejections, tableVars, crashed>>

CallStep(c) ==
  \/ Unmatched(c) \/ Known(c) \/ Rejected(c) \/ Create(c) \/ InTable(c)
  \/ Creating(c) \/ Created(c) \/ Forward(c)

-----------------------------------------------------------------------------
(* The tracker; it counts the same samples as totalSamplesReceived *)

\* Planted fault: an update forgets what came before it although no time has passed.
MeasureAlways(t, total, elapsed) ==
  LET rates == IF elapsed > 0 THEN Append(t.rates, total - t.lastTotal) ELSE t.rates
  IN [t EXCEPT !.lastTotal = total, !.updates = @ + 1,
               !.rates = IF Len(rates) > TrackerWindow THEN Tail(rates) ELSE rates,
               !.forgotten = @ + IF Len(rates) > TrackerWindow THEN Head(rates) ELSE 0]

\* update: the samples since the last one give a rate; the oldest rate may leave.
Measure(t, total, elapsed) ==
  LET rates == Append(t.rates, total - t.lastTotal)
  IN IF elapsed = 0 THEN [t EXCEPT !.updates = @ + 1]
     ELSE [t EXCEPT !.lastTotal = total, !.updates = @ + 1,
                    !.rates = IF Len(rates) > TrackerWindow THEN Tail(rates) ELSE rates,
                    !.forgotten = @ + IF Len(rates) > TrackerWindow THEN Head(rates) ELSE 0]

Update ==
  /\ stage \in {"serving", "server"}
  /\ tracker.updates < MaxUpdates[path]
  /\ \E elapsed \in 0..1 : tracker' = Measure(tracker, totalSamplesReceived, elapsed)
  /\ UNCHANGED <<path, ingestVars, mainVars, crashed, tableVars, batchVars>>

-----------------------------------------------------------------------------
(* main after the signal *)

Passes(from, to) == stage = from /\ stage' = to

Signal == Passes("serving", "server") /\ UNCHANGED <<nextId, timedOut, tableVars, crashed>>

\* Shutdown waits for the requests that run, but not for ever.
Shutdown ==
  /\ Passes("server", "tracker")
  /\ timedOut' = \E c \in Http : Running(c)
  /\ UNCHANGED <<nextId, tableVars, crashed>>

StopTracker == Passes("tracker", "scrape") /\ UNCHANGED <<nextId, timedOut, tableVars, crashed>>

\* promscrape.Stop returns when no scrape runs.
StopScrape ==
  /\ Passes("scrape", "forwarder")
  /\ \A c \in Calls \ Http : ~Running(c)
  /\ UNCHANGED <<nextId, timedOut, tableVars, crashed>>

StopForwarder == Passes("forwarder", "storage") /\ UNCHANGED <<nextId, timedOut, tableVars, crashed>>

\* Planted fault: the loop stays at an id that leads to no series.
Skip(n) == IF getByID(n) = 0 THEN n ELSE n + 1

\* The next id of the loop.
After(n) == n + 1

StopStorage ==
  /\ stage = "storage" /\ nextId < id
  /\ nextId' = After(nextId)
  /\ \/ StopPanics(nextId) /\ crashed' = TRUE /\ UNCHANGED tableVars
     \/ StopBackgroundClean(nextId) /\ UNCHANGED crashed
  /\ UNCHANGED <<stage, timedOut>>

Exit ==
  /\ nextId >= id /\ Passes("storage", "exited")
  /\ UNCHANGED <<nextId, timedOut, tableVars, crashed>>

MainStep == Shutdown \/ StopTracker \/ StopScrape \/ StopForwarder \/ StopStorage \/ Exit

-----------------------------------------------------------------------------
Alive == path # "batch" /\ ~crashed /\ stage # "exited"

Main == Alive /\ MainStep /\ UNCHANGED <<path, ingestVars, tracker, batchVars>>
Works(c) == Alive /\ CallStep(c) /\ UNCHANGED <<path, tracker, mainVars, batchVars>>

Next ==
  \/ Alive /\ Signal /\ UNCHANGED <<path, ingestVars, tracker, batchVars>>
  \/ \E c \in Calls : Alive /\ (Request(c) \/ Scrape(c)) /\ UNCHANGED <<path, tracker, mainVars, batchVars>>
  \/ \E c \in Calls : Works(c)
  \/ Alive /\ Update
  \/ Main
  \/ path = "batch" /\ BatchNext /\ UNCHANGED <<path, ingestVars, tracker, mainVars, crashed, tableVars>>

\* Goroutines run on; nobody need deliver, signal or look at the clock.
Fairness == WF_vars(Main) /\ \A c \in Calls : WF_vars(Works(c))

Spec == Init /\ [][Next]_vars /\ Fairness

-----------------------------------------------------------------------------
(* Properties *)

Stopped == {i \in DOMAIN memSeries : memSeries[i].stopped}
WithUniv == {i \in DOMAIN memSeries : memSeries[i].instances = "ehuniv"}

\* The table finds each label set's newest series and ids lead to one series each, however
\* creations race.  The loop of a quiet shutdown stops every series but the newest, whose
\* id it does not reach; only a request that Shutdown left behind can make it panic.
TableServesItsCallers ==
  /\ SeriesAreFound /\ IdsAreShared
  /\ stage = "exited" /\ ~raced /\ ~timedOut =>
       Stopped = {i \in WithUniv : memSeries[i].id < id}
  /\ crashed /\ stage = "storage" => timedOut

InHand == {c \in Calls : Step(c) \in {"create", "creating"}}
Lost == {c \in Calls : Step(c) = "aborted"}

\* Every sample that a call has taken up is counted once, and is then inserted, rejected,
\* in hand or lost in a panic; none is forwarded before it is counted, nor queued behind
\* the forwarder's back unless Shutdown timed out; the tracker's intervals part the
\* samples; and a batch's counters agree with what its nodes took and passed over.
CountsAddUp ==
  /\ sketchSamplesInserted + MemoryRejections + Cardinality(InHand \cup Lost)
       = totalSamplesReceived
  /\ backendSamplesForwarded <= totalSamplesReceived
  /\ unread => timedOut
  /\ tracker.lastTotal <= totalSamplesReceived
  /\ tracker.lastTotal = tracker.forgotten
       + SumOver(tracker.rates, DOMAIN tracker.rates)
  /\ received = Cardinality({c \in Http : Step(c) # "none"})
  /\ failed = Cardinality({c \in Http : Step(c) = "refused"})
  /\ BatchIsCounted

\* A signal ends the process, whatever requests and scrapes are at: main waits for them
\* in bounded time, and the loop over the ids ends though they may add more.
ShutdownEnds == stage = "server" ~> stage = "exited" \/ crashed
=============================================================================
