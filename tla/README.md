# Formal model of PromSketch-Dropin

TLA+ specifications of the parts of PromSketch-Dropin where the order of events or
the arithmetic of sliding windows matters, TLC configurations that check them on
small instances, and TLAPS proofs of the properties that matter most, for every
value of the constants. Paths below are relative to the repository; line numbers
are in `PROJECT.json`, whose `map` names the code each definition stands for.

To check a run: `tlc -config <cfg> <module>`; to check the proofs:
`tlapm <module>_proofs.tla`.

## The system

PromSketch-Dropin stands between producers of time series (remote write, OTLP,
scraping) and a metrics backend (Prometheus, VictoriaMetrics). It forwards every
sample to the backend and keeps sketches of the series that match a target, from
which it answers a class of PromQL queries; all others go to the backend. It is
deployed in two ways, and has a command line tool.

* **Monolithic**, `cmd/promsketch-dropin`: ingestion, storage, forwarder and
  query router in one process.
* **Distributed**: `pskinsert` receives samples and sends each to the `psksketch`
  nodes of its partition; `psksketch` keeps sketches; `pskquery` asks all nodes
  and merges. There is no coordinator: all read the same static configuration.
* **`pskctl`** backfills history and runs benchmarks.

### Components

| Component | State | Operations | Interacts with | What is hard | What makes it correct |
|---|---|---|---|---|---|
| Circuit breaker `cluster/health/circuit_breaker.go` | state, failures, successes, last failure | Allow, RecordSuccess, RecordFailure | owned by the health checker | reports of old requests arrive in any state | a closed breaker is below its threshold; it closes when the node is well |
| Health checker `cluster/health/checker.go` | Healthy and a breaker for each node | probing goroutine, IsHealthy, RecordSuccess, RecordFailure | probes nodes; told of RPC outcomes by both routers | answers are recorded long after they were true, by two parties | flag and breaker agree; dead nodes are skipped, live ones used again |
| Partition mapper `cluster/hash/partitioner.go` | none after construction | primary and replicas of a partition | insert router, storage | ownership and replica choice are two different rules | each partition has one owner |
| Insert router `pskinsert/router/router.go` | one call's targets, RPCs, count of successes | Insert, BatchInsert | health checker, gRPC nodes | one success of several is enough; timeouts | what is acknowledged was stored; counters tell what nodes took |
| psksketch server `psksketch/server/grpc.go` | none of its own | Insert, BatchInsert, LookUp, Eval, Stop | storage | late requests, restarts | a response tells what storage did |
| Sketch storage `storage/storage.go`, `promsketch/promsketches.go` | table of series, three sketches for each, memory counter | Insert, LookUp, Eval, Stop | sketches, partitioner | check, creation and insertion are not one step; pointers and ids without locks | a series has all its sketches and is found, samples are not lost, memory is bounded |
| Histogram of KLL sketches `promsketch/ExponentialHistogram.go` | buckets over a sliding window | Update, Cover, interval query | storage | expiry, merging, late samples, index arithmetic | an answer covers the interval asked for |
| Histogram of UnivMon sketches `promsketch/exponential_univmon_optimized.go` | maps of recent samples, sketches of older ones | Update, Cover, interval query | storage, universal sketch | two layers that are promoted, merged and expired | each sample of the window once; answers err at the edges |
| Uniform sampling `promsketch/uniformsampling.go` | sampled samples of the window | Insert, UpdateWindow, Cover, queries | storage | size limit overrides the window | covered statistics are those of the samples |
| Other histograms `ExponentialHistogram.go`, `SmoothHistogram.go` | buckets or instances | Update, queries | the package's tests only | a pool cleaned by two goroutines, also in the middle of an Update; pruning while shifting | what is kept stands for the window |
| Sketches `CountSketch*.go`, `UnivMon.go`, `heap.go` | counters, heaps, layers | update, merge, query | histograms | partial layers, heaps, merging | exact where nothing collides |
| Backend forwarder `backend/forwarder.go` | queue, current batch, flush signal | Forward, worker, timer, Stop | backend clients | two goroutines, any number of callers, retries, a shutdown | nothing accepted is lost, doubled or overtaken on the way |
| Ingestion `ingestion/...` | counters | remote write, OTLP, scrape, pipeline | storage, forwarder | errors of one half are ignored; requests that outlive the shutdown | each sample reaches both and is counted once |
| Ingestion statistics `ingestion/stats/tracker.go` | last total, rates of a window | update, Snapshot | status page | an update without elapsed time | intervals part the samples |
| Query router `query/router/router.go`, `query/api`, `query/parser`, `query/capabilities` | counters | Query, QueryRange | storage, backend | LookUp and Eval are separate steps over a moving window; fallback | an answer is the sketches' or the backend's; every miss falls back |
| Query merger `pskquery/merger/merger.go`, `cmd/pskquery` | semaphore, counters | Query, QueryRange | nodes, backend | nodes that fail or answer late, clients that leave | no slot is lost; a sketch answer is whole |
| Backfill `cmd/pskctl/backfill.go` | checkpoint in memory and in a file | start, resume, chunk loop | source, target, the file system | kills, failures of single series, runs that overlap | a checkpoint and a completion are true |
| Binaries `cmd/...` | stage of the shutdown | start, signal, stop | all of the above | what is stopped first, what still runs | the shutdown ends |
| Node discovery `cluster/discovery` | list of nodes | Discover, Watch | no binary uses it | - | - |
| HTTP API, UI, metrics, configuration, backend clients | none | formatting, parsing, I/O | - | - | - |

### How they interact

A sample of the distributed deployment: `Router.Insert` asks the mapper for the
nodes of the sample's partition and the health checker about each; every node
that passes gets an RPC with a deadline, in a goroutine that reports the outcome
to the health checker and counts a success. The node's server passes the sample
to `Storage.Insert`, which drops it silently if it matches no target, rejects it
if the node does not own the partition, and otherwise finds or creates the
sketches of the series and updates them. The router acknowledges if one RPC
succeeded. In the monolithic deployment the pipeline calls `Storage.Insert` for
each sample and then `Forwarder.Forward` for the series.

A query is parsed and shown to the capability registry. If the registry accepts it,
the drop-in's router looks the series up by its full label set and evaluates;
`pskquery` takes a slot, sends Eval to every node and merges what they answer. In
both, nothing found is a miss, and a miss, like a query the registry refuses, goes
to the backend.

`PROJECT.json` lists the hazards, each at its line, with the properties that
would catch it going wrong or the reason why none does.

## The modules

| Module | Models | Composes |
|---|---|---|
| `CircuitBreaker` | the breaker as a value, its methods as operators | |
| `HealthChecker` | probing goroutine, requests that report, nodes that go down | `CircuitBreaker` |
| `PartitionMapper` | ownership, validation, replica choice, as operators | |
| `InsertPromise` | what a caller of `Router.Insert` may rely on (abstract) | |
| `InsertRouter` | Insert, its RPCs, the server's handler, crashes, partitions of the network | `HealthChecker`, `PartitionMapper`; implements `InsertPromise` |
| `BatchRouter` | BatchInsert: grouping, one RPC for each node, counting | `PartitionMapper` |
| `SeriesTable` | the hash map of series, ids, getOrCreate step by step, StopBackground | |
| `Ingest` | handlers, pipeline, tracker, the shutdown of the drop-in; a batch of pskinsert | `SeriesTable`, `BatchRouter` |
| `SketchStorage` | concurrent `Storage.Insert` and the promsketch calls it makes | |
| `WindowHistogram` | the KLL histogram of one series: Update, Cover, the interval query, LookUp and Eval | |
| `UniformSampling` | the sampling sketch of one series | |
| `SampleStream` | the samples that a sketch is fed | |
| `TopKHeap`, `CountSketches`, `UnivSketch` | top-k heap, count sketch, layered universal sketch, as operators | each uses the one before |
| `UnivHistogram` | the optimized UnivMon histogram | `UnivSketch`, `SampleStream` |
| `RunHistograms` | histograms of DD, count, count-sketch and pooled UnivMon buckets | `UnivSketch`, `SampleStream` |
| `SmoothHistograms` | the three smooth histograms | `UnivSketch`, `SampleStream` |
| `Sketches` | one of these structures, fed by the stream | the three above |
| `QueryPlan` | parser, registry, labels of a query, and what a selector means; operators | |
| `QueryPromise` | what both query paths promise a client (abstract) | |
| `QueryRouter` | the drop-in's query path over a live sketch | `UniformSampling`, `QueryPlan`; implements `QueryPromise` |
| `QueryMerger` | the query path of the cluster | `QueryPlan`; implements `QueryPromise` |
| `Forwarder` | callers, worker, timer, Stop, a backend that fails | |
| `Backfill` | runs of the command, chunk loop, checkpoint file | |
| `*_proofs` | theorems about the module they are named after; `InsertRouter_proofs` has those of `HealthChecker` too, `Delivery_proofs` those of `Forwarder` and `Backfill`, `Sketches_proofs` those of `UnivHistogram`, `RunHistograms` and `SmoothHistograms` | |
| `MC*` | small instances for TLC | |

Conventions. One action is one critical section, or one stretch of code between
two points where another goroutine or process can be seen. Names are the code's
where there is one. A definition whose comment begins *Planted fault* is not part
of a specification: it is what the definition after it would be with a plausible
mistake in it, and the `mutants` of `PROJECT.json` say which property must fail
when it is put in that definition's place.

### CircuitBreaker and HealthChecker

A breaker is a record; `hc.mu` and `cb.mu` make each method one step. Its clock is
one bit, `elapsed`: more than the timeout has passed since the last failure.
The counters stop at the value they are compared with. `nodes[n]` is the map entry
`{Healthy, breaker}`. The lock is *not* held during a probe or an RPC, so
`checkNode` is two steps, `ProbeReturns` (the answer) and `CheckNode` (its
recording), and an RPC is three, `SendRpc`, `RpcReturns`, `ReportRpc`. `up[n]` is
the environment's. A response whose `Success` is false is reported to nobody, as
in the code.

### InsertRouter and BatchRouter

`Insert` computes the targets; `SendToTarget` and `SkipTarget` are one iteration of
the loop, in the order primary first, then replicas by weight; `Returns` and
`Reports` are an RPC's goroutine; `Finish` is what follows `wg.Wait`. `rpc[c][n]`
is the RPC as the caller sees it and `net[c][n]` as the server does: after
`Disconnect` the caller may have had its deadline while the server still serves
the request. `Crash` erases a node's sketches. `ServeInsert` may reject a sample
that the node owns (memory limit). `store[n]` is the set of samples in a node's
sketches; what happens inside one node is `SketchStorage`.

`BatchRouter` takes any answer of the health checker, for each series anew, since
what it does with the answers does not depend on the checker's state: `Group` is one
iteration of the grouping loop, `SendGroup` to `BatchFails` the goroutine of a group and
its handler, `BatchReturns` what follows `wg.Wait`. The handler goes through its group
once (`ServeBatch`) and counts what `Storage.Insert` returns: nil for a series that no
target matches (`Passed`), which is tested before the partition, so primary and
replicas all count its samples as inserted and none has them; an error for a
partition that is not the node's; otherwise it is stored, or rejected for memory
(`Storable`). `BatchIsCounted` therefore adds the unmatched samples of each node that
answered. No binary calls `Router.BatchInsert`: `pskinsert` sends sample by sample.

These modules check properties of the sketch copy only: `pskinsert` also forwards to
the backend, which is `Forwarder`.

### SeriesTable and Ingest

`memSeries[i]` is the i-th object made; `unique` and `conflicts` are the two maps of
`sketchSeriesHashMap`, `series` the ids. The stripe locks protect one map operation, so
`getOrCreate` is `Look`, `LoadId`, `StoreId`, `Publish`, `Index`; `sketchSeries.id` is
loaded, stored and read again without a lock. `Allocate` and `MakeUniv` stand for the first
and the last function that `createSketchInstance` lists, which is what the loop of
StopBackground looks at; all functions and all three sketches are in `SketchStorage`.

In `Ingest` a call is one delivery of parsed series; `call[c]` is the place in the
pipeline's loops. Each sample is counted and inserted, each series forwarded once after its
samples. `Unmatched`, `Known`, `Rejected` and `Create` are the ways through
`Storage.Insert`. Main's shutdown is one action for each stage (`Signal`, `Shutdown`,
`StopTracker`, `StopScrape`, `StopForwarder`, `StopStorage` for one id, `Exit`); Shutdown
may give up on requests, which then run on. A panic in a request is recovered by net/http
(`aborted`), one in a scrape or in main is not (`crashed`). The tracker keeps for each
interval the samples it counted; a rate is that over a time that no property is about.

### SketchStorage

Every look at a shared pointer and every write to one is a step: `hasSketchInstance`
(`CheckInstance`), the limit check (`CheckLimit`), and for each of the functions
that `createSketchInstance` lists a look at the map (`GetByHash`), perhaps the
registration of a new `memSeries` (`Publish`), a look at its pointers (`Look`) and
perhaps the setting of `sketchInstances` (`Alloc`) or of one sketch (`Make`); then
`Count`, and the insertion (`SketchInsert`, `Update` for each sketch). A `memSeries`
has the name of the call that made it.

### WindowHistogram

A sample is its position in the order of arrival, a KLL sketch the set of the samples it
has absorbed, a bucket the four arrays' entries at one index (indices start at 1 here).
Update holds the mutex throughout: `BeginUpdate` is expiry and the new bucket,
`SameSize`, `MergeRun` and `KeepRun` are the branches of one iteration, `EndUpdate` the
last merge. `LookUp` and `Eval` run when the mutex is free. `Eval` is
`QueryIntervalMergeKLL` up to its unlock; if a single bucket answers, its sketch is taken
from the array after the unlock, which is `ReadBucket`, at any point of an Update.
`Missing` says what the reader may find then: the index past the end, also in the moment
between expiry and append, or the nil that a merge leaves before it closes the gap.
`Cover` and `Answer` are operators, so properties can speak of every interval. That a
nil sketch cannot be queried is the KLL library's behaviour. Timestamps may be late
by `MaxLate`, or repeated.

### UniformSampling

Every method holds the mutex, so each call is a step. `Arr` is the code's slice; whether
Insert keeps a sample, `rand.Float64`, is a free choice. `WindowShift` is the search for the
first fresh sample, `ApplyLimit` the size limit that replaces the shift. Floats are avoided:
a quotient is a pair, a root is left undone, and the entropy's sum is kept as its
terms. `kept` is history: all samples ever appended. `calm` says that no sample came late,
none was dropped by the limit and the window was not made wider. `ValuesAt` is the loop that
appends the values of the samples that pass a test; `Sorted` says which value is the i-th
after sorting, by how many are smaller.

### The sketches

A behaviour of `Sketches` is that of one structure, chosen at the start. `SampleUniv`,
`SampleRuns` and `SampleSmooth` are one Update each, under the structure's
mutex. The Update of the pooled histogram is two steps: `CallPooled` expires buckets and puts
their sketches into the channel, `SamplePooled` takes a sketch from the pool
(`GetUnivSketch`: index 0 if it is free, else the end of the first gap of the bitmap, else the
next) and goes on to the unlock. `Clean` is a step of one of the two goroutines of the pool,
which need only the pool's mutex; as one may be held up with a sketch in hand, they clean in
any order, also between the two steps, so that an Update may be given the sketch it has just
expired. What an Update joins is given back too, after the only time it asks the pool. Loops over buckets that change the array while
they run are recursive functions (`MergePass`, `JoinRuns`, `PrunePass`), one visit for
one iteration. Hash values are constants: `Position` and `Sign` of a key in each row of a
count sketch, `HashBit` for the layers. The optimized histogram uses the counters in the
form in which the code updates them, so that the norm that decides a merge is the
stale `l2` of the code and not a recomputed one. Entropy is summed with the table `XLog2X`.
`UnivHistogram` numbers buckets over both layers from 0 like the code. Where an index leaves
its slice the code panics, and the answer is marked so instead of being defined away.

An instance of a smooth histogram is known by its start, the time of the sample it began
with, and queries look for starts. Of two samples with one time only the older instance
would hold both, so `SmoothHistogramsStandFor` speaks of streams whose times differ
(`TimesDiffer`), as those of the instance do. What the properties say of norms is for hash
values under which two rows are free of collisions (`TwoRowsApart`), which the instance has
as well: the code compares estimated norms, and a collision may make one shrink as samples
come.

### QueryPlan, QueryRouter, QueryMerger

An expression is a record of what the parser looks at. `Parse`, `CanHandle` and
`buildLabelsFromQuery` are the code's; `Selects` is what the selector means to a Prometheus
backend, the reference for the properties.

In `QueryRouter` samples arrive between any two steps of a query: `handleQuery` is the
handler up to the first look at storage, then `LookUp`, `EvalInstant` or one `EvalRangePoint`
for each step, `EvalRangeEnd`, and the backend's answer. Its storage has one series. The points of
an answer have the time 0, as `functions.go` sets no `T`; a range answer is their sequence.

In `QueryMerger` a query waits for a slot (`Acquire`, `GiveUpWaiting`), the fan-out is one
`NodeAnswers` or `NodeFails` for each node, a range query repeats it for each step
(`NextStep`), and `Hit` or `Miss` follows. The client may leave at any time, nodes crash,
lose their sketches and restart, and series are ingested meanwhile. `due` is history: the
series that were held when the nodes were asked and have not been lost since. The answer of
a node is the set of series, by labels; values are the sketch modules' business.

### Forwarder

`batchCh`, `currentBatch`, `flushCh` and `stopCh` are the code's; `sending` is the
batch inside `flush`. A `select` with several ready cases is a choice. `WriteBatch`
is one attempt: the backend may take the batch, report an error, or both.
`accepted`, `settled`, `failed` and `backend` are history.

### Backfill

`run[r]` is the program counter of one execution of the command, `checkpoint[r]` the
struct in its memory, `file` and `saved` what the file holds. `os.WriteFile` is two
steps, `Truncate` and `Write`; a run can be killed between them, and another run
can write in between. `received` is what reached the target; `skipped` what a run
passed over after an error and no run has sent since.

## What is checked

| Run | Instance | Shows |
|---|---|---|
| `health` | 1 node, 2 requests, threshold 2; 11,250 states | `HealthIsConsistent`: flag and breaker never contradict each other, a closed breaker is below its threshold; a dead node is skipped for good, a recovered one routed to for good without any request having to try it, and its circuit closes under traffic |
| `insert` | 2 nodes with a partition each, replication factor 2, a sketched and an unsketched sample, threshold 1, 1 outage, 1 round of probes; 655,558 states | `AckedOnPrimary`, and that the composition implements `InsertPromise` |
| `ingest` | four instances, a behaviour being of one: a request and a scrape that create the same series, two requests with memory for one series, a request beside 4 updates of the tracker, a batch of 3 series, one of them unmatched, for 3 nodes; 166,354 states | the table finds what was made although creations race; all counters agree with what became of the samples and of the batch; the shutdown ends |
| `forwarder` | queue and batch of 2, 2 attempts, 4 series; 46,200 states | `PipelineIsSound`: conservation, order, and the flush signal of a full batch; at most `MaxRetries` deliveries, order at the backend; an accepted series is sent or given up, and Stop returns |
| `storage` | 3 calls for one series, memory limit of one series; 2,568,046 states up to symmetry | the overshoot of the limit is bounded by the calls that race, a resting series has all its sketches, samples inserted into a complete series are kept |
| `histogram` | k = 2, window 4, 7 samples at times 0..7, late by 1 at most, one query; about 2.3 million states | only old samples are removed; few buckets of a size and small edges; Cover is true of samples in order; the interval query errs at its edges only; what was looked up finds a bucket inside the array |
| `sketches` | 5 to 8 samples of 2 values, steps of 1 and 3, windows of 5 to 8; 117,112 states | each kind of histogram keeps its window once, stands for exactly the samples it says, and errs at the edges of an interval only; recycled sketches are not shared, also when an Update takes what it has just given back |
| `query` | 1 query of 7 kinds, 3 samples, limit 2, windows 3 and 5; 86,850 states | covered answers are exact; at most one sample more than the limit; counters agree; queries end; `QueryPromise` |
| `merger` | 2 queries of 5 kinds, 1 slot, 2 nodes, 3 series, 1 crash; 318,388 states | slots and counters agree; a sketch answer to a plain selector is whole; queries are settled; `QueryPromise` |
| `backfill` | 2 runs, 2 matching series of different metrics and one that shares a metric, 3 steps of time in chunks of 2; 235,740 states | a readable checkpoint and a reported completion are true, only the metrics of what matches are copied, runs end |
| `storage_panic` | as `storage` | *violated*: a nil `sketchInstances` is dereferenced |
| `histogram_race` | as `histogram` | *violated*: a query's index is out of range after an Update between unlock and read |

### Bounds and why they are enough

* **health**: nodes do not interact in this module, so one stands for all (the
  proofs are for any number); two requests are what stale reports need, one in
  flight and one recorded; with a threshold of 2 there are failures below it.
  The breaker's counters are bounded by construction, nothing else is.
* **insert**: two nodes are the least with a primary and a replica; the sketched
  and the unsketched sample have different primaries, so each node is in both
  roles. One outage, which may be a crash or a disconnection at any moment, and
  one round of probes, which may span it. The theorems hold without these bounds.
* **ingest**: all label sets have one hash, so each series after the first is a conflict;
  two creators bring the same two series in opposite orders, so they race for an id, for
  one series and for two. A late request meets each stage of the shutdown. Three nodes,
  one of which owns no partition, give a batch groups that a node takes in whole, in part
  and not at all; the unmatched series is counted at each node that answers. `Paths` names the instances; they share a module because one state
  machine is checked in one run, and `MaxUpdates` and `MemoryFor` are their bounds.
* **forwarder**: with a queue and batches of two, four series fill a batch, begin
  another and fill the queue, so drops, full and partial flushes occur; two
  attempts give each of success at once, on retry, and giving up.
* **storage**: three calls give a creator, one that replaces what it created and
  one that has seen either. Of the functions mapped to each type of sketch the
  first `MaxFunctions` = 2 are kept: a further function of the same type runs the
  same code and finds its sketch. The theorems hold for all functions.
* **histogram**: with k = 2 the third sample brings the first merge and the seventh the
  first merge of merged buckets, which is where a count that is not reset would tell;
  times exceed the window, so buckets expire, in part of the behaviours all of them.
  `WrongAtTheEdgesOnly`, `CoveredIsKept` and the range of the index are checked for all
  intervals over the times; the two intervals of `MCIntervals` only drive the query's steps.
* **sketches**: `max_map_size` = 3 (61,440 in the code) is the least at which the newest
  map is not promoted, and lets the oldest be promoted after two keys; with 8 samples
  there are merged maps, several sketches, merged sketches and expired ones. K = 1 makes
  merges happen among so few. The two keys share a column in one of three rows, so a count sketch
  has a collision that its median hides; in three layers one key stops at the first, the other
  goes to the last. `UnivPoolCAP` = 1 makes the pool grow with the second sketch, and
  the window of 5 lets an Update expire buckets, have them cleaned and take one of them.
  All intervals are checked in each state.
* **query**: one query at a time is enough for its answer, since queries share only the
  sketch, which they do not change, and the counters; the counters are proved for any
  number. Times may be late; limit and window are small enough that both drop samples.
* **merger**: one slot and two queries make one wait; both may be of one kind. Of the three
  series one has exactly the labels of a request and one those and more. One crash may come
  at any moment of a fan-out, and the node comes back empty.
* **backfill**: two runs can follow one another or overlap; a range of 3 in chunks
  of 2 has a whole chunk and a shortened one. The theorems hold for any number.

`CHECK_DEADLOCK FALSE` is said where the system may come to rest: all calls, queries or
runs have ended, the forwarder or the process has stopped or panicked, all samples of a
bounded stream have arrived.

### Fairness

* **health**: weak fairness of the ticker (`CheckAll`), of probes and RPCs, which
  have deadlines (`ProbeReturns`, `RpcReturns`), of goroutines that can run
  (`CheckNode`, `ReportRpc`) and of the clock (`TimeoutElapses`). Requests, nodes and
  Stop are the environment's and not fair; the properties assume a node that stays
  up or down and a checker that is not stopped.
* **ingest**: weak fairness of main's steps and of each call's: goroutines run on, and
  Shutdown has its own timeout. Requests, scrapes, the signal and the tracker's clock are
  not fair.
* **forwarder**: Go's `select` chooses at random among ready cases, so a case that is
  ready again and again is taken: strong fairness of the worker's three cases. Weak
  fairness of attempts (each write has a timeout), the ticker, `TimerExits` and
  `StopReturns`. `Forward` and `Stop` are the environment's.
* **query**, **merger**: weak fairness of the steps of each query: a handler runs on, RPCs
  have `queryTimeout`, the backend's HTTP client has a timeout. Arrivals, samples, crashes,
  restarts and departures are not fair. That a query which waits for a slot gets one is not
  assumed; with weak fairness it follows as every holder ends.
* **backfill**: weak fairness of a run's steps once it has its series; queries and
  writes have timeouts. The request of `discoverSeries` uses the default client,
  which has none, so nothing is assumed of it. Kills are not fair.
* **insert**, **storage**, **histogram**, **sketches**: safety only.

## What is proved

| Module | Theorems | From |
|---|---|---|
| `InsertRouter_proofs` | of the health checker: types, `HealthIsConsistent`; of the router: types; `AckedOnPrimary`; the composition implies `HealthSafety`; it implements `InsertPromise` | `RouterAssumption` (the mapper accepted the configuration), `ThresholdAssumption` |
| `Ingest_proofs` | `TableServesItsCallers`; `CountsAddUp` | `IngestAssumption` (finitely many calls, each of some series), `BatchAssumption` (the mapper accepted the configuration) |
| `SketchStorage_proofs` | types; `OvershootIsBounded`; `RestingSeriesIsComplete`; `CalmSampleIsKept` | `StorageAssumption` |
| `WindowHistogram_proofs` | types; `RecentIsKept`; `CoveredIsKept`; `CoveredFindsABucket`; `WrongAtTheEdgesOnly`; `ShapeIsKept` | `HistogramAssumption` |
| `QueryRouter_proofs` | `SizeIsBounded`; `CountersAgree`; `CoveredAnswersAreExact`; refinement of `QueryPromise` | `SamplingAssumption`, `RouterAssumption` (positive steps, finitely many queries) |
| `QueryMerger_proofs` | types; `SlotsAndCountersAgree`; `AnswerIsWholeAndSelected`; refinement of `QueryPromise` | `MergerAssumption`, `SeriesAssumption` (a label set gives a label one value) |
| `Delivery_proofs` | of the forwarder: types; `PipelineIsSound`; `NothingHalfway`; `ForwardedIsReceived`; `BackendInOrder`; of the backfill: types; `CheckpointIsHonest`; `CopiesTheRange` | `ForwarderAssumption`, `BackfillAssumption` |
| `Sketches_proofs` | `WindowIsKept`; `RecyclingIsInvisible`; `SmoothHistogramsStandFor` | `SketchesAssumption` (finitely many keys), `RunAssumption`, `SmoothAssumption` (values, which are summed, are numbers), `UnivHistogramAssumption`, `CountSketchAssumption` (a hash value is a column, a sign is 1 or -1), `UnivSketchAssumption`, `StreamAssumption` (samples come in order) |

Every safety property and action property that the passing runs check, except two of
`sketches`, is stated by a theorem here, for any value of the constants that satisfies the
assumption: any number of nodes, calls, samples and series, any window, k, batch size and
number of retries.

**HealthChecker.** The properties are inductive together with the types: they
are facts about one node's record, and each method maps good records to good
records. The lemmas say what each method of the breaker does; the step lemma has
one case for each action.

**InsertRouter.** `AckedOnPrimary` is not inductive: an acknowledgement is the end of
a chain. `RouterInv` adds the links. `SuccessIsHeld`: a response on its way
(`net`), one that has arrived (`rpc`), a counted success and an acknowledgement each
imply that the primary has stored the sample or lost it in a crash.
`StoredOnPrimary`: nobody else stores it, since ranges do not overlap
(`PrimaryIsOwner`). For the refinement, in which a sample is kept once and never
again after it was lost, one needs `HeldIsServed`: a sample is stored when the
primary serves its request, and there is one request, because the loop comes to a
node once (`TodoIsUnsent`, `IdleIsUnsent`). The refinement maps Insert to Begin, a serving
primary to Keep, Crash to Lose, Finish to Acknowledge or Refuse, and all else to
stuttering. That each step is also a step of `HealthChecker` makes the theorems
there hold here.

**Ingest, the table.** That creators find what was made, although they race, is three facts.
`TableFound`: of the objects made for a label set the newest is the one that a lookup
finds, and the entries of a hash differ; `PublishFinds` is the lemma for the step that
prepends an entry or takes the free place. `IdInv`: an id leads to an object that has it, or
will once its maker has gone on. `RaceInv`: as long as no two callers were between load and
index at once, there are as many ids as objects made or about to be made, so ids count
them. `StopInv` then follows the loop of StopBackground through the ids. It needs the
shutdown: a main that did not give up on its requests comes to storage with no call left
(`Quiet`), so nobody adds a series while the loop runs, and no series is queued unread.

**Ingest, the counts.** At any moment the samples counted are those inserted, those rejected
for memory, and one for each call between the two (`Held`); those forwarded are bounded by
what is counted less what each call has taken of its current series (`TakenSum`). A step moves
one call, so it changes one term of such a sum (`OneCallMoves`). A
batch counts, node by node, what the nodes stored and what they passed over without an
error (`BatchCounts`). The rules for sums over a
finite set are proved from the definition of the fold: of the parts of the set on which a
rule fails there would be a smallest one (`MinimalSet`), and taking one element away from it
gives the contradiction.

**SketchStorage.** Each property needs to know what the calls under way will still do.
`Registered` and `Places` say which objects exist, which one each call works on and what
it has seen of it. For `RestingSeriesIsComplete` the link is `Repair`: whenever a registered
object has its sampling sketch but lacks another, some call is under way whose list of
functions still holds the missing one (`Covers`); it works because the list has
sampling first, `OrderFacts`. When a call replaces an object or a sketch, either it
covers what is missing then or another still does (`OthersStillCover`,
`RepairedByOthers`). `Bound` is the limit with the calls between check and count taken into
account: a count moves one from the second term to the first. `Calm` follows a
calm call through its updates: no call that saw the series incomplete is left, so nobody
replaces what it writes to (`CreatorsAreAlone`).

**WindowHistogram.** What a bucket says of its samples is true (`TimesAreTrue`), so a
bucket that expires holds old samples only, late or not. Removed samples came before
kept ones, and buckets stand in the order of arrival (`ArrivalOrder`); with samples in
order, a removed one is therefore older than the oldest time kept, which is what Cover
compares (`CoverIsTrue`). A merge takes the two oldest of at least three buckets, so the newest is
never merged and has one time (`NewestIsSingle`): no bound is nearer to its end than to
its beginning, and the index is not moved past it (`FromIsBucket`). `MergeKeeps` and
`BeginUpdateKeeps` are the two lemmas about the arrays; `SmallestExists`, that a set of
indices has a least, comes from the well-foundedness of finite sets in the library.

`WrongAtTheEdgesOnly` needs that the two times of a bucket are times of samples in it, which
is why `TimesAreTrue` says so: with samples in order, what a bucket claims and what the next
one claims then meet in one point at most (`DisjointTimes`), the bucket that holds a bound is
the first that can, and the answer is the samples of a range of buckets (`AnswerIsARange`).

`ShapeIsKept` is about numbers of samples. Sizes double from run to run towards the older end,
beginning with 1, and `K * size` is at most `2 * after + K`, where `after` counts the samples
behind the bucket (`Standing`). While the loop of Update counts a run, this run alone may
have one bucket more than is allowed (`Counting`); when it has, two of its buckets become one, the
bound is restored because `2 * same >= K + 4` buckets of this size stand behind the new
one (`JoinedIsSmall`), and counting begins anew with the next run, which the new bucket has
made longer by one. When it ends there are few of each size (`FewOf`). These lemmas speak of
sizes `z` and end positions `e` only, `HasSamples` ties them to the buckets, and
`ShapeInv` says that such positions exist. TLC has checked all of it for k = 1, 2, 3.

**QueryRouter.** The size follows from what Insert does to `Arr` (`InsertIsBounded`), which
holds for an `Arr` of any length, since UpdateWindow may have changed the limit. A counter
equals the number of queries in a phase or with an outcome, so each step is one of two kinds:
a query moves from one phase to another (`MoveKeeps`) or is answered (`AnswerKeeps`), and
`Recount` says by how much the cardinality of a set of queries changes then.
`OutcomeFits` ties phases to outcomes; in particular a query is evaluated only after it was
covered, which is what the refinement asks of an answer from the sketches.

`CoveredAnswersAreExact` has three parts. `CalmFacts`: as long as the sketch is calm, the
samples it ever kept stand in the order of their times, it holds the last of them, and those
it dropped are older than its window. `SearchFinds`: the recursion of `sort.Search` has one
solution on any set of indices closed upwards, and it is the first index of the set; a
shortest stretch of indices on which it were wrong would have a half on which it is. So
the indices the code finds, and those GetSamples walks over, are the samples of the interval
(`ChosenIsReference`, `ValuesAtStretch`). Last, the statistics that are not the
same expression on both sides: the frequencies of the values add up to the number of
samples (`FrequenciesAddUp`), the maximum starts from 0 and the minimum from some sample
(`MaxFromZero`), and the outermost quantiles are the extremes, for which every rank of a
finite sequence has a value (`RankExists`).

**QueryMerger.** Slots and counters are counted in the same way (`OneMore`, `OneLess`); every
path out of service goes through `End`, which gives the slot back, and `AtTheEnd` is its
lemma. That an answer is whole has three links. `HeldByOwner`: a series is held by the node
that owns its name, so what is due is there. A label set that contains the labels of a
query with a name has the same owner as these labels (`OwnerOfMatch`, from
`SeriesAssumption`), so this one node's answer is all there is, and if it fails nothing is
found and the query is a miss. `FoundFits`: what was found matches, and is all that is due or
the one exact series (`EvalIsWhole`). Last, for a plain selector, to contain its labels
is to be selected by it (`PlainMeansLabels`).

**Forwarder.** `PipelineConserves` says that the concatenation of the four stages is
what was accepted. It needs `WorkerHolds`: outside `flush` nothing is being sent, so
taking a series moves the boundary of two neighbours only; after the last flush the
current batch is empty. `Len(accepted) <= calls` bounds `queuedAtStop`. `MoveHead` and
`AppendToConcat` are the two facts about sequences.

For what the backend has, calls number the series, so the accepted ones increase
(`AcceptedInOrder`) and what is settled comes before what is being sent. `Arrivals`:
the backend has only series that are settled or being sent, a batch arrives whole, and no more
often than it was attempted. A retry therefore repeats a batch that has nothing behind it yet
(`ArrivesInOrder`), and first arrivals are in the order of acceptance.

**Backfill.** Behind a checkpoint in the file (even while the file cannot be read) or
in a run's memory everything was attempted (`SavedCovered`, `RunsCovered`); in a chunk,
the series done with are covered to its end (`ChunkCovered`), so when none is left
the two ranges join at LastChunkEnd (`EndChunkKeeps`); a fresh run claims nothing
(`FreshRuns`) and a completed one stands at the end (`CompletedAtEnd`). What a query brings
has the metric of a matching series.

**Sketches.** A behaviour is that of one structure, and `SketchesInv` has a part for each:
an Update disturbs its own. `Stands` says where the buckets of a histogram of runs begin and end in the
stream: positions that increase to its end, each bucket with the times, size and sketch of
its part, only samples older than the window before the first. Joining two neighbours
removes one position, expiry removes the first ones, a new sample adds one. That few
buckets have one size is the argument of `WindowHistogram`, whose lemmas speak of sizes and
positions only, so `Sketches_proofs` instantiates that module with `RunK` and the sizes of
any of these histograms. The loop of Update is a recursive function over the bucket index; that it has a
solution (`RunPassIs`) and that a rule holds of all its entries come from a least index at which
they would not.

`PoolInv` says the same of the pooled histogram with the sketches put in the buckets' places
(`Loaded`), and of the pool: an index in use is that of one bucket or of one that waits
for a cleaner, and all others are clean. In the middle of an Update the buckets stand for the
time of its sample, which is not in the stream yet (`ExpiredAt`), so expiry and arrival are two
lemmas (`ExpiryKeeps`, `ArrivalKeeps`) and two steps of the pooled histogram (`ExpiredKeep`,
`PooledKeep`), with those of the goroutines between them. A join takes the index of the newer
bucket to `toclean`, which `IndicesOf` follows. `GapExists` says that GetUnivSketch returns an
index that is not in use, in the pool or the one by which it grows: if neither 0 is free nor a
gap ends, those in use are the first indices, and their number is the next (`FirstIndices`).

`UnivInv` has positions for both layers of the UnivMon histogram, the sketches ending where the maps begin.
`UnivEdgeIsLight` needs more: `Weighed` has for each map the sum of the norms of all newer
ones, and says behind which pair the loop stands. A pair it has passed was heavy, and stays
so as older maps are joined to it; a map of several samples was joined when the pair was light
against what was newer, and that only grows with the next samples. The norm of two joined
maps is at least the sum of theirs and at most twice that (`SquaresBoth`), which is where
the factor in the property is from. `calc_l22` and the feeding of a map to a sketch are
folds over a set of keys, whose order the library leaves open; `FoldExists`, `SumIsTable` and
`FeedIsTable` unfold them to a table over the parts of the set, and a rule that failed would fail for a
smallest part.

`SmoothInv` says that the instances of a smooth histogram were started with samples whose
numbers increase, that each was fed every sample since (`InstanceIs`, with counters and norms), that
the newest instance began with the newest sample, and that the two newest samples have
instances while they are young. Pruning thins the array (`Thinned`): it keeps the order and the
two newest (`NewestStay`), which the loop never comes to, and a gap it opens has the last instance
that is near behind it (`NearToIs`). What lies between is then light (`NearIsLight`), because
the squares of two parts add up to no more than that of both, and stays light: it no longer
changes, and the norm of the older instance only grows (`LighterWithMore`). `PrunesExist` and
`PruneKeeps` are about the pass as a recursive function, like `RunPassIs`. For the answers, the starts
increase, so the older age finds the older instance (`NearestInOrder`); counters are linear
(`MinusCounts`), and the samples since one start are those between two starts, followed by
those since the second (`PartsJoin`). The invariant speaks of the numbers of samples, so it
needs no `TimesDiffer`; only to find an instance by its start does (`InstanceFacts`).

The invariant was first tried on TLC's instances, and an attempt to prove
`RunNormsAreExact` showed that its precondition was too weak: with one row free of
collisions the median of three is not decided; it asks for two now.

**Only model-checked.** Liveness: `DeadNodeIsSkipped`, `RecoveredNodeIsRouted`,
`CircuitCloses`, `AcceptedIsSettled`, `StopEnds`, `ShutdownEnds`, `QueryEnds`,
`QueriesAreSettled`, `BackfillEnds` (there is no rule for fairness in the prover). Two
properties of `sketches`: `SketchesAreExact` and `AnswersErrAtTheEdges` compare what a query
computes from the top-k heaps of all layers, fed item by item and halved and doubled from
layer to layer, with sums over the samples. A key that collides in some row is estimated by
a median of wrong counters, and which keys a heap of limited size holds depends on the order
of all earlier updates; a proof would have to carry the heap's contents through every update
and merge, by an induction over data for each of the nested folds, which the provers do not
offer.

## Findings

With a run:

1. *Storage* (`storage_panic`): a `memSeries` is registered before its sketches are set, and
   readers dereference the nil pointer.
2. *KLL histogram* (`histogram_race`): the interval query reads its array after releasing the
   mutex; an Update in between makes it panic.

Plain from the source, met while modelling; `PROJECT.json` quotes what the documents say:

3. *Breaker*: the comment of `Allow` promises exactly one probe while half-open; every
   caller is let through.
4. *Replication*: the documents promise that a replication factor of two survives a node.
   The router does send to a replica, chosen by rendezvous hashing over all nodes, but
   storage rejects partitions outside the node's range and ranges may not overlap, so every
   replica rejects everything. `AckedReachedPrimary` is the theorem that nothing is ever
   on a second node.
5. *Forwarder*: the comment says that remaining samples are flushed; those in the queue are not.
6. *Storage*: the memory limit is exceeded by racing calls; `OvershootIsBounded` is the
   bound that does hold.
7. *Backfill*: a failing series is skipped and the chunk counts as complete; this is the
   `skipped` in `CheckpointIsHonest`.
8. *Backfill*: the query for a series is its metric name, so series that do not match are
   copied, and series of one metric are sent once for each other.
9. *Backfill*: a run killed while it saves leaves no readable checkpoint.
10. *KLL histogram*: a bound that lies in no bucket selects the first bucket instead of the
    nearest, so samples well inside a covered interval may be missing; `WrongAtTheEdgesOnly`
    has the precondition that excludes this.
11. *Queries*: the merger and the server call Eval without LookUp.
12. *Queries*: a range query of the drop-in looks up [start, end] but evaluates windows that
    begin before start.
13. *Queries*: matchers other than `=` are dropped before the sketches are asked.
    `AnswerIsWholeAndSelected` speaks of plain selectors for this reason. Offset and `@` are
    not looked at either, and a series with exactly the labels asked for hides the others.
14. *Merger*: QueryRange reads `resp.Samples`, which the server never fills, so the cluster
    answers no range query from sketches.
15. *Storage*: of the documented overrides of k and kll_k none reaches a sketch.
16. *UnivMon histogram*: joining two sketches leaves the norm by which the next join is
    decided as it was; `UnivHistogram` keeps the stale norm, and `UnivEdgeIsLight` is the
    bound for maps, where it is exact.
17. *UnivMon histogram*: with both ends of the interval in the newest sketch the query may
    index past it.
18. *Smooth histogram*: a query of an empty one returns with the mutex held.
19. *Ingestion*: the pipeline's error counter never moves, unmatched samples count as inserted
    (in a batch at every node that answers), and the forwarder counts dropped series as samples.

A step of 0 lets the loop of either range query run for ever; the models assume positive steps
(`RouterAssumption`, `MergerAssumption`), which no handler checks.

## What is not modelled

* The sketches' error bounds (probabilistic) and the CountMin and EffSum sketches, memory
  estimates, printing, `samplingcache.go` and `vmsketches.go`, which no production code uses.
* The parsers of metrics and queries (libraries; their results are inputs), configuration,
  metrics, UI and wire formats (no state); xxhash, gRPC, HTTP and the file system, which
  appear as constants or nondeterministic environment actions.
* Node discovery, which no binary uses; `executeBackfill` and `LookUpAndUpdateWindow` of the
  histograms with its UpdateWindow, which nothing calls; `del` of the series table, which
  nothing calls.
* Within modelled modules: ties of a 64-bit hash; the rule that the first matching target
  wins (a series is matched or not); reads for status pages (Health, Stats, Metrics, the
  tracker's Snapshot, whose atomics are read one by one); the latency ring of `pskquery`; the
  deep copy of a forwarded series; a request whose body fails to parse midway (`Ingest` refuses
  a request as a whole); the exit of the process when a listener cannot be opened.
* A wait of `PutUnivSketch` for a place in the channel: its 100 places are more
  than the samples of an instance.

## Plan

Done: the insert path with its health checking, single and batched; the ingestion of the
drop-in with its shutdown; the storage node with its table; the four histograms, the
sampling sketch and the sketches under them; both query paths; forwarder and backfill. All are
proved about, except as said under *Only model-checked*.

Next, in the order of what they would add:

1. Answers of the histograms of `Sketches` for hash values without collisions: there a heap with room for all keys
   holds the counts, and `AnswersErrAtTheEdges` would follow from the positions that
   `SketchesInv` already has.
2. A composition of `SketchStorage` with two sketches whose Update is a step, so that
   SketchInsert, which updates one after the other, meets LookUp and Eval of a query that
   needs them both.
3. Requests that fail midway: the series before the failure have been stored and forwarded,
   and the client sends all of them again.
