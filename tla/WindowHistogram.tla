--------------------------- MODULE WindowHistogram ---------------------------
(***************************************************************************)
(* internal/promsketch/ExponentialHistogram.go, ExpoHistogramKLL: the      *)
(* buckets, each with a KLL sketch, that stand for the samples of one      *)
(* series over a sliding window, and the answers to min, max and quantile  *)
(* queries that are computed from them.                                    *)
(*                                                                         *)
(* A sample is named by its position in the order of arrival, and a sketch *)
(* is the set of the samples it has absorbed.  Update holds the mutex from *)
(* its first line to its last; the iterations of its loop are steps of     *)
(* their own.  LookUp and Eval are two calls, and Eval may also come       *)
(* without a LookUp: the Eval handler of a psksketch node does not call it. *)
(* Both hold the mutex to read, but an answer from a single bucket takes   *)
(* its sketch from the array after the mutex was released.                 *)
(*                                                                         *)
(* Timestamps are the producer's, so samples may arrive late or twice.     *)
(***************************************************************************)
EXTENDS Integers, Sequences, FiniteSets

CONSTANTS K,              \* the k of the histogram
          Window,         \* time_window_size
          Times,          \* bound: timestamps of samples, bounds of queries
          MaxLate,        \* bound: how far behind the newest a sample may be
          MaxSamples,     \* bound
          Queries,
          Intervals       \* bound: what queries ask for

ASSUME HistogramAssumption ==
  /\ K \in Nat \ {0}
  /\ Window \in Nat
  /\ Times \subseteq Nat
  /\ MaxLate \in Nat
  /\ MaxSamples \in Nat
  /\ Intervals \subseteq [mint : Times, maxt : Times]

VARIABLES buckets,        \* klls, min_time, max_time and bucketsize, oldest first
          locked,         \* the mutex is held by Update
          i,              \* Update's loop compares buckets i and i + 1
          same,           \* same_size_bucket
          arrived,        \* history: the timestamps in the order of arrival
          query,          \* query[q]: where the query stands
          interval,       \* interval[q]: what it asks for
          fromBucket      \* fromBucket[q]: the index it has found, or 0

queryVars == <<query, interval, fromBucket>>
updateVars == <<buckets, locked, i, same, arrived>>
vars == <<buckets, locked, i, same, arrived, query, interval, fromBucket>>

Init ==
  /\ buckets = <<>>
  /\ locked = FALSE
  /\ i = 0
  /\ same = 1
  /\ arrived = <<>>
  /\ query = [q \in Queries |-> "start"]
  /\ interval \in [Queries -> Intervals]
  /\ fromBucket = [q \in Queries |-> 0]

-----------------------------------------------------------------------------
NewBucket(t) ==
  [kll |-> {Len(arrived) + 1}, minTime |-> t, maxTime |-> t, size |-> 1]

\* Planted fault: a bucket goes with its oldest sample.
StaleByMin(b, t) == b.minTime < t - Window

Stale(b, t) == b.maxTime < t - Window

IsLate(t) == \E n \in DOMAIN arrived : arrived[n] > t + MaxLate

\* Update takes the mutex, removes stale buckets from the front up to the first that
\* is not, and appends one for the new sample.
BeginUpdate(t) ==
  /\ ~locked
  /\ Len(arrived) < MaxSamples
  /\ ~IsLate(t)
  /\ \E removed \in 0..Len(buckets) :
       /\ \A n \in 1..removed : Stale(buckets[n], t)
       /\ removed < Len(buckets) => ~Stale(buckets[removed + 1], t)
       /\ buckets' = Append(SubSeq(buckets, removed + 1, Len(buckets)), NewBucket(t))
  /\ locked' = TRUE
  /\ i' = Len(buckets') - 1
  /\ same' = 1
  /\ arrived' = Append(arrived, t)
  /\ UNCHANGED queryVars

Larger(s, t) == IF s > t THEN s ELSE t
Smaller(s, t) == IF s < t THEN s ELSE t

Join(b, c) ==
  [kll     |-> b.kll \cup c.kll,
   minTime |-> Smaller(b.minTime, c.minTime),
   maxTime |-> Larger(b.maxTime, c.maxTime),
   size    |-> b.size + c.size]

\* Bucket n takes in bucket n + 1, which is removed.
Merged(n) ==
  [m \in 1..(Len(buckets) - 1) |->
     IF m < n THEN buckets[m]
     ELSE IF m = n THEN Join(buckets[n], buckets[n + 1])
     ELSE buckets[m + 1]]

\* Planted fault: one bucket of a size more than the bound is waited for.
TooManyLate == 2 * same > K + 4

\* Planted fault: the buckets of a size are merged as soon as there are k/2 + 1.
TooManyEarly == 2 * same >= K + 2

\* same_size_bucket >= k/2 + 2, in floating point.
TooMany == 2 * same >= K + 4

\* The loop finds another bucket of the size it is counting.
SameSize ==
  /\ locked /\ i > 0
  /\ buckets[i].size = buckets[i + 1].size
  /\ same' = same + 1
  /\ i' = i - 1
  /\ UNCHANGED <<buckets, locked, arrived, queryVars>>

\* Planted fault: the two newest buckets of the run are merged, not the oldest.
MergeNewestOfRun ==
  /\ locked /\ i > 0
  /\ buckets[i].size # buckets[i + 1].size
  /\ TooMany
  /\ buckets' = Merged(i + same - 1)
  /\ same' = IF buckets'[i].size = buckets'[i + 1].size THEN 2 ELSE 1
  /\ i' = i - 1
  /\ UNCHANGED <<locked, arrived, queryVars>>

\* The run of equal sizes that ends at bucket i + 1 is too long: its two oldest
\* buckets become one, which may continue the run that bucket i begins.
MergeRun ==
  /\ locked /\ i > 0
  /\ buckets[i].size # buckets[i + 1].size
  /\ TooMany
  /\ buckets' = Merged(i + 1)
  /\ same' = IF buckets'[i].size = buckets'[i + 1].size THEN 2 ELSE 1
  /\ i' = i - 1
  /\ UNCHANGED <<locked, arrived, queryVars>>

KeepRun ==
  /\ locked /\ i > 0
  /\ buckets[i].size # buckets[i + 1].size
  /\ ~TooMany
  /\ same' = 1
  /\ i' = i - 1
  /\ UNCHANGED <<buckets, locked, arrived, queryVars>>

\* After the loop: the oldest run, and the mutex is released.
EndUpdate ==
  /\ locked /\ i = 0
  /\ buckets' = IF TooMany THEN Merged(1) ELSE buckets
  /\ locked' = FALSE
  /\ same' = 1
  /\ UNCHANGED <<i, arrived, queryVars>>

-----------------------------------------------------------------------------
\* Planted fault: an empty histogram is not told from one that covers everything.
CoverOfAny(mint, maxt) ==
  Len(buckets) > 0 =>
    /\ buckets[Len(buckets)].maxTime >= maxt
    /\ buckets[1].minTime <= mint

\* Planted fault: the beginning of the histogram is compared with the wrong bound.
CoverOfOverlap(mint, maxt) ==
  /\ Len(buckets) > 0
  /\ buckets[Len(buckets)].maxTime >= maxt
  /\ buckets[1].minTime <= maxt

Cover(mint, maxt) ==
  /\ Len(buckets) > 0
  /\ buckets[Len(buckets)].maxTime >= maxt
  /\ buckets[1].minTime <= mint

LookUp(q) ==
  /\ ~locked
  /\ query[q] = "start"
  /\ query' = [query EXCEPT ![q] = IF Cover(interval[q].mint, interval[q].maxt)
                                     THEN "covered" ELSE "backend"]
  /\ UNCHANGED <<updateVars, interval, fromBucket>>

\* QueryIntervalMergeKLL: the buckets that the bounds of an interval select.  A bound
\* that is in no bucket selects the first, except that t2 may be past the last.
Containing(t) ==
  {n \in 1..Len(buckets) : buckets[n].minTime <= t /\ t <= buckets[n].maxTime}

First(t) ==
  IF Containing(t) = {} THEN 1
  ELSE CHOOSE n \in Containing(t) : \A m \in Containing(t) : n <= m

Distance(s, t) == IF s > t THEN s - t ELSE t - s

\* The bucket of t1, or the next when t1 is nearer to its end.
From(t1) ==
  LET n == IF t1 < buckets[1].minTime THEN 1 ELSE First(t1)
  IN IF Distance(t1, buckets[n].minTime) > Distance(t1, buckets[n].maxTime)
       THEN n + 1
       ELSE n

To(t2) == IF t2 > buckets[Len(buckets)].maxTime THEN Len(buckets) ELSE First(t2)

\* Planted fault: the last bucket is left out.
AnswerWithoutLast(t1, t2) ==
  IF From(t1) < To(t2)
    THEN UNION {buckets[n].kll : n \in From(t1)..(To(t2) - 1)}
    ELSE buckets[From(t1)].kll

\* The samples in the sketch that is returned: a merged one, or that of one bucket.
Answer(t1, t2) ==
  IF From(t1) < To(t2)
    THEN UNION {buckets[n].kll : n \in From(t1)..To(t2)}
    ELSE buckets[From(t1)].kll

\* Under the mutex, QueryIntervalMergeKLL finds that there is no bucket and returns a
\* nil that min, max and quantile dereference, or merges the buckets, or is left with
\* the index of one.
Eval(q) ==
  LET mint == interval[q].mint
      maxt == interval[q].maxt
  IN  /\ ~locked
      /\ query[q] \in {"start", "covered"}
      /\ \/ /\ Len(buckets) = 0
            /\ query' = [query EXCEPT ![q] = "panic"]
            /\ UNCHANGED fromBucket
         \/ /\ Len(buckets) > 0
            /\ From(mint) < To(maxt)
            /\ query' = [query EXCEPT ![q] = "answered"]
            /\ UNCHANGED fromBucket
         \/ /\ Len(buckets) > 0
            /\ From(mint) >= To(maxt)
            /\ query' = [query EXCEPT ![q] = "reading"]
            /\ fromBucket' = [fromBucket EXCEPT ![q] = From(mint)]
      /\ UNCHANGED <<updateVars, interval>>

\* What a goroutine without the mutex may find at index n: the array ends before it, also
\* while Update has removed the stale buckets and not appended the new one, or the merge
\* that is next has set it to nil.
Missing(n) ==
  \/ n > Len(buckets)
  \/ locked /\ n = Len(buckets) /\ i = Len(buckets) - 1
  \/ locked /\ n = i + 2 /\ TooMany /\ (i > 0 => buckets[i].size # buckets[i + 1].size)

\* The mutex is free for others and the array is read.
ReadBucket(q) ==
  /\ query[q] = "reading"
  /\ \/ /\ fromBucket[q] <= Len(buckets)
        /\ query' = [query EXCEPT ![q] = "answered"]
     \/ /\ Missing(fromBucket[q])
        /\ query' = [query EXCEPT ![q] = "panic"]
  /\ fromBucket' = [fromBucket EXCEPT ![q] = 0]
  /\ UNCHANGED <<updateVars, interval>>

\* A panic ends the process: no interceptor of the gRPC server recovers from it.
Alive == \A q \in Queries : query[q] # "panic"

Next ==
  /\ Alive
  /\ \/ \E t \in Times : BeginUpdate(t)
     \/ SameSize
     \/ MergeRun
     \/ KeepRun
     \/ EndUpdate
     \/ \E q \in Queries : LookUp(q) \/ Eval(q) \/ ReadBucket(q)

Spec == Init /\ [][Next]_vars

-----------------------------------------------------------------------------
Samples == DOMAIN arrived
Kept == UNION {buckets[n].kll : n \in 1..Len(buckets)}

Bucket ==
  [kll : SUBSET Samples, minTime : Times, maxTime : Times, size : Nat \ {0}]

\* Types.  While Update holds the mutex, its loop is inside the buckets, and the run it
\* counts lies in those it has passed.
TypeOK ==
  /\ buckets \in Seq(Bucket)
  /\ locked \in BOOLEAN
  /\ arrived \in Seq(Times)
  /\ query \in [Queries -> {"start", "covered", "reading", "backend", "answered", "panic"}]
  /\ interval \in [Queries -> Intervals]
  /\ fromBucket \in [Queries -> Nat]
  /\ i \in Nat
  /\ same \in Nat \ {0}
  /\ locked => i < Len(buckets) /\ same <= Len(buckets) - i

\* A sample is removed only when one has arrived that is younger by more than the
\* window.  Expiry goes by the newest sample of a bucket, and merging must not hide a
\* fresh sample in a stale bucket, also when samples are late (Update, lines 104-120).
RecentIsKept ==
  \A n \in Samples \ Kept : \E m \in Samples : arrived[n] < arrived[m] - Window

\* The selected index stays inside the array although it is moved on after the range
\* checks: the newest bucket has one sample, whatever was merged, so that no time is
\* nearer to its end than to its beginning (QueryIntervalMergeKLL, line 262).
IndexInRange ==
  ~locked /\ Len(buckets) > 0 => \A t1 \in Times : From(t1) \in 1..Len(buckets)

\* Memory: between updates no more than k/2 + 1 buckets have the same size, so their
\* number grows with the logarithm of the samples (Update, the merging loop).
FewOfASize ==
  ~locked =>
    \A size \in {buckets[n].size : n \in 1..Len(buckets)} :
      2 * Cardinality({n \in 1..Len(buckets) : buckets[n].size = size}) < K + 4

\* Accuracy: between updates half of a bucket, the most that is uncertain at the edge
\* of an answer, is no more than 1/k of the samples that came after it, give or take
\* half a sample.  Merging too early or out of order breaks this.
EdgeIsSmall ==
  ~locked =>
    \A n \in 1..Len(buckets) :
      K * Cardinality(buckets[n].kll)
        <= 2 * Cardinality(UNION {buckets[m].kll : m \in (n + 1)..Len(buckets)}) + K

\* The exponential shape, on which both memory and accuracy stand.
ShapeIsKept == FewOfASize /\ EdgeIsSmall

InOrder == \A n, m \in Samples : n < m => arrived[n] < arrived[m]
Between(t1, t2) == {n \in Samples : t1 <= arrived[n] /\ arrived[n] <= t2}

\* What LookUp promises: of a covered interval no sample was removed, provided that the
\* samples came in order (Cover, line 182).
CoveredIsKept ==
  ~locked /\ InOrder =>
    \A t1, t2 \in Times : Cover(t1, t2) => Between(t1, t2) \subseteq Kept

\* Of samples that came in order, an answer whose bounds lie in two buckets is wrong at
\* these two only: it lacks no sample of the interval but from the first, and has no
\* others but from the two (QueryIntervalMergeKLL).
WrongAtTheEdgesOnly ==
  ~locked /\ InOrder =>
    \A t1, t2 \in Times : \A n, m \in 1..Len(buckets) :
      n \in Containing(t1) /\ m \in Containing(t2) /\ n < m =>
        /\ Between(t1, t2) \ Answer(t1, t2) \subseteq buckets[n].kll
        /\ Answer(t1, t2) \ Between(t1, t2) \subseteq buckets[n].kll \cup buckets[m].kll

\* A query that LookUp lets through is never answered with the nil of an empty histogram,
\* although any number of updates may come between LookUp and Eval: a histogram that has
\* had a sample keeps its newest (Cover, line 176; QueryIntervalMergeKLL, line 233).
CoveredIsNotEmpty ==
  [][\A q \in Queries : query[q] = "covered" => query'[q] # "panic"]_vars

\* A query that was looked up reads a bucket that exists: it is neither left without
\* buckets by later updates nor led out of the array by its own choice of the first.
CoveredFindsABucket == []IndexInRange /\ CoveredIsNotEmpty

\* docs/PROMSKETCH_LIBRARY_ANALYSIS.md, line 276, "Safe for concurrent insertion and
\* queries", and ExponentialHistogram.go, line 31, "when updating s_count and buckets,
\* query should wait": no query of a histogram that has had a sample ends in a panic.
ConcurrentQueryIsSafe == arrived # <<>> => Alive
=============================================================================
