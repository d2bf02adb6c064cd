---------------------------- MODULE RunHistograms ----------------------------
(***************************************************************************)
(* internal/promsketch/ExponentialHistogram.go: the exponential histograms *)
(* of DD sketches, of counts, of count sketches and of universal sketches. *)
(* Buckets grow by size: of a run of equal sizes that is too long the two  *)
(* oldest are joined.  The four differ in what a bucket holds, so their    *)
(* buckets have one shape here, and the content in field of.  The          *)
(* universal sketches come from a pool that two goroutines clean beside    *)
(* Update: what an Update has expired may be clean before it takes a       *)
(* sketch for its own sample.                                              *)
(***************************************************************************)
EXTENDS SampleStream, UnivSketch

CONSTANTS RunK,         \* k
          RunWindow,    \* time_window_size
          UnivPoolCAP   \* sketches a pool starts with; 1 in the program

ASSUME RunAssumption == RunK \in Nat \ {0} /\ RunWindow \in Nat /\ UnivPoolCAP \in Nat \ {0}

VARIABLES dd, counts, css, held,
          pool,     \* the sketches by their index
          bm,       \* indices in use
          toclean,  \* indices given back, in the channel or with a goroutine
          adding    \* the sample of an Update under way, which holds ehu.mutex

runVars == <<dd, counts, css>>
pooledVars == <<held, pool, bm, toclean, adding>>

RunInit == dd = <<>> /\ counts = <<>> /\ css = <<>>
PoolInit == /\ held = <<>> /\ bm = {} /\ toclean = {} /\ adding = <<>>
            /\ pool = [i \in 0..UnivPoolCAP - 1 |-> NewUnivSketchPyramid]

-----------------------------------------------------------------------------
(* The rules all four share *)

RunBucket(t, of) == [min_time |-> t, max_time |-> t, bucketsize |-> 1, of |-> of]

Unexpired(buckets, t) ==
  LET n == Cardinality({i \in DOMAIN buckets :
                          \A j \in 1..i : buckets[j].max_time < t - RunWindow})
  IN SubSeq(buckets, n + 1, Len(buckets))

\* What two buckets of each kind hold together.  A DD sketch, external, is the sequence
\* of its samples; a pooled sketch comes with its index in the pool, and stays there.
MergeWithDD(a, b) == a \o b
AddCounts(a, b) == a + b
JoinHeld(a, b) == [index |-> a.index,
                   us |-> [MergeWith(a.us, b.us) EXCEPT !.bucket_size = @ + b.us.bucket_size]]
Join(kind, a, b) ==
  CASE kind = "dd" -> MergeWithDD(a, b)
    [] kind = "count" -> AddCounts(a, b)
    [] kind = "cs" -> CSMergeWith(a, b)
    [] kind = "univ" -> JoinHeld(a, b)

JoinNext(kind, buckets, i) ==
  LET a == buckets[i]
      b == buckets[i + 1]
  IN SubSeq(buckets, 1, i - 1)
       \o <<[min_time |-> a.min_time, max_time |-> b.max_time,
             bucketsize |-> a.bucketsize + b.bucketsize, of |-> Join(kind, a.of, b.of)]>>
       \o SubSeq(buckets, i + 2, Len(buckets))

IsTooLong(run) == 2 * run >= RunK + 4

StartRun(b, i) ==
  [b |-> b, run |-> IF b[i].bucketsize = b[i + 1].bucketsize THEN 2 ELSE 1]

\* Bucket i continues the run of the bucket after it, or ends it; joining the two
\* oldest of a run may lengthen the run before it.
VisitBucket(kind, p, i) ==
  IF p.b[i].bucketsize = p.b[i + 1].bucketsize
  THEN [p EXCEPT !.run = @ + 1]
  ELSE StartRun(IF IsTooLong(p.run) THEN JoinNext(kind, p.b, i + 1) ELSE p.b, i)

EndRun(kind, p) == IF IsTooLong(p.run) THEN JoinNext(kind, p.b, 1) ELSE p.b

\* From the newest bucket to the oldest.
RunPass(kind, buckets) ==
  LET pass[n \in 1..Len(buckets)] ==
        IF n = 1 THEN [b |-> buckets, run |-> 1]
        ELSE VisitBucket(kind, pass[n - 1], Len(buckets) - n + 1)
  IN pass
JoinRuns(kind, buckets) == EndRun(kind, RunPass(kind, buckets)[Len(buckets)])

-----------------------------------------------------------------------------
(* Update of each *)

DDUpdate(t, v) ==
  dd' = JoinRuns("dd", Append(Unexpired(dd, t), RunBucket(t, <<[t |-> t, v |-> v]>>)))

CountUpdate(t) ==
  counts' = JoinRuns("count", Append(Unexpired(counts, t), RunBucket(t, 1)))

CSRunUpdate(t, v) ==
  css' = JoinRuns("cs", Append(Unexpired(css, t),
                               RunBucket(t, CSUpdateString(NewCountSketch, v))))

RunUpdate(t, v) == DDUpdate(t, v) /\ CountUpdate(t) /\ CSRunUpdate(t, v)

-----------------------------------------------------------------------------
(* The pool *)

\* Index 0 if it is free, else the end of the first gap in the bitmap.  Without a gap it
\* is the index after those in use: of a new sketch when all the pool is in use.
GetUnivSketch ==
  LET ends == {i \in DOMAIN pool \ bm : i + 1 \in bm}
  IN CASE 0 \notin bm -> 0
       [] 0 \in bm /\ ends # {} -> CHOOSE i \in ends : \A j \in ends : i <= j
       [] OTHER -> Cardinality(bm)

PoolWith(i) ==
  IF i \in DOMAIN pool THEN pool
  ELSE [j \in 0..i |-> IF j = i THEN NewUnivSketchPyramid ELSE pool[j]]

\* Planted fault: the index is free again before the sketch is clean.
RemoveWithoutFree(i) ==
  i \in toclean /\ bm' = bm \ {i} /\ toclean' = toclean \ {i} /\ UNCHANGED <<held, pool, adding>>

\* By a goroutine, under the mutex of the pool only: also in the middle of an Update.
putUnivSketch(i) ==
  /\ i \in toclean
  /\ pool' = [pool EXCEPT ![i] = Free(@)]
  /\ bm' = bm \ {i}
  /\ toclean' = toclean \ {i}
  /\ UNCHANGED <<held, adding>>

\* The buckets, each with the sketch it holds.
HeldIn(grown) ==
  [n \in DOMAIN held |-> [held[n] EXCEPT !.of = [index |-> @, us |-> grown[@]]]]

Indices(buckets) == {b.of : b \in Range(buckets)}

\* Update takes ehu.mutex and gives back what has expired.  The 100 places of the channel
\* are more than the samples of an instance: the loop that waits for one is left out.
PutExpired(t, v) ==
  /\ adding = <<>>
  /\ adding' = <<[t |-> t, v |-> v]>>
  /\ held' = Unexpired(held, t)
  /\ toclean' = toclean \cup (Indices(held) \ Indices(held'))
  /\ UNCHANGED <<pool, bm>>

\* What is joined to another is given back too, after the pool has been asked.
PutJoined(grown, index, after) ==
  LET kept == {b.of.index : b \in Range(after)}
  IN /\ held' = [n \in DOMAIN after |-> [after[n] EXCEPT !.of = @.index]]
     /\ pool' = [i \in DOMAIN grown |->
                   IF i \in kept THEN (CHOOSE b \in Range(after) : b.of.index = i).of.us
                   ELSE grown[i]]
     /\ bm' = bm \cup {index}
     /\ toclean' = toclean \cup ((Indices(held) \cup {index}) \ kept)

AddToPool(grown, index, t, v) ==
  PutJoined([grown EXCEPT ![index] = FeedSample(@, t, v)], index,
            JoinRuns("univ", Append(HeldIn(grown),
                       RunBucket(t, [index |-> index, us |-> FeedSample(grown[index], t, v)]))))

\* The rest of Update, from the pool's mutex to the release of ehu.mutex.
AddUniv(t, v) ==
  /\ adding = <<[t |-> t, v |-> v]>> /\ adding' = <<>>
  /\ AddToPool(PoolWith(GetUnivSketch), GetUnivSketch, t, v)

-----------------------------------------------------------------------------
(* Queries.  Indices count from 1 here; none stands for the index that was not found. *)

\* The last bucket that contains t, as the loops leave it.
LastHolding(buckets, t, none) ==
  LET holding == {i \in DOMAIN buckets : buckets[i].min_time <= t /\ t <= buckets[i].max_time}
  IN IF holding = {} THEN none ELSE CHOOSE i \in holding : \A j \in holding : j <= i

NearerToEnd(b, t) == t - b.min_time > b.max_time - t

\* A start in no bucket, and one at the end of the last bucket, index past the buckets.
QueryIntervalMergeDD(t1, t2) ==
  LET n == Len(dd)
      holds == IF t1 < dd[1].min_time THEN 1 ELSE LastHolding(dd, t1, n + 1)
      to == IF t2 > dd[n].max_time THEN n ELSE LastHolding(dd, t2, n + 1)
      from == IF holds <= n /\ NearerToEnd(dd[holds], t1) THEN holds + 1 ELSE holds
  IN IF from > n THEN [kind |-> "panic"]
     ELSE [kind |-> "samples",
           samples |-> IF from < to
                       THEN FlattenSeq([i \in 1..to - from + 1 |-> dd[from + i - 1].of])
                       ELSE dd[from].of]

\* An end in no bucket counts as one in the oldest.
QueryIntervalMergeCount(t1, t2) ==
  IF Len(counts) = 1 THEN counts[1].of
  ELSE FoldSet(LAMBDA i, acc : acc + counts[i].of, 0,
               LastHolding(counts, t1, 1)..LastHolding(counts, t2, 1))

QueryIntervalMergeCS(t1, t2) ==
  IF Len(css) = 1 THEN css[1].of
  ELSE FoldLeft(LAMBDA acc, b : CSMergeWith(acc, b.of), NewCountSketch,
                SubSeq(css, LastHolding(css, t1, 1), LastHolding(css, t2, 1)))

QueryIntervalMergeUnivRun(t1, t2) ==
  LET n == Len(held)
      holds == IF t1 < held[1].min_time THEN 1 ELSE LastHolding(held, t1, 1)
      to == IF t2 > held[n].max_time THEN n ELSE LastHolding(held, t2, 1)
      from == IF NearerToEnd(held[holds], t1) THEN holds + 1 ELSE holds
  IN IF from > n THEN [kind |-> "panic"]
     ELSE [kind |-> "sketch",
           us |-> IF from < to
                  THEN FoldLeft(LAMBDA acc, b : JoinHeld([index |-> -1, us |-> acc],
                                                         [index |-> -1, us |-> pool[b.of]]).us,
                                NewUnivSketchPyramid, SubSeq(held, from, to))
                  ELSE pool[held[from].of]]

\* Cover of the first, second and fourth looks at the newest sample only, that of the
\* count sketches at the oldest.
CoverByWindow(buckets, mint) ==
  buckets # <<>> /\ mint >= buckets[Len(buckets)].max_time - RunWindow
CoverByBucket(buckets, mint) == buckets # <<>> /\ buckets[1].min_time <= mint

-----------------------------------------------------------------------------
(* Properties *)

SizesOf(buckets) == [i \in DOMAIN buckets |-> buckets[i].bucketsize]
PartOf(buckets, i) == SamplesOfBucket(SizesOf(buckets), i)

\* Of buckets that have expired what is old at time now.
RunsAreSound(buckets, now) ==
  LET sizes == SizesOf(buckets)
  IN /\ KeptFrom(sizes) >= 0
     /\ \A i \in 1..KeptFrom(sizes) : stream[i].t < now - RunWindow
     /\ \A i \in DOMAIN buckets :
          /\ buckets[i].min_time = PartOf(buckets, i)[1].t
          /\ buckets[i].max_time = PartOf(buckets, i)[sizes[i]].t
          /\ sizes[i] \in IF i = Len(buckets) THEN {1} ELSE {sizes[i + 1], 2 * sizes[i + 1]}
          /\ ~IsTooLong(Cardinality({j \in DOMAIN buckets : sizes[j] = sizes[i]}))

\* Every bucket holds just the samples that its place among the buckets says, none of
\* the window is lost, and the error stays bounded: sizes begin with 1 at the newest and
\* double from run to run, few of each.  A key that shares at most one row of counters is
\* counted without error.  An interval from a sample on that Cover accepts by the window
\* is in the buckets.
RunsHoldTheWindow ==
  /\ RunsAreSound(dd, Newest) /\ RunsAreSound(counts, Newest) /\ RunsAreSound(css, Newest)
  /\ \A i \in DOMAIN dd : dd[i].of = PartOf(dd, i)
  /\ \A i \in DOMAIN counts : counts[i].of = counts[i].bucketsize
  /\ \A i \in DOMAIN css, key \in Keys :
       IsClean(key) => EstimateStringCount(css[i].of, key) = HowMany(PartOf(css, i), key)
  /\ \A i \in DOMAIN stream :
       CoverByWindow(dd, stream[i].t) =>
         CoverByBucket(dd, stream[i].t) /\ CoverByBucket(css, stream[i].t)

\* A row in which no two keys meet adds up to the number of samples, and of its squares;
\* two such rows decide the median.
RunNormsAreExact ==
  TwoRowsApart => \A i \in DOMAIN css : /\ cs_l1(css[i].of) = css[i].bucketsize
                                        /\ cs_l22_new(css[i].of) = SquaresOf(PartOf(css, i))

\* An index belongs to one bucket or waits to be cleaned, what is free is clean, and a
\* bucket on a sketch used before holds nothing of its past, also where that sketch held
\* what the same Update has expired.
PooledSketchesAreNotShared ==
  /\ RunsAreSound(held, IF adding = <<>> THEN Newest ELSE adding[1].t)
  /\ \A i, j \in DOMAIN held : held[i].of = held[j].of => i = j
  /\ bm = {held[i].of : i \in DOMAIN held} \cup toclean
  /\ \A i \in DOMAIN held : held[i].of \notin toclean
  /\ bm \subseteq DOMAIN pool
  /\ \A i \in DOMAIN pool \ bm : Free(pool[i]) = pool[i]
  /\ \A i \in DOMAIN held : /\ pool[held[i].of].samples = PartOf(held, i)
                            /\ pool[held[i].of].bucket_size = held[i].bucketsize

Within(lo, hi) == Stretch(lo, hi + 1)

\* An answer that leaves out the first bucket when the start is nearer to its end, and
\* indexes past the last bucket when that is the only one: got is all there is between
\* the first bucket and t2, and nothing from before.
MissesFirstOnly(buckets, answer, got, t1, t2) ==
  LET first == buckets[LastHolding(buckets, t1, 1)]
      last == buckets[LastHolding(buckets, t2, 1)]
  IN /\ answer.kind = "panic" => last = buckets[Len(buckets)] /\ first = last
     /\ answer.kind # "panic" =>
          /\ \A i \in DOMAIN got : first.min_time <= got[i].t
          /\ \A i \in DOMAIN stream :
               stream[i].t > first.max_time /\ stream[i].t <= t2 =>
                 \E j \in DOMAIN got : got[j] = stream[i]

\* Two samples that the buckets keep, at different times.
Kept(buckets) ==
  {p \in (1..Len(stream)) \X (1..Len(stream)) :
     p[1] > KeptFrom(SizesOf(buckets)) /\ stream[p[1]].t < stream[p[2]].t}

\* Answers for an interval between two samples that are kept: counts and count sketches
\* take in all its buckets, the other two may leave out the first.
RunAnswersErrAtTheEdges ==
  \A p \in Kept(dd) :
    LET t1 == stream[p[1]].t
        t2 == stream[p[2]].t
        a == LastHolding(dd, t1, 1)
        b == LastHolding(dd, t2, 1)
        answer == QueryIntervalMergeDD(t1, t2)
        count == QueryIntervalMergeCount(t1, t2)
        cs == QueryIntervalMergeCS(t1, t2)
    IN /\ count >= Len(Within(t1, t2)) - (dd[a].bucketsize - 1)
       /\ count <= Len(Within(t1, t2)) + dd[a].bucketsize + dd[b].bucketsize - 2
       /\ \A key \in {k \in Keys : IsClean(k)} :
            EstimateStringCount(cs, key) = HowMany(Within(dd[a].min_time, dd[b].max_time), key)
       /\ MissesFirstOnly(dd, answer,
                          IF answer.kind = "panic" THEN <<>> ELSE answer.samples, t1, t2)

\* Between Updates: a query waits for ehu.mutex.
PooledAnswersErrAtTheEdges ==
  adding = <<>> => \A p \in Kept(held) :
    LET t1 == stream[p[1]].t
        t2 == stream[p[2]].t
        answer == QueryIntervalMergeUnivRun(t1, t2)
    IN MissesFirstOnly(held, answer,
                       IF answer.kind = "panic" THEN <<>> ELSE answer.us.samples, t1, t2)
=============================================================================
