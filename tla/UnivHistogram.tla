---------------------------- MODULE UnivHistogram ----------------------------
(***************************************************************************)
(* internal/promsketch/exponential_univmon_optimized.go: the histogram     *)
(* behind distinct, entropy, l1 and l2_over_time.  The newest buckets are  *)
(* maps with exact counts; when the oldest map has many keys it becomes a  *)
(* universal sketch, the newest of the older buckets.  Update holds the    *)
(* mutex throughout and is one step.  A map bucket is a record with the    *)
(* sequence of its samples, of which the program keeps the counts.         *)
(***************************************************************************)
EXTENDS SampleStream, UnivSketch

CONSTANTS K,               \* k: the smaller, the more is merged
          UnivWindow,      \* time_window_size
          max_map_size

\* EHUniv_MAX_MAP_SIZE is 61440.  Above 2 the newest map, of one key, is never promoted.
ASSUME UnivHistogramAssumption ==
  /\ K \in Nat \ {0} /\ UnivWindow \in Nat /\ max_map_size \in Nat /\ max_map_size > 2

VARIABLES univs, map_buckets

univVars == <<univs, map_buckets>>

s_count == Len(univs)
map_count == Len(map_buckets)

UnivInit == univs = <<>> /\ map_buckets = <<>>

-----------------------------------------------------------------------------
(* Update *)

\* Buckets at the front that ended before the window of a sample at t.
Removed(buckets, t) ==
  Cardinality({i \in DOMAIN buckets : \A j \in 1..i : buckets[j].max_time < t - UnivWindow})

\* Planted fault: a bucket expires with its first sample.
ExpireEarly(buckets, t) ==
  LET n == Cardinality({i \in DOMAIN buckets :
                          \A j \in 1..i : buckets[j].min_time < t - UnivWindow})
  IN SubSeq(buckets, n + 1, Len(buckets))

Expire(buckets, t) == SubSeq(buckets, Removed(buckets, t) + 1, Len(buckets))

\* min_map_size is 1: a map of one sample is full, so every sample opens one.
NewMap(t, v) == [min_time |-> t, max_time |-> t, bucket_size |-> 1,
                 samples |-> <<[t |-> t, v |-> v]>>]

MapKeys(bucket) == {key \in Keys : HowMany(bucket.samples, key) > 0}

calc_l22(bucket) == SquaresOf(bucket.samples)

MergeMaps(older, newer) ==
  [min_time |-> older.min_time, max_time |-> newer.max_time,
   bucket_size |-> older.bucket_size + newer.bucket_size,
   samples |-> older.samples \o newer.samples]

\* Buckets i and i + 1 are light compared with all that is newer than them.
IsLight(older, newer, sum) == K * (older + newer) <= sum

univ_l22(us) == cs_l22(us.cs_layers[0])

JoinUnivs(older, newer) ==
  [MergeWith(older, newer) EXCEPT
     !.bucket_size = @ + newer.bucket_size,
     !.min_time = IF older.min_time < newer.min_time THEN older.min_time ELSE newer.min_time,
     !.max_time = IF older.max_time > newer.max_time THEN older.max_time ELSE newer.max_time]

L22Of(layer, bucket) == IF layer = "maps" THEN calc_l22(bucket) ELSE univ_l22(bucket)
JoinIn(layer, older, newer) ==
  IF layer = "maps" THEN MergeMaps(older, newer) ELSE JoinUnivs(older, newer)

\* Bucket n and the next are joined, or the next counts for the pairs before it.
VisitPair(layer, p, n) ==
  IF IsLight(L22Of(layer, p.b[n]), L22Of(layer, p.b[n + 1]), p.sum)
  THEN [p EXCEPT !.b = SubSeq(@, 1, n - 1) \o <<JoinIn(layer, @[n], @[n + 1])>>
                         \o SubSeq(@, n + 2, Len(@))]
  ELSE [p EXCEPT !.sum = @ + L22Of(layer, p.b[n + 1])]

\* From the newest pair to the oldest, once, in the layer of the maps or of the
\* sketches; sum is what is newer than the pair.
PairPass(layer, buckets, sum0) ==
  LET pass[i \in 0..Len(buckets)] ==
        IF i = 0 THEN [b |-> buckets, sum |-> sum0]
        ELSE IF i = Len(buckets) THEN pass[i - 1]
        ELSE VisitPair(layer, pass[i - 1], Len(buckets) - i)
  IN pass
MergePass(layer, buckets, sum0) == PairPass(layer, buckets, sum0)[Len(buckets)]

\* A universal sketch of the counts of maps, added to us; the samples are history.
FeedMap(us, samples) ==
  LET counts == {key \in Keys : HowMany(samples, key) > 0}
  IN [FoldSet(LAMBDA key, acc :
                univmon_processing_optimized(acc, key, HowMany(samples, key)), us, counts)
        EXCEPT !.samples = us.samples \o samples]

Promoted(bucket) ==
  FeedMap([NewUnivSketchPyramid EXCEPT !.min_time = bucket.min_time,
                                       !.max_time = bucket.max_time], bucket.samples)

TooManyKeys(bucket) == 2 * Cardinality(MapKeys(bucket)) >= max_map_size

\* The oldest map is promoted when it has many keys; the sketches are merged only then.
SetBuckets(maps, sketches) ==
  IF TooManyKeys(maps.b[1])
  THEN /\ map_buckets' = Tail(maps.b)
       /\ univs' = MergePass("sketches", Append(sketches, Promoted(maps.b[1])), maps.sum).b
  ELSE map_buckets' = maps.b /\ univs' = sketches

UnivUpdate(t, v) ==
  SetBuckets(MergePass("maps", Append(Expire(map_buckets, t), NewMap(t, v)), 0),
             Expire(univs, t))

-----------------------------------------------------------------------------
(* Cover and the interval query.  Buckets are numbered from 0, sketches first. *)

Buckets == univs \o map_buckets
BucketAt(i) == Buckets[i + 1]

GetMinTime == Buckets[1].min_time
GetMaxTime == map_buckets[map_count].max_time

UnivCover(mint, maxt) == Buckets # <<>> /\ GetMinTime <= mint /\ GetMaxTime >= maxt

\* The first bucket of a layer that contains t; a map comes before a sketch.
Holding(indices, t) ==
  {i \in indices : BucketAt(i).min_time <= t /\ t <= BucketAt(i).max_time}
SketchIndices == 0..s_count - 1
MapIndices == s_count..s_count + map_count - 1
BucketOf(t) ==
  IF Holding(MapIndices, t) # {} THEN Min(Holding(MapIndices, t))
  ELSE Min(Holding(SketchIndices, t) \cup (IF Holding(SketchIndices, t) = {} THEN {0} ELSE {}))

Abs(x) == IF x < 0 THEN -x ELSE x

NearerToItsEnd(i, t1) ==
  Abs(t1 - BucketAt(i).min_time) > Abs(t1 - BucketAt(i).max_time)

\* The bucket after it if t1 is nearer to the end of its bucket.
StartingAt(i, t1) == IF NearerToItsEnd(i, t1) THEN i + 1 ELSE i
FromBucket(t1) ==
  StartingAt(IF s_count > 0 /\ t1 < univs[1].min_time THEN 0 ELSE BucketOf(t1), t1)
ToBucket(t2) ==
  IF t2 > GetMaxTime THEN s_count + map_count - 1 ELSE BucketOf(t2)

SamplesOf(buckets) == FlattenSeq([i \in DOMAIN buckets |-> buckets[i].samples])
MergeAll(buckets) ==
  FoldSeq(LAMBDA b, acc : [MergeWith(acc, b) EXCEPT !.bucket_size = @ + b.bucket_size],
          NewUnivSketchPyramid, buckets)

\* Planted fault: the mixed answer leaves the maps out.
MixedWithoutMaps(from) ==
  [kind |-> "sketch", us |-> MergeAll(SubSeq(univs, from + 1, s_count))]

\* Sketches from from on, and all maps, whatever the end of the interval.
Mixed(from) ==
  [kind |-> "sketch",
   us |-> FeedMap(MergeAll(SubSeq(univs, from + 1, s_count)), SamplesOf(map_buckets))]

\* A single sketch is handed out itself; an index past the sketches panics here.
BetweenBuckets(from, to) ==
  CASE to < s_count /\ from < to ->
         [kind |-> "sketch", us |-> MergeAll(SubSeq(univs, from + 1, to + 1))]
    [] to < s_count /\ from >= to /\ from < s_count ->
         [kind |-> "sketch", us |-> univs[from + 1]]
    [] to < s_count /\ from >= s_count -> [kind |-> "panic"]
    [] to >= s_count /\ from >= s_count ->
         [kind |-> "map", samples |-> SamplesOf(SubSeq(Buckets, from + 1, to + 1))]
    [] OTHER -> Mixed(from)

QueryIntervalMergeUniv(t1, t2) == BetweenBuckets(FromBucket(t1), ToBucket(t2))

\* The four functions of functions.go: from a sketch, or from the counts of the maps.
funcOverTime(answer) ==
  IF answer.kind = "sketch"
  THEN [l1 |-> calcL1(answer.us), l22 |-> calcL22(answer.us), card |-> calcCard(answer.us),
        entropy |-> calcEntropy(answer.us)]
  ELSE LET n(key) == HowMany(answer.samples, key)
       IN [l1 |-> SumOverKeys([key \in Keys |-> n(key)]), l22 |-> SquaresOf(answer.samples),
           card |-> Cardinality({key \in Keys : n(key) > 0}),
           entropy |-> <<Len(answer.samples), EntropySum(answer.samples)>>]

-----------------------------------------------------------------------------
(* Properties *)

\* Both layers together hold the samples of the stream from some sample on, each once
\* and in order, sketches before maps, whatever was expired, merged and promoted; that
\* is every sample of the window, and the newest bucket is always a map, which Cover
\* and the query index without looking.
UnivWindowIsKept ==
  LET sizes == [i \in DOMAIN Buckets |-> Buckets[i].bucket_size]
  IN /\ KeptFrom(sizes) >= 0
     /\ \A i \in 1..KeptFrom(sizes) : stream[i].t < Newest - UnivWindow
     /\ stream # <<>> => map_count > 0
     /\ \A i \in DOMAIN Buckets :
          LET b == Buckets[i]
          IN /\ b.bucket_size > 0 /\ b.samples = SamplesOfBucket(sizes, i)
             /\ b.min_time = b.samples[1].t /\ b.max_time = b.samples[b.bucket_size].t

\* What bounds the error and the memory: the oldest map of an answer, part of which may
\* lie before the interval, weighs at most 2/K of what is newer, and no two neighbours
\* are light enough to be merged, so that their number is logarithmic.
UnivEdgeIsLight ==
  LET l22 == [i \in 1..map_count |-> calc_l22(map_buckets[i])]
      after(i) == UpTo(l22)[map_count] - UpTo(l22)[i]
  IN /\ \A i \in 1..map_count :
          map_buckets[i].bucket_size > 1 => K * l22[i] <= 2 * after(i)
     /\ \A i \in 1..map_count - 1 : K * (l22[i] + l22[i + 1]) > after(i + 1)

\* Without collisions in two rows, and with room in the heaps, the sketches lose
\* nothing to promotion and merging, and so do the answers that mix sketches and maps,
\* and the sketch that is fed through all of its layers.
SketchesAreExactWhenClean ==
  AllClean /\ Cardinality(Keys) <= TopK =>
    /\ \A i \in 1..s_count : Exact(univs[i])
    /\ s_count > 0 => Exact(Mixed(0).us) /\ Exact(FedOneByOne(stream))

\* The answer is right but for the bucket edge; the code's own exception is an interval
\* at the end of the newest sketch, where it indexes past the sketches.
ErrsAtTheEdge(answer, got, edge, t1, t2) ==
  \/ /\ answer.kind = "panic"
     /\ t1 > univs[s_count].min_time /\ t2 <= univs[s_count].max_time
  \/ /\ answer.kind # "panic"
     /\ \A i \in DOMAIN got : got[i].t >= edge.min_time
     /\ \A i \in DOMAIN stream :
          stream[i].t > edge.max_time /\ stream[i].t <= t2 => stream[i] \in Range(got)
     /\ AllClean /\ Cardinality(Keys) <= TopK /\ got # <<>> =>
          funcOverTime(answer).card = Cardinality({s.v : s \in Range(got)})

Answered(answer) ==
  CASE answer.kind = "map" -> answer.samples
    [] answer.kind = "sketch" -> answer.us.samples
    [] OTHER -> <<>>

CheckedAnswer(answer, t1, t2) ==
  ErrsAtTheEdge(answer, Answered(answer), BucketAt(BucketOf(t1)), t1, t2)

\* The answer for an interval that Cover accepts has no sample of a bucket that ends
\* before it, and all its samples but those of the bucket that t1 is in; when the
\* end of the interval lies in the maps but its start in a sketch, the answer goes on
\* to the newest sample.
UnivAnswerErrsAtTheEdges ==
  \A t1, t2 \in {s.t : s \in Range(stream)} :
    t1 <= t2 /\ UnivCover(t1, t2) => CheckedAnswer(QueryIntervalMergeUniv(t1, t2), t1, t2)
=============================================================================
