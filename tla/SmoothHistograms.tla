-------------------------- MODULE SmoothHistograms --------------------------
(***************************************************************************)
(* internal/promsketch/SmoothHistogram.go and smooth_histogram_sum.go.  An *)
(* instance is a sketch of every sample since its start; an interval is    *)
(* answered by the difference of two instances.  Every sample starts an    *)
(* instance; instances between two that answer nearly the same are pruned. *)
(***************************************************************************)
EXTENDS SampleStream, UnivSketch

CONSTANTS SmoothKeep,   \* <<n, d>>: 1 - beta / 2 is n / d
          SmoothWindow  \* time_window_size

ASSUME SmoothAssumption == SmoothKeep \in Nat \X (Nat \ {0}) /\ SmoothWindow \in Nat
                           /\ StreamValues \subseteq Int

VARIABLES shu,  \* SmoothHistogramUnivMon
          shcs, \* SmoothHistogramCS
          shc   \* SmoothHistogramCount

smoothVars == <<shu, shcs, shc>>

SmoothInit == shu = <<>> /\ shcs = <<>> /\ shc = <<>>

-----------------------------------------------------------------------------
(* Update *)

\* Planted fault: beta / 2 instead of 1 - beta / 2.
NearTheOtherWay(older, newer) ==
  SmoothKeep[2] * SmoothKeep[2] * newer
    >= (SmoothKeep[2] - SmoothKeep[1]) * (SmoothKeep[2] - SmoothKeep[1]) * older

NearL22(older, newer) ==
  SmoothKeep[2] * SmoothKeep[2] * newer >= SmoothKeep[1] * SmoothKeep[1] * older

\* 1 - beta is 2 n / d - 1.
NearSum(older, newer) == SmoothKeep[2] * newer >= (2 * SmoothKeep[1] - SmoothKeep[2]) * older

\* By the norms of the sketches, or by the sums.
Near(kind, a, b) ==
  CASE kind = "univ" -> NearL22(cs_l22(a.cs_layers[0]), cs_l22(b.cs_layers[0]))
    [] kind = "cs" -> NearL22(cs_l22(a.cs), cs_l22(b.cs))
    [] kind = "count" -> NearSum(a.sum, b.sum)

\* The last instance that is near to instance i, the search starting at first; the two
\* newest instances stay out of it.
NearTo(kind, b, i, first) ==
  LET run == {j \in first..Len(b) - 2 :
                \A m \in first..j : (m = first => i + 1 < m) /\ Near(kind, b[i], b[m])}
  IN IF run = {} THEN i + 1 ELSE CHOOSE j \in run : \A m \in run : m <= j

\* What lies between an instance and the last that is near to it goes, from the oldest
\* instance on.  offset is where the inner loop starts.
PruneAfter(kind, b, i, offset) ==
  IF i > Len(b) - 2 THEN b
  ELSE SubSeq(b, 1, i) \o SubSeq(b, NearTo(kind, b, i, i + offset), Len(b))

PrunePass(kind, instances, offset) ==
  LET pass[i \in 0..Len(instances)] ==
        IF i = 0 THEN instances ELSE PruneAfter(kind, pass[i - 1], i, offset)
  IN pass
Prune(kind, instances, offset) == PrunePass(kind, instances, offset)[Len(instances)]

\* The expired instances at the front.
DropFirst(instances, expired) ==
  LET n == Cardinality({i \in DOMAIN instances : 1..i \subseteq expired})
  IN SubSeq(instances, n + 1, Len(instances))

SHUnivUpdate(t, v) ==
  LET fed(us) == [FeedSample(us, t, v) EXCEPT !.max_time = t]
      all == Append([i \in DOMAIN shu |-> fed(shu[i])],
                    [fed(NewUnivSketchPyramid) EXCEPT !.min_time = t])
      pruned == Prune("univ", all, 2)
  IN shu' = DropFirst(pruned, {i \in DOMAIN pruned : pruned[i].min_time + 2 * SmoothWindow < t})

\* bucketsize of a new instance stays 0: it is one less than the samples.
SHCSUpdate(t, v) ==
  LET fed(s) == [s EXCEPT !.bucketsize = @ + 1, !.cs = CSUpdateString(@, v), !.max_time = t]
      new == [min_time |-> t, max_time |-> t, bucketsize |-> 0,
              cs |-> CSUpdateString(NewCountSketch, v)]
      pruned == Prune("cs", Append([i \in DOMAIN shcs |-> fed(shcs[i])], new), 2)
  IN shcs' = DropFirst(pruned, {i \in DOMAIN pruned : pruned[i].min_time + SmoothWindow < t})

\* The inner loop starts at the instance that ends it: nothing is ever pruned.
SHCountUpdate(t, v) ==
  LET fed(b) == [b EXCEPT !.count = @ + 1, !.sum = @ + v, !.max_time = t, !.bucketsize = @ + 1]
      new == [count |-> 1, sum |-> v, sum2 |-> 0, min_time |-> t, max_time |-> t, bucketsize |-> 1]
      pruned == Prune("count", Append([i \in DOMAIN shc |-> fed(shc[i])], new), 1)
  IN shc' = DropFirst(pruned, {i \in DOMAIN pruned :
                                 pruned[i].max_time - pruned[i].min_time >= SmoothWindow})

SmoothUpdate(t, v) == SHUnivUpdate(t, v) /\ SHCSUpdate(t, v) /\ SHCountUpdate(t, v)

-----------------------------------------------------------------------------
(* Queries.  t1 and t2 are ages at time t. *)

Distance(a, b) == IF a < b THEN b - a ELSE a - b

\* The first instance whose start is nearest to the age.
Nearest(instances, age, t) ==
  LET d(i) == Distance(t - instances[i].min_time, age)
  IN CHOOSE i \in DOMAIN instances :
       \A j \in DOMAIN instances : d(i) <= d(j) /\ (j < i => d(i) < d(j))

\* The instance to subtract; the newest is not, if the age is at most half its own, of
\* which the code takes t2 in both histograms.  Len + 1 is none.
Subtracted(instances, from, near, t2, t) ==
  LET to == IF from = near THEN near + 1 ELSE near
  IN IF to = Len(instances) /\ t2 <= Distance(t - instances[to].min_time, t2) THEN to + 1 ELSE to

\* The heap is that of the older instance, with the new estimates, in the old order.
Reestimated(heap, cs) ==
  [n \in DOMAIN heap |-> Item(heap[n].key, EstimateStringCount(cs, heap[n].key))]

Minus(cs, other) ==
  [cs EXCEPT !.count = [r \in Rows |-> [c \in DOMAIN cs.count[r] |->
     cs.count[r][c] - other.count[r][c]]]]

\* t1 is the younger age.  An empty histogram is an error, with its mutex kept locked.
QuerySmoothUniv(t1, t2, t) ==
  IF shu = <<>> THEN [kind |-> "locked"]
  ELSE LET from == Nearest(shu, t2, t)
           to == Subtracted(shu, from, Nearest(shu, t1, t), t2, t)
           a == shu[from]
       IN IF to > Len(shu)
          THEN [kind |-> "sketch", min_time |-> a.min_time, max_time |-> a.max_time,
                bucket_size |-> a.bucket_size, cs_layers |-> a.cs_layers,
                HH_layers |-> a.HH_layers]
          ELSE LET diff == [l \in LayerSet |-> Minus(a.cs_layers[l], shu[to].cs_layers[l])]
               IN [kind |-> "sketch", min_time |-> a.min_time, max_time |-> shu[to].min_time,
                   bucket_size |-> a.bucket_size - shu[to].bucket_size, cs_layers |-> diff,
                   HH_layers |-> [l \in LayerSet |-> Reestimated(a.HH_layers[l], diff[l])]]

\* t1 is the older age here.  An answer up to now reads one instance too many and
\* panics.
QueryIntervalMergeSmoothCS(t1, t2, t) ==
  IF shcs = <<>> THEN [kind |-> "error"]
  ELSE LET from == Nearest(shcs, t1, t)
           to == Subtracted(shcs, from, Nearest(shcs, t2, t), t2, t)
       IN IF to > Len(shcs) THEN [kind |-> "panic"]
          ELSE LET diff == Minus(shcs[from].cs, shcs[to].cs)
               IN [kind |-> "sketch", cs |-> diff,
                   topK |-> Reestimated(shcs[from].cs.topK, diff),
                   min_time |-> shcs[from].min_time, max_time |-> shcs[to].min_time,
                   bucketsize |-> shcs[from].bucketsize - shcs[to].bucketsize]

\* The difference of the counts is taken the other way round than that of the sums.
QueryT1T2IntervalCount(t1, t2, t) ==
  IF shc = <<>> THEN 0 ELSE shc[Nearest(shc, t2, t)].count - shc[Nearest(shc, t1, t)].count
QueryT1T2IntervalSum(t1, t2, t) ==
  shc[Nearest(shc, t1, t)].sum - shc[Nearest(shc, t2, t)].sum

SmoothCountCover(mint, maxt) ==
  shc # <<>> /\ shc[1].min_time <= mint /\ shc[Len(shc)].max_time >= maxt

-----------------------------------------------------------------------------
(* Properties *)

L22(samples) == SquaresOf(samples)
ValueSum(samples) == UpTo([n \in DOMAIN samples |-> samples[n].v])[Len(samples)]

\* By the triangle inequality the younger then has 1 - sqrt(1 - (n/d)^2) of the older l2.
LightBetween(older, younger) ==
  LET d == SmoothKeep[2] * SmoothKeep[2]
      n == SmoothKeep[1] * SmoothKeep[1]
  IN d * L22(Stretch(older, younger)) <= (d - n) * L22(Since(older))

\* Whatever was pruned and expired: instances have increasing starts, each holds every
\* sample since its start, the newest samples have instances of their own, and two
\* neighbours are one sample apart or, where the norm is exact, what lies between them is
\* light in l2 compared with the older one, so that an answer from the younger can stand
\* for one from between.
SmoothInstancesAreSuffixes ==
  /\ \A i \in DOMAIN shu :
       /\ shu[i].samples = Since(shu[i].min_time) /\ shu[i].bucket_size = Len(shu[i].samples)
  /\ \A i \in DOMAIN shcs : shcs[i].bucketsize = Len(Since(shcs[i].min_time)) - 1
  /\ \A i \in DOMAIN shc : shc[i].count = Len(Since(shc[i].min_time))
  /\ \A i \in 1..Len(shu) - 1 : shu[i].min_time < shu[i + 1].min_time
  /\ \A i \in DOMAIN stream :
       SmoothCountCover(stream[i].t, Newest) => shc[1].count >= Len(Since(stream[i].t))
  /\ \A i \in {Len(stream) - 1, Len(stream)} \cap Nat :
       i > 0 /\ Newest - stream[i].t < SmoothWindow =>
         /\ \E j \in DOMAIN shu : shu[j].min_time = stream[i].t
         /\ \E j \in DOMAIN shcs : shcs[j].min_time = stream[i].t
         /\ \E j \in DOMAIN shc : shc[j].min_time = stream[i].t
  /\ TwoRowsApart => \A i \in 1..Len(shu) - 1 :
       \/ Len(Stretch(shu[i].min_time, shu[i + 1].min_time)) = 1
       \/ LightBetween(shu[i].min_time, shu[i + 1].min_time)

\* The answer for two ages is that of the samples between two starts: its counters and
\* what it estimates for a clean key come from those samples alone.  The count sketches
\* panic for an interval that ends with the newest instance or the one before.
SmoothAnswersAreDifferences ==
  stream # <<>> =>
    \A t1, t2 \in 0..SmoothWindow, t \in {Newest, Newest + 2} : t1 < t2 =>
      LET u == QuerySmoothUniv(t1, t2, t)
          c == QueryIntervalMergeSmoothCS(t2, t1, t)
          Between(x) == Stretch(x.min_time, x.max_time)
      IN /\ \A key \in Keys : IsClean(key) =>
              /\ EstimateStringCount(u.cs_layers[0], key) \in
                   {HowMany(Between(u), key)}
                     \cup (IF u.max_time = Newest THEN {HowMany(Since(u.min_time), key)} ELSE {})
              /\ c.kind = "sketch" =>
                   EstimateStringCount(c.cs, key) = HowMany(Between(c), key)
         /\ c.kind = "sketch" => c.bucketsize = Len(Between(c))
         /\ c.kind = "panic" => Nearest(shcs, t1, t) >= Len(shcs) - 1
         /\ LET part == Stretch(shc[Nearest(shc, t2, t)].min_time,
                                 shc[Nearest(shc, t1, t)].min_time)
            IN /\ QueryT1T2IntervalCount(t1, t2, t) = Len(part)
               /\ QueryT1T2IntervalSum(t2, t1, t) = ValueSum(part)
=============================================================================
