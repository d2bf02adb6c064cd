--------------------------- MODULE UniformSampling ---------------------------
(***************************************************************************)
(* internal/promsketch/uniformsampling.go: the sampling sketch of one      *)
(* series, behind avg, sum, sum2, count, stddev and stdvar_over_time.      *)
(* Every method holds the sketch's mutex from start to end, so a call is   *)
(* one step.  Whether Insert keeps a sample is rand.Float64, a free choice *)
(* here; Sampling_rate is 1 / InvRate.  Quotients are pairs <<a, b>>.      *)
(***************************************************************************)
EXTENDS Integers, Sequences, FiniteSets, SequencesExt, FiniteSetsExt

CONSTANTS InvRate,      \* 1 / Sampling_rate
          InitialSize,  \* Max_size of a new sketch
          InitialWindow,\* Time_window_size of a new sketch
          Windows,      \* the windows UpdateWindow is called with
          Times,        \* timestamps of samples
          Values,
          MaxInserts,   \* bound: calls of Insert
          NaN

ASSUME SamplingAssumption ==
  /\ InvRate \in Nat \ {0}
  /\ InitialSize \in Nat \ {0}
  /\ InitialWindow \in Nat \ {0}
  /\ Windows \subseteq Nat \ {0}
  /\ Times \subseteq Nat
  /\ Values \subseteq Int
  /\ MaxInserts \in Nat

VARIABLES Arr, Max_size, Time_window_size, Cur_time,
          kept,    \* history: every sample that was appended, in order
          calls,   \* history: calls of Insert
          calm     \* history: no sample came late, the limit has dropped none, and
                   \* the window was never widened

samplingVars == <<Arr, Max_size, Time_window_size, Cur_time, kept, calls, calm>>

Sample == [T : Times, F : Values]

SamplingInit ==
  /\ Arr = <<>>
  /\ Max_size = InitialSize
  /\ Time_window_size = InitialWindow
  /\ Cur_time = 0
  /\ kept = <<>>
  /\ calls = 0
  /\ calm = TRUE

-----------------------------------------------------------------------------
(* Insert *)

\* The samples at the front that are older than the window of a sample at t.
Expired(t) ==
  Cardinality({i \in DOMAIN Arr : \A j \in 1..i : Arr[j].T < t - Time_window_size})

\* Planted fault: the last expired sample is dropped with the others only when a
\* fresh one follows, and then the fresh one goes too.
DropOneTooMany(t) == IF Expired(t) = 0 THEN 0 ELSE Min({Expired(t) + 1, Len(Arr)})

\* The loop stops at the first fresh sample.  With none it ends at the last index, so
\* the youngest expired sample stays.
WindowShift(t) == IF Expired(t) = Len(Arr) /\ Arr # <<>> THEN Len(Arr) - 1 ELSE Expired(t)

\* Planted fault: the limit is never applied.
NoLimit(shift) == shift

\* A sketch over its limit is cut to the limit, whatever the window says.
ApplyLimit(shift) == IF Len(Arr) > Max_size THEN Len(Arr) - Max_size ELSE shift

Insert(t, x) ==
  /\ calls < MaxInserts
  /\ calls' = calls + 1
  /\ Cur_time' = t
  /\ LET shift == ApplyLimit(WindowShift(t))
         rest == SubSeq(Arr, shift + 1, Len(Arr))
     IN /\ \/ /\ Arr' = Append(rest, [T |-> t, F |-> x])
              /\ kept' = Append(kept, [T |-> t, F |-> x])
           \/ Arr' = rest /\ kept' = kept
        /\ calm' = (calm /\ t >= Cur_time /\ shift <= WindowShift(t))
  /\ UNCHANGED <<Max_size, Time_window_size>>

\* Longer windows get a proportionally smaller limit; Insert applies it.
UpdateWindow(window) ==
  /\ Max_size' = (Max_size * Time_window_size) \div window
  /\ Time_window_size' = window
  /\ calm' = (calm /\ window <= Time_window_size)
  /\ UNCHANGED <<Arr, Cur_time, kept, calls>>

-----------------------------------------------------------------------------
(* Cover and the choice of samples for [t1, t2] *)

Cover(t1, t2) == Arr # <<>> /\ Cur_time >= t2 /\ Cur_time - Time_window_size <= t1

GetMinTime == Cur_time - Time_window_size
GetMaxTime == Cur_time

\* sort.Search: binary search for the first of 0..n-1 that satisfies f, which is only
\* right when f is monotone.
Search(n, f) ==
  LET find[p \in (0..n) \X (0..n)] ==
        LET h == (p[1] + p[2]) \div 2
        IN IF p[1] >= p[2] THEN p[1]
           ELSE IF h \in f THEN find[<<p[1], h>>] ELSE find[<<h + 1, p[2]>>]
  IN find[<<0, n>>]

\* Indices into Arr count from 0 as in the code.
Idx1(t1) == Search(Len(Arr), {i \in 0..Len(Arr) - 1 : Arr[i + 1].T >= t1})

Idx2(t2) == Search(Len(Arr), {i \in 0..Len(Arr) - 1 : Arr[i + 1].T > t2}) - 1

ValuesOf(samples) == [i \in DOMAIN samples |-> samples[i].F]
Chosen(t1, t2) == ValuesOf(SubSeq(Arr, Idx1(t1) + 1, Idx2(t2) + 1))

\* The values of the samples at the indices I, appended one after the other.
ValuesAt(samples, I) ==
  LET upTo[n \in 0..Len(samples)] ==
        IF n = 0 THEN <<>>
        ELSE IF n \in I THEN Append(upTo[n - 1], samples[n].F) ELSE upTo[n - 1]
  IN upTo[Len(samples)]

\* GetSamples walks the array and stops at the first sample after t2.
GetSamples(t1, t2) ==
  ValuesAt(Arr, {i \in DOMAIN Arr :
                   /\ Arr[i].T >= t1
                   /\ \A j \in 1..i : Arr[j].T < t1 \/ Arr[j].T <= t2})

-----------------------------------------------------------------------------
(* The statistics *)

Plus(values) == FoldSeq(LAMBDA v, acc : v + acc, 0, values)
Squares(values) == [i \in DOMAIN values |-> values[i] * values[i]]
HowOften(values) ==
  [v \in ToSet(values) |-> Cardinality({i \in DOMAIN values : values[i] = v})]
SumOver(f) == FoldFunction(LAMBDA n, acc : n + acc, 0, f)
SquaresOver(f) == FoldFunction(LAMBDA n, acc : n * n + acc, 0, f)

\* Every query answers NaN when no sample is at t1 or later.
OrNaN(t1, answer) == IF Idx1(t1) >= Len(Arr) THEN NaN ELSE answer

QueryAvg(t1, t2) == OrNaN(t1, <<Plus(Chosen(t1, t2)), Len(Chosen(t1, t2))>>)
QuerySum(t1, t2) == OrNaN(t1, InvRate * Plus(Chosen(t1, t2)))
QuerySum2(t1, t2) == OrNaN(t1, InvRate * Plus(Squares(Chosen(t1, t2))))
QueryCount(t1, t2) == OrNaN(t1, InvRate * (Idx2(t2) - Idx1(t1) + 1))

\* sum2/n - (sum/n)^2, over the common denominator n^2.
Variance(values) ==
  <<Len(values) * Plus(Squares(values)) - Plus(values) * Plus(values),
    Len(values) * Len(values)>>
QueryStdvar(t1, t2) == OrNaN(t1, Variance(Chosen(t1, t2)))

\* The root of it: the number under the root stands for the root.
QueryStddev(t1, t2) == OrNaN(t1, Variance(Chosen(t1, t2)))

\* The running maximum starts from 0.
QueryMax(t1, t2) == OrNaN(t1, Max({0} \cup ToSet(Chosen(t1, t2))))

\* The running minimum starts from the sample at t1 or later, in the interval or not.
QueryMin(t1, t2) ==
  OrNaN(t1, Min({Arr[Idx1(t1) + 1].F} \cup ToSet(Chosen(t1, t2))))

QueryL1(t1, t2) == OrNaN(t1, InvRate * SumOver(HowOften(Chosen(t1, t2))))

\* The number under the root.
QueryL2(t1, t2) == OrNaN(t1, InvRate * SquaresOver(HowOften(Chosen(t1, t2))))
QueryDistinct(t1, t2) == OrNaN(t1, Cardinality(DOMAIN HowOften(Chosen(t1, t2))))

\* log2(n / rate) - sum(v log2 v) / n: decided by n / rate, n and the frequencies.
QueryEntropy(t1, t2) ==
  OrNaN(t1, [total |-> InvRate * Len(Chosen(t1, t2)), freq |-> HowOften(Chosen(t1, t2))])

\* Distinct, l1, entropy and l2 at once; here distinct is scaled up as well.
QueryGSum(t1, t2) ==
  OrNaN(t1, <<InvRate * Cardinality(DOMAIN HowOften(Chosen(t1, t2))),
              InvRate * SumOver(HowOften(Chosen(t1, t2))),
              [total |-> InvRate * Len(Chosen(t1, t2)), freq |-> HowOften(Chosen(t1, t2))],
              InvRate * SquaresOver(HowOften(Chosen(t1, t2)))>>)

\* The i-th of sorted values has fewer than i below it and i at least that are not above.
Sorted(values) ==
  [i \in DOMAIN values |->
     CHOOSE v \in ToSet(values) :
       /\ Cardinality({j \in DOMAIN values : values[j] < v}) < i
       /\ i <= Cardinality({j \in DOMAIN values : values[j] <= v})]

\* quantile and quantiles interpolate between the two nearest ranks; the quantile is
\* num / den, and the answer <<a, b>> stands for a / b.
SampleQuantile(num, den, values) ==
  IF values = <<>> THEN NaN
  ELSE LET s == Sorted(values)
           lower == (num * (Len(s) - 1)) \div den
           upper == Min({Len(s) - 1, lower + 1})
           weight == (num * (Len(s) - 1)) % den
       IN <<s[lower + 1] * (den - weight) + s[upper + 1] * weight, den>>
QueryQuantile(num, den, t1, t2) == OrNaN(t1, SampleQuantile(num, den, Chosen(t1, t2)))

-----------------------------------------------------------------------------
SamplingNext ==
  \/ \E t \in Times, x \in Values : Insert(t, x)
  \/ \E w \in Windows \ {Time_window_size} : UpdateWindow(w)

SamplingTypeOK ==
  /\ Arr \in Seq(Sample)
  /\ Max_size \in Nat
  /\ Time_window_size \in Nat \ {0}
  /\ Cur_time \in Nat
  /\ calls \in 0..MaxInserts
  /\ calm \in BOOLEAN

-----------------------------------------------------------------------------
(* Properties *)

\* What was kept of [t1, t2], by definition.
Reference(t1, t2) == ValuesAt(kept, {i \in DOMAIN kept : t1 <= kept[i].T /\ kept[i].T <= t2})

\* When Cover says that an interval can be answered, every statistic is that of the
\* samples the sketch ever kept of the interval: none was dropped too early, none is
\* missed by the binary searches, none outside is counted.  It holds for a calm
\* sketch: after a late sample, a cut to Max_size or a wider window Cover still says
\* yes.  The maximum starts from 0 and the minimum from a sample that may lie after
\* the interval, so these two say nothing when the interval has no positive value,
\* or no value.
CoveredAnswersAreExact ==
  calm => \A t1, t2 \in Times :
    LET ref == Reference(t1, t2)
        freq == HowOften(ref)
    IN t1 <= t2 /\ Cover(t1, t2) =>
         /\ GetSamples(t1, t2) = ref
         /\ ref # <<>> =>
              /\ QuerySum(t1, t2) = InvRate * Plus(ref)
              /\ QueryAvg(t1, t2) = <<Plus(ref), Len(ref)>>
              /\ QuerySum2(t1, t2) = InvRate * Plus(Squares(ref))
              /\ QueryStdvar(t1, t2) = Variance(ref)
              /\ QueryDistinct(t1, t2) = Cardinality(ToSet(ref))
              /\ QueryL2(t1, t2) = InvRate * SquaresOver(freq)
              /\ QueryEntropy(t1, t2) = [total |-> InvRate * Len(ref), freq |-> freq]
              /\ QueryGSum(t1, t2) =
                   <<InvRate * QueryDistinct(t1, t2), QueryL1(t1, t2),
                     QueryEntropy(t1, t2), QueryL2(t1, t2)>>
              /\ QueryMin(t1, t2) = Min(ToSet(ref))
              /\ Max(ToSet(ref)) > 0 => QueryMax(t1, t2) = Max(ToSet(ref))
              /\ QueryQuantile(0, 1, t1, t2)[1] = Min(ToSet(ref))
              /\ QueryQuantile(1, 1, t1, t2)[1] = Max(ToSet(ref))
         /\ QueryCount(t1, t2) \in {NaN, InvRate * Len(ref)}
         /\ QueryL1(t1, t2) = QueryCount(t1, t2)

\* Whatever arrives, late samples and changes of the window included, a call of
\* Insert leaves at most one sample more than the limit.
SizeIsBounded == [][calls' # calls => Len(Arr') <= Max_size' + 1]_samplingVars
=============================================================================
