------------------------ MODULE WindowHistogram_proofs ------------------------
(***************************************************************************)
(* Proofs about WindowHistogram, for any k, window, timestamps and number  *)
(* of samples: types and indices, that only old samples are removed, what  *)
(* LookUp promises of samples that come in order, and that a query that it *)
(* lets through finds buckets.                                             *)
(***************************************************************************)
EXTENDS WindowHistogram, SequenceTheorems, FiniteSetTheorems, TLAPS

\* The times of a bucket: its samples lie between min_time and max_time, and two of them,
\* or one, have these.
TimesAreTrue ==
  \A b \in 1..Len(buckets) :
    /\ \A n \in buckets[b].kll :
         buckets[b].minTime <= arrived[n] /\ arrived[n] <= buckets[b].maxTime
    /\ \E n \in buckets[b].kll : arrived[n] = buckets[b].minTime
    /\ \E n \in buckets[b].kll : arrived[n] = buckets[b].maxTime

\* Buckets stand in the order of arrival, and the samples removed came before those kept.
ArrivalOrder ==
  /\ \A b, c \in 1..Len(buckets) : b < c =>
       \A m \in buckets[b].kll, n \in buckets[c].kll : m < n
  /\ \A b \in 1..Len(buckets) :
       \A m \in Samples \ Kept, n \in buckets[b].kll : m < n

NewestIsSingle ==
  Len(buckets) > 0 => buckets[Len(buckets)].minTime = buckets[Len(buckets)].maxTime

\* A query that LookUp let through has seen a sample, and a histogram keeps its newest.
CoveredHasSamples ==
  /\ \A q \in Queries : query[q] = "covered" => Len(buckets) > 0
  /\ locked => Len(buckets) > 0

BucketInv ==
  /\ buckets \in Seq(Bucket)
  /\ arrived \in Seq(Times)
  /\ TimesAreTrue
  /\ ArrivalOrder
  /\ NewestIsSingle
  /\ RecentIsKept

IInv == TypeOK /\ BucketInv /\ CoveredHasSamples

LEMMA InitHolds == Init => IInv
<1> SUFFICES ASSUME Init PROVE IInv
  OBVIOUS
<1>1. buckets = <<>> /\ Len(buckets) = 0 /\ buckets \in Seq(Bucket)
  BY DEF Init
<1>2. arrived = <<>> /\ arrived \in Seq(Times) /\ Samples = {}
  BY DEF Init, Samples
<1>3. TypeOK
  <2>1. /\ query \in [Queries -> {"start", "covered", "reading", "backend", "answered", "panic"}]
        /\ interval \in [Queries -> Intervals]
        /\ fromBucket \in [Queries -> Nat]
    BY DEF Init
  <2>2. i \in Nat /\ same \in Nat \ {0}
    BY DEF Init
  <2>3. locked \in BOOLEAN /\ ~locked
    BY DEF Init
  <2> QED
    BY <1>1, <1>2, <2>1, <2>2, <2>3 DEF TypeOK
<1>4. BucketInv
  BY <1>1, <1>2 DEF BucketInv, TimesAreTrue, ArrivalOrder, NewestIsSingle, RecentIsKept
<1>5. CoveredHasSamples
  BY DEF Init, CoveredHasSamples
<1> QED
  BY <1>3, <1>4, <1>5 DEF IInv

-----------------------------------------------------------------------------
(* Merging. *)

\* A run that is too long has three buckets or more.
LEMMA TooManyIsThree == TypeOK /\ TooMany => same >= 3
BY HistogramAssumption DEF TypeOK, TooMany

\* What Merged returns when it leaves the newest bucket alone.
LEMMA MergedBuckets ==
  ASSUME BucketInv, NEW n \in 1..Len(buckets), n + 1 < Len(buckets)
  PROVE  /\ Merged(n) \in Seq(Bucket)
         /\ Len(Merged(n)) = Len(buckets) - 1
         /\ \A m \in 1..(n - 1) : Merged(n)[m] = buckets[m]
         /\ Merged(n)[n] = Join(buckets[n], buckets[n + 1])
         /\ \A m \in (n + 1)..(Len(buckets) - 1) : Merged(n)[m] = buckets[m + 1]
<1> DEFINE L == Len(buckets)
<1>1. L \in Nat /\ n \in Nat /\ L - 1 \in Nat /\ \A m \in 1..L : buckets[m] \in Bucket
  BY ElementOfSeq, LenProperties DEF BucketInv
<1>2. \A b, c \in Bucket : Join(b, c) \in Bucket
  BY HistogramAssumption DEF Bucket, Join, Larger, Smaller
<1>3. \A m \in 1..(L - 1) : Merged(n)[m] \in Bucket
  BY <1>1, <1>2 DEF Merged
<1>4. Merged(n) = [m \in 1..(L - 1) |-> Merged(n)[m]]
  BY DEF Merged
<1>5. Merged(n) \in Seq(Bucket)
  BY <1>1, <1>3, <1>4, IsASeq DEF Merged
<1>6. Len(Merged(n)) = L - 1
  BY <1>1, <1>4, <1>5, LenProperties DEF Merged
<1> QED
  BY <1>1, <1>5, <1>6 DEF Merged

\* Merging two neighbours, neither of them the newest, keeps what the buckets say.
LEMMA MergeKeeps ==
  ASSUME BucketInv, NEW n \in 1..Len(buckets), n + 1 < Len(buckets),
         buckets' = Merged(n), arrived' = arrived
  PROVE  BucketInv'
<1> DEFINE L == Len(buckets)
<1>1. L \in Nat /\ n \in Nat /\ n >= 1 /\ n + 2 <= L
  BY LenProperties DEF BucketInv
<1>2. \A m \in 1..L : /\ buckets[m] \in Bucket
                      /\ buckets[m].kll \subseteq Samples
                      /\ buckets[m].minTime \in Nat
                      /\ buckets[m].maxTime \in Nat
  <2>1. \A m \in 1..L : buckets[m] \in Bucket
    BY ElementOfSeq DEF BucketInv
  <2>2. \A b \in Bucket : b.kll \subseteq Samples /\ b.minTime \in Nat /\ b.maxTime \in Nat
    BY HistogramAssumption DEF Bucket
  <2> QED
    BY <2>1, <2>2
<1>3. Samples' = Samples /\ Bucket' = Bucket /\ Samples \subseteq Nat
  BY LenProperties DEF Samples, Bucket, BucketInv
<1>4. \A m \in Samples : arrived[m] \in Nat
  BY ElementOfSeq, HistogramAssumption, LenProperties DEF Samples, BucketInv
<1>5. /\ buckets' \in Seq(Bucket)'
      /\ Len(buckets') = L - 1
      /\ \A m \in 1..(n - 1) : buckets'[m] = buckets[m]
      /\ buckets'[n] = Join(buckets[n], buckets[n + 1])
      /\ \A m \in (n + 1)..(L - 1) : buckets'[m] = buckets[m + 1]
  BY <1>3, MergedBuckets
<1>5a. ASSUME NEW m \in 1..(L - 1), m < n
       PROVE  m \in 1..L /\ buckets'[m] = buckets[m]
  <2>1. m \in 1..L /\ m \in 1..(n - 1)
    BY <1>1, <1>5a
  <2> QED
    BY <1>5, <2>1
<1>5b. ASSUME NEW m \in 1..(L - 1), m > n
       PROVE  m + 1 \in 1..L /\ buckets'[m] = buckets[m + 1]
  <2>1. m + 1 \in 1..L /\ m \in (n + 1)..(L - 1)
    BY <1>1, <1>5b
  <2> QED
    BY <1>5, <2>1
<1> DEFINE J == buckets'[n]
<1>6. /\ J.kll = buckets[n].kll \cup buckets[n + 1].kll
      /\ J.minTime = Smaller(buckets[n].minTime, buckets[n + 1].minTime)
      /\ J.maxTime = Larger(buckets[n].maxTime, buckets[n + 1].maxTime)
  BY <1>5 DEF Join
<1>7. n \in 1..L /\ n + 1 \in 1..L /\ 1..(L - 1) = 1..(n - 1) \cup {n} \cup (n + 1)..(L - 1)
  BY <1>1
<1>8. Kept' = Kept
  <2>1. \A m \in 1..(L - 1) : buckets'[m].kll \subseteq Kept
    <3>1. SUFFICES ASSUME NEW m \in 1..(L - 1)
                   PROVE  buckets'[m].kll \subseteq Kept
      OBVIOUS
    <3>2. CASE m < n
      <4>1. m \in 1..L /\ buckets'[m] = buckets[m]
        BY <1>5a, <3>2
      <4> QED
        BY <4>1 DEF Kept
    <3>3. CASE m = n
      BY <1>6, <1>7, <3>3 DEF Kept
    <3>4. CASE m > n
      <4>1. m + 1 \in 1..L /\ buckets'[m] = buckets[m + 1]
        BY <1>5b, <3>4
      <4> QED
        BY <4>1 DEF Kept
    <3> QED
      BY <1>1, <3>2, <3>3, <3>4
  <2>2. \A m \in 1..L : \E k \in 1..(L - 1) : buckets[m].kll \subseteq buckets'[k].kll
    <3>1. SUFFICES ASSUME NEW m \in 1..L
                   PROVE  \E k \in 1..(L - 1) : buckets[m].kll \subseteq buckets'[k].kll
      OBVIOUS
    <3>2. CASE m < n
      <4>1. m \in 1..(L - 1)
        BY <1>1, <3>2
      <4> QED
        BY <1>5a, <3>2, <4>1
    <3>3. CASE m = n \/ m = n + 1
      <4>1. n \in 1..(L - 1) /\ buckets[m].kll \subseteq buckets'[n].kll
        BY <1>1, <1>6, <3>3
      <4> QED
        BY <4>1
    <3>4. CASE m > n + 1
      <4>1. PICK k \in 1..(L - 1) : k = m - 1
        BY <1>1, <3>4
      <4>2. k > n /\ k + 1 = m
        BY <1>1, <3>4, <4>1
      <4>3. buckets'[k] = buckets[m]
        BY <1>5b, <4>2
      <4> QED
        BY <4>1, <4>3
    <3>5. m < n \/ (m = n \/ m = n + 1) \/ m > n + 1
      BY <1>1
    <3> QED
      BY <3>2, <3>3, <3>4, <3>5
  <2>3. Kept' = UNION {buckets'[m].kll : m \in 1..(L - 1)}
    BY <1>5 DEF Kept
  <2>4. Kept' \subseteq Kept
    BY <2>1, <2>3
  <2>5. Kept \subseteq Kept'
    <3>1. SUFFICES ASSUME NEW x \in Kept PROVE x \in Kept'
      OBVIOUS
    <3>2. PICK m \in 1..L : x \in buckets[m].kll
      BY DEF Kept
    <3>3. PICK k \in 1..(L - 1) : x \in buckets'[k].kll
      BY <2>2, <3>2
    <3> QED
      BY <2>3, <3>3
  <2> QED
    BY <2>4, <2>5
<1>9. TimesAreTrue'
  <2>1. SUFFICES ASSUME NEW b \in 1..(L - 1)
                 PROVE  /\ \A m \in buckets'[b].kll :
                             buckets'[b].minTime <= arrived[m] /\ arrived[m] <= buckets'[b].maxTime
                        /\ \E m \in buckets'[b].kll : arrived[m] = buckets'[b].minTime
                        /\ \E m \in buckets'[b].kll : arrived[m] = buckets'[b].maxTime
    BY <1>5 DEF TimesAreTrue
  <2>2. \A m \in 1..L : /\ \A x \in buckets[m].kll :
                             buckets[m].minTime <= arrived[x] /\ arrived[x] <= buckets[m].maxTime
                        /\ \E x \in buckets[m].kll : arrived[x] = buckets[m].minTime
                        /\ \E x \in buckets[m].kll : arrived[x] = buckets[m].maxTime
    BY DEF BucketInv, TimesAreTrue
  <2>3. CASE b < n
    <3>1. b \in 1..L /\ buckets'[b] = buckets[b]
      BY <1>5a, <2>3
    <3> QED
      BY <2>2, <3>1
  <2>4. CASE b = n
    <3>1. \A m \in J.kll : arrived[m] <= J.maxTime
      BY <1>2, <1>4, <1>6, <1>7, <2>2 DEF Larger
    <3>2. \A m \in J.kll : J.minTime <= arrived[m]
      BY <1>2, <1>4, <1>6, <1>7, <2>2, SMTT(30) DEF Smaller
    <3>3. \E m \in J.kll : arrived[m] = J.minTime
      BY <1>6, <1>7, <2>2 DEF Smaller
    <3>4. \E m \in J.kll : arrived[m] = J.maxTime
      BY <1>6, <1>7, <2>2 DEF Larger
    <3> QED
      BY <2>4, <3>1, <3>2, <3>3, <3>4
  <2>5. CASE b > n
    <3>1. b + 1 \in 1..L /\ buckets'[b] = buckets[b + 1]
      BY <1>5b, <2>5
    <3> QED
      BY <2>2, <3>1
  <2> QED
    BY <1>1, <2>3, <2>4, <2>5
<1>10. ArrivalOrder'
  <2>1. \A b \in 1..(L - 1) :
          \A x \in buckets'[b].kll :
            \/ b <= n /\ x \in buckets[b].kll
            \/ b >= n /\ b + 1 \in 1..L /\ x \in buckets[b + 1].kll
    <3>1. SUFFICES ASSUME NEW b \in 1..(L - 1), NEW x \in buckets'[b].kll
                   PROVE  \/ b <= n /\ x \in buckets[b].kll
                          \/ b >= n /\ b + 1 \in 1..L /\ x \in buckets[b + 1].kll
      OBVIOUS
    <3>2. CASE b < n
      BY <1>1, <1>5a, <3>1, <3>2
    <3>3. CASE b = n
      BY <1>1, <1>6, <1>7, <3>1, <3>3
    <3>4. CASE b > n
      BY <1>1, <1>5b, <3>1, <3>4
    <3> QED
      BY <1>1, <3>2, <3>3, <3>4
  <2>2. \A b, c \in 1..L : b < c => \A x \in buckets[b].kll, y \in buckets[c].kll : x < y
    BY DEF BucketInv, ArrivalOrder
  <2>3. \A b, c \in 1..(L - 1) : b < c =>
          \A x \in buckets'[b].kll, y \in buckets'[c].kll : x < y
    <3>1. SUFFICES ASSUME NEW b \in 1..(L - 1), NEW c \in 1..(L - 1), b < c,
                          NEW x \in buckets'[b].kll, NEW y \in buckets'[c].kll
                   PROVE  x < y
      OBVIOUS
    <3>2. \E d \in 1..L : x \in buckets[d].kll /\ (d = b \/ (d = b + 1 /\ b >= n))
      BY <1>1, <2>1
    <3>3. \E d \in 1..L : y \in buckets[d].kll /\ ((d = c /\ c <= n) \/ d = c + 1)
      BY <1>1, <2>1
    <3> QED
      BY <1>1, <2>2, <3>1, <3>2, <3>3
  <2>4. \A b \in 1..(L - 1) : \A x \in Samples \ Kept, y \in buckets'[b].kll : x < y
    <3>1. SUFFICES ASSUME NEW b \in 1..(L - 1), NEW x \in Samples \ Kept,
                          NEW y \in buckets'[b].kll
                   PROVE  x < y
      OBVIOUS
    <3>2. \E d \in 1..L : y \in buckets[d].kll
      BY <1>1, <2>1
    <3> QED
      BY <3>2 DEF BucketInv, ArrivalOrder
  <2> QED
    BY <1>3, <1>5, <1>8, <2>3, <2>4 DEF ArrivalOrder
<1>11. NewestIsSingle'
  BY <1>1, <1>5, SMTT(30) DEF BucketInv, NewestIsSingle
<1>12. RecentIsKept'
  BY <1>3, <1>8 DEF BucketInv, RecentIsKept
<1> QED
  BY <1>5, <1>9, <1>10, <1>11, <1>12 DEF BucketInv

-----------------------------------------------------------------------------
(* Expiry and the new bucket. *)

\* What BeginUpdate makes of the buckets: the first r are gone, and there is a new one.
LEMMA BeginBuckets ==
  ASSUME BucketInv, NEW t \in Times, BeginUpdate(t)
  PROVE  /\ buckets' \in Seq(Bucket')
         /\ \E r \in 0..Len(buckets) :
              /\ \A n \in 1..r : Stale(buckets[n], t)
              /\ Len(buckets') = Len(buckets) - r + 1
              /\ \A m \in 1..(Len(buckets) - r) : buckets'[m] = buckets[r + m]
              /\ buckets'[Len(buckets) - r + 1] = NewBucket(t)
<1> DEFINE L == Len(buckets)
           A == Len(arrived)
           N == NewBucket(t)
<1>1. PICK r \in 0..L :
        /\ \A n \in 1..r : Stale(buckets[n], t)
        /\ buckets' = Append(SubSeq(buckets, r + 1, L), N)
  BY DEF BeginUpdate
<1>2. L \in Nat /\ r \in Nat /\ r <= L /\ A \in Nat
  BY LenProperties DEF BucketInv
<1>3. Samples = 1..A /\ Samples' = 1..(A + 1)
  BY <1>2, AppendProperties, LenProperties DEF BucketInv, Samples, BeginUpdate
<1>4. Bucket \subseteq Bucket' /\ N \in Bucket'
  BY <1>2, <1>3 DEF Bucket, NewBucket
<1>5. \A m \in 1..L : buckets[m] \in Bucket'
  BY <1>4, ElementOfSeq DEF BucketInv
<1> DEFINE s == SubSeq(buckets, r + 1, L)
<1>6. buckets \in Seq(Bucket')
  <2>1. buckets = [m \in 1..L |-> buckets[m]]
    BY LenProperties DEF BucketInv
  <2> QED
    BY <1>2, <1>5, <2>1, IsASeq
<1>7. /\ s \in Seq(Bucket')
      /\ Len(s) = L - r
      /\ \A m \in 1..(L - r) : s[m] = buckets[r + m]
  <2>1. /\ s \in Seq(Bucket')
        /\ Len(s) = IF r + 1 <= L THEN L - (r + 1) + 1 ELSE 0
        /\ \A m \in 1..(L - (r + 1) + 1) : s[m] = buckets[(r + 1) + m - 1]
    <3>1. \A m \in (r + 1)..L : buckets[m] \in Bucket'
      BY <1>2, <1>5
    <3> QED
      BY <1>2, <1>6, <3>1, SubSeqProperties
  <2> QED
    BY <1>2, <2>1
<1> HIDE DEF s, N
<1>8. buckets' = Append(s, N)
  BY <1>1 DEF s
<1>9. /\ buckets' \in Seq(Bucket')
      /\ Len(buckets') = L - r + 1
      /\ \A m \in 1..(L - r) : buckets'[m] = buckets[r + m]
      /\ buckets'[L - r + 1] = N
  BY <1>2, <1>4, <1>7, <1>8, AppendProperties
<1> QED
  BY <1>1, <1>9 DEF N

LEMMA BeginUpdateKeeps ==
  ASSUME BucketInv, NEW t \in Times, BeginUpdate(t)
  PROVE  /\ BucketInv'
         /\ Len(buckets') > 0
<1> DEFINE L == Len(buckets)
           A == Len(arrived)
           N == NewBucket(t)
<1>1. PICK r \in 0..L :
        /\ \A n \in 1..r : Stale(buckets[n], t)
        /\ Len(buckets') = L - r + 1
        /\ \A m \in 1..(L - r) : buckets'[m] = buckets[r + m]
        /\ buckets'[L - r + 1] = N
  BY BeginBuckets
<1>2. arrived' = Append(arrived, t)
  BY DEF BeginUpdate
<1>3. L \in Nat /\ r \in Nat /\ r <= L /\ A \in Nat /\ t \in Nat /\ Window \in Nat
  BY LenProperties, HistogramAssumption DEF BucketInv
<1>4. /\ Samples = 1..A
      /\ arrived' \in Seq(Times)
      /\ Samples' = 1..(A + 1)
      /\ arrived'[A + 1] = t
      /\ \A n \in Samples : arrived'[n] = arrived[n]
  BY <1>2, <1>3, AppendProperties, LenProperties DEF BucketInv, Samples
<1>5. \A n \in Samples : arrived[n] \in Nat
  BY <1>4, ElementOfSeq, HistogramAssumption DEF BucketInv
<1>6. \A m \in 1..L : /\ buckets[m] \in Bucket
                      /\ buckets[m].kll \subseteq Samples
                      /\ buckets[m].maxTime \in Nat
  <2>1. \A m \in 1..L : buckets[m] \in Bucket
    BY ElementOfSeq DEF BucketInv
  <2>2. \A b \in Bucket : b.kll \subseteq Samples /\ b.maxTime \in Nat
    BY HistogramAssumption DEF Bucket
  <2> QED
    BY <2>1, <2>2
<1>8. N.kll = {A + 1} /\ N.minTime = t /\ N.maxTime = t
  BY DEF NewBucket
<1> HIDE DEF N
<1>9. /\ buckets' \in Seq(Bucket')
      /\ Len(buckets') = L - r + 1
      /\ \A m \in 1..(L - r) : buckets'[m] = buckets[r + m]
      /\ buckets'[L - r + 1] = N
  BY <1>1, BeginBuckets
<1>10. \A m \in 1..(L - r) : r + m \in 1..L
  BY <1>3
<1>11. 1..(L - r + 1) = 1..(L - r) \cup {L - r + 1} /\ L - r + 1 > 0
  BY <1>3
<1>12. \A x \in Samples' \ Kept' :
         \/ x \in Samples \ Kept
         \/ \E m \in 1..r : x \in buckets[m].kll
  <2>1. SUFFICES ASSUME NEW x \in Samples', x \notin Kept', x \in Kept \/ x \notin Samples
                 PROVE  \E m \in 1..r : x \in buckets[m].kll
    OBVIOUS
  <2>2. Kept' = UNION {buckets'[m].kll : m \in 1..(L - r + 1)}
    BY <1>9 DEF Kept
  <2>3. A + 1 \in Kept'
    BY <1>8, <1>9, <1>11, <2>2
  <2>4. x \in Samples
    BY <1>3, <1>4, <2>1, <2>3
  <2>5. PICK m \in 1..L : x \in buckets[m].kll
    BY <2>1, <2>4 DEF Kept
  <2>6. CASE m > r
    <3>1. m - r \in 1..(L - r) /\ buckets'[m - r] = buckets[m]
      BY <1>3, <1>9, <2>6
    <3> QED
      BY <1>11, <2>1, <2>2, <2>5, <3>1
  <2> QED
    BY <1>3, <2>5, <2>6
<1>13. TimesAreTrue'
  <2>1. SUFFICES ASSUME NEW b \in 1..(L - r + 1)
                 PROVE  /\ \A m \in buckets'[b].kll :
                             buckets'[b].minTime <= arrived'[m] /\ arrived'[m] <= buckets'[b].maxTime
                        /\ \E m \in buckets'[b].kll : arrived'[m] = buckets'[b].minTime
                        /\ \E m \in buckets'[b].kll : arrived'[m] = buckets'[b].maxTime
    BY <1>9 DEF TimesAreTrue
  <2>2. CASE b = L - r + 1
    <3>1. buckets'[b].kll = {A + 1} /\ buckets'[b].minTime = t /\ buckets'[b].maxTime = t
      BY <1>8, <1>9, <2>2
    <3> QED
      BY <1>3, <1>4, <3>1
  <2>3. CASE b \in 1..(L - r)
    <3>1. r + b \in 1..L /\ buckets'[b] = buckets[r + b] /\ buckets[r + b].kll \subseteq Samples
      BY <1>6, <1>9, <1>10, <2>3
    <3>2. /\ \A m \in buckets[r + b].kll :
               /\ buckets[r + b].minTime <= arrived[m]
               /\ arrived[m] <= buckets[r + b].maxTime
          /\ \E m \in buckets[r + b].kll : arrived[m] = buckets[r + b].minTime
          /\ \E m \in buckets[r + b].kll : arrived[m] = buckets[r + b].maxTime
      BY <3>1 DEF BucketInv, TimesAreTrue
    <3> QED
      BY <1>4, <3>1, <3>2
  <2> QED
    BY <1>11, <2>2, <2>3
<1>14. ArrivalOrder'
  <2>1. \A b, c \in 1..L : b < c => \A x \in buckets[b].kll, y \in buckets[c].kll : x < y
    BY DEF BucketInv, ArrivalOrder
  <2>2. \A b \in 1..L : \A x \in Samples \ Kept, y \in buckets[b].kll : x < y
    BY DEF BucketInv, ArrivalOrder
  <2>3. \A b \in 1..L : \A x \in buckets[b].kll : x < A + 1
    BY <1>3, <1>4, <1>6
  <2>4. \A b, c \in 1..(L - r + 1) : b < c =>
          \A x \in buckets'[b].kll, y \in buckets'[c].kll : x < y
    <3>1. SUFFICES ASSUME NEW b \in 1..(L - r + 1), NEW c \in 1..(L - r + 1), b < c,
                          NEW x \in buckets'[b].kll, NEW y \in buckets'[c].kll
                   PROVE  x < y
      OBVIOUS
    <3>2. b \in 1..(L - r) /\ r + b \in 1..L /\ x \in buckets[r + b].kll
      BY <1>3, <1>9, <1>10, <3>1, SMTT(30)
    <3>3. CASE c = L - r + 1
      BY <1>8, <1>9, <2>3, <3>2, <3>3
    <3>4. CASE c \in 1..(L - r)
      <4>1. r + c \in 1..L /\ y \in buckets[r + c].kll /\ r + b < r + c
        BY <1>3, <1>9, <1>10, <3>1, <3>4
      <4> QED
        BY <2>1, <3>2, <4>1
    <3> QED
      BY <1>11, <3>3, <3>4
  <2>5. \A b \in 1..(L - r + 1) : \A x \in Samples' \ Kept', y \in buckets'[b].kll : x < y
    <3>1. SUFFICES ASSUME NEW b \in 1..(L - r + 1), NEW x \in Samples' \ Kept',
                          NEW y \in buckets'[b].kll
                   PROVE  x < y
      OBVIOUS
    <3>2. CASE b = L - r + 1
      <4>1. y = A + 1
        BY <1>8, <1>9, <3>2
      <4>2. x \in Samples
        BY <1>3, <1>6, <1>12
      <4> QED
        BY <1>3, <1>4, <4>1, <4>2
    <3>3. CASE b \in 1..(L - r)
      <4>1. r + b \in 1..L /\ y \in buckets[r + b].kll /\ r + b > r
        BY <1>3, <1>9, <1>10, <3>3
      <4>2. CASE x \in Samples \ Kept
        BY <2>2, <4>1, <4>2
      <4>3. CASE \E m \in 1..r : x \in buckets[m].kll
        <5>1. PICK m \in 1..r : x \in buckets[m].kll
          BY <4>3
        <5>2. m \in 1..L /\ m < r + b
          BY <1>3, <4>1
        <5> QED
          BY <2>1, <4>1, <5>1, <5>2
      <4> QED
        BY <1>12, <4>2, <4>3
    <3> QED
      BY <1>11, <3>2, <3>3
  <2> QED
    BY <1>9, <2>4, <2>5 DEF ArrivalOrder
<1>15. NewestIsSingle'
  BY <1>8, <1>9 DEF NewestIsSingle
<1>16. RecentIsKept'
  <2>1. SUFFICES ASSUME NEW x \in Samples' \ Kept'
                 PROVE  \E m \in Samples' : arrived'[x] < arrived'[m] - Window
    BY DEF RecentIsKept
  <2>2. CASE x \in Samples \ Kept
    <3>1. PICK m \in Samples : arrived[x] < arrived[m] - Window
      BY <2>2 DEF BucketInv, RecentIsKept
    <3> QED
      BY <1>3, <1>4, <2>2, <3>1
  <2>3. CASE \E m \in 1..r : x \in buckets[m].kll
    <3>1. PICK m \in 1..r : x \in buckets[m].kll
      BY <2>3
    <3>2. m \in 1..L /\ x \in Samples
      BY <1>3, <1>6, <3>1
    <3>3. arrived[x] <= buckets[m].maxTime /\ buckets[m].maxTime < t - Window
      BY <1>1, <3>1, <3>2 DEF BucketInv, TimesAreTrue, Stale
    <3>4. arrived'[x] < arrived'[A + 1] - Window /\ A + 1 \in Samples'
      BY <1>3, <1>4, <1>5, <1>6, <3>2, <3>3
    <3> QED
      BY <3>4
  <2> QED
    BY <1>12, <2>2, <2>3
<1> QED
  BY <1>4, <1>9, <1>11, <1>13, <1>14, <1>15, <1>16 DEF BucketInv

-----------------------------------------------------------------------------
(* The selection of buckets. *)

\* A set of positions has a first one: the shortest of the intersections with initial
\* segments, a minimum in the ordering of finite sets, is the set of that one.
LEMMA SmallestExists ==
  ASSUME NEW L \in Nat, NEW C \in SUBSET (1..L), C # {}
  PROVE  \E n \in C : \A m \in C : n <= m
<1> DEFINE upTo(n) == {m \in C : m <= n}
           T == {upTo(n) : n \in C}
           R == StrictSubsetOrdering(C)
<1>1. IsFiniteSet(C)
  <2>1. IsFiniteSet(1..L)
    BY FS_Interval
  <2> QED
    BY <2>1, FS_Subset
<1>2. IsWellFoundedOn(R, FiniteSubsetsOf(C))
  BY FS_StrictSubsetOrderingWellFounded
<1>3. T \subseteq FiniteSubsetsOf(C) /\ T # {}
  <2>1. FiniteSubsetsOf(C) = SUBSET C
    BY <1>1, FS_FiniteSubsetsOfFinite
  <2>2. \A n \in C : upTo(n) \in SUBSET C
    OBVIOUS
  <2>3. T \subseteq SUBSET C
    BY <2>2
  <2>4. T # {}
    OBVIOUS
  <2> QED
    BY <2>1, <2>3, <2>4
<1> HIDE DEF R, T
<1>4. PICK S \in T : \A U \in T : ~ (<<U, S>> \in R)
  BY <1>2, <1>3, WFMin
<1>5. PICK n \in C : S = upTo(n)
  BY <1>4 DEF T
<1>6. ASSUME NEW m \in C, m < n PROVE FALSE
  <2>1. upTo(m) \in T /\ upTo(m) \in SUBSET C /\ S \in SUBSET C
    BY <1>5, <1>6 DEF T
  <2>2. upTo(m) \subseteq S
    <3>1. \A x \in C : x \in Int
      OBVIOUS
    <3>2. \A x \in C : x <= m => x <= n
      BY <1>6, <3>1
    <3> QED
      BY <1>5, <3>2
  <2>3. n \in S /\ n \notin upTo(m)
    BY <1>5, <1>6
  <2>4. <<upTo(m), S>> \in R
    BY <2>1, <2>2, <2>3 DEF R, StrictSubsetOrdering
  <2> QED
    BY <1>4, <2>1, <2>4
<1>7. \A m \in C : m \in Nat
  OBVIOUS
<1> QED
  BY <1>6, <1>7

\* The first bucket of a selection exists.
LEMMA FirstIsBucket ==
  ASSUME NEW t, Len(buckets) \in Nat \ {0}
  PROVE  First(t) \in 1..Len(buckets)
<1> DEFINE C == Containing(t)
<1>1. CASE C = {}
  BY <1>1 DEF First
<1>2. CASE C # {}
  <2>1. C \subseteq 1..Len(buckets) /\ C \subseteq Nat
    BY DEF Containing
  <2>2. \E n \in C : \A m \in C : n <= m
    BY <1>2, <2>1, SmallestExists
  <2>3. First(t) \in C
    BY <1>2, <2>2 DEF First
  <2> QED
    BY <2>1, <2>3
<1> QED
  BY <1>1, <1>2

\* The index that is moved on after the range checks is an index: the newest bucket has
\* one time, which is not nearer to its end than to its beginning.
LEMMA FromIsBucket ==
  ASSUME IInv, Len(buckets) > 0, NEW t \in Times
  PROVE  From(t) \in 1..Len(buckets)
<1> DEFINE n == IF t < buckets[1].minTime THEN 1 ELSE First(t)
           L == Len(buckets)
<1>1. L \in Nat \ {0}
  BY LenProperties DEF IInv, TypeOK
<1>2. n \in 1..L
  BY <1>1, FirstIsBucket
<1>3. n = L => Distance(t, buckets[n].minTime) = Distance(t, buckets[n].maxTime)
  BY DEF IInv, BucketInv, NewestIsSingle
<1>4. \A d \in Int : ~(d > d)
  OBVIOUS
<1>5. L \in 1..Len(buckets) /\ buckets[L].minTime \in Nat /\ t \in Nat
  <2>1. L \in 1..Len(buckets)
    BY <1>1
  <2>2. buckets[L] \in Bucket
    <3>1. buckets \in Seq(Bucket)
      BY DEF IInv, TypeOK
    <3> QED
      BY <2>1, <3>1, ElementOfSeq
  <2>3. buckets[L].minTime \in Times
    BY <2>2 DEF Bucket
  <2> QED
    BY <2>1, <2>3, HistogramAssumption
<1>6. Distance(t, buckets[L].minTime) \in Int
  BY <1>5 DEF Distance
<1> HIDE DEF n
<1>7. CASE n = L
  BY <1>2, <1>3, <1>4, <1>6, <1>7 DEF From, n
<1>8. CASE n # L
  <2>1. From(t) \in {n, n + 1}
    BY DEF From, n
  <2> QED
    BY <1>1, <1>2, <1>8, <2>1
<1> QED
  BY <1>7, <1>8

-----------------------------------------------------------------------------
(* Steps. *)

\* The conjuncts of TypeOK that say how far Update has come.
LoopTypes ==
  /\ i \in Nat
  /\ same \in Nat \ {0}
  /\ locked => i < Len(buckets) /\ same <= Len(buckets) - i

QueryTypes ==
  /\ locked \in BOOLEAN
  /\ query \in [Queries -> {"start", "covered", "reading", "backend", "answered", "panic"}]
  /\ interval \in [Queries -> Intervals]
  /\ fromBucket \in [Queries -> Nat]

\* What is said of the buckets depends on nothing else.
LEMMA BucketsStay ==
  ASSUME BucketInv, buckets' = buckets, arrived' = arrived
  PROVE  BucketInv'
<1>1. Samples' = Samples /\ Kept' = Kept
  BY DEF Samples, Kept
<1>2. Bucket' = Bucket
  BY <1>1 DEF Bucket
<1>3. buckets' \in Seq(Bucket') /\ arrived' \in Seq(Times)
  BY <1>2 DEF BucketInv
<1>4. TimesAreTrue' /\ NewestIsSingle'
  BY DEF BucketInv, TimesAreTrue, NewestIsSingle
<1>5. ArrivalOrder'
  BY <1>1 DEF BucketInv, ArrivalOrder
<1>6. RecentIsKept'
  BY <1>1 DEF BucketInv, RecentIsKept
<1> QED
  BY <1>3, <1>4, <1>5, <1>6 DEF BucketInv

\* A step of the loop that passes bucket i and merges nothing.
LEMMA LoopMovesOn ==
  ASSUME IInv, locked, i > 0, i' = i - 1, same' \in {1, same + 1},
         UNCHANGED <<buckets, locked, arrived, queryVars>>
  PROVE  IInv'
<1>1. LoopTypes /\ Len(buckets) \in Nat
  BY LenProperties DEF IInv, TypeOK, LoopTypes
<1>2. LoopTypes'
  BY <1>1 DEF LoopTypes
<1>3. BucketInv'
  BY BucketsStay DEF IInv
<1>4. CoveredHasSamples'
  BY DEF IInv, CoveredHasSamples, queryVars
<1>5. QueryTypes'
  BY DEF IInv, TypeOK, QueryTypes, queryVars
<1> QED
  BY <1>2, <1>3, <1>4, <1>5 DEF IInv, TypeOK, BucketInv, LoopTypes, QueryTypes

\* A query changes nothing but its own state.
LEMMA QueryKeeps ==
  ASSUME IInv, NEW q \in Queries,
         NEW r \in {"covered", "reading", "backend", "answered", "panic"}, NEW n \in Nat,
         query' = [query EXCEPT ![q] = r], r = "covered" => Len(buckets) > 0,
         fromBucket' \in {fromBucket, [fromBucket EXCEPT ![q] = n]},
         UNCHANGED <<updateVars, interval>>
  PROVE  IInv'
<1>1. LoopTypes'
  BY DEF IInv, TypeOK, LoopTypes, updateVars
<1>2. BucketInv'
  BY BucketsStay DEF IInv, updateVars
<1>3. QueryTypes'
  BY DEF IInv, TypeOK, QueryTypes, updateVars
<1>4. CoveredHasSamples'
  BY DEF IInv, TypeOK, CoveredHasSamples, updateVars
<1> QED
  BY <1>1, <1>2, <1>3, <1>4 DEF IInv, TypeOK, BucketInv, LoopTypes, QueryTypes

LEMMA StepKeeps == IInv /\ [Next]_vars => IInv'
<1> SUFFICES ASSUME IInv, [Next]_vars PROVE IInv'
  OBVIOUS
<1>1. LoopTypes /\ QueryTypes /\ Len(buckets) \in Nat /\ BucketInv
  BY LenProperties DEF IInv, TypeOK, LoopTypes, QueryTypes
<1>2. ASSUME NEW t \in Times, BeginUpdate(t) PROVE IInv'
  <2>1. BucketInv' /\ Len(buckets') > 0
    BY <1>1, <1>2, BeginUpdateKeeps
  <2>2. Len(buckets') \in Nat
    BY <2>1, LenProperties DEF BucketInv
  <2>3. locked' = TRUE /\ i' = Len(buckets') - 1 /\ same' = 1 /\ UNCHANGED queryVars
    BY <1>2 DEF BeginUpdate
  <2>4. LoopTypes'
    BY <2>1, <2>2, <2>3 DEF LoopTypes
  <2>5. QueryTypes'
    BY <1>1, <2>3 DEF QueryTypes, queryVars
  <2>6. CoveredHasSamples'
    BY <2>1 DEF CoveredHasSamples
  <2> QED
    BY <2>1, <2>4, <2>5, <2>6 DEF IInv, TypeOK, BucketInv, LoopTypes, QueryTypes
<1>3. CASE SameSize
  BY <1>3, LoopMovesOn DEF SameSize
<1>4. CASE MergeRun
  <2>1. same >= 3
    BY <1>4, TooManyIsThree DEF IInv, MergeRun
  <2>2. i + 1 \in 1..Len(buckets) /\ (i + 1) + 1 < Len(buckets)
    BY <1>1, <1>4, <2>1 DEF MergeRun, LoopTypes
  <2>3. buckets' = Merged(i + 1) /\ arrived' = arrived /\ locked' = locked /\ UNCHANGED queryVars
    BY <1>4 DEF MergeRun
  <2>4. BucketInv'
    BY <1>1, <2>2, <2>3, MergeKeeps
  <2>5. Len(buckets') = Len(buckets) - 1
    BY <1>1, <2>2, <2>3, MergedBuckets
  <2>6. i' = i - 1 /\ same' \in {1, 2} /\ locked /\ i > 0
    BY <1>4 DEF MergeRun
  <2>7. LoopTypes'
    BY <1>1, <2>1, <2>5, <2>6 DEF LoopTypes
  <2>8. QueryTypes'
    BY <1>1, <2>3 DEF QueryTypes, queryVars
  <2>9. CoveredHasSamples'
    BY <1>1, <2>2, <2>5 DEF CoveredHasSamples
  <2> QED
    BY <2>4, <2>7, <2>8, <2>9 DEF IInv, TypeOK, BucketInv, LoopTypes, QueryTypes
<1>5. CASE KeepRun
  BY <1>5, LoopMovesOn DEF KeepRun
<1>6. CASE EndUpdate
  <2>1. i' = i /\ i = 0 /\ same' = 1 /\ locked' = FALSE /\ arrived' = arrived /\ UNCHANGED queryVars
    BY <1>6 DEF EndUpdate
  <2>2. BucketInv' /\ Len(buckets') \in Nat /\ Len(buckets') > 0
    <3>1. CASE TooMany
      <4>1. same >= 3
        BY <3>1, TooManyIsThree DEF IInv
      <4>2. 1 \in 1..Len(buckets) /\ 1 + 1 < Len(buckets)
        BY <1>1, <1>6, <2>1, <4>1 DEF EndUpdate, LoopTypes
      <4>3. buckets' = Merged(1)
        BY <1>6, <3>1 DEF EndUpdate
      <4>4. BucketInv'
        BY <1>1, <2>1, <4>2, <4>3, MergeKeeps
      <4>5. Len(buckets') = Len(buckets) - 1
        BY <1>1, <4>2, <4>3, MergedBuckets
      <4> QED
        BY <1>1, <4>2, <4>4, <4>5
    <3>2. CASE ~TooMany
      <4>1. buckets' = buckets
        BY <1>6, <3>2 DEF EndUpdate
      <4>2. BucketInv'
        BY <1>1, <2>1, <4>1, BucketsStay
      <4>3. Len(buckets) > 0
        BY <1>1, <1>6 DEF EndUpdate, LoopTypes
      <4> QED
        BY <1>1, <4>1, <4>2, <4>3
    <3> QED
      BY <3>1, <3>2
  <2>3. LoopTypes'
    BY <1>1, <2>1 DEF LoopTypes
  <2>4. QueryTypes'
    BY <1>1, <2>1 DEF QueryTypes, queryVars
  <2>5. CoveredHasSamples'
    BY <2>2 DEF CoveredHasSamples
  <2> QED
    BY <2>2, <2>3, <2>4, <2>5 DEF IInv, TypeOK, BucketInv, LoopTypes, QueryTypes
<1>7. ASSUME NEW q \in Queries, LookUp(q) PROVE IInv'
  <2> DEFINE covered == Cover(interval[q].mint, interval[q].maxt)
  <2>1. CASE covered
    <3>1. query' = [query EXCEPT ![q] = "covered"] /\ Len(buckets) > 0
      BY <1>7, <2>1 DEF LookUp, Cover
    <3> QED
      BY <1>7, <3>1, QueryKeeps DEF LookUp
  <2>2. CASE ~covered
    <3>1. query' = [query EXCEPT ![q] = "backend"]
      BY <1>7, <2>2 DEF LookUp
    <3> QED
      BY <1>7, <3>1, QueryKeeps DEF LookUp
  <2> QED
    BY <2>1, <2>2
<1>8. ASSUME NEW q \in Queries, Eval(q) PROVE IInv'
  <2> DEFINE from == From(interval[q].mint)
  <2>1. UNCHANGED <<updateVars, interval>>
    BY <1>8 DEF Eval
  <2>2. CASE fromBucket' = fromBucket /\ \E r \in {"answered", "panic"} : query' = [query EXCEPT ![q] = r]
    BY <2>1, <2>2, QueryKeeps
  <2>3. CASE /\ Len(buckets) > 0
             /\ query' = [query EXCEPT ![q] = "reading"]
             /\ fromBucket' = [fromBucket EXCEPT ![q] = from]
    <3>1. interval[q].mint \in Times
      BY <1>1, HistogramAssumption DEF QueryTypes
    <3>2. from \in Nat
      BY <2>3, <3>1, FromIsBucket
    <3> QED
      BY <2>1, <2>3, <3>2, QueryKeeps
  <2> QED
    BY <1>8, <2>2, <2>3 DEF Eval
<1>9. ASSUME NEW q \in Queries, ReadBucket(q) PROVE IInv'
  <2>1. \E r \in {"answered", "panic"} : query' = [query EXCEPT ![q] = r]
    BY <1>9 DEF ReadBucket
  <2>2. UNCHANGED <<updateVars, interval>> /\ fromBucket' = [fromBucket EXCEPT ![q] = 0]
    BY <1>9 DEF ReadBucket
  <2> QED
    BY <2>1, <2>2, QueryKeeps
<1>10. CASE UNCHANGED vars
  <2>1. BucketInv'
    BY <1>1, <1>10, BucketsStay DEF vars
  <2>2. LoopTypes' /\ QueryTypes'
    BY <1>1, <1>10 DEF vars, LoopTypes, QueryTypes
  <2>3. CoveredHasSamples'
    BY <1>10 DEF vars, IInv, CoveredHasSamples
  <2> QED
    BY <2>1, <2>2, <2>3 DEF IInv, TypeOK, BucketInv, LoopTypes, QueryTypes
<1> QED
  BY <1>2, <1>3, <1>4, <1>5, <1>6, <1>7, <1>8, <1>9, <1>10 DEF Next

\* The inductive invariant.
THEOREM Invariant == Spec => []IInv
<1>1. Init => IInv
  BY InitHolds
<1>2. IInv /\ [Next]_vars => IInv'
  BY StepKeeps
<1> QED
  BY <1>1, <1>2, PTL DEF Spec

\* Types; in particular the loop of Update never leaves the array.
THEOREM Types == Spec => []TypeOK
<1>1. IInv => TypeOK
  BY DEF IInv
<1> QED
  BY <1>1, Invariant, PTL

\* For any k and window, and however late samples are, only old samples are removed.
THEOREM OnlyOldIsRemoved == Spec => []RecentIsKept
<1>1. IInv => RecentIsKept
  BY DEF IInv, BucketInv
<1> QED
  BY <1>1, Invariant, PTL

-----------------------------------------------------------------------------
(* What is true between two steps. *)

\* For any k, whatever was merged and however late samples are, the index that is moved
\* on after the range checks is an index.
THEOREM SelectedIndexExists == Spec => []IndexInRange
<1>1. IInv => IndexInRange
  BY FromIsBucket DEF IndexInRange
<1> QED
  BY <1>1, Invariant, PTL

\* What LookUp promises, for any k and window: of a covered interval no sample was removed,
\* if the samples came in order.
THEOREM CoverIsTrue == Spec => []CoveredIsKept
<1>1. IInv => CoveredIsKept
  <2>1. SUFFICES ASSUME IInv, InOrder, NEW t1 \in Times, NEW t2 \in Times, Cover(t1, t2),
                        NEW x \in Between(t1, t2), x \notin Kept
                 PROVE  FALSE
    BY DEF CoveredIsKept
  <2>2. x \in Samples /\ t1 <= arrived[x]
    BY DEF Between
  <2>3. 1 \in 1..Len(buckets) /\ buckets[1].minTime <= t1
    BY <2>1, LenProperties DEF Cover, IInv, TypeOK
  <2>4. PICK n \in buckets[1].kll : arrived[n] = buckets[1].minTime
    BY <2>1, <2>3 DEF IInv, BucketInv, TimesAreTrue
  <2>5. n \in Samples
    <3>1. buckets[1] \in Bucket
      BY <2>1, <2>3, ElementOfSeq DEF IInv, TypeOK
    <3> QED
      BY <2>4, <3>1 DEF Bucket
  <2>6. x < n
    BY <2>1, <2>2, <2>3 DEF IInv, BucketInv, ArrivalOrder
  <2>7. arrived[x] < arrived[n]
    BY <2>1, <2>2, <2>5, <2>6 DEF InOrder
  <2>8. arrived[x] \in Nat /\ arrived[n] \in Nat /\ t1 \in Nat
    BY <2>1, <2>2, <2>5, ElementOfSeq, LenProperties, HistogramAssumption
       DEF IInv, TypeOK, Samples
  <2> QED
    BY <2>2, <2>3, <2>4, <2>7, <2>8
<1> QED
  BY <1>1, Invariant, PTL

\* However many updates come between them, a LookUp that succeeded is followed by an Eval
\* that finds a bucket.
THEOREM LookUpMakesEvalFind == Spec => CoveredIsNotEmpty
<1>1. IInv /\ [Next]_vars => [\A q \in Queries : query[q] = "covered" => query'[q] # "panic"]_vars
  <2>1. SUFFICES ASSUME IInv, Next, NEW q \in Queries, query[q] = "covered"
                 PROVE  query'[q] # "panic"
    OBVIOUS
  <2>2. Len(buckets) > 0 /\ QueryTypes
    BY <2>1 DEF IInv, TypeOK, QueryTypes, CoveredHasSamples
  <2>3. ASSUME UNCHANGED queryVars PROVE query'[q] # "panic"
    BY <2>1, <2>3 DEF queryVars
  <2>4. ASSUME NEW p \in Queries, LookUp(p) PROVE query'[q] # "panic"
    BY <2>1, <2>2, <2>4 DEF LookUp, QueryTypes
  <2>5. ASSUME NEW p \in Queries, Eval(p) PROVE query'[q] # "panic"
    <3>1. \E r \in {"answered", "reading"} : query' = [query EXCEPT ![p] = r]
      BY <2>2, <2>5, LenProperties DEF Eval, IInv, TypeOK
    <3> QED
      BY <2>1, <2>2, <3>1 DEF QueryTypes
  <2>6. ASSUME NEW p \in Queries, ReadBucket(p) PROVE query'[q] # "panic"
    BY <2>1, <2>2, <2>6 DEF ReadBucket, QueryTypes
  <2> QED
    BY <2>1, <2>3, <2>4, <2>5, <2>6 DEF Next, BeginUpdate, SameSize, MergeRun, KeepRun, EndUpdate
<1> QED
  BY <1>1, Invariant, PTL DEF Spec, CoveredIsNotEmpty

\* Both together: the bucket that a covered query reads exists.
THEOREM CoveredReadsABucket == Spec => CoveredFindsABucket
  BY SelectedIndexExists, LookUpMakesEvalFind, PTL DEF CoveredFindsABucket

-----------------------------------------------------------------------------
(* Answers. *)

\* Of samples that came in order, buckets share no time.
LEMMA DisjointTimes ==
  ASSUME IInv, InOrder, NEW b \in 1..Len(buckets), NEW c \in 1..Len(buckets), b < c
  PROVE  buckets[b].maxTime < buckets[c].minTime
<1>1. buckets[b] \in Bucket /\ buckets[c] \in Bucket
  BY ElementOfSeq DEF IInv, TypeOK
<1>2. PICK x \in buckets[b].kll : arrived[x] = buckets[b].maxTime
  BY DEF IInv, BucketInv, TimesAreTrue
<1>3. PICK y \in buckets[c].kll : arrived[y] = buckets[c].minTime
  BY DEF IInv, BucketInv, TimesAreTrue
<1>4. x \in Samples /\ y \in Samples
  BY <1>1, <1>2, <1>3 DEF Bucket
<1>5. x < y
  BY <1>2, <1>3 DEF IInv, BucketInv, ArrivalOrder
<1> QED
  BY <1>2, <1>3, <1>4, <1>5 DEF InOrder

\* What the proof of the next theorem needs of the numbers.
LEMMA BucketNumbers ==
  ASSUME IInv
  PROVE  /\ Len(buckets) \in Nat
         /\ \A b \in 1..Len(buckets) : /\ buckets[b].kll \subseteq Samples
                                       /\ buckets[b].minTime \in Nat
                                       /\ buckets[b].maxTime \in Nat
                                       /\ buckets[b].minTime <= buckets[b].maxTime
         /\ \A x \in Samples : arrived[x] \in Nat
<1>1. Len(buckets) \in Nat
  BY LenProperties DEF IInv, TypeOK
<1>2. \A x \in Samples : arrived[x] \in Nat
  BY ElementOfSeq, HistogramAssumption, LenProperties DEF IInv, TypeOK, Samples
<1>3. \A b \in 1..Len(buckets) : /\ buckets[b].kll \subseteq Samples
                                 /\ buckets[b].minTime \in Nat
                                 /\ buckets[b].maxTime \in Nat
  <2>1. \A b \in 1..Len(buckets) : buckets[b] \in Bucket
    BY ElementOfSeq DEF IInv, TypeOK
  <2> QED
    BY <2>1, HistogramAssumption DEF Bucket
<1>4. \A b \in 1..Len(buckets) : buckets[b].minTime <= buckets[b].maxTime
  <2>1. SUFFICES ASSUME NEW b \in 1..Len(buckets)
                 PROVE  buckets[b].minTime <= buckets[b].maxTime
    OBVIOUS
  <2>2. PICK x \in buckets[b].kll : arrived[x] = buckets[b].minTime
    BY DEF IInv, BucketInv, TimesAreTrue
  <2> QED
    BY <2>2 DEF IInv, BucketInv, TimesAreTrue
<1> QED
  BY <1>1, <1>2, <1>3, <1>4

\* The only bucket that contains a time is the one that is selected.
LEMMA FirstIsTheOne ==
  ASSUME IInv, InOrder, NEW t \in Times, NEW n \in Containing(t)
  PROVE  First(t) = n
<1>1. \A m \in Containing(t) : m = n
  <2>1. SUFFICES ASSUME NEW m \in Containing(t), m # n PROVE FALSE
    OBVIOUS
  <2>2. /\ m \in 1..Len(buckets) /\ n \in 1..Len(buckets)
        /\ buckets[m].minTime <= t /\ t <= buckets[m].maxTime
        /\ buckets[n].minTime <= t /\ t <= buckets[n].maxTime
    BY DEF Containing
  <2>3. m < n \/ n < m
    BY <2>1, <2>2
  <2>4. \/ buckets[m].maxTime < buckets[n].minTime
        \/ buckets[n].maxTime < buckets[m].minTime
    BY <2>2, <2>3, DisjointTimes
  <2> QED
    BY <2>2, <2>4, BucketNumbers, HistogramAssumption
<1>2. Containing(t) # {} /\ n <= n
  BY DEF Containing
<1>3. First(t) \in Containing(t)
  <2>1. \E k \in Containing(t) : \A m \in Containing(t) : k <= m
    BY <1>1, <1>2
  <2> QED
    BY <1>2, <2>1 DEF First
<1> QED
  BY <1>1, <1>3

\* The buckets of an answer between the buckets of its bounds: the first is in or out.
LEMMA AnswerIsARange ==
  ASSUME IInv, InOrder, NEW t1 \in Times, NEW t2 \in Times,
         NEW n \in Containing(t1), NEW m \in Containing(t2), n < m
  PROVE  \E from \in {n, n + 1} : Answer(t1, t2) = UNION {buckets[b].kll : b \in from..m}
<1>1. /\ n \in 1..Len(buckets) /\ m \in 1..Len(buckets)
      /\ buckets[n].minTime <= t1 /\ t2 <= buckets[m].maxTime
      /\ Len(buckets) \in Nat
  BY BucketNumbers DEF Containing
<1>2. First(t1) = n /\ First(t2) = m
  BY FirstIsTheOne
<1>3. t1 \in Nat /\ t2 \in Nat
  BY HistogramAssumption
<1>4. From(t1) \in {n, n + 1}
  <2>1. ~(t1 < buckets[1].minTime)
    <3>1. n = 1 \/ (n > 1 /\ 1 \in 1..Len(buckets))
      BY <1>1
    <3>2. CASE n = 1
      BY <1>1, <1>3, <3>2, BucketNumbers
    <3>3. CASE n > 1 /\ 1 \in 1..Len(buckets)
      BY <1>1, <1>3, <3>3, DisjointTimes, BucketNumbers
    <3> QED
      BY <3>1, <3>2, <3>3
  <2> QED
    BY <1>2, <2>1 DEF From
<1>5. To(t2) = m
  <2>1. ~(t2 > buckets[Len(buckets)].maxTime)
    <3>1. m = Len(buckets) \/ (m < Len(buckets) /\ Len(buckets) \in 1..Len(buckets))
      BY <1>1
    <3>2. CASE m = Len(buckets)
      BY <1>1, <1>3, <3>2, BucketNumbers
    <3>3. CASE m < Len(buckets) /\ Len(buckets) \in 1..Len(buckets)
      BY <1>1, <1>3, <3>3, DisjointTimes, BucketNumbers
    <3> QED
      BY <3>1, <3>2, <3>3
  <2> QED
    BY <1>2, <2>1 DEF To
<1>6. CASE From(t1) < To(t2)
  BY <1>4, <1>5, <1>6 DEF Answer
<1>7. CASE ~(From(t1) < To(t2))
  <2>1. From(t1) = n + 1 /\ n + 1 = m
    BY <1>1, <1>4, <1>5, <1>7
  <2>2. (n + 1)..m = {m}
    BY <1>1, <2>1
  <2>3. Answer(t1, t2) = buckets[m].kll
    BY <1>7, <2>1 DEF Answer
  <2>4. Answer(t1, t2) = UNION {buckets[b].kll : b \in (n + 1)..m}
    BY <2>2, <2>3
  <2> QED
    BY <2>4
<1> QED
  BY <1>6, <1>7

\* For any k and window, an answer about samples that came in order is wrong at the
\* buckets of its two bounds only.
THEOREM OnlyEdgesAreWrong == Spec => []WrongAtTheEdgesOnly
<1>1. IInv => WrongAtTheEdgesOnly
  <2>1. SUFFICES ASSUME IInv, InOrder, NEW t1 \in Times, NEW t2 \in Times,
                        NEW n \in Containing(t1), NEW m \in Containing(t2), n < m
                 PROVE  /\ Between(t1, t2) \ Answer(t1, t2) \subseteq buckets[n].kll
                        /\ Answer(t1, t2) \ Between(t1, t2)
                             \subseteq buckets[n].kll \cup buckets[m].kll
    BY DEF WrongAtTheEdgesOnly
  <2>2. /\ n \in 1..Len(buckets) /\ m \in 1..Len(buckets)
        /\ buckets[n].minTime <= t1 /\ t1 <= buckets[n].maxTime
        /\ buckets[m].minTime <= t2 /\ t2 <= buckets[m].maxTime
        /\ t1 \in Nat /\ t2 \in Nat
    BY <2>1, HistogramAssumption DEF Containing
  <2>3. PICK from \in {n, n + 1} : Answer(t1, t2) = UNION {buckets[b].kll : b \in from..m}
    BY <2>1, AnswerIsARange
  <2>4. /\ Len(buckets) \in Nat
        /\ \A x \in Samples : arrived[x] \in Nat
        /\ \A b \in 1..Len(buckets) : /\ buckets[b].kll \subseteq Samples
                                      /\ buckets[b].minTime \in Nat
                                      /\ buckets[b].maxTime \in Nat
    BY <2>1, BucketNumbers
  <2>5. \A b \in 1..Len(buckets) : \A x \in buckets[b].kll :
          buckets[b].minTime <= arrived[x] /\ arrived[x] <= buckets[b].maxTime
    BY <2>1 DEF IInv, BucketInv, TimesAreTrue
  <2>6. ASSUME NEW x \in Between(t1, t2), x \notin Answer(t1, t2)
        PROVE  x \in buckets[n].kll
    <3>1. x \in Samples /\ t1 <= arrived[x] /\ arrived[x] <= t2
      BY <2>6 DEF Between
    <3>2. x \in Kept
      <4>1. PICK y \in buckets[n].kll : arrived[y] = buckets[n].minTime
        BY <2>1, <2>2 DEF IInv, BucketInv, TimesAreTrue
      <4>2. x \notin Kept => x < y
        BY <2>1, <2>2, <3>1, <4>1 DEF IInv, BucketInv, ArrivalOrder
      <4>3. y \in Samples
        BY <2>2, <2>4, <4>1
      <4>4. x < y => arrived[x] < arrived[y]
        BY <2>1, <3>1, <4>3 DEF InOrder
      <4> QED
        BY <2>2, <2>4, <3>1, <4>1, <4>2, <4>3, <4>4
    <3>3. PICK b \in 1..Len(buckets) : x \in buckets[b].kll
      BY <3>2 DEF Kept
    <3>4. ~(b < n)
      <4>1. b < n => buckets[b].maxTime < buckets[n].minTime
        BY <2>1, <2>2, DisjointTimes
      <4> QED
        BY <2>2, <2>4, <2>5, <3>1, <3>3, <4>1
    <3>5. ~(m < b)
      <4>1. m < b => buckets[m].maxTime < buckets[b].minTime
        BY <2>1, <2>2, DisjointTimes
      <4> QED
        BY <2>2, <2>4, <2>5, <3>1, <3>3, <4>1
    <3>6. b \notin from..m
      BY <2>3, <2>6, <3>3
    <3>7. b = n
      BY <2>2, <2>3, <3>4, <3>5, <3>6
    <3> QED
      BY <3>3, <3>7
  <2>7. ASSUME NEW x \in Answer(t1, t2), x \notin Between(t1, t2)
        PROVE  x \in buckets[n].kll \cup buckets[m].kll
    <3>1. PICK b \in from..m : x \in buckets[b].kll
      BY <2>3
    <3>2. b \in 1..Len(buckets) /\ n <= b /\ b <= m
      BY <2>2, <2>3, <2>4
    <3>3. x \in Samples
      BY <2>4, <3>1, <3>2
    <3>4. ~(n < b /\ b < m)
      <4>1. n < b /\ b < m => /\ buckets[n].maxTime < buckets[b].minTime
                              /\ buckets[b].maxTime < buckets[m].minTime
        BY <2>1, <2>2, <3>2, DisjointTimes
      <4>2. ~(t1 <= arrived[x] /\ arrived[x] <= t2)
        BY <2>7, <3>3 DEF Between
      <4>3. buckets[b].minTime <= arrived[x] /\ arrived[x] <= buckets[b].maxTime
        BY <2>5, <3>1, <3>2
      <4>4. arrived[x] \in Nat /\ buckets[b].minTime \in Nat /\ buckets[b].maxTime \in Nat
        BY <2>4, <3>2, <3>3
      <4>5. buckets[n].maxTime \in Nat /\ buckets[m].minTime \in Nat
        BY <2>2, <2>4
      <4>6. n < b /\ b < m => t1 <= arrived[x]
        <5>1. t1 <= buckets[n].maxTime /\ t1 \in Nat
          BY <2>2
        <5>2. n < b /\ b < m => buckets[n].maxTime < buckets[b].minTime
          BY <4>1
        <5>3. buckets[b].minTime <= arrived[x]
          BY <4>3
        <5> QED
          BY <4>4, <4>5, <5>1, <5>2, <5>3
      <4>7. n < b /\ b < m => arrived[x] <= t2
        BY <2>2, <4>1, <4>3, <4>4, <4>5
      <4> QED
        BY <4>2, <4>6, <4>7
    <3>5. b = n \/ b = m
      BY <2>2, <3>2, <3>4
    <3> QED
      BY <3>1, <3>5
  <2> QED
    BY <2>6, <2>7
<1> QED
  BY <1>1, Invariant, PTL

-----------------------------------------------------------------------------
(* The exponential shape.  Buckets are seen as their sizes z, and as the numbers e of the *)
(* samples at which they end: bucket n has the samples e[n - 1] + 1 to e[n].              *)

\* The most buckets that may have one size between updates.
Most == (K + 3) \div 2

\* Sizes double from one run to the next older one and begin with 1, and a bucket is small
\* against the samples that came after it.
Standing(L, z, e, A) ==
  /\ L \in Nat /\ A \in Nat
  /\ z \in [1..L -> Nat \ {0}]
  /\ e \in [0..L -> Nat]
  /\ e[L] = A
  /\ \A n \in 1..L : e[n] = e[n - 1] + z[n] /\ K * z[n] <= 2 * (A - e[n]) + K
  /\ L > 0 => z[L] = 1
  /\ \A n \in 1..L : n < L => z[n] = z[n + 1] \/ z[n] = 2 * z[n + 1]
  /\ \A n, m \in 1..L : n <= m => z[m] <= z[n]

FewOf(L, z) == \A n, m \in 1..L : m = n + Most => z[n] # z[m]

\* While the loop compares buckets j and j + 1, it has counted s buckets of one size; no
\* size has more than one bucket too many, and only the run that is counted has that.
Counting(L, z, e, j, s) ==
  /\ j \in Nat /\ s \in Nat \ {0} /\ j + s <= L
  /\ \A m \in 1..s : z[j + m] = z[j + 1] /\ e[j + m] = e[j + 1] + (m - 1) * z[j + 1]
  /\ \A n, m \in 1..L : m = n + Most + 1 => z[n] # z[m]
  /\ \A n, m \in 1..L : m = n + Most /\ z[n] = z[m] => n <= j + 1 /\ m = j + s

\* Buckets n and n + 1 have become one.
Joined(L, z, e, n, z2, e2) ==
  /\ z2 \in [1..(L - 1) -> Nat \ {0}]
  /\ e2 \in [0..(L - 1) -> Nat]
  /\ e2[0] = e[0]
  /\ \A m \in 1..(L - 1) :
       /\ m < n => z2[m] = z[m] /\ e2[m] = e[m]
       /\ m = n => z2[m] = z[n] + z[n + 1] /\ e2[m] = e[n + 1]
       /\ m > n => z2[m] = z[m + 1] /\ e2[m] = e[m + 1]

LEMMA MostFacts ==
  /\ Most \in Nat /\ Most >= 2 /\ 2 * Most < K + 4
  /\ \A s \in Nat : 2 * s >= K + 4 <=> s >= Most + 1
<1>1. K \in Nat /\ K >= 1
  BY HistogramAssumption
<1>2. Most \in Int /\ (2 * Most = K + 3 \/ 2 * Most = K + 2)
  BY <1>1 DEF Most
<1> HIDE DEF Most
<1> QED
  BY <1>1, <1>2

LEMMA Times2 ==
  \A a, b, c \in Nat : (a + b) * c = a * c + b * c /\ a * (b + c) = a * b + a * c
OBVIOUS

\* Two buckets of a run of s become one that is small enough, because there are enough in
\* the rest of the run: d samples came after the run.
LEMMA JoinedIsSmall ==
  ASSUME NEW x \in Nat, NEW d \in Nat, NEW s \in Nat, s >= 3, 2 * s >= K + 4,
         K * x <= 2 * d + K
  PROVE  K * (x + x) <= 2 * (d + (s - 2) * x) + K
<1> DEFINE c == 2 * (s - 2) - K
           r == s - 2
<1>1. K \in Nat /\ c \in Nat /\ r \in Nat /\ 2 * r = K + c
  BY HistogramAssumption
<1> HIDE DEF c, r
<1>2. K * (x + x) = K * x + K * x
  BY <1>1, Times2
<1>3. (2 * r) * x = K * x + c * x
  BY <1>1, Times2
<1>4. (2 * r) * x = 2 * (r * x)
  <2>1. 2 * r = r + r
    BY <1>1
  <2>2. (r + r) * x = r * x + r * x
    BY <1>1, Times2
  <2>3. r * x \in Nat
    BY <1>1
  <2> QED
    BY <2>1, <2>2, <2>3
<1>5. K * x \in Nat /\ c * x \in Nat /\ r * x \in Nat
  BY <1>1
<1>6. 2 * (d + r * x) = 2 * d + 2 * (r * x)
  BY <1>5
<1> QED
  BY <1>1, <1>2, <1>3, <1>4, <1>5, <1>6 DEF r

\* Joining two equal neighbours that another equal one follows, and that have no equal one
\* before them, keeps the shape if the joined bucket is small enough.
LEMMA JoinedStands ==
  ASSUME NEW L, NEW z, NEW e, NEW A, Standing(L, z, e, A),
         NEW n \in Nat \ {0}, n + 2 <= L, z[n] = z[n + 1], z[n] = z[n + 2],
         n > 1 => z[n - 1] # z[n],
         K * (z[n] + z[n]) <= 2 * (A - e[n + 1]) + K,
         NEW z2, NEW e2, Joined(L, z, e, n, z2, e2)
  PROVE  Standing(L - 1, z2, e2, A)
<1>1. /\ L \in Nat /\ A \in Nat /\ L - 1 \in Nat /\ L - 1 >= n + 1
      /\ z \in [1..L -> Nat \ {0}] /\ e \in [0..L -> Nat]
      /\ z2 \in [1..(L - 1) -> Nat \ {0}] /\ e2 \in [0..(L - 1) -> Nat]
  <2>1. L \in Nat /\ A \in Nat /\ z \in [1..L -> Nat \ {0}] /\ e \in [0..L -> Nat]
    BY DEF Standing
  <2>2. L - 1 \in Nat /\ L - 1 >= n + 1
    BY <2>1
  <2>3. z2 \in [1..(L - 1) -> Nat \ {0}] /\ e2 \in [0..(L - 1) -> Nat]
    BY DEF Joined
  <2> QED
    BY <2>1, <2>2, <2>3
<1>2. \A m \in 1..L : z[m] \in Nat \ {0} /\ e[m] \in Nat /\ e[m - 1] \in Nat
  <2>1. \A m \in 1..L : m \in 0..L /\ m - 1 \in 0..L
    BY <1>1
  <2> QED
    BY <1>1, <2>1
<1>3. \A m \in 1..(L - 1) : m \in 1..L /\ m + 1 \in 1..L
  BY <1>1
<1>4. \A m \in 1..(L - 1) :
        /\ m < n => z2[m] = z[m] /\ e2[m] = e[m]
        /\ m = n => z2[m] = z[n] + z[n] /\ e2[m] = e[n + 1]
        /\ m > n => z2[m] = z[m + 1] /\ e2[m] = e[m + 1]
  BY DEF Joined
<1>5. \A m \in 1..L : e[m] = e[m - 1] + z[m] /\ K * z[m] <= 2 * (A - e[m]) + K
  BY DEF Standing
<1>6. \A k, m \in 1..L : k <= m => z[m] <= z[k]
  BY DEF Standing
<1>7. \A m \in 1..L : m < L => z[m] = z[m + 1] \/ z[m] = 2 * z[m + 1]
  BY DEF Standing
<1>8. n > 1 => n - 1 \in 1..L /\ z[n - 1] = z[n] + z[n]
  <2>1. n > 1 => n - 1 \in 1..L /\ n - 1 < L /\ (n - 1) + 1 = n /\ n \in 1..L
    BY <1>1
  <2> QED
    BY <1>2, <1>7, <2>1
<1>9. e2[L - 1] = A
  <2>1. L - 1 \in 1..(L - 1) /\ L - 1 > n /\ (L - 1) + 1 = L /\ e[L] = A
    BY <1>1 DEF Standing
  <2> QED
    BY <1>4, <2>1
<1>10. z2[L - 1] = 1
  <2>1. L - 1 \in 1..(L - 1) /\ L - 1 > n /\ (L - 1) + 1 = L /\ z[L] = 1
    BY <1>1 DEF Standing
  <2> QED
    BY <1>4, <2>1
<1>11. ASSUME NEW m \in 1..(L - 1)
       PROVE  e2[m] = e2[m - 1] + z2[m] /\ K * z2[m] <= 2 * (A - e2[m]) + K
  <2> DEFINE p == m - 1
  <2>m. m \in Nat /\ m >= 1 /\ m <= L - 1 /\ L - 1 \in Nat
    BY <1>1
  <2>n. p = 0 \/ p \in 1..(L - 1)
    BY <2>m
  <2>0. e2[0] = e[0] /\ (p < n <=> m <= n) /\ p + 1 = m /\ p \in Int
    BY <2>m DEF Joined
  <2>b. m > n => p \in 1..(L - 1) /\ (p = n \/ p > n)
    BY <2>m, <2>n
  <2> HIDE DEF p
  <2>a. p = 0 \/ (p \in 1..(L - 1) /\ p < n) => e2[p] = e[p]
    BY <1>4, <2>0
  <2>c. m > n => e2[p] = e[m]
    BY <1>4, <2>0, <2>b
  <2>1. m <= n => e2[m - 1] = e[m - 1]
    BY <2>a, <2>n, <2>0 DEF p
  <2>3. m > n => e2[m - 1] = e[m]
    BY <2>c DEF p
  <2>4. CASE m < n
    <3>1. m <= n
      BY <2>4
    <3> QED
      BY <1>3, <1>4, <1>5, <2>1, <2>4, <3>1
  <2>5. CASE m = n
    <3>1. e[n] = e[n - 1] + z[n] /\ e[n + 1] = e[n] + z[n]
      <4>1. n \in 1..L /\ n + 1 \in 1..L /\ (n + 1) - 1 = n
        BY <1>3, <2>5
      <4> QED
        BY <1>5, <4>1
    <3>2. e[n - 1] \in Nat /\ z[n] \in Nat
      BY <1>2, <1>3, <2>5
    <3>3. e[n + 1] = e[n - 1] + (z[n] + z[n])
      BY <3>1, <3>2
    <3>4. e2[m] = e[n + 1] /\ z2[m] = z[n] + z[n]
      BY <1>4, <2>5
    <3>5. e2[m - 1] = e[n - 1]
      BY <2>1, <2>5
    <3> QED
      BY <3>3, <3>4, <3>5
  <2>6. CASE m > n
    <3>1. m + 1 \in 1..L /\ (m + 1) - 1 = m
      BY <1>3
    <3> QED
      BY <1>4, <1>5, <2>3, <2>6, <3>1
  <2> QED
    BY <1>1, <2>4, <2>5, <2>6
<1>12. ASSUME NEW m \in 1..(L - 1), m < L - 1
       PROVE  z2[m] = z2[m + 1] \/ z2[m] = 2 * z2[m + 1]
  <2>1. m + 1 \in 1..(L - 1) /\ m \in Nat
    BY <1>1, <1>12
  <2>2. CASE m + 1 < n
    <3>1. m < n /\ m \in 1..L /\ m < L
      BY <1>1, <2>1, <2>2
    <3> QED
      BY <1>4, <1>7, <2>1, <2>2, <3>1
  <2>3. CASE m + 1 = n
    <3>1. m < n /\ n > 1 /\ m = n - 1
      BY <2>1, <2>3
    <3> QED
      BY <1>4, <1>8, <2>1, <2>3, <3>1
  <2>4. CASE m = n
    <3>1. m + 1 > n /\ (m + 1) + 1 = n + 2 /\ z[n] \in Nat
      BY <1>2, <1>3, <2>1, <2>4
    <3>2. z2[m] = z[n] + z[n] /\ z2[m + 1] = z[n]
      BY <1>4, <2>1, <2>4, <3>1
    <3> QED
      BY <3>1, <3>2
  <2>5. CASE m > n
    <3>1. m + 1 > n /\ m + 1 \in 1..L /\ m + 1 < L
      BY <1>1, <1>12, <2>1, <2>5
    <3> QED
      BY <1>4, <1>7, <2>1, <2>5, <3>1
  <2> QED
    BY <2>1, <2>2, <2>3, <2>4, <2>5
<1>13. ASSUME NEW k \in 1..(L - 1), NEW m \in 1..(L - 1), k <= m
       PROVE  z2[m] <= z2[k]
  <2>1. k \in Nat /\ m \in Nat
    BY <1>1
  <2>2. \A p \in 1..(L - 1) : z2[p] \in Nat
    BY <1>1
  <2>3. ASSUME m < n PROVE z2[m] <= z2[k]
    BY <1>3, <1>4, <1>6, <1>13, <2>1, <2>3
  <2>4. ASSUME k < n, m = n PROVE z2[m] <= z2[k]
    <3>1. n > 1 /\ k <= n - 1 /\ n - 1 \in 1..L
      BY <1>8, <2>1, <2>4
    <3> QED
      BY <1>2, <1>3, <1>4, <1>6, <1>8, <2>4, <3>1
  <2>5. ASSUME k < n, m > n PROVE z2[m] <= z2[k]
    <3>1. k <= m + 1
      BY <2>1, <2>5
    <3> QED
      BY <1>3, <1>4, <1>6, <2>5, <3>1
  <2>6. ASSUME k = n, m = n PROVE z2[m] <= z2[k]
    BY <2>2, <2>6
  <2>7. ASSUME k = n, m > n PROVE z2[m] <= z2[k]
    <3>1. n <= m + 1
      BY <2>1, <2>7
    <3>2. z[m + 1] <= z[n]
      BY <1>3, <1>6, <2>7, <3>1
    <3>3. z[m + 1] \in Nat /\ z[n] \in Nat
      BY <1>2, <1>3, <2>7
    <3>4. z2[m] = z[m + 1] /\ z2[k] = z[n] + z[n]
      BY <1>4, <2>7
    <3> QED
      BY <3>2, <3>3, <3>4
  <2>8. ASSUME k > n PROVE z2[m] <= z2[k]
    <3>1. m > n /\ k + 1 <= m + 1
      BY <1>13, <2>1, <2>8
    <3> QED
      BY <1>3, <1>4, <1>6, <2>8, <3>1
  <2> QED
    BY <1>13, <2>1, <2>3, <2>4, <2>5, <2>6, <2>7, <2>8
<1> QED
  BY <1>1, <1>9, <1>10, <1>11, <1>12, <1>13 DEF Standing

\* What the loop has counted: a run too long is of three or more, and its two oldest
\* buckets can be joined.
LEMMA RunCanBeJoined ==
  ASSUME NEW L, NEW z, NEW e, NEW A, Standing(L, z, e, A),
         NEW j, NEW s, Counting(L, z, e, j, s), 2 * s >= K + 4
  PROVE  LET n == j + 1
         IN  /\ n \in Nat \ {0} /\ n + 2 <= L /\ z[n] = z[n + 1] /\ z[n] = z[n + 2]
             /\ K * (z[n] + z[n]) <= 2 * (A - e[n + 1]) + K
<1>1. /\ L \in Nat /\ A \in Nat /\ j \in Nat /\ s \in Nat \ {0} /\ j + s <= L /\ e[L] = A
      /\ z \in [1..L -> Nat \ {0}] /\ e \in [0..L -> Nat]
  BY DEF Standing, Counting
<1>2. s >= 3
  BY <1>1, MostFacts
<1> DEFINE x == z[j + 1]
<1>3. \A m \in 1..s : z[j + m] = x /\ e[j + m] = e[j + 1] + (m - 1) * x
  BY DEF Counting
<1>4. 1 \in 1..s /\ 2 \in 1..s /\ 3 \in 1..s /\ s \in 1..s
  BY <1>1, <1>2
<1>5. j + 1 \in 1..L /\ j + 2 \in 1..L /\ j + s \in 1..L /\ j + 1 \in 0..L /\ j + s \in 0..L
  BY <1>1, <1>2
<1>6. x \in Nat /\ e[j + 1] \in Nat /\ e[j + s] \in Nat /\ e[j + 2] \in Nat
  BY <1>1, <1>5
<1>7. K * z[j + s] <= 2 * (A - e[j + s]) + K /\ z[j + s] = x
  BY <1>3, <1>4, <1>5 DEF Standing
<1> HIDE DEF x
<1>8. e[j + 2] = e[j + 1] + x /\ e[j + s] = e[j + 1] + (s - 1) * x
  <2>1. e[j + 2] = e[j + 1] + (2 - 1) * x
    BY <1>3, <1>4
  <2>2. (2 - 1) * x = x
    BY <1>6
  <2> QED
    BY <1>3, <1>4, <2>1, <2>2
<1>9. (s - 1) * x = x + (s - 2) * x /\ (s - 2) * x \in Nat
  <2> DEFINE r == s - 2
  <2>1. r \in Nat /\ s - 1 = 1 + r
    BY <1>1, <1>2
  <2> HIDE DEF r
  <2>2. (1 + r) * x = 1 * x + r * x /\ 1 * x = x
    BY <1>6, <2>1, Times2
  <2>3. r * x \in Nat
    BY <1>6, <2>1
  <2> QED
    BY <2>1, <2>2, <2>3 DEF r
<1> DEFINE d == A - e[j + s]
           y == (s - 2) * x
<1>10. A - e[j + 2] = d + y
  <2>1. y \in Nat /\ (s - 1) * x = x + y
    BY <1>9
  <2> HIDE DEF y
  <2>2. e[j + s] = e[j + 1] + (x + y)
    BY <1>8, <2>1
  <2>3. e[j + s] = e[j + 2] + y
    BY <1>6, <1>8, <2>1, <2>2
  <2>4. \A a, b, c, f \in Int : f = b + c => a - b = (a - f) + c
    OBVIOUS
  <2> DEFINE E2 == e[j + 2]
             Es == e[j + s]
  <2>5. Es = E2 + y /\ Es \in Int /\ E2 \in Int /\ y \in Int /\ A \in Int
    <3>1. Es = E2 + y
      BY <2>3
    <3>2. e[j + 2] \in Nat /\ e[j + s] \in Nat /\ y \in Nat /\ A \in Nat
      BY <1>1, <1>6, <2>1
    <3> QED
      BY <3>1, <3>2
  <2> HIDE DEF E2, Es
  <2>6. A - E2 = (A - Es) + y
    BY <2>4, <2>5
  <2> QED
    BY <2>6 DEF E2, Es
<1>11. d \in Nat
  <2>1. K * x <= 2 * d + K /\ d \in Int
    BY <1>1, <1>6, <1>7
  <2>2. K * x >= K
    <3>1. x >= 1
      BY <1>1, <1>5 DEF x
    <3>2. x = 1 + (x - 1) /\ x - 1 \in Nat
      BY <1>6, <3>1
    <3>3. K * (1 + (x - 1)) = K * 1 + K * (x - 1) /\ K * (x - 1) \in Nat /\ K * 1 = K
      BY <3>2, Times2, HistogramAssumption
    <3> QED
      BY <3>2, <3>3, HistogramAssumption
  <2>3. K * x \in Nat /\ K \in Nat
    BY <1>6, HistogramAssumption
  <2> HIDE DEF d
  <2> QED
    BY <2>1, <2>2, <2>3
<1>12. K * (x + x) <= 2 * (d + y) + K
  <2>1. K * x <= 2 * d + K
    BY <1>7
  <2> HIDE DEF d
  <2> QED
    BY <1>1, <1>2, <1>6, <1>11, <2>1, JoinedIsSmall
<1>13. K * (x + x) <= 2 * (A - e[j + 2]) + K
  BY <1>10, <1>12
<1>14. z[j + 2] = x /\ z[j + 3] = x /\ j + 3 <= L
  BY <1>1, <1>2, <1>3, <1>4
<1>15. (j + 1) + 1 = j + 2 /\ (j + 1) + 2 = j + 3 /\ j + 1 \in Nat \ {0}
  BY <1>1
<1> QED
  BY <1>13, <1>14, <1>15 DEF x

\* The loop finds another bucket of the size it counts.
LEMMA OneMoreCounted ==
  ASSUME NEW L, NEW z, NEW e, NEW A, Standing(L, z, e, A),
         NEW j, NEW s, Counting(L, z, e, j, s), j > 0, z[j] = z[j + 1]
  PROVE  Counting(L, z, e, j - 1, s + 1)
<1>1. /\ L \in Nat /\ j \in Nat /\ s \in Nat \ {0} /\ j + s <= L
      /\ z \in [1..L -> Nat \ {0}] /\ e \in [0..L -> Nat]
  BY DEF Standing, Counting
<1>2. /\ j - 1 \in Nat /\ s + 1 \in Nat \ {0} /\ (j - 1) + (s + 1) = j + s
      /\ (j - 1) + 1 = j /\ j \in 1..L /\ j + 1 \in 1..L /\ (j + 1) - 1 = j
  BY <1>1
<1> DEFINE x == z[j]
<1>3. /\ x \in Nat /\ e[j] \in Nat /\ e[j + 1] = e[j] + x
      /\ \A m \in 1..s : z[j + m] = x /\ e[j + m] = e[j + 1] + (m - 1) * x
  <2>1. x \in Nat /\ e[j] \in Nat
    BY <1>1, <1>2
  <2>2. e[j + 1] = e[(j + 1) - 1] + z[j + 1]
    BY <1>2 DEF Standing
  <2> QED
    BY <1>2, <2>1, <2>2 DEF Counting
<1> HIDE DEF x
<1>4. ASSUME NEW m \in 1..(s + 1)
      PROVE  z[(j - 1) + m] = x /\ e[(j - 1) + m] = e[j] + (m - 1) * x
  <2>1. CASE m = 1
    <3>1. (1 - 1) * x = 0 /\ e[j] + 0 = e[j]
      BY <1>3
    <3> QED
      BY <1>2, <2>1, <3>1 DEF x
  <2>2. CASE m # 1
    <3> DEFINE p == m - 1
    <3>1. p \in 1..s /\ (j - 1) + m = j + p /\ p \in Nat /\ p - 1 \in Nat
      BY <1>1, <2>2
    <3> HIDE DEF p
    <3>2. z[j + p] = x /\ e[j + p] = e[j + 1] + (p - 1) * x
      BY <1>3, <3>1
    <3>3. p * x = x + (p - 1) * x
      <4> DEFINE k == p - 1
      <4>1. k \in Nat /\ p = 1 + k
        BY <3>1
      <4> HIDE DEF k
      <4>2. (1 + k) * x = 1 * x + k * x /\ 1 * x = x
        BY <1>3, <4>1, Times2
      <4> QED
        BY <4>1, <4>2 DEF k
    <3>4. (p - 1) * x \in Nat
      BY <1>3, <3>1
    <3>5. e[j + p] = e[j] + p * x
      BY <1>3, <3>2, <3>3, <3>4
    <3> QED
      BY <3>1, <3>2, <3>5 DEF p
  <2> QED
    BY <2>1, <2>2
<1>5. ASSUME NEW n \in 1..L, NEW m \in 1..L, m = n + Most, z[n] = z[m]
      PROVE  n <= (j - 1) + 1 /\ m = (j - 1) + (s + 1)
  <2>1. n <= j + 1 /\ m = j + s
    BY <1>5 DEF Counting
  <2>2. n # j + 1
    <3>1. n = j + 1 => m = j + Most + 1
      BY <1>1, <1>5, MostFacts
    <3>2. n = j + 1 => z[j] = z[m]
      BY <1>5
    <3> QED
      BY <1>2, <3>1, <3>2 DEF Counting
  <2> QED
    BY <1>1, <1>2, <2>1, <2>2
<1>6. \A n, m \in 1..L : m = n + Most + 1 => z[n] # z[m]
  BY DEF Counting
<1> QED
  BY <1>1, <1>2, <1>4, <1>5, <1>6 DEF Counting, x

\* A run that is not too long ends at bucket j + 1, and the loop counts anew.
LEMMA CountedAnew ==
  ASSUME NEW L, NEW z, NEW e, NEW A, Standing(L, z, e, A),
         NEW j, NEW s, Counting(L, z, e, j, s), j > 0, z[j] # z[j + 1], ~(2 * s >= K + 4)
  PROVE  Counting(L, z, e, j - 1, 1)
<1>1. /\ L \in Nat /\ j \in Nat /\ s \in Nat \ {0} /\ j + s <= L
      /\ z \in [1..L -> Nat \ {0}] /\ e \in [0..L -> Nat]
  BY DEF Standing, Counting
<1>2. /\ j - 1 \in Nat /\ (j - 1) + 1 = j /\ j \in 1..L /\ j + 1 \in 1..L /\ j <= L
      /\ z[j] \in Nat /\ e[j] \in Nat
  BY <1>1
<1>3. s <= Most
  BY <1>1, MostFacts
<1>4. \A m \in 1..1 : z[(j - 1) + m] = z[j] /\ e[(j - 1) + m] = e[j] + (m - 1) * z[j]
  <2>1. (1 - 1) * z[j] = 0 /\ e[j] + 0 = e[j]
    BY <1>2
  <2>2. \A m \in 1..1 : m = 1
    OBVIOUS
  <2> QED
    BY <1>2, <2>1, <2>2
<1>5. ASSUME NEW n \in 1..L, NEW m \in 1..L, m = n + Most, z[n] = z[m] PROVE FALSE
  <2>1. n <= j + 1 /\ m = j + s
    BY <1>5 DEF Counting
  <2>2. n <= j /\ j <= j + 1 /\ j + 1 <= m
    BY <1>1, <1>3, <1>5, <2>1, MostFacts
  <2>3. z[j] <= z[n] /\ z[j + 1] <= z[j] /\ z[m] <= z[j + 1]
    BY <1>2, <2>2 DEF Standing
  <2>4. z[n] \in Nat /\ z[j + 1] \in Nat
    BY <1>1, <1>2
  <2> QED
    BY <1>2, <1>5, <2>3, <2>4
<1>6. \A n, m \in 1..L : m = n + Most + 1 => z[n] # z[m]
  BY DEF Counting
<1> QED
  BY <1>1, <1>2, <1>4, <1>5, <1>6 DEF Counting

\* After the loop, a run that is not too long leaves none that is.
LEMMA EndedFew ==
  ASSUME NEW L, NEW z, NEW e, NEW s, Counting(L, z, e, 0, s), ~(2 * s >= K + 4)
  PROVE  FewOf(L, z)
<1>1. s \in Nat \ {0} /\ s <= Most
  BY MostFacts DEF Counting
<1>2. ASSUME NEW n \in 1..L, NEW m \in 1..L, m = n + Most, z[n] = z[m] PROVE FALSE
  <2>1. n <= 0 + 1 /\ m = 0 + s
    BY <1>2 DEF Counting
  <2>2. n \in Nat /\ n >= 1
    OBVIOUS
  <2> QED
    BY <1>1, <1>2, <2>1, <2>2, MostFacts
<1> QED
  BY <1>2 DEF FewOf

\* The two oldest buckets of the run that was counted are joined: the new bucket continues
\* the run before it, which may now have one bucket too many.
LEMMA JoinedIsCounted ==
  ASSUME NEW L, NEW z, NEW e, NEW A, Standing(L, z, e, A),
         NEW j, NEW s, Counting(L, z, e, j, s), j > 0, z[j] # z[j + 1], 2 * s >= K + 4,
         NEW z2, NEW e2, Joined(L, z, e, j + 1, z2, e2)
  PROVE  z2[j] = z2[j + 1] /\ Counting(L - 1, z2, e2, j - 1, 2)
<1>1. /\ L \in Nat /\ j \in Nat /\ s \in Nat \ {0} /\ j + s <= L
      /\ z \in [1..L -> Nat \ {0}] /\ e \in [0..L -> Nat]
  BY DEF Standing, Counting
<1>2. s >= 3 /\ s >= Most + 1 /\ Most \in Nat /\ Most >= 2
  BY <1>1, MostFacts
<1>3. /\ j - 1 \in Nat /\ (j - 1) + 1 = j /\ (j - 1) + 2 = j + 1 /\ j + 1 <= L - 1
      /\ j \in 1..L /\ j + 1 \in 1..L /\ j + 2 \in 1..L /\ j < L
      /\ j \in 1..(L - 1) /\ j + 1 \in 1..(L - 1) /\ (j + 1) - 1 = j
  BY <1>1, <1>2
<1>4. z[j + 1] \in Nat \ {0} /\ z[j + 2] = z[j + 1] /\ z[j] = 2 * z[j + 1] /\ e[j] \in Nat
  <2>1. 2 \in 1..s
    BY <1>1, <1>2
  <2> QED
    BY <1>1, <1>3, <2>1 DEF Standing, Counting
<1>5. \A m \in 1..(L - 1) :
        /\ m < j + 1 => z2[m] = z[m] /\ e2[m] = e[m]
        /\ m = j + 1 => z2[m] = z[j + 1] + z[(j + 1) + 1] /\ e2[m] = e[(j + 1) + 1]
        /\ m > j + 1 => z2[m] = z[m + 1] /\ e2[m] = e[m + 1]
  BY DEF Joined
<1>6. /\ z2[j] = z[j] /\ e2[j] = e[j]
      /\ z2[j + 1] = z[j] /\ e2[j + 1] = e[j + 2]
  <2>1. (j + 1) + 1 = j + 2 /\ j < j + 1
    BY <1>1
  <2>2. z[j + 1] + z[j + 2] = z[j]
    BY <1>4
  <2> QED
    BY <1>3, <1>5, <2>1, <2>2
<1>7. e[j + 2] = e[j] + z[j]
  <2>1. (j + 2) - 1 = j + 1
    BY <1>1
  <2>2. e[j + 1] = e[j] + z[j + 1] /\ e[j + 2] = e[j + 1] + z[j + 2]
    BY <1>3, <2>1 DEF Standing
  <2> QED
    BY <1>4, <2>2
<1>8. ASSUME NEW m \in 1..2
      PROVE  z2[(j - 1) + m] = z2[j] /\ e2[(j - 1) + m] = e2[j] + (m - 1) * z2[j]
  <2>1. (1 - 1) * z[j] = 0 /\ (2 - 1) * z[j] = z[j] /\ e[j] + 0 = e[j]
    BY <1>4
  <2>2. m = 1 \/ m = 2
    OBVIOUS
  <2> QED
    BY <1>3, <1>6, <1>7, <2>1, <2>2
<1>9. \A n \in 1..(L - 1) : n \in 1..L /\ n + 1 \in 1..L
  BY <1>1
<1>10. \A n, m \in 1..L : n <= m => z[m] <= z[n]
  BY DEF Standing
<1>11. \A n \in 1..L : z[n] \in Nat \ {0}
  BY <1>1
<1>12. \A n, m \in 1..L : m = n + Most + 1 => z[n] # z[m]
  BY DEF Counting
<1>13. \A n, m \in 1..L : m = n + Most /\ z[n] = z[m] => n <= j + 1 /\ m = j + s
  BY DEF Counting
<1>14. ASSUME NEW n \in 1..(L - 1), NEW m \in 1..(L - 1), n > j, m > n, z2[n] = z2[m]
       PROVE  n > j + 1 /\ z[n + 1] = z[m + 1]
  <2>1. m > j + 1 /\ j + 2 <= m + 1 /\ n >= j + 1
    BY <1>1, <1>14
  <2>2. z2[m] = z[m + 1] /\ z[m + 1] <= z[j + 2]
    BY <1>3, <1>5, <1>9, <1>10, <2>1
  <2>3. n # j + 1
    <3>1. z[m + 1] \in Nat
      BY <1>9, <1>11
    <3> QED
      BY <1>4, <1>6, <1>14, <2>2, <3>1
  <2>4. n > j + 1
    BY <1>1, <2>1, <2>3
  <2> QED
    BY <1>5, <1>14, <2>2, <2>4
<1>15. ASSUME NEW n \in 1..(L - 1), NEW m \in 1..(L - 1), m = n + Most + 1, z2[n] = z2[m]
       PROVE  FALSE
  <2>1. n \in Nat /\ m \in Nat /\ m > n
    BY <1>2, <1>15
  <2>2. CASE m <= j
    <3>1. z[n] = z[m]
      BY <1>1, <1>5, <1>15, <2>1, <2>2
    <3> QED
      BY <1>9, <1>12, <1>15, <3>1
  <2>3. CASE m = j + 1
    <3>1. j = n + Most
      BY <1>1, <1>2, <1>15, <2>1, <2>3
    <3>2. n < j + 1
      BY <1>1, <2>1, <2>3
    <3>3. z[n] = z[j]
      BY <1>5, <1>6, <1>15, <2>3, <3>2
    <3>4. j = j + s
      BY <1>3, <1>9, <1>13, <3>1, <3>3
    <3> QED
      BY <1>1, <3>4
  <2>4. CASE m > j + 1 /\ n <= j
    <3>0. n < j + 1
      BY <1>1, <2>1, <2>4
    <3>1. z[n] = z[m + 1]
      BY <1>5, <1>15, <2>4, <3>0
    <3>2. z[m + 1] <= z[m] /\ z[m] <= z[n]
      BY <1>9, <1>10, <2>1
    <3>3. z[n] = z[m]
      BY <1>9, <1>11, <3>1, <3>2
    <3> QED
      BY <1>9, <1>12, <1>15, <3>3
  <2>5. CASE n > j
    <3>1. z[n + 1] = z[m + 1] /\ m + 1 = (n + 1) + Most + 1
      BY <1>2, <1>14, <1>15, <2>1, <2>5
    <3> QED
      BY <1>9, <1>12, <3>1
  <2> QED
    BY <1>1, <2>1, <2>2, <2>3, <2>4, <2>5
<1>16. ASSUME NEW n \in 1..(L - 1), NEW m \in 1..(L - 1), m = n + Most, z2[n] = z2[m]
       PROVE  n <= (j - 1) + 1 /\ m = (j - 1) + 2
  <2>1. n \in Nat /\ m \in Nat /\ m > n
    BY <1>2, <1>16
  <2>2. CASE m <= j
    <3>1. z[n] = z[m]
      BY <1>1, <1>5, <1>16, <2>1, <2>2
    <3>2. m = j + s
      BY <1>9, <1>13, <1>16, <3>1
    <3> QED
      BY <1>1, <2>2, <3>2
  <2>3. CASE m = j + 1
    BY <1>1, <1>2, <1>16, <2>1, <2>3
  <2>4. CASE m > j + 1 /\ n <= j
    <3>0. n < j + 1
      BY <1>1, <2>1, <2>4
    <3>1. z[n] = z[m + 1]
      BY <1>5, <1>16, <2>4, <3>0
    <3>2. m + 1 = n + Most + 1
      BY <1>16
    <3> QED
      BY <1>9, <1>12, <3>1, <3>2
  <2>5. CASE n > j
    <3>1. z[n + 1] = z[m + 1] /\ m + 1 = (n + 1) + Most
      BY <1>2, <1>14, <1>16, <2>1, <2>5
    <3>2. n + 1 <= j + 1
      BY <1>9, <1>13, <3>1
    <3> QED
      BY <1>1, <2>1, <2>5, <3>2
  <2> QED
    BY <1>1, <2>1, <2>2, <2>3, <2>4, <2>5
<1>17. j - 1 + 2 <= L - 1 /\ 2 \in Nat \ {0}
  BY <1>1, <1>3
<1> QED
  BY <1>3, <1>6, <1>8, <1>15, <1>16, <1>17 DEF Counting

\* After the loop, joining the two oldest buckets leaves no run that is too long.
LEMMA JoinedEndsFew ==
  ASSUME NEW L, NEW z, NEW e, NEW A, Standing(L, z, e, A),
         NEW s, Counting(L, z, e, 0, s), 2 * s >= K + 4,
         NEW z2, NEW e2, Joined(L, z, e, 1, z2, e2)
  PROVE  FewOf(L - 1, z2)
<1>1. /\ L \in Nat /\ s \in Nat \ {0} /\ 0 + s <= L /\ z \in [1..L -> Nat \ {0}]
  BY DEF Standing, Counting
<1>2. s >= 3 /\ Most \in Nat /\ Most >= 2 /\ 1 \in 1..L
  BY <1>1, MostFacts
<1>3. SUFFICES ASSUME NEW n \in 1..(L - 1), NEW m \in 1..(L - 1), m = n + Most, z2[n] = z2[m]
               PROVE  FALSE
  BY DEF FewOf
<1>4. /\ n \in Nat /\ n >= 1 /\ m > n /\ m > 1 /\ m + 1 = (n + 1) + Most
      /\ n \in 1..L /\ n + 1 \in 1..L /\ m + 1 \in 1..L
  BY <1>1, <1>2, <1>3
<1>5. z2[m] = z[m + 1]
  BY <1>4 DEF Joined
<1>6. CASE n = 1
  <2>1. z2[1] = z[1] + z[1 + 1] /\ 1 + 1 = 2 /\ 2 \in 1..L
    BY <1>1, <1>2, <1>6 DEF Joined
  <2>2. z[m + 1] <= z[1]
    BY <1>2, <1>4 DEF Standing
  <2>3. z[1] \in Nat \ {0} /\ z[2] \in Nat \ {0} /\ z[m + 1] \in Nat
    BY <1>1, <1>2, <1>4, <2>1
  <2> QED
    BY <1>3, <1>5, <1>6, <2>1, <2>2, <2>3
<1>7. CASE n # 1
  <2>1. n > 1
    BY <1>4, <1>7
  <2>2. z2[n] = z[n + 1]
    BY <2>1 DEF Joined
  <2>3. n + 1 <= 0 + 1
    BY <1>3, <1>4, <1>5, <2>2 DEF Counting
  <2> QED
    BY <1>4, <2>1, <2>3
<1> QED
  BY <1>6, <1>7

\* The first r buckets are gone, N are left, and sample A + 1 has a new one.
Arriving(L, z, e, A, r, N, z2, e2) ==
  /\ r \in 0..L /\ N = L - r
  /\ z2 \in [1..(N + 1) -> Nat \ {0}]
  /\ e2 \in [0..(N + 1) -> Nat]
  /\ \A m \in 1..N : z2[m] = z[r + m]
  /\ \A m \in 0..N : e2[m] = e[r + m]
  /\ z2[N + 1] = 1 /\ e2[N + 1] = A + 1

\* Removal from the front and a new bucket keep the shape, and the loop can begin.
LEMMA ArrivalStands ==
  ASSUME NEW L, NEW z, NEW e, NEW A, Standing(L, z, e, A), FewOf(L, z),
         NEW r, NEW N, NEW z2, NEW e2, Arriving(L, z, e, A, r, N, z2, e2)
  PROVE  Standing(N + 1, z2, e2, A + 1) /\ Counting(N + 1, z2, e2, N, 1)
<1>0. /\ r \in 0..L /\ N = L - r
      /\ z2 \in [1..(N + 1) -> Nat \ {0}] /\ e2 \in [0..(N + 1) -> Nat]
      /\ \A m \in 1..N : z2[m] = z[r + m]
      /\ \A m \in 0..N : e2[m] = e[r + m]
      /\ z2[N + 1] = 1 /\ e2[N + 1] = A + 1
  BY DEF Arriving
<1>1. /\ L \in Nat /\ A \in Nat /\ r \in Nat /\ N \in Nat /\ N + 1 \in Nat /\ r + N = L
      /\ z \in [1..L -> Nat \ {0}] /\ e \in [0..L -> Nat] /\ e[L] = A
  <2>1. L \in Nat /\ A \in Nat /\ z \in [1..L -> Nat \ {0}] /\ e \in [0..L -> Nat] /\ e[L] = A
    BY DEF Standing
  <2>2. r \in 0..L /\ N = L - r
    BY <1>0
  <2>3. r \in Nat /\ N \in Nat /\ N + 1 \in Nat /\ r + N = L
    BY <2>1, <2>2
  <2> QED
    BY <2>1, <2>3
<1>2. \A m \in 1..N : r + m \in 1..L /\ (r + m) - 1 = r + (m - 1) /\ m - 1 \in 0..N /\ m \in 0..N
  BY <1>1
<1>3. \A m \in 1..(N + 1) : m \in 1..N \/ m = N + 1
  BY <1>1
<1>4. \A n \in 1..L : e[n] = e[n - 1] + z[n] /\ K * z[n] <= 2 * (A - e[n]) + K
  BY DEF Standing
<1>5. \A n, m \in 1..L : n <= m => z[m] <= z[n]
  BY DEF Standing
<1>6. \A n \in 1..L : z[n] \in Nat \ {0} /\ e[n] \in Nat
  BY <1>1
<1>7. e2[N] = A
  BY <1>0, <1>1
<1>8. ASSUME NEW m \in 1..(N + 1)
      PROVE  e2[m] = e2[m - 1] + z2[m] /\ K * z2[m] <= 2 * ((A + 1) - e2[m]) + K
  <2>1. CASE m \in 1..N
    <3>1. e2[m] = e[r + m] /\ z2[m] = z[r + m] /\ e2[m - 1] = e[(r + m) - 1]
      BY <1>0, <1>2, <2>1
    <3>2. e[r + m] = e[(r + m) - 1] + z[r + m] /\ K * z[r + m] <= 2 * (A - e[r + m]) + K
      BY <1>2, <1>4, <2>1
    <3> DEFINE p == K * z[r + m]
               d == e[r + m]
    <3>3. p \in Nat /\ d \in Nat /\ K \in Nat /\ p <= 2 * (A - d) + K
      BY <1>2, <1>6, <2>1, <3>2, HistogramAssumption
    <3>4. K * z2[m] = p /\ e2[m] = d
      BY <3>1
    <3> HIDE DEF p, d
    <3>5. p <= 2 * ((A + 1) - d) + K
      BY <1>1, <3>3
    <3> QED
      BY <3>1, <3>2, <3>4, <3>5
  <2>2. CASE m = N + 1
    <3>1. (N + 1) - 1 = N /\ K * 1 = K /\ 2 * ((A + 1) - (A + 1)) = 0 /\ 0 + K = K /\ K <= K
      BY <1>1, HistogramAssumption
    <3> QED
      BY <1>0, <1>7, <2>2, <3>1
  <2> QED
    BY <1>3, <2>1, <2>2
<1>9. N > 0 => z2[N] = 1
  <2>1. N > 0 => z[L] = 1 /\ N \in 1..N
    BY <1>1 DEF Standing
  <2> QED
    BY <1>0, <1>1, <2>1
<1>10. ASSUME NEW m \in 1..(N + 1), m < N + 1
       PROVE  z2[m] = z2[m + 1] \/ z2[m] = 2 * z2[m + 1]
  <2>1. CASE m < N
    <3>1. m \in 1..N /\ m + 1 \in 1..N /\ r + m < L /\ r + (m + 1) = (r + m) + 1
      BY <1>1, <2>1
    <3>2. z[r + m] = z[(r + m) + 1] \/ z[r + m] = 2 * z[(r + m) + 1]
      BY <1>2, <3>1 DEF Standing
    <3> QED
      BY <1>0, <3>1, <3>2
  <2>2. CASE m = N
    BY <1>0, <1>1, <1>9, <2>2
  <2> QED
    BY <1>1, <1>10, <2>1, <2>2
<1>11. ASSUME NEW n \in 1..(N + 1), NEW m \in 1..(N + 1), n <= m
       PROVE  z2[m] <= z2[n]
  <2>1. CASE m \in 1..N
    <3>1. n \in 1..N /\ r + n <= r + m
      BY <1>1, <1>11, <2>1
    <3> QED
      BY <1>0, <1>2, <1>5, <2>1, <3>1
  <2>2. CASE m = N + 1
    <3>0. z2[n] \in Nat \ {0}
      BY <1>0
    <3>1. z2[n] >= 1
      BY <3>0
    <3> QED
      BY <1>0, <2>2, <3>1
  <2> QED
    BY <1>3, <2>1, <2>2
<1>12. Standing(N + 1, z2, e2, A + 1)
  <2>1. /\ N + 1 \in Nat /\ A + 1 \in Nat
        /\ z2 \in [1..(N + 1) -> Nat \ {0}] /\ e2 \in [0..(N + 1) -> Nat]
        /\ e2[N + 1] = A + 1 /\ (N + 1 > 0 => z2[N + 1] = 1)
    BY <1>0, <1>1
  <2>2. \A m \in 1..(N + 1) :
          e2[m] = e2[m - 1] + z2[m] /\ K * z2[m] <= 2 * ((A + 1) - e2[m]) + K
    BY <1>8
  <2>3. \A m \in 1..(N + 1) : m < N + 1 => z2[m] = z2[m + 1] \/ z2[m] = 2 * z2[m + 1]
    BY <1>10
  <2>4. \A n, m \in 1..(N + 1) : n <= m => z2[m] <= z2[n]
    BY <1>11
  <2> QED
    BY <2>1, <2>2, <2>3, <2>4 DEF Standing
<1>13. \A m \in 1..1 : z2[N + m] = z2[N + 1] /\ e2[N + m] = e2[N + 1] + (m - 1) * z2[N + 1]
  <2>1. \A m \in 1..1 : m = 1
    OBVIOUS
  <2>2. (1 - 1) * 1 = 0 /\ (A + 1) + 0 = A + 1
    BY <1>1
  <2> QED
    BY <1>0, <2>1, <2>2
<1>14. ASSUME NEW n \in 1..N, NEW m \in 1..N, m = n + Most
       PROVE  z2[n] # z2[m]
  <2>1. r + m = (r + n) + Most
    BY <1>1, <1>14, MostFacts
  <2> QED
    BY <1>0, <1>2, <2>1 DEF FewOf
<1>15. ASSUME NEW n \in 1..(N + 1), NEW m \in 1..(N + 1), m = n + Most + 1, z2[n] = z2[m]
       PROVE  FALSE
  <2>1. n \in 1..N /\ n + Most \in 1..N /\ n + Most <= m /\ n <= n + Most
    BY <1>1, <1>15, MostFacts
  <2>2. n + Most \in 1..(N + 1)
    BY <1>1, <2>1
  <2>3. z2[m] <= z2[n + Most] /\ z2[n + Most] <= z2[n]
    BY <1>11, <2>1, <2>2
  <2>4. z2[n + Most] = z2[n]
    <3>1. z2[n + Most] \in Nat /\ z2[n] \in Nat
      BY <1>0, <2>2
    <3> QED
      BY <1>15, <2>3, <3>1
  <2> QED
    BY <1>14, <2>1, <2>4
<1>16. ASSUME NEW n \in 1..(N + 1), NEW m \in 1..(N + 1), m = n + Most, z2[n] = z2[m]
       PROVE  n <= N + 1 /\ m = N + 1
  <2>1. m \in 1..N => n \in 1..N
    BY <1>1, <1>16, MostFacts
  <2>2. m \notin 1..N
    BY <1>14, <1>16, <2>1
  <2>3. n <= N + 1
    BY <1>1
  <2> QED
    BY <1>3, <2>2, <2>3
<1>17. 1 \in Nat \ {0} /\ N + 1 <= N + 1
  BY <1>1
<1> QED
  BY <1>1, <1>12, <1>13, <1>15, <1>16, <1>17 DEF Counting

-----------------------------------------------------------------------------
(* The shape of the buckets of the histogram. *)

SizeOf == [n \in 1..Len(buckets) |-> buckets[n].size]

HasSamples(e) == \A n \in 1..Len(buckets) : buckets[n].kll = (e[n - 1] + 1)..e[n]

Shaped(e) ==
  /\ Standing(Len(buckets), SizeOf, e, Len(arrived))
  /\ HasSamples(e)
  /\ locked => Counting(Len(buckets), SizeOf, e, i, same)
  /\ ~locked => FewOf(Len(buckets), SizeOf)

ShapeInv == \E e : Shaped(e)

LEMMA ShapeInit == Init => ShapeInv
<1> SUFFICES ASSUME Init PROVE ShapeInv
  OBVIOUS
<1> DEFINE e == [n \in 0..0 |-> 0]
<1>1. buckets = <<>> /\ arrived = <<>> /\ ~locked /\ Len(buckets) = 0 /\ Len(arrived) = 0
  BY DEF Init
<1>2. 1..0 = {} /\ e \in [0..0 -> Nat] /\ e[0] = 0
  OBVIOUS
<1> HIDE DEF e
<1>3. SizeOf \in [1..0 -> Nat \ {0}]
  BY <1>1, <1>2 DEF SizeOf
<1>4. Standing(0, SizeOf, e, 0)
  BY <1>2, <1>3 DEF Standing
<1>5. Shaped(e)
  BY <1>1, <1>2, <1>4 DEF Shaped, HasSamples, FewOf
<1> QED
  BY <1>5 DEF ShapeInv

\* Merging buckets n and n + 1 is joining what they are seen as.
LEMMA MergedIsJoined ==
  ASSUME IInv, NEW n \in 1..Len(buckets), n + 1 < Len(buckets), buckets' = Merged(n),
         NEW e, Standing(Len(buckets), SizeOf, e, Len(arrived)), HasSamples(e)
  PROVE  \E e2 : /\ Joined(Len(buckets), SizeOf, e, n, SizeOf', e2)
                 /\ HasSamples(e2)'
                 /\ Len(buckets') = Len(buckets) - 1
<1> DEFINE L == Len(buckets)
<1>0. PICK e2 : e2 = [m \in 0..(L - 1) |-> IF m < n THEN e[m] ELSE e[m + 1]]
  OBVIOUS
<1>1. /\ L \in Nat /\ n \in Nat /\ n >= 1 /\ n + 1 < L /\ L - 1 \in Nat
      /\ e \in [0..L -> Nat] /\ SizeOf \in [1..L -> Nat \ {0}]
  BY LenProperties DEF IInv, TypeOK, Standing
<1>2. /\ Len(buckets') = L - 1
      /\ \A m \in 1..(n - 1) : buckets'[m] = buckets[m]
      /\ buckets'[n] = Join(buckets[n], buckets[n + 1])
      /\ \A m \in (n + 1)..(L - 1) : buckets'[m] = buckets[m + 1]
  BY MergedBuckets DEF IInv
<1>3. e2 \in [0..(L - 1) -> Nat]
  <2>1. \A m \in 0..(L - 1) : m \in 0..L /\ m + 1 \in 0..L
    BY <1>1
  <2> QED
    BY <1>0, <1>1, <2>1
<1>4. \A m \in 1..(L - 1) :
        /\ m \in 1..L /\ m + 1 \in 1..L /\ m \in 0..(L - 1) /\ m - 1 \in 0..(L - 1)
        /\ m < n => m \in 1..(n - 1)
        /\ m > n => m \in (n + 1)..(L - 1)
  BY <1>1
<1>5. SizeOf' = [m \in 1..(L - 1) |-> buckets'[m].size]
  BY <1>2 DEF SizeOf
<1>6. \A m \in 1..(L - 1) :
        /\ m < n => SizeOf'[m] = SizeOf[m]
        /\ m = n => SizeOf'[m] = SizeOf[n] + SizeOf[n + 1]
        /\ m > n => SizeOf'[m] = SizeOf[m + 1]
  <2>1. \A m \in 1..L : SizeOf[m] = buckets[m].size
    BY DEF SizeOf
  <2>2. \A m \in 1..(L - 1) : SizeOf'[m] = buckets'[m].size
    BY <1>5
  <2>3. ASSUME NEW m \in 1..(L - 1), m < n PROVE SizeOf'[m] = SizeOf[m]
    BY <1>2, <1>4, <2>1, <2>2, <2>3
  <2>4. SizeOf'[n] = SizeOf[n] + SizeOf[n + 1]
    <3>1. n \in 1..(L - 1) /\ n \in 1..L /\ n + 1 \in 1..L
      BY <1>1
    <3> QED
      BY <1>2, <2>1, <2>2, <3>1 DEF Join
  <2>5. ASSUME NEW m \in 1..(L - 1), m > n PROVE SizeOf'[m] = SizeOf[m + 1]
    BY <1>2, <1>4, <2>1, <2>2, <2>5
  <2> QED
    BY <2>3, <2>4, <2>5
<1>7. SizeOf' \in [1..(L - 1) -> Nat \ {0}]
  <2>1. ASSUME NEW m \in 1..(L - 1) PROVE SizeOf'[m] \in Nat \ {0}
    <3>1. SizeOf[m] \in Nat \ {0} /\ SizeOf[m + 1] \in Nat \ {0} /\ (m = n => SizeOf[n + 1] \in Nat)
      BY <1>1, <1>4
    <3>2. m < n \/ m = n \/ m > n
      BY <1>1
    <3> QED
      BY <1>6, <3>1, <3>2
  <2> QED
    BY <1>5, <2>1
<1>8. /\ e2[0] = e[0]
      /\ \A m \in 1..(L - 1) : /\ m < n => e2[m] = e[m]
                               /\ m = n => e2[m] = e[n + 1]
                               /\ m > n => e2[m] = e[m + 1]
                               /\ m <= n => e2[m - 1] = e[m - 1]
                               /\ m > n => e2[m - 1] = e[m]
  <2>1. e2[0] = e[0]
    BY <1>0, <1>1
  <2>2. ASSUME NEW m \in 1..(L - 1)
        PROVE  /\ m < n => e2[m] = e[m]
               /\ m = n => e2[m] = e[n + 1]
               /\ m > n => e2[m] = e[m + 1]
    BY <1>0, <1>1, <1>4
  <2>3. ASSUME NEW m \in 1..(L - 1)
        PROVE  /\ m <= n => e2[m - 1] = e[m - 1]
               /\ m > n => e2[m - 1] = e[m]
    <3>1. (m <= n <=> m - 1 < n) /\ (m - 1) + 1 = m /\ ~(m > n /\ m - 1 < n)
      BY <1>1
    <3> QED
      BY <1>0, <1>4, <3>1
  <2> QED
    BY <2>1, <2>2, <2>3
<1>9. Joined(L, SizeOf, e, n, SizeOf', e2)
  BY <1>3, <1>6, <1>7, <1>8 DEF Joined
<1>10. HasSamples(e2)'
  <2>1. \A m \in 1..L : buckets[m].kll = (e[m - 1] + 1)..e[m]
    BY DEF HasSamples
  <2>2. ASSUME NEW m \in 1..(L - 1)
        PROVE  buckets'[m].kll = (e2[m - 1] + 1)..e2[m]
    <3>1. CASE m < n
      <4>1. m <= n /\ m \in 1..L /\ m \in 1..(n - 1)
        BY <1>1, <1>4, <3>1
      <4>2. buckets'[m] = buckets[m] /\ e2[m] = e[m] /\ e2[m - 1] = e[m - 1]
        BY <1>2, <1>8, <3>1, <4>1
      <4> QED
        BY <2>1, <4>1, <4>2
    <3>2. CASE m = n
      <4>1. n \in 1..L /\ n + 1 \in 1..L /\ (n + 1) - 1 = n /\ n \in 1..(L - 1)
        BY <1>1
      <4>2. buckets'[m].kll = ((e[n - 1] + 1)..e[n]) \cup ((e[n] + 1)..e[n + 1])
        <5>1. buckets'[n].kll = buckets[n].kll \cup buckets[n + 1].kll
          BY <1>2 DEF Join
        <5>2. buckets[n].kll = (e[n - 1] + 1)..e[n]
          BY <2>1, <4>1
        <5>3. buckets[n + 1].kll = (e[(n + 1) - 1] + 1)..e[n + 1]
          BY <2>1, <4>1
        <5> QED
          BY <3>2, <4>1, <5>1, <5>2, <5>3
      <4>3. /\ e[n - 1] \in Nat /\ e[n] \in Nat /\ e[n + 1] \in Nat
            /\ e[n - 1] <= e[n] /\ e[n] <= e[n + 1]
        <5>1. n - 1 \in 0..L /\ n \in 0..L /\ n + 1 \in 0..L
          BY <1>1
        <5>2. e[n] = e[n - 1] + SizeOf[n] /\ e[n + 1] = e[n] + SizeOf[n + 1]
          BY <4>1 DEF Standing
        <5>3. SizeOf[n] \in Nat /\ SizeOf[n + 1] \in Nat
          BY <1>1, <4>1
        <5>4. e[n - 1] \in Nat /\ e[n] \in Nat /\ e[n + 1] \in Nat
          BY <1>1, <5>1
        <5>5. \A a, b, p \in Nat : b = a + p => a <= b
          OBVIOUS
        <5> QED
          BY <5>2, <5>3, <5>4, <5>5
      <4>4. ((e[n - 1] + 1)..e[n]) \cup ((e[n] + 1)..e[n + 1]) = (e[n - 1] + 1)..e[n + 1]
        BY <4>3, SMTT(30)
      <4>5. e2[m] = e[n + 1] /\ e2[m - 1] = e[n - 1]
        BY <1>1, <1>8, <3>2, <4>1
      <4> QED
        BY <4>2, <4>4, <4>5
    <3>3. CASE m > n
      <4>1. (m + 1) - 1 = m /\ m + 1 \in 1..L /\ m \in (n + 1)..(L - 1)
        BY <1>4, <3>3
      <4>2. buckets'[m] = buckets[m + 1] /\ e2[m] = e[m + 1] /\ e2[m - 1] = e[m]
        BY <1>2, <1>8, <3>3, <4>1
      <4>3. buckets[m + 1].kll = (e[(m + 1) - 1] + 1)..e[m + 1]
        BY <2>1, <4>1
      <4> QED
        BY <4>1, <4>2, <4>3
    <3> QED
      BY <1>1, <3>1, <3>2, <3>3
  <2> QED
    BY <1>2, <2>2 DEF HasSamples
<1> QED
  BY <1>2, <1>9, <1>10

LEMMA BeginShape ==
  ASSUME IInv, ShapeInv, NEW t \in Times, BeginUpdate(t)
  PROVE  ShapeInv'
<1> DEFINE L == Len(buckets)
           A == Len(arrived)
<1>1. PICK e : Shaped(e)
  BY DEF ShapeInv
<1>2. Standing(L, SizeOf, e, A) /\ HasSamples(e) /\ FewOf(L, SizeOf)
  BY <1>1 DEF Shaped, BeginUpdate
<1>3. L \in Nat /\ A \in Nat /\ e \in [0..L -> Nat] /\ SizeOf \in [1..L -> Nat \ {0}]
  BY <1>2 DEF Standing
<1>4. Len(arrived') = A + 1
  BY AppendProperties DEF IInv, TypeOK, BeginUpdate
<1>5. PICK r \in 0..L :
        /\ Len(buckets') = L - r + 1
        /\ \A m \in 1..(L - r) : buckets'[m] = buckets[r + m]
        /\ buckets'[L - r + 1] = NewBucket(t)
  BY BeginBuckets DEF IInv
<1>6. PICK N \in Nat : N = L - r /\ r + N = L
  <2>1. L - r \in Nat /\ r + (L - r) = L
    BY <1>3
  <2> QED
    BY <2>1
<1>7. /\ Len(buckets') = N + 1
      /\ \A m \in 1..N : buckets'[m] = buckets[r + m]
      /\ buckets'[N + 1] = NewBucket(t)
  BY <1>5, <1>6
<1>8. /\ \A m \in 1..N : r + m \in 1..L /\ r + m \in 0..L
      /\ \A m \in 0..N : r + m \in 0..L
      /\ \A m \in 1..(N + 1) : m \in 1..N \/ m = N + 1
      /\ \A m \in 0..(N + 1) : m \in 0..N \/ m = N + 1
      /\ N + 1 \notin 0..N /\ N + 1 \in 0..(N + 1) /\ N + 1 \in 1..(N + 1)
      /\ 0..N \subseteq 0..(N + 1)
  BY <1>3, <1>6
<1>9. PICK e2 : e2 = [m \in 0..(N + 1) |-> IF m \in 0..N THEN e[r + m] ELSE A + 1]
  OBVIOUS
<1>10. /\ e2 \in [0..(N + 1) -> Nat]
       /\ \A m \in 0..N : e2[m] = e[r + m]
       /\ e2[N + 1] = A + 1
  <2>1. \A m \in 0..N : e2[m] = e[r + m]
    BY <1>8, <1>9
  <2>2. e2[N + 1] = A + 1
    BY <1>8, <1>9
  <2>3. \A m \in 0..(N + 1) : e2[m] \in Nat
    <3>1. \A m \in 0..N : e[r + m] \in Nat
      BY <1>3, <1>8
    <3> QED
      BY <1>3, <1>8, <2>1, <2>2, <3>1
  <2> QED
    BY <1>9, <2>1, <2>2, <2>3
<1>11. SizeOf' = [m \in 1..(N + 1) |-> buckets'[m].size]
  BY <1>7 DEF SizeOf
<1>12. /\ \A m \in 1..N : SizeOf'[m] = SizeOf[r + m]
       /\ SizeOf'[N + 1] = 1
  <2>1. \A m \in 1..N : SizeOf'[m] = SizeOf[r + m]
    BY <1>7, <1>8, <1>11 DEF SizeOf
  <2>2. SizeOf'[N + 1] = 1
    BY <1>7, <1>8, <1>11 DEF NewBucket
  <2> QED
    BY <2>1, <2>2
<1>13. SizeOf' \in [1..(N + 1) -> Nat \ {0}]
  <2>1. \A m \in 1..(N + 1) : SizeOf'[m] \in Nat \ {0}
    <3>1. \A m \in 1..N : SizeOf[r + m] \in Nat \ {0}
      BY <1>3, <1>8
    <3>2. 1 \in Nat \ {0}
      OBVIOUS
    <3> QED
      BY <1>8, <1>12, <3>1, <3>2
  <2> QED
    BY <1>11, <2>1
<1>14. Standing(N + 1, SizeOf', e2, A + 1) /\ Counting(N + 1, SizeOf', e2, N, 1)
  <2>1. PICK z, z2 : z = SizeOf /\ z2 = SizeOf'
    OBVIOUS
  <2>2. Arriving(L, z, e, A, r, N, z2, e2)
    BY <1>6, <1>10, <1>12, <1>13, <2>1 DEF Arriving
  <2>3. Standing(L, z, e, A) /\ FewOf(L, z)
    BY <1>2, <2>1
  <2>4. Standing(N + 1, z2, e2, A + 1) /\ Counting(N + 1, z2, e2, N, 1)
    BY <2>2, <2>3, ArrivalStands
  <2> QED
    BY <2>1, <2>4
<1>15. ASSUME NEW m \in 1..(N + 1) PROVE buckets'[m].kll = (e2[m - 1] + 1)..e2[m]
  <2>1. CASE m \in 1..N
    <3>1. m \in 0..N /\ m - 1 \in 0..N /\ r + (m - 1) = (r + m) - 1 /\ r + m \in 1..L
      BY <1>3, <1>8, <2>1
    <3>2. buckets[r + m].kll = (e[(r + m) - 1] + 1)..e[r + m]
      BY <1>2, <3>1 DEF HasSamples
    <3>3. e2[m] = e[r + m] /\ e2[m - 1] = e[(r + m) - 1]
      BY <1>10, <3>1
    <3> QED
      BY <1>7, <2>1, <3>2, <3>3
  <2>2. CASE m = N + 1
    <3>1. N \in 0..N /\ (N + 1) - 1 = N
      OBVIOUS
    <3>2. e2[N] = A
      BY <1>2, <1>6, <1>10, <3>1 DEF Standing
    <3>3. buckets'[N + 1].kll = {A + 1}
      BY <1>7 DEF NewBucket
    <3>4. {A + 1} = (A + 1)..(A + 1)
      BY <1>3
    <3> QED
      BY <1>10, <2>2, <3>1, <3>2, <3>3, <3>4
  <2> QED
    BY <1>8, <2>1, <2>2
<1>16. locked' = TRUE /\ i' = N /\ same' = 1
  BY <1>7 DEF BeginUpdate
<1>17. HasSamples(e2)'
  BY <1>7, <1>15 DEF HasSamples
<1>18. Shaped(e2)'
  BY <1>4, <1>7, <1>14, <1>16, <1>17 DEF Shaped
<1> QED
  BY <1>18 DEF ShapeInv

\* A step that leaves the buckets alone, and what is said of the loop true.
LEMMA ShapeStays ==
  ASSUME NEW e, Shaped(e), UNCHANGED <<buckets, arrived>>,
         \/ UNCHANGED <<locked, i, same>>
         \/ locked' /\ Counting(Len(buckets), SizeOf, e, i', same')
         \/ ~locked' /\ FewOf(Len(buckets), SizeOf)
  PROVE  ShapeInv'
<1>1. SizeOf' = SizeOf /\ HasSamples(e)'
  BY DEF SizeOf, HasSamples, Shaped
<1>2. Shaped(e)'
  BY <1>1 DEF Shaped
<1> QED
  BY <1>2 DEF ShapeInv

LEMMA MergeRunShape ==
  ASSUME IInv, ShapeInv, MergeRun
  PROVE  ShapeInv'
<1> DEFINE L == Len(buckets)
           A == Len(arrived)
<1>1. PICK e : Shaped(e)
  BY DEF ShapeInv
<1>2. /\ locked /\ i > 0 /\ 2 * same >= K + 4 /\ buckets[i].size # buckets[i + 1].size
      /\ buckets' = Merged(i + 1) /\ arrived' = arrived /\ i' = i - 1 /\ locked' = locked
      /\ same' = IF buckets'[i].size = buckets'[i + 1].size THEN 2 ELSE 1
  BY DEF MergeRun, TooMany
<1>3. Standing(L, SizeOf, e, A) /\ HasSamples(e) /\ Counting(L, SizeOf, e, i, same)
  BY <1>1, <1>2 DEF Shaped
<1>4. /\ i + 1 \in Nat \ {0} /\ (i + 1) + 2 <= L
      /\ SizeOf[i + 1] = SizeOf[(i + 1) + 1] /\ SizeOf[i + 1] = SizeOf[(i + 1) + 2]
      /\ K * (SizeOf[i + 1] + SizeOf[i + 1]) <= 2 * (A - e[(i + 1) + 1]) + K
  BY <1>2, <1>3, RunCanBeJoined
<1>5. L \in Nat /\ i \in Nat /\ i + 1 \in 1..L /\ (i + 1) + 1 < L /\ i \in 1..L /\ (i + 1) - 1 = i
  <2>1. L \in Nat /\ i \in Nat
    BY <1>3 DEF Standing, Counting
  <2> QED
    BY <1>2, <1>4, <2>1
<1>6. SizeOf[i] # SizeOf[i + 1]
  BY <1>2, <1>5 DEF SizeOf
<1>7. PICK e2 : /\ Joined(L, SizeOf, e, i + 1, SizeOf', e2)
                /\ HasSamples(e2)'
                /\ Len(buckets') = L - 1
  BY <1>2, <1>3, <1>5, MergedIsJoined
<1>8. PICK z, z2, j, s : z = SizeOf /\ z2 = SizeOf' /\ j = i /\ s = same
  OBVIOUS
<1>9. Standing(L - 1, z2, e2, A)
  <2>1. j + 1 \in Nat \ {0} /\ (j + 1 > 1 => z[(j + 1) - 1] # z[j + 1])
    BY <1>4, <1>5, <1>6, <1>8
  <2> QED
    BY <1>3, <1>4, <1>7, <1>8, <2>1, JoinedStands
<1>10. z2[j] = z2[j + 1] /\ Counting(L - 1, z2, e2, j - 1, 2)
  BY <1>2, <1>3, <1>6, <1>7, <1>8, JoinedIsCounted
<1>11. same' = 2
  <2>1. i \in 1..(L - 1) /\ i + 1 \in 1..(L - 1)
    BY <1>5
  <2>2. buckets'[i].size = buckets'[i + 1].size
    BY <1>7, <1>8, <1>10, <2>1 DEF SizeOf
  <2> QED
    BY <1>2, <2>2
<1>12. Shaped(e2)'
  BY <1>2, <1>7, <1>8, <1>9, <1>10, <1>11 DEF Shaped
<1> QED
  BY <1>12 DEF ShapeInv

LEMMA EndUpdateShape ==
  ASSUME IInv, ShapeInv, EndUpdate
  PROVE  ShapeInv'
<1> DEFINE L == Len(buckets)
           A == Len(arrived)
<1>1. PICK e : Shaped(e)
  BY DEF ShapeInv
<1>2. /\ locked /\ i = 0 /\ ~locked' /\ arrived' = arrived
      /\ buckets' = IF TooMany THEN Merged(1) ELSE buckets
  BY DEF EndUpdate
<1>3. Standing(L, SizeOf, e, A) /\ HasSamples(e) /\ Counting(L, SizeOf, e, 0, same)
  BY <1>1, <1>2 DEF Shaped
<1>4. CASE ~TooMany
  <2>1. FewOf(L, SizeOf)
    BY <1>3, <1>4, EndedFew DEF TooMany
  <2> QED
    BY <1>1, <1>2, <1>4, <2>1, ShapeStays
<1>5. CASE TooMany
  <2>1. 2 * same >= K + 4 /\ buckets' = Merged(1)
    BY <1>2, <1>5 DEF TooMany
  <2>2. LET n == 0 + 1
        IN  /\ n \in Nat \ {0} /\ n + 2 <= L /\ SizeOf[n] = SizeOf[n + 1] /\ SizeOf[n] = SizeOf[n + 2]
            /\ K * (SizeOf[n] + SizeOf[n]) <= 2 * (A - e[n + 1]) + K
    BY <1>3, <2>1, RunCanBeJoined
  <2>3. /\ 1 \in Nat \ {0} /\ 1 + 2 <= L /\ SizeOf[1] = SizeOf[1 + 1] /\ SizeOf[1] = SizeOf[1 + 2]
        /\ K * (SizeOf[1] + SizeOf[1]) <= 2 * (A - e[1 + 1]) + K
    <3>1. 0 + 1 = 1
      OBVIOUS
    <3> QED
      BY <2>2, <3>1
  <2>4. L \in Nat /\ 1 \in 1..L /\ 1 + 1 < L
    <3>1. L \in Nat
      BY <1>3 DEF Standing
    <3> QED
      BY <2>3, <3>1
  <2>5. PICK e2 : /\ Joined(L, SizeOf, e, 1, SizeOf', e2)
                  /\ HasSamples(e2)'
                  /\ Len(buckets') = L - 1
    BY <1>3, <2>1, <2>4, MergedIsJoined
  <2>6. PICK z, z2, s : z = SizeOf /\ z2 = SizeOf' /\ s = same
    OBVIOUS
  <2>7. Standing(L - 1, z2, e2, A)
    <3>1. ~(1 > 1)
      OBVIOUS
    <3>2. /\ 1 + 2 <= L /\ z[1] = z[1 + 1] /\ z[1] = z[1 + 2] /\ (1 > 1 => z[1 - 1] # z[1])
          /\ K * (z[1] + z[1]) <= 2 * (A - e[1 + 1]) + K
      BY <2>3, <2>6, <3>1
    <3>3. Standing(L, z, e, A) /\ Joined(L, z, e, 1, z2, e2) /\ 1 \in Nat \ {0}
      BY <1>3, <2>5, <2>6
    <3> QED
      BY <3>2, <3>3, JoinedStands
  <2>8. FewOf(L - 1, z2)
    BY <1>3, <2>1, <2>5, <2>6, JoinedEndsFew
  <2>9. Shaped(e2)'
    BY <1>2, <2>5, <2>6, <2>7, <2>8 DEF Shaped
  <2> QED
    BY <2>9 DEF ShapeInv
<1> QED
  BY <1>4, <1>5

LEMMA ShapeStep == IInv /\ ShapeInv /\ [Next]_vars => ShapeInv'
<1> SUFFICES ASSUME IInv, ShapeInv, [Next]_vars PROVE ShapeInv'
  OBVIOUS
<1>1. PICK e : Shaped(e)
  BY DEF ShapeInv
<1>2. ASSUME NEW t \in Times, BeginUpdate(t) PROVE ShapeInv'
  BY <1>2, BeginShape
<1>3. CASE SameSize
  <2>1. /\ locked /\ i > 0 /\ SizeOf[i] = SizeOf[i + 1]
        /\ Standing(Len(buckets), SizeOf, e, Len(arrived))
        /\ Counting(Len(buckets), SizeOf, e, i, same)
    <3>1. locked /\ i > 0 /\ buckets[i].size = buckets[i + 1].size
      BY <1>3 DEF SameSize
    <3>2. i \in 1..Len(buckets) /\ i + 1 \in 1..Len(buckets)
      BY <3>1, LenProperties DEF IInv, TypeOK
    <3> QED
      BY <1>1, <3>1, <3>2 DEF Shaped, SizeOf
  <2>2. Counting(Len(buckets), SizeOf, e, i - 1, same + 1)
    BY <2>1, OneMoreCounted
  <2> QED
    BY <1>1, <1>3, <2>1, <2>2, ShapeStays DEF SameSize
<1>4. CASE MergeRun
  BY <1>4, MergeRunShape
<1>5. CASE KeepRun
  <2>1. /\ locked /\ i > 0 /\ SizeOf[i] # SizeOf[i + 1] /\ ~(2 * same >= K + 4)
        /\ Standing(Len(buckets), SizeOf, e, Len(arrived))
        /\ Counting(Len(buckets), SizeOf, e, i, same)
    <3>1. locked /\ i > 0 /\ buckets[i].size # buckets[i + 1].size /\ ~(2 * same >= K + 4)
      BY <1>5 DEF KeepRun, TooMany
    <3>2. i \in 1..Len(buckets) /\ i + 1 \in 1..Len(buckets)
      BY <3>1, LenProperties DEF IInv, TypeOK
    <3> QED
      BY <1>1, <3>1, <3>2 DEF Shaped, SizeOf
  <2>2. Counting(Len(buckets), SizeOf, e, i - 1, 1)
    BY <2>1, CountedAnew
  <2> QED
    BY <1>1, <1>5, <2>1, <2>2, ShapeStays DEF KeepRun
<1>6. CASE EndUpdate
  BY <1>6, EndUpdateShape
<1>7. ASSUME NEW q \in Queries, LookUp(q) \/ Eval(q) \/ ReadBucket(q) PROVE ShapeInv'
  <2>1. UNCHANGED updateVars
    BY <1>7 DEF LookUp, Eval, ReadBucket
  <2> QED
    BY <1>1, <2>1, ShapeStays DEF updateVars
<1>8. CASE UNCHANGED vars
  BY <1>1, <1>8, ShapeStays DEF vars
<1> QED
  BY <1>2, <1>3, <1>4, <1>5, <1>6, <1>7, <1>8 DEF Next

\* Between updates no size has more than half of k and one buckets.
LEMMA ShapeIsFew == IInv /\ ShapeInv => FewOfASize
<1> DEFINE L == Len(buckets)
<1>1. SUFFICES ASSUME IInv, ShapeInv, ~locked, NEW v \in {buckets[n].size : n \in 1..L}
               PROVE  2 * Cardinality({n \in 1..L : buckets[n].size = v}) < K + 4
  BY DEF FewOfASize
<1> DEFINE S == {n \in 1..L : buckets[n].size = v}
<1>2. PICK e : Standing(L, SizeOf, e, Len(arrived)) /\ FewOf(L, SizeOf)
  BY <1>1 DEF ShapeInv, Shaped
<1>3. L \in Nat /\ SizeOf \in [1..L -> Nat \ {0}] /\ \A n \in 1..L : SizeOf[n] = buckets[n].size
  BY <1>2 DEF Standing, SizeOf
<1>4. PICK a \in S : \A m \in S : a <= m
  <2>1. S \in SUBSET (1..L) /\ S # {}
    BY <1>1
  <2> HIDE DEF S
  <2> QED
    BY <1>3, <2>1, SmallestExists
<1>5. a \in 1..L /\ SizeOf[a] = v /\ Most \in Nat /\ Most >= 2 /\ 2 * Most < K + 4
  BY <1>3, <1>4, MostFacts
<1>6. ASSUME NEW m \in S PROVE m < a + Most
  <2>1. m \in 1..L /\ SizeOf[m] = v
    BY <1>3
  <2>2. ASSUME m >= a + Most PROVE FALSE
    <3> DEFINE c == a + Most
    <3>1. c \in 1..L /\ a <= c /\ c <= m
      BY <1>3, <1>5, <2>1, <2>2
    <3>2. SizeOf[c] <= SizeOf[a] /\ SizeOf[m] <= SizeOf[c]
      BY <1>2, <1>5, <2>1, <3>1 DEF Standing
    <3>3. SizeOf[c] = v
      BY <1>3, <1>5, <2>1, <3>1, <3>2
    <3> QED
      BY <1>2, <1>5, <3>1, <3>3 DEF FewOf
  <2> QED
    BY <1>5, <2>1, <2>2
<1>7. S \subseteq a..(a + Most - 1)
  <2>1. ASSUME NEW m \in S PROVE m \in a..(a + Most - 1)
    <3>1. m \in Nat /\ a \in Nat /\ a <= m /\ m < a + Most
      BY <1>4, <1>5, <1>6
    <3> QED
      BY <1>5, <3>1
  <2> QED
    BY <2>1
<1>8. /\ IsFiniteSet(a..(a + Most - 1))
      /\ Cardinality(a..(a + Most - 1)) = Most
  <2>1. a \in Int /\ a + Most - 1 \in Int /\ a <= a + Most - 1 /\ (a + Most - 1) - a + 1 = Most
    BY <1>5
  <2> QED
    BY <2>1, FS_Interval
<1> HIDE DEF S
<1>9. Cardinality(S) <= Most /\ Cardinality(S) \in Nat
  BY <1>7, <1>8, FS_Subset, FS_CardinalityType
<1>10. 2 * Cardinality(S) < K + 4
  BY <1>5, <1>9, HistogramAssumption
<1> QED
  BY <1>10 DEF S

\* The sample x came after bucket n and is in a later one.
LEMMA LaterIsKept ==
  ASSUME IInv, NEW e, Standing(Len(buckets), SizeOf, e, Len(arrived)), HasSamples(e),
         NEW n \in 1..Len(buckets), NEW x \in (e[n] + 1)..Len(arrived)
  PROVE  \E m \in (n + 1)..Len(buckets) : x \in buckets[m].kll
<1> DEFINE L == Len(buckets)
           C == {m \in (n + 1)..L : x <= e[m]}
<1>1. L \in Nat /\ e \in [0..L -> Nat] /\ e[L] = Len(arrived)
  BY DEF Standing
<1>2. n \in 0..L /\ L \in 0..L /\ e[n] \in Nat /\ e[L] \in Nat
  BY <1>1
<1>3. x \in Int /\ e[n] < x /\ x <= e[L]
  BY <1>1, <1>2
<1>4. L \in C
  <2>1. n # L
    BY <1>2, <1>3
  <2> QED
    BY <1>1, <1>3, <2>1
<1>5. C \in SUBSET (1..L) /\ C # {}
  BY <1>1, <1>4
<1>6. PICK m \in C : \A c \in C : m <= c
  <2> HIDE DEF C
  <2> QED
    BY <1>1, <1>5, SmallestExists
<1>7. m \in (n + 1)..L /\ m \in 1..L /\ x <= e[m] /\ m - 1 \in 0..L /\ m \in Nat
  BY <1>1, <1>5, <1>6
<1>8. e[m - 1] < x
  <2>1. CASE m = n + 1
    <3>1. m - 1 = n
      BY <2>1
    <3> QED
      BY <1>3, <3>1
  <2>2. CASE m # n + 1
    <3>1. m - 1 \in (n + 1)..L /\ ~(m <= m - 1)
      BY <1>1, <1>7, <2>2
    <3>2. m - 1 \notin C
      BY <1>6, <3>1
    <3>3. ~(x <= e[m - 1])
      BY <3>1, <3>2
    <3>4. e[m - 1] \in Nat
      BY <1>1, <1>7
    <3> QED
      BY <1>3, <3>3, <3>4
  <2> QED
    BY <2>1, <2>2
<1>9. x \in (e[m - 1] + 1)..e[m]
  BY <1>1, <1>3, <1>7, <1>8
<1> QED
  BY <1>7, <1>9 DEF HasSamples

\* Between updates half of a bucket is at most 1/k of what came after it, and half a sample.
LEMMA ShapeIsSmall == IInv /\ ShapeInv => EdgeIsSmall
<1> DEFINE L == Len(buckets)
           A == Len(arrived)
<1>1. SUFFICES ASSUME IInv, ShapeInv, NEW n \in 1..L
               PROVE  K * Cardinality(buckets[n].kll)
                        <= 2 * Cardinality(UNION {buckets[m].kll : m \in (n + 1)..L}) + K
  BY DEF EdgeIsSmall
<1> DEFINE U == UNION {buckets[m].kll : m \in (n + 1)..L}
<1>2. PICK e : Standing(L, SizeOf, e, A) /\ HasSamples(e)
  BY <1>1 DEF ShapeInv, Shaped
<1>3. /\ L \in Nat /\ A \in Nat /\ e \in [0..L -> Nat] /\ SizeOf \in [1..L -> Nat \ {0}]
      /\ e[n] = e[n - 1] + SizeOf[n]
      /\ K * SizeOf[n] <= 2 * (A - e[n]) + K
  BY <1>2 DEF Standing
<1>4. e[n] \in Nat /\ e[n - 1] \in Nat /\ SizeOf[n] \in Nat \ {0}
  <2>1. n \in 0..L /\ n - 1 \in 0..L
    BY <1>3
  <2> QED
    BY <1>3, <2>1
<1>5. Cardinality(buckets[n].kll) = SizeOf[n]
  <2>1. buckets[n].kll = (e[n - 1] + 1)..e[n]
    BY <1>2 DEF HasSamples
  <2>2. \A a, b \in Nat : \A c \in Nat \ {0} : b = a + c => Cardinality((a + 1)..b) = c
    <3>1. SUFFICES ASSUME NEW a \in Nat, NEW b \in Nat, NEW c \in Nat \ {0}, b = a + c
                   PROVE  Cardinality((a + 1)..b) = c
      OBVIOUS
    <3> DEFINE lo == a + 1
    <3>2. lo \in Int /\ b \in Int /\ ~(lo > b) /\ b - lo + 1 = c
      BY <3>1
    <3> HIDE DEF lo
    <3>3. Cardinality(lo..b) = c
      BY <3>2, FS_Interval
    <3> QED
      BY <3>3 DEF lo
  <2> QED
    BY <1>3, <1>4, <2>1, <2>2
<1>6. (e[n] + 1)..A \subseteq U
  BY <1>1, <1>2, LaterIsKept
<1>7. IsFiniteSet(U)
  <2>1. U \subseteq Samples
    <3>1. \A m \in (n + 1)..L : m \in 1..L
      BY <1>3
    <3> QED
      BY <1>1, <3>1, BucketNumbers
  <2>2. Samples = 1..A
    BY LenProperties, <1>1 DEF Samples, IInv, TypeOK
  <2>3. IsFiniteSet(1..A)
    BY <1>3, FS_Interval
  <2> QED
    BY <2>1, <2>2, <2>3, FS_Subset
<1> HIDE DEF U
<1>8. Cardinality(U) >= A - e[n] /\ Cardinality(U) \in Nat
  <2>1. Cardinality(U) \in Nat
    BY <1>7, FS_CardinalityType
  <2>2. CASE e[n] + 1 <= A
    <3> DEFINE lo == e[n] + 1
    <3>0. lo \in Int /\ A \in Int /\ ~(lo > A)
      BY <1>3, <1>4, <2>2
    <3> HIDE DEF lo
    <3>a. Cardinality(lo..A) = A - lo + 1
      BY <3>0, FS_Interval
    <3>1. Cardinality((e[n] + 1)..A) = A - (e[n] + 1) + 1
      BY <3>a DEF lo
    <3>2. Cardinality((e[n] + 1)..A) <= Cardinality(U)
      BY <1>6, <1>7, FS_Subset
    <3>3. A - (e[n] + 1) + 1 = A - e[n]
      BY <1>3, <1>4
    <3> QED
      BY <2>1, <3>1, <3>2, <3>3
  <2>3. CASE ~(e[n] + 1 <= A)
    BY <1>3, <1>4, <2>1, <2>3
  <2> QED
    BY <2>1, <2>2, <2>3
<1>9. 2 * (A - e[n]) + K <= 2 * Cardinality(U) + K
  <2> DEFINE d == A - e[n]
             c == Cardinality(U)
  <2>1. d \in Int /\ c \in Int /\ K \in Int /\ c >= d
    BY <1>3, <1>4, <1>8, HistogramAssumption
  <2> HIDE DEF d, c
  <2>2. 2 * d + K <= 2 * c + K
    BY <2>1
  <2> QED
    BY <2>2 DEF d, c
<1>10. K * SizeOf[n] \in Nat
  BY <1>4, HistogramAssumption
<1>11. K * SizeOf[n] <= 2 * Cardinality(U) + K
  <2> DEFINE p == K * SizeOf[n]
             d == A - e[n]
  <2>1. p <= 2 * d + K /\ 2 * d + K <= 2 * Cardinality(U) + K
    BY <1>3, <1>9
  <2>2. p \in Int /\ d \in Int /\ K \in Int /\ Cardinality(U) \in Int
    BY <1>3, <1>4, <1>8, <1>10, HistogramAssumption
  <2> HIDE DEF p, d
  <2>3. p <= 2 * Cardinality(U) + K
    BY <2>1, <2>2
  <2> QED
    BY <2>3 DEF p
<1> QED
  BY <1>5, <1>11 DEF U

\* For any k and window, and however late samples are, the shape is kept: few buckets of a
\* size, and none that is large against what came after it.
THEOREM ShapeForAnyK == Spec => []ShapeIsKept
<1>1. Init => ShapeInv
  BY ShapeInit
<1>2. IInv /\ ShapeInv /\ [Next]_vars => ShapeInv'
  BY ShapeStep
<1>3. IInv /\ ShapeInv => ShapeIsKept
  BY ShapeIsFew, ShapeIsSmall DEF ShapeIsKept
<1> QED
  BY <1>1, <1>2, <1>3, Invariant, PTL DEF Spec

=============================================================================
