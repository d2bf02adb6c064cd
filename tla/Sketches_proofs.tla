--------------------------- MODULE Sketches_proofs ---------------------------
(***************************************************************************)
(* Proofs about Sketches, for any k, window, keys, hashes and number of    *)
(* samples: what the histograms whose buckets are joined by size, and the  *)
(* histogram of maps and universal sketches, hold of the stream.           *)
(***************************************************************************)
EXTENDS Sketches, SequenceTheorems, FiniteSetTheorems, NaturalsInduction,
        WellFoundedInduction, TLAPS

\* The lemmas about sizes and ends of buckets in WindowHistogram_proofs are about any
\* sizes and ends; its state does not occur in them.
Shape == INSTANCE WindowHistogram_proofs
           WITH K <- RunK, Window <- RunWindow, Times <- {}, MaxLate <- 0,
                MaxSamples <- MaxSamples, Queries <- {}, Intervals <- {},
                buckets <- <<>>, locked <- FALSE, i <- 0, same <- 1, arrived <- <<>>,
                query <- <<>>, interval <- <<>>, fromBucket <- <<>>

-----------------------------------------------------------------------------
(* Numbers and sequences *)

\* A set of natural numbers has a least one.
LEMMA SmallestNat ==
  ASSUME NEW S \in SUBSET Nat, S # {}
  PROVE  \E n \in S : \A m \in S : n <= m
<1> DEFINE R == OpToRel(<, Nat)
<1>1. PICK n \in S : \A m \in S : ~ (<<m, n>> \in R)
  BY NatLessThanWellFounded, WFMin
<1>2. ASSUME NEW m \in S PROVE ~(m < n)
  BY <1>1 DEF OpToRel
<1>3. \A m \in S : m \in Nat /\ n \in Nat
  BY <1>1
<1> HIDE DEF R
<1> QED
  BY <1>1, <1>2, <1>3

\* A part of 1..N that has all numbers before each of its own is 1..r, and r its size.
LEMMA FrontIsInterval ==
  ASSUME NEW N \in Nat, NEW S \in SUBSET (1..N), \A i \in S, j \in 1..N : j <= i => j \in S
  PROVE  Cardinality(S) \in 0..N /\ S = 1..Cardinality(S)
<1> DEFINE Out == {n \in Nat : n + 1 \notin S}
<1>1. PICK r \in Out : \A m \in Out : r <= m
  <2>1. N \in Out /\ Out \in SUBSET Nat
    OBVIOUS
  <2> HIDE DEF Out
  <2> QED
    BY <2>1, SmallestNat
<1>2. r \in 0..N
  <2>1. N \in Out
    OBVIOUS
  <2> QED
    BY <1>1, <2>1
<1>3. r + 1 \notin S
  BY <1>1
<1>4. ASSUME NEW j \in 1..r PROVE j \in S
  <2>1. j - 1 \in Nat /\ ~(r <= j - 1) /\ (j - 1) + 1 = j
    BY <1>2
  <2>2. j - 1 \notin Out
    BY <1>1, <2>1
  <2> QED
    BY <2>1, <2>2
<1>5. ASSUME NEW i \in S PROVE i \in 1..r
  <2>1. CASE i > r
    <3>1. r + 1 \in 1..N /\ r + 1 <= i
      BY <1>2, <2>1
    <3> QED
      BY <1>3, <3>1
  <2>2. CASE ~(i > r)
    BY <1>2, <2>2
  <2> QED
    BY <2>1, <2>2
<1>6. S = 1..r
  BY <1>4, <1>5
<1>7. Cardinality(1..r) = r
  <2>1. Cardinality(1..r) = IF 1 > r THEN 0 ELSE r - 1 + 1
    BY <1>2, FS_Interval
  <2> QED
    BY <1>2, <2>1
<1> QED
  BY <1>2, <1>6, <1>7

\* upTo sums up the sizes.
SumsUpTo(sizes, upTo) ==
  upTo = [n \in 0..Len(sizes) |-> IF n = 0 THEN 0 ELSE upTo[n - 1] + sizes[n]]

\* What UpTo is for sizes that are the distances of the ends e.
LEMMA UpToIs ==
  ASSUME NEW sizes, Len(sizes) \in Nat, NEW e \in [0..Len(sizes) -> Int],
         \A n \in 1..Len(sizes) : sizes[n] \in Int /\ e[n] = e[n - 1] + sizes[n]
  PROVE  \A n \in 0..Len(sizes) : UpTo(sizes)[n] = e[n] - e[0]
<1> DEFINE L == Len(sizes)
           f == [n \in 0..L |-> e[n] - e[0]]
<1>0. L \in Nat
  OBVIOUS
<1>a. \A n \in 1..L : /\ e[n] \in Int /\ e[n - 1] \in Int /\ e[0] \in Int
                      /\ sizes[n] \in Int /\ e[n] = e[n - 1] + sizes[n]
  BY <1>0
<1>1. SumsUpTo(sizes, f)
  <2>1. ASSUME NEW n \in 0..L
        PROVE  f[n] = IF n = 0 THEN 0 ELSE f[n - 1] + sizes[n]
    <3>1. CASE n = 0
      BY <3>1
    <3>2. CASE n # 0
      <4>1. n \in 1..L /\ n - 1 \in 0..L
        BY <3>2
      <4>2. e[n] - e[0] = (e[n - 1] - e[0]) + sizes[n]
        BY <1>a, <4>1
      <4> QED
        BY <3>2, <4>1, <4>2
    <3> QED
      BY <3>1, <3>2
  <2>2. f = [n \in 0..L |-> f[n]]
    OBVIOUS
  <2> HIDE DEF f
  <2> QED
    BY <2>1, <2>2 DEF SumsUpTo
<1>2. ASSUME NEW g, SumsUpTo(sizes, g), NEW k \in 0..L PROVE g[k] = e[k] - e[0]
  <2>1. \A n \in 0..L : g[n] = IF n = 0 THEN 0 ELSE g[n - 1] + sizes[n]
    BY <1>2 DEF SumsUpTo
  <2> DEFINE Wrong == {n \in 0..L : g[n] # e[n] - e[0]}
  <2> SUFFICES ASSUME Wrong # {} PROVE FALSE
    BY <1>2
  <2>2. PICK n \in Wrong : \A m \in Wrong : n <= m
    <3>1. Wrong \in SUBSET Nat
      BY <1>0
    <3> HIDE DEF Wrong
    <3> QED
      BY <3>1, SmallestNat
  <2>3. n \in 0..L /\ g[n] # e[n] - e[0]
    BY <2>2
  <2>4. n # 0
    BY <2>1, <2>3
  <2>5. n \in 1..L /\ n - 1 \in 0..L /\ ~(n <= n - 1)
    BY <2>3, <2>4
  <2>6. g[n - 1] = e[n - 1] - e[0]
    BY <2>2, <2>5
  <2>7. g[n] = g[n - 1] + sizes[n]
    BY <2>1, <2>3, <2>4
  <2>8. e[n] - e[0] = (e[n - 1] - e[0]) + sizes[n]
    BY <1>a, <2>5
  <2> QED
    BY <2>3, <2>6, <2>7, <2>8
<1>3. UpTo(sizes) = CHOOSE g : SumsUpTo(sizes, g)
  BY DEF UpTo, SumsUpTo
<1> HIDE DEF f, L
<1>4. SumsUpTo(sizes, UpTo(sizes))
  BY <1>1, <1>3
<1> QED
  BY <1>2, <1>4 DEF L

-----------------------------------------------------------------------------
(* How often a key occurs *)

LEMMA OneToOne ==
  ASSUME NEW S, IsFiniteSet(S), NEW T, NEW f \in [S -> T],
         \A a, b \in S : f[a] = f[b] => a = b, \A t \in T : \E a \in S : f[a] = t
  PROVE  IsFiniteSet(T) /\ Cardinality(T) = Cardinality(S)
<1>1. f \in Bijection(S, T)
  BY DEF Bijection, Injection, Surjection, IsInjective
<1>2. ExistsBijection(S, T)
  BY <1>1 DEF ExistsBijection
<1> QED
  BY <1>2, FS_Bijection

\* The indices of the samples with a value of V.
At(s, V) == {i \in DOMAIN s : s[i].v \in V}

\* There are finitely many, no more than samples.
LEMMA AtIsFinite ==
  ASSUME NEW S, NEW s \in Seq(S), NEW V
  PROVE  IsFiniteSet(At(s, V)) /\ Cardinality(At(s, V)) \in 0..Len(s)
<1>1. Len(s) \in Nat /\ DOMAIN s = 1..Len(s)
  OBVIOUS
<1> DEFINE n == Len(s)
<1> HIDE DEF n
<1>2. IsFiniteSet(1..n) /\ Cardinality(1..n) = n
  <2>1. Cardinality(1..n) = IF 1 > n THEN 0 ELSE n - 1 + 1
    BY <1>1, FS_Interval DEF n
  <2> QED
    BY <1>1, <2>1, FS_Interval DEF n
<1>3. At(s, V) \in SUBSET (1..n)
  BY <1>1 DEF At, n
<1>4. IsFiniteSet(At(s, V)) /\ Cardinality(At(s, V)) <= n
  BY <1>2, <1>3, FS_Subset
<1>5. Cardinality(At(s, V)) \in Nat
  BY <1>4, FS_CardinalityType
<1>6. n \in Nat
  BY <1>1 DEF n
<1>7. Cardinality(At(s, V)) \in 0..n
  BY <1>4, <1>5, <1>6
<1>8. n = Len(s)
  BY DEF n
<1> QED
  BY <1>4, <1>7, <1>8

\* The count of a key is the number of those positions.
LEMMA HowManyAt ==
  ASSUME NEW s, NEW key
  PROVE  HowMany(s, key) = Cardinality(At(s, {key}))
BY DEF HowMany, At

\* A count is a number.
LEMMA HowManyType ==
  ASSUME NEW S, NEW s \in Seq(S), NEW key
  PROVE  HowMany(s, key) \in Nat
<1>1. IsFiniteSet(At(s, {key}))
  BY AtIsFinite
<1> QED
  BY <1>1, HowManyAt, FS_CardinalityType

\* In one sample.
LEMMA HowManyOne ==
  ASSUME NEW x, NEW key
  PROVE  HowMany(<<x>>, key) = IF x.v = key THEN 1 ELSE 0
<1>1. DOMAIN <<x>> = {1} /\ <<x>>[1] = x
  OBVIOUS
<1>2. CASE x.v = key
  <2>1. At(<<x>>, {key}) = {1}
    BY <1>1, <1>2 DEF At
  <2>2. Cardinality({1}) = 1
    BY FS_Singleton
  <2> QED
    BY <1>2, <2>1, <2>2, HowManyAt
<1>3. CASE x.v # key
  <2>1. At(<<x>>, {key}) = {}
    BY <1>1, <1>3 DEF At
  <2> QED
    BY <1>3, <2>1, HowManyAt, FS_EmptySet
<1> QED
  BY <1>2, <1>3

\* In two sequences, one after the other.
LEMMA HowManyBoth ==
  ASSUME NEW S, NEW a \in Seq(S), NEW b \in Seq(S), NEW key
  PROVE  HowMany(a \o b, key) = HowMany(a, key) + HowMany(b, key)
<1> DEFINE I == At(a, {key})
           J == At(b, {key})
           f == [j \in J |-> Len(a) + j]
           T == {Len(a) + j : j \in J}
<1>1. /\ Len(a) \in Nat /\ Len(b) \in Nat /\ DOMAIN a = 1..Len(a) /\ DOMAIN b = 1..Len(b)
      /\ DOMAIN (a \o b) = 1..(Len(a) + Len(b))
      /\ \A i \in 1..Len(a) : (a \o b)[i] = a[i]
      /\ \A i \in 1..Len(b) : (a \o b)[Len(a) + i] = b[i]
  OBVIOUS
<1>2. I \in SUBSET (1..Len(a)) /\ J \in SUBSET (1..Len(b))
  BY <1>1 DEF At
<1>3. At(a \o b, {key}) = I \cup T
  <2>1. ASSUME NEW i \in At(a \o b, {key}) PROVE i \in I \cup T
    <3>1. i \in 1..(Len(a) + Len(b)) /\ (a \o b)[i].v = key
      BY <1>1 DEF At
    <3>2. CASE i <= Len(a)
      BY <1>1, <3>1, <3>2 DEF At
    <3>3. CASE ~(i <= Len(a))
      <4>1. i - Len(a) \in 1..Len(b) /\ Len(a) + (i - Len(a)) = i
        BY <1>1, <3>1, <3>3
      <4>2. i - Len(a) \in J
        BY <1>1, <3>1, <4>1 DEF At
      <4> QED
        BY <4>1, <4>2
    <3> QED
      BY <3>2, <3>3
  <2>2. ASSUME NEW i \in I PROVE i \in At(a \o b, {key})
    <3>1. i \in 1..Len(a) /\ i \in 1..(Len(a) + Len(b)) /\ a[i].v = key
      BY <1>1 DEF At
    <3> QED
      BY <1>1, <3>1 DEF At
  <2>3. ASSUME NEW j \in J PROVE Len(a) + j \in At(a \o b, {key})
    <3>1. j \in 1..Len(b) /\ Len(a) + j \in 1..(Len(a) + Len(b)) /\ b[j].v = key
      BY <1>1 DEF At
    <3> QED
      BY <1>1, <3>1 DEF At
  <2> QED
    BY <2>1, <2>2, <2>3
<1>4. I \cap T = {}
  <2> SUFFICES ASSUME NEW j \in J, Len(a) + j \in I PROVE FALSE
    OBVIOUS
  <2>1. j \in 1..Len(b) /\ Len(a) + j \in 1..Len(a)
    BY <1>2
  <2> QED
    BY <1>1, <2>1
<1>5. IsFiniteSet(I) /\ IsFiniteSet(J) /\ Cardinality(I) \in Nat /\ Cardinality(J) \in Nat
  BY AtIsFinite
<1>6. IsFiniteSet(T) /\ Cardinality(T) = Cardinality(J)
  <2>1. f \in [J -> T] /\ \A t \in T : \E j \in J : f[j] = t
    OBVIOUS
  <2>2. \A i, j \in J : f[i] = f[j] => i = j
    <3> SUFFICES ASSUME NEW i \in J, NEW j \in J, Len(a) + i = Len(a) + j PROVE i = j
      OBVIOUS
    <3>1. i \in 1..Len(b) /\ j \in 1..Len(b)
      BY <1>2
    <3> QED
      BY <1>1, <3>1
  <2> HIDE DEF f, J, T
  <2> QED
    BY <1>5, <2>1, <2>2, OneToOne
<1> HIDE DEF I, J, T
<1>7. Cardinality(I \cup T) = Cardinality(I) + Cardinality(T) - Cardinality(I \cap T)
  BY <1>5, <1>6, FS_Union
<1>8. Cardinality(I \cap T) = 0
  BY <1>4, FS_EmptySet
<1>9. Cardinality(At(a \o b, {key})) = Cardinality(I) + Cardinality(J)
  <2>1. Cardinality(At(a \o b, {key})) = Cardinality(I \cup T)
    BY <1>3
  <2> DEFINE c == Cardinality(I \cap T)
  <2>2. c = 0 /\ Cardinality(I \cup T) = Cardinality(I) + Cardinality(T) - c
    BY <1>7, <1>8
  <2> HIDE DEF c
  <2> QED
    BY <1>5, <1>6, <2>1, <2>2
<1> QED
  BY <1>9, HowManyAt DEF I, J

-----------------------------------------------------------------------------
(* What a bucket holds *)

Samples == [t : Int, v : Keys]
Ordered(s) ==
  /\ s \in Seq(Samples)
  /\ \A i, j \in 1..Len(s) : i <= j => s[i].t <= s[j].t

UnivFields == {"cs_layers", "HH_layers", "bucket_size", "min_time", "max_time", "samples"}

\* A universal sketch of the samples part.
IsUnivOf(us, part) ==
  DOMAIN us = UnivFields /\ us.samples = part /\ us.bucket_size = Len(part)

\* The counters that a key has for itself count it in the samples part.
Counted(cs, part) ==
  /\ cs.count \in [Rows -> [0..Cols - 1 -> Int]]
  /\ \A key \in Keys : \A r \in CleanRows(key) :
       Cell(cs, r, key) = Sign[key][r] * HowMany(part, key)

\* A count sketch, with its heap, of the samples part.
IsCountOf(cs, part) == DOMAIN cs = {"count", "l2", "topK"} /\ Counted(cs, part)

Kinds == {"dd", "count", "cs", "univ"}

HoldsPart(kind, of, part) ==
  /\ kind = "dd" => of = part
  /\ kind = "count" => of = Len(part)
  /\ kind = "cs" => IsCountOf(of, part)
  /\ kind = "univ" => IsUnivOf(of.us, part)

\* Hash values are columns and signs.
LEMMA PositionIn ==
  ASSUME NEW key \in Keys, NEW r \in Rows
  PROVE  Position[key][r] \in 0..Cols - 1 /\ Sign[key][r] \in {1, -1}
BY CountSketchAssumption

\* In a clean row no other key shares the counter.
LEMMA CleanRowsAre ==
  ASSUME NEW key \in Keys
  PROVE  /\ CleanRows(key) \subseteq Rows
         /\ \A r \in CleanRows(key), other \in Keys :
              other # key => Position[other][r] # Position[key][r]
BY DEF CleanRows

\* The count sketch of one sample.
LEMMA OneIsCounted ==
  ASSUME NEW x \in Samples
  PROVE  IsCountOf(CSUpdateString(NewCountSketch, x.v), <<x>>)
<1> DEFINE old == NewCountSketch
           new == UpdateStringNoL2(old, x.v, 1)
           cs == CSUpdateString(old, x.v)
<1>1. x.v \in Keys
  BY DEF Samples
<1>2. /\ DOMAIN old = {"count", "l2", "topK"}
      /\ old.count = [r \in Rows |-> [c \in 0..Cols - 1 |-> 0]]
  BY DEF NewCountSketch, NewCountSketchUniv
<1>3. /\ DOMAIN new = {"count", "l2", "topK"}
      /\ new.count = [r \in Rows |-> [old.count[r] EXCEPT ![Position[x.v][r]] = @ + Sign[x.v][r] * 1]]
  BY <1>2 DEF UpdateStringNoL2
<1> HIDE DEF old, new
<1>4. DOMAIN cs = {"count", "l2", "topK"} /\ cs.count = new.count
  BY <1>3 DEF CSUpdateString, UpdateString, new
<1> HIDE DEF cs
<1>5. ASSUME NEW r \in Rows
      PROVE  /\ cs.count[r] \in [0..Cols - 1 -> Int]
             /\ cs.count[r][Position[x.v][r]] = Sign[x.v][r]
             /\ \A c \in 0..Cols - 1 : c # Position[x.v][r] => cs.count[r][c] = 0
  <2>1. cs.count[r] = [old.count[r] EXCEPT ![Position[x.v][r]] = @ + Sign[x.v][r] * 1]
    BY <1>3, <1>4
  <2>2. old.count[r] = [c \in 0..Cols - 1 |-> 0]
    BY <1>2
  <2>3. Position[x.v][r] \in 0..Cols - 1 /\ Sign[x.v][r] \in {1, -1}
    BY <1>1, PositionIn
  <2> QED
    BY <2>1, <2>2, <2>3
<1>6. cs.count \in [Rows -> [0..Cols - 1 -> Int]]
  <2>1. cs.count = [r \in Rows |-> cs.count[r]]
    BY <1>3, <1>4
  <2> QED
    BY <1>5, <2>1
<1>7. ASSUME NEW key \in Keys, NEW r \in CleanRows(key)
      PROVE  Cell(cs, r, key) = Sign[key][r] * HowMany(<<x>>, key)
  <2>1. r \in Rows /\ (x.v # key => Position[x.v][r] # Position[key][r])
    BY <1>1, CleanRowsAre
  <2>2. Position[key][r] \in 0..Cols - 1 /\ Sign[key][r] \in {1, -1}
    BY <2>1, PositionIn
  <2>3. HowMany(<<x>>, key) = IF x.v = key THEN 1 ELSE 0
    BY HowManyOne
  <2>4. CASE x.v = key
    BY <1>5, <2>1, <2>2, <2>3, <2>4 DEF Cell
  <2>5. CASE x.v # key
    BY <1>5, <2>1, <2>2, <2>3, <2>5 DEF Cell
  <2> QED
    BY <2>4, <2>5
<1> QED
  BY <1>4, <1>6, <1>7 DEF IsCountOf, Counted, cs, old

\* Counters add up.
LEMMA CountsAddUp ==
  ASSUME NEW a, NEW b, NEW p \in Seq(Samples), NEW q \in Seq(Samples),
         IsCountOf(a, p), IsCountOf(b, q)
  PROVE  IsCountOf(CSMergeWith(a, b), p \o q)
<1> DEFINE cs == CSMergeWith(a, b)
<1>1. /\ DOMAIN a = {"count", "l2", "topK"} /\ a.count \in [Rows -> [0..Cols - 1 -> Int]]
      /\ b.count \in [Rows -> [0..Cols - 1 -> Int]]
  BY DEF IsCountOf, Counted
<1>2. /\ DOMAIN cs = {"count", "l2", "topK"}
      /\ cs.count = [r \in Rows |-> [c \in DOMAIN a.count[r] |-> a.count[r][c] + b.count[r][c]]]
  BY <1>1 DEF CSMergeWith, AddCounters
<1> HIDE DEF cs
<1>3. ASSUME NEW r \in Rows
      PROVE  /\ cs.count[r] = [c \in 0..Cols - 1 |-> a.count[r][c] + b.count[r][c]]
             /\ cs.count[r] \in [0..Cols - 1 -> Int]
  <2>1. a.count[r] \in [0..Cols - 1 -> Int] /\ b.count[r] \in [0..Cols - 1 -> Int]
    BY <1>1
  <2>2. DOMAIN a.count[r] = 0..Cols - 1
    BY <2>1
  <2>3. cs.count[r] = [c \in 0..Cols - 1 |-> a.count[r][c] + b.count[r][c]]
    BY <1>2, <2>2
  <2>4. ASSUME NEW c \in 0..Cols - 1 PROVE a.count[r][c] + b.count[r][c] \in Int
    <3>1. a.count[r][c] \in Int /\ b.count[r][c] \in Int
      BY <2>1
    <3> QED
      BY <3>1
  <2> DEFINE sum == [c \in 0..Cols - 1 |-> a.count[r][c] + b.count[r][c]]
  <2>5. sum \in [0..Cols - 1 -> Int]
    BY <2>4
  <2> QED
    BY <2>3, <2>5
<1>4. cs.count \in [Rows -> [0..Cols - 1 -> Int]]
  <2>1. cs.count = [r \in Rows |-> cs.count[r]]
    BY <1>2
  <2> QED
    BY <1>3, <2>1
<1>5. ASSUME NEW key \in Keys, NEW r \in CleanRows(key)
      PROVE  Cell(cs, r, key) = Sign[key][r] * HowMany(p \o q, key)
  <2>1. r \in Rows
    BY CleanRowsAre
  <2>2. Position[key][r] \in 0..Cols - 1 /\ Sign[key][r] \in {1, -1}
    BY <2>1, PositionIn
  <2>3. HowMany(p \o q, key) = HowMany(p, key) + HowMany(q, key)
    BY HowManyBoth
  <2>4. HowMany(p, key) \in Nat /\ HowMany(q, key) \in Nat
    BY HowManyType
  <2>5. Cell(cs, r, key) = Cell(a, r, key) + Cell(b, r, key)
    BY <1>3, <2>1, <2>2 DEF Cell
  <2>6. /\ Cell(a, r, key) = Sign[key][r] * HowMany(p, key)
        /\ Cell(b, r, key) = Sign[key][r] * HowMany(q, key)
    BY DEF IsCountOf, Counted
  <2>7. CASE Sign[key][r] = 1
    BY <2>3, <2>4, <2>5, <2>6, <2>7
  <2>8. CASE Sign[key][r] = -1
    BY <2>3, <2>4, <2>5, <2>6, <2>8
  <2> QED
    BY <2>2, <2>7, <2>8
<1> QED
  BY <1>2, <1>4, <1>5 DEF IsCountOf, Counted, cs

\* Two clean rows of three decide the median.
LEMMA CleanIsExact ==
  ASSUME NEW cs, NEW part \in Seq(Samples), Counted(cs, part), NEW key \in Keys, IsClean(key)
  PROVE  EstimateStringCount(cs, key) = HowMany(part, key)
<1> DEFINE n == HowMany(part, key)
           e == [r \in Rows |-> Sign[key][r] * Cell(cs, r, key)]
<1>1. n \in Nat
  BY HowManyType
<1>2. ASSUME NEW r \in Rows PROVE e[r] \in Int
  <2>1. Position[key][r] \in 0..Cols - 1 /\ Sign[key][r] \in {1, -1}
    BY PositionIn
  <2>2. Cell(cs, r, key) \in Int
    BY <2>1 DEF IsCountOf, Counted, Cell
  <2> QED
    BY <2>1, <2>2
<1>3. ASSUME NEW r \in CleanRows(key) PROVE r \in Rows /\ e[r] = n
  <2>1. r \in Rows
    BY CleanRowsAre
  <2>2. Sign[key][r] \in {1, -1}
    BY <2>1, PositionIn
  <2>3. Cell(cs, r, key) = Sign[key][r] * n
    BY DEF IsCountOf, Counted
  <2>4. Sign[key][r] * (Sign[key][r] * n) = n
    <3>1. CASE Sign[key][r] = 1
      BY <1>1, <3>1
    <3>2. CASE Sign[key][r] = -1
      BY <1>1, <3>2
    <3> QED
      BY <2>2, <3>1, <3>2
  <2> QED
    BY <2>1, <2>3, <2>4
<1>4. PICK r \in CleanRows(key), q \in CleanRows(key) : r # q
  <2>1. IsFiniteSet(Rows)
    <3>1. 1 \in Int /\ 3 \in Int
      OBVIOUS
    <3> QED
      BY <3>1, FS_Interval DEF Rows
  <2>2. IsFiniteSet(CleanRows(key))
    BY <2>1, CleanRowsAre, FS_Subset
  <2>3. ASSUME \A r, q \in CleanRows(key) : r = q PROVE FALSE
    <3>1. Cardinality(CleanRows(key)) >= 2
      BY DEF IsClean
    <3>2. CASE CleanRows(key) = {}
      BY <3>1, <3>2, FS_EmptySet
    <3>3. CASE CleanRows(key) # {}
      <4>1. PICK r \in CleanRows(key) : CleanRows(key) = {r}
        BY <2>3, <3>3
      <4>2. Cardinality({r}) = 1
        BY FS_Singleton
      <4> QED
        BY <3>1, <4>1, <4>2
    <3> QED
      BY <3>2, <3>3
  <2> QED
    BY <2>3
<1>5. r \in {1, 2, 3} /\ q \in {1, 2, 3} /\ e[r] = n /\ e[q] = n
  <2>1. r \in Rows /\ q \in Rows /\ e[r] = n /\ e[q] = n
    BY <1>3
  <2>2. Rows = {1, 2, 3}
    BY DEF Rows
  <2> QED
    BY <2>1, <2>2
<1>6. EstimateStringCount(cs, key) = MedianOfThree(e[1], e[2], e[3])
  BY DEF EstimateStringCount, MiddleOf
<1>7. e[1] \in Int /\ e[2] \in Int /\ e[3] \in Int
  BY <1>2 DEF Rows
<1> HIDE DEF n, e
<1>8. \/ e[1] = n /\ e[2] = n
      \/ e[1] = n /\ e[3] = n
      \/ e[2] = n /\ e[3] = n
  BY <1>4, <1>5
<1>9. MedianOfThree(e[1], e[2], e[3]) = n
  BY <1>1, <1>7, <1>8 DEF MedianOfThree
<1> QED
  BY <1>6, <1>9 DEF n

\* A sketch that is clean and fed with one sample.
LEMMA OneIsFed ==
  ASSUME NEW us, Free(us) = us, NEW t, NEW v
  PROVE  IsUnivOf(FeedSample(us, t, v), <<[t |-> t, v |-> v]>>)
<1>1. DOMAIN Free(us) = UnivFields /\ Free(us).samples = <<>> /\ Free(us).bucket_size = 0
  BY DEF Free, NewUnivSketchPyramid, UnivFields
<1>2. DOMAIN us = UnivFields /\ us.samples = <<>> /\ us.bucket_size = 0
  BY <1>1
<1> DEFINE u == update_optimized(us, v, 1)
           w == univmon_processing_optimized(us, v, 1)
<1>3. DOMAIN u = UnivFields /\ u.samples = <<>> /\ u.bucket_size = 0
  BY <1>2 DEF update_optimized, UnivFields
<1> HIDE DEF u
<1>4. DOMAIN w = UnivFields /\ w.samples = <<>> /\ w.bucket_size = 1
  BY <1>3 DEF univmon_processing_optimized, UnivFields, u
<1> HIDE DEF w
<1>5. /\ DOMAIN FeedSample(us, t, v) = UnivFields
      /\ FeedSample(us, t, v).samples = Append(<<>>, [t |-> t, v |-> v])
      /\ FeedSample(us, t, v).bucket_size = 1
  BY <1>4 DEF FeedSample, UnivFields, w
<1>6. Append(<<>>, [t |-> t, v |-> v]) = <<[t |-> t, v |-> v]>>
  OBVIOUS
<1> QED
  BY <1>5, <1>6 DEF IsUnivOf

\* Two universal sketches become one.
LEMMA UnivsAddUp ==
  ASSUME NEW a, NEW b, NEW p \in Seq(Samples), NEW q \in Seq(Samples),
         IsUnivOf(a.us, p), IsUnivOf(b.us, q)
  PROVE  JoinHeld(a, b).index = a.index /\ IsUnivOf(JoinHeld(a, b).us, p \o q)
<1> DEFINE m == MergeWith(a.us, b.us)
<1>1. DOMAIN m = UnivFields /\ m.samples = p \o q /\ m.bucket_size = Len(p)
  BY DEF MergeWith, IsUnivOf, UnivFields
<1> HIDE DEF m
<1>2. /\ JoinHeld(a, b).index = a.index
      /\ JoinHeld(a, b).us = [m EXCEPT !.bucket_size = @ + b.us.bucket_size]
  BY DEF JoinHeld, m
<1>3. b.us.bucket_size = Len(q) /\ Len(p \o q) = Len(p) + Len(q)
  BY DEF IsUnivOf
<1> QED
  BY <1>1, <1>2, <1>3 DEF IsUnivOf, UnivFields

\* Joining two buckets' sketches gives the sketch of both parts, of each kind.
LEMMA JoinContains ==
  ASSUME NEW kind \in Kinds, NEW a, NEW b, NEW p \in Seq(Samples), NEW q \in Seq(Samples),
         HoldsPart(kind, a, p), HoldsPart(kind, b, q)
  PROVE  /\ HoldsPart(kind, Join(kind, a, b), p \o q)
         /\ kind = "univ" => Join(kind, a, b).index = a.index
<1>1. CASE kind = "dd"
  BY <1>1 DEF HoldsPart, Join, MergeWithDD
<1>2. CASE kind = "count"
  BY <1>2 DEF HoldsPart, Join, AddCounts
<1>3. CASE kind = "cs"
  BY <1>3, CountsAddUp DEF HoldsPart, Join
<1>4. CASE kind = "univ"
  BY <1>4, UnivsAddUp DEF HoldsPart, Join
<1> QED
  BY <1>1, <1>2, <1>3, <1>4 DEF Kinds

-----------------------------------------------------------------------------
(* Sequences of buckets *)

IsSeq(b) == b \in Seq(Range(b))

\* Sequences over any set are of that form.
LEMMA SeqIsSeq ==
  ASSUME NEW S, NEW b \in Seq(S)
  PROVE  IsSeq(b) /\ Len(b) \in Nat /\ DOMAIN b = 1..Len(b)
<1>1. Len(b) \in Nat /\ DOMAIN b = 1..Len(b) /\ b = [n \in 1..Len(b) |-> b[n]]
  BY LenProperties
<1>2. \A n \in 1..Len(b) : b[n] \in Range(b)
  BY <1>1 DEF Range
<1>3. b \in [1..Len(b) -> Range(b)]
  BY <1>1, <1>2
<1>4. Seq(Range(b)) = UNION {[1..n -> Range(b)] : n \in Nat}
  BY SeqDef
<1> QED
  BY <1>1, <1>3, <1>4 DEF IsSeq

\* What such a sequence is, as a function.
LEMMA SeqFacts ==
  ASSUME NEW b, IsSeq(b)
  PROVE  /\ Len(b) \in Nat /\ DOMAIN b = 1..Len(b)
         /\ b = [n \in 1..Len(b) |-> b[n]] /\ \A n \in 1..Len(b) : b[n] \in Range(b)
<1>1. b \in Seq(Range(b))
  BY DEF IsSeq
<1>2. Len(b) \in Nat /\ DOMAIN b = 1..Len(b) /\ b = [n \in 1..Len(b) |-> b[n]]
  BY <1>1, LenProperties
<1> QED
  BY <1>2 DEF Range

\* Two neighbours of a sequence become one element x.
Splice(b, x, n) == SubSeq(b, 1, n - 1) \o <<x>> \o SubSeq(b, n + 2, Len(b))

\* The elements of the spliced sequence.
LEMMA SpliceIs ==
  ASSUME NEW b, IsSeq(b), NEW x, NEW n \in Nat \ {0}, n < Len(b)
  PROVE  LET c == Splice(b, x, n)
         IN  /\ IsSeq(c) /\ Len(c) = Len(b) - 1
             /\ \A m \in 1..(Len(b) - 1) : /\ m < n => c[m] = b[m]
                                           /\ m = n => c[m] = x
                                           /\ m > n => c[m] = b[m + 1]
<1> DEFINE L == Len(b)
           S == Range(b) \cup {x}
           p == SubSeq(b, 1, n - 1)
           r == SubSeq(b, n + 2, L)
           d == p \o <<x>>
           c == d \o r
<1>1. L \in Nat /\ n + 1 <= L /\ \A m \in 1..L : b[m] \in S
  BY SeqFacts
<1> HIDE DEF L
<1>2. p \in Seq(S) /\ Len(p) = n - 1 /\ \A m \in 1..(n - 1) : p[m] = b[m]
  <2>1. \A m \in 1..(n - 1) : b[m] \in S
    BY <1>1
  <2>2. /\ p \in Seq(S)
        /\ Len(p) = IF 1 <= n - 1 THEN n - 1 - 1 + 1 ELSE 0
        /\ \A m \in 1..(n - 1 - 1 + 1) : p[m] = b[1 + m - 1]
    <3> HIDE DEF S
    <3>1. 1 \in Int /\ n - 1 \in Int
      OBVIOUS
    <3> QED
      BY <2>1, <3>1, SubSeqProperties
  <2> HIDE DEF p
  <2>3. \A m \in 1..(n - 1) : m \in 1..(n - 1 - 1 + 1) /\ 1 + m - 1 = m
    OBVIOUS
  <2> QED
    BY <2>2, <2>3
<1>3. /\ r \in Seq(S) /\ Len(r) = L - n - 1
      /\ \A m \in 1..(L - n - 1) : r[m] = b[n + 1 + m]
  <2>1. \A m \in (n + 2)..L : b[m] \in S
    BY <1>1
  <2>2. /\ r \in Seq(S)
        /\ Len(r) = IF n + 2 <= L THEN L - (n + 2) + 1 ELSE 0
        /\ \A m \in 1..(L - (n + 2) + 1) : r[m] = b[(n + 2) + m - 1]
    <3> HIDE DEF S
    <3>1. n + 2 \in Int /\ L \in Int
      BY <1>1
    <3> QED
      BY <2>1, <3>1, SubSeqProperties
  <2> HIDE DEF r
  <2>3. \A m \in 1..(L - n - 1) : m \in 1..(L - (n + 2) + 1) /\ (n + 2) + m - 1 = n + 1 + m
    BY <1>1
  <2> QED
    BY <1>1, <2>2, <2>3
<1>4. <<x>> \in Seq(S) /\ Len(<<x>>) = 1 /\ <<x>>[1] = x
  OBVIOUS
<1> HIDE DEF p, r, S
<1>5. /\ d \in Seq(S) /\ Len(d) = n
      /\ \A m \in 1..n : d[m] = IF m <= n - 1 THEN b[m] ELSE x
  <2>1. /\ d \in Seq(S) /\ Len(d) = Len(p) + Len(<<x>>)
        /\ \A m \in 1..(Len(p) + Len(<<x>>)) :
             d[m] = IF m <= Len(p) THEN p[m] ELSE <<x>>[m - Len(p)]
    BY <1>2, <1>4, ConcatProperties
  <2> HIDE DEF d
  <2>2. ASSUME NEW m \in 1..n PROVE d[m] = IF m <= n - 1 THEN b[m] ELSE x
    <3>1. d[m] = IF m <= n - 1 THEN p[m] ELSE <<x>>[m - (n - 1)]
      BY <1>2, <1>4, <2>1
    <3>2. CASE m <= n - 1
      BY <1>2, <3>1, <3>2
    <3>3. CASE ~(m <= n - 1)
      <4>1. m - (n - 1) = 1
        BY <3>3
      <4> QED
        BY <1>4, <3>1, <3>3, <4>1
    <3> QED
      BY <3>2, <3>3
  <2> QED
    BY <1>2, <1>4, <2>1, <2>2
<1> HIDE DEF d
<1>6. /\ c \in Seq(S) /\ Len(c) = L - 1
      /\ \A m \in 1..(L - 1) : c[m] = IF m <= n THEN d[m] ELSE r[m - n]
  <2>1. /\ c \in Seq(S) /\ Len(c) = Len(d) + Len(r)
        /\ \A m \in 1..(Len(d) + Len(r)) : c[m] = IF m <= Len(d) THEN d[m] ELSE r[m - Len(d)]
    BY <1>3, <1>5, ConcatProperties
  <2>2. n + (L - n - 1) = L - 1
    BY <1>1
  <2> QED
    BY <1>3, <1>5, <2>1, <2>2
<1> HIDE DEF c
<1>7. ASSUME NEW m \in 1..(L - 1)
      PROVE  /\ m < n => c[m] = b[m]
             /\ m = n => c[m] = x
             /\ m > n => c[m] = b[m + 1]
  <2>1. CASE m <= n
    <3>1. m \in 1..n /\ (m < n <=> m <= n - 1)
      BY <2>1
    <3> QED
      BY <1>5, <1>6, <2>1, <3>1
  <2>2. CASE m > n
    <3>1. m - n \in 1..(L - n - 1) /\ n + 1 + (m - n) = m + 1
      BY <1>1, <2>2
    <3> QED
      BY <1>3, <1>6, <2>2, <3>1
  <2> QED
    BY <2>1, <2>2
<1>8. IsSeq(c)
  BY <1>6, SeqIsSeq
<1> QED
  BY <1>6, <1>7, <1>8 DEF c, d, p, r, L, Splice

JoinedRun(kind, a, b) ==
  [min_time |-> a.min_time, max_time |-> b.max_time,
   bucketsize |-> a.bucketsize + b.bucketsize, of |-> Join(kind, a.of, b.of)]

\* Joining bucket n with the next one is such a splice.
LEMMA JoinNextIs ==
  ASSUME NEW kind, NEW b, IsSeq(b), NEW n \in Nat \ {0}, n < Len(b)
  PROVE  LET c == JoinNext(kind, b, n)
         IN  /\ IsSeq(c) /\ Len(c) = Len(b) - 1
             /\ \A m \in 1..(Len(b) - 1) : /\ m < n => c[m] = b[m]
                                           /\ m = n => c[m] = JoinedRun(kind, b[n], b[n + 1])
                                           /\ m > n => c[m] = b[m + 1]
<1> DEFINE x == JoinedRun(kind, b[n], b[n + 1])
           d == Splice(b, x, n)
<1>1. JoinNext(kind, b, n) = d
  BY DEF JoinNext, Splice, JoinedRun
<1> HIDE DEF x
<1>2. /\ IsSeq(d) /\ Len(d) = Len(b) - 1
      /\ \A m \in 1..(Len(b) - 1) : /\ m < n => d[m] = b[m]
                                    /\ m = n => d[m] = x
                                    /\ m > n => d[m] = b[m + 1]
  BY SpliceIs
<1> HIDE DEF d
<1> QED
  BY <1>1, <1>2 DEF x

\* What is left after the first r elements.
LEMMA SuffixIs ==
  ASSUME NEW b, IsSeq(b), NEW r \in 0..Len(b)
  PROVE  LET c == SubSeq(b, r + 1, Len(b))
         IN  /\ IsSeq(c) /\ Len(c) = Len(b) - r
             /\ \A m \in 1..(Len(b) - r) : c[m] = b[r + m]
<1> DEFINE L == Len(b)
           S == Range(b)
           p == SubSeq(b, r + 1, L)
<1>1. L \in Nat /\ r \in Nat /\ r <= L /\ \A m \in 1..L : b[m] \in S
  BY SeqFacts
<1> HIDE DEF L
<1>2. \A m \in (r + 1)..L : b[m] \in S
  BY <1>1
<1>3. /\ p \in Seq(S)
      /\ Len(p) = IF r + 1 <= L THEN L - (r + 1) + 1 ELSE 0
      /\ \A m \in 1..(L - (r + 1) + 1) : p[m] = b[(r + 1) + m - 1]
  <2> HIDE DEF S
  <2>1. r + 1 \in Int /\ L \in Int
    BY <1>1
  <2> QED
    BY <1>2, <2>1, SubSeqProperties
<1> HIDE DEF p, S
<1>4. \A m \in 1..(L - r) : m \in 1..(L - (r + 1) + 1) /\ (r + 1) + m - 1 = r + m
  BY <1>1
<1>5. Len(p) = L - r /\ \A m \in 1..(L - r) : p[m] = b[r + m]
  BY <1>1, <1>3, <1>4
<1>6. IsSeq(p)
  BY <1>3, SeqIsSeq
<1> QED
  BY <1>5, <1>6 DEF p, L

\* With one element more.
LEMMA AppendedIs ==
  ASSUME NEW b, IsSeq(b), NEW x
  PROVE  LET c == Append(b, x)
         IN  /\ IsSeq(c) /\ Len(c) = Len(b) + 1 /\ c[Len(b) + 1] = x
             /\ \A m \in 1..Len(b) : c[m] = b[m]
<1> DEFINE S == Range(b) \cup {x}
           c == Append(b, x)
<1>1. b \in Seq(S) /\ x \in S
  <2>1. Len(b) \in Nat /\ b = [m \in 1..Len(b) |-> b[m]] /\ \A m \in 1..Len(b) : b[m] \in S
    BY SeqFacts
  <2>2. b \in [1..Len(b) -> S] /\ Seq(S) = UNION {[1..n -> S] : n \in Nat}
    BY <2>1, SeqDef
  <2>3. x \in S
    OBVIOUS
  <2> HIDE DEF S
  <2> QED
    BY <2>1, <2>2, <2>3
<1> HIDE DEF S
<1>2. /\ c \in Seq(S) /\ Len(c) = Len(b) + 1 /\ c[Len(b) + 1] = x
      /\ \A m \in 1..Len(b) : c[m] = b[m]
  BY <1>1, AppendProperties
<1> HIDE DEF c
<1>3. IsSeq(c)
  BY <1>2, SeqIsSeq
<1> QED
  BY <1>2, <1>3 DEF c

-----------------------------------------------------------------------------
(* Histograms whose buckets are joined by size.  As in WindowHistogram_proofs, e has the *)
(* numbers of the samples at which the buckets end.                                      *)

\* Bucket n of b has the samples of s from e[n - 1] + 1 to e[n].
Holds(kind, s, b, e, n) ==
  /\ DOMAIN b[n] = {"min_time", "max_time", "bucketsize", "of"}
  /\ b[n].min_time = s[e[n - 1] + 1].t /\ b[n].max_time = s[e[n]].t
  /\ HoldsPart(kind, b[n].of, SubSeq(s, e[n - 1] + 1, e[n]))

\* The universal sketches have different indices, all in Ix.
Indexed(b, Ix) ==
  /\ \A n \in 1..Len(b) : /\ b[n].of = [index |-> b[n].of.index, us |-> b[n].of.us]
                          /\ b[n].of.index \in Ix
  /\ \A n, m \in 1..Len(b) : b[n].of.index = b[m].of.index => n = m

Stands(kind, s, now, Ix, b, e) ==
  /\ IsSeq(b)
  /\ Shape!Standing(Len(b), SizesOf(b), e, Len(s))
  /\ \A n \in 1..Len(b) : Holds(kind, s, b, e, n)
  /\ kind = "univ" => Indexed(b, Ix)
  /\ \A n \in 1..e[0] : s[n].t < now - RunWindow

\* The sizes of buckets, one by one.
LEMMA SizesAre ==
  ASSUME NEW b, IsSeq(b)
  PROVE  /\ DOMAIN SizesOf(b) = 1..Len(b) /\ SizesOf(b) = [n \in 1..Len(b) |-> b[n].bucketsize]
         /\ \A n \in 1..Len(b) : SizesOf(b)[n] = b[n].bucketsize
BY SeqFacts DEF SizesOf

\* The elements of a stream are samples.
LEMMA OrderedFacts ==
  ASSUME NEW s, Ordered(s)
  PROVE  /\ s \in Seq(Samples) /\ Len(s) \in Nat /\ DOMAIN s = 1..Len(s)
         /\ \A n \in 1..Len(s) : s[n] \in Samples /\ s[n].t \in Int /\ s[n].v \in Keys
<1>1. s \in Seq(Samples) /\ Len(s) \in Nat /\ DOMAIN s = 1..Len(s)
  BY DEF Ordered
<1>2. \A n \in 1..Len(s) : s[n] \in Samples
  BY <1>1, ElementOfSeq
<1> QED
  BY <1>1, <1>2 DEF Samples

\* All ends are samples.
LEMMA EndsAreWithin ==
  ASSUME NEW L, NEW z, NEW e, NEW A, Shape!Standing(L, z, e, A)
  PROVE  /\ L \in Nat /\ A \in Nat /\ \A n \in 0..L : e[n] \in 0..A
         /\ \A n \in 1..L : z[n] \in Nat \ {0} /\ e[n] = e[n - 1] + z[n]
<1>1. /\ L \in Nat /\ A \in Nat /\ z \in [1..L -> Nat \ {0}] /\ e \in [0..L -> Nat] /\ e[L] = A
      /\ \A n \in 1..L : e[n] = e[n - 1] + z[n] /\ RunK * z[n] <= 2 * (A - e[n]) + RunK
  BY DEF Shape!Standing
<1>2. ASSUME NEW n \in 1..L PROVE e[n] <= A
  <2>1. z[n] \in Nat \ {0} /\ e[n] \in Nat /\ RunK \in Nat \ {0}
    BY <1>1, RunAssumption
  <2> DEFINE y == z[n] - 1
  <2>2. y \in Nat /\ z[n] = y + 1
    BY <2>1
  <2> HIDE DEF y
  <2> DEFINE w == RunK * y
  <2>3. RunK * (y + 1) = w + RunK /\ w \in Nat
    BY <2>1, <2>2
  <2>4. RunK * (y + 1) <= 2 * (A - e[n]) + RunK
    BY <1>1, <2>2
  <2> HIDE DEF w
  <2>5. w + RunK <= 2 * (A - e[n]) + RunK
    BY <2>3, <2>4
  <2>6. A \in Nat
    BY <1>1
  <2> QED
    BY <2>1, <2>3, <2>5, <2>6
<1>3. e[0] <= A
  <2>1. CASE L = 0
    BY <1>1, <2>1
  <2>2. CASE L # 0
    <3>1. 1 \in 1..L /\ 0 \in 0..L /\ 1 \in 0..L
      BY <1>1, <2>2
    <3>2. e[1] = e[1 - 1] + z[1] /\ e[1] <= A /\ z[1] \in Nat /\ e[0] \in Nat /\ e[1] \in Nat
      BY <1>1, <1>2, <3>1
    <3> QED
      BY <1>1, <3>2
  <2> QED
    BY <2>1, <2>2
<1>4. ASSUME NEW n \in 0..L PROVE e[n] \in 0..A
  <2>1. e[n] \in Nat /\ (n = 0 \/ n \in 1..L)
    <3>1. L \in Nat /\ e \in [0..L -> Nat]
      BY <1>1
    <3> QED
      BY <3>1
  <2>2. e[n] <= A
    BY <1>2, <1>3, <2>1
  <2> QED
    BY <1>1, <2>1, <2>2
<1> QED
  BY <1>1, <1>4

\* Buckets n and n + 1 begin a run of three or more, and are small together.
CanBeJoined(L, z, e, A, n) ==
  /\ n + 2 <= L /\ z[n] = z[n + 1] /\ z[n] = z[n + 2] /\ (n > 1 => z[n - 1] # z[n])
  /\ RunK * (z[n] + z[n]) <= 2 * (A - e[n + 1]) + RunK

\* Joining them.
LEMMA JoinKeeps ==
  ASSUME NEW kind \in Kinds, NEW s, Ordered(s), NEW now, NEW Ix,
         NEW b, NEW e, Stands(kind, s, now, Ix, b, e),
         NEW n \in Nat \ {0}, CanBeJoined(Len(b), SizesOf(b), e, Len(s), n)
  PROVE  /\ Len(JoinNext(kind, b, n)) = Len(b) - 1
         /\ \E e2 : /\ Shape!Joined(Len(b), SizesOf(b), e, n, SizesOf(JoinNext(kind, b, n)), e2)
                    /\ Stands(kind, s, now, Ix, JoinNext(kind, b, n), e2)
<1> DEFINE L == Len(b)
           z == SizesOf(b)
           A == Len(s)
           x == JoinedRun(kind, b[n], b[n + 1])
           c == JoinNext(kind, b, n)
           e2 == [m \in 0..(L - 1) |-> IF m < n THEN e[m] ELSE e[m + 1]]
<1>1. IsSeq(b) /\ Shape!Standing(L, z, e, A) /\ n + 2 <= L
  BY DEF Stands, CanBeJoined
<1>2. /\ L \in Nat /\ A \in Nat /\ \A m \in 0..L : e[m] \in 0..A
      /\ \A m \in 1..L : z[m] \in Nat \ {0} /\ e[m] = e[m - 1] + z[m]
  BY <1>1, EndsAreWithin
<1>3. /\ IsSeq(c) /\ Len(c) = L - 1
      /\ \A m \in 1..(L - 1) : /\ m < n => c[m] = b[m]
                               /\ m = n => c[m] = x
                               /\ m > n => c[m] = b[m + 1]
  <2>1. n < Len(b)
    BY <1>1, <1>2
  <2> QED
    BY <1>1, <2>1, JoinNextIs
<1>4. /\ \A m \in 1..L : z[m] = b[m].bucketsize
      /\ SizesOf(c) = [m \in 1..(L - 1) |-> c[m].bucketsize]
      /\ \A m \in 1..(L - 1) : SizesOf(c)[m] = c[m].bucketsize
  BY <1>1, <1>3, SizesAre
<1> DEFINE N == L - 1
<1>n. N \in Nat /\ N + 1 = L /\ n + 1 <= N /\ n \in 1..L /\ n + 1 \in 1..L /\ n \in 1..N
  BY <1>1, <1>2
<1>x. /\ DOMAIN x = {"min_time", "max_time", "bucketsize", "of"}
      /\ x.min_time = b[n].min_time /\ x.max_time = b[n + 1].max_time
      /\ x.bucketsize = b[n].bucketsize + b[n + 1].bucketsize
      /\ x.of = Join(kind, b[n].of, b[n + 1].of)
  BY DEF JoinedRun
<1>e. /\ e2 = [m \in 0..N |-> e2[m]]
      /\ \A m \in 0..N : e2[m] = IF m < n THEN e[m] ELSE e[m + 1]
  OBVIOUS
<1> HIDE DEF c, x, e2, z, A, L, N
<1>5. ASSUME NEW m \in 1..N
      PROVE  /\ SizesOf(c)[m] \in Nat \ {0}
             /\ m < n => SizesOf(c)[m] = z[m]
             /\ m = n => SizesOf(c)[m] = z[n] + z[n + 1]
             /\ m > n => SizesOf(c)[m] = z[m + 1]
  <2>1. m \in 1..L /\ m + 1 \in 1..L /\ SizesOf(c)[m] = c[m].bucketsize
    BY <1>n, <1>4 DEF N
  <2>2. z[m] \in Nat \ {0} /\ z[m + 1] \in Nat \ {0} /\ z[n] \in Nat \ {0} /\ z[n + 1] \in Nat \ {0}
    BY <1>2, <1>n, <2>1
  <2>3. CASE m < n
    <3>1. SizesOf(c)[m] = z[m]
      BY <1>3, <1>4, <2>1, <2>3 DEF N
    <3> QED
      BY <2>2, <2>3, <3>1
  <2>4. CASE m = n
    <3>1. SizesOf(c)[m] = z[n] + z[n + 1]
      BY <1>3, <1>4, <1>x, <1>n, <2>1, <2>4 DEF N
    <3>2. z[n] + z[n + 1] \in Nat \ {0}
      BY <2>2
    <3> QED
      BY <2>4, <3>1, <3>2
  <2>5. CASE m > n
    <3>1. SizesOf(c)[m] = z[m + 1]
      BY <1>3, <1>4, <2>1, <2>5 DEF N
    <3> QED
      BY <2>2, <2>5, <3>1
  <2> QED
    BY <2>3, <2>4, <2>5
<1>6. SizesOf(c) \in [1..N -> Nat \ {0}]
  <2> DEFINE zc == SizesOf(c)
  <2>1. zc = [m \in 1..N |-> zc[m]] /\ \A m \in 1..N : zc[m] \in Nat \ {0}
    BY <1>4, <1>5 DEF N
  <2> HIDE DEF zc
  <2>2. zc \in [1..N -> Nat \ {0}]
    BY <2>1
  <2> QED
    BY <2>2 DEF zc
<1>7. ASSUME NEW m \in 0..N PROVE e2[m] \in Nat
  <2>1. m \in 0..L /\ m + 1 \in 0..L
    BY <1>n
  <2> QED
    BY <1>2, <1>e, <2>1
<1>8. e2 \in [0..N -> Nat]
  BY <1>7, <1>e
<1>9. e2[0] = e[0]
  BY <1>e, <1>n
<1>10. Shape!Joined(L, z, e, n, SizesOf(c), e2)
  <2>1. \A m \in 1..N : /\ m < n => e2[m] = e[m]
                        /\ m = n => e2[m] = e[n + 1]
                        /\ m > n => e2[m] = e[m + 1]
    BY <1>e
  <2> QED
    BY <1>5, <1>6, <1>8, <1>9, <2>1 DEF Shape!Joined, N
<1>11. Shape!Standing(N, SizesOf(c), e2, A)
  BY <1>1, <1>10, RunAssumption, StreamAssumption, Shape!JoinedStands
     DEF N, A, L, z, CanBeJoined
<1>12. ASSUME NEW m \in 1..N PROVE Holds(kind, s, c, e2, m)
  <2>1. m \in 1..L /\ m + 1 \in 1..L /\ m - 1 \in 0..N /\ m \in 0..N /\ m + 1 - 1 = m
    BY <1>n
  <2>2. CASE m < n
    <3>1. c[m] = b[m] /\ e2[m] = e[m] /\ e2[m - 1] = e[m - 1]
      BY <1>3, <1>e, <2>1, <2>2 DEF N
    <3>2. Holds(kind, s, b, e, m)
      BY <2>1 DEF Stands, L
    <3> QED
      BY <3>1, <3>2 DEF Holds
  <2>3. CASE m > n
    <3>1. c[m] = b[m + 1] /\ e2[m] = e[m + 1] /\ e2[m - 1] = e[m]
      BY <1>3, <1>e, <2>1, <2>3 DEF N
    <3>2. Holds(kind, s, b, e, m + 1)
      BY <2>1 DEF Stands, L
    <3> QED
      BY <2>1, <3>1, <3>2 DEF Holds
  <2>4. CASE m = n
    <3> DEFINE p == SubSeq(s, e[n - 1] + 1, e[n])
               q == SubSeq(s, e[n] + 1, e[n + 1])
    <3>1. c[m] = x /\ e2[m] = e[n + 1] /\ e2[m - 1] = e[n - 1]
      BY <1>3, <1>e, <2>1, <2>4 DEF N
    <3>2. Holds(kind, s, b, e, n) /\ Holds(kind, s, b, e, n + 1) /\ n + 1 - 1 = n
      BY <1>n DEF Stands, L
    <3>3. /\ b[n].min_time = s[e[n - 1] + 1].t /\ b[n + 1].max_time = s[e[n + 1]].t
          /\ HoldsPart(kind, b[n].of, p) /\ HoldsPart(kind, b[n + 1].of, q)
      BY <3>2 DEF Holds
    <3>4. /\ e[n - 1] \in 0..A /\ e[n] \in 0..A /\ e[n + 1] \in 0..A
          /\ e[n - 1] < e[n] /\ e[n] < e[n + 1]
      <4>1. n - 1 \in 0..L /\ n \in 0..L /\ n + 1 \in 0..L
        BY <1>n
      <4>2. e[n] = e[n - 1] + z[n] /\ e[n + 1] = e[n] + z[n + 1] /\ z[n] \in Nat \ {0} /\ z[n + 1] \in Nat \ {0}
        BY <1>2, <1>n, <3>2
      <4>3. e[n - 1] \in 0..A /\ e[n] \in 0..A /\ e[n + 1] \in 0..A
        BY <1>2, <4>1
      <4>4. A \in Nat
        BY <1>2
      <4> QED
        BY <4>2, <4>3, <4>4, SMTT(30)
    <3>5. p \in Seq(Samples) /\ q \in Seq(Samples)
      <4>1. \A i \in 1..A : s[i] \in Samples
        BY OrderedFacts DEF A
      <4>2. \A i \in (e[n - 1] + 1)..e[n] : s[i] \in Samples
        BY <1>2, <3>4, <4>1, SMTT(30)
      <4>3. \A i \in (e[n] + 1)..e[n + 1] : s[i] \in Samples
        BY <1>2, <3>4, <4>1, SMTT(30)
      <4>4. e[n - 1] + 1 \in Int /\ e[n] \in Int /\ e[n] + 1 \in Int /\ e[n + 1] \in Int
        BY <1>2, <3>4, SMTT(30)
      <4> QED
        BY <4>2, <4>3, <4>4, SubSeqProperties
    <3>6. p \o q = SubSeq(s, e[n - 1] + 1, e[n + 1])
      <4>1. s \in Seq(Samples)
        BY OrderedFacts
      <4>2. /\ e[n - 1] + 1 \in 1..(A + 1) /\ e[n] \in ((e[n - 1] + 1) - 1)..A /\ e[n + 1] \in e[n]..A
        BY <1>2, <3>4, SMTT(30)
      <4> QED
        BY <4>1, <4>2, ConcatAdjacentSubSeq DEF A
    <3> HIDE DEF p, q
    <3>7. HoldsPart(kind, x.of, p \o q)
      BY <1>x, <3>3, <3>5, JoinContains
    <3> QED
      BY <1>x, <2>4, <3>1, <3>3, <3>6, <3>7 DEF Holds
  <2> QED
    BY <2>2, <2>3, <2>4
<1>13. ASSUME kind = "univ" PROVE Indexed(c, Ix)
  <2>0. Indexed(b, Ix)
    BY <1>13 DEF Stands, L
  <2> DEFINE from(m) == IF m <= n THEN m ELSE m + 1
  <2>1. ASSUME NEW m \in 1..N
        PROVE  /\ from(m) \in 1..L /\ c[m].of.index = b[from(m)].of.index
               /\ c[m].of = [index |-> c[m].of.index, us |-> c[m].of.us]
    <3>1. m \in 1..L /\ m + 1 \in 1..L
      BY <1>n
    <3>2. CASE m = n
      <4>1. c[m].of = JoinHeld(b[n].of, b[n + 1].of)
        BY <1>3, <1>x, <1>13, <3>2 DEF Join, N
      <4>2. /\ JoinHeld(b[n].of, b[n + 1].of).index = b[n].of.index
            /\ JoinHeld(b[n].of, b[n + 1].of) =
                 [index |-> JoinHeld(b[n].of, b[n + 1].of).index,
                  us |-> JoinHeld(b[n].of, b[n + 1].of).us]
        BY DEF JoinHeld
      <4> QED
        BY <3>1, <3>2, <4>1, <4>2
    <3>3. CASE m < n
      BY <1>3, <2>0, <3>1, <3>3 DEF Indexed, L, N
    <3>4. CASE m > n
      BY <1>3, <2>0, <3>1, <3>4 DEF Indexed, L, N
    <3> QED
      BY <3>2, <3>3, <3>4
  <2>2. ASSUME NEW m \in 1..N, NEW k \in 1..N, c[m].of.index = c[k].of.index PROVE m = k
    <3>1. from(m) \in 1..L /\ from(k) \in 1..L /\ b[from(m)].of.index = b[from(k)].of.index
      BY <2>1, <2>2
    <3> HIDE DEF from
    <3>2. from(m) = from(k)
      BY <2>0, <3>1 DEF Indexed, L
    <3> QED
      BY <3>2 DEF from
  <2>3. ASSUME NEW m \in 1..N PROVE c[m].of.index \in Ix
    BY <2>0, <2>1 DEF Indexed, L
  <2> QED
    BY <1>3, <2>1, <2>2, <2>3 DEF Indexed, N
<1>14. \A m \in 1..e2[0] : s[m].t < now - RunWindow
  BY <1>9 DEF Stands
<1>15. Stands(kind, s, now, Ix, c, e2)
  BY <1>3, <1>11, <1>12, <1>13, <1>14 DEF Stands, N, A
<1> QED
  BY <1>3, <1>10, <1>15 DEF c, L, z

\* One step of the loop.
LEMMA VisitKeeps ==
  ASSUME NEW kind \in Kinds, NEW s, Ordered(s), NEW now, NEW Ix,
         NEW p, p = [b |-> p.b, run |-> p.run],
         NEW e, Stands(kind, s, now, Ix, p.b, e), NEW j \in Nat \ {0},
         Shape!Counting(Len(p.b), SizesOf(p.b), e, j, p.run)
  PROVE  LET q == VisitBucket(kind, p, j)
         IN  /\ q = [b |-> q.b, run |-> q.run]
             /\ \E e2 : /\ Stands(kind, s, now, Ix, q.b, e2)
                        /\ Shape!Counting(Len(q.b), SizesOf(q.b), e2, j - 1, q.run)
<1> DEFINE L == Len(p.b)
           z == SizesOf(p.b)
           A == Len(s)
           q == VisitBucket(kind, p, j)
<1>1. IsSeq(p.b) /\ Shape!Standing(L, z, e, A) /\ Shape!Counting(L, z, e, j, p.run)
  BY DEF Stands
<1>2. L \in Nat
  BY <1>1, EndsAreWithin
<1>3. p.run \in Nat \ {0} /\ j + p.run <= L
  BY <1>1 DEF Shape!Counting
<1>4. j \in 1..L /\ j + 1 \in 1..L /\ j > 0
  <2> HIDE DEF L
  <2> QED
    BY <1>2, <1>3
<1>5. z[j] = p.b[j].bucketsize /\ z[j + 1] = p.b[j + 1].bucketsize
  BY <1>1, <1>4, SizesAre
<1> HIDE DEF L, z, A
<1>6. CASE z[j] = z[j + 1]
  <2>1. q = [p EXCEPT !.run = @ + 1]
    BY <1>5, <1>6 DEF VisitBucket
  <2>2. q.b = p.b /\ q.run = p.run + 1 /\ q = [b |-> q.b, run |-> q.run]
    BY <2>1
  <2> HIDE DEF q
  <2>3. Shape!Counting(L, z, e, j - 1, p.run + 1)
    BY <1>1, <1>4, <1>6, RunAssumption, StreamAssumption, Shape!OneMoreCounted
  <2> QED
    BY <2>2, <2>3 DEF L, z, q
<1>7. CASE z[j] # z[j + 1] /\ ~IsTooLong(p.run)
  <2>1. q = StartRun(p.b, j)
    BY <1>5, <1>7 DEF VisitBucket
  <2>2. q = [b |-> p.b, run |-> 1]
    BY <1>5, <1>7, <2>1 DEF StartRun
  <2>3. q.b = p.b /\ q.run = 1 /\ q = [b |-> q.b, run |-> q.run]
    BY <2>2
  <2> HIDE DEF q
  <2>4. ~(2 * p.run >= RunK + 4)
    BY <1>7 DEF IsTooLong
  <2>5. Shape!Counting(L, z, e, j - 1, 1)
    BY <1>1, <1>4, <1>7, <2>4, RunAssumption, StreamAssumption, Shape!CountedAnew
  <2> QED
    BY <2>3, <2>5 DEF L, z, q
<1>8. CASE z[j] # z[j + 1] /\ IsTooLong(p.run)
  <2> DEFINE c == JoinNext(kind, p.b, j + 1)
             n == j + 1
  <2>1. q = StartRun(c, j)
    BY <1>5, <1>8 DEF VisitBucket
  <2>2. 2 * p.run >= RunK + 4
    BY <1>8 DEF IsTooLong
  <2>3. /\ n \in Nat \ {0} /\ n + 2 <= L /\ z[n] = z[n + 1] /\ z[n] = z[n + 2]
        /\ RunK * (z[n] + z[n]) <= 2 * (A - e[n + 1]) + RunK
    BY <1>1, <2>2, RunAssumption, StreamAssumption, Shape!RunCanBeJoined
  <2>4. n - 1 = j /\ z[n - 1] # z[n]
    BY <1>8
  <2>5. CanBeJoined(L, z, e, A, n)
    BY <2>3, <2>4 DEF CanBeJoined
  <2>6. /\ Len(c) = L - 1
        /\ \E e2 : Shape!Joined(L, z, e, n, SizesOf(c), e2) /\ Stands(kind, s, now, Ix, c, e2)
    BY <2>3, <2>5, JoinKeeps DEF L, z, A
  <2>7. PICK e2 : Shape!Joined(L, z, e, n, SizesOf(c), e2) /\ Stands(kind, s, now, Ix, c, e2)
    BY <2>6
  <2> HIDE DEF c, q
  <2>8. SizesOf(c)[j] = SizesOf(c)[j + 1] /\ Shape!Counting(L - 1, SizesOf(c), e2, j - 1, 2)
    BY <1>1, <1>4, <1>8, <2>2, <2>7, RunAssumption, StreamAssumption, Shape!JoinedIsCounted
  <2>9. j \in 1..(L - 1) /\ j + 1 \in 1..(L - 1)
    BY <1>2, <2>3
  <2>10. c[j].bucketsize = c[j + 1].bucketsize
    <3>1. IsSeq(c)
      BY <2>7 DEF Stands
    <3> QED
      BY <2>6, <2>8, <2>9, <3>1, SizesAre
  <2>11. q = [b |-> c, run |-> 2]
    BY <2>1, <2>10 DEF StartRun
  <2>12. q.b = c /\ q.run = 2 /\ q = [b |-> q.b, run |-> q.run]
    BY <2>11
  <2> QED
    BY <2>6, <2>7, <2>8, <2>12 DEF q
<1> QED
  BY <1>6, <1>7, <1>8 DEF q

\* The first N visits.
PassOf(kind, b, N, g) ==
  g = [n \in 1..N |-> IF n = 1 THEN [b |-> b, run |-> 1]
                      ELSE VisitBucket(kind, g[n - 1], Len(b) - n + 1)]

\* The recursion of the loop has a solution: there is no least length without one.
LEMMA PassExists ==
  ASSUME NEW kind, NEW b, NEW N \in Nat
  PROVE  \E g : PassOf(kind, b, N, g)
<1> DEFINE Wrong == {n \in Nat : ~ \E g : PassOf(kind, b, n, g)}
<1> SUFFICES ASSUME Wrong # {} PROVE FALSE
  OBVIOUS
<1>1. PICK n \in Wrong : \A m \in Wrong : n <= m
  <2>1. Wrong \in SUBSET Nat
    OBVIOUS
  <2> HIDE DEF Wrong
  <2> QED
    BY <2>1, SmallestNat
<1>2. n \in Nat /\ ~ \E g : PassOf(kind, b, n, g)
  BY <1>1
<1>3. n # 0
  <2> DEFINE g == [m \in 1..0 |-> b]
  <2>1. PassOf(kind, b, 0, g)
    BY DEF PassOf
  <2> HIDE DEF g
  <2> QED
    BY <1>2, <2>1
<1>4. n - 1 \in Nat /\ ~(n <= n - 1)
  BY <1>2, <1>3
<1>5. PICK g : PassOf(kind, b, n - 1, g)
  BY <1>1, <1>4
<1> DEFINE new == IF n = 1 THEN [b |-> b, run |-> 1]
                  ELSE VisitBucket(kind, g[n - 1], Len(b) - n + 1)
           h == [m \in 1..n |-> IF m < n THEN g[m] ELSE new]
<1>6. ASSUME NEW m \in 1..n
      PROVE  h[m] = IF m = 1 THEN [b |-> b, run |-> 1]
                    ELSE VisitBucket(kind, h[m - 1], Len(b) - m + 1)
  <2>1. CASE m < n
    <3>1. m \in 1..(n - 1) /\ (m # 1 => m - 1 \in 1..n /\ m - 1 < n)
      BY <1>2, <2>1
    <3>2. g[m] = IF m = 1 THEN [b |-> b, run |-> 1]
                 ELSE VisitBucket(kind, g[m - 1], Len(b) - m + 1)
      BY <1>5, <3>1 DEF PassOf
    <3>3. h[m] = g[m] /\ (m # 1 => h[m - 1] = g[m - 1])
      BY <2>1, <3>1
    <3> HIDE DEF h
    <3> QED
      BY <3>2, <3>3
  <2>2. CASE ~(m < n)
    <3>1. m = n /\ (m # 1 => m - 1 \in 1..n /\ m - 1 < n)
      BY <1>2, <2>2
    <3>2. h[m] = new /\ (m # 1 => h[m - 1] = g[m - 1])
      BY <2>2, <3>1
    <3> HIDE DEF h
    <3> QED
      BY <3>1, <3>2 DEF new
  <2> QED
    BY <2>1, <2>2
<1>7. h = [m \in 1..n |-> h[m]]
  OBVIOUS
<1> HIDE DEF h
<1>8. PassOf(kind, b, n, h)
  BY <1>6, <1>7 DEF PassOf
<1> QED
  BY <1>2, <1>8

\* So the loop's table satisfies its recursion.
LEMMA RunPassIs ==
  ASSUME NEW kind, NEW b, Len(b) \in Nat
  PROVE  PassOf(kind, b, Len(b), RunPass(kind, b))
<1>1. RunPass(kind, b) = CHOOSE g : PassOf(kind, b, Len(b), g)
  BY DEF RunPass, PassOf
<1> QED
  BY <1>1, PassExists

\* The loop keeps the buckets' shape and what they hold; afterwards no size has too many.
LEMMA JoinRunsKeep ==
  ASSUME NEW kind \in Kinds, NEW s, Ordered(s), NEW now, NEW Ix, NEW b, Len(b) > 0,
         NEW e, Stands(kind, s, now, Ix, b, e),
         Shape!Counting(Len(b), SizesOf(b), e, Len(b) - 1, 1)
  PROVE  \E e2 : /\ Stands(kind, s, now, Ix, JoinRuns(kind, b), e2)
                 /\ Shape!FewOf(Len(JoinRuns(kind, b)), SizesOf(JoinRuns(kind, b)))
<1> DEFINE L == Len(b)
           g == RunPass(kind, b)
           Good(n) == /\ g[n] = [b |-> g[n].b, run |-> g[n].run]
                      /\ \E e2 : /\ Stands(kind, s, now, Ix, g[n].b, e2)
                                 /\ Shape!Counting(Len(g[n].b), SizesOf(g[n].b), e2,
                                                   L - n, g[n].run)
<1>1. L \in Nat /\ L > 0
  BY SeqFacts DEF Stands
<1>2. \A n \in 1..L : g[n] = IF n = 1 THEN [b |-> b, run |-> 1]
                             ELSE VisitBucket(kind, g[n - 1], L - n + 1)
  BY <1>1, RunPassIs DEF PassOf
<1> HIDE DEF g, L
<1>3. Good(1)
  <2>1. g[1] = [b |-> b, run |-> 1]
    BY <1>1, <1>2
  <2>2. g[1].b = b /\ g[1].run = 1
    BY <2>1
  <2> QED
    BY <2>1, <2>2 DEF L
<1>4. ASSUME NEW n \in 1..L, n # 1, Good(n - 1) PROVE Good(n)
  <2> DEFINE p == g[n - 1]
             j == L - n + 1
  <2>1. g[n] = VisitBucket(kind, p, j)
    BY <1>2, <1>4
  <2>2. j \in Nat \ {0} /\ j = L - (n - 1) /\ j - 1 = L - n
    BY <1>1
  <2>3. PICK e2 : /\ Stands(kind, s, now, Ix, p.b, e2)
                  /\ Shape!Counting(Len(p.b), SizesOf(p.b), e2, L - (n - 1), p.run)
    BY <1>4
  <2>4. p = [b |-> p.b, run |-> p.run]
    BY <1>4
  <2>5. Shape!Counting(Len(p.b), SizesOf(p.b), e2, j, p.run)
    BY <2>2, <2>3
  <2> HIDE DEF p, j, L
  <2>6. LET q == VisitBucket(kind, p, j)
        IN  /\ q = [b |-> q.b, run |-> q.run]
            /\ \E e3 : /\ Stands(kind, s, now, Ix, q.b, e3)
                       /\ Shape!Counting(Len(q.b), SizesOf(q.b), e3, j - 1, q.run)
    BY <2>2, <2>3, <2>4, <2>5, VisitKeeps, ZenonT(60)
  <2> QED
    BY <2>1, <2>2, <2>6
<1> HIDE DEF Good
<1>5. Good(L)
  <2> DEFINE Wrong == {n \in 1..L : ~Good(n)}
  <2> SUFFICES ASSUME ~Good(L) PROVE FALSE
    OBVIOUS
  <2>1. Wrong # {} /\ Wrong \in SUBSET Nat
    BY <1>1
  <2>2. PICK n \in Wrong : \A m \in Wrong : n <= m
    <3> HIDE DEF Wrong
    <3> QED
      BY <2>1, SmallestNat
  <2>3. n \in 1..L /\ ~Good(n)
    BY <2>2
  <2>4. n # 1
    BY <1>3, <2>3
  <2>5. n - 1 \in 1..L /\ ~(n <= n - 1)
    BY <1>1, <2>3, <2>4
  <2>6. Good(n - 1)
    BY <2>2, <2>5
  <2> QED
    BY <1>4, <2>3, <2>4, <2>6
<1> DEFINE p == g[L]
           c == JoinRuns(kind, b)
<1>6. PICK e2 : /\ Stands(kind, s, now, Ix, p.b, e2)
                /\ Shape!Counting(Len(p.b), SizesOf(p.b), e2, L - L, p.run)
  BY <1>5 DEF Good
<1>7. Shape!Counting(Len(p.b), SizesOf(p.b), e2, 0, p.run)
  <2>1. L - L = 0
    BY <1>1
  <2> QED
    BY <1>6, <2>1
<1>8. c = EndRun(kind, p)
  BY DEF JoinRuns, L, g
<1> HIDE DEF p, c
<1>9. Shape!Standing(Len(p.b), SizesOf(p.b), e2, Len(s))
  BY <1>6 DEF Stands
<1>10. CASE ~IsTooLong(p.run)
  <2>1. c = p.b
    BY <1>8, <1>10 DEF EndRun
  <2>2. ~(2 * p.run >= RunK + 4)
    BY <1>10 DEF IsTooLong
  <2>3. Shape!FewOf(Len(p.b), SizesOf(p.b))
    BY <1>7, <2>2, RunAssumption, StreamAssumption, Shape!EndedFew
  <2> QED
    BY <1>6, <2>1, <2>3 DEF c
<1>11. CASE IsTooLong(p.run)
  <2>1. c = JoinNext(kind, p.b, 1)
    BY <1>8, <1>11 DEF EndRun
  <2>2. 2 * p.run >= RunK + 4
    BY <1>11 DEF IsTooLong
  <2> DEFINE z == SizesOf(p.b)
             N == Len(p.b)
             n == 0 + 1
  <2>3. /\ n \in Nat \ {0} /\ n + 2 <= N /\ z[n] = z[n + 1] /\ z[n] = z[n + 2]
        /\ RunK * (z[n] + z[n]) <= 2 * (Len(s) - e2[n + 1]) + RunK
    BY <1>7, <1>9, <2>2, RunAssumption, StreamAssumption, Shape!RunCanBeJoined
  <2>4. n = 1 /\ ~(n > 1)
    OBVIOUS
  <2>5. CanBeJoined(N, z, e2, Len(s), 1)
    <3>1. CanBeJoined(N, z, e2, Len(s), n)
      <4> HIDE DEF n, z, N
      <4> QED
        BY <2>3, <2>4 DEF CanBeJoined
    <3> HIDE DEF n, z, N
    <3> QED
      BY <2>4, <3>1
  <2> HIDE DEF n, z, N
  <2>6. /\ Len(c) = N - 1
        /\ \E e3 : Shape!Joined(N, z, e2, 1, SizesOf(c), e3) /\ Stands(kind, s, now, Ix, c, e3)
    <3>1. 1 \in Nat \ {0}
      OBVIOUS
    <3> QED
      BY <1>6, <2>1, <2>5, <3>1, JoinKeeps DEF N, z
  <2>7. PICK e3 : Shape!Joined(N, z, e2, 1, SizesOf(c), e3) /\ Stands(kind, s, now, Ix, c, e3)
    BY <2>6
  <2>8. Shape!FewOf(N - 1, SizesOf(c))
    BY <1>7, <1>9, <2>2, <2>7, RunAssumption, StreamAssumption, Shape!JoinedEndsFew DEF N, z
  <2> QED
    BY <2>6, <2>7, <2>8 DEF c
<1> QED
  BY <1>10, <1>11

\* How many that are.
Expired(b, t) ==
  Cardinality({i \in DOMAIN b : \A j \in 1..i : b[j].max_time < t - RunWindow})

\* Those at the front that ended before a time.
LEMMA EndedBefore ==
  ASSUME NEW b, IsSeq(b), NEW limit
  PROVE  LET r == Cardinality({i \in DOMAIN b : \A j \in 1..i : b[j].max_time < limit})
         IN  /\ r \in 0..Len(b) /\ \A n \in 1..r : b[n].max_time < limit
             /\ r < Len(b) => ~(b[r + 1].max_time < limit)
<1> DEFINE S == {i \in DOMAIN b : \A j \in 1..i : b[j].max_time < limit}
           r == Cardinality(S)
<1>1. Len(b) \in Nat /\ DOMAIN b = 1..Len(b)
  BY SeqFacts
<1>2. S \in SUBSET (1..Len(b)) /\ \A i \in S, j \in 1..Len(b) : j <= i => j \in S
  <2>1. ASSUME NEW i \in S, NEW j \in 1..Len(b), j <= i PROVE j \in S
    <3>1. \A k \in 1..j : k \in 1..i
      BY <1>1, <2>1
    <3> QED
      BY <1>1, <3>1
  <2> QED
    BY <1>1, <2>1
<1>3. r \in 0..Len(b) /\ S = 1..r
  <2> HIDE DEF S
  <2> QED
    BY <1>1, <1>2, FrontIsInterval
<1>4. ASSUME NEW n \in 1..r PROVE b[n].max_time < limit
  <2>1. n \in S /\ n \in 1..n
    BY <1>3
  <2> QED
    BY <2>1
<1>5. ASSUME r < Len(b) PROVE ~(b[r + 1].max_time < limit)
  <2> SUFFICES ASSUME b[r + 1].max_time < limit PROVE FALSE
    OBVIOUS
  <2>1. r + 1 \in 1..Len(b) /\ r + 1 \notin S /\ r \in Nat
    <3> HIDE DEF r, S
    <3> QED
      BY <1>1, <1>3, <1>5
  <2>2. PICK j \in 1..(r + 1) : ~(b[j].max_time < limit)
    BY <1>1, <2>1
  <2>3. j \in 1..r
    BY <2>1, <2>2
  <2> QED
    BY <1>4, <2>2, <2>3
<1> QED
  BY <1>3, <1>4, <1>5

\* Another sample of the stream.
LEMMA AppendOrdered ==
  ASSUME NEW s, Ordered(s), NEW x \in Samples, Len(s) > 0 => s[Len(s)].t <= x.t
  PROVE  LET u == Append(s, x)
         IN  /\ Ordered(u) /\ Len(u) = Len(s) + 1 /\ u[Len(s) + 1] = x
             /\ \A n \in 1..Len(s) : u[n] = s[n]
             /\ \A m, n \in 1..Len(s) : SubSeq(u, m, n) = SubSeq(s, m, n)
             /\ SubSeq(u, Len(s) + 1, Len(s) + 1) = <<x>>
<1> DEFINE u == Append(s, x)
           A == Len(s)
<1>1. /\ s \in Seq(Samples) /\ A \in Nat /\ \A n \in 1..A : s[n].t \in Int /\ s[n] \in Samples
      /\ x.t \in Int
  BY OrderedFacts DEF Samples
<1>2. /\ u \in Seq(Samples) /\ Len(u) = A + 1 /\ u[A + 1] = x
      /\ \A n \in 1..A : u[n] = s[n]
  BY <1>1, AppendProperties
<1>3. ASSUME NEW m \in 1..A, NEW n \in 1..A PROVE SubSeq(u, m, n) = SubSeq(s, m, n)
  <2>1. u = s \o <<x>> /\ <<x>> \in Seq(Samples)
    BY <1>1, AppendIsConcat
  <2> QED
    BY <1>1, <2>1, SubSeqOfConcat1
<1> HIDE DEF u
<1>4. SubSeq(u, A + 1, A + 1) = <<x>>
  <2>1. /\ SubSeq(u, A + 1, A + 1) \in Seq(Samples)
        /\ Len(SubSeq(u, A + 1, A + 1)) = IF A + 1 <= A + 1 THEN (A + 1) - (A + 1) + 1 ELSE 0
        /\ \A i \in 1..((A + 1) - (A + 1) + 1) : SubSeq(u, A + 1, A + 1)[i] = u[(A + 1) + i - 1]
    <3> DEFINE B == A + 1
    <3>1. B \in Int /\ \A i \in B..B : u[i] \in Samples
      <4>1. \A i \in B..B : i = A + 1
        BY <1>1
      <4> QED
        BY <1>1, <1>2, <4>1
    <3> HIDE DEF B
    <3>2. /\ SubSeq(u, B, B) \in Seq(Samples)
          /\ Len(SubSeq(u, B, B)) = IF B <= B THEN B - B + 1 ELSE 0
          /\ \A i \in 1..(B - B + 1) : SubSeq(u, B, B)[i] = u[B + i - 1]
      BY <3>1, SubSeqProperties
    <3> QED
      BY <3>2 DEF B
  <2> DEFINE w == SubSeq(u, A + 1, A + 1)
  <2> HIDE DEF w
  <2>2. w \in Seq(Samples) /\ Len(w) = 1 /\ w[1] = x
    <3>1. (A + 1) - (A + 1) + 1 = 1 /\ (A + 1) + 1 - 1 = A + 1 /\ A + 1 <= A + 1
      BY <1>1
    <3>2. 1 \in 1..1
      OBVIOUS
    <3> QED
      BY <1>2, <2>1, <3>1, <3>2 DEF w
  <2>3. <<x>> \in Seq(Samples) /\ Len(<<x>>) = 1 /\ <<x>>[1] = x
    OBVIOUS
  <2>4. w = <<x>>
    <3>1. \A i \in 1..Len(w) : w[i] = <<x>>[i]
      <4>1. \A i \in 1..1 : i = 1
        OBVIOUS
      <4> QED
        BY <2>2, <2>3, <4>1
    <3> QED
      BY <2>2, <2>3, <3>1, SeqEqual
  <2> QED
    BY <2>4 DEF w
<1>5. Ordered(u)
  <2>1. ASSUME NEW i \in 1..(A + 1), NEW j \in 1..(A + 1), i <= j PROVE u[i].t <= u[j].t
    <3>1. CASE j <= A
      <4>1. i \in 1..A /\ j \in 1..A
        BY <1>1, <2>1, <3>1
      <4> QED
        BY <1>2, <2>1, <4>1 DEF Ordered
    <3>2. CASE ~(j <= A) /\ i <= A
      <4>1. j = A + 1 /\ i \in 1..A /\ A \in 1..A /\ A > 0 /\ i <= A
        BY <1>1, <2>1, <3>2
      <4>2. s[i].t <= s[A].t /\ s[A].t <= x.t
        BY <4>1 DEF Ordered
      <4>3. s[i].t \in Int /\ s[A].t \in Int
        BY <1>1, <4>1
      <4> QED
        BY <1>1, <1>2, <4>1, <4>2, <4>3
    <3>3. CASE ~(j <= A) /\ ~(i <= A)
      <4>1. j = A + 1 /\ i = A + 1
        BY <1>1, <3>3
      <4> QED
        BY <1>1, <1>2, <4>1
    <3> QED
      BY <3>1, <3>2, <3>3
  <2> QED
    BY <1>2, <2>1 DEF Ordered
<1> QED
  BY <1>2, <1>3, <1>4, <1>5 DEF u, A

\* What expiry removes: the oldest, as long as they are old.
LEMMA UnexpiredIs ==
  ASSUME NEW b, IsSeq(b), NEW t
  PROVE  LET r == Expired(b, t)
             c == Unexpired(b, t)
         IN  /\ r \in 0..Len(b) /\ \A n \in 1..r : b[n].max_time < t - RunWindow
             /\ IsSeq(c) /\ Len(c) = Len(b) - r
             /\ \A m \in 1..(Len(b) - r) : c[m] = b[r + m]
<1> DEFINE r == Expired(b, t)
           c == Unexpired(b, t)
<1>1. r \in 0..Len(b) /\ \A n \in 1..r : b[n].max_time < t - RunWindow
  BY EndedBefore DEF Expired
<1>2. c = SubSeq(b, r + 1, Len(b))
  BY DEF Unexpired, Expired
<1> HIDE DEF r, c
<1>3. /\ IsSeq(c) /\ Len(c) = Len(b) - r
      /\ \A m \in 1..(Len(b) - r) : c[m] = b[r + m]
  BY <1>1, <1>2, SuffixIs
<1> QED
  BY <1>1, <1>3 DEF r, c

\* Expiry at a time, of buckets that expired before.
LEMMA ExpiryKeeps ==
  ASSUME NEW kind \in Kinds, NEW s, Ordered(s), NEW now \in Int, NEW t \in Int, now <= t,
         NEW Ix, NEW b, NEW e, Stands(kind, s, now, Ix, b, e), Shape!FewOf(Len(b), SizesOf(b))
  PROVE  LET c == Unexpired(b, t)
         IN  \E e2 : Stands(kind, s, t, Ix, c, e2) /\ Shape!FewOf(Len(c), SizesOf(c))
<1> DEFINE L == Len(b)
           A == Len(s)
           r == Expired(b, t)
           c == Unexpired(b, t)
           z == SizesOf(b)
           zc == SizesOf(c)
           N == L - r
           e2 == [m \in 0..N |-> e[r + m]]
<1>1. IsSeq(b) /\ Shape!Standing(L, z, e, A)
  BY DEF Stands
<1>2. /\ L \in Nat /\ A \in Nat /\ \A n \in 0..L : e[n] \in 0..A
      /\ \A n \in 1..L : z[n] \in Nat \ {0} /\ e[n] = e[n - 1] + z[n]
  BY <1>1, EndsAreWithin
<1>3. /\ r \in 0..L /\ \A n \in 1..r : b[n].max_time < t - RunWindow
      /\ IsSeq(c) /\ Len(c) = N
      /\ \A m \in 1..N : c[m] = b[r + m]
  BY <1>1, UnexpiredIs
<1> HIDE DEF c, r
<1>4. /\ zc = [m \in 1..N |-> c[m].bucketsize]
      /\ \A m \in 1..L : z[m] = b[m].bucketsize
      /\ \A m \in 1..N : zc[m] = c[m].bucketsize
  BY <1>1, <1>3, SizesAre
<1>5. N \in Nat /\ r \in Nat /\ r + N = L
  BY <1>2, <1>3
<1>6. e2 = [m \in 0..N |-> e2[m]] /\ \A m \in 0..N : e2[m] = e[r + m]
  OBVIOUS
<1>7. \A n \in 1..L : Holds(kind, s, b, e, n)
  BY DEF Stands
<1>8. \A n \in 1..e[0] : s[n].t < now - RunWindow
  BY DEF Stands
<1>9. kind = "univ" => Indexed(b, Ix)
  BY DEF Stands
<1>10. \A n \in 1..A : s[n].t \in Int
  BY OrderedFacts
<1>11. \A i, j \in 1..A : i <= j => s[i].t <= s[j].t
  BY DEF Ordered
<1>12. Shape!FewOf(L, z)
  OBVIOUS
<1>13. RunWindow \in Nat
  BY RunAssumption
<1> HIDE DEF L, A, z, zc, N, e2
<1>14. \A m \in 1..N : r + m \in 1..L /\ r + m \in 0..L /\ (r + m) - 1 = r + (m - 1) /\ m - 1 \in 0..N
  BY <1>5
<1>15. \A m \in 1..N : zc[m] = z[r + m]
  BY <1>3, <1>4, <1>14
<1>16. Shape!Standing(N, zc, e2, A)
  <2>1. /\ z \in [1..L -> Nat \ {0}] /\ e \in [0..L -> Nat] /\ e[L] = A
        /\ \A n \in 1..L : e[n] = e[n - 1] + z[n] /\ RunK * z[n] <= 2 * (A - e[n]) + RunK
        /\ L > 0 => z[L] = 1
        /\ \A n \in 1..L : n < L => z[n] = z[n + 1] \/ z[n] = 2 * z[n + 1]
        /\ \A n, m \in 1..L : n <= m => z[m] <= z[n]
    BY <1>1 DEF Shape!Standing
  <2>2. zc \in [1..N -> Nat \ {0}]
    <3>1. \A m \in 1..N : zc[m] \in Nat \ {0}
      BY <1>2, <1>14, <1>15
    <3> QED
      BY <1>4, <3>1
  <2>3. e2 \in [0..N -> Nat]
    <3>1. \A m \in 0..N : e2[m] \in Nat
      <4>1. \A m \in 0..N : r + m \in 0..L
        BY <1>5
      <4> QED
        BY <1>6, <2>1, <4>1
    <3> QED
      BY <1>6, <3>1
  <2>4. e2[N] = A
    <3>1. N \in 0..N
      BY <1>5
    <3> QED
      BY <1>5, <1>6, <2>1, <3>1
  <2>5. ASSUME NEW m \in 1..N
        PROVE  e2[m] = e2[m - 1] + zc[m] /\ RunK * zc[m] <= 2 * (A - e2[m]) + RunK
    <3>1. m \in 0..N
      OBVIOUS
    <3>2. /\ e[r + m] = e[(r + m) - 1] + z[r + m]
          /\ RunK * z[r + m] <= 2 * (A - e[r + m]) + RunK
      BY <1>14, <2>1
    <3>3. e2[m] = e[r + m] /\ e2[m - 1] = e[(r + m) - 1] /\ zc[m] = z[r + m]
      BY <1>6, <1>14, <1>15, <3>1
    <3> QED
      BY <3>2, <3>3
  <2>6. N > 0 => zc[N] = 1
    <3> SUFFICES ASSUME N > 0 PROVE zc[N] = 1
      OBVIOUS
    <3>1. N \in 1..N /\ L > 0
      BY <1>5
    <3> QED
      BY <1>5, <1>15, <2>1, <3>1
  <2>7. ASSUME NEW n \in 1..N, n < N PROVE zc[n] = zc[n + 1] \/ zc[n] = 2 * zc[n + 1]
    <3>1. n + 1 \in 1..N /\ r + n < L /\ r + (n + 1) = (r + n) + 1
      BY <1>5, <2>7
    <3>2. zc[n] = z[r + n] /\ zc[n + 1] = z[(r + n) + 1] /\ r + n \in 1..L
      BY <1>14, <1>15, <3>1
    <3> QED
      BY <2>1, <3>1, <3>2
  <2>8. ASSUME NEW n \in 1..N, NEW m \in 1..N, n <= m PROVE zc[m] <= zc[n]
    <3>1. r + n <= r + m /\ r + n \in 1..L /\ r + m \in 1..L
      BY <1>5, <1>14, <2>8
    <3> QED
      BY <1>15, <2>1, <3>1
  <2> QED
    BY <1>2, <1>5, <2>2, <2>3, <2>4, <2>5, <2>6, <2>7, <2>8 DEF Shape!Standing
<1>17. Shape!FewOf(N, zc)
  <2> SUFFICES ASSUME NEW n \in 1..N, NEW m \in 1..N, m = n + Shape!Most PROVE zc[n] # zc[m]
    BY DEF Shape!FewOf
  <2>1. Shape!Most \in Nat
    BY RunAssumption, StreamAssumption, Shape!MostFacts
  <2>2. r + n \in 1..L /\ r + m \in 1..L /\ r + m = (r + n) + Shape!Most
    BY <1>5, <1>14, <2>1
  <2> QED
    BY <1>12, <1>15, <2>2 DEF Shape!FewOf
<1>18. ASSUME NEW m \in 1..N PROVE Holds(kind, s, c, e2, m)
  <2>1. Holds(kind, s, b, e, r + m)
    BY <1>7, <1>14
  <2>2. m \in 0..N
    OBVIOUS
  <2>3. c[m] = b[r + m] /\ e2[m] = e[r + m] /\ e2[m - 1] = e[(r + m) - 1]
    BY <1>3, <1>6, <1>14, <2>2
  <2> QED
    BY <2>1, <2>3 DEF Holds
<1>19. kind = "univ" => Indexed(c, Ix)
  <2> SUFFICES ASSUME kind = "univ" PROVE Indexed(c, Ix)
    OBVIOUS
  <2>1. Indexed(b, Ix)
    BY <1>9
  <2>2. ASSUME NEW m \in 1..N
        PROVE  /\ c[m].of = [index |-> c[m].of.index, us |-> c[m].of.us]
               /\ c[m].of.index \in Ix
    <3>1. r + m \in 1..L /\ c[m] = b[r + m]
      BY <1>3, <1>14
    <3> QED
      BY <2>1, <3>1 DEF Indexed, L
  <2>3. ASSUME NEW m \in 1..N, NEW k \in 1..N, c[m].of.index = c[k].of.index PROVE m = k
    <3>1. r + m \in 1..L /\ r + k \in 1..L /\ c[m] = b[r + m] /\ c[k] = b[r + k]
      BY <1>3, <1>14
    <3>2. r + m = r + k
      BY <2>1, <2>3, <3>1 DEF Indexed, L
    <3> QED
      BY <1>5, <3>2
  <2> QED
    BY <1>3, <2>2, <2>3 DEF Indexed
<1>20. ASSUME NEW n \in 1..e2[0] PROVE s[n].t < t - RunWindow
  <2>1. e2[0] = e[r]
    BY <1>5, <1>6
  <2>2. e[r] \in 0..A /\ e[0] \in 0..A
    BY <1>2, <1>3
  <2>3. n \in 1..A /\ A > 0 /\ n <= e[r] /\ s[n].t \in Int
    BY <1>2, <1>10, <2>1, <2>2
  <2>4. CASE n <= e[0]
    <3>1. n \in 1..e[0]
      BY <2>2, <2>3, <2>4
    <3>2. s[n].t < now - RunWindow
      BY <1>8, <3>1
    <3> QED
      BY <1>13, <2>3, <3>2
  <2>5. CASE ~(n <= e[0])
    <3>1. r # 0
      BY <2>2, <2>3, <2>5
    <3>2. r \in 1..r /\ r \in 1..L
      BY <1>3, <1>5, <3>1
    <3>3. b[r].max_time < t - RunWindow
      BY <1>3, <3>2
    <3>4. b[r].max_time = s[e[r]].t
      BY <1>7, <3>2 DEF Holds
    <3>5. e[r] \in 1..A
      BY <1>2, <2>2, <2>3
    <3>6. s[n].t <= s[e[r]].t /\ s[e[r]].t \in Int
      BY <1>10, <1>11, <2>3, <3>5
    <3> QED
      BY <1>13, <2>3, <3>3, <3>4, <3>6, SMTT(30)
  <2> QED
    BY <2>4, <2>5
<1>21. Stands(kind, s, t, Ix, c, e2)
  BY <1>3, <1>16, <1>18, <1>19, <1>20 DEF Stands, A, zc
<1> QED
  BY <1>3, <1>17, <1>21 DEF c, zc

\* The new bucket and the loop.
LEMMA ArrivalKeeps ==
  ASSUME NEW kind \in Kinds, NEW s, Ordered(s), NEW x \in Samples,
         Len(s) > 0 => s[Len(s)].t <= x.t,
         NEW Ix, NEW Ix2, Ix \subseteq Ix2,
         NEW b, NEW e, Stands(kind, s, x.t, Ix, b, e), Shape!FewOf(Len(b), SizesOf(b)),
         NEW of, HoldsPart(kind, of, <<x>>),
         kind = "univ" => of = [index |-> of.index, us |-> of.us] /\ of.index \in Ix2 \ Ix
  PROVE  LET c == JoinRuns(kind, Append(b, RunBucket(x.t, of)))
         IN  \E e2 : /\ Stands(kind, Append(s, x), x.t, Ix2, c, e2)
                     /\ Shape!FewOf(Len(c), SizesOf(c))
<1> DEFINE L == Len(b)
           A == Len(s)
           u == Append(s, x)
           new == RunBucket(x.t, of)
           d == Append(b, new)
<1>1. IsSeq(b) /\ Shape!Standing(L, SizesOf(b), e, A)
  BY DEF Stands
<1>2. /\ L \in Nat /\ A \in Nat /\ \A n \in 0..L : e[n] \in 0..A
      /\ \A n \in 1..L : SizesOf(b)[n] \in Nat \ {0} /\ e[n] = e[n - 1] + SizesOf(b)[n]
  BY <1>1, EndsAreWithin
<1>3. /\ IsSeq(d) /\ Len(d) = L + 1
      /\ \A m \in 1..L : d[m] = b[m]
      /\ d[L + 1] = new
  BY <1>1, AppendedIs
<1>4. /\ DOMAIN new = {"min_time", "max_time", "bucketsize", "of"}
      /\ new.min_time = x.t /\ new.max_time = x.t /\ new.bucketsize = 1 /\ new.of = of
  BY DEF RunBucket
<1>5. /\ Ordered(u) /\ Len(u) = A + 1 /\ u[A + 1] = x
      /\ \A n \in 1..A : u[n] = s[n]
      /\ \A m, n \in 1..A : SubSeq(u, m, n) = SubSeq(s, m, n)
      /\ SubSeq(u, A + 1, A + 1) = <<x>>
  BY AppendOrdered
<1> DEFINE z == SizesOf(b)
           zd == SizesOf(d)
           e2 == [m \in 0..(L + 1) |-> IF m <= L THEN e[m] ELSE A + 1]
<1>6. /\ zd = [m \in 1..(L + 1) |-> d[m].bucketsize]
      /\ \A m \in 1..L : z[m] = b[m].bucketsize
      /\ \A m \in 1..(L + 1) : zd[m] = d[m].bucketsize
  BY <1>1, <1>3, SizesAre
<1>7. L \in Nat /\ 0 \in 0..L
  BY <1>2
<1>8. /\ e2 = [m \in 0..(L + 1) |-> e2[m]]
      /\ \A m \in 0..(L + 1) : e2[m] = IF m <= L THEN e[m] ELSE A + 1
  OBVIOUS
<1>9. /\ IsSeq(d) /\ Len(d) = L + 1 /\ d[L + 1] = new
       /\ \A m \in 1..L : d[m] = b[m]
  BY <1>3
<1>10. e[L] = A
  BY <1>1 DEF Shape!Standing
<1>11. \A n \in 1..L : Holds(kind, s, b, e, n)
  BY DEF Stands
<1>12. \A n \in 1..e[0] : s[n].t < x.t - RunWindow
  BY DEF Stands
<1>13. kind = "univ" => Indexed(b, Ix)
  BY DEF Stands
<1> HIDE DEF L, A, u, new, d, z, zd, e2
<1>14. \A m \in 1..L : m \in 0..L /\ m - 1 \in 0..L
  BY <1>2
<1>15. Shape!Arriving(L, z, e, A, 0, L, zd, e2)
  <2>1. ASSUME NEW m \in 1..L PROVE zd[m] = z[m]
    <3>1. m \in 1..(L + 1)
      BY <1>7
    <3>2. zd[m] = d[m].bucketsize
      BY <1>6, <3>1
    <3>3. d[m] = b[m]
      BY <1>9
    <3>4. z[m] = b[m].bucketsize
      BY <1>6, <3>3
    <3> QED
      BY <3>2, <3>3, <3>4
  <2>2. zd[L + 1] = 1
    BY <1>4, <1>6, <1>7, <1>9
  <2>3. ASSUME NEW m \in 1..(L + 1) PROVE zd[m] \in Nat \ {0}
    <3>1. CASE m = L + 1
      BY <2>2, <3>1
    <3>2. CASE m # L + 1
      <4>1. m \in 1..L
        BY <1>7, <3>2
      <4>2. z[m] \in Nat \ {0}
        BY <1>2, <1>14, <4>1 DEF z
      <4> QED
        BY <2>1, <4>1, <4>2
    <3> QED
      BY <3>1, <3>2
  <2>4. zd \in [1..(L + 1) -> Nat \ {0}]
    BY <1>6, <2>3
  <2>5. \A m \in 0..L : e2[m] = e[m]
    BY <1>7, <1>8
  <2>6. e2[L + 1] = A + 1
    BY <1>7, <1>8
  <2>7. ASSUME NEW m \in 0..(L + 1) PROVE e2[m] \in Nat
    <3>1. CASE m = L + 1
      BY <1>2, <2>6, <3>1
    <3>2. CASE m # L + 1
      <4>1. m \in 0..L
        BY <1>7, <3>2
      <4>2. e[m] \in 0..A
        BY <1>2, <4>1
      <4> QED
        BY <1>2, <2>5, <4>1, <4>2
    <3> QED
      BY <3>1, <3>2
  <2>8. e2 \in [0..(L + 1) -> Nat]
    BY <1>8, <2>7
  <2>9. 0 \in 0..L /\ L = L - 0 /\ \A m \in 0..L : 0 + m = m
    BY <1>7
  <2> QED
    BY <2>1, <2>2, <2>4, <2>5, <2>6, <2>8, <2>9 DEF Shape!Arriving
<1>16. Shape!Standing(L + 1, zd, e2, A + 1) /\ Shape!Counting(L + 1, zd, e2, L, 1)
  BY <1>1, <1>15, RunAssumption, StreamAssumption, Shape!ArrivalStands DEF L, z, A
<1>17. ASSUME NEW m \in 1..(L + 1) PROVE Holds(kind, u, d, e2, m)
  <2>1. CASE m = L + 1
    <3>1. d[m] = new /\ e2[m] = A + 1 /\ e2[m - 1] = A
      BY <1>7, <1>8, <1>9, <1>10, <2>1
    <3> QED
      BY <1>4, <1>5, <3>1 DEF Holds
  <2>2. CASE m # L + 1
    <3>1. m \in 1..L
      BY <1>7, <2>2
    <3> DEFINE lo == e[m - 1]
               hi == e[m]
    <3>2. d[m] = b[m] /\ e2[m] = hi /\ e2[m - 1] = lo
      BY <1>7, <1>8, <1>9, <3>1
    <3>3. Holds(kind, s, b, e, m)
      BY <1>11, <1>14, <3>1
    <3>4. lo \in 0..A /\ hi \in 0..A /\ lo < hi
      <4>1. hi = lo + z[m] /\ z[m] \in Nat \ {0} /\ lo \in 0..A /\ hi \in 0..A
        BY <1>2, <1>14, <3>1 DEF z
      <4> HIDE DEF lo, hi
      <4> QED
        BY <1>2, <4>1
    <3>5. /\ b[m].min_time = s[lo + 1].t /\ b[m].max_time = s[hi].t
          /\ DOMAIN b[m] = {"min_time", "max_time", "bucketsize", "of"}
          /\ HoldsPart(kind, b[m].of, SubSeq(s, lo + 1, hi))
      BY <1>14, <3>1, <3>3 DEF Holds
    <3> HIDE DEF lo, hi
    <3>6. lo + 1 \in 1..A /\ hi \in 1..A
      BY <1>2, <3>4
    <3>7. u[lo + 1] = s[lo + 1] /\ u[hi] = s[hi] /\ SubSeq(u, lo + 1, hi) = SubSeq(s, lo + 1, hi)
      BY <1>5, <3>6
    <3> QED
      BY <3>2, <3>5, <3>7 DEF Holds
  <2> QED
    BY <2>1, <2>2
<1>18. ASSUME kind = "univ" PROVE Indexed(d, Ix2)
  <2>1. ASSUME NEW m \in 1..(L + 1)
        PROVE  /\ d[m].of = [index |-> d[m].of.index, us |-> d[m].of.us]
               /\ d[m].of.index \in Ix2
               /\ m = L + 1 => d[m].of.index \notin Ix
               /\ m # L + 1 => m \in 1..L /\ d[m] = b[m] /\ d[m].of.index \in Ix
    <3>1. CASE m = L + 1
      BY <1>4, <1>9, <1>18, <3>1
    <3>2. CASE m # L + 1
      <4>1. m \in 1..L
        BY <1>7, <3>2
      <4>2. d[m] = b[m]
        BY <1>9, <4>1
      <4> QED
        BY <1>13, <1>18, <3>2, <4>1, <4>2 DEF Indexed, L
    <3> QED
      BY <3>1, <3>2
  <2>2. ASSUME NEW m \in 1..(L + 1), NEW k \in 1..(L + 1), d[m].of.index = d[k].of.index
        PROVE  m = k
    <3>1. CASE m = L + 1
      BY <2>1, <2>2, <3>1
    <3>2. CASE m # L + 1
      <4>1. k # L + 1
        BY <2>1, <2>2, <3>2
      <4>2. m \in 1..L /\ k \in 1..L /\ b[m].of.index = b[k].of.index
        BY <2>1, <2>2, <3>2, <4>1
      <4> QED
        BY <1>13, <1>18, <4>2 DEF Indexed, L
    <3> QED
      BY <3>1, <3>2
  <2> QED
    BY <1>9, <2>1, <2>2 DEF Indexed
<1>19. ASSUME NEW n \in 1..e2[0] PROVE u[n].t < x.t - RunWindow
  <2>1. e2[0] = e[0] /\ e[0] \in 0..A
    BY <1>2, <1>8
  <2>2. n \in 1..e[0] /\ n \in 1..A
    BY <1>2, <2>1
  <2> QED
    BY <1>5, <1>12, <2>2
<1>20. Stands(kind, u, x.t, Ix2, d, e2)
  BY <1>5, <1>9, <1>16, <1>17, <1>18, <1>19 DEF Stands, zd
<1>21. Len(d) > 0 /\ Len(d) - 1 = L
  BY <1>7, <1>9
<1>22. Shape!Counting(Len(d), SizesOf(d), e2, Len(d) - 1, 1)
  BY <1>9, <1>16, <1>21 DEF zd
<1> QED
  BY <1>5, <1>20, <1>21, <1>22, JoinRunsKeep DEF d, u, new

-----------------------------------------------------------------------------
(* What that says of the properties *)

\* Between updates no size is too often.
LEMMA FewHaveASize ==
  ASSUME NEW L, NEW z, NEW e, NEW A, Shape!Standing(L, z, e, A), Shape!FewOf(L, z),
         NEW i \in 1..L
  PROVE  ~IsTooLong(Cardinality({n \in 1..L : z[n] = z[i]}))
<1> DEFINE S == {n \in 1..L : z[n] = z[i]}
           most == Shape!Most
<1>1. L \in Nat /\ z \in [1..L -> Nat \ {0}] /\ \A n, m \in 1..L : n <= m => z[m] <= z[n]
  BY DEF Shape!Standing
<1>2. most \in Nat /\ most >= 2 /\ 2 * most < RunK + 4
  BY RunAssumption, StreamAssumption, Shape!MostFacts
<1>3. \A n, m \in 1..L : m = n + most => z[n] # z[m]
  BY DEF Shape!FewOf
<1> HIDE DEF most
<1>4. PICK a \in S : \A m \in S : a <= m
  <2>1. S \in SUBSET Nat /\ S # {}
    OBVIOUS
  <2> HIDE DEF S
  <2> QED
    BY <2>1, SmallestNat
<1>5. ASSUME NEW m \in S PROVE m \in a..(a + most - 1)
  <2>1. m \in 1..L /\ a \in 1..L /\ z[m] = z[i] /\ z[a] = z[i] /\ a <= m
    BY <1>4
  <2>2. ASSUME m >= a + most PROVE FALSE
    <3> DEFINE c == a + most
    <3>1. c \in 1..L /\ a <= c /\ c <= m
      BY <1>1, <1>2, <2>1, <2>2
    <3>2. z[c] <= z[a] /\ z[m] <= z[c]
      BY <1>1, <2>1, <3>1
    <3>3. z[c] \in Nat /\ z[a] \in Nat
      BY <1>1, <2>1, <3>1
    <3>4. z[c] = z[a]
      BY <2>1, <3>2, <3>3
    <3> QED
      BY <1>3, <2>1, <3>1, <3>4
  <2> QED
    BY <1>2, <2>1, <2>2
<1>6. IsFiniteSet(a..(a + most - 1)) /\ Cardinality(a..(a + most - 1)) = most
  <2>1. a \in 1..L
    BY <1>4
  <2>2. a \in Int /\ a + most - 1 \in Int /\ a <= a + most - 1 /\ (a + most - 1) - a + 1 = most
    BY <1>2, <2>1
  <2> QED
    BY <2>2, FS_Interval
<1> HIDE DEF S
<1>7. Cardinality(S) <= most /\ Cardinality(S) \in Nat
  <2>1. S \in SUBSET (a..(a + most - 1))
    BY <1>5
  <2> QED
    BY <1>6, <2>1, FS_Subset, FS_CardinalityType, ZenonT(60)
<1>8. ~(2 * Cardinality(S) >= RunK + 4)
  <2> DEFINE c == Cardinality(S)
  <2>1. c <= most /\ c \in Nat /\ RunK \in Nat
    BY <1>7, RunAssumption
  <2> HIDE DEF c
  <2>2. ~(2 * c >= RunK + 4)
    BY <1>2, <2>1
  <2> QED
    BY <2>2 DEF c
<1> QED
  BY <1>8 DEF IsTooLong, S

\* The sums of the sizes are the ends of the buckets.
LEMMA PartsAre ==
  ASSUME NEW z, NEW L, NEW e, Shape!Standing(L, z, e, Len(stream))
  PROVE  /\ KeptFrom(z) = e[0]
         /\ \A n \in 1..L : SamplesOfBucket(z, n) = SubSeq(stream, e[n - 1] + 1, e[n])
<1>1. /\ L \in Nat /\ Len(stream) \in Nat /\ \A n \in 0..L : e[n] \in 0..Len(stream)
      /\ \A n \in 1..L : z[n] \in Nat \ {0} /\ e[n] = e[n - 1] + z[n]
  BY EndsAreWithin
<1>2. Len(z) = L
  <2>1. z \in [1..L -> Nat \ {0}]
    BY DEF Shape!Standing
  <2>2. z \in Seq(Nat \ {0})
    BY <1>1, <2>1, SeqDef
  <2> QED
    BY <1>1, <2>1, <2>2
<1>3. e \in [0..L -> Int] /\ e[L] = Len(stream)
  BY DEF Shape!Standing
<1>4. \A n \in 1..Len(z) : z[n] \in Int /\ e[n] = e[n - 1] + z[n]
  BY <1>1, <1>2
<1>5. \A n \in 0..L : UpTo(z)[n] = e[n] - e[0]
  <2>1. Len(z) \in Nat /\ e \in [0..Len(z) -> Int]
    BY <1>1, <1>2, <1>3
  <2>2. \A n \in 0..Len(z) : UpTo(z)[n] = e[n] - e[0]
    BY <1>4, <2>1, UpToIs
  <2> QED
    BY <1>2, <2>2
<1>6. L \in 0..L /\ 0 \in 0..L
  BY <1>1
<1>7. KeptFrom(z) = e[0]
  <2>1. KeptFrom(z) = Len(stream) - (e[L] - e[0])
    BY <1>2, <1>5, <1>6 DEF KeptFrom
  <2>2. e[0] \in 0..Len(stream)
    BY <1>1, <1>6
  <2> QED
    BY <1>1, <1>3, <2>1, <2>2
<1>8. ASSUME NEW n \in 1..L
      PROVE  SamplesOfBucket(z, n) = SubSeq(stream, e[n - 1] + 1, e[n])
  <2>1. n - 1 \in 0..L /\ n \in 0..L
    BY <1>1
  <2>2. UpTo(z)[n - 1] = e[n - 1] - e[0] /\ UpTo(z)[n] = e[n] - e[0]
    BY <1>5, <2>1
  <2>3. e[n - 1] \in 0..Len(stream) /\ e[n] \in 0..Len(stream) /\ e[0] \in 0..Len(stream)
    BY <1>1, <1>6, <2>1
  <2>4. e[0] + (e[n - 1] - e[0]) + 1 = e[n - 1] + 1 /\ e[0] + (e[n] - e[0]) = e[n]
    BY <1>1, <2>3
  <2> QED
    BY <1>7, <2>2, <2>4 DEF SamplesOfBucket
<1> QED
  BY <1>7, <1>8

\* The first and the last of a part.
LEMMA EndsOfPart ==
  ASSUME NEW s, Ordered(s), NEW lo \in 0..Len(s), NEW hi \in 0..Len(s), lo < hi
  PROVE  LET p == SubSeq(s, lo + 1, hi)
         IN  p \in Seq(Samples) /\ Len(p) = hi - lo /\ p[1] = s[lo + 1] /\ p[hi - lo] = s[hi]
<1> DEFINE p == SubSeq(s, lo + 1, hi)
<1>1. Len(s) \in Nat /\ \A n \in 1..Len(s) : s[n] \in Samples
  BY OrderedFacts
<1>2. \A i \in (lo + 1)..hi : s[i] \in Samples
  BY <1>1
<1>3. /\ p \in Seq(Samples)
      /\ Len(p) = IF lo + 1 <= hi THEN hi - (lo + 1) + 1 ELSE 0
      /\ \A i \in 1..(hi - (lo + 1) + 1) : p[i] = s[(lo + 1) + i - 1]
  <2>1. lo + 1 \in Int /\ hi \in Int
    BY <1>1
  <2> QED
    BY <1>2, <2>1, SubSeqProperties
<1> HIDE DEF p
<1>4. /\ 1 \in 1..(hi - (lo + 1) + 1) /\ (lo + 1) + 1 - 1 = lo + 1
      /\ hi - lo \in 1..(hi - (lo + 1) + 1) /\ (lo + 1) + (hi - lo) - 1 = hi
      /\ lo + 1 <= hi /\ hi - (lo + 1) + 1 = hi - lo
  BY <1>1
<1> QED
  BY <1>3, <1>4 DEF p

\* Buckets whose sizes and times are those of b.
LEMMA StandsIsSound ==
  ASSUME Ordered(stream), NEW kind, NEW now, NEW Ix, NEW b, NEW e,
         Stands(kind, stream, now, Ix, b, e), Shape!FewOf(Len(b), SizesOf(b)),
         NEW c, DOMAIN c = DOMAIN b, Len(c) = Len(b), SizesOf(c) = SizesOf(b),
         \A n \in DOMAIN c : c[n].min_time = b[n].min_time /\ c[n].max_time = b[n].max_time
  PROVE  /\ RunsAreSound(c, now) /\ KeptFrom(SizesOf(c)) = e[0]
         /\ \A n \in DOMAIN c : /\ HoldsPart(kind, b[n].of, PartOf(c, n))
                                /\ PartOf(c, n) \in Seq(Samples)
                                /\ Len(PartOf(c, n)) = b[n].bucketsize
                                /\ PartOf(c, n) = SubSeq(stream, e[n - 1] + 1, e[n])
<1> DEFINE L == Len(b)
           z == SizesOf(b)
           A == Len(stream)
<1>1. IsSeq(b) /\ Shape!Standing(L, z, e, A)
  BY DEF Stands
<1>2. /\ L \in Nat /\ A \in Nat /\ \A n \in 0..L : e[n] \in 0..A
      /\ \A n \in 1..L : z[n] \in Nat \ {0} /\ e[n] = e[n - 1] + z[n]
  BY <1>1, EndsAreWithin
<1>3. /\ DOMAIN b = 1..L /\ z = [n \in 1..L |-> z[n]]
      /\ \A n \in 1..L : z[n] = b[n].bucketsize
  <2>1. z = [n \in 1..L |-> b[n].bucketsize] /\ \A n \in 1..L : z[n] = b[n].bucketsize
    BY <1>1, SizesAre
  <2>2. DOMAIN b = 1..L
    BY <1>1, SeqFacts
  <2> HIDE DEF z
  <2> QED
    BY <2>1, <2>2
<1>4. /\ KeptFrom(z) = e[0]
      /\ \A n \in 1..L : SamplesOfBucket(z, n) = SubSeq(stream, e[n - 1] + 1, e[n])
  <2>1. Shape!Standing(L, z, e, Len(stream))
    BY <1>1
  <2> HIDE DEF z, L
  <2> QED
    BY <2>1, PartsAre
<1>5. \A n \in 1..L : Holds(kind, stream, b, e, n)
  BY DEF Stands
<1>6. \A n \in 1..e[0] : stream[n].t < now - RunWindow
  BY DEF Stands
<1>7. \A n \in 1..L : PartOf(c, n) = SubSeq(stream, e[n - 1] + 1, e[n])
  BY <1>4 DEF PartOf
<1>8. ASSUME NEW n \in 1..L
      PROVE  /\ PartOf(c, n) \in Seq(Samples) /\ Len(PartOf(c, n)) = z[n]
             /\ PartOf(c, n)[1] = stream[e[n - 1] + 1] /\ PartOf(c, n)[z[n]] = stream[e[n]]
  <2> DEFINE lo == e[n - 1]
             hi == e[n]
  <2> HIDE DEF z, A, L
  <2>1. /\ lo \in 0..A /\ hi \in 0..A /\ hi = lo + z[n] /\ z[n] \in Nat \ {0}
    <3>1. n - 1 \in 0..L /\ n \in 0..L
      BY <1>2
    <3> QED
      BY <1>2, <3>1
  <2> HIDE DEF lo, hi
  <2>2. lo < hi /\ hi - lo = z[n]
    BY <1>2, <2>1
  <2>3. LET p == SubSeq(stream, lo + 1, hi)
        IN  p \in Seq(Samples) /\ Len(p) = hi - lo /\ p[1] = stream[lo + 1] /\ p[hi - lo] = stream[hi]
    BY <2>1, <2>2, EndsOfPart, ZenonT(60) DEF A
  <2> QED
    BY <1>7, <2>2, <2>3 DEF lo, hi
<1>9. ASSUME NEW n \in 1..L
      PROVE  /\ z[n] \in IF n = L THEN {1} ELSE {z[n + 1], 2 * z[n + 1]}
             /\ ~IsTooLong(Cardinality({m \in DOMAIN c : z[m] = z[n]}))
  <2>0. Shape!FewOf(L, z)
    OBVIOUS
  <2>a. DOMAIN c = 1..L
    BY <1>3
  <2> HIDE DEF z, L, A
  <2>b. /\ L > 0 => z[L] = 1
        /\ \A k \in 1..L : k < L => z[k] = z[k + 1] \/ z[k] = 2 * z[k + 1]
    BY <1>1 DEF Shape!Standing
  <2>1. n # L => n < L
    BY <1>2
  <2>3. ~IsTooLong(Cardinality({m \in 1..L : z[m] = z[n]}))
    BY <1>1, <2>0, FewHaveASize
  <2>4. z[n] \in IF n = L THEN {1} ELSE {z[n + 1], 2 * z[n + 1]}
    BY <1>2, <2>b, <2>1
  <2> QED
    BY <2>3, <2>4, <2>a
<1>10. e[0] >= 0
  BY <1>2
<1> HIDE DEF z, L, A
<1>11. RunsAreSound(c, now)
  <2>1. SizesOf(c) = z /\ Len(c) = L /\ DOMAIN c = 1..L
    BY <1>3 DEF z, L
  <2>2. \A n \in 1..L : c[n].min_time = stream[e[n - 1] + 1].t /\ c[n].max_time = stream[e[n]].t
    BY <1>5, <2>1 DEF Holds
  <2>3. /\ KeptFrom(z) >= 0
        /\ \A i \in 1..KeptFrom(z) : stream[i].t < now - RunWindow
    BY <1>4, <1>6, <1>10
  <2>4. ASSUME NEW n \in 1..L
        PROVE  /\ c[n].min_time = PartOf(c, n)[1].t
               /\ c[n].max_time = PartOf(c, n)[z[n]].t
               /\ z[n] \in IF n = L THEN {1} ELSE {z[n + 1], 2 * z[n + 1]}
               /\ ~IsTooLong(Cardinality({m \in DOMAIN c : z[m] = z[n]}))
    BY <1>8, <1>9, <2>2
  <2> QED
    BY <2>1, <2>3, <2>4 DEF RunsAreSound
<1>12. ASSUME NEW n \in DOMAIN c PROVE HoldsPart(kind, b[n].of, PartOf(c, n))
  <2>1. n \in 1..L
    BY <1>3 DEF L
  <2> QED
    BY <1>5, <1>7, <2>1 DEF Holds
<1>13. DOMAIN c = 1..L /\ SizesOf(c) = z
  BY <1>3 DEF L, z
<1> QED
  BY <1>3, <1>4, <1>7, <1>8, <1>11, <1>12, <1>13

\* Some ends fit.
Sound(kind, s, now, Ix, b) ==
  \E e : Stands(kind, s, now, Ix, b, e) /\ Shape!FewOf(Len(b), SizesOf(b))

\* Expiry keeps buckets sound, for a later time and the indices that are left.
LEMMA SoundUnexpired ==
  ASSUME NEW kind \in Kinds, NEW s, Ordered(s), NEW now \in Int, NEW t \in Int, now <= t,
         NEW Ix, NEW b, Sound(kind, s, now, Ix, b)
  PROVE  Sound(kind, s, t, Ix, Unexpired(b, t))
<1>1. PICK e : Stands(kind, s, now, Ix, b, e) /\ Shape!FewOf(Len(b), SizesOf(b))
  BY DEF Sound
<1> DEFINE c == Unexpired(b, t)
<1>2. \E e2 : Stands(kind, s, t, Ix, c, e2) /\ Shape!FewOf(Len(c), SizesOf(c))
  BY <1>1, ExpiryKeeps
<1> HIDE DEF c
<1>3. Sound(kind, s, t, Ix, c)
  BY <1>2 DEF Sound
<1> QED
  BY <1>3 DEF c

\* The new bucket and the joins of the loop keep them sound.
LEMMA SoundWith ==
  ASSUME NEW kind \in Kinds, NEW s, Ordered(s), NEW x \in Samples,
         Len(s) > 0 => s[Len(s)].t <= x.t,
         NEW Ix, NEW Ix2, Ix \subseteq Ix2, NEW b, Sound(kind, s, x.t, Ix, b),
         NEW of, HoldsPart(kind, of, <<x>>),
         kind = "univ" => of = [index |-> of.index, us |-> of.us] /\ of.index \in Ix2 \ Ix
  PROVE  Sound(kind, Append(s, x), x.t, Ix2, JoinRuns(kind, Append(b, RunBucket(x.t, of))))
<1>1. PICK e : Stands(kind, s, x.t, Ix, b, e) /\ Shape!FewOf(Len(b), SizesOf(b))
  BY DEF Sound
<1> DEFINE c == JoinRuns(kind, Append(b, RunBucket(x.t, of)))
<1>2. \E e2 : Stands(kind, Append(s, x), x.t, Ix2, c, e2) /\ Shape!FewOf(Len(c), SizesOf(c))
  BY <1>1, ArrivalKeeps
<1> HIDE DEF c
<1>3. Sound(kind, Append(s, x), x.t, Ix2, c)
  BY <1>2 DEF Sound
<1> QED
  BY <1>3 DEF c

\* Expiry, the new bucket and the joins in one step.
LEMMA SoundAfter ==
  ASSUME NEW kind \in Kinds, kind # "univ", NEW s, Ordered(s), NEW x \in Samples,
         Len(s) > 0 => s[Len(s)].t <= x.t, NEW now \in Int, now <= x.t,
         NEW b, Sound(kind, s, now, {}, b), NEW of, HoldsPart(kind, of, <<x>>)
  PROVE  Sound(kind, Append(s, x), x.t, {},
               JoinRuns(kind, Append(Unexpired(b, x.t), RunBucket(x.t, of))))
<1> DEFINE c == Unexpired(b, x.t)
<1>1. x.t \in Int
  BY DEF Samples
<1>2. Sound(kind, s, x.t, {}, c)
  BY <1>1, SoundUnexpired
<1> HIDE DEF c
<1>3. Sound(kind, Append(s, x), x.t, {}, JoinRuns(kind, Append(c, RunBucket(x.t, of))))
  BY <1>2, SoundWith
<1> QED
  BY <1>3 DEF c

\* No sample yet, no bucket.
LEMMA SoundAtFirst ==
  ASSUME NEW kind, NEW now, NEW Ix
  PROVE  Sound(kind, <<>>, now, Ix, <<>>)
<1> DEFINE z == SizesOf(<<>>)
           e == [n \in 0..0 |-> 0]
<1>1. IsSeq(<<>>) /\ Len(<<>>) = 0
  BY DEF IsSeq
<1>2. z = [n \in 1..0 |-> <<>>[n].bucketsize]
  BY <1>1, SizesAre
<1>3. Shape!Standing(0, z, e, 0)
  <2>1. e \in [0..0 -> Nat] /\ e[0] = 0
    OBVIOUS
  <2>2. z \in [1..0 -> Nat \ {0}]
    <3>1. \A n \in 1..0 : <<>>[n].bucketsize \in Nat \ {0}
      OBVIOUS
    <3> HIDE DEF z
    <3> QED
      BY <1>2, <3>1
  <2> HIDE DEF z, e
  <2> QED
    BY <2>1, <2>2 DEF Shape!Standing
<1>4. Shape!FewOf(0, z)
  BY DEF Shape!FewOf
<1>5. /\ \A n \in 1..0 : Holds(kind, <<>>, <<>>, e, n)
      /\ \A n \in 1..e[0] : <<>>[n].t < now - RunWindow
      /\ Indexed(<<>>, Ix)
  BY <1>1 DEF Indexed
<1> HIDE DEF z, e
<1>6. Stands(kind, <<>>, now, Ix, <<>>, e)
  BY <1>1, <1>3, <1>5 DEF Stands, z
<1> QED
  BY <1>1, <1>4, <1>6 DEF Sound, z

\* The newest time is an integer.
LEMMA NewestIsInt ==
  ASSUME Ordered(stream)
  PROVE  Newest \in Int
<1>1. /\ stream \in Seq(Samples) /\ Len(stream) \in Nat
      /\ \A n \in 1..Len(stream) : stream[n].t \in Int
  BY OrderedFacts
<1>2. CASE Len(stream) > 0
  <2>1. Newest = stream[Len(stream)].t /\ Len(stream) \in 1..Len(stream)
    BY <1>1, <1>2 DEF Newest
  <2> QED
    BY <1>1, <2>1
<1>3. CASE ~(Len(stream) > 0)
  <2>1. stream = <<>>
    BY <1>1, <1>3, EmptySeq
  <2> QED
    BY <2>1 DEF Newest
<1> QED
  BY <1>2, <1>3

\* The next sample of the stream.
LEMMA StreamGrows ==
  ASSUME Ordered(stream), NEW gap \in Gaps, NEW v \in StreamValues, Arrives(Newest + gap, v)
  PROVE  LET x == [t |-> Newest + gap, v |-> v]
         IN  /\ x \in Samples /\ x.t = Newest + gap /\ x.v = v
             /\ stream' = Append(stream, x)
             /\ Newest \in Int /\ Newest <= x.t /\ Newest' = x.t
             /\ Len(stream) > 0 => stream[Len(stream)].t <= x.t
             /\ Ordered(Append(stream, x))
<1> DEFINE x == [t |-> Newest + gap, v |-> v]
<1>1. /\ stream \in Seq(Samples) /\ Len(stream) \in Nat
      /\ \A n \in 1..Len(stream) : stream[n].t \in Int
  BY OrderedFacts
<1>2. gap \in Nat /\ v \in Keys
  BY StreamAssumption, SketchesAssumption
<1>3. Len(stream) > 0 => Newest = stream[Len(stream)].t /\ Len(stream) \in 1..Len(stream)
  BY <1>1 DEF Newest
<1>4. Newest \in Int
  BY NewestIsInt
<1>5. x \in Samples /\ x.t = Newest + gap /\ x.v = v
  BY <1>2, <1>4 DEF Samples
<1>6. Len(stream) > 0 => stream[Len(stream)].t <= x.t
  BY <1>2, <1>3, <1>4, <1>5
<1>7. stream' = Append(stream, x)
  BY DEF Arrives
<1> HIDE DEF x
<1>8. Ordered(Append(stream, x))
  BY <1>5, <1>6, AppendOrdered
<1>9. Newest' = x.t
  <2> DEFINE u == Append(stream, x)
  <2>1. Len(u) = Len(stream) + 1 /\ u[Len(stream) + 1] = x
    BY <1>5, <1>6, AppendOrdered
  <2> HIDE DEF u
  <2>2. u # <<>> /\ u[Len(u)] = x
    BY <1>1, <2>1
  <2>3. stream' = u
    BY <1>7 DEF u
  <2> QED
    BY <2>2, <2>3 DEF Newest
<1>10. Newest <= x.t
  BY <1>2, <1>4, <1>5
<1> QED
  BY <1>4, <1>5, <1>6, <1>7, <1>8, <1>9, <1>10 DEF x

-----------------------------------------------------------------------------
(* The three histograms without a pool *)

RunsInv ==
  /\ Sound("dd", stream, Newest, {}, dd)
  /\ Sound("count", stream, Newest, {}, counts)
  /\ Sound("cs", stream, Newest, {}, css)

\* The invariant of the four histograms of runs holds at first.
LEMMA RunsAtFirst == StreamInit /\ RunInit => RunsInv
BY SoundAtFirst DEF StreamInit, RunInit, RunsInv

\* An Update of these histograms keeps it.
LEMMA RunsKeep ==
  ASSUME RunsInv, Ordered(stream), NEW gap \in Gaps, NEW v \in StreamValues,
         Arrives(Newest + gap, v), RunUpdate(Newest + gap, v)
  PROVE  RunsInv'
<1> DEFINE x == [t |-> Newest + gap, v |-> v]
<1>1. /\ x \in Samples /\ x.t = Newest + gap /\ x.v = v
      /\ stream' = Append(stream, x)
      /\ Len(stream) > 0 => stream[Len(stream)].t <= x.t
      /\ Newest \in Int /\ Newest <= x.t /\ Newest' = x.t
  BY StreamGrows
<1>2. /\ HoldsPart("dd", <<x>>, <<x>>) /\ HoldsPart("count", 1, <<x>>)
      /\ HoldsPart("cs", CSUpdateString(NewCountSketch, v), <<x>>)
  <2>1. IsCountOf(CSUpdateString(NewCountSketch, v), <<x>>)
    BY <1>1, OneIsCounted, SketchesAssumption
  <2>2. Len(<<x>>) = 1
    OBVIOUS
  <2> QED
    BY <2>1, <2>2 DEF HoldsPart
<1>3. /\ dd' = JoinRuns("dd", Append(Unexpired(dd, x.t), RunBucket(x.t, <<x>>)))
      /\ counts' = JoinRuns("count", Append(Unexpired(counts, x.t), RunBucket(x.t, 1)))
      /\ css' = JoinRuns("cs", Append(Unexpired(css, x.t),
                                      RunBucket(x.t, CSUpdateString(NewCountSketch, v))))
  BY DEF RunUpdate, DDUpdate, CountUpdate, CSRunUpdate
<1> HIDE DEF x
<1>4. /\ "dd" \in Kinds /\ "count" \in Kinds /\ "cs" \in Kinds
      /\ "dd" # "univ" /\ "count" # "univ" /\ "cs" # "univ"
  BY DEF Kinds
<1>5. Sound("dd", stream', Newest', {}, dd')
  <2>1. Sound("dd", stream, Newest, {}, dd)
    BY DEF RunsInv
  <2> QED
    BY <1>1, <1>2, <1>3, <1>4, <2>1, SoundAfter
<1>6. Sound("count", stream', Newest', {}, counts')
  <2>1. Sound("count", stream, Newest, {}, counts)
    BY DEF RunsInv
  <2> QED
    BY <1>1, <1>2, <1>3, <1>4, <2>1, SoundAfter
<1>7. Sound("cs", stream', Newest', {}, css')
  <2>1. Sound("cs", stream, Newest, {}, css)
    BY DEF RunsInv
  <2> QED
    BY <1>1, <1>2, <1>3, <1>4, <2>1, SoundAfter
<1> QED
  BY <1>5, <1>6, <1>7 DEF RunsInv

\* Buckets reach back to every sample of the window.
LEMMA WindowIsCovered ==
  ASSUME Ordered(stream), NEW kind, NEW Ix, NEW b, NEW e,
         Stands(kind, stream, stream[Len(stream)].t, Ix, b, e), NEW i \in 1..Len(stream), stream[i].t >= stream[Len(stream)].t - RunWindow
  PROVE  CoverByBucket(b, stream[i].t)
<1> DEFINE A == Len(stream)
           L == Len(b)
<1>1. /\ A \in Nat /\ \A n \in 1..A : stream[n].t \in Int
      /\ \A m, n \in 1..A : m <= n => stream[m].t <= stream[n].t
  BY OrderedFacts DEF Ordered
<1>2. /\ IsSeq(b) /\ Shape!Standing(L, SizesOf(b), e, A)
      /\ \A n \in 1..L : Holds(kind, stream, b, e, n)
      /\ \A n \in 1..e[0] : stream[n].t < stream[A].t - RunWindow
  BY DEF Stands
<1>3. /\ L \in Nat /\ \A n \in 0..L : e[n] \in 0..A
      /\ \A n \in 1..L : SizesOf(b)[n] \in Nat \ {0} /\ e[n] = e[n - 1] + SizesOf(b)[n]
  BY <1>2, EndsAreWithin
<1>4. e[L] = A
  BY <1>2 DEF Shape!Standing
<1>5. ASSUME NEW n \in 1..A, n <= e[0] PROVE stream[n].t < stream[A].t - RunWindow
  <2>1. n \in 1..e[0]
    BY <1>3, <1>5
  <2> QED
    BY <1>2, <2>1
<1> HIDE DEF A
<1>6. A \in 1..A /\ RunWindow \in Nat
  BY <1>1, RunAssumption DEF A
<1>7. L # 0
  <2> SUFFICES ASSUME L = 0 PROVE FALSE
    OBVIOUS
  <2>1. stream[A].t < stream[A].t - RunWindow
    BY <1>1, <1>4, <1>5, <1>6
  <2> QED
    BY <1>1, <1>6, <2>1
<1>8. e[0] < i
  <2> SUFFICES ASSUME ~(e[0] < i) PROVE FALSE
    OBVIOUS
  <2>1. e[0] \in 0..A /\ i \in 1..A
    BY <1>3 DEF A
  <2>2. stream[i].t < stream[A].t - RunWindow
    BY <1>5, <2>1
  <2> QED
    BY <1>1, <1>6, <2>1, <2>2 DEF A
<1>9. /\ b[1].min_time = stream[e[0] + 1].t /\ e[0] + 1 \in 1..A /\ e[0] + 1 <= i
  <2>1. 1 \in 1..L /\ 0 \in 0..L
    BY <1>3, <1>7
  <2>2. b[1].min_time = stream[e[1 - 1] + 1].t
    BY <1>2, <2>1 DEF Holds
  <2>3. e[0] \in 0..A /\ i \in 1..A
    BY <1>3, <2>1 DEF A
  <2> QED
    BY <1>1, <1>8, <2>2, <2>3
<1>10. b[1].min_time <= stream[i].t
  BY <1>1, <1>9 DEF A
<1>11. b # <<>>
  BY <1>7
<1> QED
  BY <1>10, <1>11 DEF CoverByBucket

\* What the sizes of b say of a bucket.
LEMMA RunsAreRight ==
  ASSUME Ordered(stream), RunsInv
  PROVE  RunsHoldTheWindow
<1>1. ASSUME NEW kind, NEW b, Sound(kind, stream, Newest, {}, b)
      PROVE  /\ RunsAreSound(b, Newest)
             /\ \A i \in DOMAIN b : /\ HoldsPart(kind, b[i].of, PartOf(b, i))
                                    /\ PartOf(b, i) \in Seq(Samples)
                                    /\ Len(PartOf(b, i)) = b[i].bucketsize
  <2>1. PICK e : Stands(kind, stream, Newest, {}, b, e) /\ Shape!FewOf(Len(b), SizesOf(b))
    BY <1>1 DEF Sound
  <2> QED
    BY <2>1, StandsIsSound
<1>2. /\ Sound("dd", stream, Newest, {}, dd) /\ Sound("count", stream, Newest, {}, counts)
      /\ Sound("cs", stream, Newest, {}, css)
  BY DEF RunsInv
<1>3. ASSUME NEW i \in DOMAIN dd PROVE dd[i].of = PartOf(dd, i)
  BY <1>1, <1>2 DEF HoldsPart
<1>4. ASSUME NEW i \in DOMAIN counts PROVE counts[i].of = counts[i].bucketsize
  BY <1>1, <1>2 DEF HoldsPart
<1>5. ASSUME NEW i \in DOMAIN css, NEW key \in Keys, IsClean(key)
      PROVE  EstimateStringCount(css[i].of, key) = HowMany(PartOf(css, i), key)
  <2>1. IsCountOf(css[i].of, PartOf(css, i)) /\ PartOf(css, i) \in Seq(Samples)
    BY <1>1, <1>2 DEF HoldsPart
  <2> QED
    BY <1>5, <2>1, CleanIsExact DEF IsCountOf
<1>6. ASSUME NEW i \in DOMAIN stream, CoverByWindow(dd, stream[i].t)
      PROVE  CoverByBucket(dd, stream[i].t) /\ CoverByBucket(css, stream[i].t)
  <2>1. /\ DOMAIN stream = 1..Len(stream) /\ Len(stream) \in Nat
        /\ \A n \in 1..Len(stream) : stream[n].t \in Int
    BY OrderedFacts
  <2>2. Newest = stream[Len(stream)].t
    <3>1. stream # <<>>
      BY <1>6
    <3> QED
      BY <3>1 DEF Newest
  <2>3. PICK e : Stands("dd", stream, stream[Len(stream)].t, {}, dd, e)
    BY <1>2, <2>2 DEF Sound
  <2>4. PICK d : Stands("cs", stream, stream[Len(stream)].t, {}, css, d)
    BY <1>2, <2>2 DEF Sound
  <2>5. dd[Len(dd)].max_time = stream[Len(stream)].t
    <3>1. /\ IsSeq(dd) /\ Shape!Standing(Len(dd), SizesOf(dd), e, Len(stream))
          /\ \A n \in 1..Len(dd) : Holds("dd", stream, dd, e, n)
      BY <2>3 DEF Stands
    <3>2. Len(dd) \in Nat /\ Len(dd) # 0
      <4>1. Len(dd) \in Nat
        BY <3>1, EndsAreWithin
      <4>2. dd # <<>>
        BY <1>6 DEF CoverByWindow
      <4>3. Len(dd) # 0
        BY <3>1, <4>2, EmptySeq DEF IsSeq
      <4> QED
        BY <4>1, <4>3
    <3>3. e[Len(dd)] = Len(stream)
      BY <3>1 DEF Shape!Standing
    <3> QED
      BY <3>1, <3>2, <3>3 DEF Holds
  <2>6. stream[i].t >= stream[Len(stream)].t - RunWindow
    BY <1>6, <2>5 DEF CoverByWindow
  <2> QED
    BY <2>1, <2>3, <2>4, <2>6, WindowIsCovered
<1> QED
  BY <1>1, <1>2, <1>3, <1>4, <1>5, <1>6 DEF RunsHoldTheWindow

-----------------------------------------------------------------------------
(* The histogram whose sketches come from the pool *)

\* Buckets with the fields of b, at least, and the same in them.
LEMMA StandsLike ==
  ASSUME NEW kind, NEW s, NEW now, NEW Ix, NEW Ix2, NEW b, NEW e, Stands(kind, s, now, Ix, b, e),
         Shape!FewOf(Len(b), SizesOf(b)),
         NEW c, IsSeq(c), Len(c) = Len(b),
         \A n \in 1..Len(b) : /\ DOMAIN c[n] = DOMAIN b[n] /\ c[n].bucketsize = b[n].bucketsize
                              /\ c[n].min_time = b[n].min_time /\ c[n].max_time = b[n].max_time
                              /\ c[n].of = b[n].of
                              /\ kind = "univ" => b[n].of.index \in Ix2
  PROVE  Sound(kind, s, now, Ix2, c)
<1>1. IsSeq(b) /\ Shape!Standing(Len(b), SizesOf(b), e, Len(s))
  BY DEF Stands
<1>2. SizesOf(c) = SizesOf(b)
  <2>1. /\ SizesOf(c) = [n \in 1..Len(c) |-> c[n].bucketsize]
        /\ SizesOf(b) = [n \in 1..Len(b) |-> b[n].bucketsize]
    BY <1>1, SizesAre
  <2> QED
    BY <2>1
<1>3. \A n \in 1..Len(c) : Holds(kind, s, c, e, n)
  BY DEF Stands, Holds
<1>4. kind = "univ" => Indexed(c, Ix2)
  <2> SUFFICES ASSUME kind = "univ" PROVE Indexed(c, Ix2)
    OBVIOUS
  <2>1. Indexed(b, Ix)
    BY DEF Stands
  <2> QED
    BY <2>1 DEF Indexed
<1>5. \A n \in 1..e[0] : s[n].t < now - RunWindow
  BY DEF Stands
<1>6. Stands(kind, s, now, Ix2, c, e)
  BY <1>1, <1>2, <1>3, <1>4, <1>5 DEF Stands
<1> QED
  BY <1>2, <1>6 DEF Sound

Loaded(h, p) == [n \in DOMAIN h |-> [h[n] EXCEPT !.of = [index |-> @, us |-> p[@]]]]
IndicesOf(h) == {h[n].of : n \in DOMAIN h}

\* The time by which buckets have expired: that of an Update under way is in the future.
ExpiredAt == IF adding = <<>> THEN Newest ELSE adding[1].t

PoolInv ==
  /\ Sound("univ", stream, ExpiredAt, IndicesOf(held), Loaded(held, pool))
  /\ held = [n \in DOMAIN held |-> held[n]]
  /\ bm = IndicesOf(held) \cup toclean /\ IndicesOf(held) \cap toclean = {}
  /\ bm \subseteq DOMAIN pool /\ \E m \in Nat : DOMAIN pool = 0..m
  /\ \A i \in DOMAIN pool \ bm : Free(pool[i]) = pool[i]

\* A free sketch is freed already, freeing twice is freeing once.
LEMMA FreeFacts ==
  /\ Free(NewUnivSketchPyramid) = NewUnivSketchPyramid
  /\ \A us : Free(Free(us)) = Free(us)
<1>1. Free(NewUnivSketchPyramid) = NewUnivSketchPyramid
  BY DEF Free, NewUnivSketchPyramid
<1>2. ASSUME NEW us PROVE Free(Free(us)) = Free(us)
  <2>1. Free(us).min_time = us.min_time /\ Free(us).max_time = us.max_time
    BY DEF Free, NewUnivSketchPyramid
  <2> QED
    BY <2>1 DEF Free
<1> QED
  BY <1>1, <1>2

\* A bucket whose sketch is exchanged keeps its other fields.
LEMMA WithAnotherOf ==
  ASSUME NEW w, NEW y
  PROVE  /\ DOMAIN [w EXCEPT !.of = y] = DOMAIN w
         /\ "of" \in DOMAIN w => [w EXCEPT !.of = y].of = y
         /\ \A f \in DOMAIN w : f # "of" => [w EXCEPT !.of = y][f] = w[f]
OBVIOUS

\* What the buckets are, seen through the pool.
LEMMA LoadedIs ==
  ASSUME NEW h, NEW p, NEW now, NEW Ix, NEW e, Stands("univ", stream, now, Ix, Loaded(h, p), e)
  PROVE  LET b == Loaded(h, p)
         IN  /\ DOMAIN h = 1..Len(b) /\ DOMAIN b = 1..Len(b) /\ Len(b) \in Nat
             /\ \A n \in 1..Len(b) :
                  /\ DOMAIN h[n] = {"min_time", "max_time", "bucketsize", "of"}
                  /\ DOMAIN b[n] = DOMAIN h[n] /\ b[n].bucketsize = h[n].bucketsize
                  /\ b[n].min_time = h[n].min_time /\ b[n].max_time = h[n].max_time
                  /\ b[n].of.index = h[n].of /\ b[n].of.us = p[h[n].of]
             /\ \A n, m \in 1..Len(b) : h[n].of = h[m].of => n = m
<1> DEFINE b == Loaded(h, p)
<1>1. /\ IsSeq(b) /\ \A n \in 1..Len(b) : Holds("univ", stream, b, e, n)
      /\ Indexed(b, Ix)
  BY DEF Stands
<1>2. Len(b) \in Nat /\ DOMAIN b = 1..Len(b)
  BY <1>1, SeqFacts
<1>3. DOMAIN b = DOMAIN h
  BY DEF Loaded
<1>4. \A n \in 1..Len(b) : b[n] = [h[n] EXCEPT !.of = [index |-> @, us |-> p[@]]]
  BY <1>2, <1>3 DEF Loaded
<1>5. \A n \in 1..Len(b) : DOMAIN b[n] = {"min_time", "max_time", "bucketsize", "of"}
  BY <1>1 DEF Holds
<1> HIDE DEF b
<1>6. ASSUME NEW n \in 1..Len(b)
      PROVE  /\ DOMAIN h[n] = {"min_time", "max_time", "bucketsize", "of"}
             /\ DOMAIN b[n] = DOMAIN h[n] /\ b[n].bucketsize = h[n].bucketsize
             /\ b[n].min_time = h[n].min_time /\ b[n].max_time = h[n].max_time
             /\ b[n].of.index = h[n].of /\ b[n].of.us = p[h[n].of]
  <2> DEFINE y == [index |-> h[n].of, us |-> p[h[n].of]]
  <2>1. b[n] = [h[n] EXCEPT !.of = y]
    BY <1>4
  <2>2. y.index = h[n].of /\ y.us = p[h[n].of]
    OBVIOUS
  <2> HIDE DEF y
  <2>3. /\ DOMAIN b[n] = DOMAIN h[n]
        /\ "of" \in DOMAIN h[n] => b[n].of = y
        /\ \A f \in DOMAIN h[n] : f # "of" => b[n][f] = h[n][f]
    BY <2>1, WithAnotherOf
  <2>4. DOMAIN h[n] = {"min_time", "max_time", "bucketsize", "of"}
    BY <1>5, <2>3
  <2> QED
    BY <2>2, <2>3, <2>4
<1>7. \A n, m \in 1..Len(b) : h[n].of = h[m].of => n = m
  BY <1>1, <1>6 DEF Indexed
<1> QED
  BY <1>2, <1>3, <1>6, <1>7 DEF b

\* So too of the buckets that the invariant is about.
LEMMA HeldIs ==
  ASSUME PoolInv
  PROVE  LET b == Loaded(held, pool)
         IN  /\ IsSeq(held) /\ IsSeq(b) /\ Len(held) = Len(b) /\ Len(b) \in Nat
             /\ DOMAIN held = 1..Len(b) /\ DOMAIN b = 1..Len(b)
             /\ \A n \in 1..Len(b) :
                  /\ b[n].bucketsize = held[n].bucketsize
                  /\ b[n].min_time = held[n].min_time /\ b[n].max_time = held[n].max_time
                  /\ b[n].of.index = held[n].of /\ b[n].of.us = pool[held[n].of]
             /\ \A n, m \in 1..Len(b) : held[n].of = held[m].of => n = m
<1> DEFINE b == Loaded(held, pool)
           L == Len(b)
<1>1. PICK e : Stands("univ", stream, ExpiredAt, IndicesOf(held), b, e)
  BY DEF PoolInv, Sound
<1>2. /\ DOMAIN held = 1..L /\ DOMAIN b = 1..L /\ L \in Nat
      /\ \A n \in 1..L :
           /\ b[n].bucketsize = held[n].bucketsize
           /\ b[n].min_time = held[n].min_time /\ b[n].max_time = held[n].max_time
           /\ b[n].of.index = held[n].of /\ b[n].of.us = pool[held[n].of]
      /\ \A n, m \in 1..L : held[n].of = held[m].of => n = m
  BY <1>1, LoadedIs
<1>3. IsSeq(b)
  BY <1>1 DEF Stands
<1>4. held = [n \in DOMAIN held |-> held[n]]
  BY DEF PoolInv
<1> HIDE DEF b
<1>5. IsSeq(held) /\ Len(held) = L
  <2>1. held \in [1..L -> Range(held)]
    BY <1>2, <1>4 DEF Range
  <2>2. Seq(Range(held)) = UNION {[1..n -> Range(held)] : n \in Nat}
    BY SeqDef
  <2>3. held \in Seq(Range(held))
    BY <1>2, <2>1, <2>2
  <2> QED
    BY <1>2, <2>3, LenProperties DEF IsSeq
<1> QED
  BY <1>2, <1>3, <1>5 DEF b

\* The invariant of the pool holds at first.
LEMMA PoolAtFirst == StreamInit /\ PoolInit => PoolInv
<1> SUFFICES ASSUME StreamInit, PoolInit PROVE PoolInv
  OBVIOUS
<1>1. /\ stream = <<>> /\ held = <<>> /\ bm = {} /\ toclean = {}
      /\ pool = [i \in 0..UnivPoolCAP - 1 |-> NewUnivSketchPyramid]
  BY DEF StreamInit, PoolInit
<1>2. Loaded(<<>>, pool) = <<>> /\ IndicesOf(<<>>) = {}
  BY DEF Loaded, IndicesOf
<1>3. UnivPoolCAP - 1 \in Nat /\ DOMAIN pool = 0..UnivPoolCAP - 1
  BY <1>1, RunAssumption
<1>4. \A i \in DOMAIN pool : Free(pool[i]) = pool[i]
  BY <1>1, FreeFacts
<1>5. held = [n \in DOMAIN held |-> held[n]]
  BY <1>1
<1> QED
  BY <1>1, <1>2, <1>3, <1>4, <1>5, SoundAtFirst DEF PoolInv

\* The bitmap begins with some indices in use; without others their number is the size.
LEMMA FirstIndices ==
  ASSUME NEW m \in Nat, bm \subseteq 0..m
  PROVE  \E i \in 0..(m + 1) : /\ i \notin bm /\ \A j \in 0..(i - 1) : j \in bm
                               /\ (\A j \in bm : j < i) => Cardinality(bm) = i
<1> DEFINE Out == {i \in 0..(m + 1) : i \notin bm}
<1>1. m + 1 \in Out /\ Out \in SUBSET Nat
  OBVIOUS
<1>2. PICK i \in Out : \A j \in Out : i <= j
  <2> HIDE DEF Out
  <2> QED
    BY <1>1, SmallestNat
<1>3. i \in 0..(m + 1) /\ i \notin bm
  BY <1>2
<1>4. ASSUME NEW j \in 0..(i - 1) PROVE j \in bm
  <2>1. j \in 0..(m + 1) /\ ~(i <= j)
    BY <1>3
  <2> QED
    BY <1>2, <2>1
<1>5. ASSUME \A j \in bm : j < i PROVE Cardinality(bm) = i
  <2>1. bm = 0..(i - 1)
    <3>1. ASSUME NEW j \in bm PROVE j \in 0..(i - 1)
      <4>1. j \in 0..m /\ j < i
        BY <1>5
      <4> QED
        BY <1>3, <4>1
    <3> QED
      BY <1>4, <3>1
  <2>2. Cardinality(0..(i - 1)) = IF 0 > i - 1 THEN 0 ELSE (i - 1) - 0 + 1
    BY <1>3, FS_Interval
  <2> QED
    BY <1>3, <2>1, <2>2
<1> QED
  BY <1>3, <1>4, <1>5

\* The pool hands out an index that is not in use, of its own or the next one.
LEMMA GapExists ==
  ASSUME NEW m \in Nat, DOMAIN pool = 0..m, bm \subseteq 0..m
  PROVE  GetUnivSketch \in 0..(m + 1) /\ GetUnivSketch \notin bm
<1> DEFINE ends == {i \in DOMAIN pool \ bm : i + 1 \in bm}
           g == GetUnivSketch
<1>1. CASE 0 \notin bm
  <2>1. g = 0
    BY <1>1 DEF GetUnivSketch
  <2> QED
    BY <1>1, <2>1
<1>2. CASE 0 \in bm /\ ends # {}
  <2>1. g = CHOOSE i \in ends : \A j \in ends : i <= j
    BY <1>2 DEF GetUnivSketch
  <2>2. \E i \in ends : \A j \in ends : i <= j
    <3>1. ends \in SUBSET Nat
      OBVIOUS
    <3> HIDE DEF ends
    <3> QED
      BY <1>2, <3>1, SmallestNat
  <2>3. g \in ends
    <3> HIDE DEF ends, g
    <3> QED
      BY <2>1, <2>2
  <2>4. g \in 0..m /\ g \notin bm
    BY <2>3
  <2> HIDE DEF g
  <2> QED
    BY <2>4 DEF g
<1>3. CASE 0 \in bm /\ ends = {}
  <2>1. g = Cardinality(bm)
    BY <1>3 DEF GetUnivSketch
  <2>2. PICK i \in 0..(m + 1) : /\ i \notin bm /\ \A j \in 0..(i - 1) : j \in bm
                                /\ (\A j \in bm : j < i) => Cardinality(bm) = i
    BY FirstIndices
  \* What is in use beyond the gap begins after the end of a gap.
  <2>3. ASSUME NEW j \in bm, ~(j < i) PROVE FALSE
    <3> DEFINE Beyond == {k \in bm : i < k}
    <3>1. j \in Beyond /\ Beyond \in SUBSET Nat
      <4>1. j \in 0..m /\ j \in bm /\ j # i
        BY <2>2, <2>3
      <4>2. i < j
        BY <2>3, <4>1
      <4>3. \A k \in bm : k \in Nat
        OBVIOUS
      <4> QED
        BY <4>1, <4>2, <4>3
    <3>2. PICK k \in Beyond : \A l \in Beyond : k <= l
      <4> HIDE DEF Beyond
      <4> QED
        BY <3>1, SmallestNat
    <3>3. k \in bm /\ i < k /\ k \in 0..m
      BY <3>2
    <3>4. k - 1 \in 0..m /\ (k - 1) + 1 = k /\ ~(k <= k - 1) /\ (k - 1 = i \/ i < k - 1)
      BY <3>3
    <3>5. k - 1 \notin bm
      BY <2>2, <3>2, <3>4
    <3>6. k - 1 \in ends
      BY <3>3, <3>4, <3>5
    <3> QED
      BY <1>3, <3>6
  <2> HIDE DEF g
  <2> QED
    BY <2>1, <2>2, <2>3 DEF g
<1> QED
  BY <1>1, <1>2, <1>3

\* The pool with the sketch of the gap: as before, but perhaps one longer.
LEMMA GrownPool ==
  ASSUME PoolInv
  PROVE  LET g == GetUnivSketch
             grown == PoolWith(g)
         IN  /\ g \in DOMAIN grown /\ g \notin bm
             /\ bm \subseteq DOMAIN grown /\ \E m \in Nat : DOMAIN grown = 0..m
             /\ \A i \in bm : grown[i] = pool[i]
             /\ \A i \in DOMAIN grown \ bm : Free(grown[i]) = grown[i]
<1> DEFINE g == GetUnivSketch
           grown == PoolWith(g)
<1>1. PICK m \in Nat : DOMAIN pool = 0..m
  BY DEF PoolInv
<1>2. bm \subseteq 0..m /\ \A i \in DOMAIN pool \ bm : Free(pool[i]) = pool[i]
  BY <1>1 DEF PoolInv
<1>3. g \in 0..(m + 1) /\ g \notin bm
  BY <1>1, <1>2, GapExists
<1> HIDE DEF g
<1>4. CASE g \in DOMAIN pool
  <2>1. grown = pool
    BY <1>4 DEF PoolWith
  <2> QED
    BY <1>1, <1>2, <1>3, <1>4, <2>1 DEF g
<1>5. CASE g \notin DOMAIN pool
  <2>1. g = m + 1 /\ g \in Nat
    BY <1>1, <1>3, <1>5
  <2>2. grown = [j \in 0..g |-> IF j = g THEN NewUnivSketchPyramid ELSE pool[j]]
    BY <1>5 DEF PoolWith
  <2> HIDE DEF grown
  <2>3. /\ DOMAIN grown = 0..g /\ g \in 0..g /\ grown[g] = NewUnivSketchPyramid
        /\ \A i \in 0..m : i \in 0..g /\ grown[i] = pool[i]
    BY <2>1, <2>2
  <2>4. \A i \in 0..g \ bm : Free(grown[i]) = grown[i]
    <3>1. ASSUME NEW i \in 0..g \ bm PROVE Free(grown[i]) = grown[i]
      <4>1. i = g \/ i \in 0..m
        BY <2>1
      <4> QED
        BY <1>1, <1>2, <2>3, <4>1, FreeFacts
    <3> QED
      BY <3>1
  <2> QED
    BY <1>2, <1>3, <2>1, <2>3, <2>4 DEF g, grown
<1> QED
  BY <1>4, <1>5

\* The indices of buckets.
LEMMA IndicesAre == ASSUME NEW h PROVE Indices(h) = IndicesOf(h)
BY DEF Indices, IndicesOf, Range

\* Expiry gives back the sketches of the buckets it removes, and no other.
LEMMA ExpiredKeep ==
  ASSUME PoolInv, Ordered(stream), NEW gap \in Gaps, NEW v,
         PutExpired(Newest + gap, v), stream' = stream
  PROVE  PoolInv'
<1> DEFINE t == Newest + gap
           b == Loaded(held, pool)
           L == Len(b)
           h == Unexpired(held, t)
           c == Unexpired(b, t)
           r == Expired(b, t)
           N == L - r
<1>1. /\ adding = <<>> /\ adding' = <<[t |-> t, v |-> v]>> /\ held' = h
      /\ toclean' = toclean \cup (Indices(held) \ Indices(h))
      /\ pool' = pool /\ bm' = bm
  BY DEF PutExpired
<1>2. Newest \in Int /\ t \in Int /\ Newest <= t
  BY NewestIsInt, StreamAssumption
<1>3. ExpiredAt = Newest /\ ExpiredAt' = t
  BY <1>1 DEF ExpiredAt
<1>4. /\ IsSeq(held) /\ IsSeq(b) /\ Len(held) = L /\ L \in Nat
      /\ DOMAIN held = 1..L /\ DOMAIN b = 1..L
      /\ \A n \in 1..L : b[n].max_time = held[n].max_time /\ b[n].of.index = held[n].of
  BY HeldIs
<1>5. b = [n \in DOMAIN held |-> [held[n] EXCEPT !.of = [index |-> @, us |-> pool[@]]]]
  BY DEF Loaded
<1>6. /\ bm = IndicesOf(held) \cup toclean /\ IndicesOf(held) \cap toclean = {}
      /\ bm \subseteq DOMAIN pool /\ \E m \in Nat : DOMAIN pool = 0..m
      /\ \A i \in DOMAIN pool \ bm : Free(pool[i]) = pool[i]
      /\ Sound("univ", stream, Newest, IndicesOf(held), b)
  BY <1>3 DEF PoolInv
<1> HIDE DEF t, b, L
<1>7. Expired(held, t) = r
  <2>1. ASSUME NEW i \in 1..L
        PROVE  (\A j \in 1..i : held[j].max_time < t - RunWindow)
                 <=> (\A j \in 1..i : b[j].max_time < t - RunWindow)
    <3>1. \A j \in 1..i : j \in 1..L
      BY <1>4
    <3> QED
      BY <1>4, <3>1
  <2> QED
    BY <1>4, <2>1 DEF Expired
<1>8. /\ r \in 0..L /\ IsSeq(c) /\ Len(c) = N /\ \A m \in 1..N : c[m] = b[r + m]
      /\ IsSeq(h) /\ Len(h) = N /\ \A m \in 1..N : h[m] = held[r + m]
  <2>1. r \in 0..L /\ IsSeq(c) /\ Len(c) = N /\ \A m \in 1..N : c[m] = b[r + m]
    <3>1. L = Len(b) /\ IsSeq(b)
      BY <1>4 DEF L
    <3> QED
      BY <3>1, UnexpiredIs
  <2>2. IsSeq(h) /\ Len(h) = N /\ \A m \in 1..N : h[m] = held[r + m]
    BY <1>4, <1>7, UnexpiredIs
  <2> QED
    BY <2>1, <2>2
<1>9. Sound("univ", stream, t, IndicesOf(held), c)
  <2>1. "univ" \in Kinds
    BY DEF Kinds
  <2> QED
    BY <1>2, <1>6, <2>1, SoundUnexpired
<1> HIDE DEF c, h, r
<1>10. N \in Nat /\ \A m \in 1..N : r + m \in 1..L
  BY <1>4, <1>8
<1> HIDE DEF N
<1>11. /\ DOMAIN c = 1..N /\ c = [m \in 1..N |-> c[m]]
       /\ DOMAIN h = 1..N /\ h = [m \in 1..N |-> h[m]]
  BY <1>8, SeqFacts
<1>12. Loaded(h, pool) = c
  <2>1. \A m \in 1..N : c[m] = [h[m] EXCEPT !.of = [index |-> @, us |-> pool[@]]]
    BY <1>4, <1>5, <1>8, <1>10
  <2> QED
    BY <1>11, <2>1 DEF Loaded
<1>13. ASSUME NEW m \in 1..N PROVE c[m].of.index = h[m].of /\ h[m].of \in IndicesOf(h)
  BY <1>4, <1>8, <1>10, <1>11 DEF IndicesOf
<1>14. Sound("univ", stream, t, IndicesOf(h), c)
  <2>1. PICK e : /\ Stands("univ", stream, t, IndicesOf(held), c, e)
                 /\ Shape!FewOf(Len(c), SizesOf(c))
    BY <1>9 DEF Sound
  <2>2. \A m \in 1..Len(c) : "univ" = "univ" => c[m].of.index \in IndicesOf(h)
    BY <1>8, <1>13
  <2> QED
    BY <1>8, <2>1, <2>2, StandsLike
<1>15. IndicesOf(h) \subseteq IndicesOf(held)
  <2>1. \A m \in 1..N : h[m].of \in IndicesOf(held)
    BY <1>4, <1>8, <1>10 DEF IndicesOf
  <2> QED
    BY <1>11, <2>1 DEF IndicesOf
<1>16. /\ toclean' = toclean \cup (IndicesOf(held) \ IndicesOf(h))
       /\ IndicesOf(held)' = IndicesOf(h)
  BY <1>1, IndicesAre DEF IndicesOf
<1>17. bm' = IndicesOf(held)' \cup toclean' /\ IndicesOf(held)' \cap toclean' = {}
  BY <1>1, <1>6, <1>15, <1>16
<1>18. Sound("univ", stream, ExpiredAt, IndicesOf(held), Loaded(held, pool))'
  BY <1>1, <1>3, <1>12, <1>14, <1>16
<1>19. (held = [n \in DOMAIN held |-> held[n]])'
  BY <1>1, <1>11
<1> QED
  BY <1>1, <1>6, <1>17, <1>18, <1>19 DEF PoolInv

\* What PutJoined leaves in the pool, the bitmap and the channel.
LEMMA PutJoinedKeeps ==
  ASSUME PoolInv, NEW s, NEW grown, NEW g \in DOMAIN grown, g \notin bm,
         bm \subseteq DOMAIN grown, \E m \in Nat : DOMAIN grown = 0..m,
         \A i \in DOMAIN grown \ (bm \cup {g}) : Free(grown[i]) = grown[i],
         NEW now, NEW after, Sound("univ", s, now, IndicesOf(held) \cup {g}, after),
         stream' = s, ExpiredAt' = now, PutJoined(grown, g, after)
  PROVE  PoolInv'
<1> DEFINE kept == {b.of.index : b \in Range(after)}
           Taken == IndicesOf(held)
           L == Len(after)
<1>1. PICK e : /\ Stands("univ", s, now, Taken \cup {g}, after, e)
               /\ Shape!FewOf(Len(after), SizesOf(after))
  BY DEF Sound
<1>2. /\ IsSeq(after) /\ \A n \in 1..L : Holds("univ", s, after, e, n)
      /\ Indexed(after, Taken \cup {g})
  BY <1>1 DEF Stands
<1>3. L \in Nat /\ DOMAIN after = 1..L
  BY <1>2, SeqFacts
<1>4. /\ \A n \in 1..L : /\ after[n].of = [index |-> after[n].of.index, us |-> after[n].of.us]
                         /\ after[n].of.index \in Taken \cup {g}
      /\ \A n, m \in 1..L : after[n].of.index = after[m].of.index => n = m
  BY <1>2 DEF Indexed
<1>5. kept = {after[n].of.index : n \in 1..L}
  BY <1>3 DEF Range
<1>6. /\ held' = [n \in DOMAIN after |-> [after[n] EXCEPT !.of = @.index]]
      /\ pool' = [i \in DOMAIN grown |->
                    IF i \in kept THEN (CHOOSE b \in Range(after) : b.of.index = i).of.us
                    ELSE grown[i]]
      /\ bm' = bm \cup {g}
      /\ toclean' = toclean \cup ((Indices(held) \cup {g}) \ kept)
  BY DEF PutJoined
<1>7. /\ bm = Taken \cup toclean /\ Taken \cap toclean = {}
      /\ \A i \in DOMAIN pool \ bm : Free(pool[i]) = pool[i]
  BY DEF PoolInv
<1>8. Indices(held) = Taken
  BY IndicesAre
<1>9. ASSUME NEW n \in 1..L
      PROVE  /\ DOMAIN after[n] = {"min_time", "max_time", "bucketsize", "of"}
             /\ DOMAIN held'[n] = DOMAIN after[n] /\ held'[n].of = after[n].of.index
             /\ \A f \in DOMAIN after[n] : f # "of" => held'[n][f] = after[n][f]
  <2>1. held'[n] = [after[n] EXCEPT !.of = after[n].of.index]
    BY <1>3, <1>6
  <2>2. DOMAIN after[n] = {"min_time", "max_time", "bucketsize", "of"}
    BY <1>2 DEF Holds
  <2>3. "of" \in DOMAIN after[n]
    BY <2>2
  <2> QED
    BY <2>1, <2>2, <2>3, WithAnotherOf
<1>10. DOMAIN held' = 1..L
  BY <1>3, <1>6
<1>11. IndicesOf(held)' = kept /\ held' = [n \in DOMAIN held' |-> held'[n]]
  <2>1. held' = [n \in DOMAIN held' |-> held'[n]]
    BY <1>6
  <2>2. IndicesOf(held)' = {held'[n].of : n \in 1..L}
    BY <1>10 DEF IndicesOf
  <2>3. \A n \in 1..L : held'[n].of = after[n].of.index
    BY <1>9
  <2> HIDE DEF kept, L
  <2>4. {held'[n].of : n \in 1..L} = kept
    BY <1>5, <2>3
  <2> QED
    BY <2>1, <2>2, <2>4
<1>12. ASSUME NEW n \in 1..L PROVE pool'[after[n].of.index] = after[n].of.us
  <2> DEFINE i == after[n].of.index
             b == CHOOSE b \in Range(after) : b.of.index = i
  <2>1. i \in DOMAIN grown /\ i \in kept
    BY <1>4, <1>5, <1>7
  <2>2. after[n] \in Range(after)
    BY <1>3 DEF Range
  <2>3. b \in Range(after) /\ b.of.index = i
    BY <2>2
  <2>4. b = after[n]
    <3> HIDE DEF b
    <3>1. PICK m \in 1..L : b = after[m]
      BY <1>3, <2>3 DEF Range
    <3>2. m = n
      BY <1>4, <2>3, <3>1
    <3> QED
      BY <3>1, <3>2
  <2>5. pool'[i] = b.of.us
    BY <1>6, <2>1
  <2> QED
    BY <2>4, <2>5
<1> DEFINE c == Loaded(held', pool')
<1>13. /\ DOMAIN c = 1..L
       /\ \A n \in 1..L :
            c[n] = [held'[n] EXCEPT !.of = [index |-> held'[n].of, us |-> pool'[held'[n].of]]]
       /\ c = [n \in 1..L |-> c[n]]
  BY <1>10 DEF Loaded
<1> HIDE DEF c
<1>14. ASSUME NEW n \in 1..L
       PROVE  /\ DOMAIN c[n] = DOMAIN after[n] /\ c[n].bucketsize = after[n].bucketsize
              /\ c[n].min_time = after[n].min_time /\ c[n].max_time = after[n].max_time
              /\ c[n].of = after[n].of
              /\ "univ" = "univ" => after[n].of.index \in kept
  <2> DEFINE y == [index |-> held'[n].of, us |-> pool'[held'[n].of]]
  <2>1. y = after[n].of
    BY <1>4, <1>9, <1>12
  <2>2. c[n] = [held'[n] EXCEPT !.of = y]
    BY <1>13
  <2> HIDE DEF y
  <2>3. /\ DOMAIN c[n] = DOMAIN held'[n]
        /\ "of" \in DOMAIN held'[n] => c[n].of = y
        /\ \A f \in DOMAIN held'[n] : f # "of" => c[n][f] = held'[n][f]
    BY <2>2, WithAnotherOf
  <2>4. after[n].of.index \in kept
    BY <1>5
  <2> QED
    BY <1>9, <2>1, <2>3, <2>4
<1>15. IsSeq(c) /\ Len(c) = L
  <2>1. c \in [1..L -> Range(c)]
    BY <1>13 DEF Range
  <2>2. Seq(Range(c)) = UNION {[1..n -> Range(c)] : n \in Nat}
    BY SeqDef
  <2>3. c \in Seq(Range(c))
    BY <1>3, <2>1, <2>2
  <2> QED
    BY <1>3, <1>13, <2>3, LenProperties DEF IsSeq
<1>16. Sound("univ", s, now, kept, c)
  BY <1>1, <1>14, <1>15, StandsLike
<1>17. kept \subseteq Taken \cup {g}
  BY <1>4, <1>5
<1>18. bm' = kept \cup toclean' /\ kept \cap toclean' = {}
  BY <1>6, <1>7, <1>8, <1>17
<1>19. DOMAIN pool' = DOMAIN grown /\ bm' \subseteq DOMAIN grown
  BY <1>6
<1>20. ASSUME NEW i \in DOMAIN grown \ (bm \cup {g}) PROVE Free(pool'[i]) = pool'[i]
  <2>1. i \notin kept
    BY <1>7, <1>17
  <2>2. pool'[i] = grown[i]
    BY <1>6, <2>1
  <2> QED
    BY <2>2
<1> HIDE DEF kept, Taken, L
<1>21. Sound("univ", stream', ExpiredAt', IndicesOf(held)', Loaded(held, pool)')
  BY <1>11, <1>16 DEF c
<1> QED
  BY <1>6, <1>11, <1>18, <1>19, <1>20, <1>21 DEF PoolInv

\* The rest of the Update keeps the invariant, whether the pool grows or not.
LEMMA PooledKeep ==
  ASSUME PoolInv, Ordered(stream), NEW gap \in Gaps, NEW v \in StreamValues,
         Arrives(Newest + gap, v), AddUniv(Newest + gap, v)
  PROVE  PoolInv'
<1> DEFINE g == GetUnivSketch
           grown == PoolWith(g)
           x == [t |-> Newest + gap, v |-> v]
           us == FeedSample(grown[g], x.t, v)
           of == [index |-> g, us |-> us]
           fed == [grown EXCEPT ![g] = us]
           after == JoinRuns("univ", Append(Loaded(held, pool), RunBucket(x.t, of)))
           Taken == IndicesOf(held)
<1>1. /\ x \in Samples /\ x.t = Newest + gap /\ x.v = v
      /\ stream' = Append(stream, x)
      /\ Len(stream) > 0 => stream[Len(stream)].t <= x.t
      /\ Newest' = x.t
  BY StreamGrows
<1>2. /\ g \in DOMAIN grown /\ g \notin bm
      /\ bm \subseteq DOMAIN grown /\ \E m \in Nat : DOMAIN grown = 0..m
      /\ \A i \in bm : grown[i] = pool[i]
      /\ \A i \in DOMAIN grown \ bm : Free(grown[i]) = grown[i]
  BY GrownPool
<1>3. ExpiredAt = x.t /\ ExpiredAt' = x.t
  <2>1. adding = <<x>> /\ adding' = <<>>
    BY DEF AddUniv
  <2>2. adding # <<>> /\ adding[1] = x
    BY <2>1
  <2> HIDE DEF x
  <2> QED
    BY <1>1, <2>1, <2>2 DEF ExpiredAt
<1>4. /\ Sound("univ", stream, x.t, Taken, Loaded(held, pool))
      /\ bm = Taken \cup toclean
  BY <1>3 DEF PoolInv
<1>5. HeldIn(grown) = Loaded(held, pool)
  <2> HIDE DEF grown, g
  <2>1. \A n \in DOMAIN held : grown[held[n].of] = pool[held[n].of]
    BY <1>2, <1>4 DEF IndicesOf
  <2> QED
    BY <2>1 DEF HeldIn, Loaded
<1>6. PutJoined(fed, g, after)
  <2>1. AddToPool(grown, g, x.t, v)
    BY <1>1 DEF AddUniv
  <2> HIDE DEF grown, g, x
  <2> QED
    BY <1>5, <2>1 DEF AddToPool
<1> HIDE DEF grown, g, x
<1>7. HoldsPart("univ", of, <<x>>)
  <2>1. Free(grown[g]) = grown[g] /\ x = [t |-> x.t, v |-> v]
    BY <1>1, <1>2 DEF x
  <2>2. IsUnivOf(us, <<[t |-> x.t, v |-> v]>>)
    BY <2>1, OneIsFed
  <2> QED
    BY <2>1, <2>2 DEF HoldsPart
<1>8. of = [index |-> of.index, us |-> of.us] /\ of.index \in (Taken \cup {g}) \ Taken
  BY <1>2, <1>4
<1>9. /\ DOMAIN fed = DOMAIN grown
      /\ \A i \in DOMAIN grown \ (bm \cup {g}) : Free(fed[i]) = fed[i]
  BY <1>2
<1>10. "univ" \in Kinds /\ Taken \subseteq Taken \cup {g}
  BY DEF Kinds
<1> HIDE DEF of, Taken, fed
<1>11. Sound("univ", Append(stream, x), x.t, Taken \cup {g}, after)
  BY <1>1, <1>4, <1>7, <1>8, <1>10, SoundWith
<1> HIDE DEF after
<1>12. /\ g \in DOMAIN fed /\ bm \subseteq DOMAIN fed /\ \E m \in Nat : DOMAIN fed = 0..m
       /\ \A i \in DOMAIN fed \ (bm \cup {g}) : Free(fed[i]) = fed[i]
  BY <1>2, <1>9
<1>13. Sound("univ", Append(stream, x), x.t, IndicesOf(held) \cup {g}, after)
  BY <1>11 DEF Taken
<1> QED
  BY <1>1, <1>2, <1>3, <1>6, <1>12, <1>13, PutJoinedKeeps

\* A goroutine touches nothing that a bucket has.
LEMMA CleanKeeps ==
  ASSUME PoolInv, NEW i \in toclean, putUnivSketch(i), stream' = stream
  PROVE  PoolInv'
<1>1. /\ pool' = [pool EXCEPT ![i] = Free(@)] /\ bm' = bm \ {i}
      /\ toclean' = toclean \ {i} /\ held' = held /\ adding' = adding
  BY DEF putUnivSketch
<1>2. /\ Sound("univ", stream, ExpiredAt, IndicesOf(held), Loaded(held, pool))
      /\ held = [n \in DOMAIN held |-> held[n]]
      /\ bm = IndicesOf(held) \cup toclean /\ IndicesOf(held) \cap toclean = {}
      /\ bm \subseteq DOMAIN pool /\ \E m \in Nat : DOMAIN pool = 0..m
      /\ \A j \in DOMAIN pool \ bm : Free(pool[j]) = pool[j]
  BY DEF PoolInv
<1>3. DOMAIN pool' = DOMAIN pool /\ pool'[i] = Free(pool[i])
  BY <1>1, <1>2
<1>4. \A j \in DOMAIN pool : j # i => pool'[j] = pool[j]
  BY <1>1
<1>5. \A n \in DOMAIN held : held[n].of # i /\ held[n].of \in DOMAIN pool
  BY <1>2 DEF IndicesOf
<1>6. Loaded(held, pool') = Loaded(held, pool)
  <2>1. \A n \in DOMAIN held : pool'[held[n].of] = pool[held[n].of]
    BY <1>4, <1>5
  <2> QED
    BY <2>1 DEF Loaded
<1>7. Sound("univ", stream', ExpiredAt', IndicesOf(held)', Loaded(held, pool)')
  BY <1>1, <1>2, <1>6 DEF ExpiredAt, Newest
<1>8. IndicesOf(held)' = IndicesOf(held)
  BY <1>1
<1>9. bm' = IndicesOf(held) \cup toclean' /\ IndicesOf(held) \cap toclean' = {}
  BY <1>1, <1>2
<1>10. \A j \in DOMAIN pool \ bm' : Free(pool'[j]) = pool'[j]
  BY <1>1, <1>2, <1>3, <1>4, FreeFacts
<1> QED
  BY <1>1, <1>2, <1>3, <1>7, <1>8, <1>9, <1>10 DEF PoolInv

\* The invariant of the pool says what RecyclingIsInvisible asks, in an Update or not.
LEMMA PoolIsRight ==
  ASSUME Ordered(stream), PoolInv
  PROVE  PooledSketchesAreNotShared
<1> DEFINE b == Loaded(held, pool)
           L == Len(b)
<1>1. PICK e : /\ Stands("univ", stream, ExpiredAt, IndicesOf(held), b, e)
               /\ Shape!FewOf(Len(b), SizesOf(b))
  BY DEF PoolInv, Sound
<1>2. /\ Len(held) = L /\ DOMAIN held = 1..L /\ DOMAIN b = 1..L /\ L \in Nat
      /\ \A n \in 1..L :
           /\ b[n].bucketsize = held[n].bucketsize
           /\ b[n].min_time = held[n].min_time /\ b[n].max_time = held[n].max_time
           /\ b[n].of.us = pool[held[n].of]
      /\ \A n, m \in 1..L : held[n].of = held[m].of => n = m
  BY HeldIs
<1> HIDE DEF b
<1>3. /\ SizesOf(held) = SizesOf(b) /\ DOMAIN held = DOMAIN b /\ Len(held) = Len(b)
      /\ \A n \in DOMAIN held : held[n].min_time = b[n].min_time /\ held[n].max_time = b[n].max_time
  BY <1>2 DEF SizesOf
<1>4. /\ RunsAreSound(held, ExpiredAt)
      /\ \A n \in DOMAIN held : /\ HoldsPart("univ", b[n].of, PartOf(held, n))
                                /\ PartOf(held, n) \in Seq(Samples)
                                /\ Len(PartOf(held, n)) = b[n].bucketsize
  <2>1. ASSUME NEW now, NEW Ix, NEW f, Stands("univ", stream, now, Ix, b, f)
        PROVE  /\ RunsAreSound(held, now)
               /\ \A n \in DOMAIN held : /\ HoldsPart("univ", b[n].of, PartOf(held, n))
                                         /\ PartOf(held, n) \in Seq(Samples)
                                         /\ Len(PartOf(held, n)) = b[n].bucketsize
    BY <1>1, <1>3, <2>1, StandsIsSound, SMTT(30)
  <2> QED
    BY <1>1, <2>1
<1>5. ASSUME NEW n \in DOMAIN held
      PROVE  /\ pool[held[n].of].samples = PartOf(held, n)
             /\ pool[held[n].of].bucket_size = held[n].bucketsize
  BY <1>2, <1>4 DEF HoldsPart, IsUnivOf
<1>6. /\ bm = IndicesOf(held) \cup toclean /\ IndicesOf(held) \cap toclean = {}
      /\ bm \subseteq DOMAIN pool
      /\ \A j \in DOMAIN pool \ bm : Free(pool[j]) = pool[j]
  BY DEF PoolInv
<1>7. \A n \in DOMAIN held : held[n].of \notin toclean
  BY <1>6 DEF IndicesOf
<1>8. bm = {held[n].of : n \in DOMAIN held} \cup toclean
  BY <1>6 DEF IndicesOf
<1>9. RunsAreSound(held, IF adding = <<>> THEN Newest ELSE adding[1].t)
  BY <1>4 DEF ExpiredAt
<1> QED
  BY <1>2, <1>5, <1>6, <1>7, <1>8, <1>9 DEF PooledSketchesAreNotShared

-----------------------------------------------------------------------------
(* Folds over the keys, from the definition of FoldSet *)

\* The order in which FoldSet goes through a set.
AnyOf(s) == CHOOSE x \in s : TRUE
Others(s) == s \ {AnyOf(s)}

\* The two things that are folded over keys: a sum of f, and the counts of samples.
FoldStep(task, x, acc) ==
  IF task.kind = "sum" THEN acc + task.f[x]
  ELSE univmon_processing_optimized(acc, x, HowMany(task.samples, x))

\* g holds the results for the parts of S, by the recursion of FoldSet.
FoldsUp(task, base, S, g) ==
  g = [s \in SUBSET S |-> IF s = {} THEN base ELSE FoldStep(task, AnyOf(s), g[Others(s)])]

\* A chosen element is an element, and the others are fewer.
LEMMA AnyIsIn == ASSUME NEW s, s # {} PROVE AnyOf(s) \in s /\ Others(s) \subseteq s /\ Others(s) # s
BY DEF AnyOf, Others

\* Among sets of parts of a finite set there is one that none of them is part of.
LEMMA MinimalPart ==
  ASSUME NEW S, IsFiniteSet(S), NEW W \in SUBSET (SUBSET S), W # {}
  PROVE  \E s \in W : \A t \in W : t \subseteq s => t = s
<1> DEFINE R == StrictSubsetOrdering(S)
<1>1. IsWellFoundedOn(R, FiniteSubsetsOf(S)) /\ FiniteSubsetsOf(S) = SUBSET S
  BY FS_StrictSubsetOrderingWellFounded, FS_FiniteSubsetsOfFinite
<1> HIDE DEF R
<1>2. PICK s \in W : \A t \in W : ~ (<<t, s>> \in R)
  BY <1>1, WFMin
<1>3. ASSUME NEW t \in W, t \subseteq s, t # s PROVE FALSE
  <2>1. <<t, s>> \in R
    BY <1>3 DEF R, StrictSubsetOrdering
  <2> QED
    BY <1>2, <2>1
<1> QED
  BY <1>2, <1>3

\* The recursion at one part.
LEMMA FoldsUpAt ==
  ASSUME NEW task, NEW base, NEW S, NEW g, FoldsUp(task, base, S, g), NEW s \in SUBSET S
  PROVE  /\ s = {} => g[s] = base
         /\ s # {} => g[s] = FoldStep(task, AnyOf(s), g[Others(s)])
BY DEF FoldsUp

\* Two results differ nowhere: they would at a smallest part.
LEMMA FoldsUpAgree ==
  ASSUME NEW task, NEW base, NEW S, IsFiniteSet(S),
         NEW T, IsFiniteSet(T), NEW g, FoldsUp(task, base, S, g),
         NEW h, FoldsUp(task, base, T, h), NEW u, u \subseteq S, u \subseteq T
  PROVE  g[u] = h[u]
<1> DEFINE W == {s \in SUBSET u : g[s] # h[s]}
<1> SUFFICES ASSUME W # {} PROVE FALSE
  OBVIOUS
<1>1. PICK s \in W : \A t \in W : t \subseteq s => t = s
  <2>1. W \in SUBSET (SUBSET u) /\ IsFiniteSet(u)
    BY FS_Subset
  <2> HIDE DEF W
  <2> QED
    BY <2>1, MinimalPart
<1>2. s \in SUBSET S /\ s \in SUBSET T /\ g[s] # h[s] /\ s \in SUBSET u
  BY <1>1
<1>3. s # {}
  BY <1>2, FoldsUpAt
<1>4. Others(s) \in SUBSET u /\ Others(s) \subseteq s /\ Others(s) # s
  BY <1>2, <1>3, AnyIsIn
<1>5. g[Others(s)] = h[Others(s)]
  BY <1>1, <1>4
<1>6. /\ g[s] = FoldStep(task, AnyOf(s), g[Others(s)])
      /\ h[s] = FoldStep(task, AnyOf(s), h[Others(s)])
  BY <1>2, <1>3, FoldsUpAt
<1> QED
  BY <1>2, <1>5, <1>6

FoldTable(task, base, S) == CHOOSE g : FoldsUp(task, base, S, g)

\* There are results for every finite set: a smallest one without would have some, put
\* together from those of its own parts.
LEMMA FoldExists ==
  ASSUME NEW task, NEW base, NEW S, IsFiniteSet(S)
  PROVE  \E g : FoldsUp(task, base, S, g)
<1> DEFINE W == {U \in SUBSET S : ~ \E g : FoldsUp(task, base, U, g)}
<1> SUFFICES ASSUME W # {} PROVE FALSE
  OBVIOUS
<1>1. PICK U \in W : \A t \in W : t \subseteq U => t = U
  <2>1. W \in SUBSET (SUBSET S)
    OBVIOUS
  <2> HIDE DEF W
  <2> QED
    BY <2>1, MinimalPart
<1>2. ASSUME NEW t \in SUBSET U, t # U
      PROVE  FoldsUp(task, base, t, FoldTable(task, base, t)) /\ IsFiniteSet(t)
  <2>1. t \in SUBSET S
    OBVIOUS
  <2>2. \E g : FoldsUp(task, base, t, g)
    BY <1>1, <1>2, <2>1
  <2> QED
    BY <2>1, <2>2, FS_Subset DEF FoldTable
<1> DEFINE below(s) == FoldTable(task, base, Others(s))[Others(s)]
           h == [s \in SUBSET U |-> IF s = {} THEN base ELSE FoldStep(task, AnyOf(s), below(s))]
<1>3. ASSUME NEW s \in SUBSET U, s # {} PROVE h[Others(s)] = below(s)
  <2> DEFINE t == Others(s)
  <2>1. t \in SUBSET U /\ t # U
    BY <1>3, AnyIsIn
  <2>2. FoldsUp(task, base, t, FoldTable(task, base, t)) /\ IsFiniteSet(t)
    BY <1>2, <2>1
  <2> HIDE DEF t
  <2>3. CASE t = {}
    <3>1. FoldTable(task, base, t)[t] = base
      BY <2>2, <2>3, FoldsUpAt
    <3> QED
      BY <2>1, <2>3, <3>1 DEF t
  <2>4. CASE t # {}
    <3>1. Others(t) \in SUBSET t /\ Others(t) \subseteq U /\ Others(t) # U
      BY <2>1, <2>4, AnyIsIn
    <3>2. FoldTable(task, base, t)[t] = FoldStep(task, AnyOf(t), FoldTable(task, base, t)[Others(t)])
      BY <2>2, <2>4, FoldsUpAt
    <3>3. /\ FoldsUp(task, base, Others(t), FoldTable(task, base, Others(t)))
          /\ IsFiniteSet(Others(t))
      BY <1>2, <3>1
    <3>4. FoldTable(task, base, t)[Others(t)] = below(t)
      BY <2>2, <3>1, <3>3, FoldsUpAgree
    <3>5. h[t] = FoldStep(task, AnyOf(t), below(t))
      BY <2>1, <2>4
    <3> HIDE DEF h
    <3> QED
      BY <3>2, <3>4, <3>5 DEF t
  <2> QED
    BY <2>3, <2>4
<1>4. h = [s \in SUBSET U |-> IF s = {} THEN base ELSE FoldStep(task, AnyOf(s), h[Others(s)])]
  BY <1>3
<1> HIDE DEF h
<1>5. FoldsUp(task, base, U, h)
  BY <1>4 DEF FoldsUp
<1> QED
  BY <1>1, <1>5

\* The recursions of the two folds.
SumsOf(f, g) ==
  g = [s \in SUBSET Keys |-> IF s = {} THEN 0 ELSE g[Others(s)] + f[AnyOf(s)]]
FeedsOf(samples, us, S, g) ==
  g = [s \in SUBSET S |->
         IF s = {} THEN us
         ELSE univmon_processing_optimized(g[Others(s)], AnyOf(s), HowMany(samples, AnyOf(s)))]

\* A sum over keys is the last entry of a table of sums over parts.
LEMMA SumIsTable ==
  ASSUME NEW f
  PROVE  \E g : SumsOf(f, g) /\ SumOverKeys(f) = g[Keys]
<1> DEFINE task == [kind |-> "sum", f |-> f]
           g == CHOOSE h : SumsOf(f, h)
<1>1. SumOverKeys(f) = g[Keys]
  BY DEF SumOverKeys, FoldSet, MapThenFoldSet, SumsOf, AnyOf, Others
<1>2. PICK h : FoldsUp(task, 0, Keys, h)
  BY SketchesAssumption, FoldExists
<1>3. task.kind = "sum" /\ task.f = f
  OBVIOUS
<1> HIDE DEF task
<1>4. SumsOf(f, h)
  BY <1>2, <1>3 DEF SumsOf, FoldsUp, FoldStep
<1>5. SumsOf(f, g)
  BY <1>4
<1> QED
  BY <1>1, <1>5

Fed(samples, us, S) ==
  FoldSet(LAMBDA key, acc : univmon_processing_optimized(acc, key, HowMany(samples, key)),
          us, S)

\* So is the sketch that was fed with the entries of a map.
LEMMA FeedIsTable ==
  ASSUME NEW samples, NEW us, NEW S, IsFiniteSet(S)
  PROVE  \E g : FeedsOf(samples, us, S, g) /\ Fed(samples, us, S) = g[S]
<1> DEFINE task == [kind |-> "feed", samples |-> samples]
           g == CHOOSE h : FeedsOf(samples, us, S, h)
<1>1. Fed(samples, us, S) = g[S]
  BY DEF Fed, FoldSet, MapThenFoldSet, FeedsOf, AnyOf, Others
<1>2. PICK h : FoldsUp(task, us, S, h)
  BY FoldExists
<1>3. task.kind # "sum" /\ task.samples = samples
  OBVIOUS
<1> HIDE DEF task
<1>4. FeedsOf(samples, us, S, h)
  BY <1>2, <1>3 DEF FeedsOf, FoldsUp, FoldStep
<1>5. FeedsOf(samples, us, S, g)
  BY <1>4
<1> QED
  BY <1>1, <1>5

\* Sums keep the order of what is summed up.
LEMMA SumBounds ==
  ASSUME NEW a \in [Keys -> Nat], NEW b \in [Keys -> Nat], NEW c \in [Keys -> Nat],
         \A key \in Keys : /\ a[key] + b[key] <= c[key]
                           /\ c[key] <= 2 * (a[key] + b[key])
  PROVE  /\ SumOverKeys(a) \in Nat /\ SumOverKeys(b) \in Nat /\ SumOverKeys(c) \in Nat
         /\ SumOverKeys(a) + SumOverKeys(b) <= SumOverKeys(c)
         /\ SumOverKeys(c) <= 2 * (SumOverKeys(a) + SumOverKeys(b))
<1>1. PICK f : SumsOf(a, f) /\ SumOverKeys(a) = f[Keys]
  BY SumIsTable
<1>2. PICK g : SumsOf(b, g) /\ SumOverKeys(b) = g[Keys]
  BY SumIsTable
<1>3. PICK h : SumsOf(c, h) /\ SumOverKeys(c) = h[Keys]
  BY SumIsTable
<1> DEFINE Fits(s) == /\ f[s] \in Nat /\ g[s] \in Nat /\ h[s] \in Nat
                      /\ f[s] + g[s] <= h[s] /\ h[s] <= 2 * (f[s] + g[s])
           W == {s \in SUBSET Keys : ~Fits(s)}
<1>4. W = {}
  <2> SUFFICES ASSUME W # {} PROVE FALSE
    OBVIOUS
  <2>1. PICK s \in W : \A t \in W : t \subseteq s => t = s
    <3>1. W \in SUBSET (SUBSET Keys)
      OBVIOUS
    <3> HIDE DEF W
    <3> QED
      BY <3>1, MinimalPart, SketchesAssumption
  <2>2. s \in SUBSET Keys /\ ~Fits(s)
    BY <2>1
  <2>3. s # {}
    <3>1. s = {} => f[s] = 0 /\ g[s] = 0 /\ h[s] = 0
      BY <1>1, <1>2, <1>3 DEF SumsOf
    <3> QED
      BY <2>2, <3>1
  <2> DEFINE k == AnyOf(s)
             t == Others(s)
  <2>4. k \in Keys /\ t \in SUBSET Keys /\ Fits(t)
    <3>1. t \subseteq s /\ t # s /\ k \in s
      BY <2>3, AnyIsIn
    <3> HIDE DEF Fits, k, t
    <3> QED
      BY <2>1, <2>2, <3>1
  <2>5. f[s] = f[t] + a[k] /\ g[s] = g[t] + b[k] /\ h[s] = h[t] + c[k]
    BY <1>1, <1>2, <1>3, <2>2, <2>3 DEF SumsOf
  <2> HIDE DEF k, t
  <2>6. a[k] \in Nat /\ b[k] \in Nat /\ c[k] \in Nat
    BY <2>4
  <2> QED
    BY <2>2, <2>4, <2>5, <2>6
<1>5. Fits(Keys)
  <2> HIDE DEF Fits
  <2> QED
    BY <1>4
<1> QED
  BY <1>1, <1>2, <1>3, <1>5

\* A sum with a positive term is positive.
LEMMA SumPositive ==
  ASSUME NEW a \in [Keys -> Nat], NEW key \in Keys, a[key] >= 1
  PROVE  SumOverKeys(a) >= 1
<1>1. PICK f : SumsOf(a, f) /\ SumOverKeys(a) = f[Keys]
  BY SumIsTable
<1> DEFINE Fits(s) == f[s] \in Nat /\ (key \in s => f[s] >= 1)
           W == {s \in SUBSET Keys : ~Fits(s)}
<1>2. W = {}
  <2> SUFFICES ASSUME W # {} PROVE FALSE
    OBVIOUS
  <2>1. PICK s \in W : \A t \in W : t \subseteq s => t = s
    <3>1. W \in SUBSET (SUBSET Keys)
      OBVIOUS
    <3> HIDE DEF W
    <3> QED
      BY <3>1, MinimalPart, SketchesAssumption
  <2>2. s \in SUBSET Keys /\ ~Fits(s)
    BY <2>1
  <2>3. s # {}
    <3>1. s = {} => f[s] = 0
      BY <1>1 DEF SumsOf
    <3> QED
      BY <2>2, <3>1
  <2> DEFINE k == AnyOf(s)
             t == Others(s)
  <2>4. k \in Keys /\ t \in SUBSET Keys /\ Fits(t) /\ (key \in s => key = k \/ key \in t)
    <3>1. t \subseteq s /\ t # s /\ k \in s
      BY <2>3, AnyIsIn
    <3>2. key \in s => key = k \/ key \in t
      BY DEF Others
    <3> HIDE DEF Fits, k, t
    <3> QED
      BY <2>1, <2>2, <3>1, <3>2
  <2>5. f[s] = f[t] + a[k]
    BY <1>1, <2>2, <2>3 DEF SumsOf
  <2> HIDE DEF k, t
  <2>6. a[k] \in Nat
    BY <2>4
  <2> QED
    BY <2>2, <2>4, <2>5, <2>6
<1>3. Fits(Keys)
  <2> HIDE DEF Fits
  <2> QED
    BY <1>2
<1> QED
  BY <1>1, <1>3

\* The square of a sum against the sum of the squares.
LEMMA SquareOfSum ==
  ASSUME NEW x \in Nat, NEW y \in Nat
  PROVE  /\ x * x + y * y <= (x + y) * (x + y)
         /\ (x + y) * (x + y) <= 2 * (x * x + y * y)
<1> DEFINE p == x * x
           q == y * y
           m == x * y
<1>1. p \in Nat /\ q \in Nat /\ m \in Nat
  OBVIOUS
<1>2. (x + y) * (x + y) = p + 2 * m + q
  OBVIOUS
<1>3. (x - y) * (x - y) = p - 2 * m + q
  OBVIOUS
<1>4. (x - y) * (x - y) >= 0
  OBVIOUS
<1> HIDE DEF p, q, m
<1>5. p + q <= p + 2 * m + q /\ p + 2 * m + q <= 2 * (p + q)
  BY <1>1, <1>3, <1>4
<1> QED
  BY <1>2, <1>5 DEF p, q

\* The squares of counts: of one sequence after another, and of one with a sample.
LEMMA SquaresBoth ==
  ASSUME NEW p \in Seq(Samples), NEW q \in Seq(Samples)
  PROVE  /\ SquaresOf(p) \in Nat /\ SquaresOf(q) \in Nat /\ SquaresOf(p \o q) \in Nat
         /\ SquaresOf(p) + SquaresOf(q) <= SquaresOf(p \o q)
         /\ SquaresOf(p \o q) <= 2 * (SquaresOf(p) + SquaresOf(q))
<1> DEFINE a == [key \in Keys |-> HowMany(p, key) * HowMany(p, key)]
           b == [key \in Keys |-> HowMany(q, key) * HowMany(q, key)]
           c == [key \in Keys |-> HowMany(p \o q, key) * HowMany(p \o q, key)]
<1>1. ASSUME NEW key \in Keys
      PROVE  /\ a[key] \in Nat /\ b[key] \in Nat /\ c[key] \in Nat
             /\ a[key] + b[key] <= c[key] /\ c[key] <= 2 * (a[key] + b[key])
  <2> DEFINE x == HowMany(p, key)
             y == HowMany(q, key)
  <2>1. x \in Nat /\ y \in Nat
    BY HowManyType
  <2>2. HowMany(p \o q, key) = x + y
    BY HowManyBoth
  <2>3. a[key] = x * x /\ b[key] = y * y /\ c[key] = (x + y) * (x + y)
    BY <2>2
  <2> HIDE DEF x, y, a, b, c
  <2>4. /\ x * x + y * y <= (x + y) * (x + y)
        /\ (x + y) * (x + y) <= 2 * (x * x + y * y)
    BY <2>1, SquareOfSum
  <2>5. x * x \in Nat /\ y * y \in Nat /\ (x + y) * (x + y) \in Nat
    BY <2>1
  <2> QED
    BY <2>3, <2>4, <2>5
<1>2. /\ a = [key \in Keys |-> a[key]] /\ b = [key \in Keys |-> b[key]]
      /\ c = [key \in Keys |-> c[key]]
  OBVIOUS
<1>3. SquaresOf(p) = SumOverKeys(a) /\ SquaresOf(q) = SumOverKeys(b)
  BY DEF SquaresOf
<1>4. SquaresOf(p \o q) = SumOverKeys(c)
  BY DEF SquaresOf
<1> HIDE DEF a, b, c
<1>5. a \in [Keys -> Nat] /\ b \in [Keys -> Nat] /\ c \in [Keys -> Nat]
  BY <1>1, <1>2
<1> QED
  BY <1>1, <1>3, <1>4, <1>5, SumBounds

\* Any samples have a positive norm.
LEMMA SquaresPositive ==
  ASSUME NEW p \in Seq(Samples), Len(p) > 0
  PROVE  SquaresOf(p) >= 1
<1> DEFINE a == [key \in Keys |-> HowMany(p, key) * HowMany(p, key)]
           k == p[1].v
<1>1. p[1] \in Samples /\ 1 \in DOMAIN p
  OBVIOUS
<1>2. k \in Keys
  BY <1>1 DEF Samples
<1>3. a \in [Keys -> Nat]
  <2>1. \A key \in Keys : HowMany(p, key) \in Nat
    BY HowManyType
  <2> QED
    BY <2>1
<1>4. a[k] >= 1
  <2>1. 1 \in At(p, {k})
    BY <1>1 DEF At
  <2>2. IsFiniteSet(At(p, {k})) /\ Cardinality(At(p, {k})) \in Nat
    BY AtIsFinite, FS_CardinalityType
  <2>3. Cardinality(At(p, {k})) # 0
    BY <2>1, <2>2, FS_EmptySet
  <2>4. HowMany(p, k) \in Nat /\ HowMany(p, k) # 0
    BY <2>2, <2>3, HowManyAt
  <2> DEFINE x == HowMany(p, k)
  <2>5. a[k] = x * x
    BY <1>2
  <2> HIDE DEF x, a
  <2>6. x * x >= 1
    BY <2>4 DEF x
  <2> QED
    BY <2>5, <2>6
<1>5. SquaresOf(p) = SumOverKeys(a)
  BY DEF SquaresOf
<1> HIDE DEF a, k
<1> QED
  BY <1>2, <1>3, <1>4, <1>5, SumPositive

\* Counts fed to a universal sketch.
LEMMA ProcessedIs ==
  ASSUME NEW us, DOMAIN us = UnivFields, us.bucket_size \in Nat, NEW key, NEW value \in Nat
  PROVE  LET u == univmon_processing_optimized(us, key, value)
         IN  /\ DOMAIN u = UnivFields /\ u.bucket_size = us.bucket_size + value
             /\ u.min_time = us.min_time /\ u.max_time = us.max_time
<1> DEFINE w == update_optimized(us, key, value)
<1>1. /\ DOMAIN w = UnivFields /\ w.bucket_size = us.bucket_size
      /\ w.min_time = us.min_time /\ w.max_time = us.max_time
  BY DEF update_optimized, UnivFields
<1> HIDE DEF w
<1> QED
  BY <1>1 DEF univmon_processing_optimized, UnivFields, w

\* Feeding a map to a sketch adds its samples and its size, the times stay.
LEMMA FeedMapIs ==
  ASSUME NEW us, DOMAIN us = UnivFields, us.bucket_size \in Nat, NEW p \in Seq(Samples)
  PROVE  LET u == FeedMap(us, p)
         IN  /\ DOMAIN u = UnivFields /\ u.bucket_size = us.bucket_size + Len(p)
             /\ u.min_time = us.min_time /\ u.max_time = us.max_time
             /\ u.samples = us.samples \o p
<1> DEFINE S == {key \in Keys : HowMany(p, key) > 0}
           fed == Fed(p, us, S)
<1>1. FeedMap(us, p) = [fed EXCEPT !.samples = us.samples \o p]
  BY DEF FeedMap, Fed
<1>2. IsFiniteSet(S) /\ S \subseteq Keys
  BY SketchesAssumption, FS_Subset
<1>3. PICK g : FeedsOf(p, us, S, g) /\ fed = g[S]
  <2> HIDE DEF S
  <2> QED
    BY <1>2, FeedIsTable
<1> HIDE DEF fed
<1>4. /\ Len(p) \in Nat /\ DOMAIN p = 1..Len(p) /\ \A n \in 1..Len(p) : p[n] \in Samples
      /\ \A key : HowMany(p, key) \in Nat /\ HowMany(p, key) = Cardinality(At(p, {key}))
  BY HowManyType, HowManyAt
<1>5. \A V : IsFiniteSet(At(p, V)) /\ Cardinality(At(p, V)) \in Nat
  BY AtIsFinite, FS_CardinalityType
<1> DEFINE Fits(s) == /\ DOMAIN g[s] = UnivFields
                      /\ g[s].bucket_size = us.bucket_size + Cardinality(At(p, s))
                      /\ g[s].min_time = us.min_time /\ g[s].max_time = us.max_time
           W == {s \in SUBSET S : ~Fits(s)}
<1>6. W = {}
  <2> SUFFICES ASSUME W # {} PROVE FALSE
    OBVIOUS
  <2>1. PICK s \in W : \A t \in W : t \subseteq s => t = s
    <3>1. W \in SUBSET (SUBSET S)
      OBVIOUS
    <3> HIDE DEF W, S
    <3> QED
      BY <1>2, <3>1, MinimalPart
  <2>2. s \in SUBSET S /\ ~Fits(s)
    BY <2>1
  <2> HIDE DEF S, W
  <2>3. s # {}
    <3>1. ASSUME s = {} PROVE Fits(s)
      <4>1. g[s] = us
        BY <1>3, <2>2, <3>1 DEF FeedsOf
      <4>2. Cardinality(At(p, s)) = 0
        <5>1. At(p, s) = {}
          BY <3>1 DEF At
        <5> QED
          BY <5>1, FS_EmptySet
      <4> QED
        BY <4>1, <4>2
    <3> QED
      BY <2>2, <3>1
  <2> DEFINE k == AnyOf(s)
             t == Others(s)
  <2>4. k \in s /\ t \in SUBSET S /\ t \subseteq s /\ t # s
    BY <2>2, <2>3, AnyIsIn
  <2>5. s = t \cup {k} /\ k \notin t
    BY <2>4 DEF Others
  <2>6. g[s] = univmon_processing_optimized(g[t], k, HowMany(p, k))
    BY <1>3, <2>2, <2>3 DEF FeedsOf
  <2> HIDE DEF k, t
  <2>7. Fits(t)
    <3> HIDE DEF Fits
    <3>1. t \notin W
      BY <2>1, <2>4
    <3> QED
      BY <2>4, <3>1 DEF W
  <2>8. Cardinality(At(p, s)) = Cardinality(At(p, t)) + HowMany(p, k)
    <3>1. At(p, s) = At(p, t) \cup At(p, {k}) /\ At(p, t) \cap At(p, {k}) = {}
      BY <2>5 DEF At
    <3> DEFINE A == At(p, t)
               B == At(p, {k})
    <3>2. IsFiniteSet(A) /\ IsFiniteSet(B) /\ At(p, s) = A \cup B /\ A \cap B = {}
      BY <1>5, <3>1
    <3> HIDE DEF A, B
    <3>3. Cardinality(A \cup B) = Cardinality(A) + Cardinality(B) - Cardinality(A \cap B)
      BY <3>2, FS_Union
    <3>4. Cardinality(A \cap B) = 0 /\ Cardinality(A) \in Nat /\ Cardinality(B) \in Nat
      BY <3>2, FS_EmptySet, FS_CardinalityType
    <3>5. Cardinality(A \cup B) = Cardinality(A) + Cardinality(B)
      BY <3>3, <3>4
    <3> QED
      BY <1>4, <3>2, <3>5 DEF A, B
  <2> DEFINE x == g[t]
             c == Cardinality(At(p, t))
             h == HowMany(p, k)
  <2>9. x.bucket_size = us.bucket_size + c /\ c \in Nat /\ h \in Nat /\ DOMAIN x = UnivFields
    BY <1>4, <1>5, <2>7
  <2>10. x.min_time = us.min_time /\ x.max_time = us.max_time
    BY <2>7
  <2> HIDE DEF x, c, h
  <2>11. x.bucket_size \in Nat
    BY <2>9
  <2>12. LET u == univmon_processing_optimized(x, k, h)
         IN  /\ DOMAIN u = UnivFields /\ u.bucket_size = x.bucket_size + h
             /\ u.min_time = x.min_time /\ u.max_time = x.max_time
    BY <2>9, <2>11, ProcessedIs
  <2>13. /\ DOMAIN g[s] = UnivFields /\ g[s].bucket_size = us.bucket_size + (c + h)
         /\ g[s].min_time = us.min_time /\ g[s].max_time = us.max_time
    BY <2>6, <2>9, <2>10, <2>12 DEF x, h
  <2> QED
    BY <2>2, <2>8, <2>13 DEF c, h
<1>7. Fits(S)
  <2> HIDE DEF Fits, S
  <2> QED
    BY <1>6
<1>8. Cardinality(At(p, S)) = Len(p)
  <2>1. ASSUME NEW n \in 1..Len(p) PROVE p[n].v \in S
    <3> DEFINE k == p[n].v
    <3>1. k \in Keys /\ n \in At(p, {k})
      BY <1>4 DEF Samples, At
    <3>2. Cardinality(At(p, {k})) # 0
      BY <1>5, <3>1, FS_EmptySet
    <3> QED
      BY <1>4, <3>1, <3>2
  <2>2. At(p, S) = 1..Len(p)
    BY <1>4, <2>1 DEF At
  <2>3. Cardinality(1..Len(p)) = Len(p)
    <3> DEFINE n == Len(p)
    <3>1. n \in Nat
      BY <1>4
    <3> HIDE DEF n
    <3>2. Cardinality(1..n) = IF 1 > n THEN 0 ELSE n - 1 + 1
      BY <3>1, FS_Interval
    <3>3. Cardinality(1..n) = n
      BY <3>1, <3>2
    <3> QED
      BY <3>3 DEF n
  <2> QED
    BY <2>2, <2>3
<1>9. /\ DOMAIN fed = UnivFields /\ fed.bucket_size = us.bucket_size + Len(p)
      /\ fed.min_time = us.min_time /\ fed.max_time = us.max_time
  BY <1>3, <1>7, <1>8
<1> QED
  BY <1>1, <1>9 DEF UnivFields

-----------------------------------------------------------------------------
(* The two layers of the histogram of maps and sketches.  Again e has the numbers of *)
(* the samples at which the buckets end.                                             *)

Layer == {"maps", "sketches"}
LayerFields(layer) ==
  IF layer = "maps" THEN {"min_time", "max_time", "bucket_size", "samples"} ELSE UnivFields

\* A bucket of the samples from lo + 1 to hi.
PartIs(layer, s, u, lo, hi) ==
  /\ DOMAIN u = LayerFields(layer)
  /\ u.samples = SubSeq(s, lo + 1, hi) /\ u.bucket_size = hi - lo
  /\ u.min_time = s[lo + 1].t /\ u.max_time = s[hi].t

Layered(layer, s, b, e) ==
  /\ IsSeq(b) /\ e \in [0..Len(b) -> 0..Len(s)]
  /\ \A n \in 1..Len(b) : e[n - 1] < e[n] /\ PartIs(layer, s, b[n], e[n - 1], e[n])

\* What the buckets of a layer are, one by one.
LEMMA LayeredFacts ==
  ASSUME NEW layer, NEW s, Ordered(s), NEW b, NEW e, Layered(layer, s, b, e)
  PROVE  /\ Len(b) \in Nat /\ Len(s) \in Nat /\ e = [m \in 0..Len(b) |-> e[m]]
         /\ \A m \in 0..Len(b) : e[m] \in 0..Len(s) /\ e[m] \in Nat
         /\ \A n \in 1..Len(b) : /\ e[n - 1] \in 0..Len(s) /\ e[n] \in 0..Len(s) /\ e[n - 1] < e[n]
                                 /\ e[n - 1] \in Nat /\ e[n] \in Nat
                                 /\ PartIs(layer, s, b[n], e[n - 1], e[n])
                                 /\ b[n].samples \in Seq(Samples)
                                 /\ Len(b[n].samples) = b[n].bucket_size
                                 /\ b[n].bucket_size \in Nat \ {0}
                                 /\ b[n].min_time = b[n].samples[1].t
                                 /\ b[n].max_time = b[n].samples[b[n].bucket_size].t
<1>1. Len(b) \in Nat /\ Len(s) \in Nat
  BY OrderedFacts, SeqFacts DEF Layered
<1>2. e \in [0..Len(b) -> 0..Len(s)]
  BY DEF Layered
<1>3. ASSUME NEW m \in 0..Len(b) PROVE e[m] \in 0..Len(s) /\ e[m] \in Nat
  <2>1. e[m] \in 0..Len(s)
    BY <1>2
  <2> QED
    BY <1>1, <2>1
<1>4. ASSUME NEW n \in 1..Len(b)
      PROVE  /\ e[n - 1] \in 0..Len(s) /\ e[n] \in 0..Len(s) /\ e[n - 1] < e[n]
             /\ e[n - 1] \in Nat /\ e[n] \in Nat
             /\ PartIs(layer, s, b[n], e[n - 1], e[n])
             /\ b[n].samples \in Seq(Samples)
             /\ Len(b[n].samples) = b[n].bucket_size
             /\ b[n].bucket_size \in Nat \ {0}
             /\ b[n].min_time = b[n].samples[1].t
             /\ b[n].max_time = b[n].samples[b[n].bucket_size].t
  <2> DEFINE lo == e[n - 1]
             hi == e[n]
             p == SubSeq(s, lo + 1, hi)
  <2>1. lo \in 0..Len(s) /\ hi \in 0..Len(s) /\ lo \in Nat /\ hi \in Nat
    <3>1. n - 1 \in 0..Len(b) /\ n \in 0..Len(b)
      BY <1>1
    <3> QED
      BY <1>3, <3>1
  <2>2. lo < hi /\ PartIs(layer, s, b[n], lo, hi)
    BY DEF Layered
  <2> HIDE DEF lo, hi
  <2>3. p \in Seq(Samples) /\ Len(p) = hi - lo /\ p[1] = s[lo + 1] /\ p[hi - lo] = s[hi]
    BY <2>1, <2>2, EndsOfPart
  <2>4. hi - lo \in Nat \ {0}
    BY <2>1, <2>2
  <2>5. /\ b[n].samples = p /\ b[n].bucket_size = hi - lo
        /\ b[n].min_time = s[lo + 1].t /\ b[n].max_time = s[hi].t
    BY <2>2 DEF PartIs
  <2> HIDE DEF p
  <2>6. /\ b[n].samples \in Seq(Samples) /\ Len(b[n].samples) = b[n].bucket_size
        /\ b[n].bucket_size \in Nat \ {0}
        /\ b[n].min_time = b[n].samples[1].t
        /\ b[n].max_time = b[n].samples[b[n].bucket_size].t
    BY <2>3, <2>4, <2>5
  <2> QED
    BY <2>1, <2>2, <2>6 DEF lo, hi
<1>5. e = [m \in 0..Len(b) |-> e[m]]
  BY <1>2
<1> QED
  BY <1>1, <1>3, <1>4, <1>5

\* A bucket's size is the number of its samples.
LEMMA LayeredLength ==
  ASSUME NEW layer, NEW s, Ordered(s), NEW b, NEW e, Layered(layer, s, b, e),
         NEW n \in 1..Len(b)
  PROVE  Len(b[n].samples) = b[n].bucket_size
<1>1. n - 1 \in 0..Len(b) /\ n \in 0..Len(b)
  BY LayeredFacts
<1>2. e[n - 1] \in 0..Len(s) /\ e[n] \in 0..Len(s)
  BY <1>1, LayeredFacts
<1>3. e[n - 1] < e[n] /\ PartIs(layer, s, b[n], e[n - 1], e[n])
  BY DEF Layered
<1>4. Len(SubSeq(s, e[n - 1] + 1, e[n])) = e[n] - e[n - 1]
  BY <1>2, <1>3, EndsOfPart
<1> QED
  BY <1>3, <1>4 DEF PartIs

\* Neighbours become one.
LEMMA JoinParts ==
  ASSUME NEW layer \in Layer, NEW s, Ordered(s), NEW lo \in 0..Len(s), NEW mid \in 0..Len(s),
         NEW hi \in 0..Len(s), lo < mid, mid < hi,
         NEW u, PartIs(layer, s, u, lo, mid), NEW v, PartIs(layer, s, v, mid, hi)
  PROVE  PartIs(layer, s, JoinIn(layer, u, v), lo, hi)
<1>1. /\ s \in Seq(Samples) /\ Len(s) \in Nat /\ \A n \in 1..Len(s) : s[n].t \in Int
      /\ \A m, n \in 1..Len(s) : m <= n => s[m].t <= s[n].t
  BY OrderedFacts DEF Ordered
<1>2. SubSeq(s, lo + 1, mid) \o SubSeq(s, mid + 1, hi) = SubSeq(s, lo + 1, hi)
  <2>1. lo + 1 \in 1..(Len(s) + 1) /\ mid \in ((lo + 1) - 1)..Len(s) /\ hi \in mid..Len(s)
    BY <1>1
  <2> QED
    BY <1>1, <2>1, ConcatAdjacentSubSeq
<1>3. /\ u.samples \o v.samples = SubSeq(s, lo + 1, hi)
      /\ u.bucket_size + v.bucket_size = hi - lo
      /\ u.min_time = s[lo + 1].t /\ u.max_time = s[mid].t
      /\ v.min_time = s[mid + 1].t /\ v.max_time = s[hi].t
  <2>1. /\ u.samples = SubSeq(s, lo + 1, mid) /\ v.samples = SubSeq(s, mid + 1, hi)
        /\ u.bucket_size = mid - lo /\ v.bucket_size = hi - mid
        /\ u.min_time = s[lo + 1].t /\ u.max_time = s[mid].t
        /\ v.min_time = s[mid + 1].t /\ v.max_time = s[hi].t
    BY DEF PartIs
  <2>2. (mid - lo) + (hi - mid) = hi - lo
    BY <1>1
  <2> QED
    BY <1>2, <2>1, <2>2
<1>4. CASE layer = "maps"
  <2>1. JoinIn(layer, u, v) = MergeMaps(u, v)
    BY <1>4 DEF JoinIn
  <2> DEFINE m == MergeMaps(u, v)
  <2>2. /\ DOMAIN m = {"min_time", "max_time", "bucket_size", "samples"}
        /\ m.min_time = u.min_time /\ m.max_time = v.max_time
        /\ m.bucket_size = u.bucket_size + v.bucket_size
        /\ m.samples = u.samples \o v.samples
    BY DEF MergeMaps
  <2> HIDE DEF m
  <2>3. PartIs(layer, s, m, lo, hi)
    BY <1>3, <1>4, <2>2 DEF PartIs, LayerFields
  <2> QED
    BY <2>1, <2>3 DEF m
<1>5. CASE layer = "sketches"
  <2> DEFINE m == MergeWith(u, v)
  <2>1. /\ DOMAIN m = UnivFields /\ m.samples = u.samples \o v.samples
        /\ m.bucket_size = u.bucket_size
    BY <1>5 DEF PartIs, LayerFields, MergeWith, UnivFields
  <2> HIDE DEF m
  <2>2. JoinIn(layer, u, v) =
          [m EXCEPT !.bucket_size = @ + v.bucket_size,
                    !.min_time = IF u.min_time < v.min_time THEN u.min_time ELSE v.min_time,
                    !.max_time = IF u.max_time > v.max_time THEN u.max_time ELSE v.max_time]
    BY <1>5 DEF JoinIn, JoinUnivs, m
  <2>3. /\ (IF u.min_time < v.min_time THEN u.min_time ELSE v.min_time) = u.min_time
        /\ (IF u.max_time > v.max_time THEN u.max_time ELSE v.max_time) = v.max_time
    <3>1. lo + 1 \in 1..Len(s) /\ mid + 1 \in 1..Len(s) /\ mid \in 1..Len(s) /\ hi \in 1..Len(s)
          /\ lo + 1 <= mid + 1 /\ mid <= hi
      BY <1>1
    <3>2. s[lo + 1].t <= s[mid + 1].t /\ s[mid].t <= s[hi].t
      BY <1>1, <3>1
    <3>3. /\ s[lo + 1].t \in Int /\ s[mid + 1].t \in Int
          /\ s[mid].t \in Int /\ s[hi].t \in Int
      BY <1>1, <3>1
    <3> DEFINE first == u.min_time
               then == v.min_time
               last == u.max_time
               final == v.max_time
    <3>4. /\ first \in Int /\ then \in Int /\ first <= then
          /\ last \in Int /\ final \in Int /\ last <= final
      BY <1>3, <3>2, <3>3
    <3> HIDE DEF first, then, last, final
    <3>5. /\ (IF first < then THEN first ELSE then) = first
          /\ (IF last > final THEN last ELSE final) = final
      BY <3>4
    <3> QED
      BY <3>5 DEF first, then, last, final
  <2>4. JoinIn(layer, u, v) = [m EXCEPT !.bucket_size = @ + v.bucket_size,
                                        !.min_time = u.min_time, !.max_time = v.max_time]
    BY <2>2, <2>3
  <2> QED
    BY <1>3, <1>5, <2>1, <2>4 DEF PartIs, LayerFields, UnivFields
<1> QED
  BY <1>4, <1>5 DEF Layer

\* In their layer.
LEMMA JoinPair ==
  ASSUME NEW layer \in Layer, NEW s, Ordered(s), NEW b, NEW e, Layered(layer, s, b, e),
         NEW n \in Nat \ {0}, n < Len(b)
  PROVE  LET c == Splice(b, JoinIn(layer, b[n], b[n + 1]), n)
             e2 == [m \in 0..(Len(b) - 1) |-> IF m < n THEN e[m] ELSE e[m + 1]]
         IN  /\ Layered(layer, s, c, e2) /\ Len(c) = Len(b) - 1
             /\ e2[0] = e[0] /\ e2[Len(c)] = e[Len(b)]
             /\ \A m \in 1..(Len(b) - 1) : /\ m < n => c[m] = b[m]
                                           /\ m = n => c[m] = JoinIn(layer, b[n], b[n + 1])
                                           /\ m > n => c[m] = b[m + 1]
<1> DEFINE L == Len(b)
           x == JoinIn(layer, b[n], b[n + 1])
           c == Splice(b, x, n)
           e2 == [m \in 0..(L - 1) |-> IF m < n THEN e[m] ELSE e[m + 1]]
<1>1. /\ L \in Nat /\ Len(s) \in Nat /\ \A m \in 0..L : e[m] \in 0..Len(s)
      /\ \A m \in 1..L : e[m - 1] < e[m] /\ PartIs(layer, s, b[m], e[m - 1], e[m])
  BY LayeredFacts
<1>2. /\ IsSeq(c) /\ Len(c) = L - 1
      /\ \A m \in 1..(L - 1) : /\ m < n => c[m] = b[m]
                               /\ m = n => c[m] = x
                               /\ m > n => c[m] = b[m + 1]
  <2>1. IsSeq(b)
    BY DEF Layered
  <2> HIDE DEF x
  <2> QED
    BY <2>1, SpliceIs
<1> HIDE DEF c
<1>3. PartIs(layer, s, x, e[n - 1], e[n + 1])
  <2>1. n \in 1..L /\ n + 1 \in 1..L /\ n - 1 \in 0..L /\ n \in 0..L /\ n + 1 \in 0..L /\ (n + 1) - 1 = n
    BY <1>1
  <2>2. /\ e[n - 1] \in 0..Len(s) /\ e[n] \in 0..Len(s) /\ e[n + 1] \in 0..Len(s)
        /\ e[n - 1] < e[n] /\ e[n] < e[n + 1]
        /\ PartIs(layer, s, b[n], e[n - 1], e[n]) /\ PartIs(layer, s, b[n + 1], e[n], e[n + 1])
    BY <1>1, <2>1
  <2> QED
    BY <2>2, JoinParts
<1> HIDE DEF x
<1>4. /\ \A m \in 0..(L - 1) : e2[m] = IF m < n THEN e[m] ELSE e[m + 1]
      /\ e2 \in [0..(L - 1) -> 0..Len(s)]
  <2>1. \A m \in 0..(L - 1) : m \in 0..L /\ m + 1 \in 0..L
    BY <1>1
  <2> QED
    BY <1>1, <2>1
<1> HIDE DEF e2, L
<1>5. ASSUME NEW m \in 1..(L - 1)
      PROVE  e2[m - 1] < e2[m] /\ PartIs(layer, s, c[m], e2[m - 1], e2[m])
  <2>0. m \in 1..L /\ m + 1 \in 1..L /\ (m + 1) - 1 = m /\ (m - 1) + 1 = m
        /\ m - 1 \in 0..(L - 1) /\ m \in 0..(L - 1)
    BY <1>1
  <2>1. CASE m < n
    <3>1. e2[m - 1] = e[m - 1] /\ e2[m] = e[m] /\ c[m] = b[m]
      BY <1>1, <1>2, <1>4, <2>0, <2>1, SMTT(30)
    <3> QED
      BY <1>1, <2>0, <3>1
  <2>2. CASE m > n
    <3>1. ~(m < n) /\ ~(m - 1 < n)
      BY <2>0, <2>2
    <3>2. e2[m - 1] = e[m] /\ e2[m] = e[m + 1] /\ c[m] = b[m + 1]
      BY <1>2, <1>4, <2>0, <2>2, <3>1
    <3> QED
      BY <1>1, <2>0, <3>2
  <2>3. CASE m = n
    <3>1. ~(m < n) /\ m - 1 < n
      BY <2>0, <2>3
    <3>2. e2[m - 1] = e[n - 1] /\ e2[m] = e[n + 1] /\ c[m] = x
      BY <1>2, <1>4, <2>0, <2>3, <3>1
    <3>3. e[m - 1] < e[m] /\ e[m] < e[m + 1]
      BY <1>1, <2>0
    <3>4. e[m - 1] \in Nat /\ e[m] \in Nat /\ e[m + 1] \in Nat
      <4>1. m - 1 \in 0..L /\ m \in 0..L /\ m + 1 \in 0..L
        BY <1>1, <2>0
      <4>2. e[m - 1] \in 0..Len(s) /\ e[m] \in 0..Len(s) /\ e[m + 1] \in 0..Len(s)
        BY <1>1, <4>1
      <4> QED
        BY <1>1, <4>2
    <3>5. e[m - 1] < e[m + 1]
      BY <3>3, <3>4
    <3> QED
      BY <1>3, <2>3, <3>2, <3>5
  <2> QED
    BY <2>0, <2>1, <2>2, <2>3
<1>6. Layered(layer, s, c, e2)
  <2>1. e2 \in [0..Len(c) -> 0..Len(s)]
    BY <1>2, <1>4
  <2>2. \A m \in 1..Len(c) : e2[m - 1] < e2[m] /\ PartIs(layer, s, c[m], e2[m - 1], e2[m])
    BY <1>2, <1>5
  <2> QED
    BY <1>2, <2>1, <2>2 DEF Layered
<1>7. e2[0] = e[0] /\ e2[L - 1] = e[L]
  <2>1. 0 \in 0..(L - 1) /\ L - 1 \in 0..(L - 1) /\ 0 < n /\ ~(L - 1 < n) /\ (L - 1) + 1 = L
    BY <1>1 DEF L
  <2> QED
    BY <1>4, <2>1
<1> QED
  BY <1>2, <1>6, <1>7 DEF c, e2, L, x

-----------------------------------------------------------------------------
(* What the maps weigh *)

AtMostTwice(l, x) == K * l <= 2 * x

\* a has the weight of what is newer than each bucket.
Weighs(b, a) ==
  /\ a \in [0..Len(b) -> Nat] /\ a[Len(b)] = 0
  /\ \A n \in 1..Len(b) : a[n - 1] = a[n] + calc_l22(b[n])

\* Buckets of more than one sample weigh little against what is newer, and from bucket m
\* on no two neighbours are light; the newest has one sample.
Weighed(b, a, m) ==
  /\ Weighs(b, a)
  /\ \A n \in 1..Len(b) : b[n].bucket_size > 1 => AtMostTwice(calc_l22(b[n]), a[n])
  /\ \A n \in 1..Len(b) : m <= n /\ n < Len(b) =>
       ~IsLight(calc_l22(b[n]), calc_l22(b[n + 1]), a[n + 1])
  /\ Len(b) > 0 => b[Len(b)].bucket_size = 1

\* A bucket stays light as what is newer grows.
LEMMA MoreIsNewer ==
  ASSUME NEW l \in Nat, NEW x \in Nat, NEW y \in Nat, AtMostTwice(l, x), x <= y
  PROVE  AtMostTwice(l, y)
<1> DEFINE w == K * l
<1>1. w \in Nat
  BY UnivHistogramAssumption
<1>2. w <= 2 * x
  BY DEF AtMostTwice
<1> HIDE DEF w
<1>3. w <= 2 * y
  BY <1>1, <1>2
<1> QED
  BY <1>3 DEF AtMostTwice, w

\* Two light neighbours become one bucket that is at most twice as heavy as it should be.
LEMMA LightAreJoined ==
  ASSUME NEW l \in Nat, NEW m \in Nat, NEW j \in Nat, NEW x \in Nat,
         j <= 2 * (l + m), IsLight(l, m, x)
  PROVE  AtMostTwice(j, x)
<1> DEFINE t == l + m
           w == K * t
           v == K * j
<1>0. t \in Nat /\ j <= 2 * t /\ K \in Nat
  BY UnivHistogramAssumption
<1>1. w <= x
  BY DEF IsLight
<1> HIDE DEF t
<1>2. PICK d \in Nat : 2 * t = j + d
  <2>1. 2 * t - j \in Nat /\ 2 * t = j + (2 * t - j)
    BY <1>0
  <2> QED
    BY <2>1
<1>3. K * (j + d) = v + K * d /\ K * d \in Nat /\ v \in Nat /\ w \in Nat
  BY <1>0
<1>4. K * (2 * t) = 2 * w
  BY <1>0
<1> DEFINE u == K * d
<1>5. v + u = 2 * w /\ u \in Nat
  BY <1>2, <1>3, <1>4
<1> HIDE DEF v, w, u
<1>6. v <= 2 * x
  BY <1>1, <1>3, <1>5
<1> QED
  BY <1>6 DEF AtMostTwice, v

\* A pair that is heavy stays heavy when its older part grows.
LEMMA HeavierIsNotLight ==
  ASSUME NEW l \in Nat, NEW m \in Nat, NEW x \in Nat, ~IsLight(l, m, x), NEW j \in Nat, l <= j
  PROVE  ~IsLight(j, m, x)
<1>1. PICK d \in Nat : j = l + d
  <2>1. j - l \in Nat /\ j = l + (j - l)
    OBVIOUS
  <2> QED
    BY <2>1
<1> DEFINE w == K * (l + m)
           u == K * d
<1>2. K \in Nat /\ w \in Nat /\ u \in Nat /\ ~(w <= x)
  BY UnivHistogramAssumption DEF IsLight
<1>3. K * (j + m) = w + u
  <2>1. j + m = (l + m) + d
    BY <1>1
  <2> DEFINE t == l + m
  <2>2. t \in Nat /\ j + m = t + d
    BY <2>1
  <2> HIDE DEF t
  <2>3. K * (t + d) = K * t + K * d
    BY <1>2, <2>2
  <2> QED
    BY <2>2, <2>3 DEF t
<1> HIDE DEF w, u
<1>4. ~(w + u <= x)
  BY <1>2
<1> QED
  BY <1>3, <1>4 DEF IsLight

\* The newest pair is never light, as nothing is newer.
LEMMA NewestIsHeavy ==
  ASSUME NEW l \in Nat, NEW m \in Nat, m >= 1
  PROVE  ~IsLight(l, m, 0)
<1>1. K \in Nat \ {0}
  BY UnivHistogramAssumption
<1> DEFINE t == l + m
<1>2. t \in Nat \ {0}
  OBVIOUS
<1> HIDE DEF t
<1>3. K * t \in Nat \ {0}
  BY <1>1, <1>2
<1>4. ~(K * t <= 0)
  BY <1>3
<1> QED
  BY <1>4 DEF IsLight, t

\* Each map has a positive norm.
LEMMA WeightsAre ==
  ASSUME NEW s, Ordered(s), NEW b, NEW e, Layered("maps", s, b, e)
  PROVE  \A n \in 1..Len(b) : calc_l22(b[n]) \in Nat /\ calc_l22(b[n]) >= 1
<1> SUFFICES ASSUME NEW n \in 1..Len(b)
             PROVE  calc_l22(b[n]) \in Nat /\ calc_l22(b[n]) >= 1
  OBVIOUS
<1>1. /\ b[n].samples \in Seq(Samples) /\ Len(b[n].samples) = b[n].bucket_size
      /\ b[n].bucket_size \in Nat \ {0}
  <2>1. \A k \in 1..Len(b) : b[k].samples \in Seq(Samples)
    BY LayeredFacts
  <2>2. Len(b[n].samples) = b[n].bucket_size
    BY LayeredLength
  <2>3. \A k \in 1..Len(b) : b[k].bucket_size \in Nat \ {0}
    BY LayeredFacts
  <2> QED
    BY <2>1, <2>2, <2>3
<1>2. Len(b[n].samples) > 0
  BY <1>1
<1> QED
  BY <1>1, <1>2, SquaresBoth, SquaresPositive DEF calc_l22

\* Sums of norms are numbers.
LEMMA WeighsFacts ==
  ASSUME NEW b, Len(b) \in Nat, NEW a, Weighs(b, a)
  PROVE  /\ \A n \in 0..Len(b) : a[n] \in Nat
         /\ \A n \in 1..Len(b) : a[n - 1] \in Nat /\ a[n] \in Nat
  <1>1. \A n \in 0..Len(b) : a[n] \in Nat
    BY DEF Weighs
  <1>2. \A n \in 1..Len(b) : n \in 0..Len(b) /\ n - 1 \in 0..Len(b)
    OBVIOUS
  <1> QED
    BY <1>1, <1>2

\* A light pair becomes one bucket: it is not too heavy, what is before it has more behind
\* it, and the pairs from it on stay heavy.
LEMMA JoinWeighed ==
  ASSUME NEW s, Ordered(s), NEW b, NEW e, Layered("maps", s, b, e),
         NEW n \in Nat \ {0}, n < Len(b), NEW a, Weighed(b, a, n + 1),
         IsLight(calc_l22(b[n]), calc_l22(b[n + 1]), a[n + 1])
  PROVE  LET c == Splice(b, JoinIn("maps", b[n], b[n + 1]), n)
         IN  \E a2 : Weighed(c, a2, n) /\ a2[n] = a[n + 1]
<1> DEFINE L == Len(b)
           x == JoinIn("maps", b[n], b[n + 1])
           c == Splice(b, x, n)
           l == calc_l22(b[n])
           m == calc_l22(b[n + 1])
           j == calc_l22(x)
           d == j - (l + m)
           a2 == [k \in 0..(L - 1) |-> IF k < n THEN a[k] + d ELSE a[k + 1]]
<1>1. /\ L \in Nat /\ \A k \in 1..L : b[k].samples \in Seq(Samples)
      /\ \A k \in 1..L : b[k].bucket_size \in Nat \ {0}
  BY LayeredFacts
<1>2. \A k \in 1..L : calc_l22(b[k]) \in Nat /\ calc_l22(b[k]) >= 1
  BY WeightsAre
<1>3. /\ Weighs(b, a)
      /\ \A k \in 1..L : b[k].bucket_size > 1 => AtMostTwice(calc_l22(b[k]), a[k])
      /\ \A k \in 1..L : n + 1 <= k /\ k < L =>
           ~IsLight(calc_l22(b[k]), calc_l22(b[k + 1]), a[k + 1])
      /\ b[L].bucket_size = 1
  BY DEF Weighed
<1>4. /\ \A k \in 0..L : a[k] \in Nat
      /\ \A k \in 1..L : a[k - 1] = a[k] + calc_l22(b[k])
      /\ a[L] = 0
  BY <1>1, <1>3, WeighsFacts DEF Weighs
<1>n. n \in 1..L /\ n + 1 \in 1..L /\ (n + 1) - 1 = n
  BY <1>1
<1>5. /\ Len(c) = L - 1
      /\ \A k \in 1..(L - 1) : /\ k < n => c[k] = b[k]
                               /\ k = n => c[k] = x
                               /\ k > n => c[k] = b[k + 1]
  <2>1. IsSeq(b)
    BY DEF Layered
  <2> HIDE DEF x
  <2> QED
    BY <2>1, SpliceIs
<1>6. l \in Nat /\ m \in Nat /\ m >= 1 /\ l >= 1
  BY <1>2, <1>n
<1>7. j \in Nat /\ l + m <= j /\ j <= 2 * (l + m)
  <2>1. x = MergeMaps(b[n], b[n + 1])
    BY DEF JoinIn
  <2> HIDE DEF x
  <2>2. x.samples = b[n].samples \o b[n + 1].samples
    BY <2>1 DEF MergeMaps
  <2>3. b[n].samples \in Seq(Samples) /\ b[n + 1].samples \in Seq(Samples)
    BY <1>1, <1>n
  <2> QED
    BY <2>2, <2>3, SquaresBoth DEF calc_l22
<1>8. n + 1 # L
  <2> SUFFICES ASSUME n + 1 = L PROVE FALSE
    OBVIOUS
  <2>1. IsLight(l, m, 0)
    BY <1>4
  <2> HIDE DEF l, m
  <2> QED
    BY <1>6, <2>1, NewestIsHeavy
<1> HIDE DEF x, c, L
<1>9. d \in Nat /\ j = l + m + d
  <2> HIDE DEF j, l, m
  <2> QED
    BY <1>6, <1>7
<1> HIDE DEF d
<1>10. /\ \A k \in 0..(L - 1) : a2[k] = IF k < n THEN a[k] + d ELSE a[k + 1]
       /\ a2 \in [0..(L - 1) -> Nat]
  <2>1. \A k \in 0..(L - 1) : k \in 0..L /\ k + 1 \in 0..L
    BY <1>1
  <2> QED
    BY <1>4, <1>9, <2>1
<1> HIDE DEF a2
<1>11. a2[L - 1] = 0 /\ a2[n] = a[n + 1]
  <2>1. L - 1 \in 0..(L - 1) /\ ~(L - 1 < n) /\ (L - 1) + 1 = L /\ n \in 0..(L - 1) /\ ~(n < n)
    BY <1>1, <1>n
  <2> QED
    BY <1>4, <1>10, <2>1
<1> HIDE DEF l, m, j
<1>12. ASSUME NEW k \in 1..(L - 1)
       PROVE  /\ a2[k - 1] = a2[k] + calc_l22(c[k])
              /\ c[k].bucket_size > 1 => AtMostTwice(calc_l22(c[k]), a2[k])
              /\ n <= k /\ k < L - 1 =>
                   ~IsLight(calc_l22(c[k]), calc_l22(c[k + 1]), a2[k + 1])
  <2>0. /\ k \in 1..L /\ k + 1 \in 1..L /\ (k + 1) - 1 = k /\ (k - 1) + 1 = k /\ k \in Nat
        /\ k - 1 \in 0..(L - 1) /\ k \in 0..(L - 1) /\ k \in 0..L /\ k - 1 \in 0..L /\ k + 1 \in 0..L
    BY <1>1
  <2>1. CASE k < n
    <3>1. /\ a2[k - 1] = a[k - 1] + d /\ a2[k] = a[k] + d /\ c[k] = b[k]
      BY <1>5, <1>10, <2>0, <2>1
    <3>2. /\ a[k - 1] = a[k] + calc_l22(b[k]) /\ a[k] \in Nat /\ a[k - 1] \in Nat
          /\ calc_l22(b[k]) \in Nat
      BY <1>2, <1>4, <2>0
    <3> DEFINE lk == calc_l22(b[k])
               ak == a[k]
    <3>3. a[k - 1] = ak + lk /\ ak \in Nat /\ lk \in Nat
      BY <3>2
    <3>4. c[k].bucket_size > 1 => AtMostTwice(lk, ak)
      BY <1>3, <2>0, <3>1
    <3>5. a2[k - 1] = (ak + lk) + d /\ a2[k] = ak + d /\ calc_l22(c[k]) = lk
      BY <3>1, <3>3
    <3> HIDE DEF lk, ak
    <3>6. AtMostTwice(lk, ak) => AtMostTwice(lk, ak + d)
      <4>1. ak + d \in Nat /\ ak <= ak + d
        BY <1>9, <3>3
      <4> QED
        BY <3>3, <4>1, MoreIsNewer
    <3>7. (ak + lk) + d = (ak + d) + lk
      BY <1>9, <3>3
    <3>8. ~(n <= k)
      BY <2>0, <2>1
    <3> QED
      BY <3>4, <3>5, <3>6, <3>7, <3>8
  <2>2. CASE k > n
    <3>1. ~(k < n) /\ ~(k - 1 < n) /\ n + 1 <= k + 1
      BY <2>0, <2>2
    <3>2. a2[k - 1] = a[k] /\ a2[k] = a[k + 1] /\ c[k] = b[k + 1]
      BY <1>5, <1>10, <2>0, <2>2, <3>1
    <3>3. a[k] = a[k + 1] + calc_l22(b[k + 1])
      BY <1>4, <2>0
    <3>4. b[k + 1].bucket_size > 1 => AtMostTwice(calc_l22(b[k + 1]), a[k + 1])
      BY <1>3, <2>0
    <3>5. ASSUME k < L - 1
          PROVE  ~IsLight(calc_l22(c[k]), calc_l22(c[k + 1]), a2[k + 1])
      <4>1. /\ k + 1 \in 1..(L - 1) /\ k + 1 > n /\ ~(k + 1 < n) /\ k + 1 \in 0..(L - 1)
            /\ k + 1 < L /\ n + 1 <= k + 1
        BY <1>1, <2>0, <2>2, <3>5
      <4>2. c[k + 1] = b[(k + 1) + 1] /\ a2[k + 1] = a[(k + 1) + 1]
        BY <1>5, <1>10, <4>1
      <4>3. ~IsLight(calc_l22(b[k + 1]), calc_l22(b[(k + 1) + 1]), a[(k + 1) + 1])
        BY <1>3, <2>0, <4>1
      <4> QED
        BY <3>2, <4>2, <4>3
    <3> QED
      BY <3>2, <3>3, <3>4, <3>5
  <2>3. CASE k = n
    <3>1. ~(k < n) /\ k - 1 < n
      BY <2>0, <2>3
    <3>2. a2[k - 1] = a[n - 1] + d /\ a2[k] = a[n + 1] /\ c[k] = x
      BY <1>10, <1>5, <2>0, <2>3, <3>1
    <3>3. a[n - 1] = a[n] + l /\ a[n] = a[n + 1] + m
      BY <1>4, <1>n DEF l, m
    <3> DEFINE y == a[n + 1]
    <3>4. y \in Nat
      BY <1>4, <2>0, <2>3
    <3>5. a[n - 1] + d = y + j
      <4>1. a[n - 1] = (y + m) + l
        BY <3>3
      <4> HIDE DEF y
      <4> QED
        BY <1>6, <1>9, <3>4, <4>1
    <3>6. AtMostTwice(j, y)
      <4>1. IsLight(l, m, y)
        BY DEF l, m
      <4> HIDE DEF y
      <4> QED
        BY <1>6, <1>7, <3>4, <4>1, LightAreJoined
    <3>7. ASSUME k < L - 1
          PROVE  ~IsLight(calc_l22(c[k]), calc_l22(c[k + 1]), a2[k + 1])
      <4>1. /\ k + 1 \in 1..(L - 1) /\ k + 1 > n /\ ~(k + 1 < n) /\ k + 1 \in 0..(L - 1)
            /\ k + 1 < L /\ n + 1 <= k + 1 /\ (k + 1) + 1 \in 1..L /\ (k + 1) + 1 \in 0..L
        BY <1>1, <2>0, <2>3, <3>7
      <4>2. c[k + 1] = b[(k + 1) + 1] /\ a2[k + 1] = a[(k + 1) + 1]
        BY <1>5, <1>10, <4>1
      <4>3. ~IsLight(m, calc_l22(b[(k + 1) + 1]), a[(k + 1) + 1])
        BY <1>3, <2>0, <2>3, <4>1 DEF m
      <4>4. calc_l22(b[(k + 1) + 1]) \in Nat /\ a[(k + 1) + 1] \in Nat /\ m <= j
        BY <1>2, <1>4, <1>6, <1>7, <4>1
      <4>5. ~IsLight(j, calc_l22(b[(k + 1) + 1]), a[(k + 1) + 1])
        BY <1>6, <1>7, <4>3, <4>4, HeavierIsNotLight
      <4> QED
        BY <3>2, <4>2, <4>5 DEF j
    <3> QED
      BY <3>2, <3>5, <3>6, <3>7 DEF j
  <2> QED
    BY <2>0, <2>1, <2>2, <2>3
<1>13. c[L - 1].bucket_size = 1
  <2>1. L - 1 \in 1..(L - 1) /\ L - 1 > n /\ (L - 1) + 1 = L
    BY <1>1, <1>8, <1>n DEF L
  <2> QED
    BY <1>3, <1>5, <2>1
<1>14. Weighs(c, a2)
  BY <1>5, <1>10, <1>11, <1>12 DEF Weighs
<1>15. Weighed(c, a2, n)
  BY <1>5, <1>12, <1>13, <1>14 DEF Weighed
<1> QED
  BY <1>11, <1>15 DEF c, x

-----------------------------------------------------------------------------
(* The pass over the pairs *)

\* One step of the loop, from what the pairs after it left.
PairStep(layer, b, sum0, i, last) ==
  IF i = 0 THEN [b |-> b, sum |-> sum0]
  ELSE IF i = Len(b) THEN last
  ELSE VisitPair(layer, last, Len(b) - i)

\* g holds the first steps.
PairsOf(layer, b, sum0, N, g) ==
  g = [i \in 0..N |-> PairStep(layer, b, sum0, i, g[i - 1])]

\* The recursion of the merge loop has a solution.
LEMMA PairsExist ==
  ASSUME NEW layer, NEW b, NEW sum0, NEW N \in Nat
  PROVE  \E g : PairsOf(layer, b, sum0, N, g)
<1> DEFINE Wrong == {n \in Nat : ~ \E g : PairsOf(layer, b, sum0, n, g)}
<1> SUFFICES ASSUME Wrong # {} PROVE FALSE
  OBVIOUS
<1>1. PICK n \in Wrong : \A m \in Wrong : n <= m
  <2>1. Wrong \in SUBSET Nat
    OBVIOUS
  <2> HIDE DEF Wrong
  <2> QED
    BY <2>1, SmallestNat
<1>2. n \in Nat /\ ~ \E g : PairsOf(layer, b, sum0, n, g)
  BY <1>1
<1>3. n # 0
  <2> DEFINE g == [m \in 0..0 |-> [b |-> b, sum |-> sum0]]
  <2>1. \A m \in 0..0 : g[m] = PairStep(layer, b, sum0, m, g[m - 1])
    BY DEF PairStep
  <2>2. g = [m \in 0..0 |-> g[m]]
    OBVIOUS
  <2> HIDE DEF g
  <2>3. PairsOf(layer, b, sum0, 0, g)
    BY <2>1, <2>2 DEF PairsOf
  <2> QED
    BY <1>2, <2>3
<1>4. n - 1 \in Nat /\ ~(n <= n - 1)
  BY <1>2, <1>3
<1>5. PICK g : PairsOf(layer, b, sum0, n - 1, g)
  BY <1>1, <1>4
<1> DEFINE new == PairStep(layer, b, sum0, n, g[n - 1])
           h == [m \in 0..n |-> IF m < n THEN g[m] ELSE new]
<1>6. ASSUME NEW m \in 0..n
      PROVE  h[m] = PairStep(layer, b, sum0, m, h[m - 1])
  <2>1. CASE m = 0
    <3>1. h[0] = g[0]
      BY <1>2, <1>3
    <3>2. 0 \in 0..(n - 1)
      BY <1>4
    <3>3. g[0] = PairStep(layer, b, sum0, 0, g[0 - 1])
      BY <1>5, <3>2 DEF PairsOf
    <3> HIDE DEF h
    <3> QED
      BY <2>1, <3>1, <3>3 DEF PairStep
  <2>2. CASE m # 0 /\ m < n
    <3>1. m \in 0..(n - 1) /\ m - 1 \in 0..n /\ m - 1 < n
      BY <1>2, <2>2
    <3>2. g[m] = PairStep(layer, b, sum0, m, g[m - 1])
      BY <1>5, <3>1 DEF PairsOf
    <3>3. h[m] = g[m] /\ h[m - 1] = g[m - 1]
      BY <2>2, <3>1
    <3> HIDE DEF h
    <3> QED
      BY <3>2, <3>3
  <2>3. CASE ~(m < n)
    <3>1. m = n /\ n - 1 \in 0..n /\ n - 1 < n
      BY <1>2, <1>4, <2>3
    <3>2. h[m] = new /\ h[m - 1] = g[m - 1]
      BY <2>3, <3>1
    <3> HIDE DEF h
    <3> QED
      BY <3>1, <3>2 DEF new
  <2> QED
    BY <2>1, <2>2, <2>3
<1>7. h = [m \in 0..n |-> h[m]]
  OBVIOUS
<1> HIDE DEF h
<1>8. PairsOf(layer, b, sum0, n, h)
  BY <1>6, <1>7 DEF PairsOf
<1> QED
  BY <1>2, <1>8

\* So the loop's table satisfies its recursion.
LEMMA PairPassIs ==
  ASSUME NEW layer, NEW b, NEW sum0, Len(b) \in Nat
  PROVE  PairsOf(layer, b, sum0, Len(b), PairPass(layer, b, sum0))
<1>1. PairPass(layer, b, sum0) = CHOOSE g : PairsOf(layer, b, sum0, Len(b), g)
  BY DEF PairPass, PairsOf, PairStep
<1> QED
  BY <1>1, PairsExist

\* After the pairs from n on were looked at.
Passed(layer, s, lo, hi, n, p) ==
  /\ DOMAIN p = {"b", "sum"}
  /\ \E e, a : /\ Layered(layer, s, p.b, e) /\ e[0] = lo /\ e[Len(p.b)] = hi
               /\ n <= Len(p.b)
               /\ layer = "maps" => Weighed(p.b, a, n) /\ p.sum = a[n]

\* One iteration of the loop: the pair is light and becomes one bucket, or is heavy and stays.
LEMMA VisitPairKeeps ==
  ASSUME NEW layer \in Layer, NEW s, Ordered(s), NEW lo, NEW hi, NEW n \in Nat \ {0}, NEW p,
         Passed(layer, s, lo, hi, n + 1, p)
  PROVE  Passed(layer, s, lo, hi, n, VisitPair(layer, p, n))
<1>1. DOMAIN p = {"b", "sum"}
  BY DEF Passed
<1>2. PICK e, a : /\ Layered(layer, s, p.b, e) /\ e[0] = lo /\ e[Len(p.b)] = hi
                  /\ n + 1 <= Len(p.b)
                  /\ layer = "maps" => Weighed(p.b, a, n + 1) /\ p.sum = a[n + 1]
  BY DEF Passed
<1> DEFINE b == p.b
           L == Len(b)
           l == L22Of(layer, b[n])
           m == L22Of(layer, b[n + 1])
           q == VisitPair(layer, p, n)
<1>3. /\ L \in Nat /\ n < L /\ n \in 1..L /\ n + 1 \in 1..L /\ (n + 1) - 1 = n
  BY <1>2, LayeredFacts
<1>4. CASE IsLight(l, m, p.sum)
  <2> DEFINE x == JoinIn(layer, b[n], b[n + 1])
             c == Splice(b, x, n)
             e2 == [k \in 0..(L - 1) |-> IF k < n THEN e[k] ELSE e[k + 1]]
  <2>1. DOMAIN q = {"b", "sum"} /\ q.b = c /\ q.sum = p.sum
    <3>1. q = [p EXCEPT !.b = c]
      BY <1>4 DEF VisitPair, Splice
    <3> HIDE DEF c
    <3> QED
      BY <1>1, <3>1
  <2>2. /\ Layered(layer, s, c, e2) /\ Len(c) = L - 1 /\ e2[0] = e[0] /\ e2[Len(c)] = e[L]
    <3>1. Layered(layer, s, b, e) /\ n < Len(b)
      BY <1>2, <1>3
    <3> HIDE DEF b
    <3>2. LET c2 == Splice(b, JoinIn(layer, b[n], b[n + 1]), n)
              e3 == [k \in 0..(Len(b) - 1) |-> IF k < n THEN e[k] ELSE e[k + 1]]
          IN  Layered(layer, s, c2, e3) /\ Len(c2) = Len(b) - 1 /\ e3[0] = e[0] /\ e3[Len(c2)] = e[Len(b)]
      BY <3>1, JoinPair
    <3> QED
      BY <3>2
  <2>3. ASSUME layer = "maps" PROVE \E a2 : Weighed(c, a2, n) /\ p.sum = a2[n]
    <3>1. IsLight(calc_l22(b[n]), calc_l22(b[n + 1]), a[n + 1]) /\ Weighed(b, a, n + 1)
          /\ p.sum = a[n + 1] /\ Layered("maps", s, b, e) /\ x = JoinIn("maps", b[n], b[n + 1])
      BY <1>2, <1>4, <2>3 DEF L22Of
    <3> QED
      BY <1>3, <3>1, JoinWeighed
  <2> HIDE DEF c, e2, q
  <2>4. n <= Len(c)
    BY <1>3, <2>2
  <2>5. PICK a2 : layer = "maps" => Weighed(c, a2, n) /\ p.sum = a2[n]
    BY <2>3
  <2>6. Passed(layer, s, lo, hi, n, q)
    BY <1>2, <2>1, <2>2, <2>4, <2>5 DEF Passed
  <2> QED
    BY <2>6 DEF q
<1>5. CASE ~IsLight(l, m, p.sum)
  <2>1. DOMAIN q = {"b", "sum"} /\ q.b = b /\ q.sum = p.sum + m
    <3>1. q = [p EXCEPT !.sum = @ + m]
      BY <1>5 DEF VisitPair
    <3> HIDE DEF m
    <3> QED
      BY <1>1, <3>1
  <2>2. ASSUME layer = "maps" PROVE Weighed(b, a, n) /\ q.sum = a[n]
    <3>1. /\ Weighed(b, a, n + 1) /\ p.sum = a[n + 1] /\ l = calc_l22(b[n])
          /\ m = calc_l22(b[n + 1])
      BY <1>2, <2>2 DEF L22Of
    <3>2. /\ Weighs(b, a)
          /\ \A k \in 1..L : b[k].bucket_size > 1 => AtMostTwice(calc_l22(b[k]), a[k])
          /\ \A k \in 1..L : n + 1 <= k /\ k < L =>
               ~IsLight(calc_l22(b[k]), calc_l22(b[k + 1]), a[k + 1])
          /\ L > 0 => b[L].bucket_size = 1
      BY <3>1 DEF Weighed
    <3>3. q.sum = a[n]
      BY <1>3, <2>1, <3>1, <3>2 DEF Weighs
    <3>4. ASSUME NEW k \in 1..L, n <= k, k < L
          PROVE  ~IsLight(calc_l22(b[k]), calc_l22(b[k + 1]), a[k + 1])
      <4>1. k = n \/ n + 1 <= k
        BY <3>4
      <4> QED
        BY <1>5, <3>1, <3>2, <3>4, <4>1
    <3> HIDE DEF l, m, q
    <3> QED
      BY <3>2, <3>3, <3>4 DEF Weighed
  <2>3. n <= L
    BY <1>3
  <2> HIDE DEF q
  <2>4. Passed(layer, s, lo, hi, n, q)
    BY <1>2, <2>1, <2>2, <2>3 DEF Passed
  <2> QED
    BY <2>4 DEF q
<1> QED
  BY <1>4, <1>5

\* The whole loop, from the newest pair to the oldest.
LEMMA MergePassKeeps ==
  ASSUME NEW layer \in Layer, NEW s, Ordered(s), NEW b, NEW e, Layered(layer, s, b, e),
         Len(b) > 0, NEW sum0,
         NEW a, layer = "maps" => Weighed(b, a, Len(b)) /\ sum0 = 0
  PROVE  Passed(layer, s, e[0], e[Len(b)], 1, MergePass(layer, b, sum0))
<1> DEFINE N == Len(b)
           g == PairPass(layer, b, sum0)
           At0(i) == Passed(layer, s, e[0], e[N], N - i, g[i])
<1>1. N \in Nat
  BY LayeredFacts
<1>2. PairsOf(layer, b, sum0, N, g)
  BY <1>1, PairPassIs
<1> HIDE DEF g
<1>3. \A i \in 0..N : g[i] = PairStep(layer, b, sum0, i, g[i - 1])
  BY <1>2 DEF PairsOf
<1>4. At0(0)
  <2>1. g[0] = [b |-> b, sum |-> sum0]
    BY <1>1, <1>3 DEF PairStep
  <2>2. N - 0 = N /\ N <= N
    BY <1>1
  <2>3. layer = "maps" => a[N] = 0
    BY DEF Weighed, Weighs
  <2> DEFINE p == g[0]
  <2>4. DOMAIN p = {"b", "sum"} /\ p.b = b /\ p.sum = sum0
    BY <2>1
  <2> HIDE DEF p
  <2>5. Passed(layer, s, e[0], e[N], N, p)
    BY <2>2, <2>3, <2>4 DEF Passed
  <2> QED
    BY <2>2, <2>5 DEF p
<1>5. \A i \in 0..(N - 1) : At0(i)
  <2> DEFINE W == {i \in 0..(N - 1) : ~At0(i)}
  <2> SUFFICES ASSUME W # {} PROVE FALSE
    OBVIOUS
  <2>1. PICK i \in W : \A k \in W : i <= k
    <3>1. W \in SUBSET Nat
      BY <1>1
    <3> HIDE DEF W
    <3> QED
      BY <3>1, SmallestNat
  <2> HIDE DEF At0
  <2>2. i \in 0..(N - 1) /\ ~At0(i)
    BY <2>1
  <2>3. i # 0
    BY <1>4, <2>2
  <2>4. i - 1 \in 0..(N - 1) /\ ~(i <= i - 1) /\ i \in 0..N /\ i # N
    BY <1>1, <2>2, <2>3
  <2>5. At0(i - 1)
    BY <2>1, <2>4
  <2>6. g[i] = VisitPair(layer, g[i - 1], N - i)
    BY <1>3, <2>3, <2>4 DEF PairStep
  <2> DEFINE n == N - i
  <2>7. n \in Nat \ {0} /\ N - (i - 1) = n + 1
    BY <1>1, <2>2
  <2>8. Passed(layer, s, e[0], e[N], n + 1, g[i - 1])
    BY <2>5, <2>7 DEF At0
  <2> HIDE DEF n
  <2>9. Passed(layer, s, e[0], e[N], n, VisitPair(layer, g[i - 1], n))
    BY <2>7, <2>8, VisitPairKeeps
  <2> QED
    BY <2>2, <2>6, <2>9 DEF At0, n
<1>6. g[N] = g[N - 1] /\ N - 1 \in 0..(N - 1) /\ N - (N - 1) = 1
  <2>1. N \in 0..N /\ N # 0
    BY <1>1
  <2>2. g[N] = PairStep(layer, b, sum0, N, g[N - 1])
    BY <1>3, <2>1
  <2> QED
    BY <1>1, <2>1, <2>2 DEF PairStep
<1>7. Passed(layer, s, e[0], e[N], 1, g[N])
  <2>1. At0(N - 1)
    BY <1>5, <1>6
  <2> QED
    BY <1>6, <2>1
<1> QED
  BY <1>7 DEF MergePass, g

-----------------------------------------------------------------------------
(* Expiry, a new map, promotion *)

\* Without its first r elements.
LEMMA DropIs ==
  ASSUME NEW b, IsSeq(b), NEW r \in 0..Len(b)
  PROVE  LET c == SubSeq(b, r + 1, Len(b))
         IN  /\ IsSeq(c) /\ Len(c) = Len(b) - r
             /\ \A m \in 1..(Len(b) - r) : c[m] = b[r + m]
<1> DEFINE L == Len(b)
           c == SubSeq(b, r + 1, L)
<1>1. L \in Nat /\ r \in Nat /\ r <= L /\ \A m \in 1..L : b[m] \in Range(b)
  BY SeqFacts
<1> HIDE DEF L
<1>2. \A m \in (r + 1)..L : b[m] \in Range(b)
  BY <1>1
<1>3. /\ c \in Seq(Range(b))
      /\ Len(c) = IF r + 1 <= L THEN L - (r + 1) + 1 ELSE 0
      /\ \A m \in 1..(L - (r + 1) + 1) : c[m] = b[(r + 1) + m - 1]
  <2> DEFINE S == Range(b)
  <2>1. r + 1 \in Int /\ L \in Int /\ \A m \in (r + 1)..L : b[m] \in S
    BY <1>1, <1>2
  <2> HIDE DEF S
  <2>2. /\ c \in Seq(S)
        /\ Len(c) = IF r + 1 <= L THEN L - (r + 1) + 1 ELSE 0
        /\ \A m \in 1..(L - (r + 1) + 1) : c[m] = b[(r + 1) + m - 1]
    BY <2>1, SubSeqProperties
  <2> QED
    BY <2>2 DEF S
<1> HIDE DEF c
<1>4. \A m \in 1..(L - r) : m \in 1..(L - (r + 1) + 1) /\ (r + 1) + m - 1 = r + m
  BY <1>1
<1>5. Len(c) = L - r
  BY <1>1, <1>3
<1>6. IsSeq(c)
  BY <1>3, SeqIsSeq
<1> QED
  BY <1>3, <1>4, <1>5, <1>6 DEF c, L

\* Without its oldest buckets a layer is a layer of fewer samples.
LEMMA DropLayer ==
  ASSUME NEW layer, NEW s, Ordered(s), NEW b, NEW e, Layered(layer, s, b, e), NEW r \in 0..Len(b)
  PROVE  LET c == SubSeq(b, r + 1, Len(b))
             e2 == [m \in 0..(Len(b) - r) |-> e[r + m]]
         IN  /\ Layered(layer, s, c, e2) /\ Len(c) = Len(b) - r
             /\ e2[0] = e[r] /\ e2[Len(c)] = e[Len(b)]
<1> DEFINE L == Len(b)
           c == SubSeq(b, r + 1, L)
           e2 == [m \in 0..(L - r) |-> e[r + m]]
<1>1. /\ L \in Nat /\ \A m \in 0..L : e[m] \in 0..Len(s)
      /\ \A m \in 1..L : e[m - 1] < e[m] /\ PartIs(layer, s, b[m], e[m - 1], e[m])
  BY LayeredFacts
<1>2. IsSeq(c) /\ Len(c) = L - r /\ \A m \in 1..(L - r) : c[m] = b[r + m]
  BY DropIs DEF Layered
<1>3. r \in Nat /\ r <= L
  BY <1>1
<1> HIDE DEF c, L
<1>4. /\ e2 \in [0..(L - r) -> 0..Len(s)]
      /\ \A m \in 0..(L - r) : e2[m] = e[r + m]
  <2>1. \A m \in 0..(L - r) : r + m \in 0..L
    BY <1>1, <1>3
  <2> QED
    BY <1>1, <2>1
<1> HIDE DEF e2
<1>5. ASSUME NEW m \in 1..(L - r)
      PROVE  e2[m - 1] < e2[m] /\ PartIs(layer, s, c[m], e2[m - 1], e2[m])
  <2>1. /\ r + m \in 1..L /\ r + (m - 1) = (r + m) - 1
        /\ m - 1 \in 0..(L - r) /\ m \in 0..(L - r)
    BY <1>1, <1>3
  <2>2. e2[m - 1] = e[(r + m) - 1] /\ e2[m] = e[r + m] /\ c[m] = b[r + m]
    BY <1>2, <1>4, <2>1
  <2> QED
    BY <1>1, <2>1, <2>2
<1>6. Layered(layer, s, c, e2)
  BY <1>2, <1>4, <1>5 DEF Layered
<1>7. e2[0] = e[r] /\ e2[L - r] = e[L]
  <2>1. 0 \in 0..(L - r) /\ L - r \in 0..(L - r) /\ r + 0 = r /\ r + (L - r) = L
    BY <1>1, <1>3
  <2> QED
    BY <1>4, <2>1
<1> QED
  BY <1>2, <1>6, <1>7 DEF c, e2, L

\* The norms of what remains are weighed as before.
LEMMA DropWeighed ==
  ASSUME NEW b, IsSeq(b), NEW a, Weighed(b, a, 1), NEW r \in 0..Len(b)
  PROVE  \E a2 : Weighed(SubSeq(b, r + 1, Len(b)), a2, 1)
<1> DEFINE L == Len(b)
           c == SubSeq(b, r + 1, L)
           a2 == [m \in 0..(L - r) |-> a[r + m]]
<1>1. L \in Nat /\ r \in Nat /\ r <= L
  BY SeqFacts
<1>2. Len(c) = L - r /\ \A m \in 1..(L - r) : c[m] = b[r + m]
  BY DropIs
<1>3. /\ Weighs(b, a)
      /\ \A k \in 1..L : b[k].bucket_size > 1 => AtMostTwice(calc_l22(b[k]), a[k])
      /\ \A k \in 1..L : 1 <= k /\ k < L =>
           ~IsLight(calc_l22(b[k]), calc_l22(b[k + 1]), a[k + 1])
      /\ L > 0 => b[L].bucket_size = 1
  BY DEF Weighed
<1>4. /\ \A k \in 0..L : a[k] \in Nat
      /\ \A k \in 1..L : a[k - 1] = a[k] + calc_l22(b[k])
      /\ a[L] = 0
  BY <1>1, <1>3, WeighsFacts DEF Weighs
<1> HIDE DEF c, L
<1>5. /\ a2 \in [0..(L - r) -> Nat]
      /\ \A m \in 0..(L - r) : a2[m] = a[r + m]
  <2>1. \A m \in 0..(L - r) : r + m \in 0..L
    BY <1>1
  <2> QED
    BY <1>4, <2>1
<1> HIDE DEF a2
<1>6. a2[L - r] = 0
  <2>1. L - r \in 0..(L - r) /\ r + (L - r) = L
    BY <1>1
  <2> QED
    BY <1>4, <1>5, <2>1
<1>7. ASSUME NEW m \in 1..(L - r)
      PROVE  /\ a2[m - 1] = a2[m] + calc_l22(c[m])
             /\ c[m].bucket_size > 1 => AtMostTwice(calc_l22(c[m]), a2[m])
             /\ m < L - r => ~IsLight(calc_l22(c[m]), calc_l22(c[m + 1]), a2[m + 1])
  <2>1. /\ r + m \in 1..L /\ r + (m - 1) = (r + m) - 1
        /\ m - 1 \in 0..(L - r) /\ m \in 0..(L - r) /\ 1 <= r + m
    BY <1>1
  <2>2. a2[m - 1] = a[(r + m) - 1] /\ a2[m] = a[r + m] /\ c[m] = b[r + m]
    BY <1>2, <1>5, <2>1
  <2>3. ASSUME m < L - r PROVE ~IsLight(calc_l22(c[m]), calc_l22(c[m + 1]), a2[m + 1])
    <3>1. /\ m + 1 \in 1..(L - r) /\ m + 1 \in 0..(L - r) /\ r + (m + 1) = (r + m) + 1
          /\ r + m < L
      BY <1>1, <2>3
    <3>2. a2[m + 1] = a[(r + m) + 1] /\ c[m + 1] = b[(r + m) + 1]
      BY <1>2, <1>5, <3>1
    <3> QED
      BY <1>3, <2>1, <2>2, <3>1, <3>2
  <2> QED
    BY <1>3, <1>4, <2>1, <2>2, <2>3
<1>8. ASSUME L - r > 0 PROVE c[L - r].bucket_size = 1
  <2>1. L - r \in 1..(L - r) /\ r + (L - r) = L /\ L > 0
    BY <1>1, <1>8
  <2> QED
    BY <1>2, <1>3, <2>1
<1>9. Weighs(c, a2)
  BY <1>2, <1>5, <1>6, <1>7 DEF Weighs
<1>10. Weighed(c, a2, 1)
  BY <1>2, <1>7, <1>8, <1>9 DEF Weighed
<1> QED
  BY <1>10 DEF c, L

\* One more bucket, that ends at hi.
Extended(layer, s, b, e, x, hi) ==
  \E e2 : /\ Layered(layer, s, Append(b, x), e2)
          /\ e2[0] = e[0] /\ e2[Len(b) + 1] = hi

\* A layer with another bucket behind it.
LEMMA AppendLayer ==
  ASSUME NEW layer, NEW s, Ordered(s), NEW b, NEW e, Layered(layer, s, b, e),
         NEW lo, lo = e[Len(b)], NEW hi \in 0..Len(s), lo < hi,
         NEW x, PartIs(layer, s, x, lo, hi)
  PROVE  Extended(layer, s, b, e, x, hi)
<1> DEFINE L == Len(b)
           c == Append(b, x)
           e2 == [m \in 0..(L + 1) |-> IF m <= L THEN e[m] ELSE hi]
<1>1. /\ L \in Nat /\ \A m \in 0..L : e[m] \in 0..Len(s)
      /\ \A m \in 1..L : e[m - 1] < e[m] /\ PartIs(layer, s, b[m], e[m - 1], e[m])
  BY LayeredFacts
<1>2. /\ IsSeq(c) /\ Len(c) = L + 1 /\ \A m \in 1..L : c[m] = b[m]
      /\ c[L + 1] = x
  <2>1. IsSeq(b)
    BY DEF Layered
  <2> DEFINE S == Range(b) \cup {x}
  <2>2. b \in Seq(S) /\ x \in S
    <3>1. \A m \in 1..Len(b) : b[m] \in S
      BY <2>1, SeqFacts
    <3>2. b \in [1..Len(b) -> S] /\ Len(b) \in Nat
      BY <2>1, <3>1, SeqFacts
    <3>3. Seq(S) = UNION {[1..n -> S] : n \in Nat}
      BY SeqDef
    <3> QED
      BY <3>2, <3>3
  <2> HIDE DEF S
  <2>3. /\ c \in Seq(S) /\ Len(c) = Len(b) + 1
        /\ \A i \in 1..Len(b) : c[i] = b[i]
        /\ c[Len(b) + 1] = x
    BY <2>2, AppendProperties
  <2> QED
    BY <2>3, SeqIsSeq
<1> HIDE DEF c, L
<1>3. /\ e2 \in [0..(L + 1) -> 0..Len(s)]
      /\ \A m \in 0..(L + 1) : e2[m] = IF m <= L THEN e[m] ELSE hi
  <2>1. \A m \in 0..(L + 1) : m <= L => m \in 0..L
    BY <1>1
  <2> QED
    BY <1>1, <2>1
<1> HIDE DEF e2
<1>4. ASSUME NEW m \in 1..(L + 1)
      PROVE  e2[m - 1] < e2[m] /\ PartIs(layer, s, c[m], e2[m - 1], e2[m])
  <2>1. m - 1 \in 0..(L + 1) /\ m \in 0..(L + 1) /\ m - 1 <= L
    BY <1>1
  <2>2. CASE m <= L
    <3>1. m \in 1..L
      BY <2>2
    <3> QED
      BY <1>1, <1>2, <1>3, <2>1, <2>2, <3>1
  <2>3. CASE ~(m <= L)
    <3>1. m = L + 1 /\ m - 1 = L
      BY <1>1, <2>3
    <3>2. e2[m - 1] = e[L] /\ e2[m] = hi /\ c[m] = x
      BY <1>2, <1>3, <2>1, <2>3, <3>1
    <3> QED
      BY <3>2 DEF L
  <2> QED
    BY <2>2, <2>3
<1>5. Layered(layer, s, c, e2)
  BY <1>2, <1>3, <1>4 DEF Layered
<1>6. e2[0] = e[0] /\ e2[L + 1] = hi
  <2>1. 0 \in 0..(L + 1) /\ 0 <= L /\ L + 1 \in 0..(L + 1) /\ ~(L + 1 <= L)
    BY <1>1
  <2> QED
    BY <1>3, <2>1
<1> QED
  BY <1>5, <1>6 DEF c, L, Extended

\* A new map of one sample weighs on those before it; only the pair with it is yet unseen.
LEMMA AppendWeighed ==
  ASSUME NEW s, Ordered(s), NEW b, NEW e, Layered("maps", s, b, e), NEW a, Weighed(b, a, 1),
         NEW x, x.bucket_size = 1, calc_l22(x) \in Nat
  PROVE  \E a2 : Weighed(Append(b, x), a2, Len(b) + 1)
<1> DEFINE L == Len(b)
           c == Append(b, x)
           w == calc_l22(x)
           a2 == [m \in 0..(L + 1) |-> IF m <= L THEN a[m] + w ELSE 0]
<1>1. L \in Nat /\ w \in Nat
  BY LayeredFacts
<1>2. Len(c) = L + 1 /\ c[L + 1] = x /\ \A m \in 1..L : c[m] = b[m]
  <2>1. b \in Seq(Range(b)) /\ Range(b) \subseteq Range(b) \cup {x}
    BY DEF Layered, IsSeq
  <2> DEFINE S == Range(b) \cup {x}
  <2>2. b \in Seq(S) /\ x \in S
    BY <2>1
  <2> HIDE DEF S
  <2> QED
    BY <2>2, AppendProperties
<1>3. /\ Weighs(b, a)
      /\ \A k \in 1..L : b[k].bucket_size > 1 => AtMostTwice(calc_l22(b[k]), a[k])
  BY DEF Weighed
<1>4. /\ \A k \in 0..L : a[k] \in Nat
      /\ \A k \in 1..L : a[k - 1] = a[k] + calc_l22(b[k])
      /\ a[L] = 0
  BY <1>1, <1>3, WeighsFacts DEF Weighs
<1>5. \A k \in 1..L : calc_l22(b[k]) \in Nat
  BY WeightsAre
<1> HIDE DEF c, L, w
<1>6. /\ a2 \in [0..(L + 1) -> Nat]
      /\ \A m \in 0..(L + 1) : a2[m] = IF m <= L THEN a[m] + w ELSE 0
  <2>1. \A m \in 0..(L + 1) : m <= L => m \in 0..L
    BY <1>1
  <2> QED
    BY <1>1, <1>4, <2>1
<1> HIDE DEF a2
<1>7. ASSUME NEW m \in 1..(L + 1)
      PROVE  /\ a2[m - 1] = a2[m] + calc_l22(c[m])
             /\ c[m].bucket_size > 1 => AtMostTwice(calc_l22(c[m]), a2[m])
  <2>1. m - 1 \in 0..(L + 1) /\ m \in 0..(L + 1) /\ m - 1 <= L
    BY <1>1
  <2>2. CASE m <= L
    <3>1. m \in 1..L /\ m \in 0..L /\ m - 1 \in 0..L
      BY <1>1, <2>2
    <3>2. a2[m - 1] = a[m - 1] + w /\ a2[m] = a[m] + w /\ c[m] = b[m]
      BY <1>2, <1>6, <2>1, <2>2, <3>1
    <3> DEFINE l == calc_l22(b[m])
               y == a[m]
    <3>3. a[m - 1] = y + l /\ y \in Nat /\ l \in Nat
      BY <1>4, <1>5, <3>1
    <3>4. b[m].bucket_size > 1 => AtMostTwice(l, y)
      BY <1>3, <3>1
    <3>5. calc_l22(c[m]) = l /\ a2[m] = y + w /\ a2[m - 1] = (y + l) + w
      BY <3>2, <3>3
    <3> HIDE DEF l, y
    <3>6. AtMostTwice(l, y) => AtMostTwice(l, y + w)
      <4>1. y + w \in Nat /\ y <= y + w
        BY <1>1, <3>3
      <4> QED
        BY <3>3, <4>1, MoreIsNewer
    <3>7. (y + l) + w = (y + w) + l
      BY <1>1, <3>3
    <3> QED
      BY <3>2, <3>4, <3>5, <3>6, <3>7
  <2>3. CASE ~(m <= L)
    <3>1. m = L + 1 /\ m - 1 = L /\ L \in 0..L
      BY <1>1, <2>3
    <3>2. a2[m - 1] = w /\ a2[m] = 0 /\ c[m] = x
      BY <1>1, <1>2, <1>4, <1>6, <2>1, <2>3, <3>1
    <3> QED
      BY <1>1, <3>2 DEF w
  <2> QED
    BY <2>2, <2>3
<1>8. a2[L + 1] = 0
  BY <1>1, <1>6
<1>9. Weighs(c, a2)
  BY <1>2, <1>6, <1>7, <1>8 DEF Weighs
<1>10. Weighed(c, a2, L + 1)
  <2>1. \A n \in 1..Len(c) : ~(L + 1 <= n /\ n < Len(c))
    BY <1>1, <1>2
  <2> QED
    BY <1>2, <1>7, <1>9, <2>1 DEF Weighed
<1> QED
  BY <1>10 DEF c, L

-----------------------------------------------------------------------------
(* What the histogram of maps and sketches holds of the stream *)

LEMMA EndsGrow ==
  ASSUME NEW layer, NEW s, Ordered(s), NEW b, NEW e, Layered(layer, s, b, e),
         NEW n \in 0..Len(b)
  PROVE  e[0] <= e[n] /\ e[n] <= e[Len(b)]
<1> DEFINE L == Len(b)
<1>1. /\ L \in Nat /\ \A m \in 0..L : e[m] \in Nat
      /\ \A m \in 1..L : e[m - 1] < e[m]
  BY LayeredFacts
<1> HIDE DEF L
<1>2. ASSUME NEW m \in 0..L PROVE e[0] <= e[m]
  <2> DEFINE W == {k \in 0..L : ~(e[0] <= e[k])}
  <2> SUFFICES ASSUME W # {} PROVE FALSE
    OBVIOUS
  <2>1. PICK k \in W : \A j \in W : k <= j
    <3>1. W \in SUBSET Nat
      BY <1>1
    <3> HIDE DEF W
    <3> QED
      BY <3>1, SmallestNat
  <2>2. k \in 0..L /\ ~(e[0] <= e[k])
    BY <2>1
  <2>3. k # 0
    BY <1>1, <2>2
  <2>4. k \in 1..L /\ k - 1 \in 0..L /\ ~(k <= k - 1)
    BY <1>1, <2>2, <2>3
  <2>5. e[0] <= e[k - 1]
    BY <2>1, <2>4
  <2>6. e[k - 1] < e[k] /\ e[k - 1] \in Nat /\ e[k] \in Nat /\ e[0] \in Nat
    BY <1>1, <2>2, <2>4
  <2> QED
    BY <2>2, <2>5, <2>6
<1>3. ASSUME NEW m \in 0..L PROVE e[m] <= e[L]
  <2> DEFINE W == {k \in 0..L : ~(e[L - k] <= e[L])}
  <2>0. L - (L - m) = m /\ L - m \in 0..L
    BY <1>1
  <2> SUFFICES ASSUME ~(e[m] <= e[L]) PROVE FALSE
    OBVIOUS
  <2>a. W # {}
    BY <2>0
  <2>1. PICK k \in W : \A j \in W : k <= j
    <3>1. W \in SUBSET Nat
      BY <1>1
    <3> HIDE DEF W
    <3> QED
      BY <2>a, <3>1, SmallestNat
  <2>2. k \in 0..L /\ ~(e[L - k] <= e[L])
    BY <2>1
  <2>3. k # 0
    BY <1>1, <2>2
  <2>4. /\ k - 1 \in 0..L /\ ~(k <= k - 1) /\ L - (k - 1) \in 1..L
        /\ (L - (k - 1)) - 1 = L - k /\ L - k \in 0..L /\ L \in 0..L
    BY <1>1, <2>2, <2>3
  <2>5. e[L - (k - 1)] <= e[L]
    BY <2>1, <2>4
  <2>6. e[L - k] < e[L - (k - 1)]
    BY <1>1, <2>4
  <2>7. e[L - k] \in Nat /\ e[L - (k - 1)] \in Nat /\ e[L] \in Nat
    BY <1>1, <2>4
  <2> QED
    BY <2>2, <2>5, <2>6, <2>7
<1> QED
  BY <1>2, <1>3 DEF L

\* Without its oldest bucket, as promotion to the older layer leaves it.
LEMMA DropOne ==
  ASSUME NEW layer, NEW s, Ordered(s), NEW b, NEW e, Layered(layer, s, b, e), Len(b) > 0
  PROVE  \E e2 : /\ Layered(layer, s, SubSeq(b, 1 + 1, Len(b)), e2)
                 /\ Len(SubSeq(b, 1 + 1, Len(b))) = Len(b) - 1
                 /\ e2[0] = e[1] /\ e2[Len(SubSeq(b, 1 + 1, Len(b)))] = e[Len(b)]
<1> DEFINE r == 1
           c == SubSeq(b, r + 1, Len(b))
           e2 == [m \in 0..(Len(b) - r) |-> e[r + m]]
<1>1. r \in 0..Len(b)
  BY LayeredFacts
<1> HIDE DEF r
<1>2. /\ Layered(layer, s, c, e2) /\ Len(c) = Len(b) - r
      /\ e2[0] = e[r] /\ e2[Len(c)] = e[Len(b)]
  BY <1>1, DropLayer
<1> HIDE DEF e2
<1> QED
  BY <1>2 DEF r

\* A later sample changes nothing about the buckets before it.
LEMMA StreamLayer ==
  ASSUME NEW layer, NEW s, Ordered(s), NEW b, NEW e, Layered(layer, s, b, e),
         NEW x \in Samples, Len(s) > 0 => s[Len(s)].t <= x.t
  PROVE  Layered(layer, Append(s, x), b, e)
<1> DEFINE u == Append(s, x)
<1>1. /\ Ordered(u) /\ Len(u) = Len(s) + 1
      /\ \A n \in 1..Len(s) : u[n] = s[n]
      /\ \A m, n \in 1..Len(s) : SubSeq(u, m, n) = SubSeq(s, m, n)
  BY AppendOrdered
<1> HIDE DEF u
<1>2. /\ Len(b) \in Nat /\ Len(s) \in Nat
      /\ \A n \in 1..Len(b) : /\ e[n - 1] \in 0..Len(s) /\ e[n] \in 0..Len(s)
                              /\ e[n - 1] < e[n]
                              /\ PartIs(layer, s, b[n], e[n - 1], e[n])
  BY LayeredFacts
<1>3. IsSeq(b) /\ e \in [0..Len(b) -> 0..Len(s)]
  BY DEF Layered
<1>4. e \in [0..Len(b) -> 0..Len(u)]
  <2>1. 0..Len(s) \subseteq 0..Len(u)
    BY <1>1, <1>2
  <2> QED
    BY <1>3, <2>1
<1>5. ASSUME NEW n \in 1..Len(b) PROVE PartIs(layer, u, b[n], e[n - 1], e[n])
  <2> DEFINE lo == e[n - 1]
             hi == e[n]
  <2>1. lo \in 0..Len(s) /\ hi \in 0..Len(s) /\ lo < hi /\ PartIs(layer, s, b[n], lo, hi)
    BY <1>2
  <2> HIDE DEF lo, hi
  <2>2. lo + 1 \in 1..Len(s) /\ hi \in 1..Len(s)
    BY <1>2, <2>1
  <2>3. u[lo + 1] = s[lo + 1] /\ u[hi] = s[hi] /\ SubSeq(u, lo + 1, hi) = SubSeq(s, lo + 1, hi)
    BY <1>1, <2>2
  <2>4. PartIs(layer, u, b[n], lo, hi)
    BY <2>1, <2>3 DEF PartIs
  <2> QED
    BY <2>4 DEF lo, hi
<1> QED
  BY <1>2, <1>3, <1>4, <1>5 DEF Layered, u

\* Without buckets the ends are where one likes.
LEMMA NoLayer ==
  ASSUME NEW layer, NEW s, NEW b, IsSeq(b), Len(b) = 0, NEW hi \in 0..Len(s)
  PROVE  Layered(layer, s, b, [m \in 0..0 |-> hi])
<1> DEFINE e == [m \in 0..0 |-> hi]
<1>1. e \in [0..Len(b) -> 0..Len(s)]
  OBVIOUS
<1>2. 1..Len(b) = {}
  OBVIOUS
<1> HIDE DEF e
<1>3. Layered(layer, s, b, e)
  BY <1>1, <1>2 DEF Layered
<1> QED
  BY <1>3 DEF e

\* The universal sketch made of a map has its samples.
LEMMA PromotedIs ==
  ASSUME NEW s, Ordered(s), NEW lo \in 0..Len(s), NEW hi \in 0..Len(s), lo < hi,
         NEW u, PartIs("maps", s, u, lo, hi)
  PROVE  PartIs("sketches", s, Promoted(u), lo, hi)
<1> DEFINE p == SubSeq(s, lo + 1, hi)
           us == [NewUnivSketchPyramid EXCEPT !.min_time = u.min_time, !.max_time = u.max_time]
<1>1. p \in Seq(Samples) /\ Len(p) = hi - lo
  BY EndsOfPart
<1>2. /\ u.samples = p /\ u.bucket_size = hi - lo
      /\ u.min_time = s[lo + 1].t /\ u.max_time = s[hi].t
  BY DEF PartIs
<1>3. /\ DOMAIN us = UnivFields /\ us.bucket_size = 0 /\ us.samples = <<>>
      /\ us.min_time = u.min_time /\ us.max_time = u.max_time
  BY DEF NewUnivSketchPyramid, UnivFields
<1>4. Promoted(u) = FeedMap(us, p)
  BY <1>2 DEF Promoted
<1>a. DOMAIN us = UnivFields /\ us.bucket_size \in Nat /\ p \in Seq(Samples)
  BY <1>1, <1>3
<1> HIDE DEF us, p
<1> DEFINE w == FeedMap(us, p)
<1>5. /\ DOMAIN w = UnivFields /\ w.bucket_size = us.bucket_size + Len(p)
      /\ w.min_time = us.min_time /\ w.max_time = us.max_time
      /\ w.samples = us.samples \o p
  BY <1>a, FeedMapIs
<1> HIDE DEF w
<1>6. w.samples = p /\ w.bucket_size = hi - lo
  <2>1. <<>> \o p = p
    BY <1>1
  <2>2. hi - lo \in Int
    <3>1. Len(s) \in Nat
      BY OrderedFacts
    <3> QED
      BY <3>1
  <2> QED
    BY <1>1, <1>3, <1>5, <2>1, <2>2
<1>7. PartIs("sketches", s, w, lo, hi)
  BY <1>2, <1>3, <1>5, <1>6 DEF PartIs, LayerFields, p
<1> QED
  BY <1>4, <1>7 DEF w

\* A map of one sample has one key.
LEMMA OneHasFewKeys ==
  ASSUME NEW b, b.samples \in Seq(Samples), Len(b.samples) = 1
  PROVE  ~TooManyKeys(b)
<1> DEFINE p == b.samples
           k == p[1].v
<1>1. DOMAIN p = {1}
  BY DEF p
<1>2. ASSUME NEW key \in Keys, HowMany(p, key) > 0 PROVE key = k
  <2>1. At(p, {key}) # {}
    <3>1. HowMany(p, key) = Cardinality(At(p, {key}))
      BY HowManyAt
    <3>2. HowMany(p, key) # 0
      BY <1>2
    <3> QED
      BY <3>1, <3>2, FS_EmptySet
  <2> QED
    BY <1>1, <2>1 DEF At
<1>3. MapKeys(b) \subseteq {k}
  BY <1>2 DEF MapKeys
<1>4. IsFiniteSet({k}) /\ Cardinality({k}) = 1
  BY FS_Singleton
<1> HIDE DEF k
<1> DEFINE c == Cardinality(MapKeys(b))
<1>5. c \in Nat /\ c <= 1
  BY <1>3, <1>4, FS_Subset, FS_CardinalityType
<1> HIDE DEF c
<1>6. ~(2 * c >= max_map_size)
  BY <1>5, UnivHistogramAssumption
<1> QED
  BY <1>6 DEF TooManyKeys, c

\* The map of a new sample.
LEMMA NewMapIs ==
  ASSUME NEW s, Ordered(s), NEW x \in Samples, Len(s) > 0 => s[Len(s)].t <= x.t
  PROVE  LET m == NewMap(x.t, x.v)
         IN  /\ PartIs("maps", Append(s, x), m, Len(s), Len(s) + 1)
             /\ m.bucket_size = 1 /\ calc_l22(m) \in Nat
<1> DEFINE m == NewMap(x.t, x.v)
           u == Append(s, x)
<1>1. /\ Ordered(u) /\ Len(u) = Len(s) + 1 /\ u[Len(s) + 1] = x
      /\ SubSeq(u, Len(s) + 1, Len(s) + 1) = <<x>>
  BY AppendOrdered
<1> HIDE DEF u
<1>2. /\ DOMAIN m = {"min_time", "max_time", "bucket_size", "samples"}
      /\ m.samples = <<x>> /\ m.bucket_size = 1 /\ m.min_time = x.t /\ m.max_time = x.t
  <2>1. [t |-> x.t, v |-> x.v] = x
    BY DEF Samples
  <2> QED
    BY <2>1 DEF NewMap
<1> HIDE DEF m
<1>3. Len(s) + 1 - Len(s) = 1
  <2>1. Len(s) \in Nat
    BY OrderedFacts
  <2> QED
    BY <2>1
<1>4. PartIs("maps", u, m, Len(s), Len(s) + 1)
  BY <1>1, <1>2, <1>3 DEF PartIs, LayerFields
<1>5. calc_l22(m) \in Nat
  <2>1. <<x>> \in Seq(Samples)
    OBVIOUS
  <2> QED
    BY <1>2, <2>1, SquaresBoth DEF calc_l22
<1> QED
  BY <1>2, <1>4, <1>5 DEF m, u

\* What expires from the two layers is older than the limit and next to each other: a
\* map expires only after all sketches.
LEMMA ExpireBoth ==
  ASSUME NEW s, Ordered(s), NEW b, NEW e, Layered("sketches", s, b, e),
         NEW c, NEW f, Layered("maps", s, c, f), e[Len(b)] = f[0],
         NEW t \in Int, \A n \in 1..e[0] : s[n].t < t - UnivWindow
  PROVE  \E e2, f2 : /\ Layered("sketches", s, Expire(b, t), e2)
                     /\ Layered("maps", s, Expire(c, t), f2)
                     /\ e2[Len(Expire(b, t))] = f2[0] /\ f2[Len(Expire(c, t))] = f[Len(c)]
                     /\ \A n \in 1..e2[0] : s[n].t < t - UnivWindow
<1> DEFINE limit == t - UnivWindow
           r == Removed(b, t)
           q == Removed(c, t)
<1>1. IsSeq(b) /\ IsSeq(c)
  BY DEF Layered
<1>2. /\ r \in 0..Len(b) /\ \A n \in 1..r : b[n].max_time < limit
      /\ r < Len(b) => ~(b[r + 1].max_time < limit)
  BY <1>1, EndedBefore DEF Removed
<1>3. /\ q \in 0..Len(c) /\ \A n \in 1..q : c[n].max_time < limit
      /\ q < Len(c) => ~(c[q + 1].max_time < limit)
  BY <1>1, EndedBefore DEF Removed
<1>a. q \in 0..Len(c)
  BY <1>3
<1>4. Expire(b, t) = SubSeq(b, r + 1, Len(b)) /\ Expire(c, t) = SubSeq(c, q + 1, Len(c))
  BY DEF Expire
<1>5. limit \in Int
  BY UnivHistogramAssumption
<1> HIDE DEF r, q, limit
<1>6. /\ Len(b) \in Nat /\ Len(c) \in Nat /\ Len(s) \in Nat
      /\ \A n \in 0..Len(b) : e[n] \in 0..Len(s) /\ e[0] <= e[n] /\ e[n] <= e[Len(b)]
      /\ \A n \in 0..Len(c) : f[n] \in 0..Len(s) /\ f[0] <= f[n] /\ f[n] <= f[Len(c)]
      /\ \A n \in 1..Len(b) : b[n].max_time = s[e[n]].t /\ e[n - 1] < e[n]
      /\ \A n \in 1..Len(c) : c[n].max_time = s[f[n]].t /\ f[n - 1] < f[n]
  <2>1. /\ \A n \in 0..Len(b) : e[0] <= e[n] /\ e[n] <= e[Len(b)]
        /\ \A n \in 0..Len(c) : f[0] <= f[n] /\ f[n] <= f[Len(c)]
    BY EndsGrow
  <2>2. /\ \A n \in 1..Len(b) : b[n].max_time = s[e[n]].t /\ e[n - 1] < e[n]
        /\ \A n \in 1..Len(c) : c[n].max_time = s[f[n]].t /\ f[n - 1] < f[n]
    BY DEF Layered, PartIs
  <2>3. Len(b) \in Nat /\ \A n \in 0..Len(b) : e[n] \in 0..Len(s)
    BY LayeredFacts
  <2>4. Len(c) \in Nat /\ Len(s) \in Nat /\ \A n \in 0..Len(c) : f[n] \in 0..Len(s)
    BY LayeredFacts
  <2> QED
    BY <2>1, <2>2, <2>3, <2>4
<1>7. /\ \A n \in 1..Len(s) : s[n].t \in Int
      /\ \A m, n \in 1..Len(s) : m <= n => s[m].t <= s[n].t
  BY OrderedFacts DEF Ordered
\* What ends at hi is old when the last of it is.
<1>8. ASSUME NEW hi \in 1..Len(s), s[hi].t < limit, NEW n \in 1..Len(s), n <= hi
      PROVE  s[n].t < limit
  <2>1. s[n].t <= s[hi].t /\ s[n].t \in Int /\ s[hi].t \in Int
    BY <1>7, <1>8
  <2> QED
    BY <1>5, <1>8, <2>1
<1>9. CASE q = 0
  <2> DEFINE e2 == [m \in 0..(Len(b) - r) |-> e[r + m]]
             f2 == [m \in 0..(Len(c) - q) |-> f[q + m]]
  <2>1. /\ Layered("sketches", s, SubSeq(b, r + 1, Len(b)), e2)
        /\ Len(SubSeq(b, r + 1, Len(b))) = Len(b) - r
        /\ e2[0] = e[r] /\ e2[Len(SubSeq(b, r + 1, Len(b)))] = e[Len(b)]
    BY <1>2, DropLayer
  <2>2. /\ Layered("maps", s, SubSeq(c, q + 1, Len(c)), f2)
        /\ f2[0] = f[q] /\ f2[Len(SubSeq(c, q + 1, Len(c)))] = f[Len(c)]
    BY <1>a, DropLayer
  <2> HIDE DEF e2, f2
  <2>3. ASSUME NEW n \in 1..e[r] PROVE s[n].t < limit
    <3>1. CASE r = 0
      BY <2>3, <3>1 DEF limit
    <3>2. CASE r # 0
      <4>1. r \in 1..r /\ r \in 1..Len(b)
        BY <1>2, <1>6, <3>2
      <4>2. b[r].max_time < limit /\ b[r].max_time = s[e[r]].t
        BY <1>2, <1>6, <4>1
      <4>3. e[r] \in 0..Len(s)
        BY <1>2, <1>6
      <4>4. e[r] \in 1..Len(s) /\ n \in 1..Len(s) /\ n <= e[r]
        BY <1>6, <4>3
      <4> QED
        BY <1>8, <4>2, <4>4
    <3> QED
      BY <3>1, <3>2
  <2>4. f2[0] = f[0]
    BY <1>9, <2>2
  <2>5. \A n \in 1..e2[0] : s[n].t < limit
    BY <2>1, <2>3
  <2> QED
    BY <1>4, <2>1, <2>2, <2>4, <2>5 DEF limit
<1>10. CASE q # 0
  <2>1. q \in 1..q /\ q \in 1..Len(c) /\ q \in 0..Len(c)
    BY <1>3, <1>6, <1>10
  <2>2. s[f[q]].t < limit
    BY <1>3, <1>6, <2>1
  <2>3. f[q] \in 0..Len(s) /\ f[0] <= f[q] /\ f[0] \in 0..Len(s) /\ f[q - 1] < f[q]
    <3>1. 0 \in 0..Len(c)
      BY <1>6
    <3> QED
      BY <1>6, <2>1, <3>1
  <2>4. f[q] \in 1..Len(s)
    <3>1. q - 1 \in 0..Len(c)
      BY <1>6, <2>1
    <3>2. f[q - 1] \in 0..Len(s)
      BY <1>6, <3>1
    <3> QED
      BY <1>6, <2>3, <3>2
  <2>5. r = Len(b)
    <3> SUFFICES ASSUME r # Len(b) PROVE FALSE
      OBVIOUS
    <3>1. r + 1 \in 1..Len(b) /\ r + 1 \in 0..Len(b) /\ (r + 1) - 1 \in 0..Len(b) /\ r < Len(b)
      BY <1>2, <1>6
    <3>2. /\ e[r + 1] \in 0..Len(s) /\ e[r + 1] <= e[Len(b)] /\ e[(r + 1) - 1] \in 0..Len(s)
          /\ e[(r + 1) - 1] < e[r + 1]
      BY <1>6, <3>1
    <3>3. e[r + 1] \in 1..Len(s) /\ e[r + 1] <= f[q]
      BY <1>6, <2>3, <3>2
    <3>4. s[e[r + 1]].t < limit
      BY <1>8, <2>2, <2>4, <3>3
    <3> QED
      BY <1>2, <1>6, <3>1, <3>4
  <2> DEFINE d == SubSeq(b, r + 1, Len(b))
             e2 == [m \in 0..0 |-> f[q]]
             f2 == [m \in 0..(Len(c) - q) |-> f[q + m]]
  <2>6. IsSeq(d) /\ Len(d) = 0
    <3>1. IsSeq(d) /\ Len(d) = Len(b) - r
      BY <1>1, <1>2, DropIs
    <3> HIDE DEF d
    <3> QED
      BY <1>6, <2>5, <3>1
  <2> HIDE DEF d
  <2>7. Layered("sketches", s, d, e2)
    BY <2>3, <2>6, NoLayer
  <2>8. /\ Layered("maps", s, SubSeq(c, q + 1, Len(c)), f2)
        /\ f2[0] = f[q] /\ f2[Len(SubSeq(c, q + 1, Len(c)))] = f[Len(c)]
    BY <1>a, DropLayer
  <2>9. e2[0] = f[q]
    OBVIOUS
  <2> HIDE DEF e2, f2
  <2>10. ASSUME NEW n \in 1..f[q] PROVE s[n].t < limit
    <3>1. n \in 1..Len(s) /\ n <= f[q]
      BY <1>6, <2>4
    <3> QED
      BY <1>8, <2>2, <2>4, <3>1
  <2> QED
    BY <1>4, <2>6, <2>7, <2>8, <2>9, <2>10 DEF limit, d
<1> QED
  BY <1>9, <1>10

-----------------------------------------------------------------------------
(* The invariant *)

\* Sketches b and maps c: what they have of the stream s, and what the maps weigh.
LayersAre(s, b, c) ==
  \E e, f, a :
    /\ Layered("sketches", s, b, e) /\ Layered("maps", s, c, f)
    /\ e[Len(b)] = f[0] /\ f[Len(c)] = Len(s)
    /\ \A n \in 1..e[0] : s[n].t < s[Len(s)].t - UnivWindow
    /\ Weighed(c, a, 1)
    /\ Len(s) > 0 => Len(c) > 0

UnivInv == LayersAre(stream, univs, map_buckets)

\* A sample, up to the maps after their merges.
LEMMA NewMapKeeps ==
  ASSUME NEW s, Ordered(s), NEW x \in Samples, Len(s) > 0 => s[Len(s)].t <= x.t,
         NEW b, NEW c, LayersAre(s, b, c)
  PROVE  LET p == MergePass("maps", Append(Expire(c, x.t), NewMap(x.t, x.v)), 0)
         IN  LayersAre(Append(s, x), Expire(b, x.t), p.b) /\ Len(p.b) > 0
<1> DEFINE u == Append(s, x)
           d == Expire(b, x.t)
           g == Expire(c, x.t)
           m == NewMap(x.t, x.v)
           h == Append(g, m)
           p == MergePass("maps", h, 0)
<1>1. PICK e, f, a :
        /\ Layered("sketches", s, b, e) /\ Layered("maps", s, c, f)
        /\ e[Len(b)] = f[0] /\ f[Len(c)] = Len(s)
        /\ \A n \in 1..e[0] : s[n].t < s[Len(s)].t - UnivWindow
        /\ Weighed(c, a, 1)
  BY DEF LayersAre
<1>2. /\ Ordered(u) /\ Len(u) = Len(s) + 1 /\ u[Len(s) + 1] = x
      /\ \A n \in 1..Len(s) : u[n] = s[n]
      /\ Len(s) \in Nat /\ x.t \in Int /\ UnivWindow \in Nat
  BY AppendOrdered, OrderedFacts, UnivHistogramAssumption DEF Samples
<1>3. \A n \in 1..e[0] : s[n].t < x.t - UnivWindow
  <2> SUFFICES ASSUME NEW n \in 1..e[0] PROVE s[n].t < x.t - UnivWindow
    OBVIOUS
  <2>1. e[0] \in 0..Len(s)
    <3>1. Len(b) \in Nat /\ \A k \in 0..Len(b) : e[k] \in 0..Len(s)
      BY <1>1, LayeredFacts
    <3> QED
      BY <3>1
  <2>2. n \in 1..Len(s) /\ Len(s) \in 1..Len(s)
    BY <1>2, <2>1
  <2>3. s[n].t \in Int /\ s[Len(s)].t \in Int /\ s[Len(s)].t <= x.t
    BY <1>2, <2>2, OrderedFacts
  <2>4. s[n].t < s[Len(s)].t - UnivWindow
    BY <1>1
  <2> QED
    BY <1>2, <2>3, <2>4
<1>4. PICK e2, f2 : /\ Layered("sketches", s, d, e2) /\ Layered("maps", s, g, f2)
                    /\ e2[Len(d)] = f2[0] /\ f2[Len(g)] = f[Len(c)]
                    /\ \A n \in 1..e2[0] : s[n].t < x.t - UnivWindow
  <2>1. \E e2, f2 : /\ Layered("sketches", s, Expire(b, x.t), e2)
                    /\ Layered("maps", s, Expire(c, x.t), f2)
                    /\ e2[Len(Expire(b, x.t))] = f2[0] /\ f2[Len(Expire(c, x.t))] = f[Len(c)]
                    /\ \A n \in 1..e2[0] : s[n].t < x.t - UnivWindow
    <3>1. /\ Layered("sketches", s, b, e) /\ Layered("maps", s, c, f) /\ e[Len(b)] = f[0]
          /\ \A n \in 1..e[0] : s[n].t < x.t - UnivWindow
      BY <1>1, <1>3
    <3> DEFINE t == x.t
    <3>2. t \in Int /\ \A n \in 1..e[0] : s[n].t < t - UnivWindow
      BY <1>2, <3>1
    <3> HIDE DEF t
    <3>3. \E e2, f2 : /\ Layered("sketches", s, Expire(b, t), e2)
                      /\ Layered("maps", s, Expire(c, t), f2)
                      /\ e2[Len(Expire(b, t))] = f2[0] /\ f2[Len(Expire(c, t))] = f[Len(c)]
                      /\ \A n \in 1..e2[0] : s[n].t < t - UnivWindow
      BY <3>1, <3>2, ExpireBoth
    <3> QED
      BY <3>3 DEF t
  <2> QED
    BY <2>1
<1>5. PICK a2 : Weighed(g, a2, 1)
  <2>1. IsSeq(c)
    BY <1>1 DEF Layered
  <2>2. Removed(c, x.t) \in 0..Len(c)
    BY <2>1, EndedBefore DEF Removed
  <2>3. \E a2 : Weighed(SubSeq(c, Removed(c, x.t) + 1, Len(c)), a2, 1)
    BY <1>1, <2>1, <2>2, DropWeighed
  <2> QED
    BY <2>3 DEF Expire
<1> HIDE DEF d, g
<1>6. PartIs("maps", u, m, Len(s), Len(s) + 1) /\ m.bucket_size = 1 /\ calc_l22(m) \in Nat
  BY NewMapIs
<1> HIDE DEF m
<1>7. PICK a3 : Weighed(h, a3, Len(g) + 1)
  <2>1. \E a3 : Weighed(Append(g, m), a3, Len(g) + 1)
    BY <1>4, <1>5, <1>6, AppendWeighed
  <2> QED
    BY <2>1
<1>8. Layered("sketches", u, d, e2) /\ Layered("maps", u, g, f2)
  BY <1>4, StreamLayer
<1> HIDE DEF u
<1>9. PICK f3 : /\ Layered("maps", u, h, f3) /\ f3[0] = f2[0]
                /\ f3[Len(g) + 1] = Len(s) + 1
  <2> DEFINE lo == f2[Len(g)]
             hi == Len(s) + 1
  <2>1. lo = Len(s) /\ hi \in 0..Len(u) /\ lo < hi /\ PartIs("maps", u, m, lo, hi)
    BY <1>1, <1>2, <1>4, <1>6
  <2>2. lo = f2[Len(g)] /\ lo < hi /\ PartIs("maps", u, m, lo, hi) /\ hi \in 0..Len(u)
    BY <2>1
  <2> HIDE DEF lo, hi, h, p
  <2>3. Extended("maps", u, g, f2, m, hi)
    <3>1. Ordered(u) /\ Layered("maps", u, g, f2)
      BY <1>2, <1>8
    <3> QED
      BY <2>2, <3>1, AppendLayer
  <2> QED
    BY <2>3 DEF hi, h, Extended
<1>10. Len(h) = Len(g) + 1 /\ Len(g) \in Nat
  <2>1. g \in Seq(Range(g)) /\ Range(g) \subseteq Range(g) \cup {m}
    BY <1>4 DEF Layered, IsSeq
  <2> DEFINE S == Range(g) \cup {m}
  <2>2. g \in Seq(S) /\ m \in S
    BY <2>1
  <2> HIDE DEF S
  <2> QED
    BY <2>2, AppendProperties
<1> HIDE DEF h
<1>11. Passed("maps", u, f3[0], f3[Len(h)], 1, p)
  <2>1. "maps" \in Layer /\ Len(h) > 0
    BY <1>10 DEF Layer
  <2>2. Weighed(h, a3, Len(h))
    BY <1>7, <1>10
  <2> DEFINE z == 0
  <2>3. z = 0
    OBVIOUS
  <2> HIDE DEF z
  <2>4. Passed("maps", u, f3[0], f3[Len(h)], 1, MergePass("maps", h, z))
    BY <1>2, <1>9, <2>1, <2>2, <2>3, MergePassKeeps
  <2> QED
    BY <2>4 DEF z
<1> HIDE DEF p
<1>12. PICK f4, a4 : /\ Layered("maps", u, p.b, f4) /\ f4[0] = f3[0] /\ f4[Len(p.b)] = f3[Len(h)]
                     /\ 1 <= Len(p.b) /\ Weighed(p.b, a4, 1)
  BY <1>11 DEF Passed
<1>13. Len(p.b) > 0
  <2>1. Len(p.b) \in Nat
    BY <1>2, <1>12, LayeredFacts
  <2> QED
    BY <1>12, <2>1
<1>14. ASSUME NEW n \in 1..e2[0] PROVE u[n].t < u[Len(u)].t - UnivWindow
  <2>1. e2[0] \in 0..Len(s)
    <3>1. Len(d) \in Nat /\ \A k \in 0..Len(d) : e2[k] \in 0..Len(s)
      BY <1>4, LayeredFacts
    <3> QED
      BY <3>1
  <2>2. n \in 1..Len(s)
    BY <1>2, <2>1
  <2> QED
    BY <1>2, <1>4, <2>2
<1>15. e2[Len(d)] = f4[0] /\ f4[Len(p.b)] = Len(u)
  BY <1>2, <1>4, <1>9, <1>10, <1>12
<1>16. LayersAre(u, d, p.b)
  BY <1>8, <1>12, <1>13, <1>14, <1>15 DEF LayersAre
<1> QED
  BY <1>13, <1>16 DEF u, d, p, h, m, g

\* The promotion of the oldest map, which is never the only one.
LEMMA PromotionKeeps ==
  ASSUME NEW u, Ordered(u), NEW b, NEW c, LayersAre(u, b, c), Len(c) > 0, TooManyKeys(c[1]),
         NEW sum0
  PROVE  LayersAre(u, MergePass("sketches", Append(b, Promoted(c[1])), sum0).b, Tail(c))
<1> DEFINE x == Promoted(c[1])
           d == Append(b, x)
           p == MergePass("sketches", d, sum0)
           g == SubSeq(c, 1 + 1, Len(c))
<1>1. PICK e, f, a :
        /\ Layered("sketches", u, b, e) /\ Layered("maps", u, c, f)
        /\ e[Len(b)] = f[0] /\ f[Len(c)] = Len(u)
        /\ \A n \in 1..e[0] : u[n].t < u[Len(u)].t - UnivWindow
        /\ Weighed(c, a, 1)
  BY DEF LayersAre
<1>2. /\ Len(c) \in Nat /\ Len(u) \in Nat /\ 1 \in 1..Len(c) /\ 1 \in 0..Len(c) /\ 1 - 1 = 0
      /\ IsSeq(c)
  <2>1. Len(c) \in Nat /\ Len(u) \in Nat
    BY <1>1, LayeredFacts
  <2>2. IsSeq(c)
    BY <1>1 DEF Layered
  <2> QED
    BY <2>1, <2>2
<1>3. /\ f[0] \in 0..Len(u) /\ f[1] \in 0..Len(u) /\ f[0] < f[1]
      /\ PartIs("maps", u, c[1], f[0], f[1])
      /\ c[1].samples \in Seq(Samples) /\ Len(c[1].samples) = c[1].bucket_size
  <2>1. \A n \in 1..Len(c) : /\ f[n - 1] \in 0..Len(u) /\ f[n] \in 0..Len(u)
                             /\ f[n - 1] < f[n] /\ PartIs("maps", u, c[n], f[n - 1], f[n])
                             /\ c[n].samples \in Seq(Samples)
    BY <1>1, LayeredFacts
  <2>2. Len(c[1].samples) = c[1].bucket_size
    BY <1>1, <1>2, LayeredLength
  <2> QED
    BY <1>2, <2>1, <2>2
<1>4. Len(c) # 1
  <2> SUFFICES ASSUME Len(c) = 1 PROVE FALSE
    OBVIOUS
  <2>1. c[1].bucket_size = 1
    BY <1>1 DEF Weighed
  <2> DEFINE y == c[1]
  <2>2. y.samples \in Seq(Samples) /\ Len(y.samples) = 1 /\ TooManyKeys(y)
    BY <1>3, <2>1
  <2> HIDE DEF y
  <2> QED
    BY <2>2, OneHasFewKeys
<1>5. Tail(c) = g
  <2>1. c \in Seq(Range(c)) /\ c # <<>>
    BY <1>2 DEF IsSeq
  <2>2. Tail(c) = SubSeq(c, 2, Len(c))
    BY <2>1, TailIsSubSeq
  <2>3. 1 + 1 = 2
    OBVIOUS
  <2> QED
    BY <2>2, <2>3
<1>6. PICK f2 : /\ Layered("maps", u, g, f2) /\ Len(g) = Len(c) - 1
                /\ f2[0] = f[1] /\ f2[Len(g)] = f[Len(c)]
  <2>1. Ordered(u) /\ Layered("maps", u, c, f) /\ Len(c) > 0
    BY <1>1
  <2> HIDE DEF g, d, p, x
  <2>2. \E f2 : /\ Layered("maps", u, SubSeq(c, 1 + 1, Len(c)), f2)
                /\ Len(SubSeq(c, 1 + 1, Len(c))) = Len(c) - 1
                /\ f2[0] = f[1] /\ f2[Len(SubSeq(c, 1 + 1, Len(c)))] = f[Len(c)]
    BY <2>1, DropOne
  <2> QED
    BY <2>2 DEF g
<1>7. PICK a2 : Weighed(g, a2, 1)
  BY <1>1, <1>2, DropWeighed
<1>8. PartIs("sketches", u, x, f[0], f[1])
  BY <1>3, PromotedIs
<1> HIDE DEF x, g
<1>9. PICK e2 : Layered("sketches", u, d, e2) /\ e2[0] = e[0] /\ e2[Len(b) + 1] = f[1]
  <2>1. e[Len(b)] < f[1] /\ PartIs("sketches", u, x, e[Len(b)], f[1]) /\ f[1] \in 0..Len(u)
    BY <1>1, <1>3, <1>8
  <2> DEFINE lo == e[Len(b)]
             hi == f[1]
  <2>2. lo = e[Len(b)] /\ lo < hi /\ PartIs("sketches", u, x, lo, hi) /\ hi \in 0..Len(u)
    BY <2>1
  <2> HIDE DEF lo, hi
  <2>3. Extended("sketches", u, b, e, x, hi)
    <3>1. Ordered(u) /\ Layered("sketches", u, b, e)
      BY <1>1
    <3> HIDE DEF d, p
    <3> QED
      BY <2>2, <3>1, AppendLayer
  <2> QED
    BY <2>3 DEF hi, Extended
<1>10. Len(d) = Len(b) + 1 /\ Len(b) \in Nat
  <2>1. b \in Seq(Range(b)) /\ Range(b) \subseteq Range(b) \cup {x}
    BY <1>1 DEF Layered, IsSeq
  <2> DEFINE S == Range(b) \cup {x}
  <2>2. b \in Seq(S) /\ x \in S
    BY <2>1
  <2> HIDE DEF S
  <2> QED
    BY <2>2, AppendProperties
<1> HIDE DEF d
<1>11. Passed("sketches", u, e2[0], e2[Len(d)], 1, p)
  <2>1. "sketches" \in Layer /\ Len(d) > 0
    BY <1>10 DEF Layer
  <2> DEFINE layer == "sketches"
  <2>2. layer \in Layer /\ layer # "maps" /\ Layered(layer, u, d, e2)
    BY <1>9, <2>1
  <2> HIDE DEF layer
  <2>3. Passed(layer, u, e2[0], e2[Len(d)], 1, MergePass(layer, d, sum0))
    BY <2>1, <2>2, MergePassKeeps
  <2> QED
    BY <2>3 DEF layer
<1> HIDE DEF p
<1>12. PICK e4 : /\ Layered("sketches", u, p.b, e4) /\ e4[0] = e2[0]
                 /\ e4[Len(p.b)] = e2[Len(d)]
  BY <1>11 DEF Passed
<1>13. /\ e4[Len(p.b)] = f2[0] /\ f2[Len(g)] = Len(u)
       /\ \A n \in 1..e4[0] : u[n].t < u[Len(u)].t - UnivWindow
  BY <1>1, <1>6, <1>9, <1>10, <1>12
<1>14. Len(g) > 0
  BY <1>2, <1>4, <1>6
<1>15. LayersAre(u, p.b, g)
  BY <1>6, <1>7, <1>12, <1>13, <1>14 DEF LayersAre
<1> QED
  BY <1>5, <1>15 DEF p, d, x

\* The invariant of the UnivMon histogram holds at first.
LEMMA UnivAtFirst == StreamInit /\ UnivInit => UnivInv
<1> SUFFICES ASSUME StreamInit, UnivInit PROVE UnivInv
  OBVIOUS
<1> DEFINE e == [m \in 0..0 |-> 0]
<1>1. stream = <<>> /\ univs = <<>> /\ map_buckets = <<>>
  BY DEF StreamInit, UnivInit
<1>2. Len(<<>>) = 0 /\ IsSeq(<<>>) /\ 0 \in 0..0 /\ 1..0 = {}
  <2>1. <<>> \in Seq(Range(<<>>))
    OBVIOUS
  <2> QED
    BY <2>1 DEF IsSeq
<1>3. Layered("sketches", <<>>, <<>>, e) /\ Layered("maps", <<>>, <<>>, e)
  BY <1>2, NoLayer
<1>4. e[0] = 0
  OBVIOUS
<1>5. Weighed(<<>>, e, 1)
  <2>1. e \in [0..0 -> Nat]
    OBVIOUS
  <2> HIDE DEF e
  <2> QED
    BY <1>2, <1>4, <2>1 DEF Weighed, Weighs
<1> HIDE DEF e
<1> QED
  BY <1>1, <1>2, <1>3, <1>4, <1>5 DEF UnivInv, LayersAre

\* An Update of the UnivMon histogram keeps it: expiry, merges of maps, promotion.
LEMMA UnivKeeps ==
  ASSUME UnivInv, Ordered(stream), NEW gap \in Gaps, NEW v \in StreamValues,
         Arrives(Newest + gap, v), UnivUpdate(Newest + gap, v)
  PROVE  UnivInv'
<1> DEFINE x == [t |-> Newest + gap, v |-> v]
           p == MergePass("maps", Append(Expire(map_buckets, x.t), NewMap(x.t, x.v)), 0)
           d == Expire(univs, x.t)
<1>1. /\ x \in Samples /\ x.t = Newest + gap /\ x.v = v
      /\ stream' = Append(stream, x)
      /\ Len(stream) > 0 => stream[Len(stream)].t <= x.t
      /\ Ordered(Append(stream, x))
  BY StreamGrows
<1>2. SetBuckets(p, d)
  BY <1>1 DEF UnivUpdate
<1> HIDE DEF x
<1>3. LayersAre(Append(stream, x), d, p.b) /\ Len(p.b) > 0
  BY <1>1, NewMapKeeps DEF UnivInv
<1> HIDE DEF p, d
<1>4. CASE TooManyKeys(p.b[1])
  <2>1. /\ map_buckets' = Tail(p.b)
        /\ univs' = MergePass("sketches", Append(d, Promoted(p.b[1])), p.sum).b
    BY <1>2, <1>4 DEF SetBuckets
  <2>2. LayersAre(Append(stream, x),
                  MergePass("sketches", Append(d, Promoted(p.b[1])), p.sum).b, Tail(p.b))
    BY <1>1, <1>3, <1>4, PromotionKeeps
  <2> QED
    BY <1>1, <2>1, <2>2 DEF UnivInv
<1>5. CASE ~TooManyKeys(p.b[1])
  <2>1. map_buckets' = p.b /\ univs' = d
    BY <1>2, <1>5 DEF SetBuckets
  <2> QED
    BY <1>1, <1>3, <2>1 DEF UnivInv
<1> QED
  BY <1>4, <1>5

-----------------------------------------------------------------------------
(* What the invariant says of the window *)

LEMMA PlacesAre ==
  ASSUME Len(stream) \in Nat, NEW z, NEW L \in Nat, Len(z) = L, NEW e \in [0..L -> Int],
         \A n \in 1..L : z[n] \in Int /\ e[n] = e[n - 1] + z[n], e[L] = Len(stream)
  PROVE  /\ KeptFrom(z) = e[0]
         /\ \A n \in 1..L : SamplesOfBucket(z, n) = SubSeq(stream, e[n - 1] + 1, e[n])
<1>1. \A n \in 0..L : UpTo(z)[n] = e[n] - e[0]
  <2>1. Len(z) \in Nat /\ e \in [0..Len(z) -> Int]
    OBVIOUS
  <2>2. \A n \in 1..Len(z) : z[n] \in Int /\ e[n] = e[n - 1] + z[n]
    OBVIOUS
  <2>3. \A n \in 0..Len(z) : UpTo(z)[n] = e[n] - e[0]
    BY <2>1, <2>2, UpToIs
  <2> QED
    BY <2>3
<1>2. L \in 0..L /\ 0 \in 0..L /\ e[L] \in Int /\ e[0] \in Int
  OBVIOUS
<1>3. KeptFrom(z) = e[0]
  <2>1. KeptFrom(z) = Len(stream) - (e[L] - e[0])
    BY <1>1, <1>2 DEF KeptFrom
  <2> QED
    BY <1>2, <2>1
<1>4. ASSUME NEW n \in 1..L
      PROVE  SamplesOfBucket(z, n) = SubSeq(stream, e[n - 1] + 1, e[n])
  <2>1. n - 1 \in 0..L /\ n \in 0..L
    OBVIOUS
  <2>2. UpTo(z)[n - 1] = e[n - 1] - e[0] /\ UpTo(z)[n] = e[n] - e[0]
    BY <1>1, <2>1
  <2>3. e[n - 1] \in Int /\ e[n] \in Int
    BY <2>1
  <2>4. e[0] + (e[n - 1] - e[0]) + 1 = e[n - 1] + 1 /\ e[0] + (e[n] - e[0]) = e[n]
    BY <1>2, <2>3
  <2> QED
    BY <1>3, <2>2, <2>4 DEF SamplesOfBucket
<1> QED
  BY <1>3, <1>4

\* By the invariant the two layers hold the window, each sample once and in order.
LEMMA UnivWindowIsRight ==
  ASSUME Ordered(stream), UnivInv
  PROVE  UnivWindowIsKept
<1> DEFINE A == Len(stream)
           M == Len(univs)
           N == Len(map_buckets)
           L == M + N
           b == Buckets
           z == [i \in DOMAIN b |-> b[i].bucket_size]
<1>1. PICK e, f :
        /\ Layered("sketches", stream, univs, e) /\ Layered("maps", stream, map_buckets, f)
        /\ e[M] = f[0] /\ f[N] = A
        /\ \A n \in 1..e[0] : stream[n].t < stream[A].t - UnivWindow
        /\ A > 0 => N > 0
  BY DEF UnivInv, LayersAre
<1>2. /\ M \in Nat /\ A \in Nat /\ e \in [0..M -> 0..A]
      /\ \A n \in 1..M : /\ PartIs("sketches", stream, univs[n], e[n - 1], e[n])
                         /\ e[n - 1] < e[n]
  BY <1>1, LayeredFacts DEF Layered
<1>3. /\ N \in Nat /\ f \in [0..N -> 0..A]
      /\ \A n \in 1..N : /\ PartIs("maps", stream, map_buckets[n], f[n - 1], f[n])
                         /\ f[n - 1] < f[n]
  BY <1>1, LayeredFacts DEF Layered
<1>4. /\ DOMAIN b = 1..L /\ L \in Nat
      /\ \A n \in 1..M : b[n] = univs[n]
      /\ \A n \in 1..N : b[M + n] = map_buckets[n]
  <2> DEFINE S == Range(univs) \cup Range(map_buckets)
  <2>1. IsSeq(univs) /\ IsSeq(map_buckets)
    BY <1>1 DEF Layered
  <2>2. univs \in Seq(S) /\ map_buckets \in Seq(S)
    BY <2>1 DEF IsSeq
  <2> HIDE DEF S
  <2> QED
    BY <1>2, <1>3, <2>2, ConcatProperties DEF Buckets
<1> DEFINE J == [n \in 0..L |-> IF n <= M THEN e[n] ELSE f[n - M]]
<1>5. /\ J \in [0..L -> 0..A] /\ \A n \in 0..L : J[n] = IF n <= M THEN e[n] ELSE f[n - M]
  <2>1. ASSUME NEW n \in 0..L PROVE (IF n <= M THEN e[n] ELSE f[n - M]) \in 0..A
    <3>1. CASE n <= M
      <4>1. n \in 0..M
        BY <1>2, <3>1
      <4> QED
        BY <1>2, <3>1, <4>1
    <3>2. CASE ~(n <= M)
      <4>1. n - M \in 0..N
        BY <1>2, <1>3, <3>2
      <4> QED
        BY <1>3, <3>2, <4>1
    <3> QED
      BY <3>1, <3>2
  <2> QED
    BY <2>1
<1> HIDE DEF J, M, N, A, b, L
<1>6. /\ J[0] = e[0] /\ J[L] = A /\ L = M + N
      /\ \A n \in 0..M : J[n] = e[n]
      /\ \A n \in 0..N : J[M + n] = f[n]
  <2>0. L = M + N
    BY DEF L
  <2>1. ASSUME NEW n \in 0..M PROVE J[n] = e[n]
    <3>1. n \in 0..L /\ n <= M
      BY <1>2, <1>3, <2>0
    <3> QED
      BY <1>5, <3>1
  <2>2. ASSUME NEW n \in 0..N PROVE J[M + n] = f[n]
    <3>1. M + n \in 0..L /\ (M + n) - M = n /\ (n # 0 => ~(M + n <= M)) /\ (n = 0 => M + n = M)
      BY <1>2, <1>3, <2>0
    <3>2. M \in 0..M
      BY <1>2
    <3> QED
      BY <1>1, <1>5, <2>1, <3>1, <3>2
  <2>3. 0 \in 0..M /\ N \in 0..N
    BY <1>2, <1>3
  <2> QED
    BY <1>1, <2>0, <2>1, <2>2, <2>3
<1>7. ASSUME NEW n \in 1..L
      PROVE  \E layer \in Layer : PartIs(layer, stream, b[n], J[n - 1], J[n]) /\ J[n - 1] < J[n]
  <2>1. CASE n <= M
    <3>1. n \in 1..M /\ n - 1 \in 0..M /\ n \in 0..M
      BY <1>2, <2>1
    <3>2. b[n] = univs[n] /\ J[n - 1] = e[n - 1] /\ J[n] = e[n]
      BY <1>4, <1>6, <3>1
    <3> QED
      BY <1>2, <3>1, <3>2 DEF Layer
  <2>2. CASE ~(n <= M)
    <3> DEFINE k == n - M
    <3>1. /\ k \in 1..N /\ k - 1 \in 0..N /\ k \in 0..N
          /\ M + k = n /\ M + (k - 1) = n - 1
      BY <1>2, <1>3, <1>6, <2>2
    <3> HIDE DEF k
    <3>2. b[n] = map_buckets[k] /\ J[n - 1] = f[k - 1] /\ J[n] = f[k]
      BY <1>4, <1>6, <3>1
    <3> QED
      BY <1>3, <3>1, <3>2 DEF Layer
  <2> QED
    BY <2>1, <2>2
<1>8. ASSUME NEW n \in 1..L
      PROVE  /\ J[n - 1] \in 0..A /\ J[n] \in 0..A /\ J[n - 1] < J[n]
             /\ b[n].samples = SubSeq(stream, J[n - 1] + 1, J[n])
             /\ b[n].bucket_size = J[n] - J[n - 1]
             /\ b[n].min_time = b[n].samples[1].t
             /\ b[n].max_time = b[n].samples[b[n].bucket_size].t
  <2> DEFINE lo == J[n - 1]
             hi == J[n]
  <2>1. lo \in 0..A /\ hi \in 0..A
    <3>1. n - 1 \in 0..L /\ n \in 0..L
      BY <1>4
    <3> QED
      BY <1>5, <3>1
  <2>2. PICK layer : PartIs(layer, stream, b[n], lo, hi) /\ lo < hi
    BY <1>7
  <2> HIDE DEF lo, hi
  <2>3. LET p == SubSeq(stream, lo + 1, hi)
        IN  p[1] = stream[lo + 1] /\ p[hi - lo] = stream[hi]
    BY <2>1, <2>2, EndsOfPart DEF A
  <2>4. /\ b[n].samples = SubSeq(stream, lo + 1, hi) /\ b[n].bucket_size = hi - lo
        /\ b[n].min_time = stream[lo + 1].t /\ b[n].max_time = stream[hi].t
    BY <2>2 DEF PartIs
  <2> QED
    BY <2>1, <2>2, <2>3, <2>4 DEF lo, hi
<1>9. /\ Len(z) = L /\ \A n \in 1..L : z[n] = b[n].bucket_size
  <2>1. z = [i \in 1..L |-> b[i].bucket_size]
    BY <1>4
  <2> HIDE DEF z
  <2> DEFINE S == {b[i].bucket_size : i \in 1..L}
  <2>2. z \in [1..L -> S]
    BY <2>1
  <2> HIDE DEF S
  <2>3. z \in Seq(S)
    <3>1. Seq(S) = UNION {[1..n -> S] : n \in Nat}
      BY SeqDef
    <3> QED
      BY <1>4, <2>2, <3>1
  <2>4. DOMAIN z = 1..L /\ DOMAIN z = 1..Len(z) /\ Len(z) \in Nat
    BY <2>2, <2>3, LenProperties
  <2>5. Len(z) = L
    BY <1>4, <2>2, <2>3, <2>4, LenProperties
  <2> QED
    BY <2>1, <2>5
<1> HIDE DEF z
<1>10. /\ KeptFrom(z) = J[0]
       /\ \A n \in 1..L : SamplesOfBucket(z, n) = SubSeq(stream, J[n - 1] + 1, J[n])
  <2>1. ASSUME NEW n \in 1..L PROVE z[n] \in Int /\ J[n] = J[n - 1] + z[n]
    <3> DEFINE lo == J[n - 1]
               hi == J[n]
    <3>1. lo \in 0..A /\ hi \in 0..A /\ b[n].bucket_size = hi - lo
      BY <1>8
    <3>2. z[n] = b[n].bucket_size
      BY <1>9
    <3> HIDE DEF lo, hi
    <3>3. z[n] \in Int /\ hi = lo + z[n]
      BY <1>2, <3>1, <3>2
    <3> QED
      BY <3>3 DEF lo, hi
  <2>2. J \in [0..L -> Int]
    <3>1. 0..A \subseteq Int
      BY <1>2
    <3> QED
      BY <1>5, <3>1
  <2>3. Len(stream) \in Nat /\ J[L] = Len(stream)
    BY <1>2, <1>6 DEF A
  <2> QED
    <3>1. L \in Nat /\ Len(z) = L
      BY <1>4, <1>9
    <3> QED
      BY <2>1, <2>2, <2>3, <3>1, PlacesAre
<1>11. J[0] \in 0..A /\ KeptFrom(z) = e[0]
  <2>1. 0 \in 0..L
    BY <1>4
  <2> QED
    BY <1>5, <1>6, <1>10, <2>1
<1>12. ASSUME NEW i \in 1..KeptFrom(z) PROVE stream[i].t < Newest - UnivWindow
  <2>1. A # 0
    BY <1>2, <1>6, <1>11
  <2>2. stream # <<>>
    BY <2>1 DEF A
  <2>3. Newest = stream[A].t
    BY <2>2 DEF Newest, A
  <2> QED
    BY <1>1, <1>11, <2>3
<1>13. stream # <<>> => map_count > 0
  <2>1. stream # <<>> => A > 0
    <3>1. stream \in Seq(Samples)
      BY OrderedFacts
    <3> QED
      BY <3>1 DEF A
  <2> QED
    BY <1>1, <2>1 DEF map_count, N
<1>14. ASSUME NEW i \in DOMAIN b
       PROVE  /\ b[i].bucket_size > 0 /\ b[i].samples = SamplesOfBucket(z, i)
              /\ b[i].min_time = b[i].samples[1].t
              /\ b[i].max_time = b[i].samples[b[i].bucket_size].t
  <2>1. i \in 1..L
    BY <1>4
  <2>2. b[i].bucket_size > 0
    <3> DEFINE lo == J[i - 1]
               hi == J[i]
    <3>1. lo \in 0..A /\ hi \in 0..A /\ b[i].bucket_size = hi - lo /\ lo < hi
      BY <1>8, <2>1
    <3> HIDE DEF lo, hi
    <3> QED
      BY <1>2, <3>1
  <2> QED
    BY <1>8, <1>10, <2>1, <2>2
<1>15. KeptFrom(z) >= 0
  BY <1>2, <1>10, <1>11
<1>16. Buckets = b /\ z = [i \in DOMAIN Buckets |-> Buckets[i].bucket_size]
  BY DEF b, z
<1> QED
  BY <1>12, <1>13, <1>14, <1>15, <1>16 DEF UnivWindowIsKept

\* By the invariant the map at an edge is light, and neighbours were not left unjoined.
LEMMA UnivEdgeIsRight ==
  ASSUME Ordered(stream), UnivInv
  PROVE  UnivEdgeIsLight
<1> DEFINE L == Len(map_buckets)
           l22 == [i \in 1..map_count |-> calc_l22(map_buckets[i])]
           after(i) == UpTo(l22)[map_count] - UpTo(l22)[i]
<1>1. PICK f, a : Layered("maps", stream, map_buckets, f) /\ Weighed(map_buckets, a, 1)
  BY DEF UnivInv, LayersAre
<1>2. /\ Weighs(map_buckets, a)
      /\ \A k \in 1..L : map_buckets[k].bucket_size > 1
                           => AtMostTwice(calc_l22(map_buckets[k]), a[k])
      /\ \A k \in 1..L : 1 <= k /\ k < L =>
           ~IsLight(calc_l22(map_buckets[k]), calc_l22(map_buckets[k + 1]), a[k + 1])
  BY <1>1 DEF Weighed
<1>3. L \in Nat
  BY <1>1, LayeredFacts
<1>4. /\ \A k \in 0..L : a[k] \in Nat
      /\ \A k \in 1..L : a[k - 1] = a[k] + calc_l22(map_buckets[k])
      /\ a[L] = 0
  BY <1>2, <1>3, WeighsFacts DEF Weighs
<1>5. \A k \in 1..L : calc_l22(map_buckets[k]) \in Nat
  BY <1>1, WeightsAre
<1>6. map_count = L
  BY DEF map_count
<1> HIDE DEF L
<1>7. /\ l22 \in [1..L -> Nat] /\ \A k \in 1..L : l22[k] = calc_l22(map_buckets[k])
  BY <1>5, <1>6
<1> HIDE DEF l22
<1>8. Len(l22) = L
  <2>1. l22 \in Seq(Nat)
    <3>1. Seq(Nat) = UNION {[1..n -> Nat] : n \in Nat}
      BY SeqDef
    <3> QED
      BY <1>3, <1>7, <3>1
  <2> QED
    BY <1>3, <1>7, <2>1, LenProperties
<1> DEFINE E == [n \in 0..L |-> 0 - a[n]]
<1>9. \A n \in 0..L : UpTo(l22)[n] = (0 - a[n]) - (0 - a[0])
  <2>1. E \in [0..L -> Int] /\ \A n \in 0..L : E[n] = 0 - a[n]
    BY <1>4
  <2> HIDE DEF E
  <2>2. ASSUME NEW n \in 1..L PROVE l22[n] \in Int /\ E[n] = E[n - 1] + l22[n]
    <3>1. n \in 0..L /\ n - 1 \in 0..L
      BY <1>3
    <3> DEFINE w == calc_l22(map_buckets[n])
    <3>2. l22[n] = w /\ w \in Nat /\ a[n - 1] = a[n] + w
      BY <1>4, <1>5, <1>7
    <3>3. E[n] = 0 - a[n] /\ E[n - 1] = 0 - a[n - 1] /\ a[n] \in Nat /\ a[n - 1] \in Nat
      BY <1>4, <2>1, <3>1
    <3> HIDE DEF w
    <3> QED
      BY <3>2, <3>3
  <2>3. Len(l22) \in Nat /\ E \in [0..Len(l22) -> Int]
    BY <1>3, <1>8, <2>1
  <2>4. \A n \in 1..Len(l22) : l22[n] \in Int /\ E[n] = E[n - 1] + l22[n]
    BY <1>8, <2>2
  <2>5. \A n \in 0..Len(l22) : UpTo(l22)[n] = E[n] - E[0]
    BY <2>3, <2>4, UpToIs
  <2>6. 0 \in 0..L
    BY <1>3
  <2> QED
    BY <1>8, <2>1, <2>5, <2>6
<1>10. ASSUME NEW i \in 1..L PROVE after(i) = a[i]
  <2>1. L \in 0..L /\ i \in 0..L /\ 0 \in 0..L
    BY <1>3
  <2>2. UpTo(l22)[L] = (0 - a[L]) - (0 - a[0]) /\ UpTo(l22)[i] = (0 - a[i]) - (0 - a[0])
    BY <1>9, <2>1
  <2>3. a[L] = 0 /\ a[i] \in Nat /\ a[0] \in Nat
    BY <1>4, <2>1
  <2> QED
    BY <1>6, <2>2, <2>3
<1> HIDE DEF after
<1>11. ASSUME NEW i \in 1..L, map_buckets[i].bucket_size > 1 PROVE K * l22[i] <= 2 * after(i)
  <2>1. AtMostTwice(l22[i], after(i))
    BY <1>2, <1>7, <1>10, <1>11
  <2> QED
    BY <2>1 DEF AtMostTwice
<1>12. ASSUME NEW i \in 1..L - 1 PROVE K * (l22[i] + l22[i + 1]) > after(i + 1)
  <2>1. i \in 1..L /\ i + 1 \in 1..L /\ i + 1 \in 0..L /\ 1 <= i /\ i < L
    BY <1>3
  <2>2. ~IsLight(l22[i], l22[i + 1], after(i + 1))
    BY <1>2, <1>7, <1>10, <2>1
  <2>3. l22[i] \in Nat /\ l22[i + 1] \in Nat /\ after(i + 1) \in Nat
    BY <1>4, <1>7, <1>10, <2>1
  <2> DEFINE w == K * (l22[i] + l22[i + 1])
             y == after(i + 1)
  <2>4. ~(w <= y)
    BY <2>2 DEF IsLight
  <2>5. w \in Nat /\ y \in Nat
    <3>1. K \in Nat
      BY UnivHistogramAssumption
    <3> DEFINE t == l22[i] + l22[i + 1]
    <3>2. t \in Nat
      BY <2>3
    <3> HIDE DEF t
    <3>3. K * t \in Nat
      BY <3>1, <3>2
    <3> QED
      BY <2>3, <3>3 DEF t
  <2> HIDE DEF w, y
  <2>6. w > y
    BY <2>4, <2>5
  <2> QED
    BY <2>6 DEF w, y
<1> QED
  BY <1>6, <1>11, <1>12 DEF UnivEdgeIsLight, l22, after

-----------------------------------------------------------------------------
(* Smooth histograms: a sketch that is fed one sample after the other *)

\* A sum of which one term changes.
LEMMA SumChanges ==
  ASSUME NEW a \in [Keys -> Nat], NEW b \in [Keys -> Nat], NEW key \in Keys,
         \A k \in Keys : k # key => a[k] = b[k]
  PROVE  /\ SumOverKeys(a) \in Nat /\ SumOverKeys(b) \in Nat
         /\ SumOverKeys(b) = SumOverKeys(a) + (b[key] - a[key])
<1>1. PICK f : SumsOf(a, f) /\ SumOverKeys(a) = f[Keys]
  BY SumIsTable
<1>2. PICK g : SumsOf(b, g) /\ SumOverKeys(b) = g[Keys]
  BY SumIsTable
<1> DEFINE Fits(s) == /\ f[s] \in Nat /\ g[s] \in Nat
                      /\ key \in s => g[s] = f[s] + (b[key] - a[key])
                      /\ key \notin s => g[s] = f[s]
           W == {s \in SUBSET Keys : ~Fits(s)}
<1>3. W = {}
  <2> SUFFICES ASSUME W # {} PROVE FALSE
    OBVIOUS
  <2>1. PICK s \in W : \A t \in W : t \subseteq s => t = s
    <3>1. W \in SUBSET (SUBSET Keys)
      OBVIOUS
    <3> HIDE DEF W
    <3> QED
      BY <3>1, MinimalPart, SketchesAssumption
  <2>2. s \in SUBSET Keys /\ ~Fits(s)
    BY <2>1
  <2>3. s # {}
    <3>1. s = {} => f[s] = 0 /\ g[s] = 0
      BY <1>1, <1>2 DEF SumsOf
    <3> QED
      BY <2>2, <3>1
  <2> DEFINE k == AnyOf(s)
             t == Others(s)
  <2>4. /\ k \in Keys /\ t \in SUBSET Keys /\ Fits(t)
        /\ k # key => (key \in s <=> key \in t)
        /\ k = key => key \in s /\ key \notin t
    <3>1. t \subseteq s /\ t # s /\ k \in s
      BY <2>3, AnyIsIn
    <3>2. t = s \ {k}
      BY DEF Others, AnyOf
    <3> HIDE DEF Fits, k, t
    <3> QED
      BY <2>1, <2>2, <3>1, <3>2
  <2>5. f[s] = f[t] + a[k] /\ g[s] = g[t] + b[k]
    BY <1>1, <1>2, <2>2, <2>3 DEF SumsOf
  <2> HIDE DEF k, t
  <2>6. a[k] \in Nat /\ b[k] \in Nat /\ a[key] \in Nat /\ b[key] \in Nat
        /\ (k # key => a[k] = b[k])
    BY <2>4
  <2>7. CASE k = key
    BY <2>2, <2>4, <2>5, <2>6, <2>7
  <2>8. CASE k # key
    BY <2>2, <2>4, <2>5, <2>6, <2>8
  <2> QED
    BY <2>7, <2>8
<1>4. Fits(Keys)
  <2> HIDE DEF Fits
  <2> QED
    BY <1>3
<1> QED
  BY <1>1, <1>2, <1>4

\* One more sample.
LEMMA HowManyAppended ==
  ASSUME NEW p \in Seq(Samples), NEW x \in Samples, NEW key
  PROVE  HowMany(Append(p, x), key) = HowMany(p, key) + (IF x.v = key THEN 1 ELSE 0)
<1>1. Append(p, x) = p \o <<x>> /\ <<x>> \in Seq(Samples)
  BY AppendIsConcat
<1>2. HowMany(p \o <<x>>, key) = HowMany(p, key) + HowMany(<<x>>, key)
  BY <1>1, HowManyBoth
<1>3. HowMany(<<x>>, key) = IF x.v = key THEN 1 ELSE 0
  BY HowManyOne
<1> QED
  BY <1>1, <1>2, <1>3

\* A sample adds twice the number of those with its key, and one, to the sum of the squares.
LEMMA SquaresAppended ==
  ASSUME NEW p \in Seq(Samples), NEW x \in Samples
  PROVE  /\ SquaresOf(p) \in Nat
         /\ SquaresOf(Append(p, x)) = SquaresOf(p) + 2 * HowMany(p, x.v) + 1
<1> DEFINE a == [key \in Keys |-> HowMany(p, key) * HowMany(p, key)]
           b == [key \in Keys |-> HowMany(Append(p, x), key) * HowMany(Append(p, x), key)]
           n == HowMany(p, x.v)
<1>1. x.v \in Keys /\ Append(p, x) \in Seq(Samples)
  BY AppendProperties DEF Samples
<1>2. \A key \in Keys : HowMany(p, key) \in Nat /\ HowMany(Append(p, x), key) \in Nat
  BY <1>1, HowManyType
<1>3. a \in [Keys -> Nat] /\ b \in [Keys -> Nat]
  BY <1>2
<1>4. \A key \in Keys : key # x.v => HowMany(Append(p, x), key) = HowMany(p, key)
  <2> SUFFICES ASSUME NEW key \in Keys, key # x.v
               PROVE  HowMany(Append(p, x), key) = HowMany(p, key)
    OBVIOUS
  <2>1. HowMany(Append(p, x), key) = HowMany(p, key) + 0
    BY HowManyAppended
  <2> QED
    BY <1>2, <2>1
<1>5. HowMany(Append(p, x), x.v) = n + 1 /\ n \in Nat
  BY <1>1, <1>2, HowManyAppended
<1>6. a[x.v] = n * n /\ b[x.v] = (n + 1) * (n + 1)
  BY <1>1, <1>5
<1>7. \A key \in Keys : key # x.v => a[key] = b[key]
  BY <1>4
<1> HIDE DEF a, b, n
<1>8. /\ SumOverKeys(a) \in Nat
      /\ SumOverKeys(b) = SumOverKeys(a) + (b[x.v] - a[x.v])
  BY <1>1, <1>3, <1>7, SumChanges
<1>9. b[x.v] - a[x.v] = 2 * n + 1
  BY <1>5, <1>6
<1>10. SumOverKeys(b) = SumOverKeys(a) + 2 * n + 1
  BY <1>5, <1>8, <1>9
<1> QED
  BY <1>8, <1>10 DEF SquaresOf, a, b, n

\* The second moment of a row in which no two keys meet.
Normed(cs, part) ==
  \A r \in Rows : /\ cs.l2[r] \in Int
                  /\ NobodyMeets(r) => cs.l2[r] = SquaresOf(part)

\* A row in which no two keys meet is clean for each of them.
LEMMA NobodyMeetsIsClean ==
  ASSUME NEW r \in Rows, NobodyMeets(r), NEW key \in Keys
  PROVE  r \in CleanRows(key)
BY DEF NobodyMeets, CleanRows

\* UpdateString counts one sample.
LEMMA UpdateCounts ==
  ASSUME NEW cs, {"count", "l2"} \subseteq DOMAIN cs, NEW p \in Seq(Samples), NEW x \in Samples,
         Counted(cs, p), Normed(cs, p)
  PROVE  LET new == UpdateString(cs, x.v, 1)
         IN  /\ DOMAIN new = DOMAIN cs /\ \A f \in DOMAIN cs \ {"count", "l2"} : new[f] = cs[f]
             /\ Counted(new, Append(p, x)) /\ Normed(new, Append(p, x))
<1> DEFINE one == UpdateStringNoL2(cs, x.v, 1)
           new == UpdateString(cs, x.v, 1)
           l2 == [r \in Rows |-> cs.l2[r] + Cell(one, r, x.v) * Cell(one, r, x.v)
                                   - Cell(cs, r, x.v) * Cell(cs, r, x.v)]
<1>1. x.v \in Keys
  BY DEF Samples
<1>2. /\ DOMAIN one = DOMAIN cs /\ \A f \in DOMAIN cs : f # "count" => one[f] = cs[f]
      /\ one.count = [r \in Rows |-> [cs.count[r] EXCEPT ![Position[x.v][r]] = @ + Sign[x.v][r] * 1]]
  BY DEF UpdateStringNoL2
<1> HIDE DEF one
<1>3. /\ DOMAIN new = DOMAIN cs /\ \A f \in DOMAIN cs \ {"count", "l2"} : new[f] = cs[f]
      /\ new.count = one.count /\ new.l2 = l2
  BY <1>2 DEF UpdateString, one
<1> HIDE DEF new
<1>4. ASSUME NEW r \in Rows
      PROVE  /\ new.count[r] \in [0..Cols - 1 -> Int]
             /\ Position[x.v][r] \in 0..Cols - 1 /\ Sign[x.v][r] \in {1, -1}
             /\ Cell(new, r, x.v) = Cell(cs, r, x.v) + Sign[x.v][r]
             /\ Cell(one, r, x.v) = Cell(new, r, x.v)
             /\ Cell(cs, r, x.v) \in Int
             /\ \A c \in 0..Cols - 1 : c # Position[x.v][r] => new.count[r][c] = cs.count[r][c]
  <2>1. new.count[r] = [cs.count[r] EXCEPT ![Position[x.v][r]] = @ + Sign[x.v][r] * 1]
    BY <1>2, <1>3
  <2>2. Position[x.v][r] \in 0..Cols - 1 /\ Sign[x.v][r] \in {1, -1}
    BY <1>1, PositionIn
  <2>3. cs.count[r] \in [0..Cols - 1 -> Int]
    BY DEF Counted
  <2> DEFINE col == Position[x.v][r]
  <2>4. /\ new.count[r] \in [0..Cols - 1 -> Int] /\ cs.count[r][col] \in Int
        /\ new.count[r][col] = cs.count[r][col] + Sign[x.v][r]
        /\ \A c \in 0..Cols - 1 : c # col => new.count[r][c] = cs.count[r][c]
    <3> DEFINE f == cs.count[r]
               g == new.count[r]
    <3>1. f \in [0..Cols - 1 -> Int] /\ col \in 0..Cols - 1 /\ Sign[x.v][r] \in Int
      BY <2>2, <2>3
    <3>2. g = [f EXCEPT ![col] = f[col] + Sign[x.v][r] * 1]
      BY <2>1
    <3> HIDE DEF f, g, col
    <3>3. f[col] \in Int /\ f[col] + Sign[x.v][r] * 1 = f[col] + Sign[x.v][r]
      BY <3>1
    <3>4. g = [f EXCEPT ![col] = f[col] + Sign[x.v][r]]
      BY <3>2, <3>3
    <3>5. f[col] + Sign[x.v][r] \in Int
      BY <3>1, <3>3
    <3> QED
      BY <3>1, <3>3, <3>4, <3>5 DEF f, g
  <2>5. one.count[r][col] = new.count[r][col]
    BY <1>3
  <2> QED
    BY <2>2, <2>4, <2>5 DEF Cell
<1>5. new.count \in [Rows -> [0..Cols - 1 -> Int]]
  <2>1. new.count = [r \in Rows |-> new.count[r]]
    BY <1>2, <1>3
  <2> QED
    BY <1>4, <2>1
<1>6. ASSUME NEW key \in Keys, NEW r \in CleanRows(key)
      PROVE  Cell(new, r, key) = Sign[key][r] * HowMany(Append(p, x), key)
  <2>1. r \in Rows /\ (x.v # key => Position[x.v][r] # Position[key][r])
    BY <1>1, CleanRowsAre
  <2>2. Position[key][r] \in 0..Cols - 1 /\ Sign[key][r] \in {1, -1}
    BY <2>1, PositionIn
  <2>3. HowMany(Append(p, x), key) = HowMany(p, key) + (IF x.v = key THEN 1 ELSE 0)
    BY HowManyAppended
  <2>4. Cell(cs, r, key) = Sign[key][r] * HowMany(p, key) /\ HowMany(p, key) \in Nat
    BY HowManyType DEF Counted
  <2>5. CASE x.v = key
    <3>1. /\ Cell(new, r, key) = Sign[key][r] * HowMany(p, key) + Sign[key][r]
          /\ HowMany(Append(p, x), key) = HowMany(p, key) + 1
      BY <1>4, <2>1, <2>3, <2>4, <2>5
    <3>2. CASE Sign[key][r] = 1
      BY <2>4, <3>1, <3>2
    <3>3. CASE Sign[key][r] = -1
      BY <2>4, <3>1, <3>3
    <3> QED
      BY <2>2, <3>2, <3>3
  <2>6. CASE x.v # key
    <3>1. Cell(new, r, key) = Cell(cs, r, key)
      BY <1>4, <2>1, <2>2, <2>6 DEF Cell
    <3>2. HowMany(Append(p, x), key) = HowMany(p, key)
      BY <2>3, <2>4, <2>6
    <3> QED
      BY <2>4, <3>1, <3>2
  <2> QED
    BY <2>5, <2>6
<1>7. ASSUME NEW r \in Rows
      PROVE  new.l2[r] \in Int /\ (NobodyMeets(r) => new.l2[r] = SquaresOf(Append(p, x)))
  <2> DEFINE a == Cell(cs, r, x.v)
             b == Cell(new, r, x.v)
             n == HowMany(p, x.v)
  <2>1. new.l2[r] = cs.l2[r] + b * b - a * a /\ b = a + Sign[x.v][r] /\ a \in Int
    BY <1>3, <1>4
  <2>2. cs.l2[r] \in Int /\ (NobodyMeets(r) => cs.l2[r] = SquaresOf(p))
    BY DEF Normed
  <2>3. Sign[x.v][r] \in {1, -1}
    BY <1>4
  <2>4. n \in Nat /\ SquaresOf(p) \in Nat /\ SquaresOf(Append(p, x)) = SquaresOf(p) + 2 * n + 1
    BY HowManyType, SquaresAppended
  <2>5. NobodyMeets(r) => a = Sign[x.v][r] * n
    BY <1>1, NobodyMeetsIsClean DEF Counted
  <2> HIDE DEF a, b, n
  <2>6. CASE Sign[x.v][r] = 1
    <3>1. b = a + 1 /\ b * b = a * a + 2 * a + 1 /\ a * a \in Int
      BY <2>1, <2>6
    <3>2. NobodyMeets(r) => a = n
      BY <2>4, <2>5, <2>6
    <3> DEFINE q == a * a
    <3>3. new.l2[r] = cs.l2[r] + (q + 2 * a + 1) - q /\ q \in Int
      BY <2>1, <3>1
    <3> HIDE DEF q
    <3>4. new.l2[r] = cs.l2[r] + 2 * a + 1
      BY <2>1, <2>2, <3>3
    <3>5. ASSUME NobodyMeets(r) PROVE new.l2[r] = SquaresOf(Append(p, x))
      BY <2>2, <2>4, <3>2, <3>4, <3>5
    <3>6. new.l2[r] \in Int
      BY <2>1, <2>2, <3>4
    <3> QED
      BY <3>5, <3>6
  <2>7. CASE Sign[x.v][r] = -1
    <3>1. b = a - 1 /\ b * b = a * a - 2 * a + 1 /\ a * a \in Int
      BY <2>1, <2>7
    <3>2. NobodyMeets(r) => a = -n
      BY <2>4, <2>5, <2>7
    <3> DEFINE q == a * a
    <3>3. new.l2[r] = cs.l2[r] + (q - 2 * a + 1) - q /\ q \in Int
      BY <2>1, <3>1
    <3> HIDE DEF q
    <3>4. new.l2[r] = cs.l2[r] - 2 * a + 1
      BY <2>1, <2>2, <3>3
    <3>5. ASSUME NobodyMeets(r) PROVE new.l2[r] = SquaresOf(Append(p, x))
      BY <2>2, <2>4, <3>2, <3>4, <3>5
    <3>6. new.l2[r] \in Int
      BY <2>1, <2>2, <3>4
    <3> QED
      BY <3>5, <3>6
  <2> QED
    BY <2>3, <2>6, <2>7
<1> QED
  BY <1>3, <1>5, <1>6, <1>7 DEF Counted, Normed, new

\* Nothing is counted at first.
LEMMA NothingIsCounted ==
  /\ Counted(NewCountSketchUniv, <<>>) /\ Normed(NewCountSketchUniv, <<>>)
  /\ Counted(NewCountSketch, <<>>) /\ Normed(NewCountSketch, <<>>)
<1>1. \A key : HowMany(<<>>, key) = 0
  <2> SUFFICES ASSUME NEW key PROVE HowMany(<<>>, key) = 0
    OBVIOUS
  <2>1. {i \in DOMAIN <<>> : <<>>[i].v = key} = {}
    OBVIOUS
  <2> QED
    BY <2>1, FS_EmptySet DEF HowMany
<1>2. SquaresOf(<<>>) = 0
  <2> DEFINE a == [key \in Keys |-> HowMany(<<>>, key) * HowMany(<<>>, key)]
  <2>1. \A key \in Keys : a[key] = 0
    BY <1>1
  <2>2. a \in [Keys -> Nat]
    BY <1>1
  <2>3. \A key \in Keys : a[key] + a[key] <= a[key] /\ a[key] <= 2 * (a[key] + a[key])
    BY <2>1
  <2> HIDE DEF a
  <2>4. SumOverKeys(a) \in Nat /\ SumOverKeys(a) + SumOverKeys(a) <= SumOverKeys(a)
    BY <2>2, <2>3, SumBounds
  <2>5. SumOverKeys(a) = 0
    BY <2>4
  <2> QED
    BY <2>5 DEF SquaresOf, a
<1>3. Cols \in Nat
  BY CountSketchAssumption
<1>4. ASSUME NEW cs, cs.count = [r \in Rows |-> [c \in 0..Cols - 1 |-> 0]],
             cs.l2 = [r \in Rows |-> 0]
      PROVE  Counted(cs, <<>>) /\ Normed(cs, <<>>)
  <2>1. cs.count \in [Rows -> [0..Cols - 1 -> Int]]
    BY <1>4
  <2>2. ASSUME NEW key \in Keys, NEW r \in CleanRows(key)
        PROVE  Cell(cs, r, key) = Sign[key][r] * HowMany(<<>>, key)
    <3>1. r \in Rows
      BY CleanRowsAre
    <3>2. Position[key][r] \in 0..Cols - 1 /\ Sign[key][r] \in {1, -1}
      BY <3>1, PositionIn
    <3>3. Cell(cs, r, key) = 0
      BY <1>4, <3>1, <3>2 DEF Cell
    <3> QED
      BY <1>1, <3>2, <3>3
  <2>3. Normed(cs, <<>>)
    BY <1>2, <1>4 DEF Normed
  <2> QED
    BY <2>1, <2>2, <2>3 DEF Counted
<1> QED
  BY <1>4 DEF NewCountSketch, NewCountSketchUniv

\* Where the norm is decided it is exact.
LEMMA NormIsExact ==
  ASSUME NEW cs, NEW part \in Seq(Samples), Normed(cs, part), TwoRowsApart
  PROVE  cs_l22(cs) = SquaresOf(part)
<1> DEFINE R == {r \in Rows : NobodyMeets(r)}
           n == SquaresOf(part)
<1>1. PICK r \in R, q \in R : r # q
  <2>1. IsFiniteSet(Rows)
    <3>1. 1 \in Int /\ 3 \in Int
      OBVIOUS
    <3> QED
      BY <3>1, FS_Interval DEF Rows
  <2>2. R \subseteq Rows
    OBVIOUS
  <2>3. Cardinality(R) >= 2
    BY DEF TwoRowsApart
  <2> HIDE DEF R
  <2>4. IsFiniteSet(R)
    BY <2>1, <2>2, FS_Subset
  <2>5. ASSUME \A r, q \in R : r = q PROVE FALSE
    <3>1. CASE R = {}
      BY <2>3, <3>1, FS_EmptySet
    <3>2. CASE R # {}
      <4>1. PICK r \in R : R = {r}
        BY <2>5, <3>2
      <4>2. Cardinality({r}) = 1
        BY FS_Singleton
      <4> QED
        BY <2>3, <4>1, <4>2
    <3> QED
      BY <3>1, <3>2
  <2> QED
    BY <2>5
<1>2. n \in Nat
  <2>1. <<>> \in Seq(Samples)
    OBVIOUS
  <2> QED
    BY <2>1, SquaresBoth
<1>3. cs.l2[1] \in Int /\ cs.l2[2] \in Int /\ cs.l2[3] \in Int
  BY DEF Normed, Rows
<1>4. r \in {1, 2, 3} /\ q \in {1, 2, 3} /\ cs.l2[r] = n /\ cs.l2[q] = n
  BY DEF Normed, Rows
<1>5. cs_l22(cs) = MedianOfThree(cs.l2[1], cs.l2[2], cs.l2[3])
  BY DEF cs_l22, MiddleOf
<1> HIDE DEF n, R
<1>6. \/ cs.l2[1] = n /\ cs.l2[2] = n
      \/ cs.l2[1] = n /\ cs.l2[3] = n
      \/ cs.l2[2] = n /\ cs.l2[3] = n
  BY <1>1, <1>4
<1>7. MedianOfThree(cs.l2[1], cs.l2[2], cs.l2[3]) = n
  BY <1>2, <1>3, <1>6 DEF MedianOfThree
<1> QED
  BY <1>5, <1>7 DEF n

\* A universal sketch that was fed from its beginning.
IsFedWith(us, part) ==
  /\ IsUnivOf(us, part) /\ {"count", "l2"} \subseteq DOMAIN us.cs_layers[0]
  /\ Counted(us.cs_layers[0], part) /\ Normed(us.cs_layers[0], part)

\* A universal sketch that is fed stays one that was fed from its beginning.
LEMMA FeedCounts ==
  ASSUME NEW us, NEW p \in Seq(Samples), IsFedWith(us, p), NEW x \in Samples
  PROVE  LET u == FeedSample(us, x.t, x.v)
         IN IsFedWith(u, Append(p, x)) /\ u.min_time = us.min_time
<1> DEFINE o == update_optimized(us, x.v, 1)
           w == univmon_processing_optimized(us, x.v, 1)
           u == FeedSample(us, x.t, x.v)
           cs == us.cs_layers[0]
<1>1. 0 \in LayerSet
  BY UnivSketchAssumption DEF LayerSet
<1>2. DOMAIN us = UnivFields /\ us.samples = p /\ us.bucket_size = Len(p)
  BY DEF IsFedWith, IsUnivOf
<1>3. /\ DOMAIN o = UnivFields /\ o.samples = p /\ o.bucket_size = Len(p)
      /\ o.min_time = us.min_time /\ o.cs_layers[0] = UpdateString(cs, x.v, 1)
  BY <1>1, <1>2 DEF update_optimized, UnivFields
<1> HIDE DEF o
<1>4. /\ DOMAIN w = UnivFields /\ w.samples = p /\ w.bucket_size = Len(p) + 1
      /\ w.min_time = us.min_time /\ w.cs_layers = o.cs_layers
  BY <1>3 DEF univmon_processing_optimized, UnivFields, o
<1> HIDE DEF w
<1>5. x = [t |-> x.t, v |-> x.v]
  BY DEF Samples
<1>6. /\ DOMAIN u = UnivFields /\ u.samples = Append(p, x) /\ u.bucket_size = Len(p) + 1
      /\ u.min_time = us.min_time /\ u.cs_layers = o.cs_layers
  BY <1>4, <1>5 DEF FeedSample, UnivFields, w
<1> HIDE DEF u
<1>7. LET new == UpdateString(cs, x.v, 1)
      IN  DOMAIN new = DOMAIN cs /\ Counted(new, Append(p, x)) /\ Normed(new, Append(p, x))
  BY UpdateCounts DEF IsFedWith
<1>8. Len(Append(p, x)) = Len(p) + 1
  BY AppendProperties
<1> QED
  BY <1>3, <1>6, <1>7, <1>8 DEF IsFedWith, IsUnivOf, u

\* The same for a count sketch with its heap.
LEMMA CSFeedCounts ==
  ASSUME NEW cs, DOMAIN cs = {"count", "l2", "topK"}, NEW p \in Seq(Samples), NEW x \in Samples,
         Counted(cs, p), Normed(cs, p)
  PROVE  LET new == CSUpdateString(cs, x.v)
         IN  /\ DOMAIN new = {"count", "l2", "topK"}
             /\ Counted(new, Append(p, x)) /\ Normed(new, Append(p, x))
<1> DEFINE up == UpdateString(cs, x.v, 1)
           new == CSUpdateString(cs, x.v)
<1>1. DOMAIN up = DOMAIN cs /\ Counted(up, Append(p, x)) /\ Normed(up, Append(p, x))
  BY UpdateCounts
<1>2. DOMAIN new = DOMAIN up /\ new.count = up.count /\ new.l2 = up.l2
  <2> HIDE DEF up
  <2> QED
    BY <1>1 DEF CSUpdateString, up
<1> HIDE DEF up, new
<1> QED
  BY <1>1, <1>2 DEF Counted, Normed, Cell, new

-----------------------------------------------------------------------------
(* Smooth histograms: parts of the stream *)

\* A part of a sequence of samples.
LEMMA PartFacts ==
  ASSUME NEW s \in Seq(Samples), NEW lo \in 0..Len(s), NEW hi \in lo..Len(s)
  PROVE  LET p == SubSeq(s, lo + 1, hi)
         IN  /\ p \in Seq(Samples) /\ Len(p) = hi - lo
             /\ \A i \in 1..(hi - lo) : p[i] = s[lo + i]
<1> DEFINE L == Len(s)
           p == SubSeq(s, lo + 1, hi)
<1>1. L \in Nat /\ \A i \in 1..L : s[i] \in Samples
  BY LenProperties, ElementOfSeq
<1>2. lo \in Nat /\ hi \in Nat /\ lo <= hi /\ hi <= L
  BY <1>1
<1>3. /\ p \in Seq(Samples)
      /\ Len(p) = IF lo + 1 <= hi THEN hi - (lo + 1) + 1 ELSE 0
      /\ \A i \in 1..(hi - (lo + 1) + 1) : p[i] = s[(lo + 1) + i - 1]
  <2>1. lo + 1 \in Int /\ hi \in Int /\ \A i \in (lo + 1)..hi : s[i] \in Samples
    BY <1>1, <1>2
  <2> QED
    BY <2>1, SubSeqProperties
<1> HIDE DEF p, L
<1>4. \A i \in 1..(hi - lo) : i \in 1..(hi - (lo + 1) + 1) /\ (lo + 1) + i - 1 = lo + i
  BY <1>2
<1> QED
  BY <1>2, <1>3, <1>4 DEF p

\* One more sample is one more in every part that ends with the newest.
LEMMA PartGrows ==
  ASSUME NEW s, Ordered(s), NEW x \in Samples, Len(s) > 0 => s[Len(s)].t <= x.t
  PROVE  LET u == Append(s, x)
         IN  /\ \A k \in 1..Len(s) :
                  /\ SubSeq(s, k, Len(s)) \in Seq(Samples)
                  /\ SubSeq(u, k, Len(s) + 1) = Append(SubSeq(s, k, Len(s)), x)
             /\ SubSeq(u, Len(s) + 1, Len(s) + 1) = Append(<<>>, x)
<1> DEFINE u == Append(s, x)
           L == Len(s)
<1>1. /\ L \in Nat /\ s \in Seq(Samples)
  BY OrderedFacts
<1>2. /\ Ordered(u) /\ Len(u) = L + 1 /\ u[L + 1] = x
      /\ \A m, n \in 1..L : SubSeq(u, m, n) = SubSeq(s, m, n)
      /\ SubSeq(u, L + 1, L + 1) = <<x>>
  BY AppendOrdered
<1>3. u \in Seq(Samples)
  BY <1>2, OrderedFacts
<1>4. ASSUME NEW k \in 1..L
      PROVE  /\ SubSeq(s, k, L) \in Seq(Samples)
             /\ SubSeq(u, k, L + 1) = Append(SubSeq(s, k, L), x)
  <2>1. k - 1 \in 0..L /\ L \in (k - 1)..L /\ (k - 1) + 1 = k /\ L \in 1..L
    BY <1>1
  <2>2. SubSeq(s, k, L) \in Seq(Samples)
    BY <1>1, <2>1, PartFacts
  <2>3. k \in 1..Len(u) /\ L + 1 \in k..Len(u) /\ (L + 1) - 1 = L
    BY <1>1, <1>2
  <2> HIDE DEF u
  <2>4. SubSeq(u, k, L + 1) = SubSeq(u, k, (L + 1) - 1) \o <<u[L + 1]>>
    BY <1>3, <2>3, SubSeqRecursiveSecond
  <2>5. SubSeq(u, k, L + 1) = SubSeq(s, k, L) \o <<x>>
    BY <1>2, <2>1, <2>3, <2>4
  <2> QED
    BY <2>2, <2>5, AppendIsConcat
<1>5. Append(<<>>, x) = <<x>>
  OBVIOUS
<1> QED
  BY <1>2, <1>4, <1>5 DEF u, L

\* Two parts, one after the other.
LEMMA PartsJoin ==
  ASSUME NEW s \in Seq(Samples), NEW k \in 1..Len(s), NEW m \in k..Len(s)
  PROVE  /\ SubSeq(s, k, m - 1) \in Seq(Samples) /\ SubSeq(s, m, Len(s)) \in Seq(Samples)
         /\ SubSeq(s, k, Len(s)) \in Seq(Samples)
         /\ SubSeq(s, k, Len(s)) = SubSeq(s, k, m - 1) \o SubSeq(s, m, Len(s))
         /\ Len(SubSeq(s, k, m - 1)) = m - k
         /\ Len(SubSeq(s, k, Len(s))) = Len(s) - k + 1
<1> DEFINE L == Len(s)
<1>1. L \in Nat /\ k \in Nat /\ m \in Nat /\ 1 <= k /\ k <= m /\ m <= L
  BY LenProperties
<1>2. /\ k - 1 \in 0..L /\ (k - 1) + 1 = k /\ m - 1 \in (k - 1)..L /\ m - 1 \in 0..L
      /\ (m - 1) + 1 = m /\ L \in (m - 1)..L /\ L \in (k - 1)..L /\ (m - 1) - (k - 1) = m - k
      /\ L - (k - 1) = L - k + 1
  BY <1>1
<1>3. SubSeq(s, k, m - 1) \in Seq(Samples) /\ Len(SubSeq(s, k, m - 1)) = m - k
  BY <1>2, PartFacts
<1>4. SubSeq(s, m, L) \in Seq(Samples)
  BY <1>2, PartFacts
<1>5. SubSeq(s, k, L) \in Seq(Samples) /\ Len(SubSeq(s, k, L)) = L - k + 1
  BY <1>2, PartFacts
<1>6. SubSeq(s, k, m - 1) \o SubSeq(s, (m - 1) + 1, L) = SubSeq(s, k, L)
  <2>1. k \in 1..L + 1 /\ m - 1 \in (k - 1)..L /\ L \in (m - 1)..L
    BY <1>1
  <2> QED
    BY <2>1, ConcatAdjacentSubSeq
<1> QED
  BY <1>2, <1>3, <1>4, <1>5, <1>6

\* When times differ, a time says which sample it is of.
LEMMA BeforeIs ==
  ASSUME Ordered(stream), TimesDiffer, NEW k \in 1..Len(stream)
  PROVE  /\ Before(stream[k].t) = k - 1
         /\ \A i, j \in 1..Len(stream) : i < j => stream[i].t < stream[j].t
<1> DEFINE L == Len(stream)
           S == {i \in 1..L : stream[i].t < stream[k].t}
<1>1. L \in Nat /\ DOMAIN stream = 1..L /\ \A n \in 1..L : stream[n].t \in Int
  BY OrderedFacts
<1>2. ASSUME NEW i \in 1..L, NEW j \in 1..L, i < j PROVE stream[i].t < stream[j].t
  <2>1. i \in 1..L - 1 /\ i + 1 \in 1..L /\ i + 1 <= j
    BY <1>1, <1>2
  <2>2. stream[i].t < stream[i + 1].t
    BY <2>1 DEF TimesDiffer
  <2>3. stream[i + 1].t <= stream[j].t
    BY <2>1 DEF Ordered
  <2>4. stream[i].t \in Int /\ stream[i + 1].t \in Int /\ stream[j].t \in Int
    BY <1>1, <2>1
  <2> QED
    BY <2>2, <2>3, <2>4
<1>3. S = 1..(k - 1)
  <2>1. ASSUME NEW i \in S PROVE i \in 1..(k - 1)
    <3>1. i \in 1..L /\ stream[i].t < stream[k].t
      OBVIOUS
    <3>2. ~(i = k) /\ ~(k < i)
      BY <1>1, <1>2, <3>1
    <3> QED
      BY <3>1, <3>2
  <2>2. ASSUME NEW i \in 1..(k - 1) PROVE i \in S
    <3>1. i \in 1..L /\ i < k
      BY <1>1
    <3> QED
      BY <1>2, <3>1
  <2> QED
    BY <2>1, <2>2
<1>4. Cardinality(1..(k - 1)) = k - 1
  <2>1. 1 \in Int /\ k - 1 \in Int
    OBVIOUS
  <2>2. Cardinality(1..(k - 1)) = IF 1 > k - 1 THEN 0 ELSE (k - 1) - 1 + 1
    BY <2>1, FS_Interval
  <2> QED
    BY <2>2
<1> QED
  BY <1>1, <1>2, <1>3, <1>4 DEF Before

\* So it says which part.
LEMMA StretchIs ==
  ASSUME Ordered(stream), TimesDiffer, NEW k \in 1..Len(stream), NEW m \in 1..Len(stream)
  PROVE  /\ Since(stream[k].t) = SubSeq(stream, k, Len(stream))
         /\ Stretch(stream[k].t, stream[m].t) = SubSeq(stream, k, m - 1)
<1>1. Before(stream[k].t) = k - 1 /\ Before(stream[m].t) = m - 1
  BY BeforeIs
<1>2. (k - 1) + 1 = k
  BY OrderedFacts
<1> QED
  BY <1>1, <1>2 DEF Since, Stretch

-----------------------------------------------------------------------------
(* Smooth histograms: sums of values *)

\* e sums up the values.
Sums(s, e) ==
  /\ e \in [0..Len(s) -> Int] /\ e[0] = 0
  /\ \A n \in 1..Len(s) : s[n].v \in Int /\ e[n] = e[n - 1] + s[n].v

\* There is such a function for every sequence of samples.
LEMMA SumsExist ==
  ASSUME NEW s \in Seq(Samples), \A n \in 1..Len(s) : s[n].v \in Int
  PROVE  \E e : Sums(s, e)
<1> DEFINE L == Len(s)
           Sum(e, n) == /\ e \in [0..n -> Int] /\ e[0] = 0
                        /\ \A m \in 1..n : e[m] = e[m - 1] + s[m].v
           Wrong == {n \in 0..L : ~ \E e : Sum(e, n)}
<1>1. L \in Nat
  BY LenProperties
<1>2. Wrong = {}
  <2> SUFFICES ASSUME Wrong # {} PROVE FALSE
    OBVIOUS
  <2>1. PICK n \in Wrong : \A m \in Wrong : n <= m
    <3>1. Wrong \in SUBSET Nat
      BY <1>1
    <3> HIDE DEF Wrong
    <3> QED
      BY <3>1, SmallestNat
  <2>2. n \in 0..L /\ ~ \E e : Sum(e, n)
    BY <2>1
  <2>3. n # 0
    <3> DEFINE e == [m \in 0..0 |-> 0]
    <3>1. e \in [0..0 -> Int] /\ e[0] = 0 /\ \A m \in 1..0 : FALSE
      OBVIOUS
    <3> HIDE DEF e
    <3>2. Sum(e, 0)
      BY <3>1
    <3> QED
      BY <2>2, <3>2
  <2>4. n \in 1..L /\ n - 1 \in 0..L /\ ~(n <= n - 1)
    BY <1>1, <2>2, <2>3
  <2>5. PICK e : Sum(e, n - 1)
    BY <2>1, <2>4
  <2> DEFINE h == [m \in 0..n |-> IF m < n THEN e[m] ELSE e[n - 1] + s[n].v]
  <2>6. ASSUME NEW m \in 0..n PROVE h[m] \in Int
    <3>1. CASE m < n
      <4>1. m \in 0..(n - 1)
        BY <2>4, <3>1
      <4> QED
        BY <2>5, <3>1, <4>1
    <3>2. CASE ~(m < n)
      <4>1. n - 1 \in 0..(n - 1) /\ s[n].v \in Int
        BY <2>4
      <4> QED
        BY <2>5, <3>2, <4>1
    <3> QED
      BY <3>1, <3>2
  <2>7. ASSUME NEW m \in 1..n PROVE h[m] = h[m - 1] + s[m].v
    <3>1. m \in 0..n /\ m - 1 \in 0..n /\ m - 1 < n
      BY <2>4
    <3>2. h[m - 1] = e[m - 1]
      BY <3>1
    <3>3. CASE m < n
      <4>1. m \in 1..(n - 1) /\ h[m] = e[m]
        BY <2>4, <3>1, <3>3
      <4> QED
        BY <2>5, <3>2, <4>1
    <3>4. CASE ~(m < n)
      <4>1. m = n
        BY <2>4, <3>4
      <4> QED
        BY <3>1, <3>2, <3>4, <4>1
    <3> QED
      BY <3>3, <3>4
  <2>8. h[0] = 0
    <3>1. 0 \in 0..n /\ 0 < n
      BY <2>4
    <3> QED
      BY <2>5, <3>1
  <2>9. h \in [0..n -> Int]
    BY <2>6
  <2> HIDE DEF h
  <2>10. Sum(h, n)
    BY <2>7, <2>8, <2>9
  <2> QED
    BY <2>2, <2>10
<1>3. \E e : Sum(e, L)
  <2>1. L \in 0..L
    BY <1>1
  <2> HIDE DEF Sum
  <2> QED
    BY <1>2, <2>1
<1>4. PICK e : Sum(e, L)
  BY <1>3
<1>5. Sums(s, e)
  BY <1>4 DEF Sums
<1> QED
  BY <1>5

\* The sum of a part.
LEMMA ValueSumIs ==
  ASSUME NEW s \in Seq(Samples), NEW e, Sums(s, e), NEW lo \in 0..Len(s), NEW hi \in lo..Len(s)
  PROVE  ValueSum(SubSeq(s, lo + 1, hi)) = e[hi] - e[lo]
<1> DEFINE p == SubSeq(s, lo + 1, hi)
           N == hi - lo
           z == [n \in DOMAIN p |-> p[n].v]
           f == [n \in 0..N |-> e[lo + n]]
<1>1. Len(s) \in Nat /\ lo \in Nat /\ hi \in Nat /\ N \in Nat /\ lo <= hi /\ hi <= Len(s)
  BY LenProperties
<1>2. p \in Seq(Samples) /\ Len(p) = N /\ \A i \in 1..N : p[i] = s[lo + i]
  BY PartFacts
<1> HIDE DEF p
<1>3. DOMAIN p = 1..N
  BY <1>2, LenProperties
<1>4. ASSUME NEW n \in 0..N PROVE lo + n \in 0..Len(s) /\ e[lo + n] \in Int
  <2>1. lo + n \in 0..Len(s)
    BY <1>1
  <2> QED
    BY <2>1 DEF Sums
<1>5. f \in [0..N -> Int]
  BY <1>4
<1>6. ASSUME NEW n \in 1..N PROVE z[n] \in Int /\ f[n] = f[n - 1] + z[n]
  <2>1. /\ lo + n \in 1..Len(s) /\ n \in 0..N /\ n - 1 \in 0..N
        /\ lo + (n - 1) = (lo + n) - 1
    BY <1>1
  <2>2. s[lo + n].v \in Int /\ e[lo + n] = e[(lo + n) - 1] + s[lo + n].v
    BY <2>1 DEF Sums
  <2>3. z[n] = s[lo + n].v
    BY <1>2, <1>3
  <2>4. f[n] = e[lo + n] /\ f[n - 1] = e[(lo + n) - 1]
    BY <2>1
  <2> HIDE DEF z, f
  <2> QED
    BY <2>2, <2>3, <2>4
<1>7. Len(z) = N
  <2> DEFINE S == {p[n].v : n \in 1..N}
  <2>1. z \in [1..N -> S]
    BY <1>3
  <2> HIDE DEF S
  <2>2. z \in Seq(S)
    <3>1. Seq(S) = UNION {[1..n -> S] : n \in Nat}
      BY SeqDef
    <3> QED
      BY <1>1, <2>1, <3>1
  <2> QED
    BY <1>1, <2>1, <2>2, LenProperties
<1>8. UpTo(z)[N] = f[N] - f[0]
  <2>1. Len(z) \in Nat /\ f \in [0..Len(z) -> Int] /\ N \in 0..Len(z)
    BY <1>1, <1>5, <1>7
  <2>2. \A n \in 1..Len(z) : z[n] \in Int /\ f[n] = f[n - 1] + z[n]
    BY <1>6, <1>7
  <2> HIDE DEF f, z, N
  <2> QED
    BY <2>1, <2>2, UpToIs
<1>9. f[N] = e[hi] /\ f[0] = e[lo]
  <2>1. N \in 0..N /\ 0 \in 0..N /\ lo + N = hi /\ lo + 0 = lo
    BY <1>1
  <2> QED
    BY <2>1
<1>10. ValueSum(p) = UpTo(z)[Len(p)]
  BY DEF ValueSum
<1> HIDE DEF z, f, N
<1> QED
  BY <1>2, <1>8, <1>9, <1>10 DEF p

-----------------------------------------------------------------------------
(* Smooth histograms: instances *)

SmoothKinds == {"univ", "cs", "count"}

\* x was started with the sample k, and saw every sample since.
InstanceIs(kind, s, x, k) ==
  LET part == SubSeq(s, k, Len(s))
  IN /\ x.min_time = s[k].t /\ x.max_time = s[Len(s)].t
     /\ kind = "univ" => IsFedWith(x, part)
     /\ kind = "cs" => /\ DOMAIN x = {"min_time", "max_time", "bucketsize", "cs"}
                       /\ x.bucketsize = Len(s) - k
                       /\ DOMAIN x.cs = {"count", "l2", "topK"}
                       /\ Counted(x.cs, part) /\ Normed(x.cs, part)
     /\ kind = "count" =>
          /\ DOMAIN x = {"count", "sum", "sum2", "min_time", "max_time", "bucketsize"}
          /\ x.count = Len(s) - k + 1 /\ x.sum = ValueSum(part)

\* The samples from k on, before m, are light compared with all from k on.
LightPart(s, k, m) ==
  LET d == SmoothKeep[2] * SmoothKeep[2]
      n == SmoothKeep[1] * SmoothKeep[1]
  IN d * SquaresOf(SubSeq(s, k, m - 1)) <= (d - n) * SquaresOf(SubSeq(s, k, Len(s)))

Neighbours(s, k, m) == m = k + 1 \/ LightPart(s, k, m)

\* p says which samples the instances were started with.
SmoothIs(kind, s, b, p) ==
  /\ IsSeq(b) /\ p \in [1..Len(b) -> 1..Len(s)]
  /\ \A i, j \in 1..Len(b) : i < j => p[i] < p[j]
  /\ Len(b) > 0 => p[Len(b)] = Len(s)
  /\ \A i \in 1..Len(b) : InstanceIs(kind, s, b[i], p[i])
  /\ kind = "univ" /\ TwoRowsApart => \A i \in 1..Len(b) - 1 : Neighbours(s, p[i], p[i + 1])

Starts(b, p, k) == \E i \in 1..Len(b) : p[i] = k

\* The two newest samples have instances while they are young.
SmoothSound(kind, s, b) ==
  \E p : /\ SmoothIs(kind, s, b, p)
         /\ \A k \in {Len(s) - 1, Len(s)} :
              k > 0 /\ s[Len(s)].t - s[k].t < SmoothWindow => Starts(b, p, k)

\* A new sample for an instance with a universal sketch, and the instance it starts.
LEMMA UnivInstances ==
  ASSUME NEW s, Ordered(s), NEW x \in Samples, Len(s) > 0 => s[Len(s)].t <= x.t
  PROVE  LET fed(us) == [FeedSample(us, x.t, x.v) EXCEPT !.max_time = x.t]
         IN  /\ \A a, k : k \in 1..Len(s) /\ InstanceIs("univ", s, a, k)
                            => InstanceIs("univ", Append(s, x), fed(a), k)
             /\ InstanceIs("univ", Append(s, x),
                           [fed(NewUnivSketchPyramid) EXCEPT !.min_time = x.t], Len(s) + 1)
<1> DEFINE u == Append(s, x)
           fed(us) == [FeedSample(us, x.t, x.v) EXCEPT !.max_time = x.t]
<1>1. /\ Len(s) \in Nat /\ Len(u) = Len(s) + 1 /\ u[Len(s) + 1] = x
      /\ \A n \in 1..Len(s) : u[n] = s[n]
  BY AppendOrdered, OrderedFacts
<1>2. /\ \A k \in 1..Len(s) : /\ SubSeq(s, k, Len(s)) \in Seq(Samples)
                              /\ SubSeq(u, k, Len(s) + 1) = Append(SubSeq(s, k, Len(s)), x)
      /\ SubSeq(u, Len(s) + 1, Len(s) + 1) = Append(<<>>, x)
  BY PartGrows
<1> HIDE DEF u
<1>3. ASSUME NEW a, NEW part \in Seq(Samples), IsFedWith(a, part)
      PROVE  /\ IsFedWith(fed(a), Append(part, x)) /\ fed(a).max_time = x.t
             /\ fed(a).min_time = a.min_time
             /\ IsFedWith([fed(a) EXCEPT !.min_time = x.t], Append(part, x))
             /\ [fed(a) EXCEPT !.min_time = x.t].min_time = x.t
             /\ [fed(a) EXCEPT !.min_time = x.t].max_time = x.t
  <2> DEFINE w == FeedSample(a, x.t, x.v)
             y == fed(a)
             z == [fed(a) EXCEPT !.min_time = x.t]
  <2>1. IsFedWith(w, Append(part, x)) /\ w.min_time = a.min_time
    BY <1>3, FeedCounts
  <2>2. DOMAIN w = UnivFields
    BY <2>1 DEF IsFedWith, IsUnivOf
  <2> HIDE DEF w
  <2>3. /\ DOMAIN y = UnivFields /\ y.max_time = x.t /\ y.min_time = w.min_time
        /\ y.samples = w.samples /\ y.bucket_size = w.bucket_size /\ y.cs_layers = w.cs_layers
    BY <2>2 DEF UnivFields, w
  <2> HIDE DEF y
  <2>4. /\ DOMAIN z = UnivFields /\ z.max_time = x.t /\ z.min_time = x.t
        /\ z.samples = w.samples /\ z.bucket_size = w.bucket_size /\ z.cs_layers = w.cs_layers
    BY <2>3 DEF UnivFields, y
  <2> HIDE DEF z
  <2>5. IsFedWith(y, Append(part, x)) /\ IsFedWith(z, Append(part, x))
    BY <2>1, <2>3, <2>4 DEF IsFedWith, IsUnivOf
  <2> QED
    BY <2>1, <2>3, <2>4, <2>5 DEF y, z
<1>4. ASSUME NEW a, NEW k, k \in 1..Len(s), InstanceIs("univ", s, a, k)
      PROVE  InstanceIs("univ", u, fed(a), k)
  <2>1. a.min_time = s[k].t /\ IsFedWith(a, SubSeq(s, k, Len(s)))
    BY <1>4 DEF InstanceIs
  <2>2. /\ IsFedWith(fed(a), Append(SubSeq(s, k, Len(s)), x)) /\ fed(a).max_time = x.t
        /\ fed(a).min_time = a.min_time
    BY <1>2, <1>3, <1>4, <2>1
  <2> HIDE DEF fed
  <2> QED
    BY <1>1, <1>2, <1>4, <2>1, <2>2 DEF InstanceIs
<1>5. InstanceIs("univ", u, [fed(NewUnivSketchPyramid) EXCEPT !.min_time = x.t], Len(s) + 1)
  <2> DEFINE a == NewUnivSketchPyramid
             z == [fed(a) EXCEPT !.min_time = x.t]
  <2>1. IsFedWith(a, <<>>)
    <3>1. DOMAIN a = UnivFields /\ a.samples = <<>> /\ a.bucket_size = 0
      BY DEF NewUnivSketchPyramid, UnivFields
    <3>2. a.cs_layers[0] = NewCountSketchUniv
      <4>1. 0 \in LayerSet
        BY UnivSketchAssumption DEF LayerSet
      <4> QED
        BY <4>1 DEF NewUnivSketchPyramid
    <3>3. {"count", "l2"} \subseteq DOMAIN NewCountSketchUniv
      BY DEF NewCountSketchUniv
    <3>4. Len(<<>>) = 0
      OBVIOUS
    <3> HIDE DEF a
    <3> QED
      BY <3>1, <3>2, <3>3, <3>4, NothingIsCounted DEF IsFedWith, IsUnivOf
  <2>2. <<>> \in Seq(Samples)
    OBVIOUS
  <2> HIDE DEF a
  <2>3. /\ IsFedWith(z, Append(<<>>, x)) /\ z.min_time = x.t /\ z.max_time = x.t
    BY <1>3, <2>1, <2>2
  <2> HIDE DEF z
  <2>4. InstanceIs("univ", u, z, Len(s) + 1)
    BY <1>1, <1>2, <2>3 DEF InstanceIs
  <2> QED
    BY <2>4 DEF z, a
<1> QED
  BY <1>4, <1>5 DEF u

\* The same for a count sketch.
LEMMA CSInstances ==
  ASSUME NEW s, Ordered(s), NEW x \in Samples, Len(s) > 0 => s[Len(s)].t <= x.t
  PROVE  LET fed(a) == [a EXCEPT !.bucketsize = @ + 1, !.cs = CSUpdateString(@, x.v),
                                 !.max_time = x.t]
             new == [min_time |-> x.t, max_time |-> x.t, bucketsize |-> 0,
                     cs |-> CSUpdateString(NewCountSketch, x.v)]
         IN  /\ \A a, k : k \in 1..Len(s) /\ InstanceIs("cs", s, a, k)
                            => InstanceIs("cs", Append(s, x), fed(a), k)
             /\ InstanceIs("cs", Append(s, x), new, Len(s) + 1)
<1> DEFINE u == Append(s, x)
           Fields == {"min_time", "max_time", "bucketsize", "cs"}
           fed(a) == [a EXCEPT !.bucketsize = @ + 1, !.cs = CSUpdateString(@, x.v),
                               !.max_time = x.t]
           new == [min_time |-> x.t, max_time |-> x.t, bucketsize |-> 0,
                   cs |-> CSUpdateString(NewCountSketch, x.v)]
<1>1. /\ Len(s) \in Nat /\ Len(u) = Len(s) + 1 /\ u[Len(s) + 1] = x
      /\ \A n \in 1..Len(s) : u[n] = s[n]
  BY AppendOrdered, OrderedFacts
<1>2. /\ \A k \in 1..Len(s) : /\ SubSeq(s, k, Len(s)) \in Seq(Samples)
                              /\ SubSeq(u, k, Len(s) + 1) = Append(SubSeq(s, k, Len(s)), x)
      /\ SubSeq(u, Len(s) + 1, Len(s) + 1) = Append(<<>>, x)
  BY PartGrows
<1> HIDE DEF u
<1>3. ASSUME NEW a, NEW k, k \in 1..Len(s), InstanceIs("cs", s, a, k)
      PROVE  InstanceIs("cs", u, fed(a), k)
  <2> DEFINE part == SubSeq(s, k, Len(s))
             new1 == CSUpdateString(a.cs, x.v)
             y == fed(a)
  <2>1. /\ a.min_time = s[k].t /\ DOMAIN a = Fields /\ a.bucketsize = Len(s) - k
        /\ DOMAIN a.cs = {"count", "l2", "topK"} /\ Counted(a.cs, part) /\ Normed(a.cs, part)
    BY <1>3 DEF InstanceIs
  <2>2. /\ DOMAIN new1 = {"count", "l2", "topK"}
        /\ Counted(new1, Append(part, x)) /\ Normed(new1, Append(part, x))
    BY <1>2, <1>3, <2>1, CSFeedCounts
  <2> HIDE DEF new1
  <2>3. /\ DOMAIN y = Fields /\ y.min_time = a.min_time /\ y.max_time = x.t
        /\ y.bucketsize = a.bucketsize + 1 /\ y.cs = new1
    BY <2>1 DEF new1
  <2>4. (Len(s) - k) + 1 = (Len(s) + 1) - k
    BY <1>1, <1>3
  <2> HIDE DEF y, part
  <2>5. InstanceIs("cs", u, y, k)
    BY <1>1, <1>2, <1>3, <2>1, <2>2, <2>3, <2>4 DEF InstanceIs, part
  <2> QED
    BY <2>5 DEF y
<1>4. InstanceIs("cs", u, new, Len(s) + 1)
  <2> DEFINE new1 == CSUpdateString(NewCountSketch, x.v)
  <2>1. DOMAIN NewCountSketch = {"count", "l2", "topK"} /\ <<>> \in Seq(Samples)
    BY DEF NewCountSketch
  <2>2. /\ DOMAIN new1 = {"count", "l2", "topK"}
        /\ Counted(new1, Append(<<>>, x)) /\ Normed(new1, Append(<<>>, x))
    BY <2>1, NothingIsCounted, CSFeedCounts
  <2> HIDE DEF new1
  <2>3. /\ DOMAIN new = Fields /\ new.min_time = x.t /\ new.max_time = x.t
        /\ new.bucketsize = 0 /\ new.cs = new1
    BY DEF new1
  <2>4. (Len(s) + 1) - (Len(s) + 1) = 0
    BY <1>1
  <2> HIDE DEF new
  <2> QED
    BY <1>1, <1>2, <2>2, <2>3, <2>4 DEF InstanceIs
<1> QED
  BY <1>3, <1>4 DEF u

\* The same for counts and sums.
LEMMA CountInstances ==
  ASSUME NEW s, Ordered(s), NEW x \in Samples, Len(s) > 0 => s[Len(s)].t <= x.t,
         \A n \in 1..Len(s) : s[n].v \in Int, x.v \in Int
  PROVE  LET fed(a) == [a EXCEPT !.count = @ + 1, !.sum = @ + x.v, !.max_time = x.t,
                                 !.bucketsize = @ + 1]
             new == [count |-> 1, sum |-> x.v, sum2 |-> 0, min_time |-> x.t, max_time |-> x.t,
                     bucketsize |-> 1]
         IN  /\ \A a, k : k \in 1..Len(s) /\ InstanceIs("count", s, a, k)
                            => InstanceIs("count", Append(s, x), fed(a), k)
             /\ InstanceIs("count", Append(s, x), new, Len(s) + 1)
<1> DEFINE u == Append(s, x)
           L == Len(s)
           Fields == {"count", "sum", "sum2", "min_time", "max_time", "bucketsize"}
           fed(a) == [a EXCEPT !.count = @ + 1, !.sum = @ + x.v, !.max_time = x.t,
                               !.bucketsize = @ + 1]
           new == [count |-> 1, sum |-> x.v, sum2 |-> 0, min_time |-> x.t, max_time |-> x.t,
                   bucketsize |-> 1]
<1>1. /\ L \in Nat /\ Ordered(u) /\ Len(u) = L + 1 /\ u[L + 1] = x
      /\ \A n \in 1..L : u[n] = s[n]
      /\ \A m, n \in 1..L : SubSeq(u, m, n) = SubSeq(s, m, n)
  BY AppendOrdered, OrderedFacts
<1> HIDE DEF u
<1>2. u \in Seq(Samples)
  BY <1>1, OrderedFacts
<1>3. \A n \in 1..Len(u) : u[n].v \in Int
  <2> SUFFICES ASSUME NEW n \in 1..L + 1 PROVE u[n].v \in Int
    BY <1>1
  <2>1. n \in 1..L \/ n = L + 1
    BY <1>1
  <2> QED
    BY <1>1, <2>1
<1>4. PICK e : Sums(u, e)
  BY <1>2, <1>3, SumsExist
<1>5. ASSUME NEW k \in 1..L + 1, NEW m \in k - 1..L + 1
      PROVE  ValueSum(SubSeq(u, k, m)) = e[m] - e[k - 1]
  <2>1. k - 1 \in 0..Len(u) /\ m \in (k - 1)..Len(u) /\ (k - 1) + 1 = k
    BY <1>1
  <2>2. ValueSum(SubSeq(u, (k - 1) + 1, m)) = e[m] - e[k - 1]
    BY <1>2, <1>4, <2>1, ValueSumIs
  <2> QED
    BY <2>1, <2>2
<1>6. /\ \A n \in 0..L + 1 : e[n] \in Int
      /\ e[L + 1] = e[L] + x.v
  <2>1. L + 1 \in 1..Len(u) /\ (L + 1) - 1 = L
    BY <1>1
  <2> QED
    BY <1>1, <1>4, <2>1 DEF Sums
<1>7. ASSUME NEW a, NEW k, k \in 1..Len(s), InstanceIs("count", s, a, k)
      PROVE  InstanceIs("count", u, fed(a), k)
  <2> DEFINE y == fed(a)
  <2>1. /\ a.min_time = s[k].t /\ DOMAIN a = Fields /\ a.count = L - k + 1
        /\ a.sum = ValueSum(SubSeq(s, k, L))
    BY <1>7 DEF InstanceIs
  <2>2. /\ DOMAIN y = Fields /\ y.min_time = a.min_time /\ y.max_time = x.t
        /\ y.count = a.count + 1 /\ y.sum = a.sum + x.v
    BY <2>1
  <2> HIDE DEF y
  <2>3. /\ k \in 1..L + 1 /\ L \in k - 1..L + 1 /\ L + 1 \in k - 1..L + 1 /\ L \in 1..L
        /\ k - 1 \in 0..L + 1 /\ L \in 0..L + 1 /\ k \in Nat /\ k \in 1..L
    BY <1>1, <1>7
  <2>4. ValueSum(SubSeq(u, k, L)) = e[L] - e[k - 1]
    BY <1>5, <2>3
  <2>5. ValueSum(SubSeq(u, k, L + 1)) = e[L + 1] - e[k - 1]
    BY <1>5, <2>3
  <2>6. SubSeq(u, k, L) = SubSeq(s, k, L)
    BY <1>1, <2>3
  <2>7. e[L] \in Int /\ e[k - 1] \in Int /\ e[L + 1] \in Int
    BY <1>6, <2>3
  <2>8. y.sum = ValueSum(SubSeq(u, k, L + 1))
    <3>1. y.sum = (e[L] - e[k - 1]) + x.v
      BY <2>1, <2>2, <2>4, <2>6
    <3> QED
      BY <1>6, <2>5, <2>7, <3>1
  <2>9. y.count = (L + 1) - k + 1
    BY <1>1, <2>1, <2>2, <2>3
  <2>10. InstanceIs("count", u, y, k)
    BY <1>1, <2>1, <2>2, <2>3, <2>8, <2>9 DEF InstanceIs
  <2> QED
    BY <2>10 DEF y
<1>8. InstanceIs("count", u, new, L + 1)
  <2>1. /\ DOMAIN new = Fields /\ new.min_time = x.t /\ new.max_time = x.t
        /\ new.count = 1 /\ new.sum = x.v
    OBVIOUS
  <2> HIDE DEF new
  <2>2. L + 1 \in 1..L + 1 /\ L + 1 \in (L + 1) - 1..L + 1 /\ (L + 1) - 1 = L /\ L \in 0..L + 1
    BY <1>1
  <2>3. ValueSum(SubSeq(u, L + 1, L + 1)) = e[L + 1] - e[L]
    BY <1>5, <2>2
  <2>4. e[L + 1] - e[L] = x.v
    BY <1>6, <2>2
  <2>5. (L + 1) - (L + 1) + 1 = 1
    BY <1>1
  <2> QED
    BY <1>1, <2>1, <2>3, <2>4, <2>5 DEF InstanceIs
<1> QED
  BY <1>7, <1>8 DEF u

-----------------------------------------------------------------------------
(* Smooth histograms: which instances are pruned *)

\* What is light stays light when the older part grows.
LEMMA LighterWithMore ==
  ASSUME NEW d \in Nat, NEW c \in Int, NEW a \in Nat, NEW b \in Nat, b >= 1, NEW more \in Nat,
         d * a <= c * b
  PROVE  d * a <= c * (b + more)
<1>1. d * a >= 0
  BY SMT
<1>2. c >= 0
  <2> SUFFICES ASSUME c < 0 PROVE FALSE
    OBVIOUS
  <2>1. c * b <= c
    <3> DEFINE m == 0 - c
    <3>1. m \in Nat /\ c = 0 - m /\ m >= 1
      BY SMT
    <3> HIDE DEF m
    <3>2. m * b >= m
      BY <3>1, SMT
    <3>3. c * b = 0 - m * b
      BY <3>1, SMT
    <3> QED
      BY <3>1, <3>2, <3>3, SMT
  <2> QED
    BY <1>1, <2>1, SMT
<1>3. c * more >= 0
  BY <1>2, SMT
<1>4. c * (b + more) = c * b + c * more
  BY SMT
<1> DEFINE x == d * a
           y == c * b
           z == c * more
<1>5. x \in Int /\ y \in Int /\ z \in Int /\ x <= y /\ z >= 0
  BY <1>3, SMT
<1> HIDE DEF x, y, z
<1>6. x <= y + z
  BY <1>5
<1> QED
  BY <1>4, <1>6 DEF x, y, z

\* Neighbours stay neighbours when a sample arrives.
LEMMA NeighboursStay ==
  ASSUME NEW s, Ordered(s), NEW x \in Samples, Len(s) > 0 => s[Len(s)].t <= x.t,
         NEW k \in 1..Len(s), NEW m \in k + 1..Len(s), Neighbours(s, k, m)
  PROVE  Neighbours(Append(s, x), k, m)
<1> DEFINE u == Append(s, x)
           L == Len(s)
           p == SubSeq(s, k, L)
           d == SmoothKeep[2] * SmoothKeep[2]
           n == SmoothKeep[1] * SmoothKeep[1]
<1>1. /\ L \in Nat /\ s \in Seq(Samples) /\ Len(u) = L + 1
      /\ \A i, j \in 1..L : SubSeq(u, i, j) = SubSeq(s, i, j)
  BY AppendOrdered, OrderedFacts
<1>2. p \in Seq(Samples) /\ SubSeq(u, k, L + 1) = Append(p, x)
  BY PartGrows
<1>3. SUFFICES ASSUME LightPart(s, k, m) PROVE LightPart(u, k, m)
  BY DEF Neighbours
<1>4. SubSeq(u, k, m - 1) = SubSeq(s, k, m - 1)
  <2>1. m - 1 \in 1..L
    BY <1>1
  <2> QED
    BY <1>1, <2>1
<1> HIDE DEF u
<1>5. /\ SubSeq(s, k, m - 1) \in Seq(Samples) /\ Len(p) > 0
  <2>1. m \in k..L /\ L - k + 1 > 0
    BY <1>1
  <2> QED
    BY <1>1, <2>1, PartsJoin
<1> HIDE DEF p
<1> DEFINE a == SquaresOf(SubSeq(s, k, m - 1))
           b == SquaresOf(p)
           more == 2 * HowMany(p, x.v) + 1
<1>6. a \in Nat
  BY <1>5, SquaresAppended
<1>7. b \in Nat /\ b >= 1 /\ SquaresOf(Append(p, x)) = b + more
  <2>1. b \in Nat /\ SquaresOf(Append(p, x)) = b + 2 * HowMany(p, x.v) + 1
    BY <1>2, SquaresAppended
  <2>2. HowMany(p, x.v) \in Nat
    BY <1>2, HowManyType
  <2> QED
    BY <1>2, <1>5, <2>1, <2>2, SquaresPositive
<1>8. more \in Nat
  <2>1. HowMany(p, x.v) \in Nat
    BY <1>2, HowManyType
  <2> QED
    BY <2>1
<1>9. d \in Nat /\ d - n \in Int
  <2>1. SmoothKeep[1] \in Nat /\ SmoothKeep[2] \in Nat
    BY SmoothAssumption
  <2>2. d \in Nat /\ n \in Nat
    BY <2>1, SMT
  <2> QED
    BY <2>2
<1>10. d * a <= (d - n) * b
  BY <1>3 DEF LightPart, p
<1> HIDE DEF a, b, more, d, n, L
<1>11. d * a <= (d - n) * (b + more)
  BY <1>6, <1>7, <1>8, <1>9, <1>10, LighterWithMore
<1>12. d * SquaresOf(SubSeq(u, k, m - 1)) <= (d - n) * SquaresOf(SubSeq(u, k, Len(u)))
  BY <1>1, <1>2, <1>4, <1>7, <1>11 DEF a
<1> QED
  BY <1>12 DEF LightPart, d, n

\* An instance that is near has little between it and the other.
LEMMA NearIsLight ==
  ASSUME NEW s, Ordered(s), TwoRowsApart, NEW k \in 1..Len(s), NEW m \in k..Len(s),
         NEW a, InstanceIs("univ", s, a, k), NEW b, InstanceIs("univ", s, b, m),
         Near("univ", a, b)
  PROVE  LightPart(s, k, m)
<1> DEFINE L == Len(s)
           old == SubSeq(s, k, L)
           new == SubSeq(s, m, L)
           light == SubSeq(s, k, m - 1)
           d == SmoothKeep[2] * SmoothKeep[2]
           n == SmoothKeep[1] * SmoothKeep[1]
<1>1. /\ old \in Seq(Samples) /\ new \in Seq(Samples) /\ light \in Seq(Samples)
      /\ old = light \o new
  BY OrderedFacts, PartsJoin
<1> HIDE DEF old, new, light
<1>2. cs_l22(a.cs_layers[0]) = SquaresOf(old) /\ cs_l22(b.cs_layers[0]) = SquaresOf(new)
  <2>1. Normed(a.cs_layers[0], old) /\ Normed(b.cs_layers[0], new)
    BY DEF InstanceIs, IsFedWith, old, new
  <2> QED
    BY <1>1, <2>1, NormIsExact
<1>3. NearL22(SquaresOf(old), SquaresOf(new))
  BY <1>2 DEF Near
<1> DEFINE x == SquaresOf(old)
           y == SquaresOf(new)
           z == SquaresOf(light)
<1>4. x \in Nat /\ y \in Nat /\ z \in Nat /\ z + y <= x
  BY <1>1, SquaresBoth
<1>5. d * y >= n * x
  BY <1>3 DEF NearL22
<1>6. d \in Nat /\ n \in Nat
  <2>1. SmoothKeep[1] \in Nat /\ SmoothKeep[2] \in Nat
    BY SmoothAssumption
  <2> QED
    BY <2>1, SMT
<1> HIDE DEF x, y, z, d, n
<1>7. d * z <= (d - n) * x
  <2>1. d * (z + y) <= d * x
    <3> DEFINE w == x - (z + y)
    <3>1. w \in Nat /\ x = (z + y) + w
      BY <1>4
    <3> HIDE DEF w
    <3>2. d * w \in Nat
      BY <1>6, <3>1, SMT
    <3>3. d * x = d * (z + y) + d * w
      BY <1>4, <1>6, <3>1, SMT
    <3>4. d * (z + y) \in Int /\ d * x \in Int
      BY <1>4, <1>6, SMT
    <3> QED
      BY <3>2, <3>3, <3>4
  <2>2. d * (z + y) = d * z + d * y
    BY <1>4, <1>6, SMT
  <2>3. (d - n) * x = d * x - n * x
    BY <1>4, <1>6, SMT
  <2>4. d * z \in Int /\ d * y \in Int /\ d * x \in Int /\ n * x \in Int
    BY <1>4, <1>6, SMT
  <2> QED
    BY <1>5, <2>1, <2>2, <2>3, <2>4
<1> QED
  BY <1>7 DEF LightPart, x, z, d, n, light, old, L

\* The inner loop stops at the next instance, or further on at one that is near.
LEMMA NearToIs ==
  ASSUME NEW kind, NEW b, Len(b) \in Nat, NEW i \in 1..Len(b) - 2, NEW offset \in {1, 2}
  PROVE  LET m == NearTo(kind, b, i, i + offset)
         IN  /\ m \in i + 1..Len(b) - 1
             /\ m # i + 1 => m <= Len(b) - 2 /\ Near(kind, b[i], b[m])
<1> DEFINE N == Len(b)
           first == i + offset
           run == {j \in first..N - 2 :
                     \A m \in first..j : (m = first => i + 1 < m) /\ Near(kind, b[i], b[m])}
<1>1. N \in Nat /\ i \in Nat /\ first \in Nat /\ i + 1 <= first /\ i + 1 <= N - 1
  OBVIOUS
<1>2. NearTo(kind, b, i, first)
        = IF run = {} THEN i + 1 ELSE CHOOSE j \in run : \A m \in run : m <= j
  BY DEF NearTo
<1>3. CASE run = {}
  <2>1. NearTo(kind, b, i, first) = i + 1
    BY <1>2, <1>3
  <2>2. i + 1 \in i + 1..Len(b) - 1
    BY <1>1
  <2> HIDE DEF run, first
  <2> QED
    BY <2>1, <2>2 DEF first
<1>4. CASE run # {}
  <2> DEFINE Gap == {N - j : j \in run}
  <2>1. \A j \in run : j \in Nat /\ j <= N - 2 /\ first <= j /\ N - j \in Nat
    BY <1>1
  <2>2. PICK j \in run : \A m \in run : m <= j
    <3>1. Gap \in SUBSET Nat /\ Gap # {}
      BY <1>4, <2>1
    <3>2. PICK g \in Gap : \A h \in Gap : g <= h
      <4> HIDE DEF Gap
      <4> QED
        BY <3>1, SmallestNat
    <3>3. PICK j \in run : g = N - j
      BY <3>2
    <3>4. ASSUME NEW m \in run PROVE m <= j
      <4>1. N - j <= N - m
        BY <3>2, <3>3
      <4>2. j \in Nat /\ m \in Nat
        BY <2>1
      <4> HIDE DEF run
      <4> QED
        BY <1>1, <4>1, <4>2
    <3> HIDE DEF run
    <3> QED
      BY <3>4
  <2> DEFINE c == CHOOSE h \in run : \A m \in run : m <= h
  <2>3. c \in run
    <3> HIDE DEF run
    <3> QED
      BY <2>2
  <2>4. NearTo(kind, b, i, first) = c
    BY <1>2, <1>4
  <2> HIDE DEF c
  <2>5. c \in Nat /\ c <= N - 2 /\ first <= c
    BY <2>1, <2>3
  <2>6. Near(kind, b[i], b[c])
    <3>1. \A m \in first..c : Near(kind, b[i], b[m])
      BY <2>3
    <3>2. c \in first..c
      BY <1>1, <2>5
    <3> QED
      BY <3>1, <3>2
  <2>7. c \in i + 1..N - 1
    BY <1>1, <2>5
  <2> HIDE DEF run, first
  <2> QED
    BY <2>4, <2>5, <2>6, <2>7 DEF first
<1> HIDE DEF run
<1> QED
  BY <1>3, <1>4

\* What is left when instances go: r says which they were.
Thinned(kind, b, c, r) ==
  /\ IsSeq(c) /\ r \in [1..Len(c) -> 1..Len(b)]
  /\ \A i, j \in 1..Len(c) : i < j => r[i] < r[j]
  /\ Len(c) > 0 => r[Len(c)] = Len(b)
  /\ \A j \in 1..Len(c) : c[j] = b[r[j]]
  /\ \A j \in 1..Len(c) - 1 : r[j + 1] = r[j] + 1 \/ Near(kind, b[r[j]], b[r[j + 1]])

\* Of the two newest none goes.
NewestStay(b, c, r) ==
  \A n \in 1..Len(b) : n >= Len(b) - 1 => \E j \in 1..Len(c) : r[j] = n

\* It is sound when those that go are near to one that stays.
LEMMA ThinnedIsSmooth ==
  ASSUME NEW kind \in SmoothKinds, NEW s, Ordered(s), NEW b, NEW p, SmoothIs(kind, s, b, p),
         NEW c, NEW r, Thinned(kind, b, c, r)
  PROVE  SmoothIs(kind, s, c, [j \in 1..Len(c) |-> p[r[j]]])
<1> DEFINE q == [j \in 1..Len(c) |-> p[r[j]]]
<1>1. /\ IsSeq(b) /\ p \in [1..Len(b) -> 1..Len(s)]
      /\ \A i, j \in 1..Len(b) : i < j => p[i] < p[j]
      /\ Len(b) > 0 => p[Len(b)] = Len(s)
      /\ \A i \in 1..Len(b) : InstanceIs(kind, s, b[i], p[i])
      /\ kind = "univ" /\ TwoRowsApart => \A i \in 1..Len(b) - 1 : Neighbours(s, p[i], p[i + 1])
  BY DEF SmoothIs
<1>2. /\ IsSeq(c) /\ r \in [1..Len(c) -> 1..Len(b)]
      /\ \A i, j \in 1..Len(c) : i < j => r[i] < r[j]
      /\ Len(c) > 0 => r[Len(c)] = Len(b)
      /\ \A j \in 1..Len(c) : c[j] = b[r[j]]
      /\ \A j \in 1..Len(c) - 1 : r[j + 1] = r[j] + 1 \/ Near(kind, b[r[j]], b[r[j + 1]])
  BY DEF Thinned
<1>3. Len(b) \in Nat /\ Len(c) \in Nat /\ Len(s) \in Nat
  BY <1>1, <1>2, SeqFacts, OrderedFacts
<1>4. ASSUME NEW j \in 1..Len(c) PROVE r[j] \in 1..Len(b) /\ q[j] = p[r[j]] /\ q[j] \in 1..Len(s)
  <2>1. r[j] \in 1..Len(b)
    BY <1>2
  <2> QED
    BY <1>1, <2>1
<1>5. q \in [1..Len(c) -> 1..Len(s)]
  BY <1>4
<1> HIDE DEF q
<1>6. \A i, j \in 1..Len(c) : i < j => q[i] < q[j]
  BY <1>1, <1>2, <1>4
<1>7. Len(c) > 0 => q[Len(c)] = Len(s)
  <2> SUFFICES ASSUME Len(c) > 0 PROVE q[Len(c)] = Len(s)
    OBVIOUS
  <2>1. Len(c) \in 1..Len(c)
    BY <1>3
  <2>2. r[Len(c)] = Len(b) /\ Len(b) \in 1..Len(b) /\ q[Len(c)] = p[Len(b)]
    BY <1>2, <1>4, <2>1
  <2>3. Len(b) > 0
    BY <1>3, <2>2
  <2> QED
    BY <1>1, <2>2, <2>3
<1>8. \A j \in 1..Len(c) : InstanceIs(kind, s, c[j], q[j])
  BY <1>1, <1>2, <1>4
<1>9. ASSUME kind = "univ", TwoRowsApart, NEW j \in 1..Len(c) - 1
      PROVE  Neighbours(s, q[j], q[j + 1])
  <2>1. j \in 1..Len(c) /\ j + 1 \in 1..Len(c) /\ j < j + 1
    BY <1>3
  <2>2. /\ r[j] \in 1..Len(b) /\ r[j + 1] \in 1..Len(b) /\ r[j] < r[j + 1]
        /\ q[j] = p[r[j]] /\ q[j + 1] = p[r[j + 1]] /\ q[j] < q[j + 1]
        /\ q[j] \in 1..Len(s) /\ q[j + 1] \in 1..Len(s)
    BY <1>2, <1>4, <1>6, <2>1
  <2>3. CASE r[j + 1] = r[j] + 1
    <3>1. r[j] \in 1..Len(b) - 1
      BY <1>3, <2>2, <2>3
    <3> QED
      BY <1>1, <1>9, <2>2, <2>3, <3>1
  <2>4. CASE Near(kind, b[r[j]], b[r[j + 1]])
    <3>1. InstanceIs("univ", s, b[r[j]], q[j]) /\ InstanceIs("univ", s, b[r[j + 1]], q[j + 1])
      BY <1>1, <1>9, <2>2
    <3>2. q[j + 1] \in q[j]..Len(s)
      BY <1>3, <2>2
    <3>3. LightPart(s, q[j], q[j + 1])
      BY <1>9, <2>2, <2>4, <3>1, <3>2, NearIsLight
    <3> QED
      BY <3>3 DEF Neighbours
  <2> QED
    BY <1>2, <2>3, <2>4
<1>10. SmoothIs(kind, s, c, q)
  BY <1>2, <1>5, <1>6, <1>7, <1>8, <1>9 DEF SmoothIs
<1> QED
  BY <1>10 DEF q

\* One instance of the outer loop: what goes is near, and neither of the two newest.
LEMMA PruneAfterThins ==
  ASSUME NEW kind, NEW b, IsSeq(b), NEW i \in Nat \ {0}, NEW offset \in {1, 2}
  PROVE  \E r : /\ Thinned(kind, b, PruneAfter(kind, b, i, offset), r)
                /\ NewestStay(b, PruneAfter(kind, b, i, offset), r)
<1> DEFINE N == Len(b)
           c == PruneAfter(kind, b, i, offset)
<1>1. N \in Nat /\ \A n \in 1..N : b[n] \in Range(b)
  BY SeqFacts
<1>2. CASE i > N - 2
  <2>1. c = b
    BY <1>2 DEF PruneAfter
  <2> HIDE DEF c
  <2> DEFINE r == [n \in 1..N |-> n]
  <2>2. Thinned(kind, b, b, r)
    <3>1. N > 0 => N \in 1..N
      BY <1>1
    <3>2. ASSUME NEW j \in 1..N - 1 PROVE r[j + 1] = r[j] + 1
      <4>1. j \in 1..N /\ j + 1 \in 1..N
        BY <1>1
      <4> QED
        BY <4>1
    <3>3. r \in [1..N -> 1..N] /\ \A n \in 1..N : r[n] = n
      OBVIOUS
    <3> HIDE DEF r
    <3> QED
      BY <3>1, <3>2, <3>3 DEF Thinned
  <2>3. \A n \in 1..N : n >= N - 1 => \E j \in 1..N : r[j] = n
    OBVIOUS
  <2> HIDE DEF r
  <2>4. Thinned(kind, b, c, r) /\ NewestStay(b, c, r)
    BY <2>1, <2>2, <2>3 DEF NewestStay
  <2> QED
    BY <2>4 DEF c
<1>3. CASE ~(i > N - 2)
  <2> DEFINE m == NearTo(kind, b, i, i + offset)
  <2>1. i \in 1..N - 2 /\ i \in 1..N
    BY <1>1, <1>3
  <2>2. m \in i + 1..N - 1 /\ (m # i + 1 => m <= N - 2 /\ Near(kind, b[i], b[m]))
    BY <1>1, <2>1, NearToIs
  <2>3. c = SubSeq(b, 1, i) \o SubSeq(b, m, N)
    BY <1>3 DEF PruneAfter
  <2> HIDE DEF m, c
  <2> DEFINE g == m - i - 1
             M == N - g
             r == [j \in 1..M |-> IF j <= i THEN j ELSE j + g]
  <2>4. /\ g \in Nat /\ M \in Nat /\ m = i + 1 + g /\ m \in Nat /\ m <= N - 1
        /\ M = i + (N - m + 1) /\ i < M
    BY <1>1, <2>1, <2>2
  <2>5. /\ c \in Seq(Range(b)) /\ Len(c) = M
        /\ \A j \in 1..M : c[j] = IF j <= i THEN b[j] ELSE b[j + g]
    <3> DEFINE S == Range(b)
               u == SubSeq(b, 1, i)
               v == SubSeq(b, m, N)
    <3>1. /\ 1 \in Int /\ i \in Int /\ m \in Int /\ N \in Int
          /\ \A n \in 1..i : b[n] \in S
          /\ \A n \in m..N : b[n] \in S
      BY <1>1, <2>1, <2>4
    <3> HIDE DEF S, N
    <3>2. /\ u \in Seq(S) /\ Len(u) = (IF 1 <= i THEN i - 1 + 1 ELSE 0)
          /\ \A n \in 1..i - 1 + 1 : u[n] = b[1 + n - 1]
      BY <3>1, SubSeqProperties
    <3>3. /\ v \in Seq(S) /\ Len(v) = (IF m <= N THEN N - m + 1 ELSE 0)
          /\ \A n \in 1..N - m + 1 : v[n] = b[m + n - 1]
      BY <3>1, SubSeqProperties
    <3> HIDE DEF u, v
    <3>4. Len(u) = i /\ Len(v) = N - m + 1
      BY <1>1, <2>1, <2>4, <3>2, <3>3
    <3>5. /\ u \o v \in Seq(S) /\ Len(u \o v) = Len(u) + Len(v)
          /\ \A n \in 1..Len(u) + Len(v) :
               (u \o v)[n] = IF n <= Len(u) THEN u[n] ELSE v[n - Len(u)]
      BY <3>2, <3>3, ConcatProperties
    <3> DEFINE w == u \o v
    <3>6. c = w
      BY <2>3 DEF u, v
    <3> HIDE DEF w
    <3>7. /\ w \in Seq(S) /\ Len(w) = M
          /\ \A n \in 1..M : w[n] = IF n <= i THEN u[n] ELSE v[n - i]
      BY <2>4, <3>4, <3>5 DEF w
    <3>8. ASSUME NEW n \in 1..M PROVE w[n] = IF n <= i THEN b[n] ELSE b[n + g]
      <4>1. CASE n <= i
        <5>1. n \in 1..i - 1 + 1 /\ 1 + n - 1 = n
          BY <2>1, <4>1
        <5> QED
          BY <3>2, <3>7, <4>1, <5>1
      <4>2. CASE ~(n <= i)
        <5>1. n - i \in 1..N - m + 1 /\ m + (n - i) - 1 = n + g
          BY <1>1, <2>1, <2>4, <4>2
        <5> QED
          BY <3>3, <3>7, <4>2, <5>1
      <4> QED
        BY <4>1, <4>2
    <3> QED
      BY <3>6, <3>7, <3>8 DEF S
  <2> HIDE DEF N, M, g
  <2>6. ASSUME NEW j \in 1..M
        PROVE  r[j] \in 1..N /\ c[j] = b[r[j]] /\ r[j] = (IF j <= i THEN j ELSE j + g)
    <3>1. r[j] = IF j <= i THEN j ELSE j + g
      OBVIOUS
    <3>2. r[j] \in 1..N
      BY <1>1, <2>4, <3>1 DEF M
    <3> QED
      BY <2>5, <3>1, <3>2
  <2>7. r \in [1..M -> 1..N]
    BY <2>6
  <2> HIDE DEF r
  <2>8. \A j, h \in 1..M : j < h => r[j] < r[h]
    BY <2>4, <2>6
  <2>9. r[M] = N
    <3>1. M \in 1..M /\ ~(M <= i) /\ M + g = N
      BY <1>1, <2>1, <2>4 DEF M
    <3> QED
      BY <2>6, <3>1
  <2>10. ASSUME NEW j \in 1..M - 1
         PROVE  r[j + 1] = r[j] + 1 \/ Near(kind, b[r[j]], b[r[j + 1]])
    <3>1. j \in 1..M /\ j + 1 \in 1..M
      BY <2>4
    <3>2. CASE j # i
      <4>1. (j <= i /\ j + 1 <= i) \/ (~(j <= i) /\ ~(j + 1 <= i))
        BY <2>1, <3>2
      <4> QED
        BY <2>4, <2>6, <3>1, <4>1
    <3>3. CASE j = i
      <4>1. r[j] = i /\ r[j + 1] = i + 1 + g
        BY <2>1, <2>4, <2>6, <3>1, <3>3
      <4>2. r[j + 1] = m
        BY <2>4, <4>1
      <4>3. CASE m = i + 1
        BY <4>1, <4>2, <4>3
      <4>4. CASE m # i + 1
        BY <2>2, <4>1, <4>2, <4>4
      <4> QED
        BY <4>3, <4>4
    <3> QED
      BY <3>2, <3>3
  <2>11. Thinned(kind, b, c, r)
    <3>1. IsSeq(c)
      BY <2>5, SeqIsSeq
    <3> QED
      BY <2>5, <2>6, <2>7, <2>8, <2>9, <2>10, <3>1 DEF Thinned, N
  <2>12. ASSUME NEW n \in 1..N, n >= N - 1 PROVE \E j \in 1..Len(c) : r[j] = n
    <3>1. CASE n - g <= i
      \* Then nothing goes, and the newest is next to i.
      <4>1. g = 0
        <5>1. CASE m = i + 1
          BY <2>4, <5>1
        <5>2. CASE m # i + 1
          <6>1. m <= N - 2
            BY <2>2, <5>2 DEF N
          <6> QED
            BY <1>1, <2>1, <2>4, <2>12, <3>1, <6>1
        <5> QED
          BY <5>1, <5>2
      <4>2. n \in 1..M /\ n <= i
        BY <1>1, <2>4, <3>1, <4>1 DEF M
      <4> QED
        BY <2>5, <2>6, <4>2
    <3>2. CASE ~(n - g <= i)
      <4>1. n - g \in 1..M /\ (n - g) + g = n
        BY <1>1, <2>1, <2>4, <3>2 DEF M
      <4> QED
        BY <2>5, <2>6, <3>2, <4>1
    <3> QED
      BY <3>1, <3>2
  <2>13. NewestStay(b, c, r)
    BY <2>12 DEF NewestStay, N
  <2> QED
    BY <2>11, <2>13 DEF c
<1> QED
  BY <1>2, <1>3

\* The instances of the newest samples are among those that are left.
NewestStart(s, b, p, c, q) ==
  \A k \in {Len(s) - 1, Len(s)} : Starts(b, p, k) => Starts(c, q, k)

\* So one instance of the loop keeps the histogram sound, and its newest instances.
LEMMA PruneAfterKeeps ==
  ASSUME NEW kind \in SmoothKinds, NEW s, Ordered(s), NEW b, NEW p, SmoothIs(kind, s, b, p),
         NEW i \in Nat \ {0}, NEW offset \in {1, 2}
  PROVE  \E q : /\ SmoothIs(kind, s, PruneAfter(kind, b, i, offset), q)
                /\ NewestStart(s, b, p, PruneAfter(kind, b, i, offset), q)
<1> DEFINE c == PruneAfter(kind, b, i, offset)
<1>1. /\ IsSeq(b) /\ p \in [1..Len(b) -> 1..Len(s)]
      /\ \A n, m \in 1..Len(b) : n < m => p[n] < p[m]
      /\ Len(b) > 0 => p[Len(b)] = Len(s)
  BY DEF SmoothIs
<1>2. Len(b) \in Nat /\ Len(s) \in Nat
  BY <1>1, SeqFacts, OrderedFacts
<1>3. PICK r : Thinned(kind, b, c, r) /\ NewestStay(b, c, r)
  BY <1>1, PruneAfterThins
<1> HIDE DEF c
<1> DEFINE q == [j \in 1..Len(c) |-> p[r[j]]]
<1>4. SmoothIs(kind, s, c, q)
  BY <1>3, ThinnedIsSmooth
<1>5. ASSUME NEW k \in {Len(s) - 1, Len(s)}, Starts(b, p, k) PROVE Starts(c, q, k)
  <2>1. PICK n \in 1..Len(b) : p[n] = k
    BY <1>5 DEF Starts
  <2>2. n >= Len(b) - 1
    <3> SUFFICES ASSUME n < Len(b) - 1 PROVE FALSE
      BY <1>2
    <3>1. n + 1 \in 1..Len(b) /\ Len(b) \in 1..Len(b) /\ n < n + 1 /\ n + 1 < Len(b) /\ Len(b) > 0
      BY <1>2
    <3>2. p[n] < p[n + 1] /\ p[n + 1] < p[Len(b)] /\ p[Len(b)] = Len(s)
      BY <1>1, <3>1
    <3>3. p[n] \in Nat /\ p[n + 1] \in Nat
      <4>1. p[n] \in 1..Len(s) /\ p[n + 1] \in 1..Len(s)
        BY <1>1, <3>1
      <4> QED
        BY <4>1
    <3> QED
      BY <1>2, <2>1, <3>2, <3>3
  <2>3. PICK j \in 1..Len(c) : r[j] = n
    BY <1>3, <2>2 DEF NewestStay
  <2> QED
    BY <2>1, <2>3 DEF Starts
<1> HIDE DEF q
<1>6. NewestStart(s, b, p, c, q)
  BY <1>5 DEF NewestStart
<1> QED
  BY <1>4, <1>6 DEF c

-----------------------------------------------------------------------------
(* Smooth histograms: the outer loop *)

\* One step of the loop, from what the steps before it left.
PruneStep(kind, b, offset, i, last) ==
  IF i = 0 THEN b ELSE PruneAfter(kind, last, i, offset)

\* g holds the first steps.
PrunesOf(kind, b, offset, N, g) ==
  g = [i \in 0..N |-> PruneStep(kind, b, offset, i, g[i - 1])]

\* The recursion of the loop has a solution.
LEMMA PrunesExist ==
  ASSUME NEW kind, NEW b, NEW offset, NEW N \in Nat
  PROVE  \E g : PrunesOf(kind, b, offset, N, g)
<1> DEFINE Wrong == {n \in Nat : ~ \E g : PrunesOf(kind, b, offset, n, g)}
<1> SUFFICES ASSUME Wrong # {} PROVE FALSE
  OBVIOUS
<1>1. PICK n \in Wrong : \A m \in Wrong : n <= m
  <2>1. Wrong \in SUBSET Nat
    OBVIOUS
  <2> HIDE DEF Wrong
  <2> QED
    BY <2>1, SmallestNat
<1>2. n \in Nat /\ ~ \E g : PrunesOf(kind, b, offset, n, g)
  BY <1>1
<1>3. n # 0
  <2> DEFINE g == [m \in 0..0 |-> b]
  <2>1. \A m \in 0..0 : g[m] = PruneStep(kind, b, offset, m, g[m - 1])
    BY DEF PruneStep
  <2>2. g = [m \in 0..0 |-> g[m]]
    OBVIOUS
  <2> HIDE DEF g
  <2>3. PrunesOf(kind, b, offset, 0, g)
    BY <2>1, <2>2 DEF PrunesOf
  <2> QED
    BY <1>2, <2>3
<1>4. n - 1 \in Nat /\ ~(n <= n - 1)
  BY <1>2, <1>3
<1>5. PICK g : PrunesOf(kind, b, offset, n - 1, g)
  BY <1>1, <1>4
<1> DEFINE new == PruneStep(kind, b, offset, n, g[n - 1])
           h == [m \in 0..n |-> IF m < n THEN g[m] ELSE new]
<1>6. ASSUME NEW m \in 0..n
      PROVE  h[m] = PruneStep(kind, b, offset, m, h[m - 1])
  <2>1. CASE m = 0
    <3>1. h[0] = g[0]
      BY <1>2, <1>3
    <3>2. 0 \in 0..(n - 1)
      BY <1>4
    <3>3. g[0] = PruneStep(kind, b, offset, 0, g[0 - 1])
      BY <1>5, <3>2 DEF PrunesOf
    <3> HIDE DEF h
    <3> QED
      BY <2>1, <3>1, <3>3 DEF PruneStep
  <2>2. CASE m # 0 /\ m < n
    <3>1. m \in 0..(n - 1) /\ m - 1 \in 0..n /\ m - 1 < n
      BY <1>2, <2>2
    <3>2. g[m] = PruneStep(kind, b, offset, m, g[m - 1])
      BY <1>5, <3>1 DEF PrunesOf
    <3>3. h[m] = g[m] /\ h[m - 1] = g[m - 1]
      BY <2>2, <3>1
    <3> HIDE DEF h
    <3> QED
      BY <3>2, <3>3
  <2>3. CASE ~(m < n)
    <3>1. m = n /\ n - 1 \in 0..n /\ n - 1 < n
      BY <1>2, <1>4, <2>3
    <3>2. h[m] = new /\ h[m - 1] = g[m - 1]
      BY <2>3, <3>1
    <3> HIDE DEF h
    <3> QED
      BY <3>1, <3>2 DEF new
  <2> QED
    BY <2>1, <2>2, <2>3
<1>7. h = [m \in 0..n |-> h[m]]
  OBVIOUS
<1> HIDE DEF h
<1>8. PrunesOf(kind, b, offset, n, h)
  BY <1>6, <1>7 DEF PrunesOf
<1> QED
  BY <1>2, <1>8

\* The loop keeps the histogram sound.
LEMMA PruneKeeps ==
  ASSUME NEW kind \in SmoothKinds, NEW s, Ordered(s), NEW b, NEW p, SmoothIs(kind, s, b, p),
         NEW offset \in {1, 2}
  PROVE  \E q : /\ SmoothIs(kind, s, Prune(kind, b, offset), q)
                /\ NewestStart(s, b, p, Prune(kind, b, offset), q)
<1> DEFINE N == Len(b)
           g == PrunePass(kind, b, offset)
           Good(c) == \E q : SmoothIs(kind, s, c, q) /\ NewestStart(s, b, p, c, q)
           Wrong == {n \in 0..N : ~Good(g[n])}
<1>1. N \in Nat
  BY SeqFacts DEF SmoothIs
<1>2. PrunesOf(kind, b, offset, N, g)
  <2>1. g = CHOOSE f : PrunesOf(kind, b, offset, N, f)
    BY DEF PrunePass, PrunesOf, PruneStep
  <2> HIDE DEF g
  <2> QED
    BY <1>1, <2>1, PrunesExist
<1> HIDE DEF g
<1>3. ASSUME NEW n \in 0..N
      PROVE  g[n] = IF n = 0 THEN b ELSE PruneAfter(kind, g[n - 1], n, offset)
  <2>1. g[n] = PruneStep(kind, b, offset, n, g[n - 1])
    BY <1>2 DEF PrunesOf
  <2> QED
    BY <2>1 DEF PruneStep
<1>4. Wrong = {}
  <2> SUFFICES ASSUME Wrong # {} PROVE FALSE
    OBVIOUS
  <2>1. PICK n \in Wrong : \A m \in Wrong : n <= m
    <3>1. Wrong \in SUBSET Nat
      BY <1>1
    <3> HIDE DEF Wrong
    <3> QED
      BY <3>1, SmallestNat
  <2>2. n \in 0..N /\ ~Good(g[n])
    BY <2>1
  <2>3. Good(b)
    BY DEF NewestStart
  <2>4. n # 0
    BY <1>3, <2>2, <2>3
  <2>5. n - 1 \in 0..N /\ ~(n <= n - 1) /\ n \in Nat \ {0}
    BY <1>1, <2>2, <2>4
  <2>6. Good(g[n - 1])
    BY <2>1, <2>5
  <2>7. PICK q : SmoothIs(kind, s, g[n - 1], q) /\ NewestStart(s, b, p, g[n - 1], q)
    BY <2>6
  <2> DEFINE c == PruneAfter(kind, g[n - 1], n, offset)
  <2>8. PICK q2 : SmoothIs(kind, s, c, q2) /\ NewestStart(s, g[n - 1], q, c, q2)
    BY <2>5, <2>7, PruneAfterKeeps
  <2>9. g[n] = c
    BY <1>3, <2>2, <2>4
  <2> HIDE DEF c
  <2>10. Good(c)
    BY <2>7, <2>8 DEF NewestStart
  <2> HIDE DEF Good
  <2> QED
    BY <2>2, <2>9, <2>10
<1>5. Good(g[N])
  <2>1. N \in 0..N
    BY <1>1
  <2> HIDE DEF Good
  <2> QED
    BY <1>4, <2>1
<1>6. Prune(kind, b, offset) = g[N]
  BY DEF Prune, g
<1> HIDE DEF g, N
<1> QED
  BY <1>5, <1>6

\* Of the instances in front the expired ones go.
LEMMA DropFirstKeeps ==
  ASSUME NEW kind \in SmoothKinds, NEW s, Ordered(s), NEW b, NEW p, SmoothIs(kind, s, b, p),
         NEW expired
  PROVE  \E q : /\ SmoothIs(kind, s, DropFirst(b, expired), q)
                /\ \A n \in 1..Len(b) :
                     n \notin expired => Starts(DropFirst(b, expired), q, p[n])
<1> DEFINE N == Len(b)
           S == {i \in 1..N : 1..i \subseteq expired}
           n == Cardinality(S)
           c == DropFirst(b, expired)
           r == [j \in 1..N - n |-> n + j]
<1>1. IsSeq(b) /\ p \in [1..N -> 1..Len(s)]
  BY DEF SmoothIs
<1>2. N \in Nat /\ DOMAIN b = 1..N
  BY <1>1, SeqFacts
<1>3. n \in 0..N /\ S = 1..n
  <2>1. S \in SUBSET (1..N)
    OBVIOUS
  <2>2. ASSUME NEW i \in S, NEW j \in 1..N, j <= i PROVE j \in S
    <3>1. 1..j \subseteq 1..i
      <4>1. i \in 1..N
        OBVIOUS
      <4> QED
        BY <1>2, <2>2, <4>1
    <3> QED
      BY <3>1
  <2> HIDE DEF S, N
  <2> QED
    BY <1>2, <2>1, <2>2, FrontIsInterval
<1>4. c = SubSeq(b, n + 1, N)
  BY <1>2 DEF DropFirst
<1> HIDE DEF c
<1>5. /\ IsSeq(c) /\ Len(c) = N - n /\ \A m \in 1..N - n : c[m] = b[n + m]
  <2>1. /\ IsSeq(SubSeq(b, n + 1, N)) /\ Len(SubSeq(b, n + 1, N)) = N - n
        /\ \A m \in 1..N - n : SubSeq(b, n + 1, N)[m] = b[n + m]
    <3> HIDE DEF n
    <3> QED
      BY <1>1, <1>3, DropIs
  <2> QED
    BY <1>4, <2>1
<1>6. ASSUME NEW i \in 1..N, i \notin expired PROVE i - n \in 1..N - n /\ n + (i - n) = i
  <2>1. i \in 1..i
    BY <1>2
  <2>2. i \notin S
    BY <1>6, <2>1
  <2> HIDE DEF S
  <2>3. i \notin 1..n
    BY <1>3, <2>2
  <2> HIDE DEF n
  <2> QED
    BY <1>2, <1>3, <2>3
<1> HIDE DEF S, n
<1>7. \A j \in 1..N - n : r[j] = n + j /\ r[j] \in 1..N
  BY <1>2, <1>3
<1>8. r \in [1..N - n -> 1..N]
  BY <1>7
<1> HIDE DEF r
<1>9. Thinned(kind, b, c, r)
  <2>1. \A i, j \in 1..N - n : i < j => r[i] < r[j]
    BY <1>2, <1>3, <1>7
  <2>2. N - n > 0 => r[N - n] = N
    <3> SUFFICES ASSUME N - n > 0 PROVE r[N - n] = N
      OBVIOUS
    <3>1. N - n \in 1..N - n /\ n + (N - n) = N
      BY <1>2, <1>3
    <3> QED
      BY <1>7, <3>1
  <2>3. \A j \in 1..N - n : c[j] = b[r[j]]
    BY <1>5, <1>7
  <2>4. ASSUME NEW j \in 1..(N - n) - 1 PROVE r[j + 1] = r[j] + 1
    <3>1. j \in 1..N - n /\ j + 1 \in 1..N - n
      BY <1>2, <1>3
    <3> QED
      BY <1>2, <1>3, <1>7, <3>1
  <2> QED
    BY <1>5, <1>8, <2>1, <2>2, <2>3, <2>4 DEF Thinned
<1> DEFINE q == [j \in 1..Len(c) |-> p[r[j]]]
<1>10. SmoothIs(kind, s, c, q)
  BY <1>9, ThinnedIsSmooth
<1>11. ASSUME NEW i \in 1..N, i \notin expired PROVE Starts(c, q, p[i])
  <2>1. i - n \in 1..Len(c) /\ r[i - n] = i
    BY <1>5, <1>6, <1>7, <1>11
  <2> QED
    BY <2>1 DEF Starts
<1> HIDE DEF q
<1> QED
  BY <1>10, <1>11 DEF c

-----------------------------------------------------------------------------
(* Smooth histograms: Update *)

\* Every instance is fed, and one more is started.
LEMMA FedIsSmooth ==
  ASSUME NEW kind \in SmoothKinds, NEW s, Ordered(s), NEW x \in Samples,
         Len(s) > 0 => s[Len(s)].t <= x.t,
         NEW b, NEW p, SmoothIs(kind, s, b, p),
         NEW f, f = [i \in DOMAIN b |-> f[i]],
         \A i, k : i \in 1..Len(b) /\ k \in 1..Len(s) /\ InstanceIs(kind, s, b[i], k)
                     => InstanceIs(kind, Append(s, x), f[i], k),
         NEW new, InstanceIs(kind, Append(s, x), new, Len(s) + 1)
  PROVE  \E q : /\ SmoothIs(kind, Append(s, x), Append(f, new), q)
                /\ Starts(Append(f, new), q, Len(s) + 1)
                /\ Starts(b, p, Len(s)) => Starts(Append(f, new), q, Len(s))
<1> DEFINE u == Append(s, x)
           c == Append(f, new)
           N == Len(b)
           L == Len(s)
           q == [i \in 1..N + 1 |-> IF i <= N THEN p[i] ELSE L + 1]
<1>1. /\ IsSeq(b) /\ p \in [1..N -> 1..L]
      /\ \A i, j \in 1..N : i < j => p[i] < p[j]
      /\ N > 0 => p[N] = L
      /\ \A i \in 1..N : InstanceIs(kind, s, b[i], p[i])
      /\ kind = "univ" /\ TwoRowsApart => \A i \in 1..N - 1 : Neighbours(s, p[i], p[i + 1])
  BY DEF SmoothIs
<1>2. N \in Nat /\ DOMAIN b = 1..N /\ L \in Nat
  BY <1>1, SeqFacts, OrderedFacts
<1>3. Ordered(u) /\ Len(u) = L + 1
  BY AppendOrdered
<1> HIDE DEF u
<1>4. /\ IsSeq(c) /\ Len(c) = N + 1 /\ c[N + 1] = new
      /\ \A i \in 1..N : c[i] = f[i]
  <2> DEFINE S == {f[i] : i \in 1..N} \cup {new}
  <2>1. f \in Seq(S) /\ Len(f) = N /\ new \in S
    <3>1. f \in [1..N -> S]
      <4>1. \A i \in 1..N : f[i] \in S
        OBVIOUS
      <4>2. f = [i \in 1..N |-> f[i]]
        BY <1>2
      <4> HIDE DEF S
      <4> QED
        BY <4>1, <4>2
    <3>2. new \in S
      OBVIOUS
    <3> HIDE DEF S
    <3>3. f \in Seq(S)
      <4>1. Seq(S) = UNION {[1..n -> S] : n \in Nat}
        BY SeqDef
      <4> QED
        BY <1>2, <3>1, <4>1
    <3> QED
      BY <1>2, <3>1, <3>2, <3>3, LenProperties
  <2> HIDE DEF S
  <2>2. /\ c \in Seq(S) /\ Len(c) = Len(f) + 1
        /\ \A i \in 1..Len(f) : c[i] = f[i]
        /\ c[Len(f) + 1] = new
    BY <2>1, AppendProperties
  <2>3. IsSeq(c)
    BY <2>2, SeqIsSeq
  <2> QED
    BY <2>1, <2>2, <2>3
<1> HIDE DEF c
<1>5. ASSUME NEW i \in 1..N
      PROVE  i \in 1..N + 1 /\ q[i] = p[i] /\ p[i] \in 1..L /\ p[i] \in Nat /\ p[i] <= L
  <2>1. i \in 1..N + 1 /\ i <= N /\ p[i] \in 1..L
    BY <1>1, <1>2
  <2> QED
    BY <1>2, <2>1
<1>6. N + 1 \in 1..N + 1 /\ q[N + 1] = L + 1
  <2>1. N + 1 \in 1..N + 1 /\ ~(N + 1 <= N)
    BY <1>2
  <2> QED
    BY <2>1
<1>7. \A i \in 1..N + 1 : i \in 1..N \/ i = N + 1
  BY <1>2
<1>8. q \in [1..N + 1 -> 1..L + 1]
  <2>1. ASSUME NEW i \in 1..N + 1 PROVE q[i] \in 1..L + 1
    <3>1. CASE i \in 1..N
      <4>1. q[i] \in 1..L
        BY <1>5, <3>1
      <4> QED
        BY <1>2, <4>1
    <3>2. CASE i = N + 1
      <4>1. L + 1 \in 1..L + 1
        BY <1>2
      <4> QED
        BY <1>6, <3>2, <4>1
    <3> QED
      BY <1>7, <3>1, <3>2
  <2> QED
    BY <2>1
<1> HIDE DEF q
<1>9. ASSUME NEW i \in 1..N + 1, NEW j \in 1..N + 1, i < j PROVE q[i] < q[j]
  <2>1. i \in 1..N
    BY <1>2, <1>9
  <2>2. CASE j \in 1..N
    BY <1>1, <1>5, <1>9, <2>1, <2>2
  <2>3. CASE j = N + 1
    BY <1>2, <1>5, <1>6, <2>1, <2>3
  <2> QED
    BY <1>7, <2>2, <2>3
<1>10. ASSUME NEW i \in 1..N + 1 PROVE InstanceIs(kind, u, c[i], q[i])
  <2>1. CASE i \in 1..N
    <3>1. InstanceIs(kind, u, f[i], p[i])
      BY <1>1, <1>5, <2>1 DEF u
    <3> QED
      BY <1>4, <1>5, <2>1, <3>1
  <2>2. CASE i = N + 1
    BY <1>4, <1>6, <2>2 DEF u
  <2> QED
    BY <1>7, <2>1, <2>2
<1>11. ASSUME kind = "univ", TwoRowsApart, NEW i \in 1..(N + 1) - 1
       PROVE  Neighbours(u, q[i], q[i + 1])
  <2>1. i \in 1..N
    BY <1>2
  <2>2. CASE i < N
    <3>1. i \in 1..N - 1 /\ i + 1 \in 1..N /\ i < i + 1
      BY <1>2, <2>1, <2>2
    <3>2. /\ q[i] = p[i] /\ q[i + 1] = p[i + 1] /\ p[i] \in 1..L /\ p[i] < p[i + 1]
          /\ p[i + 1] \in 1..L
      BY <1>1, <1>5, <2>1, <3>1
    <3>3. p[i + 1] \in p[i] + 1..L
      BY <1>2, <3>2
    <3>4. Neighbours(s, p[i], p[i + 1])
      BY <1>1, <1>11, <3>1
    <3>5. Neighbours(u, p[i], p[i + 1])
      BY <3>2, <3>3, <3>4, NeighboursStay DEF u
    <3> QED
      BY <3>2, <3>5
  <2>3. CASE ~(i < N)
    <3>1. i = N /\ N > 0
      BY <1>2, <2>1, <2>3
    <3>2. q[i] = L /\ q[i + 1] = L + 1
      BY <1>1, <1>5, <1>6, <2>1, <3>1
    <3> QED
      BY <3>2 DEF Neighbours
  <2> QED
    BY <2>2, <2>3
<1>12. SmoothIs(kind, u, c, q)
  BY <1>3, <1>4, <1>6, <1>8, <1>9, <1>10, <1>11 DEF SmoothIs
<1>13. Starts(c, q, L + 1)
  BY <1>4, <1>6 DEF Starts
<1>14. Starts(b, p, L) => Starts(c, q, L)
  BY <1>4, <1>5 DEF Starts
<1> QED
  BY <1>12, <1>13, <1>14 DEF u, c

\* Then the histogram is pruned and what expired goes, but nothing young.
LEMMA SmoothArrival ==
  ASSUME NEW kind \in SmoothKinds, NEW s, Ordered(s), NEW x \in Samples,
         Len(s) > 0 => s[Len(s)].t <= x.t,
         NEW b, SmoothSound(kind, s, b),
         NEW f, f = [i \in DOMAIN b |-> f[i]],
         \A i, k : i \in 1..Len(b) /\ k \in 1..Len(s) /\ InstanceIs(kind, s, b[i], k)
                     => InstanceIs(kind, Append(s, x), f[i], k),
         NEW new, InstanceIs(kind, Append(s, x), new, Len(s) + 1),
         NEW offset \in {1, 2}, NEW pruned, pruned = Prune(kind, Append(f, new), offset),
         NEW expired,
         \A i \in DOMAIN pruned :
           /\ pruned[i].min_time \in Int /\ pruned[i].max_time = x.t
           /\ x.t - pruned[i].min_time < SmoothWindow
           => i \notin expired
  PROVE  SmoothSound(kind, Append(s, x), DropFirst(pruned, expired))
<1> DEFINE u == Append(s, x)
           L == Len(s)
           c == Append(f, new)
           d == DropFirst(pruned, expired)
           Young(k) == k > 0 /\ u[Len(u)].t - u[k].t < SmoothWindow
<1>1. /\ Ordered(u) /\ Len(u) = L + 1 /\ u[L + 1] = x /\ L \in Nat
      /\ \A n \in 1..L : u[n] = s[n]
  BY AppendOrdered, OrderedFacts
<1>2. PICK p : /\ SmoothIs(kind, s, b, p)
               /\ \A k \in {L - 1, L} :
                    k > 0 /\ s[L].t - s[k].t < SmoothWindow => Starts(b, p, k)
  BY DEF SmoothSound
<1>3. PICK q : /\ SmoothIs(kind, u, c, q) /\ Starts(c, q, L + 1)
               /\ Starts(b, p, L) => Starts(c, q, L)
  BY <1>2, FedIsSmooth
<1> HIDE DEF u, c
<1>4. PICK q2 : SmoothIs(kind, u, pruned, q2) /\ NewestStart(u, c, q, pruned, q2)
  <2>1. pruned = Prune(kind, c, offset)
    BY DEF c
  <2>2. \E q2 : /\ SmoothIs(kind, u, Prune(kind, c, offset), q2)
                /\ NewestStart(u, c, q, Prune(kind, c, offset), q2)
    <3>1. Ordered(u) /\ SmoothIs(kind, u, c, q) /\ offset \in {1, 2} /\ kind \in SmoothKinds
      BY <1>1, <1>3
    <3> QED
      BY ONLY <3>1, PruneKeeps
  <2> QED
    BY <2>1, <2>2
<1>5. PICK q3 : /\ SmoothIs(kind, u, d, q3)
                /\ \A n \in 1..Len(pruned) : n \notin expired => Starts(d, q3, q2[n])
  BY <1>1, <1>4, DropFirstKeeps
<1> HIDE DEF d
<1>6. \A n \in 1..Len(u) : u[n].t \in Int
  BY <1>1, OrderedFacts
<1>7. ASSUME NEW k \in {L, L + 1}, k > 0, u[L + 1].t - u[k].t < SmoothWindow
      PROVE  Starts(d, q3, k)
  <2>1. k \in 1..L + 1
    BY <1>1, <1>7
  <2>2. Starts(c, q, k)
    <3>1. CASE k = L + 1
      BY <1>3, <3>1
    <3>2. CASE k # L + 1
      <4>1. k = L /\ L \in 1..L /\ L > 0 /\ L \in 1..L + 1 /\ L + 1 \in 1..L + 1
        BY <1>1, <1>7, <3>2
      <4>2. s[L].t <= x.t /\ u[L].t = s[L].t /\ u[L + 1].t = x.t
        BY <1>1, <4>1
      <4>3. s[L].t \in Int /\ x.t \in Int
        BY <1>1, <1>6, <4>1, <4>2
      <4>4. s[L].t - s[L].t < SmoothWindow
        BY <1>7, <4>1, <4>2, <4>3, SmoothAssumption
      <4> QED
        BY <1>2, <1>3, <4>1, <4>4
    <3> QED
      BY <3>1, <3>2
  <2>3. Starts(pruned, q2, k)
    <3>1. k \in {Len(u) - 1, Len(u)}
      BY <1>1, <1>7
    <3> QED
      BY <1>4, <2>2, <3>1 DEF NewestStart
  <2>4. PICK n \in 1..Len(pruned) : q2[n] = k
    BY <2>3 DEF Starts
  <2>5. InstanceIs(kind, u, pruned[n], k) /\ n \in DOMAIN pruned
    <3>1. DOMAIN pruned = 1..Len(pruned)
      BY <1>4, SeqFacts DEF SmoothIs
    <3> QED
      BY <1>4, <2>4, <3>1 DEF SmoothIs
  <2>6. pruned[n].min_time = u[k].t /\ pruned[n].max_time = x.t
    BY <1>1, <2>5 DEF InstanceIs
  <2>7. n \notin expired
    <3>1. u[k].t \in Int /\ u[L + 1].t = x.t
      BY <1>1, <1>6, <2>1
    <3> QED
      BY <1>7, <2>5, <2>6, <3>1
  <2> QED
    BY <1>5, <2>4, <2>7
<1>8. Len(u) - 1 = L
  BY <1>1
<1>9. SmoothSound(kind, u, d)
  BY <1>1, <1>5, <1>7, <1>8 DEF SmoothSound
<1> QED
  BY <1>9 DEF u, d

\* The state of the three smooth histograms.
SmoothInv ==
  /\ \A n \in 1..Len(stream) : stream[n].v \in Int
  /\ SmoothSound("univ", stream, shu)
  /\ SmoothSound("cs", stream, shcs)
  /\ SmoothSound("count", stream, shc)

\* Before the first sample they are empty.
LEMMA SmoothAtFirst == StreamInit /\ SmoothInit => SmoothInv
<1> SUFFICES ASSUME StreamInit, SmoothInit PROVE SmoothInv
  OBVIOUS
<1>1. stream = <<>> /\ shu = <<>> /\ shcs = <<>> /\ shc = <<>>
  BY DEF StreamInit, SmoothInit
<1>2. Len(<<>>) = 0 /\ <<>> \in Seq(Samples)
  OBVIOUS
<1>3. IsSeq(<<>>)
  BY <1>2, SeqIsSeq
<1>4. ASSUME NEW kind PROVE SmoothSound(kind, <<>>, <<>>)
  <2> DEFINE p == [i \in 1..0 |-> 1]
  <2>1. p \in [1..0 -> 1..0] /\ \A i \in 1..0 : FALSE
    OBVIOUS
  <2> HIDE DEF p
  <2>2. \A i \in 1..0 - 1 : FALSE
    OBVIOUS
  <2>3. SmoothIs(kind, <<>>, <<>>, p)
    BY <1>2, <1>3, <2>1, <2>2 DEF SmoothIs
  <2>4. \A k \in {0 - 1, 0} : ~(k > 0)
    OBVIOUS
  <2> QED
    BY <1>2, <2>3, <2>4 DEF SmoothSound
<1>5. \A n \in 1..0 : FALSE
  OBVIOUS
<1> QED
  BY <1>1, <1>2, <1>4, <1>5 DEF SmoothInv

\* What is young is not expired, by any of the three rules.
LEMMA YoungIsNotExpired ==
  ASSUME NEW t \in Int, NEW m \in Int, NEW w \in Nat, t - m < w
  PROVE  ~(m + 2 * w < t) /\ ~(m + w < t) /\ ~(t - m >= w)
OBVIOUS

\* Update keeps what is said of them.
LEMMA SmoothKeeps ==
  ASSUME SmoothInv, Ordered(stream), NEW gap \in Gaps, NEW v \in StreamValues,
         Arrives(Newest + gap, v), SmoothUpdate(Newest + gap, v)
  PROVE  SmoothInv'
<1> DEFINE t == Newest + gap
           x == [t |-> t, v |-> v]
           u == Append(stream, x)
           L == Len(stream)
<1>1. /\ x \in Samples /\ x.t = t /\ x.v = v /\ stream' = u
      /\ L > 0 => stream[L].t <= x.t
      /\ Ordered(u)
  BY StreamGrows
<1>2. /\ \A n \in 1..L : stream[n].v \in Int
      /\ SmoothSound("univ", stream, shu) /\ SmoothSound("cs", stream, shcs)
      /\ SmoothSound("count", stream, shc)
  BY DEF SmoothInv
<1>3. v \in Int /\ t \in Int
  <2>1. x.t \in Int
    BY <1>1 DEF Samples
  <2> QED
    BY <1>1, <2>1, SmoothAssumption
<1> HIDE DEF t, x, u
<1>4. SHUnivUpdate(t, v) /\ SHCSUpdate(t, v) /\ SHCountUpdate(t, v)
  BY DEF SmoothUpdate, t
<1>5. "univ" \in SmoothKinds /\ "cs" \in SmoothKinds /\ "count" \in SmoothKinds
  BY DEF SmoothKinds
<1>6. SmoothWindow \in Nat
  BY SmoothAssumption
<1>7. SmoothSound("univ", u, shu')
  <2> DEFINE fed(us) == [FeedSample(us, t, v) EXCEPT !.max_time = t]
             f == [i \in DOMAIN shu |-> fed(shu[i])]
             new == [fed(NewUnivSketchPyramid) EXCEPT !.min_time = t]
             pruned == Prune("univ", Append(f, new), 2)
             expired == {i \in DOMAIN pruned : pruned[i].min_time + 2 * SmoothWindow < t}
  <2>1. shu' = DropFirst(pruned, expired)
    BY <1>4 DEF SHUnivUpdate
  <2>2. /\ \A a, k : k \in 1..L /\ InstanceIs("univ", stream, a, k)
                       => InstanceIs("univ", u, fed(a), k)
        /\ InstanceIs("univ", u, new, L + 1)
    BY <1>1, UnivInstances DEF u
  <2>3. ASSUME NEW i \in DOMAIN pruned, pruned[i].min_time \in Int,
               x.t - pruned[i].min_time < SmoothWindow
        PROVE  i \notin expired
    <3> DEFINE m == pruned[i].min_time
    <3>1. m \in Int /\ t - m < SmoothWindow
      BY <1>1, <2>3
    <3> HIDE DEF m
    <3>2. ~(m + 2 * SmoothWindow < t)
      BY <1>3, <1>6, <3>1, YoungIsNotExpired
    <3> HIDE DEF pruned
    <3> QED
      BY <3>2 DEF m
  <2> HIDE DEF fed, expired
  <2>4. \A i, k : i \in 1..Len(shu) /\ k \in 1..L /\ InstanceIs("univ", stream, shu[i], k)
                    => InstanceIs("univ", u, f[i], k)
    <3>1. DOMAIN shu = 1..Len(shu)
      BY <1>2, SeqFacts DEF SmoothSound, SmoothIs
    <3>2. \A i \in 1..Len(shu) : f[i] = fed(shu[i])
      BY <3>1
    <3> HIDE DEF f
    <3> QED
      BY <2>2, <3>2
  <2>5. f = [i \in DOMAIN shu |-> f[i]]
    OBVIOUS
  <2> HIDE DEF f, new
  <2>6. pruned = Prune("univ", Append(f, new), 2)
    OBVIOUS
  <2> HIDE DEF pruned
  <2>7. SmoothSound("univ", u, DropFirst(pruned, expired))
    BY <1>1, <1>2, <1>5, <2>2, <2>3, <2>4, <2>5, <2>6, SmoothArrival DEF u, L
  <2> QED
    BY <2>1, <2>7
<1>8. SmoothSound("cs", u, shcs')
  <2> DEFINE fed(a) == [a EXCEPT !.bucketsize = @ + 1, !.cs = CSUpdateString(@, v), !.max_time = t]
             f == [i \in DOMAIN shcs |-> fed(shcs[i])]
             new == [min_time |-> t, max_time |-> t, bucketsize |-> 0,
                     cs |-> CSUpdateString(NewCountSketch, v)]
             pruned == Prune("cs", Append(f, new), 2)
             expired == {i \in DOMAIN pruned : pruned[i].min_time + SmoothWindow < t}
  <2>1. shcs' = DropFirst(pruned, expired)
    BY <1>4 DEF SHCSUpdate
  <2>2. /\ \A a, k : k \in 1..L /\ InstanceIs("cs", stream, a, k)
                       => InstanceIs("cs", u, fed(a), k)
        /\ InstanceIs("cs", u, new, L + 1)
    BY <1>1, CSInstances DEF u
  <2>3. ASSUME NEW i \in DOMAIN pruned, pruned[i].min_time \in Int,
               x.t - pruned[i].min_time < SmoothWindow
        PROVE  i \notin expired
    <3> DEFINE m == pruned[i].min_time
    <3>1. m \in Int /\ t - m < SmoothWindow
      BY <1>1, <2>3
    <3> HIDE DEF m
    <3>2. ~(m + SmoothWindow < t)
      BY <1>3, <1>6, <3>1, YoungIsNotExpired
    <3> HIDE DEF pruned
    <3> QED
      BY <3>2 DEF m
  <2> HIDE DEF fed, expired
  <2>4. \A i, k : i \in 1..Len(shcs) /\ k \in 1..L /\ InstanceIs("cs", stream, shcs[i], k)
                    => InstanceIs("cs", u, f[i], k)
    <3>1. DOMAIN shcs = 1..Len(shcs)
      BY <1>2, SeqFacts DEF SmoothSound, SmoothIs
    <3>2. \A i \in 1..Len(shcs) : f[i] = fed(shcs[i])
      BY <3>1
    <3> HIDE DEF f
    <3> QED
      BY <2>2, <3>2
  <2>5. f = [i \in DOMAIN shcs |-> f[i]]
    OBVIOUS
  <2> HIDE DEF f, new
  <2>6. pruned = Prune("cs", Append(f, new), 2)
    OBVIOUS
  <2> HIDE DEF pruned
  <2>7. SmoothSound("cs", u, DropFirst(pruned, expired))
    BY <1>1, <1>2, <1>5, <2>2, <2>3, <2>4, <2>5, <2>6, SmoothArrival DEF u, L
  <2> QED
    BY <2>1, <2>7
<1>9. SmoothSound("count", u, shc')
  <2> DEFINE fed(b) == [b EXCEPT !.count = @ + 1, !.sum = @ + v, !.max_time = t,
                                 !.bucketsize = @ + 1]
             f == [i \in DOMAIN shc |-> fed(shc[i])]
             new == [count |-> 1, sum |-> v, sum2 |-> 0, min_time |-> t, max_time |-> t,
                     bucketsize |-> 1]
             pruned == Prune("count", Append(f, new), 1)
             expired == {i \in DOMAIN pruned :
                           pruned[i].max_time - pruned[i].min_time >= SmoothWindow}
  <2>1. shc' = DropFirst(pruned, expired)
    BY <1>4 DEF SHCountUpdate
  <2>2. /\ \A a, k : k \in 1..L /\ InstanceIs("count", stream, a, k)
                       => InstanceIs("count", u, fed(a), k)
        /\ InstanceIs("count", u, new, L + 1)
    BY <1>1, <1>2, <1>3, CountInstances DEF u
  <2>3. ASSUME NEW i \in DOMAIN pruned, pruned[i].min_time \in Int, pruned[i].max_time = x.t,
               x.t - pruned[i].min_time < SmoothWindow
        PROVE  i \notin expired
    <3> DEFINE m == pruned[i].min_time
               h == pruned[i].max_time
    <3>1. m \in Int /\ h = t /\ t - m < SmoothWindow
      BY <1>1, <2>3
    <3> HIDE DEF m, h
    <3>2. ~(h - m >= SmoothWindow)
      BY <1>3, <1>6, <3>1, YoungIsNotExpired
    <3> HIDE DEF pruned
    <3> QED
      BY <3>2 DEF m, h
  <2> HIDE DEF fed, expired
  <2>4. \A i, k : i \in 1..Len(shc) /\ k \in 1..L /\ InstanceIs("count", stream, shc[i], k)
                    => InstanceIs("count", u, f[i], k)
    <3>1. DOMAIN shc = 1..Len(shc)
      BY <1>2, SeqFacts DEF SmoothSound, SmoothIs
    <3>2. \A i \in 1..Len(shc) : f[i] = fed(shc[i])
      BY <3>1
    <3> HIDE DEF f
    <3> QED
      BY <2>2, <3>2
  <2>5. f = [i \in DOMAIN shc |-> f[i]]
    OBVIOUS
  <2> HIDE DEF f, new
  <2>6. pruned = Prune("count", Append(f, new), 1)
    OBVIOUS
  <2> HIDE DEF pruned
  <2>7. SmoothSound("count", u, DropFirst(pruned, expired))
    BY <1>1, <1>2, <1>5, <2>2, <2>3, <2>4, <2>5, <2>6, SmoothArrival DEF u, L
  <2> QED
    BY <2>1, <2>7
<1>10. \A n \in 1..Len(u) : u[n].v \in Int
  <2>1. L \in Nat /\ Len(u) = L + 1 /\ u[L + 1] = x /\ \A n \in 1..L : u[n] = stream[n]
    BY <1>1, AppendOrdered, OrderedFacts DEF u
  <2> SUFFICES ASSUME NEW n \in 1..L + 1 PROVE u[n].v \in Int
    BY <2>1
  <2>2. n \in 1..L \/ n = L + 1
    BY <2>1
  <2> QED
    BY <1>1, <1>2, <1>3, <2>1, <2>2
<1> QED
  BY <1>1, <1>7, <1>8, <1>9, <1>10 DEF SmoothInv

-----------------------------------------------------------------------------
(* Smooth histograms: what instances stand for *)

\* What instances say of the stream, when their starts say which samples they began with.
InstancesStand(kind, b, p) ==
  /\ Len(b) \in Nat /\ DOMAIN b = 1..Len(b)
  /\ \A i \in 1..Len(b) :
       /\ p[i] \in 1..Len(stream) /\ b[i].min_time = stream[p[i]].t
       /\ b[i].min_time \in Int /\ b[i].max_time = Newest
       /\ Since(b[i].min_time) = SubSeq(stream, p[i], Len(stream))
       /\ Len(Since(b[i].min_time)) = Len(stream) - p[i] + 1
       /\ InstanceIs(kind, stream, b[i], p[i])
  /\ \A i, j \in 1..Len(b) : i < j =>
       /\ p[i] < p[j] /\ b[i].min_time < b[j].min_time
  /\ \A i, j \in 1..Len(b) : i <= j =>
       /\ Stretch(b[i].min_time, b[j].min_time) = SubSeq(stream, p[i], p[j] - 1)
       /\ Len(Stretch(b[i].min_time, b[j].min_time)) = p[j] - p[i]

\* They say so in a sound histogram.
LEMMA InstanceFacts ==
  ASSUME Ordered(stream), TimesDiffer, NEW kind, NEW b, NEW p, SmoothIs(kind, stream, b, p)
  PROVE  InstancesStand(kind, b, p)
<1> DEFINE L == Len(stream)
           N == Len(b)
<1>1. /\ IsSeq(b) /\ p \in [1..N -> 1..L]
      /\ \A i, j \in 1..N : i < j => p[i] < p[j]
      /\ \A i \in 1..N : InstanceIs(kind, stream, b[i], p[i])
  BY DEF SmoothIs
<1>2. N \in Nat /\ DOMAIN b = 1..N /\ L \in Nat /\ stream \in Seq(Samples)
  BY <1>1, SeqFacts, OrderedFacts
<1>3. ASSUME NEW i \in 1..N
      PROVE  /\ p[i] \in 1..L /\ b[i].min_time = stream[p[i]].t
             /\ b[i].min_time \in Int /\ b[i].max_time = Newest
             /\ Since(b[i].min_time) = SubSeq(stream, p[i], L)
             /\ Len(Since(b[i].min_time)) = L - p[i] + 1
             /\ InstanceIs(kind, stream, b[i], p[i])
  <2>1. p[i] \in 1..L
    BY <1>1
  <2>2. b[i].min_time = stream[p[i]].t /\ b[i].max_time = stream[L].t
    BY <1>1 DEF InstanceIs
  <2>3. Newest = stream[L].t
    <3>1. stream # <<>>
      <4>1. L # 0
        BY <1>2, <2>1
      <4> QED
        BY <4>1
    <3> QED
      BY <3>1 DEF Newest
  <2>4. Since(stream[p[i]].t) = SubSeq(stream, p[i], L)
    BY <2>1, StretchIs
  <2>5. Len(SubSeq(stream, p[i], L)) = L - p[i] + 1
    <3>1. p[i] \in p[i]..L
      BY <1>2, <2>1
    <3> QED
      BY <1>2, <2>1, <3>1, PartsJoin
  <2>6. stream[p[i]].t \in Int
    BY <2>1, OrderedFacts
  <2> QED
    BY <1>1, <2>1, <2>2, <2>3, <2>4, <2>5, <2>6
<1>4. ASSUME NEW i \in 1..N, NEW j \in 1..N, i < j
      PROVE  p[i] < p[j] /\ b[i].min_time < b[j].min_time
  <2>1. p[i] < p[j] /\ p[i] \in 1..L /\ p[j] \in 1..L
    BY <1>1, <1>3, <1>4
  <2> QED
    BY <1>3, <2>1, BeforeIs
<1>5. ASSUME NEW i \in 1..N, NEW j \in 1..N, i <= j
      PROVE  /\ Stretch(b[i].min_time, b[j].min_time) = SubSeq(stream, p[i], p[j] - 1)
             /\ Len(Stretch(b[i].min_time, b[j].min_time)) = p[j] - p[i]
  <2>1. p[i] \in 1..L /\ p[j] \in 1..L /\ p[i] <= p[j]
    <3>1. CASE i = j
      BY <1>2, <1>3, <3>1
    <3>2. CASE i # j
      <4>1. i < j
        BY <1>2, <1>5, <3>2
      <4> QED
        BY <1>2, <1>3, <1>4, <4>1
    <3> QED
      BY <3>1, <3>2
  <2>2. Stretch(stream[p[i]].t, stream[p[j]].t) = SubSeq(stream, p[i], p[j] - 1)
    BY <2>1, StretchIs
  <2>3. p[j] \in p[i]..L
    BY <1>2, <2>1
  <2>4. Len(SubSeq(stream, p[i], p[j] - 1)) = p[j] - p[i]
    BY <1>2, <2>1, <2>3, PartsJoin
  <2> QED
    BY <1>3, <2>2, <2>4
<1> QED
  BY <1>2, <1>3, <1>4, <1>5 DEF InstancesStand

\* Every sample that is young has an instance that starts at its time.
LEMMA YoungHasInstance ==
  ASSUME Ordered(stream), TimesDiffer, NEW kind, NEW b, SmoothSound(kind, stream, b),
         NEW k \in {Len(stream) - 1, Len(stream)}, k > 0, Newest - stream[k].t < SmoothWindow
  PROVE  \E j \in DOMAIN b : b[j].min_time = stream[k].t
<1>1. PICK p : /\ SmoothIs(kind, stream, b, p)
               /\ \A n \in {Len(stream) - 1, Len(stream)} :
                    n > 0 /\ stream[Len(stream)].t - stream[n].t < SmoothWindow => Starts(b, p, n)
  BY DEF SmoothSound
<1>2. Newest = stream[Len(stream)].t
  <2>1. stream # <<>>
    <3>1. Len(stream) # 0
      BY OrderedFacts
    <3> QED
      BY <3>1
  <2> QED
    BY <2>1 DEF Newest
<1>3. PICK j \in 1..Len(b) : p[j] = k
  <2>1. Starts(b, p, k)
    BY <1>1, <1>2
  <2> QED
    BY <2>1 DEF Starts
<1>4. SmoothIs(kind, stream, b, p)
  BY <1>1
<1>5. DOMAIN b = 1..Len(b) /\ \A i \in 1..Len(b) : b[i].min_time = stream[p[i]].t
  BY <1>4, SeqFacts DEF SmoothIs, InstanceIs
<1>6. j \in DOMAIN b /\ b[j].min_time = stream[k].t
  BY <1>3, <1>5
<1> QED
  BY <1>6

\* By the invariant instances hold what came since they were started.
LEMMA SuffixesAreRight ==
  ASSUME Ordered(stream), SmoothInv, TimesDiffer
  PROVE  SmoothInstancesAreSuffixes
<1> DEFINE L == Len(stream)
<1>1. PICK p : SmoothIs("univ", stream, shu, p)
  BY DEF SmoothInv, SmoothSound
<1>2. PICK q : SmoothIs("cs", stream, shcs, q)
  BY DEF SmoothInv, SmoothSound
<1>3. PICK r : SmoothIs("count", stream, shc, r)
  BY DEF SmoothInv, SmoothSound
<1>4. L \in Nat /\ DOMAIN stream = 1..L /\ stream \in Seq(Samples)
  BY OrderedFacts
<1>5. /\ Len(shu) \in Nat /\ DOMAIN shu = 1..Len(shu)
      /\ \A i \in 1..Len(shu) :
           /\ p[i] \in 1..L /\ Since(shu[i].min_time) = SubSeq(stream, p[i], L)
           /\ Len(Since(shu[i].min_time)) = L - p[i] + 1
           /\ InstanceIs("univ", stream, shu[i], p[i])
      /\ \A i, j \in 1..Len(shu) : i < j => shu[i].min_time < shu[j].min_time
      /\ \A i, j \in 1..Len(shu) : i <= j =>
           /\ Stretch(shu[i].min_time, shu[j].min_time) = SubSeq(stream, p[i], p[j] - 1)
           /\ Len(Stretch(shu[i].min_time, shu[j].min_time)) = p[j] - p[i]
  <2>1. InstancesStand("univ", shu, p)
    BY <1>1, InstanceFacts
  <2> QED
    BY <2>1 DEF InstancesStand
<1>6. ASSUME NEW i \in DOMAIN shu
      PROVE  shu[i].samples = Since(shu[i].min_time) /\ shu[i].bucket_size = Len(shu[i].samples)
  <2>1. IsFedWith(shu[i], SubSeq(stream, p[i], L))
    BY <1>5 DEF InstanceIs
  <2> QED
    BY <1>5, <2>1 DEF IsFedWith, IsUnivOf
<1>7. ASSUME NEW i \in DOMAIN shcs PROVE shcs[i].bucketsize = Len(Since(shcs[i].min_time)) - 1
  <2>1. /\ q[i] \in 1..L /\ Len(Since(shcs[i].min_time)) = L - q[i] + 1
        /\ InstanceIs("cs", stream, shcs[i], q[i])
    <3>1. InstancesStand("cs", shcs, q)
      BY <1>2, InstanceFacts
    <3> QED
      BY <3>1 DEF InstancesStand
  <2>2. shcs[i].bucketsize = L - q[i]
    BY <2>1 DEF InstanceIs
  <2> QED
    BY <1>4, <2>1, <2>2
<1>8. ASSUME NEW i \in DOMAIN shc PROVE shc[i].count = Len(Since(shc[i].min_time))
  <2>1. /\ Len(Since(shc[i].min_time)) = L - r[i] + 1
        /\ InstanceIs("count", stream, shc[i], r[i])
    <3>1. InstancesStand("count", shc, r)
      BY <1>3, InstanceFacts
    <3> QED
      BY <3>1 DEF InstancesStand
  <2> QED
    BY <2>1 DEF InstanceIs
<1>9. ASSUME NEW i \in 1..Len(shu) - 1 PROVE shu[i].min_time < shu[i + 1].min_time
  <2>1. i \in 1..Len(shu) /\ i + 1 \in 1..Len(shu) /\ i < i + 1
    BY <1>5
  <2> QED
    BY <1>5, <2>1
<1>10. ASSUME NEW i \in DOMAIN stream, SmoothCountCover(stream[i].t, Newest)
       PROVE  shc[1].count >= Len(Since(stream[i].t))
  <2>1. shc # <<>> /\ shc[1].min_time <= stream[i].t
    BY <1>10 DEF SmoothCountCover
  <2>2. 1 \in 1..Len(shc) /\ 1 \in DOMAIN shc
    <3>1. IsSeq(shc)
      BY <1>3 DEF SmoothIs
    <3>2. Len(shc) # 0
      BY <2>1, <3>1, EmptySeq DEF IsSeq
    <3>3. Len(shc) \in Nat /\ DOMAIN shc = 1..Len(shc)
      BY <3>1, SeqFacts
    <3> QED
      BY <3>2, <3>3
  <2>3. /\ r[1] \in 1..L /\ shc[1].min_time = stream[r[1]].t
        /\ InstanceIs("count", stream, shc[1], r[1])
    <3>1. InstancesStand("count", shc, r)
      BY <1>3, InstanceFacts
    <3> QED
      BY <2>2, <3>1 DEF InstancesStand
  <2>4. shc[1].count = L - r[1] + 1
    BY <2>3 DEF InstanceIs
  <2>5. i \in 1..L
    BY <1>4
  <2>6. ~(i < r[1])
    <3> SUFFICES ASSUME i < r[1] PROVE FALSE
      OBVIOUS
    <3>1. stream[i].t < stream[r[1]].t
      BY <2>3, <2>5, BeforeIs
    <3>2. stream[i].t \in Int /\ stream[r[1]].t \in Int
      BY <2>3, <2>5, OrderedFacts
    <3> QED
      BY <2>1, <2>3, <3>1, <3>2
  <2>7. Len(Since(stream[i].t)) = L - i + 1
    <3>1. Since(stream[i].t) = SubSeq(stream, i, L)
      BY <2>5, StretchIs
    <3>2. i \in i..L
      BY <1>4, <2>5
    <3> QED
      BY <1>4, <2>5, <3>1, <3>2, PartsJoin
  <2> QED
    BY <1>4, <2>3, <2>4, <2>5, <2>6, <2>7
<1>11. ASSUME NEW i \in {Len(stream) - 1, Len(stream)} \cap Nat, i > 0,
              Newest - stream[i].t < SmoothWindow
       PROVE  /\ \E j \in DOMAIN shu : shu[j].min_time = stream[i].t
              /\ \E j \in DOMAIN shcs : shcs[j].min_time = stream[i].t
              /\ \E j \in DOMAIN shc : shc[j].min_time = stream[i].t
  BY <1>11, YoungHasInstance DEF SmoothInv
<1>12. ASSUME TwoRowsApart, NEW i \in 1..Len(shu) - 1
       PROVE  \/ Len(Stretch(shu[i].min_time, shu[i + 1].min_time)) = 1
              \/ LightBetween(shu[i].min_time, shu[i + 1].min_time)
  <2>1. i \in 1..Len(shu) /\ i + 1 \in 1..Len(shu) /\ i <= i + 1
    BY <1>5
  <2>2. /\ Since(shu[i].min_time) = SubSeq(stream, p[i], L)
        /\ Stretch(shu[i].min_time, shu[i + 1].min_time) = SubSeq(stream, p[i], p[i + 1] - 1)
        /\ Len(Stretch(shu[i].min_time, shu[i + 1].min_time)) = p[i + 1] - p[i]
        /\ p[i] \in 1..L
    BY <1>5, <2>1
  <2>3. Neighbours(stream, p[i], p[i + 1])
    BY <1>1, <1>12 DEF SmoothIs
  <2>4. CASE p[i + 1] = p[i] + 1
    BY <1>4, <2>2, <2>4
  <2>5. CASE LightPart(stream, p[i], p[i + 1])
    BY <2>2, <2>5 DEF LightPart, LightBetween, L22
  <2> QED
    BY <2>3, <2>4, <2>5 DEF Neighbours
<1> QED
  BY <1>6, <1>7, <1>8, <1>9, <1>10, <1>11, <1>12 DEF SmoothInstancesAreSuffixes

-----------------------------------------------------------------------------
(* Smooth histograms: what queries find *)

\* A distance is a number.
LEMMA DistanceIs ==
  ASSUME NEW a \in Int, NEW b \in Int
  PROVE  Distance(a, b) \in Nat
BY DEF Distance

\* There is a first one among the nearest.
LEMMA NearestIs ==
  ASSUME NEW b, Len(b) \in Nat, DOMAIN b = 1..Len(b), Len(b) > 0,
         \A i \in 1..Len(b) : b[i].min_time \in Int, NEW age \in Int, NEW t \in Int
  PROVE  LET i == Nearest(b, age, t)
             d(n) == Distance(t - b[n].min_time, age)
         IN  /\ i \in 1..Len(b)
             /\ \A j \in 1..Len(b) : d(i) <= d(j) /\ (j < i => d(i) < d(j))
<1> DEFINE d(n) == Distance(t - b[n].min_time, age)
           Ds == {d(n) : n \in 1..Len(b)}
<1>1. \A n \in 1..Len(b) : d(n) \in Nat
  <2> SUFFICES ASSUME NEW n \in 1..Len(b) PROVE d(n) \in Nat
    OBVIOUS
  <2>1. t - b[n].min_time \in Int
    OBVIOUS
  <2> QED
    BY <2>1, DistanceIs
<1>2. PICK x \in Ds : \A y \in Ds : x <= y
  <2>1. Ds \in SUBSET Nat /\ d(1) \in Ds
    BY <1>1
  <2> HIDE DEF Ds
  <2> QED
    BY <2>1, SmallestNat
<1> DEFINE First == {n \in 1..Len(b) : d(n) = x}
<1>3. PICK i \in First : \A j \in First : i <= j
  <2>1. First \in SUBSET Nat /\ First # {}
    BY <1>2
  <2> HIDE DEF First
  <2> QED
    BY <2>1, SmallestNat
<1>4. i \in 1..Len(b) /\ d(i) = x
  BY <1>3
<1>5. ASSUME NEW j \in 1..Len(b) PROVE d(i) <= d(j) /\ (j < i => d(i) < d(j))
  <2>1. x <= d(j) /\ d(j) \in Nat /\ x \in Nat
    BY <1>1, <1>2
  <2>2. j < i => d(j) # x
    <3> SUFFICES ASSUME j < i, d(j) = x PROVE FALSE
      OBVIOUS
    <3>1. j \in First
      OBVIOUS
    <3>2. i <= j
      BY <1>3, <3>1
    <3> QED
      BY <1>4, <3>2
  <2> HIDE DEF d
  <2> QED
    BY <1>4, <2>1, <2>2
<1>6. Nearest(b, age, t) = CHOOSE n \in DOMAIN b :
                             \A j \in DOMAIN b : d(n) <= d(j) /\ (j < n => d(n) < d(j))
  BY DEF Nearest
<1> HIDE DEF d, First, Ds
<1>7. LET n == Nearest(b, age, t)
      IN  n \in DOMAIN b /\ \A j \in DOMAIN b : d(n) <= d(j) /\ (j < n => d(n) < d(j))
  BY <1>4, <1>5, <1>6
<1> QED
  BY <1>7 DEF d

\* The older age finds the older instance.
LEMMA NearestInOrder ==
  ASSUME NEW b, Len(b) \in Nat, DOMAIN b = 1..Len(b), Len(b) > 0,
         \A i \in 1..Len(b) : b[i].min_time \in Int,
         \A i, j \in 1..Len(b) : i < j => b[i].min_time < b[j].min_time,
         NEW older \in Int, NEW younger \in Int, younger < older, NEW t \in Int
  PROVE  /\ Nearest(b, older, t) \in 1..Len(b) /\ Nearest(b, younger, t) \in 1..Len(b)
         /\ Nearest(b, older, t) <= Nearest(b, younger, t)
<1> DEFINE m == Nearest(b, older, t)
           n == Nearest(b, younger, t)
           x == t - b[m].min_time
           y == t - b[n].min_time
<1>1. /\ m \in 1..Len(b) /\ n \in 1..Len(b)
      /\ n < m => Distance(x, older) < Distance(y, older)
      /\ Distance(y, younger) <= Distance(x, younger)
  <2>1. /\ m \in 1..Len(b)
        /\ \A j \in 1..Len(b) : j < m =>
             Distance(t - b[m].min_time, older) < Distance(t - b[j].min_time, older)
    BY NearestIs
  <2>2. /\ n \in 1..Len(b)
        /\ \A j \in 1..Len(b) :
             Distance(t - b[n].min_time, younger) <= Distance(t - b[j].min_time, younger)
    BY NearestIs
  <2> HIDE DEF m, n
  <2> QED
    BY <2>1, <2>2
<1> HIDE DEF m, n
<1>2. /\ x \in Int /\ y \in Int /\ m \in Int /\ n \in Int
      /\ n < m => x < y
  <2>1. b[m].min_time \in Int /\ b[n].min_time \in Int /\ (n < m => b[n].min_time < b[m].min_time)
    BY <1>1
  <2> QED
    BY <1>1, <2>1
<1> HIDE DEF x, y
<1>3. ~(n < m)
  <2> SUFFICES ASSUME n < m PROVE FALSE
    OBVIOUS
  <2>1. Distance(x, older) < Distance(y, older) /\ x < y
    BY <1>1, <1>2
  <2> QED
    BY <1>1, <1>2, <2>1 DEF Distance
<1> QED
  BY <1>1, <1>2, <1>3 DEF m, n

\* What is subtracted is younger, if there is such an instance.
LEMMA SubtractedIs ==
  ASSUME NEW b, Len(b) \in Nat, NEW from \in 1..Len(b), NEW near \in from..Len(b),
         NEW t2, NEW t
  PROVE  Subtracted(b, from, near, t2, t) \in from + 1..Len(b) + 2
         /\ (Subtracted(b, from, near, t2, t) > Len(b) => near >= Len(b) - 1)
<1> DEFINE to == IF from = near THEN near + 1 ELSE near
<1>1. to \in from + 1..Len(b) + 1 /\ to \in Nat /\ (to >= Len(b) => near >= Len(b) - 1)
  OBVIOUS
<1>2. Subtracted(b, from, near, t2, t) \in {to, to + 1}
      /\ (Subtracted(b, from, near, t2, t) # to => to = Len(b))
  BY DEF Subtracted
<1> HIDE DEF to
<1> QED
  BY <1>1, <1>2

-----------------------------------------------------------------------------
(* Smooth histograms: what answers are made of *)

\* What is left when the counters of the younger are taken from those of the older.
LEMMA MinusCounts ==
  ASSUME NEW a, NEW b, "count" \in DOMAIN a, NEW p \in Seq(Samples), NEW q \in Seq(Samples),
         Counted(a, p \o q), Counted(b, q)
  PROVE  Counted(Minus(a, b), p)
<1> DEFINE cs == Minus(a, b)
<1>1. /\ a.count \in [Rows -> [0..Cols - 1 -> Int]]
      /\ b.count \in [Rows -> [0..Cols - 1 -> Int]]
  BY DEF Counted
<1>2. cs.count = [r \in Rows |-> [c \in DOMAIN a.count[r] |-> a.count[r][c] - b.count[r][c]]]
  BY DEF Minus
<1> HIDE DEF cs
<1>3. ASSUME NEW r \in Rows
      PROVE  /\ cs.count[r] = [c \in 0..Cols - 1 |-> a.count[r][c] - b.count[r][c]]
             /\ cs.count[r] \in [0..Cols - 1 -> Int]
  <2>1. a.count[r] \in [0..Cols - 1 -> Int] /\ b.count[r] \in [0..Cols - 1 -> Int]
    BY <1>1
  <2>2. DOMAIN a.count[r] = 0..Cols - 1
    BY <2>1
  <2>3. cs.count[r] = [c \in 0..Cols - 1 |-> a.count[r][c] - b.count[r][c]]
    BY <1>2, <2>2
  <2>4. ASSUME NEW c \in 0..Cols - 1 PROVE a.count[r][c] - b.count[r][c] \in Int
    <3>1. a.count[r][c] \in Int /\ b.count[r][c] \in Int
      BY <2>1
    <3> QED
      BY <3>1
  <2> DEFINE diff == [c \in 0..Cols - 1 |-> a.count[r][c] - b.count[r][c]]
  <2>5. diff \in [0..Cols - 1 -> Int]
    BY <2>4
  <2> QED
    BY <2>3, <2>5
<1>4. cs.count \in [Rows -> [0..Cols - 1 -> Int]]
  <2>1. cs.count = [r \in Rows |-> cs.count[r]]
    BY <1>2
  <2> QED
    BY <1>3, <2>1
<1>5. ASSUME NEW key \in Keys, NEW r \in CleanRows(key)
      PROVE  Cell(cs, r, key) = Sign[key][r] * HowMany(p, key)
  <2>1. r \in Rows
    BY CleanRowsAre
  <2>2. Position[key][r] \in 0..Cols - 1 /\ Sign[key][r] \in {1, -1}
    BY <2>1, PositionIn
  <2>3. HowMany(p \o q, key) = HowMany(p, key) + HowMany(q, key)
    BY HowManyBoth
  <2>4. HowMany(p, key) \in Nat /\ HowMany(q, key) \in Nat
    BY HowManyType
  <2>5. Cell(cs, r, key) = Cell(a, r, key) - Cell(b, r, key)
    BY <1>3, <2>1, <2>2 DEF Cell
  <2>6. /\ Cell(a, r, key) = Sign[key][r] * HowMany(p \o q, key)
        /\ Cell(b, r, key) = Sign[key][r] * HowMany(q, key)
    BY DEF Counted
  <2>7. CASE Sign[key][r] = 1
    BY <2>3, <2>4, <2>5, <2>6, <2>7
  <2>8. CASE Sign[key][r] = -1
    BY <2>3, <2>4, <2>5, <2>6, <2>8
  <2> QED
    BY <2>2, <2>7, <2>8
<1> QED
  BY <1>4, <1>5 DEF Counted, cs

\* The same for instances that began with the samples k and m.
LEMMA MinusIs ==
  ASSUME Ordered(stream), NEW k \in 1..Len(stream), NEW m \in k..Len(stream),
         NEW a, NEW b, "count" \in DOMAIN a,
         Counted(a, SubSeq(stream, k, Len(stream))), Counted(b, SubSeq(stream, m, Len(stream))),
         NEW key \in Keys, IsClean(key)
  PROVE  EstimateStringCount(Minus(a, b), key) = HowMany(SubSeq(stream, k, m - 1), key)
<1> DEFINE p == SubSeq(stream, k, m - 1)
           q == SubSeq(stream, m, Len(stream))
<1>1. stream \in Seq(Samples)
  BY OrderedFacts
<1>2. p \in Seq(Samples) /\ q \in Seq(Samples) /\ SubSeq(stream, k, Len(stream)) = p \o q
  BY <1>1, PartsJoin
<1> HIDE DEF p
<1>3. Counted(a, p \o q) /\ Counted(b, q)
  BY <1>2
<1> HIDE DEF q
<1>4. Counted(Minus(a, b), p)
  BY <1>2, <1>3, MinusCounts
<1>5. EstimateStringCount(Minus(a, b), key) = HowMany(p, key)
  BY <1>2, <1>4, CleanIsExact
<1> QED
  BY <1>5 DEF p

\* The instances that two ages find.
LEMMA FoundIs ==
  ASSUME Ordered(stream), TimesDiffer, NEW kind, NEW b, NEW p, SmoothIs(kind, stream, b, p),
         Len(b) > 0, NEW t1 \in Int, NEW t2 \in Int, t1 < t2, NEW t \in Int
  PROVE  /\ Len(b) \in Nat /\ b # <<>>
         /\ Nearest(b, t2, t) \in 1..Len(b) /\ Nearest(b, t1, t) \in Nearest(b, t2, t)..Len(b)
<1>1. /\ Len(b) \in Nat /\ DOMAIN b = 1..Len(b)
      /\ \A i \in 1..Len(b) : b[i].min_time \in Int
      /\ \A i, j \in 1..Len(b) : i < j => b[i].min_time < b[j].min_time
  <2>1. InstancesStand(kind, b, p)
    BY InstanceFacts
  <2> QED
    BY <2>1 DEF InstancesStand
<1>2. /\ Nearest(b, t2, t) \in 1..Len(b) /\ Nearest(b, t1, t) \in 1..Len(b)
      /\ Nearest(b, t2, t) <= Nearest(b, t1, t)
  BY <1>1, NearestInOrder
<1>3. b # <<>>
  BY <1>1
<1> QED
  BY <1>1, <1>2, <1>3

\* What a universal answer estimates.
EstimateIs(u, key) ==
  EstimateStringCount(u.cs_layers[0], key) \in
    {HowMany(Stretch(u.min_time, u.max_time), key)}
      \cup (IF u.max_time = Newest THEN {HowMany(Since(u.min_time), key)} ELSE {})

\* The estimates of a universal answer are those of the samples it is for.
LEMMA UnivAnswerIs ==
  ASSUME Ordered(stream), TimesDiffer, NEW p, SmoothIs("univ", stream, shu, p), Len(shu) > 0,
         NEW t1 \in Int, NEW t2 \in Int, t1 < t2, NEW t \in Int, NEW key \in Keys, IsClean(key)
  PROVE  EstimateIs(QuerySmoothUniv(t1, t2, t), key)
<1> DEFINE from == Nearest(shu, t2, t)
           near == Nearest(shu, t1, t)
           to == Subtracted(shu, from, near, t2, t)
           u == QuerySmoothUniv(t1, t2, t)
           L == Len(stream)
<1>1. Len(shu) \in Nat /\ shu # <<>> /\ from \in 1..Len(shu) /\ near \in from..Len(shu)
  BY FoundIs
<1> HIDE DEF from, near
<1>2. to \in from + 1..Len(shu) + 2
  BY <1>1, SubtractedIs
<1> HIDE DEF to
<1>3. 0 \in LayerSet
  BY UnivSketchAssumption DEF LayerSet
<1>4. L \in Nat /\ stream \in Seq(Samples)
  BY OrderedFacts
<1>5. /\ \A i \in 1..Len(shu) :
           /\ p[i] \in 1..L /\ shu[i].max_time = Newest
           /\ Since(shu[i].min_time) = SubSeq(stream, p[i], L)
           /\ InstanceIs("univ", stream, shu[i], p[i])
      /\ \A i, j \in 1..Len(shu) : i < j => p[i] < p[j]
      /\ \A i, j \in 1..Len(shu) : i <= j =>
           /\ Stretch(shu[i].min_time, shu[j].min_time) = SubSeq(stream, p[i], p[j] - 1)
           /\ Len(Stretch(shu[i].min_time, shu[j].min_time)) = p[j] - p[i]
  <2>1. InstancesStand("univ", shu, p)
    BY InstanceFacts
  <2> QED
    BY <2>1 DEF InstancesStand
<1>6. ASSUME NEW i \in 1..Len(shu)
      PROVE  /\ p[i] \in 1..L /\ shu[i].max_time = Newest
             /\ Since(shu[i].min_time) = SubSeq(stream, p[i], L)
             /\ "count" \in DOMAIN shu[i].cs_layers[0]
             /\ Counted(shu[i].cs_layers[0], SubSeq(stream, p[i], L))
  <2>1. /\ p[i] \in 1..L /\ shu[i].max_time = Newest
        /\ Since(shu[i].min_time) = SubSeq(stream, p[i], L)
        /\ InstanceIs("univ", stream, shu[i], p[i])
    BY <1>5
  <2>2. IsFedWith(shu[i], SubSeq(stream, p[i], L))
    BY <2>1 DEF InstanceIs
  <2> QED
    BY <2>1, <2>2 DEF IsFedWith
<1>7. CASE to > Len(shu)
  <2>1. /\ u.cs_layers = shu[from].cs_layers /\ u.min_time = shu[from].min_time
        /\ u.max_time = shu[from].max_time
    BY <1>1, <1>7 DEF QuerySmoothUniv, from, near, to
  <2>2. SubSeq(stream, p[from], L) \in Seq(Samples)
    <3>1. p[from] \in 1..L /\ p[from] \in p[from]..L
      BY <1>1, <1>4, <1>6
    <3> QED
      BY <1>4, <3>1, PartsJoin
  <2>3. EstimateStringCount(shu[from].cs_layers[0], key) = HowMany(SubSeq(stream, p[from], L), key)
    BY <1>1, <1>6, <2>2, CleanIsExact
  <2> HIDE DEF u
  <2>4. /\ EstimateStringCount(u.cs_layers[0], key) = HowMany(Since(u.min_time), key)
        /\ u.max_time = Newest
    BY <1>1, <1>6, <2>1, <2>3
  <2>5. EstimateIs(u, key)
    BY <2>4 DEF EstimateIs
  <2> QED
    BY <2>5 DEF u
<1>8. CASE ~(to > Len(shu))
  <2>1. to \in 1..Len(shu) /\ from < to
    BY <1>1, <1>2, <1>8
  <2>2. /\ u.cs_layers[0] = Minus(shu[from].cs_layers[0], shu[to].cs_layers[0])
        /\ u.min_time = shu[from].min_time /\ u.max_time = shu[to].min_time
    BY <1>1, <1>3, <1>8 DEF QuerySmoothUniv, from, near, to
  <2>3. Stretch(shu[from].min_time, shu[to].min_time) = SubSeq(stream, p[from], p[to] - 1)
        /\ p[from] < p[to]
    <3>1. from \in 1..Len(shu) /\ to \in 1..Len(shu) /\ from < to /\ from <= to
      BY <1>1, <2>1
    <3> QED
      BY <1>5, <3>1
  <2>4. p[from] \in 1..L /\ p[to] \in p[from]..L
    BY <1>1, <1>4, <1>6, <2>1, <2>3
  <2>5. EstimateStringCount(Minus(shu[from].cs_layers[0], shu[to].cs_layers[0]), key)
          = HowMany(SubSeq(stream, p[from], p[to] - 1), key)
    <3> DEFINE a == shu[from].cs_layers[0]
               b == shu[to].cs_layers[0]
    <3>1. /\ "count" \in DOMAIN a /\ Counted(a, SubSeq(stream, p[from], L))
          /\ Counted(b, SubSeq(stream, p[to], L))
      BY <1>1, <1>6, <2>1
    <3> HIDE DEF a, b
    <3>2. EstimateStringCount(Minus(a, b), key) = HowMany(SubSeq(stream, p[from], p[to] - 1), key)
      BY <2>4, <3>1, MinusIs
    <3> QED
      BY <3>2 DEF a, b
  <2> HIDE DEF u
  <2>6. EstimateStringCount(u.cs_layers[0], key) = HowMany(Stretch(u.min_time, u.max_time), key)
    BY <2>2, <2>3, <2>5
  <2>7. EstimateIs(u, key)
    BY <2>6 DEF EstimateIs
  <2> QED
    BY <2>7 DEF u
<1> QED
  BY <1>7, <1>8

\* The same for a count sketch, which panics where there is none to subtract.
LEMMA CSAnswerIs ==
  ASSUME Ordered(stream), TimesDiffer, NEW p, SmoothIs("cs", stream, shcs, p), Len(shcs) > 0,
         NEW t1 \in Int, NEW t2 \in Int, t1 < t2, NEW t \in Int
  PROVE  LET c == QueryIntervalMergeSmoothCS(t2, t1, t)
         IN  /\ c.kind = "sketch" =>
                  /\ c.bucketsize = Len(Stretch(c.min_time, c.max_time))
                  /\ \A key \in Keys : IsClean(key) =>
                       EstimateStringCount(c.cs, key) = HowMany(Stretch(c.min_time, c.max_time), key)
             /\ c.kind = "panic" => Nearest(shcs, t1, t) >= Len(shcs) - 1
<1> DEFINE from == Nearest(shcs, t2, t)
           near == Nearest(shcs, t1, t)
           to == Subtracted(shcs, from, near, t1, t)
           c == QueryIntervalMergeSmoothCS(t2, t1, t)
           L == Len(stream)
<1>1. Len(shcs) \in Nat /\ shcs # <<>> /\ from \in 1..Len(shcs) /\ near \in from..Len(shcs)
  BY FoundIs
<1> HIDE DEF from, near
<1>2. to \in from + 1..Len(shcs) + 2 /\ (to > Len(shcs) => near >= Len(shcs) - 1)
  BY <1>1, SubtractedIs
<1> HIDE DEF to
<1>3. L \in Nat /\ stream \in Seq(Samples)
  BY OrderedFacts
<1>4. /\ \A i \in 1..Len(shcs) :
           /\ p[i] \in 1..L /\ shcs[i].max_time = Newest
           /\ Since(shcs[i].min_time) = SubSeq(stream, p[i], L)
           /\ InstanceIs("cs", stream, shcs[i], p[i])
      /\ \A i, j \in 1..Len(shcs) : i < j => p[i] < p[j]
      /\ \A i, j \in 1..Len(shcs) : i <= j =>
           /\ Stretch(shcs[i].min_time, shcs[j].min_time) = SubSeq(stream, p[i], p[j] - 1)
           /\ Len(Stretch(shcs[i].min_time, shcs[j].min_time)) = p[j] - p[i]
  <2>1. InstancesStand("cs", shcs, p)
    BY InstanceFacts
  <2> QED
    BY <2>1 DEF InstancesStand
<1>5. ASSUME NEW i \in 1..Len(shcs)
      PROVE  /\ p[i] \in 1..L /\ shcs[i].bucketsize = L - p[i]
             /\ "count" \in DOMAIN shcs[i].cs
             /\ Counted(shcs[i].cs, SubSeq(stream, p[i], L))
  <2>1. p[i] \in 1..L /\ InstanceIs("cs", stream, shcs[i], p[i])
    BY <1>4
  <2> QED
    BY <2>1 DEF InstanceIs
<1>6. CASE to > Len(shcs)
  <2>1. c.kind = "panic"
    BY <1>1, <1>6 DEF QueryIntervalMergeSmoothCS, from, near, to
  <2> HIDE DEF c
  <2>2. c.kind # "sketch" /\ near >= Len(shcs) - 1
    BY <1>2, <1>6, <2>1
  <2> QED
    BY <2>2 DEF c, near
<1>7. CASE ~(to > Len(shcs))
  <2>1. to \in 1..Len(shcs) /\ from < to
    BY <1>1, <1>2, <1>7
  <2>2. /\ c.kind = "sketch" /\ c.cs = Minus(shcs[from].cs, shcs[to].cs)
        /\ c.bucketsize = shcs[from].bucketsize - shcs[to].bucketsize
        /\ c.min_time = shcs[from].min_time /\ c.max_time = shcs[to].min_time
    BY <1>1, <1>7 DEF QueryIntervalMergeSmoothCS, from, near, to
  <2>3. /\ Stretch(shcs[from].min_time, shcs[to].min_time) = SubSeq(stream, p[from], p[to] - 1)
        /\ Len(Stretch(shcs[from].min_time, shcs[to].min_time)) = p[to] - p[from]
        /\ p[from] < p[to]
    <3>1. from \in 1..Len(shcs) /\ to \in 1..Len(shcs) /\ from < to /\ from <= to
      BY <1>1, <2>1
    <3> QED
      BY <1>4, <3>1
  <2>4. p[from] \in 1..L /\ p[to] \in p[from]..L
    BY <1>1, <1>3, <1>5, <2>1, <2>3
  <2> HIDE DEF c
  <2>5. ASSUME NEW key \in Keys, IsClean(key)
        PROVE  EstimateStringCount(c.cs, key) = HowMany(Stretch(c.min_time, c.max_time), key)
    <3> DEFINE a == shcs[from].cs
               b == shcs[to].cs
    <3>1. /\ "count" \in DOMAIN a /\ Counted(a, SubSeq(stream, p[from], L))
          /\ Counted(b, SubSeq(stream, p[to], L))
      BY <1>1, <1>5, <2>1
    <3> HIDE DEF a, b
    <3>2. EstimateStringCount(Minus(a, b), key) = HowMany(SubSeq(stream, p[from], p[to] - 1), key)
      BY <2>4, <2>5, <3>1, MinusIs
    <3>3. EstimateStringCount(Minus(shcs[from].cs, shcs[to].cs), key)
            = HowMany(SubSeq(stream, p[from], p[to] - 1), key)
      BY <3>2 DEF a, b
    <3> QED
      BY <2>2, <2>3, <3>3
  <2>6. c.bucketsize = Len(Stretch(c.min_time, c.max_time))
    <3>1. shcs[from].bucketsize = L - p[from] /\ shcs[to].bucketsize = L - p[to]
      BY <1>1, <1>5, <2>1
    <3>2. (L - p[from]) - (L - p[to]) = p[to] - p[from]
      BY <1>3, <2>4
    <3> QED
      BY <2>2, <2>3, <3>1, <3>2
  <2>7. c.kind # "panic"
    BY <2>2
  <2> QED
    BY <2>5, <2>6, <2>7 DEF c
<1> QED
  BY <1>6, <1>7

\* Counts and sums are those of the samples between the two starts.
LEMMA CountAnswerIs ==
  ASSUME Ordered(stream), TimesDiffer, NEW p, SmoothIs("count", stream, shc, p), Len(shc) > 0,
         \A n \in 1..Len(stream) : stream[n].v \in Int,
         NEW t1 \in Int, NEW t2 \in Int, t1 < t2, NEW t \in Int
  PROVE  LET part == Stretch(shc[Nearest(shc, t2, t)].min_time, shc[Nearest(shc, t1, t)].min_time)
         IN  /\ QueryT1T2IntervalCount(t1, t2, t) = Len(part)
             /\ QueryT1T2IntervalSum(t2, t1, t) = ValueSum(part)
<1> DEFINE m == Nearest(shc, t2, t)
           n == Nearest(shc, t1, t)
           L == Len(stream)
           part == SubSeq(stream, p[m], p[n] - 1)
<1>1. shc # <<>> /\ m \in 1..Len(shc) /\ n \in 1..Len(shc) /\ m <= n
  <2>1. Len(shc) \in Nat /\ shc # <<>> /\ m \in 1..Len(shc) /\ n \in m..Len(shc)
    BY FoundIs
  <2> HIDE DEF m, n
  <2> QED
    BY <2>1
<1>2. /\ QueryT1T2IntervalCount(t1, t2, t) = shc[m].count - shc[n].count
      /\ QueryT1T2IntervalSum(t2, t1, t) = shc[m].sum - shc[n].sum
  BY <1>1 DEF QueryT1T2IntervalCount, QueryT1T2IntervalSum
<1> HIDE DEF m, n
<1>3. L \in Nat /\ stream \in Seq(Samples)
  BY OrderedFacts
<1>4. /\ \A i \in 1..Len(shc) :
           /\ p[i] \in 1..L /\ shc[i].max_time = Newest
           /\ Since(shc[i].min_time) = SubSeq(stream, p[i], L)
           /\ InstanceIs("count", stream, shc[i], p[i])
      /\ \A i, j \in 1..Len(shc) : i < j => p[i] < p[j]
      /\ \A i, j \in 1..Len(shc) : i <= j =>
           /\ Stretch(shc[i].min_time, shc[j].min_time) = SubSeq(stream, p[i], p[j] - 1)
           /\ Len(Stretch(shc[i].min_time, shc[j].min_time)) = p[j] - p[i]
  <2>1. InstancesStand("count", shc, p)
    BY InstanceFacts
  <2> QED
    BY <2>1 DEF InstancesStand
<1>5. ASSUME NEW i \in 1..Len(shc)
      PROVE  /\ p[i] \in 1..L /\ shc[i].count = L - p[i] + 1
             /\ shc[i].sum = ValueSum(SubSeq(stream, p[i], L))
  <2>1. p[i] \in 1..L /\ InstanceIs("count", stream, shc[i], p[i])
    BY <1>4
  <2> QED
    BY <2>1 DEF InstanceIs
<1>6. /\ Stretch(shc[m].min_time, shc[n].min_time) = part
      /\ Len(part) = p[n] - p[m]
  <2>1. /\ Stretch(shc[m].min_time, shc[n].min_time) = part
        /\ Len(Stretch(shc[m].min_time, shc[n].min_time)) = p[n] - p[m]
    BY <1>1, <1>4
  <2> QED
    BY <2>1
<1>7. p[m] \in 1..L /\ p[n] \in p[m]..L
  <2>1. p[m] \in 1..L /\ p[n] \in 1..L
    BY <1>1, <1>5
  <2>2. m = n \/ p[m] < p[n]
    <3>1. Len(shc) \in Nat
      BY FoundIs
    <3>2. m = n \/ m < n
      BY <1>1, <3>1
    <3> QED
      BY <1>1, <1>4, <3>2
  <2> QED
    BY <1>3, <2>1, <2>2
<1>8. shc[m].count - shc[n].count = Len(part)
  <2>1. shc[m].count = L - p[m] + 1 /\ shc[n].count = L - p[n] + 1
    BY <1>1, <1>5
  <2>2. (L - p[m] + 1) - (L - p[n] + 1) = p[n] - p[m]
    BY <1>3, <1>7
  <2> QED
    BY <1>6, <2>1, <2>2
<1>9. PICK e : Sums(stream, e)
  BY <1>3, SumsExist
<1>10. ASSUME NEW k \in 1..L, NEW hi \in k - 1..L
      PROVE  ValueSum(SubSeq(stream, k, hi)) = e[hi] - e[k - 1] /\ e[hi] \in Int /\ e[k - 1] \in Int
  <2>1. k - 1 \in 0..L /\ (k - 1) + 1 = k /\ hi \in 0..L
    BY <1>3
  <2>2. ValueSum(SubSeq(stream, (k - 1) + 1, hi)) = e[hi] - e[k - 1]
    BY <1>3, <1>9, <2>1, ValueSumIs
  <2>3. e[hi] \in Int /\ e[k - 1] \in Int
    BY <1>9, <2>1 DEF Sums
  <2> QED
    BY <2>1, <2>2, <2>3
<1>11. shc[m].sum - shc[n].sum = ValueSum(part)
  <2>1. /\ L \in p[m] - 1..L /\ L \in p[n] - 1..L /\ p[n] - 1 \in p[m] - 1..L
        /\ p[m] \in 1..L /\ p[n] \in 1..L
    BY <1>3, <1>7
  <2>2. /\ ValueSum(SubSeq(stream, p[m], L)) = e[L] - e[p[m] - 1]
        /\ e[L] \in Int /\ e[p[m] - 1] \in Int
    BY <1>10, <2>1
  <2>3. ValueSum(SubSeq(stream, p[n], L)) = e[L] - e[p[n] - 1] /\ e[p[n] - 1] \in Int
    BY <1>10, <2>1
  <2>4. ValueSum(part) = e[p[n] - 1] - e[p[m] - 1]
    BY <1>10, <2>1
  <2>5. /\ shc[m].sum = ValueSum(SubSeq(stream, p[m], L))
        /\ shc[n].sum = ValueSum(SubSeq(stream, p[n], L))
    BY <1>1, <1>5
  <2>6. \A x, y, z \in Int : (x - y) - (x - z) = z - y
    OBVIOUS
  <2>7. (e[L] - e[p[m] - 1]) - (e[L] - e[p[n] - 1]) = e[p[n] - 1] - e[p[m] - 1]
    BY <2>2, <2>3, <2>6
  <2> HIDE DEF part
  <2>8. shc[m].sum = e[L] - e[p[m] - 1] /\ shc[n].sum = e[L] - e[p[n] - 1]
    BY <2>2, <2>3, <2>5
  <2> QED
    BY <2>4, <2>7, <2>8
<1> QED
  BY <1>2, <1>6, <1>8, <1>11 DEF m, n

\* By the invariant answers are made of the samples between two starts.
LEMMA AnswersAreRight ==
  ASSUME Ordered(stream), SmoothInv, TimesDiffer
  PROVE  SmoothAnswersAreDifferences
<1> SUFFICES ASSUME stream # <<>>, NEW t1 \in 0..SmoothWindow, NEW t2 \in 0..SmoothWindow,
                    NEW t \in {Newest, Newest + 2}, t1 < t2
             PROVE  LET u == QuerySmoothUniv(t1, t2, t)
                        c == QueryIntervalMergeSmoothCS(t2, t1, t)
                        Between(x) == Stretch(x.min_time, x.max_time)
                    IN /\ \A key \in Keys : IsClean(key) =>
                            /\ EstimateStringCount(u.cs_layers[0], key) \in
                                 {HowMany(Between(u), key)}
                                   \cup (IF u.max_time = Newest
                                         THEN {HowMany(Since(u.min_time), key)} ELSE {})
                            /\ c.kind = "sketch" =>
                                 EstimateStringCount(c.cs, key) = HowMany(Between(c), key)
                       /\ c.kind = "sketch" => c.bucketsize = Len(Between(c))
                       /\ c.kind = "panic" => Nearest(shcs, t1, t) >= Len(shcs) - 1
                       /\ LET part == Stretch(shc[Nearest(shc, t2, t)].min_time,
                                              shc[Nearest(shc, t1, t)].min_time)
                          IN /\ QueryT1T2IntervalCount(t1, t2, t) = Len(part)
                             /\ QueryT1T2IntervalSum(t2, t1, t) = ValueSum(part)
  BY DEF SmoothAnswersAreDifferences
<1> DEFINE L == Len(stream)
<1>1. L \in Nat /\ L > 0 /\ Newest = stream[L].t /\ Newest \in Int
  <2>1. L \in Nat /\ stream \in Seq(Samples) /\ DOMAIN stream = 1..L
    BY OrderedFacts
  <2>2. L # 0
    BY <2>1
  <2>3. L \in 1..L
    BY <2>1, <2>2
  <2>4. stream[L].t \in Int
    BY <2>3, OrderedFacts
  <2> QED
    BY <2>1, <2>2, <2>4 DEF Newest
<1>2. t1 \in Int /\ t2 \in Int /\ t \in Int /\ SmoothWindow > 0
  BY <1>1, SmoothAssumption
<1>3. Newest - stream[L].t < SmoothWindow
  BY <1>1, <1>2
<1>4. ASSUME NEW kind, NEW b, SmoothSound(kind, stream, b)
      PROVE  \E p : SmoothIs(kind, stream, b, p) /\ Len(b) > 0
  <2>1. \E j \in DOMAIN b : b[j].min_time = stream[L].t
    BY <1>1, <1>3, <1>4, YoungHasInstance
  <2>2. PICK p : SmoothIs(kind, stream, b, p)
    BY <1>4 DEF SmoothSound
  <2>3. DOMAIN b = 1..Len(b) /\ Len(b) \in Nat
    BY <2>2, SeqFacts DEF SmoothIs
  <2>4. Len(b) > 0
    BY <2>1, <2>3
  <2> QED
    BY <2>2, <2>4
<1>5. PICK p : SmoothIs("univ", stream, shu, p) /\ Len(shu) > 0
  BY <1>4 DEF SmoothInv
<1>6. PICK q : SmoothIs("cs", stream, shcs, q) /\ Len(shcs) > 0
  BY <1>4 DEF SmoothInv
<1>7. PICK r : SmoothIs("count", stream, shc, r) /\ Len(shc) > 0
  BY <1>4 DEF SmoothInv
<1>8. ASSUME NEW key \in Keys, IsClean(key)
      PROVE  EstimateIs(QuerySmoothUniv(t1, t2, t), key)
  BY <1>2, <1>5, <1>8, UnivAnswerIs
<1>9. LET c == QueryIntervalMergeSmoothCS(t2, t1, t)
      IN  /\ c.kind = "sketch" =>
               /\ c.bucketsize = Len(Stretch(c.min_time, c.max_time))
               /\ \A key \in Keys : IsClean(key) =>
                    EstimateStringCount(c.cs, key) = HowMany(Stretch(c.min_time, c.max_time), key)
          /\ c.kind = "panic" => Nearest(shcs, t1, t) >= Len(shcs) - 1
  BY <1>2, <1>6, CSAnswerIs
<1>10. LET part == Stretch(shc[Nearest(shc, t2, t)].min_time, shc[Nearest(shc, t1, t)].min_time)
       IN  /\ QueryT1T2IntervalCount(t1, t2, t) = Len(part)
           /\ QueryT1T2IntervalSum(t2, t1, t) = ValueSum(part)
  <2>1. \A n \in 1..Len(stream) : stream[n].v \in Int
    BY DEF SmoothInv
  <2> QED
    BY <1>2, <1>7, <2>1, CountAnswerIs
<1> QED
  BY <1>8, <1>9, <1>10 DEF EstimateIs

-----------------------------------------------------------------------------
(* The specification *)

\* A behaviour is that of one structure; the others stay as they are.
SketchesInv ==
  /\ Ordered(stream)
  /\ structure = "ehuniv" => UnivInv
  /\ structure = "runs" => RunsInv
  /\ structure = "pooled" => PoolInv
  /\ structure = "smooth" => SmoothInv

\* The invariant holds at first, whatever the structure.
LEMMA SketchesAtFirst == Init => SketchesInv
<1> SUFFICES ASSUME Init PROVE SketchesInv
  OBVIOUS
<1>1. StreamInit /\ UnivInit /\ RunInit /\ PoolInit /\ SmoothInit
  BY DEF Init
<1>2. Ordered(stream)
  BY <1>1 DEF StreamInit, Ordered
<1>3. UnivInv /\ RunsInv /\ PoolInv /\ SmoothInv
  BY <1>1, UnivAtFirst, RunsAtFirst, PoolAtFirst, SmoothAtFirst
<1> QED
  BY <1>2, <1>3 DEF SketchesInv

\* Each step keeps it; an Update disturbs the part of its own structure only.
LEMMA SketchesKeep == SketchesInv /\ [Next]_vars => SketchesInv'
<1> SUFFICES ASSUME SketchesInv, [Next]_vars PROVE SketchesInv'
  OBVIOUS
<1>1. /\ Ordered(stream)
      /\ structure = "ehuniv" => UnivInv
      /\ structure = "runs" => RunsInv
      /\ structure = "pooled" => PoolInv
      /\ structure = "smooth" => SmoothInv
  BY DEF SketchesInv
<1> USE DEF runVars, pooledVars, smoothVars
\* What a step of another structure leaves alone.
<1>2. ASSUME UNCHANGED <<stream, structure, univVars, runVars, smoothVars>> PROVE
        /\ Ordered(stream)' /\ (structure = "ehuniv" => UnivInv)' /\ (structure = "runs" => RunsInv)'
        /\ (structure = "smooth" => SmoothInv)'
  <2>1. Ordered(stream)' /\ (structure = "ehuniv" => UnivInv)' /\ (structure = "runs" => RunsInv)'
    BY <1>1, <1>2 DEF univVars, UnivInv, RunsInv, Newest
  <2>2. (structure = "smooth" => SmoothInv)'
    BY <1>1, <1>2 DEF SmoothInv
  <2> QED
    BY <2>1, <2>2
<1>3. CASE Clean
  <2>1. PICK i \in toclean : putUnivSketch(i)
    BY <1>3 DEF Clean
  <2>2. UNCHANGED <<stream, structure, univVars, runVars, smoothVars>>
    BY <1>3 DEF Clean
  <2>3. (structure = "pooled" => PoolInv)'
    <3>1. stream' = stream /\ structure' = structure
      BY <2>2
    <3>2. PoolInv => PoolInv'
      BY <2>1, <3>1, CleanKeeps
    <3> QED
      BY <1>1, <3>1, <3>2
  <2> QED
    BY <1>2, <2>2, <2>3 DEF SketchesInv
<1>4. ASSUME NEW gap \in Gaps, NEW v \in StreamValues, Sample(Newest + gap, v)
      PROVE  Arrives(Newest + gap, v) /\ structure' = structure /\ Ordered(stream)'
  <2>1. Arrives(Newest + gap, v) /\ structure' = structure
    BY <1>4 DEF Sample
  <2>2. Ordered(stream')
    BY <1>1, <2>1, StreamGrows
  <2> QED
    BY <2>1, <2>2
<1>5. ASSUME NEW gap \in Gaps, NEW v \in StreamValues, SampleUniv(Newest + gap, v)
      PROVE  SketchesInv'
  <2>1. structure = "ehuniv" /\ Sample(Newest + gap, v) /\ UnivUpdate(Newest + gap, v)
    BY <1>5 DEF SampleUniv
  <2>2. Arrives(Newest + gap, v) /\ structure' = structure /\ Ordered(stream)'
    BY <1>4, <2>1
  <2>3. UnivInv'
    BY <1>1, <2>1, <2>2, UnivKeeps
  <2> QED
    BY <2>1, <2>2, <2>3 DEF SketchesInv
<1>6. ASSUME NEW gap \in Gaps, NEW v \in StreamValues, SampleRuns(Newest + gap, v)
      PROVE  SketchesInv'
  <2>1. structure = "runs" /\ Sample(Newest + gap, v) /\ RunUpdate(Newest + gap, v)
    BY <1>6 DEF SampleRuns
  <2>2. Arrives(Newest + gap, v) /\ structure' = structure /\ Ordered(stream)'
    BY <1>4, <2>1
  <2>3. RunsInv'
    BY <1>1, <2>1, <2>2, RunsKeep
  <2> QED
    BY <2>1, <2>2, <2>3 DEF SketchesInv
<1>7. ASSUME NEW gap \in Gaps, NEW v \in StreamValues, CallPooled(Newest + gap, v)
      PROVE  SketchesInv'
  <2>1. /\ PutExpired(Newest + gap, v)
        /\ UNCHANGED <<stream, structure, univVars, runVars, smoothVars>>
    BY <1>7 DEF CallPooled
  <2>2. (structure = "pooled" => PoolInv)'
    <3>1. stream' = stream /\ structure' = structure
      BY <2>1
    <3>2. PoolInv => PoolInv'
      BY <1>1, <2>1, <3>1, ExpiredKeep
    <3> QED
      BY <1>1, <3>1, <3>2
  <2> QED
    BY <1>2, <2>1, <2>2 DEF SketchesInv
<1>8. ASSUME NEW gap \in Gaps, NEW v \in StreamValues, SamplePooled(Newest + gap, v)
      PROVE  SketchesInv'
  <2>1. structure = "pooled" /\ Sample(Newest + gap, v) /\ AddUniv(Newest + gap, v)
    BY <1>8 DEF SamplePooled
  <2>2. Arrives(Newest + gap, v) /\ structure' = structure /\ Ordered(stream)'
    BY <1>4, <2>1
  <2>3. PoolInv'
    BY <1>1, <2>1, <2>2, PooledKeep
  <2> QED
    BY <2>1, <2>2, <2>3 DEF SketchesInv
<1>9. ASSUME NEW gap \in Gaps, NEW v \in StreamValues, SampleSmooth(Newest + gap, v)
      PROVE  SketchesInv'
  <2>1. structure = "smooth" /\ Sample(Newest + gap, v) /\ SmoothUpdate(Newest + gap, v)
    BY <1>9 DEF SampleSmooth
  <2>2. Arrives(Newest + gap, v) /\ structure' = structure /\ Ordered(stream)'
    BY <1>4, <2>1
  <2>3. SmoothInv'
    BY <1>1, <2>1, <2>2, SmoothKeeps
  <2> QED
    BY <2>1, <2>2, <2>3 DEF SketchesInv
<1>10. CASE UNCHANGED vars
  <2>1. UNCHANGED <<stream, structure, univVars, runVars, pooledVars, smoothVars>>
    BY <1>10 DEF vars
  <2>2. (structure = "pooled" => PoolInv)'
    BY <1>1, <2>1 DEF PoolInv, ExpiredAt, Newest
  <2> QED
    BY <1>2, <2>1, <2>2 DEF SketchesInv
<1> QED
  BY <1>3, <1>5, <1>6, <1>7, <1>8, <1>9, <1>10 DEF Next

\* What the properties below rest on holds in every reachable state.
THEOREM InvariantHolds == Spec => []SketchesInv
<1>1. Init => SketchesInv
  BY SketchesAtFirst
<1>2. SketchesInv /\ [Next]_vars => SketchesInv'
  BY SketchesKeep
<1> QED
  BY <1>1, <1>2, PTL DEF Spec

\* However samples are merged, promoted from maps to sketches and expired, by either rule
\* of merging, the buckets of a histogram hold each sample of the window once and in order,
\* and old buckets stay small against what is newer.
THEOREM TheWindowIsKept == Spec => []WindowIsKept
<1>1. SketchesInv => WindowIsKept
  BY UnivWindowIsRight, UnivEdgeIsRight, RunsAreRight DEF SketchesInv, WindowIsKept
<1> QED
  BY <1>1, InvariantHolds, PTL

\* No bucket sees the sketch of another, whenever the goroutines clean those that were
\* given back to the pool: also if what an Update has expired is clean, and handed out
\* again, before that Update has added its sample.
THEOREM TheRecyclingIsInvisible == Spec => []RecyclingIsInvisible
<1>1. SketchesInv => RecyclingIsInvisible
  BY PoolIsRight DEF SketchesInv, RecyclingIsInvisible
<1> QED
  BY <1>1, InvariantHolds, PTL

\* Whatever is pruned and expired, an instance of a smooth histogram holds what came since
\* its start, those pruned have a neighbour that stands for them, and the difference of two
\* instances answers for the samples between their starts.
THEOREM TheInstancesStandFor == Spec => []SmoothHistogramsStandFor
<1>1. SketchesInv => SmoothHistogramsStandFor
  BY SuffixesAreRight, AnswersAreRight DEF SketchesInv, SmoothHistogramsStandFor
<1> QED
  BY <1>1, InvariantHolds, PTL
=============================================================================
