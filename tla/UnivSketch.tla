----------------------------- MODULE UnivSketch -----------------------------
(***************************************************************************)
(* internal/promsketch/UnivMon.go: the universal sketch.  A key has a      *)
(* bottom layer, decided by the bits of a hash; its count goes to the      *)
(* count sketches of layer 0 and of its bottom layer, and to the heaps of  *)
(* all layers down to it.  Deep layers have narrower count sketches in the *)
(* program; here all have Cols.                                            *)
(***************************************************************************)
EXTENDS CountSketches, SequencesExt

CONSTANTS Layers,         \* CS_LVLS
          HashBit,        \* HashBit[key][l], l in 1..Layers-1: the bits of its hash
          XLog2X          \* XLog2X[x]: x log2 x for x > 0, in some fixed unit

ASSUME UnivSketchAssumption ==
  /\ Layers \in Nat \ {0}
  /\ HashBit \in [Keys -> [1..Layers - 1 -> {0, 1}]]

LayerSet == 0..Layers - 1

\* samples is the history of what went into the sketch; the program has no such field.
NewUnivSketchPyramid ==
  [cs_layers |-> [l \in LayerSet |-> NewCountSketchUniv], HH_layers |-> [l \in LayerSet |-> <<>>],
   bucket_size |-> 0, min_time |-> 0, max_time |-> 0, samples |-> <<>>]

\* The number of one-bits in front.
findBottomLayerNum(key) ==
  Cardinality({l \in 1..Layers - 1 : \A m \in 1..l : HashBit[key][m] = 1})

\* Planted fault: the heaps of the layers in between are not updated.
HeapsOfEndsOnly(us, key, count, bottom) ==
  [l \in LayerSet |-> IF l \in {0, bottom} THEN HeapUpdate(us.HH_layers[l], TopK, key, count[l])
                      ELSE us.HH_layers[l]]

HeapsDownTo(us, key, count, bottom) ==
  [l \in LayerSet |-> IF l <= bottom THEN HeapUpdate(us.HH_layers[l], TopK, key, count[l])
                      ELSE us.HH_layers[l]]

\* update_optimized: the estimate of the bottom layer serves the heaps above it, that
\* of layer 0 its own.
update_optimized(us, key, value) ==
  LET bottom == findBottomLayerNum(key)
      layers == [l \in LayerSet |->
                   CASE l = 0 -> UpdateString(us.cs_layers[0], key, value)
                     [] l = bottom /\ l # 0 -> UpdateStringNoL2(us.cs_layers[l], key, value)
                     [] OTHER -> us.cs_layers[l]]
      estimate == [l \in LayerSet |->
                     EstimateStringCount(layers[IF l = 0 THEN 0 ELSE bottom], key)]
  IN [us EXCEPT !.cs_layers = layers, !.HH_layers = HeapsDownTo(us, key, estimate, bottom)]

univmon_processing_optimized(us, key, value) ==
  [update_optimized(us, key, value) EXCEPT !.bucket_size = @ + value]

\* One sample of a stream.
FeedSample(us, t, v) ==
  [univmon_processing_optimized(us, v, 1) EXCEPT !.samples = Append(@, [t |-> t, v |-> v])]

\* update and update_pyramid: the counters of every layer down to the bottom one.
update_all_layers(us, key, value) ==
  LET bottom == findBottomLayerNum(key)
      layers == [l \in LayerSet |->
                   CASE l = 0 -> UpdateString(us.cs_layers[0], key, value)
                     [] l \in 1..bottom -> UpdateStringNoL2(us.cs_layers[l], key, value)
                     [] OTHER -> us.cs_layers[l]]
  IN [us EXCEPT !.cs_layers = layers,
                !.HH_layers = HeapsDownTo(us, key, [l \in LayerSet |->
                                EstimateStringCount(layers[l], key)], bottom)]

univmon_processing(us, key, value) ==
  [update_all_layers(us, key, value) EXCEPT !.bucket_size = @ + value]

\* The callers add bucket_size and merge the times.
MergeWith(us, other) ==
  [us EXCEPT
     !.cs_layers = [l \in LayerSet |-> AddCounters(us.cs_layers[l], other.cs_layers[l])],
     !.HH_layers = [l \in LayerSet |-> HeapMerge(us.HH_layers[l], other.HH_layers[l], TopK)],
     !.samples = @ \o other.samples]

Free(us) == [NewUnivSketchPyramid EXCEPT !.min_time = us.min_time, !.max_time = us.max_time]

-----------------------------------------------------------------------------
(* Queries: Y[l] = 2 Y[l + 1] + the items of layer l, those that go on to the next
   layer with coefficient -1 because that layer counts them twice. *)

\* The root of l2 over 100, rounded down, is what calcCard filters with: 0 while l2 is
\* below 10000, as it is for the samples of any small instance.
Threshold(us, l, isCard) ==
  IF isCard /\ cs_l22(us.cs_layers[l]) >= 10000 THEN 1 ELSE 0

Coefficient(l, key) == IF l = Layers - 1 THEN 1 ELSE 1 - 2 * HashBit[key][l + 1]

\* The function g that the callers pass: what an item of count x adds.
Weight(g, x) ==
  CASE g = "l1" -> x
    [] g = "l2" -> x * x
    [] g = "card" -> 1
    [] g = "entropy" -> IF x > 0 THEN XLog2X[x] ELSE 0

LayerSum(us, l, g) ==
  FoldSeq(LAMBDA item, acc :
            acc + (IF item.count > Threshold(us, l, g = "card")
                   THEN Coefficient(l, item.key) * Weight(g, item.count) ELSE 0),
          0, us.HH_layers[l])

calcGSumHeuristic(us, g) ==
  LET Y[l \in LayerSet] ==
        LayerSum(us, l, g) + (IF l = Layers - 1 THEN 0 ELSE 2 * Y[l + 1])
  IN Y[0]

calcL1(us) == calcGSumHeuristic(us, "l1")
\* The number under the root.
calcL22(us) == calcGSumHeuristic(us, "l2")
calcCard(us) == calcGSumHeuristic(us, "card")

\* log2(n) - S / n is decided by the pair <<n, S>>.
calcEntropy(us) ==
  <<us.bucket_size, calcGSumHeuristic(us, "entropy")>>

\* The heap of all layers together.
QueryTopK(us, k) ==
  FoldSeq(LAMBDA item, topk : HeapUpdate(topk, k, item.key, item.count), <<>>,
          FlattenSeq([n \in 1..Layers |->
            SelectSeq(us.HH_layers[Layers - n],
                      LAMBDA item : item.count > Threshold(us, Layers - n, TRUE))]))

-----------------------------------------------------------------------------
HowMany(samples, key) == Cardinality({i \in DOMAIN samples : samples[i].v = key})
AllClean == \A key \in Keys : IsClean(key)
SumOverKeys(f) == FoldSet(LAMBDA key, acc : acc + f[key], 0, Keys)
SquaresOf(samples) ==
  SumOverKeys([key \in Keys |-> HowMany(samples, key) * HowMany(samples, key)])
EntropySum(samples) ==
  SumOverKeys([key \in Keys |->
                 IF HowMany(samples, key) > 0 THEN XLog2X[HowMany(samples, key)] ELSE 0])

\* If every key is clean and no heap is full, a sketch is exact, through updates and
\* merges: its counters, its heaps and what it answers are those of its samples.
Exact(us) ==
  LET n(key) == HowMany(us.samples, key)
  IN /\ us.bucket_size = Len(us.samples)
     /\ \A l \in LayerSet : HeapOrdered(us.HH_layers[l])
     /\ \A l \in LayerSet, key \in Keys :
          LET i == Find(us.HH_layers[l], key)
          IN IF n(key) > 0 /\ l <= findBottomLayerNum(key)
             THEN i > 0 /\ us.HH_layers[l][i].count = n(key) ELSE i = 0
     /\ \A key \in Keys : EstimateStringCount(us.cs_layers[0], key) = n(key)
     /\ calcL1(us) = Len(us.samples)
     /\ calcL22(us) = SquaresOf(us.samples)
     /\ calcEntropy(us) = <<Len(us.samples), EntropySum(us.samples)>>
     /\ calcCard(us) = Cardinality({key \in Keys : n(key) > 0})
     /\ LET topk == QueryTopK(us, TopK)
        IN \A key \in Keys : n(key) > 0 =>
             \E i \in DOMAIN topk : topk[i] = Item(key, n(key))

\* The other way to feed a sketch, one sample at a time through all layers.
FedOneByOne(samples) ==
  FoldLeft(LAMBDA us, s : [univmon_processing(us, s.v, 1) EXCEPT !.samples = Append(@, s)],
           NewUnivSketchPyramid, samples)
=============================================================================
