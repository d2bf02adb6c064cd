---------------------------- MODULE SampleStream ----------------------------
(***************************************************************************)
(* The samples of one series, as the sketches of internal/promsketch get   *)
(* them from SketchInsert: the time may stand still or jump, the values    *)
(* are the keys of the frequency sketches.  stream is the history that the *)
(* properties of the sketches refer to.                                    *)
(***************************************************************************)
EXTENDS Integers, Sequences, FiniteSets

CONSTANTS StreamValues,
          Gaps,       \* from one sample to the next
          MaxSamples  \* bound: samples

ASSUME StreamAssumption == Gaps \subseteq Nat /\ MaxSamples \in Nat

VARIABLE stream

StreamInit == stream = <<>>

Newest == IF stream = <<>> THEN 1 ELSE stream[Len(stream)].t

Arrives(t, v) ==
  /\ Len(stream) < MaxSamples
  /\ \E gap \in Gaps : t = Newest + gap
  /\ v \in StreamValues
  /\ stream' = Append(stream, [t |-> t, v |-> v])

-----------------------------------------------------------------------------
(* Parts of the stream, which is in the order of time *)

Before(t) == Cardinality({i \in DOMAIN stream : stream[i].t < t})
Since(t) == SubSeq(stream, Before(t) + 1, Len(stream))

\* From lo on, and before hi.
Stretch(lo, hi) == SubSeq(stream, Before(lo) + 1, Before(hi))

TimesDiffer == \A i \in 1..Len(stream) - 1 : stream[i].t < stream[i + 1].t

-----------------------------------------------------------------------------
(* Buckets, oldest first, that have these numbers of the newest samples *)

\* The sum of the first n.
UpTo(sizes) ==
  LET upTo[n \in 0..Len(sizes)] == IF n = 0 THEN 0 ELSE upTo[n - 1] + sizes[n]
  IN upTo

KeptFrom(sizes) == Len(stream) - UpTo(sizes)[Len(sizes)]

SamplesOfBucket(sizes, i) ==
  SubSeq(stream, KeptFrom(sizes) + UpTo(sizes)[i - 1] + 1, KeptFrom(sizes) + UpTo(sizes)[i])
=============================================================================
