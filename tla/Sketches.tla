------------------------------ MODULE Sketches ------------------------------
(***************************************************************************)
(* The sketches of internal/promsketch that count what they see, each fed  *)
(* with one series, as SketchInsert and the package's tests feed them.  A  *)
(* behaviour is that of one structure, chosen at the start: they share no  *)
(* state.                                                                  *)
(***************************************************************************)
EXTENDS UnivHistogram, RunHistograms, SmoothHistograms

CONSTANTS Structure,   \* the structures
          Length,      \* Length[s]: bound: samples it is given
          End          \* End[s]: bound: their time

\* The values of the samples are the keys of the sketches that count them.
ASSUME SketchesAssumption == IsFiniteSet(Keys) /\ StreamValues \subseteq Keys

VARIABLE structure

vars == <<stream, structure, univVars, runVars, pooledVars, smoothVars>>

Init == /\ structure \in Structure
        /\ StreamInit /\ UnivInit /\ RunInit /\ PoolInit /\ SmoothInit

InBounds(t) == Len(stream) < Length[structure] /\ t <= End[structure]

\* SketchInsert brings the structure at hand a sample.
Sample(t, v) == Arrives(t, v) /\ InBounds(t) /\ UNCHANGED structure

SampleUniv(t, v) ==
  /\ structure = "ehuniv"
  /\ Sample(t, v) /\ UnivUpdate(t, v) /\ UNCHANGED <<runVars, pooledVars, smoothVars>>

SampleRuns(t, v) ==
  /\ structure = "runs"
  /\ Sample(t, v) /\ RunUpdate(t, v) /\ UNCHANGED <<univVars, pooledVars, smoothVars>>

\* The call whose sample is the next of the stream, in two steps.
CallPooled(t, v) ==
  /\ structure = "pooled" /\ InBounds(t)
  /\ PutExpired(t, v) /\ UNCHANGED <<stream, structure, univVars, runVars, smoothVars>>

SamplePooled(t, v) ==
  /\ structure = "pooled"
  /\ Sample(t, v) /\ AddUniv(t, v) /\ UNCHANGED <<univVars, runVars, smoothVars>>

SampleSmooth(t, v) ==
  /\ structure = "smooth"
  /\ Sample(t, v) /\ SmoothUpdate(t, v) /\ UNCHANGED <<univVars, runVars, pooledVars>>

\* A goroutine cleans a sketch that was given back.
Clean ==
  /\ \E i \in toclean : putUnivSketch(i)
  /\ UNCHANGED <<stream, structure, univVars, runVars, smoothVars>>

Next ==
  \/ Clean
  \/ \E gap \in Gaps, v \in StreamValues :
       \/ SampleUniv(Newest + gap, v) \/ SampleRuns(Newest + gap, v)
       \/ CallPooled(Newest + gap, v) \/ SamplePooled(Newest + gap, v)
       \/ SampleSmooth(Newest + gap, v)

Spec == Init /\ [][Next]_vars

-----------------------------------------------------------------------------
(* Properties; each names those of the structure at hand *)

\* However samples are merged, promoted from maps to sketches and expired, the buckets
\* hold each sample of the window once, and old ones stay small against what is newer.
WindowIsKept ==
  /\ structure = "ehuniv" => UnivWindowIsKept /\ UnivEdgeIsLight
  /\ structure = "runs" => RunsHoldTheWindow

\* Sketches that no collision spoils stay exact through updates and merges.
SketchesAreExact ==
  /\ structure = "ehuniv" => SketchesAreExactWhenClean
  /\ structure = "runs" => RunNormsAreExact

\* The answers for an interval differ from the truth by parts of the buckets at its
\* ends only, except where the code goes beyond the interval or its own slices.
AnswersErrAtTheEdges ==
  /\ structure = "ehuniv" => UnivAnswerErrsAtTheEdges
  /\ structure = "runs" => RunAnswersErrAtTheEdges
  /\ structure = "pooled" => PooledAnswersErrAtTheEdges

\* Recycling sketches, which goroutines clean also in the middle of an Update, lets no
\* bucket see another's.
RecyclingIsInvisible == structure = "pooled" => PooledSketchesAreNotShared

\* Instances that were not pruned stand for those that were, and answers are made of
\* the samples between two of them; instances are told apart by their starts.
SmoothHistogramsStandFor ==
  structure = "smooth" /\ TimesDiffer => SmoothInstancesAreSuffixes /\ SmoothAnswersAreDifferences
=============================================================================
