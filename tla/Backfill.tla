------------------------------- MODULE Backfill -------------------------------
(***************************************************************************)
(* cmd/pskctl/backfill.go: pskctl copies the history of the series that    *)
(* match a pattern from a backend to PromSketch, one chunk of time after   *)
(* the other, and saves its progress in a checkpoint file from which a     *)
(* later run may resume.                                                   *)
(*                                                                         *)
(* A run is one execution of the command.  Runs may be killed, may follow  *)
(* one another and may overlap: the checkpoint file has a default path     *)
(* that all of them share, and nothing locks it.  All runs here have the   *)
(* same arguments, except for --resume.  A dry run touches nothing and is  *)
(* left out; so are the totals of the checkpoint.                          *)
(*                                                                         *)
(* Time is counted from the start of the range, in steps of which a chunk  *)
(* has ChunkLength.  backfillChunk returns no error, whatever fails in it, *)
(* so the chunk loop always stands at LastChunkEnd.                        *)
(***************************************************************************)
EXTENDS Naturals, FiniteSets

CONSTANTS Runs,
          Series,         \* the series of the source
          Matching,       \* those that match the pattern
          MetricOf,       \* MetricOf[s]: the metric name of series s
          EndTime,
          ChunkLength

ASSUME BackfillAssumption ==
  /\ Matching \subseteq Series
  /\ EndTime \in Nat
  /\ ChunkLength \in Nat \ {0}

VARIABLES run,            \* run[r]: where the run stands
          checkpoint,     \* checkpoint[r]: the checkpoint in its memory
          todo,           \* todo[r]: the series left in the chunk
          file,           \* what the checkpoint file holds
          saved,          \* the checkpoint in it, if it holds one
          received,       \* history: the samples that reached the target
          skipped         \* history: those that a run skipped and none has sent

backfillVars == <<run, checkpoint, todo, file, saved, received, skipped>>

Times == 0..EndTime
Checkpoint == [series : SUBSET Series, lastChunkEnd : Times]
NewCheckpoint == [series |-> {}, lastChunkEnd |-> 0]

BackfillInit ==
  /\ run = [r \in Runs |-> "new"]
  /\ checkpoint = [r \in Runs |-> NewCheckpoint]
  /\ todo = [r \in Runs |-> {}]
  /\ file = "absent"
  /\ saved = NewCheckpoint
  /\ received = {}
  /\ skipped = {}

Ended == {"completed", "nothing", "failed", "killed"}
Running(r) == run[r] \notin Ended \cup {"new"}
-----------------------------------------------------------------------------
(* Starting a run. *)

Start(r) ==
  /\ run[r] = "new"
  /\ run' = [run EXCEPT ![r] = "discover"]
  /\ UNCHANGED <<checkpoint, todo, file, saved, received, skipped>>

\* loadCheckpoint fails if there is no file or no checkpoint can be parsed from it.
Resume(r) ==
  /\ run[r] = "new"
  /\ IF file = "readable"
       THEN /\ checkpoint' = [checkpoint EXCEPT ![r] = saved]
            /\ run' = [run EXCEPT ![r] = "loop"]
       ELSE /\ run' = [run EXCEPT ![r] = "failed"]
            /\ UNCHANGED checkpoint
  /\ UNCHANGED <<todo, file, saved, received, skipped>>

\* discoverSeries answers with those matching series that the source has by now.
DiscoverSeries(r) ==
  /\ run[r] = "discover"
  /\ \E found \in SUBSET Matching :
       IF found = {}
         THEN /\ run' = [run EXCEPT ![r] = "nothing"]
              /\ UNCHANGED checkpoint
         ELSE /\ run' = [run EXCEPT ![r] = "save"]
              /\ checkpoint' = [checkpoint EXCEPT ![r].series = found]
  /\ UNCHANGED <<todo, file, saved, received, skipped>>

DiscoverFails(r) ==
  /\ run[r] = "discover"
  /\ run' = [run EXCEPT ![r] = "failed"]
  /\ UNCHANGED <<checkpoint, todo, file, saved, received, skipped>>

(* The chunk loop. *)

\* The last chunk may be shorter.
EndOfChunk(t) == IF t + ChunkLength > EndTime THEN EndTime ELSE t + ChunkLength

\* Planted fault: the loop ends when less than a chunk is left.
BeginFullChunk(r) ==
  /\ run[r] = "loop"
  /\ IF checkpoint[r].lastChunkEnd + ChunkLength <= EndTime
       THEN /\ run' = [run EXCEPT ![r] = "chunk"]
            /\ todo' = [todo EXCEPT ![r] = checkpoint[r].series]
       ELSE /\ run' = [run EXCEPT ![r] = "completed"]
            /\ UNCHANGED todo
  /\ UNCHANGED <<checkpoint, file, saved, received, skipped>>

BeginChunk(r) ==
  /\ run[r] = "loop"
  /\ IF checkpoint[r].lastChunkEnd < EndTime
       THEN /\ run' = [run EXCEPT ![r] = "chunk"]
            /\ todo' = [todo EXCEPT ![r] = checkpoint[r].series]
       ELSE /\ run' = [run EXCEPT ![r] = "completed"]
            /\ UNCHANGED todo
  /\ UNCHANGED <<checkpoint, file, saved, received, skipped>>

\* The range of QueryRange has both its ends in it.
ChunkTimes(r) ==
  LET t == checkpoint[r].lastChunkEnd IN t..EndOfChunk(t)

\* buildQueryFromLabels keeps the metric name and no other label, so the answer has
\* every series of that metric.
AnswerFor(s) == {x \in Series : MetricOf[x] = MetricOf[s]}

\* One series of the chunk is queried and what was found is sent.
CopySeries(r, s) ==
  /\ run[r] = "chunk"
  /\ s \in todo[r]
  /\ received' = received \cup (AnswerFor(s) \X ChunkTimes(r))
  /\ skipped' = skipped \ received'
  /\ todo' = [todo EXCEPT ![r] = @ \ {s}]
  /\ UNCHANGED <<run, checkpoint, file, saved>>

\* The query or the write fails and the series is skipped for this chunk; a write that
\* fails may have arrived.
SkipSeries(r, s, arrived) ==
  /\ run[r] = "chunk"
  /\ s \in todo[r]
  /\ received' = IF arrived THEN received \cup (AnswerFor(s) \X ChunkTimes(r)) ELSE received
  /\ skipped' = (skipped \cup ({s} \X ChunkTimes(r))) \ received'
  /\ todo' = [todo EXCEPT ![r] = @ \ {s}]
  /\ UNCHANGED <<run, checkpoint, file, saved>>

\* Planted fault: the chunk ends with its first series.
EndChunkEarly(r) ==
  /\ run[r] = "chunk"
  /\ todo[r] # checkpoint[r].series
  /\ checkpoint' = [checkpoint EXCEPT ![r].lastChunkEnd = EndOfChunk(@)]
  /\ todo' = [todo EXCEPT ![r] = {}]
  /\ run' = [run EXCEPT ![r] = "save"]
  /\ UNCHANGED <<file, saved, received, skipped>>

\* Planted fault: the end of the chunk is not recorded.
EndChunkForgets(r) ==
  /\ run[r] = "chunk"
  /\ todo[r] = {}
  /\ run' = [run EXCEPT ![r] = "save"]
  /\ UNCHANGED <<checkpoint, todo, file, saved, received, skipped>>

EndChunk(r) ==
  /\ run[r] = "chunk"
  /\ todo[r] = {}
  /\ checkpoint' = [checkpoint EXCEPT ![r].lastChunkEnd = EndOfChunk(@)]
  /\ run' = [run EXCEPT ![r] = "save"]
  /\ UNCHANGED <<todo, file, saved, received, skipped>>

(* saveCheckpoint: os.WriteFile truncates the file and writes it in place. *)

Truncate(r) ==
  /\ run[r] = "save"
  /\ run' = [run EXCEPT ![r] = "write"]
  /\ file' = "empty"
  /\ UNCHANGED <<checkpoint, todo, saved, received, skipped>>

\* If another run has written since, the end of its checkpoint may stay behind a shorter
\* one, and the two are no JSON document.
Write(r) ==
  /\ run[r] = "write"
  /\ run' = [run EXCEPT ![r] = "loop"]
  /\ \/ /\ file' = "readable"
        /\ saved' = checkpoint[r]
     \/ /\ file # "empty"
        /\ file' = "torn"
        /\ UNCHANGED saved
  /\ UNCHANGED <<checkpoint, todo, received, skipped>>

\* A failed save is a warning: the file could not be opened, or not be written in full.
SaveFails(r) ==
  /\ \/ run[r] = "save" /\ UNCHANGED file
     \/ run[r] = "write" /\ file' \in {file, "torn"}
  /\ run' = [run EXCEPT ![r] = "loop"]
  /\ UNCHANGED <<checkpoint, todo, saved, received, skipped>>

\* The memory of the run is gone with it.
Kill(r) ==
  /\ Running(r)
  /\ run' = [run EXCEPT ![r] = "killed"]
  /\ checkpoint' = [checkpoint EXCEPT ![r] = NewCheckpoint]
  /\ todo' = [todo EXCEPT ![r] = {}]
  /\ UNCHANGED <<file, saved, received, skipped>>

ChunkStep(r) ==
  \/ BeginChunk(r)
  \/ \E s \in Series : CopySeries(r, s) \/ \E arrived \in BOOLEAN : SkipSeries(r, s, arrived)
  \/ EndChunk(r)
  \/ Truncate(r) \/ Write(r) \/ SaveFails(r)

BackfillNext == \E r \in Runs :
          \/ Start(r) \/ Resume(r)
          \/ DiscoverSeries(r) \/ DiscoverFails(r)
          \/ ChunkStep(r)
          \/ Kill(r)

BackfillSafety == BackfillInit /\ [][BackfillNext]_backfillVars

\* Queries and writes have a timeout, so a run that has its series goes on.  The
\* request of discoverSeries has none.
BackfillSpec == BackfillSafety /\ \A r \in Runs : WF_backfillVars(ChunkStep(r))
-----------------------------------------------------------------------------
(* Properties. *)

RunState == {"new", "discover", "loop", "chunk", "save", "write"} \cup Ended

BackfillTypeOK ==
  /\ run \in [Runs -> RunState]
  /\ checkpoint \in [Runs -> Checkpoint]
  /\ todo \in [Runs -> SUBSET Series]
  /\ file \in {"absent", "empty", "torn", "readable"}
  /\ saved \in Checkpoint
  /\ received \subseteq Series \X Times
  /\ skipped \subseteq Series \X Times

\* Each sample of the series in S up to time t has arrived or was skipped by a failure.
Covered(S, t) == t > 0 => S \X (0..t) \subseteq received \cup skipped

\* Whatever runs were killed, resumed or overlapping when it was written, a readable
\* checkpoint claims nothing that was not attempted: what lies before LastChunkEnd has
\* arrived, or its series was skipped by a run whose query or write failed.
CheckpointIsHonest == file = "readable" => Covered(saved.series, saved.lastChunkEnd)

\* A run that reports completion has, with the runs whose checkpoints it stands on,
\* covered the whole range of its series, the shorter last chunk included.
CompletedMeansCovered ==
  \A r \in Runs : run[r] = "completed" => Covered(checkpoint[r].series, EndTime)

\* The queries for the matching series name their metric alone, and bring nothing that
\* has another metric - though series that do not match may come with them.
OnlyTheirMetrics == \A x \in received : \E s \in Matching : MetricOf[x[1]] = MetricOf[s]

\* What has been copied when runs end: at least the range of what they report, and at
\* most the metrics of what matches.
CopiesTheRange == CompletedMeansCovered /\ OnlyTheirMetrics

\* A run that has a list of series ends, unless it is killed: neither failures nor the
\* saves of other runs keep it from coming to the end of the range.
BackfillEnds == \A r \in Runs : run[r] = "loop" ~> run[r] \in {"completed", "killed"}
=============================================================================
