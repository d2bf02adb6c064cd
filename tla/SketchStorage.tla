---------------------------- MODULE SketchStorage ----------------------------
(***************************************************************************)
(* internal/storage/storage.go (Storage.Insert) and the part of            *)
(* internal/promsketch/promsketches.go it calls: how a psksketch node      *)
(* finds or creates the sketches of a series when several requests insert  *)
(* at once.                                                                *)
(*                                                                         *)
(* The stripe locks cover single map operations, and each sketch locks its *)
(* own Update.  Nothing covers "look the series up, create it if it is     *)
(* missing", the sketchInstances pointer of a memSeries or the pointers in *)
(* it, so these are read and written in steps of their own.                *)
(*                                                                         *)
(* A call of Insert brings one sample, and the sample, the call and the    *)
(* memSeries that the call may create have one name: a call creates at     *)
(* most one, since its later lookups find it or one that replaced it.  The *)
(* calls are those of one partition that match a target.  Series ids,      *)
(* which only StopBackground reads, are left out, and so is the chance     *)
(* that GetMinTime returns -1 for a sketch that exists.                    *)
(***************************************************************************)
EXTENDS Naturals, Sequences, FiniteSets

CONSTANTS Inserts,      \* calls of Insert, each with its sample
          Series,
          SeriesOf,     \* SeriesOf[c]: the label set of c's sample
          MemoryLimit,  \* memory_limit in units of 64 KB, 0 if there is none
          MaxFunctions  \* bound: functions listed for one type of sketch

ASSUME StorageAssumption ==
  /\ IsFiniteSet(Inserts)
  /\ SeriesOf \in [Inserts -> Series]
  /\ MemoryLimit \in Nat
  /\ MaxFunctions \in Nat \ {0}

VARIABLES pc,           \* where the call stands
          at,           \* at[c]: position of c in CreateOrder or InsertOrder
          series,       \* series[c]: the memSeries that c holds, a set of one or none
          hashes,       \* hashes[s]: the memSeries registered for s, likewise
          allocated,    \* the memSeries whose sketchInstances is not nil
          made,         \* made[o]: the sketches of memSeries o that are not nil
          held,         \* held[o][t]: the samples that sketch t of o has taken
          memoryUsed,   \* in units of 64 KB; SketchedSeries is the same number
          crashed,      \* a nil pointer was dereferenced: the process is gone
          calm,         \* history: calls that began on a settled series
          peak          \* history: most calls ever past the limit check together

vars == <<pc, at, series, hashes, allocated, made, held, memoryUsed, crashed, calm, peak>>

SketchTypes == {"USampling", "EHKLL", "EHUniv"}

\* funcSketchMap of the functions that createSketchInstance lists, in its order: six
\* of them have a sampling sketch, and so on.
Listed(t, functions) ==
  [i \in 1..(IF functions < MaxFunctions THEN functions ELSE MaxFunctions) |-> t]

\* Planted fault: the sampling sketches are created last.
CreateSamplingLast ==
  Listed("EHKLL", 3) \o Listed("EHUniv", 4) \o Listed("USampling", 6)

CreateOrder == Listed("USampling", 6) \o Listed("EHKLL", 3) \o Listed("EHUniv", 4)

\* Planted fault: the sampling sketch is forgotten.
InsertWithoutSampling == <<"EHKLL", "EHUniv">>

\* The order in which SketchInsert updates the sketches that exist.
InsertOrder == <<"EHKLL", "USampling", "EHUniv">>

NoSketches == [t \in SketchTypes |-> {}]

Init ==
  /\ pc = [c \in Inserts |-> "start"]
  /\ at = [c \in Inserts |-> 1]
  /\ series = [c \in Inserts |-> {}]
  /\ hashes = [s \in Series |-> {}]
  /\ allocated = {}
  /\ made = [o \in Inserts |-> {}]
  /\ held = [o \in Inserts |-> NoSketches]
  /\ memoryUsed = 0
  /\ crashed = FALSE
  /\ calm = {}
  /\ peak = 0

-----------------------------------------------------------------------------
Finished == {"ok", "rejected"}
InFlight(s) == {c \in Inserts : SeriesOf[c] = s /\ pc[c] \notin Finished \cup {"start"}}
Creating == {c \in Inserts : pc[c] \in {"get", "publish", "look", "alloc", "make", "count"}}

Complete(s) == hashes[s] # {} /\ \A o \in hashes[s] : made[o] = SketchTypes

\* PrintCoverage(lset, "avg_over_time") finds a sketch.
HasSketchInstance(s) == \E o \in hashes[s] : "USampling" \in made[o]

\* PrintCoverage and LookUp dereference the sketchInstances of a memSeries that has
\* been registered, whether or not it has any yet.
NilInstances(s) == \E o \in hashes[s] : o \notin allocated

\* hasSketchInstance.
CheckInstance(c) ==
  /\ pc[c] = "start"
  /\ IF NilInstances(SeriesOf[c])
       THEN /\ crashed' = TRUE
            /\ UNCHANGED <<pc, calm>>
       ELSE /\ pc' = [pc EXCEPT ![c] =
                        IF HasSketchInstance(SeriesOf[c]) THEN "insert" ELSE "limit"]
            /\ calm' = IF Complete(SeriesOf[c]) /\ InFlight(SeriesOf[c]) \subseteq calm
                         THEN calm \cup {c}
                         ELSE calm
            /\ UNCHANGED crashed
  /\ UNCHANGED <<at, series, hashes, allocated, made, held, memoryUsed, peak>>

\* Planted fault: the limit is compared with what is used so far.
OverLimitLate == MemoryLimit > 0 /\ memoryUsed > MemoryLimit

\* The memory limit is enforced before new sketches are created.
OverLimit == MemoryLimit > 0 /\ memoryUsed + 1 > MemoryLimit

CheckLimit(c) ==
  /\ pc[c] = "limit"
  /\ pc' = [pc EXCEPT ![c] = IF OverLimit THEN "rejected" ELSE "get"]
  /\ peak' = IF Cardinality(Creating') > peak THEN Cardinality(Creating') ELSE peak
  /\ UNCHANGED <<at, series, hashes, allocated, made, held, memoryUsed, crashed, calm>>

\* getOrCreate looks the series up, once for each function.
GetByHash(c) ==
  /\ pc[c] = "get"
  /\ series' = [series EXCEPT ![c] = hashes[SeriesOf[c]]]
  /\ pc' = [pc EXCEPT ![c] = IF hashes[SeriesOf[c]] = {} THEN "publish" ELSE "look"]
  /\ UNCHANGED <<at, hashes, allocated, made, held, memoryUsed, crashed, calm, peak>>

\* getOrCreate registers a new memSeries, in the place of one registered since.
Publish(c) ==
  /\ pc[c] = "publish"
  /\ hashes' = [hashes EXCEPT ![SeriesOf[c]] = {c}]
  /\ series' = [series EXCEPT ![c] = {c}]
  /\ pc' = [pc EXCEPT ![c] = "look"]
  /\ UNCHANGED <<at, allocated, made, held, memoryUsed, crashed, calm, peak>>

\* createSketchInstance goes on to the next function, or is done.
NextFunction(c) ==
  IF at[c] < Len(CreateOrder)
    THEN pc' = [pc EXCEPT ![c] = "get"] /\ at' = [at EXCEPT ![c] = @ + 1]
    ELSE pc' = [pc EXCEPT ![c] = "count"] /\ at' = [at EXCEPT ![c] = 1]

\* newSlidingHistorgrams reads the pointers.
Look(c) ==
  /\ pc[c] = "look"
  /\ CASE ~(series[c] \subseteq allocated) ->
            pc' = [pc EXCEPT ![c] = "alloc"] /\ UNCHANGED at
       [] series[c] \subseteq allocated /\ \E o \in series[c] : CreateOrder[at[c]] \notin made[o] ->
            pc' = [pc EXCEPT ![c] = "make"] /\ UNCHANGED at
       [] OTHER -> NextFunction(c)
  /\ UNCHANGED <<series, hashes, allocated, made, held, memoryUsed, crashed, calm, peak>>

\* It saw no SketchInstances: it sets an empty one, dropping one set since.
Alloc(c) ==
  /\ pc[c] = "alloc"
  /\ \E o \in series[c] :
       /\ allocated' = allocated \cup {o}
       /\ made' = [made EXCEPT ![o] = {}]
       /\ held' = [held EXCEPT ![o] = NoSketches]
  /\ pc' = [pc EXCEPT ![c] = "look"]
  /\ UNCHANGED <<at, series, hashes, memoryUsed, crashed, calm, peak>>

\* It saw no sketch of this type: it sets an empty one, likewise.
Make(c) ==
  /\ pc[c] = "make"
  /\ \E o \in series[c] :
       /\ made' = [made EXCEPT ![o] = @ \cup {CreateOrder[at[c]]}]
       /\ held' = [held EXCEPT ![o][CreateOrder[at[c]]] = {}]
  /\ NextFunction(c)
  /\ UNCHANGED <<series, hashes, allocated, memoryUsed, crashed, calm, peak>>

Count(c) ==
  /\ pc[c] = "count"
  /\ memoryUsed' = memoryUsed + 1
  /\ pc' = [pc EXCEPT ![c] = "insert"]
  /\ UNCHANGED <<at, series, hashes, allocated, made, held, crashed, calm, peak>>

\* SketchInsert looks the series up; without sketches it drops the sample, without error.
SketchInsert(c) ==
  /\ pc[c] = "insert"
  /\ series' = [series EXCEPT ![c] = hashes[SeriesOf[c]]]
  /\ pc' = [pc EXCEPT ![c] = IF NilInstances(SeriesOf[c]) THEN "ok" ELSE "update"]
  /\ UNCHANGED <<at, hashes, allocated, made, held, memoryUsed, crashed, calm, peak>>

\* It updates one sketch after the other, those that exist.
Update(c) ==
  /\ pc[c] = "update"
  /\ held' = [o \in Inserts |->
                IF o \in series[c] /\ InsertOrder[at[c]] \in made[o]
                  THEN [held[o] EXCEPT ![InsertOrder[at[c]]] = @ \cup {c}]
                  ELSE held[o]]
  /\ IF at[c] < Len(InsertOrder)
       THEN at' = [at EXCEPT ![c] = @ + 1] /\ UNCHANGED pc
       ELSE pc' = [pc EXCEPT ![c] = "ok"] /\ UNCHANGED at
  /\ UNCHANGED <<series, hashes, allocated, made, memoryUsed, crashed, calm, peak>>

\* A query for series s.  It changes nothing here, unless it panics.
LookUp(s) ==
  /\ NilInstances(s)
  /\ crashed' = TRUE
  /\ UNCHANGED <<pc, at, series, hashes, allocated, made, held, memoryUsed, calm, peak>>

InsertStep(c) ==
  \/ CheckInstance(c) \/ CheckLimit(c)
  \/ GetByHash(c) \/ Publish(c) \/ Look(c) \/ Alloc(c) \/ Make(c) \/ Count(c)
  \/ SketchInsert(c) \/ Update(c)

Next ==
  /\ ~crashed
  /\ \/ \E c \in Inserts : InsertStep(c)
     \/ \E s \in Series : LookUp(s)

Spec == Init /\ [][Next]_vars

-----------------------------------------------------------------------------
(* Properties. *)

TypeOK ==
  /\ pc \in [Inserts -> {"start", "limit", "get", "publish", "look", "alloc", "make", "count",
                         "insert", "update"} \cup Finished]
  /\ at \in [Inserts -> DOMAIN CreateOrder]
  /\ series \in [Inserts -> SUBSET Inserts]
  /\ hashes \in [Series -> SUBSET Inserts]
  /\ allocated \subseteq Inserts
  /\ made \in [Inserts -> SUBSET SketchTypes]
  /\ held \in [Inserts -> [SketchTypes -> SUBSET Inserts]]
  /\ memoryUsed \in Nat
  /\ crashed \in BOOLEAN
  /\ calm \subseteq Inserts
  /\ peak \in 0..Cardinality(Inserts)

\* The limit is passed by no more than the calls that race between the check and the
\* count: memoryUsed stays below MemoryLimit plus the most calls that were ever there
\* together, and calls that do not overlap keep the limit.
OvershootIsBounded ==
  MemoryLimit > 0 /\ memoryUsed > 0 => memoryUsed < MemoryLimit + peak

\* hasSketchInstance asks for the sampling sketch only, and no call after it repairs a
\* series.  That is enough: however calls replaced each other's memSeries and sketches
\* while they created a series, once none of them runs a series that has its sampling
\* sketch has all three.
RestingSeriesIsComplete ==
  \A s \in Series :
    InFlight(s) = {} /\ HasSketchInstance(s) => Complete(s)

\* A call that begins on a complete series, with no call left that saw it otherwise,
\* puts its sample in all three sketches, and no later call loses the sample.
CalmSampleIsKept ==
  \A c \in calm : pc[c] = "ok" =>
    \A o \in hashes[SeriesOf[c]], t \in SketchTypes : c \in held[o][t]

\* Concurrent inserts and queries are safe: none dereferences a nil pointer.
NoPanic == ~crashed
=============================================================================
