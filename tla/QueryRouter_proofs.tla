-------------------------- MODULE QueryRouter_proofs --------------------------
(***************************************************************************)
(* Proofs about QueryRouter and the sampling sketch behind it, for any     *)
(* number of queries, any requests, samples, windows and limits: the size  *)
(* of the sketch, the counters of the router, that it implements           *)
(* QueryPromise, and that covered answers of a calm sketch are exact.      *)
(***************************************************************************)
EXTENDS QueryRouter, FiniteSetTheorems, WellFoundedInduction, TLAPS

Phases == {"idle", "lookup", "eval", "backend", "done"}

RouterTypeOK ==
  /\ phase \in [Queries -> Phases]
  /\ request \in [Queries -> Requests \cup {NoRequest}]
  /\ response = [q \in Queries |-> response[q]]
  /\ counters \in [Counters -> Nat]
  /\ covered \subseteq Queries

\* A query has an outcome when it is done and not before; it is evaluated only after
\* the look-up has said yes.
OutcomeFits ==
  \A q \in Queries :
    /\ phase[q] # "done" => response[q].status = "none"
    /\ phase[q] = "done" => response[q].status \in {"success", "bad_data", "execution"}
    /\ response[q].source \in {"none", "sketch", "backend"}
    /\ response[q].source # "none" <=> response[q].status = "success"
    /\ phase[q] = "eval" => q \in covered

\* The queries that take part in each counter.
In(phases) == {q \in Queries : phase[q] \in phases}
Answered(status) == {q \in Queries : response[q].status = status}
From(source) == {q \in Queries : response[q].source = source}

CountersFit ==
  /\ counters["requests"] = Cardinality(In({"lookup", "eval", "backend", "done"}))
  /\ counters["errors"] = Cardinality(Answered("bad_data")) + Cardinality(Answered("execution"))
  /\ counters["sketchHits"] = Cardinality(From("sketch"))
  /\ counters["sketchQueries"] =
       counters["sketchHits"] + counters["sketchMisses"] + Cardinality(In({"lookup", "eval"}))
  /\ counters["backendQueries"] =
       Cardinality(From("backend")) + counters["executionErrors"] + Cardinality(In({"backend"}))

SamplingInv ==
  /\ Arr \in Seq(Sample)
  /\ Max_size \in Nat
  /\ Time_window_size \in Nat \ {0}

IInv == SamplingInv /\ RouterTypeOK /\ OutcomeFits /\ CountersFit

-----------------------------------------------------------------------------
(* The sampling sketch *)

LEMMA ShiftIsIndex ==
  ASSUME SamplingInv, NEW t \in Times
  PROVE  WindowShift(t) \in 0..Len(Arr)
<1> DEFINE old == {i \in DOMAIN Arr : \A j \in 1..i : Arr[j].T < t - Time_window_size}
<1>1. Len(Arr) \in Nat /\ DOMAIN Arr = 1..Len(Arr)
  BY DEF SamplingInv
<1>2. old \subseteq 1..Len(Arr)
  BY <1>1
<1> DEFINE n == Len(Arr)
<1> HIDE DEF n
<1>3. IsFiniteSet(1..n) /\ Cardinality(1..n) = n
  <2>1. n \in Int /\ n >= 0 /\ 1 \in Int
    BY <1>1 DEF n
  <2>2. IsFiniteSet(1..n) /\ Cardinality(1..n) = IF 1 > n THEN 0 ELSE n - 1 + 1
    BY <2>1, FS_Interval
  <2> QED
    BY <2>1, <2>2
<1>4. Cardinality(old) \in 0..Len(Arr)
  BY <1>1, <1>2, <1>3, FS_Subset, FS_CardinalityType DEF n
<1>5. Expired(t) = Cardinality(old)
  BY DEF Expired
<1> HIDE DEF old
<1>6. Arr # <<>> => Len(Arr) > 0
  BY <1>1 DEF SamplingInv
<1> QED
  BY <1>1, <1>4, <1>5, <1>6 DEF WindowShift

LEMMA InsertIsBounded ==
  ASSUME SamplingInv, NEW t \in Times, NEW x \in Values, Insert(t, x)
  PROVE  SamplingInv' /\ Len(Arr') <= Max_size' + 1
<1> DEFINE shift == ApplyLimit(WindowShift(t))
           rest == SubSeq(Arr, shift + 1, Len(Arr))
           sample == [T |-> t, F |-> x]
<1>1. /\ UNCHANGED <<Max_size, Time_window_size>>
      /\ Arr' = Append(rest, sample) \/ Arr' = rest
  BY DEF Insert
<1>2. Len(Arr) \in Nat /\ Max_size \in Nat
  BY DEF SamplingInv
<1>3. shift \in 0..Len(Arr) /\ Len(Arr) - shift <= Max_size
  BY <1>2, ShiftIsIndex DEF ApplyLimit
<1> HIDE DEF shift
<1>4. rest \in Seq(Sample) /\ Len(rest) = Len(Arr) - shift
  BY <1>2, <1>3 DEF SamplingInv
<1>5. sample \in Sample
  BY DEF Sample
<1> HIDE DEF rest, sample
<1>6. Arr' \in Seq(Sample) /\ Len(Arr') <= Len(rest) + 1
  <2>1. Len(rest) \in Nat
    BY <1>4
  <2>2. /\ Append(rest, sample) \in Seq(Sample)
        /\ Len(Append(rest, sample)) = Len(rest) + 1
    BY <1>4, <1>5
  <2> QED
    BY <1>1, <1>4, <2>1, <2>2, SMTT(30)
<1> QED
  BY <1>1, <1>2, <1>3, <1>4, <1>6 DEF SamplingInv

LEMMA UpdateKeeps ==
  ASSUME SamplingInv, NEW w \in Windows, UpdateWindow(w)
  PROVE  SamplingInv'
<1>1. w \in Nat \ {0}
  BY SamplingAssumption
<1>2. Max_size * Time_window_size \in Nat
  BY DEF SamplingInv
<1>3. (Max_size * Time_window_size) \div w \in Nat
  BY <1>1, <1>2
<1> QED
  BY <1>1, <1>3 DEF UpdateWindow, SamplingInv

LEMMA SamplingKept ==
  ASSUME SamplingInv, [Next]_vars
  PROVE  SamplingInv' /\ (calls' # calls => Len(Arr') <= Max_size' + 1)
<1>1. CASE SamplingNext
  <2>1. ASSUME NEW w \in Windows, UpdateWindow(w)
        PROVE  SamplingInv' /\ calls' = calls
    BY <2>1, UpdateKeeps DEF UpdateWindow
  <2> QED
    BY <1>1, <2>1, InsertIsBounded DEF SamplingNext
<1>2. CASE UNCHANGED samplingVars
  BY <1>2 DEF SamplingInv, samplingVars
<1> QED
  BY <1>1, <1>2
  DEF Next, Serve, handleQuery, LookUp, EvalInstant, EvalRangePoint, EvalRangeEnd,
      BackendAnswers, BackendFails, vars

-----------------------------------------------------------------------------
(* Types and outcomes *)

\* What a response of each kind says.
LEMMA ResponsesAreTyped ==
  /\ \A e \in {"bad_data", "execution"} :
       sendError(e).status = e /\ sendError(e).source = "none"
  /\ \A q \in Queries :
       /\ convertToQueryData(q).status = "success" /\ convertToQueryData(q).source = "sketch"
       /\ FromBackend(q).status = "success" /\ FromBackend(q).source = "backend"
BY DEF sendError, NoResponse, convertToQueryData, FromBackend

LEMMA BumpIsTyped ==
  ASSUME RouterTypeOK, NEW names, counters' = Bump(names)
  PROVE  counters' \in [Counters -> Nat]
BY DEF RouterTypeOK, Bump

\* A step of q: it goes to phase p, with a response r if that is the end.
Step(q, p) ==
  /\ phase[q] # "done" /\ phase' = [phase EXCEPT ![q] = p]
  /\ \/ p # "done" /\ UNCHANGED response
     \/ /\ p = "done"
        /\ \E r : /\ response' = [response EXCEPT ![q] = r]
                  /\ r.status \in {"success", "bad_data", "execution"}
                  /\ r.source \in {"none", "sketch", "backend"}
                  /\ r.source # "none" <=> r.status = "success"

LEMMA StepKeeps ==
  ASSUME RouterTypeOK, OutcomeFits, NEW q \in Queries, NEW p \in Phases, Step(q, p),
         covered \subseteq covered', p = "eval" => q \in covered'
  PROVE  /\ OutcomeFits'
         /\ phase' \in [Queries -> Phases] /\ response' = [d \in Queries |-> response'[d]]
<1>1. /\ phase' \in [Queries -> Phases] /\ phase'[q] = p
      /\ \A d \in Queries \ {q} : phase'[d] = phase[d]
  BY DEF Step, RouterTypeOK
<1>2. \A d \in Queries \ {q} : response'[d] = response[d]
  BY DEF Step, RouterTypeOK
<1>3. CASE p # "done" /\ UNCHANGED response
  <2>1. response'[q].status = "none" /\ response'[q].source = "none"
    BY <1>3 DEF OutcomeFits, Step
  <2> QED
    BY <1>1, <1>2, <1>3, <2>1 DEF OutcomeFits, RouterTypeOK
<1>4. CASE p = "done"
  <2>1. PICK r : /\ response' = [response EXCEPT ![q] = r]
                 /\ r.status \in {"success", "bad_data", "execution"}
                 /\ r.source \in {"none", "sketch", "backend"}
                 /\ r.source # "none" <=> r.status = "success"
    BY <1>4 DEF Step
  <2>2. response'[q] = r /\ response' = [d \in Queries |-> response'[d]]
    BY <2>1 DEF RouterTypeOK
  <2> QED
    BY <1>1, <1>2, <1>4, <2>1, <2>2 DEF OutcomeFits
<1> QED
  BY <1>3, <1>4 DEF Step

LEMMA TypeKept ==
  ASSUME RouterTypeOK, OutcomeFits, [Next]_vars PROVE RouterTypeOK' /\ OutcomeFits'
<1> USE ResponsesAreTyped
<1>1. ASSUME NEW q \in Queries, NEW r \in Requests, handleQuery(q, r)
      PROVE  RouterTypeOK' /\ OutcomeFits'
  <2>1. request' = [request EXCEPT ![q] = r] /\ UNCHANGED covered
    BY <1>1 DEF handleQuery
  <2>2. PICK p \in {"done", "lookup", "backend"} : Step(q, p)
    BY <1>1 DEF handleQuery, Respond, Step
  <2>3. counters' \in [Counters -> Nat]
    BY <1>1, BumpIsTyped DEF handleQuery
  <2>4. request' \in [Queries -> Requests \cup {NoRequest}]
    BY <2>1 DEF RouterTypeOK
  <2> QED
    BY <2>1, <2>2, <2>3, <2>4, StepKeeps DEF RouterTypeOK, Phases
<1>2. ASSUME NEW q \in Queries, LookUp(q) PROVE RouterTypeOK' /\ OutcomeFits'
  <2>1. UNCHANGED request /\ covered \subseteq covered' /\ covered' \subseteq Queries
    BY <1>2 DEF LookUp, RouterTypeOK
  <2>2. PICK p \in {"eval", "backend"} : Step(q, p) /\ (p = "eval" => q \in covered')
    BY <1>2 DEF LookUp, Miss, Step
  <2>3. counters' \in [Counters -> Nat]
    BY <1>2, BumpIsTyped DEF LookUp, Miss, RouterTypeOK
  <2> QED
    BY <2>1, <2>2, <2>3, StepKeeps DEF RouterTypeOK, Phases
<1>3. ASSUME NEW q \in Queries, EvalInstant(q) \/ EvalRangeEnd(q)
      PROVE  RouterTypeOK' /\ OutcomeFits'
  <2>1. UNCHANGED <<request, covered>>
    BY <1>3 DEF EvalInstant, EvalRangeEnd
  <2>2. PICK p \in {"done", "backend"} : Step(q, p)
    BY <1>3 DEF EvalInstant, EvalRangeEnd, Hit, Miss, Respond, Step
  <2>3. counters' \in [Counters -> Nat]
    BY <1>3, BumpIsTyped DEF EvalInstant, EvalRangeEnd, Hit, Miss
  <2> QED
    BY <2>1, <2>2, <2>3, StepKeeps DEF RouterTypeOK, Phases
<1>4. ASSUME NEW q \in Queries, BackendAnswers(q) \/ BackendFails(q)
      PROVE  RouterTypeOK' /\ OutcomeFits'
  <2>1. UNCHANGED <<request, covered>>
    BY <1>4 DEF BackendAnswers, BackendFails
  <2>2. Step(q, "done")
    BY <1>4 DEF BackendAnswers, BackendFails, Respond, Step
  <2>3. counters' \in [Counters -> Nat]
    BY <1>4, BumpIsTyped DEF BackendAnswers, BackendFails, RouterTypeOK
  <2> QED
    BY <2>1, <2>2, <2>3, StepKeeps DEF RouterTypeOK, Phases
<1>5. CASE UNCHANGED <<phase, request, response, counters, covered>>
  BY <1>5 DEF RouterTypeOK, OutcomeFits
<1> QED
  BY <1>1, <1>2, <1>3, <1>4, <1>5 DEF Next, Serve, EvalRangePoint, routerVars, vars

-----------------------------------------------------------------------------
(* Counters *)

LEMMA Finite ==
  ASSUME NEW S \in SUBSET Queries
  PROVE  IsFiniteSet(S) /\ Cardinality(S) \in Nat
BY RouterAssumption, FS_Subset, FS_CardinalityType

\* A set of queries that only q may have entered or left.
LEMMA Recount ==
  ASSUME NEW S \in SUBSET Queries, NEW T \in SUBSET Queries, NEW q \in Queries,
         S \ {q} = T \ {q}
  PROVE  Cardinality(T) = Cardinality(S) + (IF q \in T THEN 1 ELSE 0)
                                         - (IF q \in S THEN 1 ELSE 0)
<1> DEFINE R == S \ {q}
<1>1. R \in SUBSET Queries /\ Cardinality(R) \in Nat
  BY Finite
<1>2. Cardinality(S) = Cardinality(R) + (IF q \in S THEN 1 ELSE 0)
  <2>1. CASE q \in S
    <3>1. S = R \cup {q} /\ q \notin R
      BY <2>1
    <3> HIDE DEF R
    <3> QED
      BY <1>1, <2>1, <3>1, Finite, FS_AddElement
  <2>2. CASE q \notin S
    BY <1>1, <2>2
  <2> QED
    BY <2>1, <2>2
<1>3. Cardinality(T) = Cardinality(R) + (IF q \in T THEN 1 ELSE 0)
  <2>1. CASE q \in T
    <3>1. T = R \cup {q} /\ q \notin R
      BY <2>1
    <3> HIDE DEF R
    <3> QED
      BY <1>1, <2>1, <3>1, Finite, FS_AddElement
  <2>2. CASE q \notin T
    <3>1. T = R
      BY <2>2
    <3> HIDE DEF R
    <3> QED
      BY <1>1, <2>2, <3>1
  <2> QED
    BY <2>1, <2>2
<1> HIDE DEF R
<1> QED
  BY <1>1, <1>2, <1>3

LEMMA Moves ==
  ASSUME RouterTypeOK, NEW q \in Queries, NEW p, phase' = [phase EXCEPT ![q] = p],
         NEW S
  PROVE  /\ Cardinality(In(S)) \in Nat
         /\ Cardinality(In(S)') = Cardinality(In(S)) + (IF p \in S THEN 1 ELSE 0)
                                                     - (IF phase[q] \in S THEN 1 ELSE 0)
<1>1. In(S) \in SUBSET Queries /\ In(S)' \in SUBSET Queries
  BY DEF In
<1>2. In(S) \ {q} = In(S)' \ {q}
  BY DEF In, RouterTypeOK
<1>3. (q \in In(S)' <=> p \in S) /\ (q \in In(S) <=> phase[q] \in S)
  BY DEF In, RouterTypeOK
<1> QED
  BY <1>1, <1>2, <1>3, Recount, Finite

LEMMA Answers ==
  ASSUME RouterTypeOK, NEW q \in Queries, NEW r, response' = [response EXCEPT ![q] = r],
         response[q].status = "none", response[q].source = "none"
  PROVE  /\ \A st \in {"bad_data", "execution"} :
              Cardinality(Answered(st)') =
                Cardinality(Answered(st)) + (IF r.status = st THEN 1 ELSE 0)
         /\ \A o \in {"sketch", "backend"} :
              Cardinality(From(o)') = Cardinality(From(o)) + (IF r.source = o THEN 1 ELSE 0)
<1>1. response'[q] = r /\ \A d \in Queries \ {q} : response'[d] = response[d]
  BY DEF RouterTypeOK
<1>2. ASSUME NEW st \in {"bad_data", "execution"}
      PROVE  Cardinality(Answered(st)') =
               Cardinality(Answered(st)) + (IF r.status = st THEN 1 ELSE 0)
  <2>1. Answered(st) \in SUBSET Queries /\ Answered(st)' \in SUBSET Queries
    BY DEF Answered
  <2>2. Answered(st) \ {q} = Answered(st)' \ {q}
    BY <1>1 DEF Answered
  <2>3. (q \in Answered(st)' <=> r.status = st) /\ q \notin Answered(st)
    BY <1>1 DEF Answered
  <2> QED
    BY <2>1, <2>2, <2>3, Recount, Finite
<1>3. ASSUME NEW o \in {"sketch", "backend"}
      PROVE  Cardinality(From(o)') = Cardinality(From(o)) + (IF r.source = o THEN 1 ELSE 0)
  <2>1. From(o) \in SUBSET Queries /\ From(o)' \in SUBSET Queries
    BY DEF From
  <2>2. From(o) \ {q} = From(o)' \ {q}
    BY <1>1 DEF From
  <2>3. (q \in From(o)' <=> r.source = o) /\ q \notin From(o)
    BY <1>1 DEF From
  <2> QED
    BY <2>1, <2>2, <2>3, Recount, Finite
<1> QED
  BY <1>2, <1>3

Active == {"lookup", "eval", "backend", "done"}
Tried == {"lookup", "eval"}

LEMMA Numbers ==
  ASSUME RouterTypeOK
  PROVE  /\ \A c \in Counters : counters[c] \in Nat
         /\ \A S \in {Active, Tried, {"backend"}} : Cardinality(In(S)) \in Nat
         /\ \A st \in {"bad_data", "execution"} : Cardinality(Answered(st)) \in Nat
         /\ \A o \in {"sketch", "backend"} : Cardinality(From(o)) \in Nat
<1>1. \A S : In(S) \in SUBSET Queries /\ Answered(S) \in SUBSET Queries /\ From(S) \in SUBSET Queries
  BY DEF In, Answered, From
<1> QED
  BY <1>1, Finite DEF RouterTypeOK

\* A query that moves on without an answer.
LEMMA MoveKeeps ==
  ASSUME RouterTypeOK, CountersFit, NEW q \in Queries, UNCHANGED response,
         NEW p \in Phases, phase' = [phase EXCEPT ![q] = p],
         NEW names, counters' = Bump(names),
         \/ phase[q] = "idle" /\ p = "lookup" /\ names = {"requests", "sketchQueries"}
         \/ phase[q] = "idle" /\ p = "backend" /\ names = {"requests", "backendQueries"}
         \/ phase[q] = "lookup" /\ p = "eval" /\ names = {}
         \/ phase[q] \in Tried /\ p = "backend" /\ names = {"sketchMisses", "backendQueries"}
  PROVE  CountersFit'
<1>1. \A S : Cardinality(In(S)') = Cardinality(In(S)) + (IF p \in S THEN 1 ELSE 0)
                                                     - (IF phase[q] \in S THEN 1 ELSE 0)
  BY Moves
<1>2. \A st : Answered(st)' = Answered(st) /\ From(st)' = From(st)
  BY DEF Answered, From
<1>3. \A c \in Counters : counters'[c] = counters[c] + (IF c \in names THEN 1 ELSE 0)
  BY DEF Bump
<1>4. CASE phase[q] = "idle" /\ p = "lookup" /\ names = {"requests", "sketchQueries"}
  <2>1. /\ Cardinality(In(Active)') = Cardinality(In(Active)) + 1
        /\ Cardinality(In(Tried)') = Cardinality(In(Tried)) + 1
        /\ Cardinality(In({"backend"})') = Cardinality(In({"backend"}))
    BY <1>1, <1>4, Numbers DEF Active, Tried
  <2>2. /\ counters'["requests"] = counters["requests"] + 1
        /\ counters'["sketchQueries"] = counters["sketchQueries"] + 1
        /\ \A c \in {"errors", "sketchHits", "sketchMisses", "backendQueries",
                     "executionErrors"} : counters'[c] = counters[c]
    BY <1>3, <1>4, Numbers DEF Counters
  <2>3. counters'["sketchQueries"] =
          counters'["sketchHits"] + counters'["sketchMisses"] + Cardinality(In(Tried)')
    BY <2>1, <2>2, Numbers DEF CountersFit, Counters, Tried
  <2> QED
    BY <1>2, <2>1, <2>2, <2>3, Numbers DEF CountersFit, Counters, Active, Tried
<1>5. CASE phase[q] = "idle" /\ p = "backend" /\ names = {"requests", "backendQueries"}
  <2>1. /\ Cardinality(In(Active)') = Cardinality(In(Active)) + 1
        /\ Cardinality(In(Tried)') = Cardinality(In(Tried))
        /\ Cardinality(In({"backend"})') = Cardinality(In({"backend"})) + 1
    BY <1>1, <1>5, Numbers DEF Active, Tried
  <2>2. /\ counters'["requests"] = counters["requests"] + 1
        /\ counters'["backendQueries"] = counters["backendQueries"] + 1
        /\ \A c \in {"errors", "sketchHits", "sketchMisses", "sketchQueries",
                     "executionErrors"} : counters'[c] = counters[c]
    BY <1>3, <1>5, Numbers DEF Counters
  <2> QED
    BY <1>2, <2>1, <2>2, Numbers DEF CountersFit, Counters, Active, Tried
<1>6. CASE phase[q] = "lookup" /\ p = "eval" /\ names = {}
  <2>1. /\ Cardinality(In(Active)') = Cardinality(In(Active))
        /\ Cardinality(In(Tried)') = Cardinality(In(Tried))
        /\ Cardinality(In({"backend"})') = Cardinality(In({"backend"}))
    BY <1>1, <1>6, Numbers DEF Active, Tried
  <2>2. \A c \in Counters : counters'[c] = counters[c]
    BY <1>3, <1>6, Numbers
  <2> QED
    BY <1>2, <2>1, <2>2 DEF CountersFit, Counters, Active, Tried
<1>7. CASE phase[q] \in Tried /\ p = "backend" /\ names = {"sketchMisses", "backendQueries"}
  <2>1. /\ Cardinality(In(Active)') = Cardinality(In(Active))
        /\ Cardinality(In(Tried)') = Cardinality(In(Tried)) - 1
        /\ Cardinality(In({"backend"})') = Cardinality(In({"backend"})) + 1
    BY <1>1, <1>7, Numbers DEF Active, Tried
  <2>2. /\ counters'["sketchMisses"] = counters["sketchMisses"] + 1
        /\ counters'["backendQueries"] = counters["backendQueries"] + 1
        /\ \A c \in {"requests", "errors", "sketchHits", "sketchQueries",
                     "executionErrors"} : counters'[c] = counters[c]
    BY <1>3, <1>7, Numbers DEF Counters
  <2> QED
    BY <1>2, <2>1, <2>2, Numbers DEF CountersFit, Counters, Active, Tried
<1> QED
  BY <1>4, <1>5, <1>6, <1>7

\* A query that is answered.
LEMMA AnswerKeeps ==
  ASSUME RouterTypeOK, OutcomeFits, CountersFit, NEW q \in Queries,
         phase' = [phase EXCEPT ![q] = "done"],
         NEW r, response' = [response EXCEPT ![q] = r],
         NEW names, counters' = Bump(names),
         \/ /\ phase[q] = "idle" /\ r.status \in {"bad_data", "execution"} /\ r.source = "none"
            /\ names \in {{"requests", "errors"}, {"requests", "errors", "parsingErrors"}}
         \/ /\ phase[q] = "eval" /\ r.status = "success" /\ r.source = "sketch"
            /\ names = {"sketchHits"}
         \/ /\ phase[q] = "backend" /\ r.status = "success" /\ r.source = "backend"
            /\ names = {}
         \/ /\ phase[q] = "backend" /\ r.status = "execution" /\ r.source = "none"
            /\ names = {"executionErrors", "errors"}
  PROVE  CountersFit'
<1>1. \A S : Cardinality(In(S)') = Cardinality(In(S)) + (IF "done" \in S THEN 1 ELSE 0)
                                                     - (IF phase[q] \in S THEN 1 ELSE 0)
  BY Moves, ZenonT(40)
<1>2. response[q].status = "none" /\ response[q].source = "none"
  BY DEF OutcomeFits
<1>3. /\ \A st \in {"bad_data", "execution"} :
           Cardinality(Answered(st)') =
             Cardinality(Answered(st)) + (IF r.status = st THEN 1 ELSE 0)
      /\ \A o \in {"sketch", "backend"} :
           Cardinality(From(o)') = Cardinality(From(o)) + (IF r.source = o THEN 1 ELSE 0)
  BY <1>2, Answers
<1>4. \A c \in Counters : counters'[c] = counters[c] + (IF c \in names THEN 1 ELSE 0)
  BY DEF Bump
<1>5. CASE /\ phase[q] = "idle" /\ r.status \in {"bad_data", "execution"} /\ r.source = "none"
           /\ names \in {{"requests", "errors"}, {"requests", "errors", "parsingErrors"}}
  <2>1. /\ Cardinality(In(Active)') = Cardinality(In(Active)) + 1
        /\ Cardinality(In(Tried)') = Cardinality(In(Tried))
        /\ Cardinality(In({"backend"})') = Cardinality(In({"backend"}))
    BY <1>1, <1>5, Numbers DEF Active, Tried
  <2>2. /\ counters'["requests"] = counters["requests"] + 1
        /\ counters'["errors"] = counters["errors"] + 1
        /\ \A c \in {"sketchHits", "sketchMisses", "sketchQueries", "backendQueries",
                     "executionErrors"} : counters'[c] = counters[c]
    BY <1>4, <1>5, Numbers DEF Counters
  <2>3. /\ \A o \in {"sketch", "backend"} : Cardinality(From(o)') = Cardinality(From(o))
        /\ Cardinality(Answered("bad_data")') + Cardinality(Answered("execution")')
             = Cardinality(Answered("bad_data")) + Cardinality(Answered("execution")) + 1
    BY <1>3, <1>5, Numbers
  <2> QED
    BY <2>1, <2>2, <2>3, Numbers DEF CountersFit, Counters, Active, Tried
<1>6. CASE /\ phase[q] = "eval" /\ r.status = "success" /\ r.source = "sketch"
           /\ names = {"sketchHits"}
  <2>1. /\ Cardinality(In(Active)') = Cardinality(In(Active))
        /\ Cardinality(In(Tried)') = Cardinality(In(Tried)) - 1
        /\ Cardinality(In({"backend"})') = Cardinality(In({"backend"}))
    BY <1>1, <1>6, Numbers DEF Active, Tried
  <2>2. /\ counters'["sketchHits"] = counters["sketchHits"] + 1
        /\ \A c \in {"requests", "errors", "sketchMisses", "sketchQueries", "backendQueries",
                     "executionErrors"} : counters'[c] = counters[c]
    BY <1>4, <1>6, Numbers DEF Counters
  <2>3. /\ Cardinality(From("sketch")') = Cardinality(From("sketch")) + 1
        /\ Cardinality(From("backend")') = Cardinality(From("backend"))
        /\ \A st \in {"bad_data", "execution"} :
             Cardinality(Answered(st)') = Cardinality(Answered(st))
    BY <1>3, <1>6, Numbers
  <2> QED
    BY <2>1, <2>2, <2>3, Numbers DEF CountersFit, Counters, Active, Tried
<1>7. CASE /\ phase[q] = "backend" /\ r.status = "success" /\ r.source = "backend"
           /\ names = {}
  <2>1. /\ Cardinality(In(Active)') = Cardinality(In(Active))
        /\ Cardinality(In(Tried)') = Cardinality(In(Tried))
        /\ Cardinality(In({"backend"})') = Cardinality(In({"backend"})) - 1
    BY <1>1, <1>7, Numbers DEF Active, Tried
  <2>2. \A c \in Counters : counters'[c] = counters[c]
    BY <1>4, <1>7, Numbers
  <2>3. /\ Cardinality(From("backend")') = Cardinality(From("backend")) + 1
        /\ Cardinality(From("sketch")') = Cardinality(From("sketch"))
        /\ \A st \in {"bad_data", "execution"} :
             Cardinality(Answered(st)') = Cardinality(Answered(st))
    BY <1>3, <1>7, Numbers
  <2> QED
    BY <2>1, <2>2, <2>3, Numbers DEF CountersFit, Counters, Active, Tried
<1>8. CASE /\ phase[q] = "backend" /\ r.status = "execution" /\ r.source = "none"
           /\ names = {"executionErrors", "errors"}
  <2>1. /\ Cardinality(In(Active)') = Cardinality(In(Active))
        /\ Cardinality(In(Tried)') = Cardinality(In(Tried))
        /\ Cardinality(In({"backend"})') = Cardinality(In({"backend"})) - 1
    BY <1>1, <1>8, Numbers DEF Active, Tried
  <2>2. /\ counters'["errors"] = counters["errors"] + 1
        /\ counters'["executionErrors"] = counters["executionErrors"] + 1
        /\ \A c \in {"requests", "sketchHits", "sketchMisses", "sketchQueries",
                     "backendQueries"} : counters'[c] = counters[c]
    BY <1>4, <1>8, Numbers DEF Counters
  <2>3. /\ \A o \in {"sketch", "backend"} : Cardinality(From(o)') = Cardinality(From(o))
        /\ Cardinality(Answered("execution")') = Cardinality(Answered("execution")) + 1
        /\ Cardinality(Answered("bad_data")') = Cardinality(Answered("bad_data"))
    BY <1>3, <1>8, Numbers
  <2> QED
    BY <2>1, <2>2, <2>3, Numbers DEF CountersFit, Counters, Active, Tried
<1> QED
  BY <1>5, <1>6, <1>7, <1>8

LEMMA CountersKept ==
  ASSUME RouterTypeOK, OutcomeFits, CountersFit, [Next]_vars PROVE CountersFit'
<1> USE ResponsesAreTyped
<1>1. ASSUME NEW q \in Queries, NEW r \in Requests, handleQuery(q, r) PROVE CountersFit'
  <2>1. CASE /\ phase[q] = "idle" /\ phase' = [phase EXCEPT ![q] = "done"]
             /\ \E e \in {"bad_data", "execution"} :
                  response' = [response EXCEPT ![q] = sendError(e)]
             /\ \E names \in {{"requests", "errors"}, {"requests", "errors", "parsingErrors"}} :
                  counters' = Bump(names)
    <3>1. PICK e \in {"bad_data", "execution"} : response' = [response EXCEPT ![q] = sendError(e)]
      BY <2>1
    <3>2. PICK names \in {{"requests", "errors"}, {"requests", "errors", "parsingErrors"}} :
            counters' = Bump(names)
      BY <2>1
    <3> DEFINE resp == sendError(e)
    <3>3. resp.status \in {"bad_data", "execution"} /\ resp.source = "none"
      OBVIOUS
    <3> HIDE DEF resp
    <3>4. response' = [response EXCEPT ![q] = resp]
      BY <3>1 DEF resp
    <3> QED
      BY <2>1, <3>2, <3>3, <3>4, AnswerKeeps
  <2>2. CASE /\ phase[q] = "idle" /\ UNCHANGED response
             /\ \/ /\ phase' = [phase EXCEPT ![q] = "lookup"]
                   /\ counters' = Bump({"requests"} \cup {"sketchQueries"})
                \/ /\ phase' = [phase EXCEPT ![q] = "backend"]
                   /\ counters' = Bump({"requests"} \cup {"backendQueries"})
    <3>1. {"requests"} \cup {"sketchQueries"} = {"requests", "sketchQueries"}
      OBVIOUS
    <3>2. {"requests"} \cup {"backendQueries"} = {"requests", "backendQueries"}
      OBVIOUS
    <3> QED
      BY <2>2, <3>1, <3>2, MoveKeeps DEF Phases
  <2> QED
    BY <1>1, <2>1, <2>2 DEF handleQuery, Respond, RoutingCounters
<1>2. ASSUME NEW q \in Queries, phase[q] \in Tried, Miss(q) PROVE CountersFit'
  BY <1>2, MoveKeeps DEF Miss, Phases
<1>3. ASSUME NEW q \in Queries, LookUp(q) PROVE CountersFit'
  <2>1. CASE phase' = [phase EXCEPT ![q] = "eval"] /\ UNCHANGED <<counters, response>>
    <3>1. /\ In(Active)' = In(Active) /\ In(Tried)' = In(Tried)
          /\ In({"backend"})' = In({"backend"})
      BY <1>3, <2>1 DEF LookUp, In, Active, Tried, RouterTypeOK
    <3>2. \A st : Answered(st)' = Answered(st) /\ From(st)' = From(st)
      BY <2>1 DEF Answered, From
    <3> QED
      BY <2>1, <3>1, <3>2 DEF CountersFit, Active, Tried
  <2> QED
    BY <1>2, <1>3, <2>1 DEF LookUp, Tried
<1>4. ASSUME NEW q \in Queries, phase[q] = "eval", Hit(q) PROVE CountersFit'
  BY <1>4, AnswerKeeps DEF Hit, Respond
<1>5. ASSUME NEW q \in Queries, EvalInstant(q) \/ EvalRangeEnd(q) PROVE CountersFit'
  BY <1>2, <1>4, <1>5 DEF EvalInstant, EvalRangeEnd, Tried
<1>6. ASSUME NEW q \in Queries, BackendAnswers(q) PROVE CountersFit'
  <2>1. counters = Bump({})
    BY DEF Bump, RouterTypeOK
  <2> QED
    BY <1>6, <2>1, AnswerKeeps DEF BackendAnswers, Respond
<1>7. ASSUME NEW q \in Queries, BackendFails(q) PROVE CountersFit'
  BY <1>7, AnswerKeeps DEF BackendFails, Respond
<1>8. CASE UNCHANGED <<phase, response, counters>>
  <2>1. \A st : Answered(st)' = Answered(st) /\ From(st)' = From(st) /\ In(st)' = In(st)
    BY <1>8 DEF Answered, From, In
  <2> QED
    BY <1>8, <2>1 DEF CountersFit
<1> QED
  BY <1>1, <1>3, <1>5, <1>6, <1>7, <1>8 DEF Next, Serve, EvalRangePoint, routerVars, vars

-----------------------------------------------------------------------------
(* The theorems *)

LEMMA InitHolds ==
  ASSUME Init PROVE IInv
<1>1. SamplingInv
  BY SamplingAssumption DEF Init, SamplingInit, SamplingInv
<1>2. RouterTypeOK /\ OutcomeFits
  BY DEF Init, RouterInit, RouterTypeOK, OutcomeFits, NoResponse, Phases
<1>3. /\ \A S \in {Active, Tried, {"backend"}} : In(S) = {}
      /\ \A st \in {"bad_data", "execution"} : Answered(st) = {}
      /\ \A o \in {"sketch", "backend"} : From(o) = {}
  BY DEF Init, RouterInit, In, Answered, From, NoResponse, Active, Tried
<1>4. \A c \in Counters : counters[c] = 0
  BY DEF Init, RouterInit
<1>5. CountersFit
  BY <1>3, <1>4, FS_EmptySet DEF CountersFit, Counters, Active, Tried
<1> QED
  BY <1>1, <1>2, <1>5 DEF IInv

LEMMA NextKeeps ==
  IInv /\ [Next]_vars => IInv'
BY SamplingKept, TypeKept, CountersKept DEF IInv

\* Every reachable state of the drop-in's query path satisfies the inductive invariant.
THEOREM Invariance == Spec => []IInv
BY InitHolds, NextKeeps, PTL DEF Spec

\* However samples and changes of the window come, Insert leaves at most one sample more
\* than the limit in the sampling sketch.
THEOREM SizeStaysBounded == Spec => SizeIsBounded
<1>1. IInv /\ [Next]_vars => [calls' # calls => Len(Arr') <= Max_size' + 1]_samplingVars
  BY SamplingKept DEF IInv
<1> QED
  BY <1>1, Invariance, PTL DEF Spec, SizeIsBounded

\* The counters of queries, hits, misses and errors agree with the answers and with what
\* the queries are doing.
THEOREM CountersStayInAgreement == Spec => []CountersAgree
<1>1. IInv => CountersAgree
  BY DEF IInv, CountersFit, CountersAgree, In, Answered, From
<1> QED
  BY <1>1, Invariance, PTL

-----------------------------------------------------------------------------
(* QueryPromise *)

\* The variables of QueryPromise, with covered for what the sketches offer.
Asked == {q \in Queries : phase[q] # "idle"}
Excused == {q \in Queries : Faulty(q)} \cup failed
Outcome == [q \in Queries |->
              CASE response[q].status = "none" -> "none"
                [] response[q].status \in {"bad_data", "execution"} -> "failed"
                [] OTHER -> response[q].source]

Stutters == UNCHANGED <<Asked, covered, Excused, Outcome>>

\* The end of a query, possibly at once.
LEMMA SettleMaps ==
  ASSUME IInv, NEW q \in Queries, phase[q] # "done", phase' = [phase EXCEPT ![q] = "done"],
         NEW r, response' = [response EXCEPT ![q] = r], UNCHANGED covered,
         Excused' \in {Excused, Excused \cup {q}},
         \/ r.status \in {"bad_data", "execution"} /\ q \in Excused'
         \/ r.status = "success" /\ r.source = "backend"
         \/ r.status = "success" /\ r.source = "sketch" /\ q \in covered
  PROVE  Promise!PromiseNext
<1> DEFINE o == IF r.status \in {"bad_data", "execution"} THEN "failed" ELSE r.source
<1>1. response'[q] = r /\ \A d \in Queries \ {q} : response'[d] = response[d]
  BY DEF IInv, RouterTypeOK
<1>2. Outcome[q] = "none" /\ Outcome'[q] = o
  BY <1>1 DEF Outcome, IInv, OutcomeFits
<1>3. \A d \in Queries \ {q} : Outcome'[d] = Outcome[d]
  BY <1>1 DEF Outcome
<1>4. Outcome = [d \in Queries |-> Outcome[d]] /\ Outcome' = [d \in Queries |-> Outcome'[d]]
  BY DEF Outcome
<1>5. Asked' = Asked \cup {q}
  BY DEF Asked, IInv, RouterTypeOK
<1>6. /\ o \in {"sketch", "backend", "failed"}
      /\ o = "sketch" => q \in covered
      /\ o = "failed" => q \in Excused'
  OBVIOUS
<1> HIDE DEF o
<1>7. Outcome' = [Outcome EXCEPT ![q] = o]
  BY <1>2, <1>3, <1>4
<1>8. Promise!Settle(q, o)
  BY <1>2, <1>5, <1>6, <1>7 DEF Promise!Settle, Asked, Excused, Outcome
<1> QED
  BY <1>5, <1>6, <1>8 DEF Promise!PromiseNext, Asked, Excused

LEMMA StepMaps ==
  ASSUME IInv, [Next]_vars PROVE Promise!PromiseNext \/ Stutters
<1> USE ResponsesAreTyped
<1>1. ASSUME UNCHANGED <<request, failed, response, covered>>,
             \A d \in Queries : phase'[d] = "idle" <=> phase[d] = "idle"
      PROVE  Stutters
  <2>1. \A d \in Queries : Faulty(d)' <=> Faulty(d)
    BY <1>1 DEF Faulty
  <2> QED
    BY <1>1, <2>1 DEF Stutters, Asked, Excused, Outcome
<1>2. ASSUME NEW q \in Queries, NEW r \in Requests, handleQuery(q, r)
      PROVE  Promise!PromiseNext
  <2>1. /\ phase[q] = "idle" /\ request' = [request EXCEPT ![q] = r]
        /\ UNCHANGED <<covered, failed>>
        /\ \/ /\ ~r.valid \/ ParseFails(r.expr)
              /\ phase' = [phase EXCEPT ![q] = "done"]
              /\ \E e \in {"bad_data", "execution"} :
                   response' = [response EXCEPT ![q] = sendError(e)]
           \/ /\ UNCHANGED response
              /\ \E p \in {"lookup", "backend"} : phase' = [phase EXCEPT ![q] = p]
    BY <1>2 DEF handleQuery, Respond
  <2>2. \A d \in Queries \ {q} : Faulty(d)' <=> Faulty(d)
    BY <2>1 DEF Faulty, IInv, RouterTypeOK
  <2>3. ~Faulty(q)
    BY <2>1 DEF Faulty
  <2>4. Excused' \in {Excused, Excused \cup {q}}
    BY <2>1, <2>2, <2>3 DEF Excused
  <2>5. CASE UNCHANGED response /\ \E p \in {"lookup", "backend"} : phase' = [phase EXCEPT ![q] = p]
    <3>1. Asked' = Asked \cup {q} /\ Outcome' = Outcome
      BY <2>5 DEF Asked, Outcome, IInv, RouterTypeOK
    <3>2. Promise!Ask(q)
      BY <2>1, <3>1 DEF Promise!Ask, Asked, Outcome
    <3> QED
      BY <2>4, <3>2 DEF Promise!PromiseNext, Excused
  <2>6. CASE /\ ~r.valid \/ ParseFails(r.expr)
             /\ phase' = [phase EXCEPT ![q] = "done"]
             /\ \E e \in {"bad_data", "execution"} :
                  response' = [response EXCEPT ![q] = sendError(e)]
    <3>1. request'[q] = r /\ phase'[q] = "done"
      BY <2>1, <2>6 DEF IInv, RouterTypeOK
    <3>2. q \in Excused'
      BY <2>6, <3>1 DEF Excused, Faulty
    <3>3. PICK e \in {"bad_data", "execution"} : response' = [response EXCEPT ![q] = sendError(e)]
      BY <2>6
    <3> QED
      BY <2>1, <2>4, <2>6, <3>2, <3>3, SettleMaps
  <2> QED
    BY <2>1, <2>5, <2>6
<1>3. ASSUME NEW q \in Queries, phase[q] \in Tried, Miss(q), UNCHANGED <<request, failed, covered>>
      PROVE  Stutters
  <2>1. \A d \in Queries : phase'[d] = "idle" <=> phase[d] = "idle"
    BY <1>3 DEF Miss, Tried, IInv, RouterTypeOK
  <2> QED
    BY <1>1, <1>3, <2>1 DEF Miss
<1>4. ASSUME NEW q \in Queries, LookUp(q) PROVE Promise!PromiseNext \/ Stutters
  <2>1. UNCHANGED <<request, failed>> /\ phase[q] = "lookup"
    BY <1>4 DEF LookUp
  <2>2. CASE phase' = [phase EXCEPT ![q] = "eval"] /\ UNCHANGED response
             /\ covered' = covered \cup {q}
    <3>1. \A d \in Queries : Faulty(d)' <=> Faulty(d)
      BY <2>1, <2>2 DEF Faulty, IInv, RouterTypeOK
    <3>2. UNCHANGED <<Asked, Excused, Outcome>>
      BY <2>1, <2>2, <3>1 DEF Asked, Excused, Outcome, IInv, RouterTypeOK
    <3>3. q \in Asked /\ Outcome[q] = "none"
      BY <2>1 DEF Asked, Outcome, IInv, OutcomeFits
    <3> QED
      BY <2>2, <3>2, <3>3 DEF Promise!PromiseNext, Promise!Offer, Asked, Excused, Outcome
  <2>3. CASE Miss(q) /\ UNCHANGED covered
    BY <1>3, <2>1, <2>3 DEF Tried
  <2> QED
    BY <1>4, <2>2, <2>3 DEF LookUp
<1>5. ASSUME NEW q \in Queries, phase[q] = "eval", Hit(q), UNCHANGED <<request, failed, covered>>
      PROVE  Promise!PromiseNext
  <2>1. \A d \in Queries : Faulty(d)' <=> Faulty(d)
    BY <1>5 DEF Faulty, Hit, Respond, IInv, RouterTypeOK
  <2>2. Excused' = Excused
    BY <1>5, <2>1 DEF Excused
  <2>3. q \in covered
    BY <1>5 DEF IInv, OutcomeFits
  <2> QED
    BY <1>5, <2>2, <2>3, SettleMaps DEF Hit, Respond
<1>6. ASSUME NEW q \in Queries, EvalInstant(q) \/ EvalRangeEnd(q)
      PROVE  Promise!PromiseNext \/ Stutters
  BY <1>3, <1>5, <1>6 DEF EvalInstant, EvalRangeEnd, Tried
<1>7. ASSUME NEW q \in Queries, BackendAnswers(q) PROVE Promise!PromiseNext
  <2>1. \A d \in Queries : Faulty(d)' <=> Faulty(d)
    BY <1>7 DEF Faulty, BackendAnswers, Respond, IInv, RouterTypeOK
  <2>2. Excused' = Excused
    BY <1>7, <2>1 DEF Excused, BackendAnswers
  <2> QED
    BY <1>7, <2>2, SettleMaps DEF BackendAnswers, Respond
<1>8. ASSUME NEW q \in Queries, BackendFails(q) PROVE Promise!PromiseNext
  <2>1. \A d \in Queries : Faulty(d)' <=> Faulty(d)
    BY <1>8 DEF Faulty, BackendFails, Respond, IInv, RouterTypeOK
  <2>2. Excused' = Excused \cup {q}
    BY <1>8, <2>1 DEF Excused, BackendFails
  <2> QED
    BY <1>8, <2>2, SettleMaps DEF BackendFails, Respond
<1>9. CASE UNCHANGED <<phase, request, failed, response, covered>>
  BY <1>1, <1>9
<1> QED
  BY <1>2, <1>4, <1>6, <1>7, <1>8, <1>9 DEF Next, Serve, EvalRangePoint, routerVars, vars

\* The drop-in implements QueryPromise: a query is settled once, by the sketches only if
\* the look-up has said yes, and fails only if it is at fault or the backend has failed it.
THEOREM RefinesQueryPromise == Spec => ImplementsQueryPromise
<1>1. Init => Promise!PromiseInit
  BY DEF Init, RouterInit, NoResponse, Faulty, Promise!PromiseInit
<1>2. IInv /\ [Next]_vars =>
        [Promise!PromiseNext]_<<Asked, covered, Excused, Outcome>>
  BY StepMaps DEF Stutters
<1> QED
  BY <1>1, <1>2, Invariance, PTL
  DEF Spec, ImplementsQueryPromise, Promise!PromiseSpec, Asked, Excused, Outcome

-----------------------------------------------------------------------------
(* What a calm sketch has kept *)

\* How many samples were dropped from the front.
Dropped == Len(kept) - Len(Arr)

\* Samples stand in the order of their times, the sketch holds the last of them, and what
\* it dropped is older than the window.
CalmFacts ==
  /\ Dropped \in Nat
  /\ \A i \in 1..Len(Arr) : Arr[i] = kept[Dropped + i]
  /\ \A i \in 1..Dropped : kept[i].T < Cur_time - Time_window_size
  /\ \A i \in 1..Len(kept) : kept[i].T <= Cur_time
  /\ \A i, j \in 1..Len(kept) : i <= j => kept[i].T <= kept[j].T

CalmInv ==
  /\ kept \in Seq(Sample)
  /\ Cur_time \in Nat
  /\ calm => CalmFacts

\* A set of natural numbers has a least one.
LEMMA SmallestNat ==
  ASSUME NEW S \in SUBSET Nat, S # {}
  PROVE  \E n \in S : \A m \in S : n <= m
<1> DEFINE R == OpToRel(<, Nat)
<1>1. PICK n \in S : \A m \in S : ~ (<<m, n>> \in R)
  BY NatLessThanWellFounded, WFMin
<1>2. ASSUME NEW m \in S PROVE ~(m < n)
  BY <1>1 DEF OpToRel
<1>3. \A m \in S : m \in Nat /\ n \in Nat
  BY <1>1
<1> HIDE DEF R
<1> QED
  BY <1>1, <1>2, <1>3

\* Expired counts samples at the front that are all older than the window of t.
LEMMA ExpiredAreOld ==
  ASSUME SamplingInv, NEW t \in Times, NEW j \in 1..Expired(t)
  PROVE  j \in 1..Len(Arr) /\ Arr[j].T < t - Time_window_size
<1> DEFINE old == {i \in DOMAIN Arr : \A k \in 1..i : Arr[k].T < t - Time_window_size}
<1>1. Len(Arr) \in Nat /\ DOMAIN Arr = 1..Len(Arr)
  BY DEF SamplingInv
<1>2. Expired(t) = Cardinality(old)
  BY DEF Expired
<1>3. j \in old
  <2> SUFFICES ASSUME j \notin old PROVE FALSE
    OBVIOUS
  <2>1. j \in Int /\ j >= 1 /\ Cardinality(old) \in Int => j <= Cardinality(old)
    BY <1>2
  <2>2. ASSUME NEW i \in old PROVE i \in 1..(j - 1)
    <3>1. i \in 1..Len(Arr) /\ \A k \in 1..i : Arr[k].T < t - Time_window_size
      BY <1>1
    <3>2. CASE j <= i
      <4>1. j \in 1..Len(Arr) /\ \A k \in 1..j : k \in 1..i
        BY <1>1, <2>1, <3>1, <3>2
      <4> QED
        BY <1>1, <3>1, <4>1
    <3>3. CASE ~(j <= i)
      BY <2>1, <3>1, <3>3
    <3> QED
      BY <3>2, <3>3
  <2> HIDE DEF old
  <2>3. IsFiniteSet(1..(j - 1)) /\ Cardinality(1..(j - 1)) = j - 1
    <3>1. j - 1 \in Int /\ 1 \in Int
      BY <2>1
    <3>2. IsFiniteSet(1..(j - 1)) /\ Cardinality(1..(j - 1)) = IF 1 > j - 1 THEN 0 ELSE (j - 1) - 1 + 1
      BY <3>1, FS_Interval
    <3> QED
      BY <2>1, <3>2
  <2>4. IsFiniteSet(old) /\ Cardinality(old) <= j - 1 /\ Cardinality(old) \in Nat
    BY <2>2, <2>3, FS_Subset, FS_CardinalityType
  <2> QED
    BY <2>1, <2>4
<1>4. j \in 1..j
  BY <1>2, <1>3, <1>1
<1> QED
  BY <1>1, <1>3, <1>4

\* No more is shifted out for the window than has expired.
LEMMA ShiftIsExpired ==
  ASSUME SamplingInv, NEW t \in Times
  PROVE  \A j \in 1..WindowShift(t) : j \in 1..Expired(t)
<1>1. Len(Arr) \in Nat
  BY DEF SamplingInv
<1>2. CASE Expired(t) = Len(Arr)
  BY <1>1, <1>2 DEF WindowShift
<1>3. CASE Expired(t) # Len(Arr)
  BY <1>3 DEF WindowShift
<1> QED
  BY <1>2, <1>3


\* Samples have natural numbers as times and integers as values.
LEMMA TimesAreNat ==
  ASSUME CalmInv
  PROVE  \A i \in 1..Len(kept) : kept[i].T \in Nat /\ kept[i].F \in Int
<1> SUFFICES ASSUME NEW i \in 1..Len(kept) PROVE kept[i].T \in Nat /\ kept[i].F \in Int
  OBVIOUS
<1>1. kept[i] \in Sample
  BY DEF CalmInv
<1>2. kept[i].T \in Times /\ kept[i].F \in Values
  BY <1>1 DEF Sample
<1> QED
  BY <1>2, SamplingAssumption

\* A sample of the present or later, which pushes out expired samples only, keeps the facts.
LEMMA InsertKeepsCalm ==
  ASSUME SamplingInv, CalmInv, NEW t \in Times, NEW x \in Values, Insert(t, x)
  PROVE  CalmInv'
<1> DEFINE shift == ApplyLimit(WindowShift(t))
           rest == SubSeq(Arr, shift + 1, Len(Arr))
           sample == [T |-> t, F |-> x]
<1>1. /\ Cur_time' = t
      /\ Time_window_size' = Time_window_size
      /\ calm' = (calm /\ t >= Cur_time /\ shift <= WindowShift(t))
      /\ \/ Arr' = Append(rest, sample) /\ kept' = Append(kept, sample)
         \/ Arr' = rest /\ kept' = kept
  BY DEF Insert
<1>2. Len(Arr) \in Nat /\ Max_size \in Nat /\ Time_window_size \in Nat /\ Arr \in Seq(Sample)
  BY DEF SamplingInv
<1>3. WindowShift(t) \in 0..Len(Arr) /\ shift \in 0..Len(Arr)
  BY <1>2, ShiftIsIndex DEF ApplyLimit
<1>4. t \in Nat /\ sample \in Sample /\ sample.T = t
  BY SamplingAssumption DEF Sample
<1>5. shift <= WindowShift(t) => \A j \in 1..shift : Arr[j].T < t - Time_window_size
  <2> SUFFICES ASSUME shift <= WindowShift(t), NEW j \in 1..shift
               PROVE  Arr[j].T < t - Time_window_size
    OBVIOUS
  <2>1. j \in 1..WindowShift(t)
    BY <1>3
  <2> QED
    BY <2>1, ShiftIsExpired, ExpiredAreOld
<1> HIDE DEF shift
<1>6. /\ rest \in Seq(Sample)
      /\ Len(rest) = Len(Arr) - shift
      /\ \A i \in 1..Len(rest) : rest[i] = Arr[shift + i]
  BY <1>2, <1>3
<1>7. kept \in Seq(Sample) /\ Cur_time \in Nat /\ Len(kept) \in Nat
  BY DEF CalmInv
<1>8. \A i \in 1..Len(kept) : kept[i].T \in Nat
  BY TimesAreNat
<1> HIDE DEF rest, sample
<1>9. kept' \in Seq(Sample) /\ Cur_time' \in Nat
  BY <1>1, <1>4, <1>7
<1>10. ASSUME calm' PROVE CalmFacts'
  <2>1. calm /\ t >= Cur_time /\ shift <= WindowShift(t) /\ CalmFacts
    BY <1>1, <1>10 DEF CalmInv
  <2> DEFINE d == Len(kept) - Len(Arr)
             e == d + shift
  <2>2. /\ d \in Nat
        /\ \A i \in 1..Len(Arr) : Arr[i] = kept[d + i]
        /\ \A i \in 1..d : kept[i].T < Cur_time - Time_window_size
        /\ \A i \in 1..Len(kept) : kept[i].T <= Cur_time
        /\ \A i, j \in 1..Len(kept) : i <= j => kept[i].T <= kept[j].T
    BY <2>1 DEF CalmFacts, Dropped
  <2>3. Len(Arr) = Len(kept) - d
    BY <1>2, <1>7
  <2>4. e \in Nat /\ Len(rest) = Len(kept) - e /\ e <= Len(kept)
    BY <1>2, <1>3, <1>6, <1>7, <2>2
  <2>5. \A i \in 1..Len(rest) : rest[i] = kept[e + i]
    <3> SUFFICES ASSUME NEW i \in 1..Len(rest) PROVE rest[i] = kept[e + i]
      OBVIOUS
    <3>1. rest[i] = Arr[shift + i] /\ shift + i \in 1..Len(Arr)
      BY <1>2, <1>3, <1>6
    <3>2. Arr[shift + i] = kept[d + (shift + i)]
      BY <2>2, <3>1
    <3>3. d + (shift + i) = e + i
      BY <1>3, <2>2
    <3> QED
      BY <3>1, <3>2, <3>3
  <2>6. \A i \in 1..e : kept[i].T < t - Time_window_size
    <3> SUFFICES ASSUME NEW i \in 1..e PROVE kept[i].T < t - Time_window_size
      OBVIOUS
    <3>0. i \in 1..Len(kept) /\ kept[i].T \in Nat
      BY <1>7, <1>8, <2>4
    <3>1. CASE i <= d
      <4>1. kept[i].T < Cur_time - Time_window_size
        BY <2>2, <2>4, <3>1
      <4> QED
        BY <1>2, <1>4, <1>7, <2>1, <3>0, <4>1
    <3>2. CASE ~(i <= d)
      <4>1. i - d \in 1..shift /\ i - d \in 1..Len(Arr) /\ d + (i - d) = i
        BY <1>2, <1>3, <2>2, <2>4, <3>2
      <4>2. Arr[i - d] = kept[d + (i - d)]
        BY <2>2, <4>1
      <4>3. Arr[i - d].T < t - Time_window_size
        BY <1>5, <2>1, <4>1
      <4> QED
        BY <4>1, <4>2, <4>3
    <3> QED
      BY <3>1, <3>2
  <2>7. \A i \in 1..Len(kept) : kept[i].T <= t
    BY <1>4, <1>7, <1>8, <2>1, <2>2
  <2> HIDE DEF d, e
  <2>8. CASE Arr' = rest /\ kept' = kept
    <3>1. Dropped' = e
      BY <1>6, <1>7, <2>4, <2>8 DEF Dropped
    <3> QED
      BY <1>1, <2>2, <2>4, <2>5, <2>6, <2>7, <2>8, <3>1 DEF CalmFacts
  <2>9. CASE Arr' = Append(rest, sample) /\ kept' = Append(kept, sample)
    <3>1. /\ Len(Arr') = Len(rest) + 1 /\ Len(kept') = Len(kept) + 1
          /\ \A i \in 1..Len(rest) : Arr'[i] = rest[i]
          /\ \A i \in 1..Len(kept) : kept'[i] = kept[i]
          /\ Arr'[Len(rest) + 1] = sample /\ kept'[Len(kept) + 1] = sample
      BY <1>4, <1>6, <1>7, <2>9
    <3>2. Len(rest) \in Nat
      BY <1>6
    <3>3. Dropped' = e
      BY <1>7, <2>4, <3>1, <3>2 DEF Dropped
    <3>4. \A i \in 1..Len(Arr') : Arr'[i] = kept'[e + i]
      <4> SUFFICES ASSUME NEW i \in 1..(Len(rest) + 1) PROVE Arr'[i] = kept'[e + i]
        BY <3>1
      <4>1. CASE i \in 1..Len(rest)
        <5>1. e + i \in 1..Len(kept)
          BY <1>7, <2>4, <3>2, <4>1
        <5> QED
          BY <2>5, <3>1, <4>1, <5>1
      <4>2. CASE i = Len(rest) + 1
        <5>1. e + i = Len(kept) + 1
          BY <1>7, <2>4, <3>2, <4>2
        <5> QED
          BY <3>1, <4>2, <5>1
      <4> QED
        BY <3>2, <4>1, <4>2
    <3>5. \A i \in 1..e : kept'[i].T < t - Time_window_size
      <4>1. \A i \in 1..e : i \in 1..Len(kept)
        BY <1>7, <2>4
      <4> QED
        BY <2>6, <3>1, <4>1
    <3>6. \A i \in 1..(Len(kept) + 1) : i \in 1..Len(kept) \/ i = Len(kept) + 1
      BY <1>7
    <3>7. kept'[Len(kept) + 1].T = t /\ \A i \in 1..Len(kept) : kept'[i].T <= t
      BY <1>4, <2>7, <3>1
    <3>8. \A i \in 1..Len(kept') : kept'[i].T <= t
      BY <1>4, <3>1, <3>6, <3>7
    <3>9. \A i, j \in 1..Len(kept') : i <= j => kept'[i].T <= kept'[j].T
      <4> SUFFICES ASSUME NEW i \in 1..(Len(kept) + 1), NEW j \in 1..(Len(kept) + 1), i <= j
                   PROVE  kept'[i].T <= kept'[j].T
        BY <3>1
      <4>1. CASE j = Len(kept) + 1
        BY <3>1, <3>7, <3>8, <4>1
      <4>2. CASE j \in 1..Len(kept)
        <5>1. i \in 1..Len(kept)
          BY <1>7, <4>2
        <5> QED
          BY <2>2, <3>1, <4>2, <5>1
      <4> QED
        BY <3>6, <4>1, <4>2
    <3> QED
      BY <1>1, <2>4, <3>3, <3>4, <3>5, <3>8, <3>9 DEF CalmFacts
  <2> QED
    BY <1>1, <2>8, <2>9
<1> QED
  BY <1>9, <1>10 DEF CalmInv

\* A narrower window makes what was dropped no younger.
LEMMA UpdateKeepsCalm ==
  ASSUME SamplingInv, CalmInv, NEW w \in Windows, UpdateWindow(w)
  PROVE  CalmInv'
<1>1. w \in Nat /\ Time_window_size \in Nat /\ Cur_time \in Nat /\ kept \in Seq(Sample)
  BY SamplingAssumption DEF SamplingInv, CalmInv
<1>2. \A i \in 1..Len(kept) : kept[i].T \in Nat
  BY TimesAreNat
<1>3. /\ UNCHANGED <<Arr, Cur_time, kept>>
      /\ Time_window_size' = w
      /\ calm' = (calm /\ w <= Time_window_size)
  BY DEF UpdateWindow
<1>4. ASSUME calm' PROVE CalmFacts'
  <2>1. CalmFacts /\ w <= Time_window_size
    BY <1>3, <1>4 DEF CalmInv
  <2>2. Dropped' = Dropped /\ Dropped \in Nat /\ Dropped <= Len(kept)
    <3>1. Len(kept) \in Nat /\ Len(Arr) \in Nat
      BY <1>1 DEF SamplingInv
    <3> QED
      BY <1>3, <2>1, <3>1 DEF Dropped, CalmFacts
  <2>3. \A i \in 1..Dropped : kept[i].T < Cur_time - w
    <3> SUFFICES ASSUME NEW i \in 1..Dropped PROVE kept[i].T < Cur_time - w
      OBVIOUS
    <3>1. kept[i].T < Cur_time - Time_window_size
      BY <2>1 DEF CalmFacts
    <3>2. i \in 1..Len(kept)
      BY <1>1, <2>2
    <3> QED
      BY <1>1, <1>2, <2>1, <3>1, <3>2
  <2> QED
    BY <1>3, <2>1, <2>2, <2>3 DEF CalmFacts
<1> QED
  BY <1>1, <1>3, <1>4 DEF CalmInv

\* Every step keeps the facts about a calm sketch.
LEMMA CalmKept ==
  ASSUME SamplingInv, CalmInv, [Next]_vars
  PROVE  CalmInv'
<1>1. CASE SamplingNext
  BY <1>1, InsertKeepsCalm, UpdateKeepsCalm DEF SamplingNext
<1>2. CASE UNCHANGED samplingVars
  BY <1>2 DEF CalmInv, CalmFacts, Dropped, samplingVars
<1> QED
  BY <1>1, <1>2
  DEF Next, Serve, handleQuery, LookUp, EvalInstant, EvalRangePoint, EvalRangeEnd,
      BackendAnswers, BackendFails, vars

-----------------------------------------------------------------------------
(* Binary search *)

\* g is the function that Search defines by recursion.
Finds(n, f, g) ==
  g = [p \in (0..n) \X (0..n) |->
         IF p[1] >= p[2] THEN p[1]
         ELSE IF (p[1] + p[2]) \div 2 \in f THEN g[<<p[1], (p[1] + p[2]) \div 2>>]
              ELSE g[<<(p[1] + p[2]) \div 2 + 1, p[2]>>]]

\* Where a search between a and b ends if k is the first index sought.
Ending(k, a, b) == IF a >= b \/ k <= a THEN a ELSE IF k >= b THEN b ELSE k

\* One step of the search.
LEMMA FindsAt ==
  ASSUME NEW n \in Nat, NEW f, NEW g, Finds(n, f, g), NEW a \in 0..n, NEW b \in 0..n
  PROVE  g[<<a, b>>] = IF a >= b THEN a
                       ELSE IF (a + b) \div 2 \in f THEN g[<<a, (a + b) \div 2>>]
                            ELSE g[<<(a + b) \div 2 + 1, b>>]
<1>1. <<a, b>> \in (0..n) \X (0..n)
  OBVIOUS
<1> QED
  BY <1>1 DEF Finds

\* Halving keeps the end.
LEMMA EndingHalves ==
  ASSUME NEW n \in Nat, NEW k \in 0..n, NEW a \in 0..n, NEW b \in 0..n, a < b
  PROVE  LET h == (a + b) \div 2
         IN  /\ h \in 0..(n - 1) /\ a <= h /\ h < b
             /\ k <= h => Ending(k, a, b) = Ending(k, a, h)
             /\ ~(k <= h) => Ending(k, a, b) = Ending(k, h + 1, b)
<1> DEFINE h == (a + b) \div 2
<1>1. h \in Nat /\ a <= h /\ h < b
  OBVIOUS
<1> HIDE DEF h
<1>2. h \in 0..(n - 1)
  BY <1>1
<1>3. k <= h => Ending(k, a, b) = Ending(k, a, h)
  BY <1>1 DEF Ending
<1>4. ~(k <= h) => Ending(k, a, b) = Ending(k, h + 1, b)
  BY <1>1 DEF Ending
<1> QED
  BY <1>1, <1>2, <1>3, <1>4 DEF h

\* The recursion has a solution, and each solution ends where Ending says: another one
\* would go wrong on a shortest stretch.
LEMMA FindsEnding ==
  ASSUME NEW n \in Nat, NEW k \in 0..n
  PROVE  LET f == {i \in 0..(n - 1) : k <= i}
         IN  /\ \E g : Finds(n, f, g)
             /\ \A g : Finds(n, f, g) => g[<<0, n>>] = Ending(k, 0, n)
<1> DEFINE f == {i \in 0..(n - 1) : k <= i}
           e == [p \in (0..n) \X (0..n) |-> Ending(k, p[1], p[2])]
<1>1. ASSUME NEW a \in 0..n, NEW b \in 0..n, a < b
      PROVE  LET h == (a + b) \div 2
             IN  /\ h \in 0..n /\ h + 1 \in 0..n /\ a <= h /\ h < b
                 /\ h \in f <=> k <= h
                 /\ Ending(k, a, b) = IF h \in f THEN Ending(k, a, h) ELSE Ending(k, h + 1, b)
  <2> DEFINE h == (a + b) \div 2
  <2>1. /\ h \in 0..(n - 1) /\ a <= h /\ h < b
        /\ k <= h => Ending(k, a, b) = Ending(k, a, h)
        /\ ~(k <= h) => Ending(k, a, b) = Ending(k, h + 1, b)
    BY <1>1, EndingHalves
  <2> HIDE DEF h
  <2>2. h \in 0..n /\ h + 1 \in 0..n /\ (h \in f <=> k <= h)
    BY <2>1
  <2> QED
    BY <2>1, <2>2 DEF h
<1> HIDE DEF f
<1>2. Finds(n, f, e)
  <2>1. ASSUME NEW p \in (0..n) \X (0..n)
        PROVE  e[p] = IF p[1] >= p[2] THEN p[1]
                      ELSE IF (p[1] + p[2]) \div 2 \in f THEN e[<<p[1], (p[1] + p[2]) \div 2>>]
                           ELSE e[<<(p[1] + p[2]) \div 2 + 1, p[2]>>]
    <3>1. PICK a \in 0..n, b \in 0..n : p = <<a, b>>
      OBVIOUS
    <3>2. p[1] = a /\ p[2] = b /\ a \in Int /\ b \in Int
      BY <3>1
    <3>3. \A c, d \in 0..n : e[<<c, d>>] = Ending(k, c, d)
      OBVIOUS
    <3> HIDE DEF e
    <3>4. CASE a >= b
      BY <3>1, <3>2, <3>3, <3>4 DEF Ending
    <3>5. CASE ~(a >= b)
      <4> DEFINE h == (a + b) \div 2
      <4>1. /\ h \in 0..n /\ h + 1 \in 0..n
            /\ Ending(k, a, b) = IF h \in f THEN Ending(k, a, h) ELSE Ending(k, h + 1, b)
        <5>1. a < b
          BY <3>2, <3>5
        <5> QED
          BY <1>1, <5>1
      <4> HIDE DEF h
      <4>2. e[<<a, b>>] = IF h \in f THEN e[<<a, h>>] ELSE e[<<h + 1, b>>]
        BY <3>1, <3>3, <4>1
      <4> QED
        BY <3>1, <3>2, <3>5, <4>2 DEF h
    <3> QED
      BY <3>4, <3>5
  <2>2. e = [p \in (0..n) \X (0..n) |-> e[p]]
    OBVIOUS
  <2> HIDE DEF e
  <2> QED
    BY <2>1, <2>2 DEF Finds
<1>3. ASSUME NEW g, Finds(n, f, g) PROVE g[<<0, n>>] = Ending(k, 0, n)
  <2> DEFINE Wrong == {d \in Nat : \E a, b \in 0..n : b = a + d /\ g[<<a, b>>] # Ending(k, a, b)}
  <2>1. Wrong = {}
    <3> SUFFICES ASSUME Wrong # {} PROVE FALSE
      OBVIOUS
    <3>1. PICK d \in Wrong : \A c \in Wrong : d <= c
      BY SmallestNat
    <3>2. PICK a \in 0..n, b \in 0..n : b = a + d /\ g[<<a, b>>] # Ending(k, a, b)
      BY <3>1
    <3>3. d \in Nat
      BY <3>1
    <3>4. ~(a >= b)
      <4>1. g[<<a, b>>] = IF a >= b THEN a
                          ELSE IF (a + b) \div 2 \in f THEN g[<<a, (a + b) \div 2>>]
                               ELSE g[<<(a + b) \div 2 + 1, b>>]
        BY <1>3, FindsAt
      <4>2. a >= b => Ending(k, a, b) = a
        BY DEF Ending
      <4> QED
        BY <3>2, <4>1, <4>2
    <3> DEFINE h == (a + b) \div 2
    <3>5. /\ h \in 0..n /\ h + 1 \in 0..n /\ a <= h /\ h < b
          /\ Ending(k, a, b) = IF h \in f THEN Ending(k, a, h) ELSE Ending(k, h + 1, b)
      <4>1. a < b
        BY <3>4
      <4> QED
        BY <1>1, <4>1
    <3>6. g[<<a, b>>] = IF h \in f THEN g[<<a, h>>] ELSE g[<<h + 1, b>>]
      BY <1>3, <3>4, FindsAt
    <3> HIDE DEF h
    <3>7. CASE h \in f
      <4>1. h - a \in Nat /\ h = a + (h - a) /\ h - a < d
        BY <3>2, <3>3, <3>5
      <4>2. g[<<a, h>>] # Ending(k, a, h)
        BY <3>2, <3>5, <3>6, <3>7
      <4>3. h - a \in Wrong
        BY <3>5, <4>1, <4>2
      <4>4. d <= h - a
        <5> HIDE DEF Wrong
        <5> QED
          BY <3>1, <4>3
      <4> QED
        BY <3>3, <4>1, <4>4
    <3>8. CASE h \notin f
      <4>1. b - (h + 1) \in Nat /\ b = (h + 1) + (b - (h + 1)) /\ b - (h + 1) < d
        BY <3>2, <3>3, <3>5
      <4>2. g[<<h + 1, b>>] # Ending(k, h + 1, b)
        BY <3>2, <3>5, <3>6, <3>8
      <4>3. b - (h + 1) \in Wrong
        BY <3>5, <4>1, <4>2
      <4>4. d <= b - (h + 1)
        <5> HIDE DEF Wrong
        <5> QED
          BY <3>1, <4>3
      <4> QED
        BY <3>3, <4>1, <4>4
    <3> QED
      BY <3>7, <3>8
  <2>2. n \in Nat /\ 0 \in 0..n /\ n \in 0..n /\ n = 0 + n
    OBVIOUS
  <2> QED
    BY <2>1, <2>2
<1> QED
  BY <1>2, <1>3 DEF f

\* Where f holds from k on, sort.Search finds k.
LEMMA SearchFinds ==
  ASSUME NEW n \in Nat, NEW k \in 0..n, NEW f, f = {i \in 0..(n - 1) : k <= i}
  PROVE  Search(n, f) = k
<1>1. /\ \E g : Finds(n, f, g)
      /\ \A g : Finds(n, f, g) => g[<<0, n>>] = Ending(k, 0, n)
  BY FindsEnding
<1>2. Search(n, f) = (CHOOSE g : Finds(n, f, g))[<<0, n>>]
  BY DEF Search, Finds
<1>3. Ending(k, 0, n) = k
  BY DEF Ending
<1> QED
  BY <1>1, <1>2, <1>3

\* A part of the indices that holds all later ones with each begins somewhere.
LEMMA Threshold ==
  ASSUME NEW n \in Nat, NEW f \in SUBSET (0..(n - 1)),
         \A i \in f : \A j \in 0..(n - 1) : i <= j => j \in f
  PROVE  \E k \in 0..n : f = {i \in 0..(n - 1) : k <= i}
<1>1. PICK k \in f \cup {n} : \A j \in f \cup {n} : k <= j
  <2>1. f \cup {n} \in SUBSET Nat /\ f \cup {n} # {}
    OBVIOUS
  <2> QED
    BY <2>1, SmallestNat
<1>2. k \in 0..n
  BY <1>1
<1>3. ASSUME NEW i \in f PROVE i \in 0..(n - 1) /\ k <= i
  BY <1>1
<1>4. ASSUME NEW i \in 0..(n - 1), k <= i PROVE i \in f
  <2>1. k # n
    BY <1>4
  <2> QED
    BY <1>1, <1>4, <2>1
<1>5. f = {i \in 0..(n - 1) : k <= i}
  BY <1>3, <1>4
<1> QED
  BY <1>2, <1>5

-----------------------------------------------------------------------------
(* The samples of an interval *)

\* The values after position a up to position b.
Stretch(s, a, b) == [i \in 1..(b - a) |-> s[a + i].F]

\* g is the function that ValuesAt defines by recursion.
Collects(s, I, g) ==
  g = [n \in 0..Len(s) |->
         IF n = 0 THEN <<>>
         ELSE IF n \in I THEN Append(g[n - 1], s[n].F) ELSE g[n - 1]]

\* One more position appends its value.
LEMMA StretchGrows ==
  ASSUME NEW s \in Seq(Sample), NEW a \in 0..Len(s), NEW c \in 1..Len(s), a < c
  PROVE  Append(Stretch(s, a, c - 1), s[c].F) = Stretch(s, a, c)
<1>1. Len(s) \in Nat
  OBVIOUS
<1>2. \A i \in 1..Len(s) : s[i].F \in Values
  <2>1. \A i \in 1..Len(s) : s[i] \in Sample
    OBVIOUS
  <2> QED
    BY <2>1 DEF Sample
<1> DEFINE m == c - 1 - a
           g == [i \in 1..m |-> s[a + i].F]
<1>3. m \in Nat /\ c - a = m + 1 /\ a + (m + 1) = c
  BY <1>1
<1> HIDE DEF m
<1>4. \A i \in 1..m : a + i \in 1..Len(s)
  BY <1>1, <1>3
<1>5. g \in Seq(Values) /\ Len(g) = m
  BY <1>2, <1>3, <1>4
<1>6. s[c].F \in Values
  BY <1>2
<1>7. /\ Append(g, s[c].F) \in Seq(Values)
      /\ Len(Append(g, s[c].F)) = m + 1
      /\ \A i \in 1..(m + 1) : Append(g, s[c].F)[i] = s[a + i].F
  <2> HIDE DEF g
  <2>1. \A i \in 1..m : g[i] = s[a + i].F
    BY DEF g
  <2>2. /\ Append(g, s[c].F) \in Seq(Values)
        /\ Len(Append(g, s[c].F)) = m + 1
        /\ \A i \in 1..m : Append(g, s[c].F)[i] = g[i]
        /\ Append(g, s[c].F)[m + 1] = s[c].F
    BY <1>3, <1>5, <1>6
  <2>3. \A i \in 1..(m + 1) : i \in 1..m \/ i = m + 1
    BY <1>3
  <2> QED
    BY <1>3, <2>1, <2>2, <2>3
<1>8. Append(g, s[c].F) = [i \in 1..(m + 1) |-> s[a + i].F]
  <2> DEFINE l == Append(g, s[c].F)
  <2> HIDE DEF l
  <2>1. l \in Seq(Values) /\ Len(l) = m + 1 /\ \A i \in 1..(m + 1) : l[i] = s[a + i].F
    BY <1>7 DEF l
  <2>2. l = [i \in 1..(m + 1) |-> l[i]]
    BY <2>1
  <2> QED
    BY <2>1, <2>2 DEF l
<1>9. Stretch(s, a, c) = [i \in 1..(m + 1) |-> s[a + i].F]
  BY <1>3 DEF Stretch
<1>10. Stretch(s, a, c - 1) = g
  BY DEF Stretch, m
<1> QED
  BY <1>8, <1>9, <1>10

\* No positions, no values.
LEMMA StretchEmpty ==
  ASSUME NEW s, NEW a \in Int
  PROVE  Stretch(s, a, a) = <<>>
<1>1. 1..(a - a) = {}
  OBVIOUS
<1> QED
  BY <1>1 DEF Stretch

\* What ValuesAt collects from adjacent indices is a stretch of the samples.
LEMMA ValuesAtStretch ==
  ASSUME NEW s \in Seq(Sample), NEW a \in 0..Len(s), NEW b \in 0..Len(s), a <= b,
         NEW I, \A i \in 1..Len(s) : i \in I <=> a < i /\ i <= b
  PROVE  ValuesAt(s, I) = Stretch(s, a, b)
<1> DEFINE reach(n) == IF n <= a THEN a ELSE IF n <= b THEN n ELSE b
           e == [n \in 0..Len(s) |-> Stretch(s, a, reach(n))]
<1>1. Len(s) \in Nat
  OBVIOUS
<1>2. Stretch(s, a, reach(0)) = <<>>
  BY StretchEmpty
<1>3. ASSUME NEW n \in 1..Len(s)
      PROVE  Stretch(s, a, reach(n)) =
               IF n \in I THEN Append(Stretch(s, a, reach(n - 1)), s[n].F)
               ELSE Stretch(s, a, reach(n - 1))
  <2>1. CASE n \in I
    <3>1. a < n /\ n <= b
      BY <2>1
    <3>2. reach(n) = n /\ reach(n - 1) = n - 1
      BY <1>1, <3>1
    <3>3. Append(Stretch(s, a, n - 1), s[n].F) = Stretch(s, a, n)
      BY <3>1, StretchGrows
    <3> QED
      BY <2>1, <3>2, <3>3
  <2>2. CASE n \notin I
    <3>1. ~(a < n /\ n <= b)
      BY <2>2
    <3>2. reach(n) = reach(n - 1)
      BY <1>1, <3>1
    <3> QED
      BY <2>2, <3>2
  <2> QED
    BY <2>1, <2>2
<1>4. reach(Len(s)) = b
  BY <1>1
<1> HIDE DEF reach
<1>5. Collects(s, I, e)
  <2>1. \A n \in 0..Len(s) : e[n] = Stretch(s, a, reach(n))
    OBVIOUS
  <2>2. e = [n \in 0..Len(s) |-> e[n]]
    OBVIOUS
  <2> HIDE DEF e
  <2>3. ASSUME NEW n \in 0..Len(s)
        PROVE  e[n] = IF n = 0 THEN <<>>
                      ELSE IF n \in I THEN Append(e[n - 1], s[n].F) ELSE e[n - 1]
    <3>1. CASE n = 0
      BY <1>1, <1>2, <2>1, <3>1
    <3>2. CASE n # 0
      <4>1. n \in 1..Len(s) /\ n - 1 \in 0..Len(s)
        BY <1>1, <3>2
      <4>2. e[n] = Stretch(s, a, reach(n)) /\ e[n - 1] = Stretch(s, a, reach(n - 1))
        BY <2>1, <4>1
      <4> QED
        BY <1>3, <3>2, <4>1, <4>2
    <3> QED
      BY <3>1, <3>2
  <2> QED
    BY <2>2, <2>3 DEF Collects
<1>6. ASSUME NEW g, Collects(s, I, g) PROVE g[Len(s)] = Stretch(s, a, b)
  <2>0. ASSUME NEW n \in 0..Len(s)
        PROVE  g[n] = IF n = 0 THEN <<>>
                      ELSE IF n \in I THEN Append(g[n - 1], s[n].F) ELSE g[n - 1]
    BY <1>6 DEF Collects
  <2> DEFINE Wrong == {n \in 0..Len(s) : g[n] # Stretch(s, a, reach(n))}
  <2>1. Wrong = {}
    <3> SUFFICES ASSUME Wrong # {} PROVE FALSE
      OBVIOUS
    <3>1. PICK n \in Wrong : \A m \in Wrong : n <= m
      <4>1. Wrong \in SUBSET Nat
        BY <1>1
      <4> HIDE DEF Wrong
      <4> QED
        BY <4>1, SmallestNat
    <3>2. n \in 0..Len(s) /\ g[n] # Stretch(s, a, reach(n))
      BY <3>1
    <3>3. n # 0
      BY <1>2, <2>0, <3>2
    <3>4. n \in 1..Len(s) /\ n - 1 \in 0..Len(s) /\ ~(n <= n - 1)
      BY <1>1, <3>2, <3>3
    <3>5. n - 1 \notin Wrong
      <4> HIDE DEF Wrong
      <4> QED
        BY <3>1, <3>4
    <3>6. g[n - 1] = Stretch(s, a, reach(n - 1))
      BY <3>4, <3>5
    <3> QED
      BY <1>3, <2>0, <3>2, <3>3, <3>4, <3>6
  <2>2. Len(s) \in 0..Len(s)
    BY <1>1
  <2> QED
    BY <1>4, <2>1, <2>2
<1>7. ValuesAt(s, I) = (CHOOSE g : Collects(s, I, g))[Len(s)]
  BY DEF ValuesAt, Collects
<1> HIDE DEF e
<1> QED
  BY <1>5, <1>6, <1>7

\* The slice that the queries read is such a stretch.
LEMMA ValuesOfStretch ==
  ASSUME NEW s \in Seq(Sample), NEW a \in 0..Len(s), NEW b \in 0..Len(s), a <= b
  PROVE  ValuesOf(SubSeq(s, a + 1, b)) = Stretch(s, a, b)
<1>1. Len(s) \in Nat
  OBVIOUS
<1> DEFINE r == SubSeq(s, a + 1, b)
<1>2. DOMAIN r = 1..(b - a) /\ \A i \in 1..(b - a) : r[i] = s[a + i]
  BY <1>1
<1> HIDE DEF r
<1>3. ValuesOf(r) = [i \in 1..(b - a) |-> s[a + i].F]
  BY <1>2 DEF ValuesOf
<1> QED
  BY <1>3 DEF Stretch, r

-----------------------------------------------------------------------------
(* The queries of a calm sketch *)

\* The samples of a calm sketch at positions after a up to b are those of [t1, t2].
Splits(t1, t2, a, b) ==
  /\ a \in 0..Len(Arr) /\ b \in 0..Len(Arr) /\ a <= b
  /\ \A i \in 1..Len(Arr) : (t1 <= Arr[i].T <=> a < i) /\ (Arr[i].T <= t2 <=> i <= b)

\* Of a calm sketch the samples stand in the order of their times.
LEMMA ArrIsSorted ==
  ASSUME SamplingInv, CalmInv, calm
  PROVE  /\ Len(Arr) \in Nat
         /\ \A i \in 1..Len(Arr) : Arr[i].T \in Nat
         /\ \A i, j \in 1..Len(Arr) : i <= j => Arr[i].T <= Arr[j].T
<1>1. Len(Arr) \in Nat
  BY DEF SamplingInv
<1>2. kept \in Seq(Sample) /\ Len(kept) \in Nat
  BY DEF CalmInv
<1> DEFINE d == Dropped
<1>3. /\ d \in Nat /\ d = Len(kept) - Len(Arr)
      /\ \A i \in 1..Len(Arr) : Arr[i] = kept[d + i]
      /\ \A i, j \in 1..Len(kept) : i <= j => kept[i].T <= kept[j].T
  BY DEF CalmInv, CalmFacts, Dropped
<1> HIDE DEF d
<1>4. \A i \in 1..Len(Arr) : d + i \in 1..Len(kept)
  BY <1>1, <1>2, <1>3
<1>5. \A i \in 1..Len(Arr) : Arr[i].T \in Nat
  BY <1>3, <1>4, TimesAreNat
<1>6. ASSUME NEW i \in 1..Len(Arr), NEW j \in 1..Len(Arr), i <= j PROVE Arr[i].T <= Arr[j].T
  <2>1. d + i <= d + j
    BY <1>1, <1>3, <1>6
  <2>2. kept[d + i].T <= kept[d + j].T
    BY <1>3, <1>4, <2>1
  <2> QED
    BY <1>3, <2>2
<1> QED
  BY <1>1, <1>5, <1>6

\* The binary searches find the ends of the interval.
LEMMA SearchesSplit ==
  ASSUME SamplingInv, CalmInv, calm, NEW t1 \in Nat, NEW t2 \in Nat, t1 <= t2
  PROVE  Splits(t1, t2, Idx1(t1), Idx2(t2) + 1) /\ Idx2(t2) \in Int
<1> DEFINE n == Len(Arr)
           f == {i \in 0..n - 1 : Arr[i + 1].T >= t1}
           h == {i \in 0..n - 1 : Arr[i + 1].T > t2}
<1>1. /\ n \in Nat
      /\ \A i \in 1..n : Arr[i].T \in Nat
      /\ \A i, j \in 1..n : i <= j => Arr[i].T <= Arr[j].T
  BY ArrIsSorted
<1>2. Idx1(t1) = Search(n, f) /\ Idx2(t2) = Search(n, h) - 1
  BY DEF Idx1, Idx2
<1> HIDE DEF n
<1>3. \A i \in 0..n - 1 : i + 1 \in 1..n
  BY <1>1
<1>4. PICK a \in 0..n : f = {i \in 0..n - 1 : a <= i}
  <2>1. f \in SUBSET (0..n - 1)
    OBVIOUS
  <2>2. ASSUME NEW i \in f, NEW j \in 0..n - 1, i <= j PROVE j \in f
    <3>1. i + 1 \in 1..n /\ j + 1 \in 1..n /\ i + 1 <= j + 1 /\ Arr[i + 1].T >= t1
      BY <1>1, <1>3, <2>2
    <3>2. Arr[i + 1].T <= Arr[j + 1].T /\ Arr[i + 1].T \in Nat /\ Arr[j + 1].T \in Nat
      BY <1>1, <3>1
    <3>3. Arr[j + 1].T >= t1
      BY <3>1, <3>2
    <3> QED
      BY <3>3
  <2> HIDE DEF f
  <2> QED
    BY <1>1, <2>1, <2>2, Threshold
<1>5. PICK b \in 0..n : h = {i \in 0..n - 1 : b <= i}
  <2>1. h \in SUBSET (0..n - 1)
    OBVIOUS
  <2>2. ASSUME NEW i \in h, NEW j \in 0..n - 1, i <= j PROVE j \in h
    <3>1. i + 1 \in 1..n /\ j + 1 \in 1..n /\ i + 1 <= j + 1 /\ Arr[i + 1].T > t2
      BY <1>1, <1>3, <2>2
    <3>2. Arr[i + 1].T <= Arr[j + 1].T /\ Arr[i + 1].T \in Nat /\ Arr[j + 1].T \in Nat
      BY <1>1, <3>1
    <3>3. Arr[j + 1].T > t2
      BY <3>1, <3>2
    <3> QED
      BY <3>3
  <2> HIDE DEF h
  <2> QED
    BY <1>1, <2>1, <2>2, Threshold
<1>6. Idx1(t1) = a /\ Idx2(t2) + 1 = b /\ Idx2(t2) \in Int
  <2> HIDE DEF f, h
  <2>1. Search(n, f) = a /\ Search(n, h) = b
    BY <1>1, <1>4, <1>5, SearchFinds
  <2> QED
    BY <1>1, <1>2, <2>1
<1>7. ASSUME NEW i \in 1..n
      PROVE  (t1 <= Arr[i].T <=> a < i) /\ (Arr[i].T <= t2 <=> i <= b)
  <2>1. i - 1 \in 0..n - 1 /\ (i - 1) + 1 = i /\ Arr[i].T \in Nat
    BY <1>1
  <2>2. (i - 1 \in f <=> Arr[i].T >= t1) /\ (i - 1 \in h <=> Arr[i].T > t2)
    BY <2>1
  <2>3. (i - 1 \in f <=> a <= i - 1) /\ (i - 1 \in h <=> b <= i - 1)
    BY <1>4, <1>5, <2>1
  <2> HIDE DEF f, h
  <2>4. (a <= i - 1 <=> a < i) /\ (b <= i - 1 <=> ~(i <= b))
    BY <1>1
  <2> QED
    BY <2>1, <2>2, <2>3, <2>4
<1>8. a <= b
  <2> SUFFICES ASSUME ~(a <= b) PROVE FALSE
    OBVIOUS
  <2>1. a \in 1..n /\ ~(a < a) /\ ~(a <= b)
    BY <1>1
  <2>2. ~(t1 <= Arr[a].T) /\ ~(Arr[a].T <= t2) /\ Arr[a].T \in Nat
    BY <1>1, <1>7, <2>1
  <2> QED
    BY <2>2
<1> QED
  BY <1>6, <1>7, <1>8 DEF Splits, n

\* Of a covered interval a calm sketch has all that was kept: its queries read exactly
\* that, and GetSamples returns it.
LEMMA ChosenIsReference ==
  ASSUME SamplingInv, CalmInv, calm, NEW t1 \in Nat, NEW t2 \in Nat, t1 <= t2,
         Cover(t1, t2)
  PROVE  LET a == Idx1(t1)
             b == Idx2(t2) + 1
         IN  /\ a \in 0..Len(Arr) /\ b \in 0..Len(Arr) /\ a <= b
             /\ Idx2(t2) \in Int
             /\ Reference(t1, t2) = Stretch(Arr, a, b)
             /\ Chosen(t1, t2) = Stretch(Arr, a, b)
             /\ GetSamples(t1, t2) = Stretch(Arr, a, b)
<1>1. PICK a, b : /\ a = Idx1(t1) /\ b = Idx2(t2) + 1 /\ Idx2(t2) \in Int
                  /\ Splits(t1, t2, a, b)
  BY SearchesSplit
<1>2. /\ a \in 0..Len(Arr) /\ b \in 0..Len(Arr) /\ a <= b
      /\ \A i \in 1..Len(Arr) : (t1 <= Arr[i].T <=> a < i) /\ (Arr[i].T <= t2 <=> i <= b)
  BY <1>1 DEF Splits
<1>3. /\ Len(Arr) \in Nat
      /\ \A i \in 1..Len(Arr) : Arr[i].T \in Nat
      /\ \A i, j \in 1..Len(Arr) : i <= j => Arr[i].T <= Arr[j].T
  BY ArrIsSorted
<1>4. Arr \in Seq(Sample) /\ DOMAIN Arr = 1..Len(Arr) /\ Time_window_size \in Nat
  BY DEF SamplingInv
<1>5. kept \in Seq(Sample) /\ Len(kept) \in Nat /\ DOMAIN kept = 1..Len(kept) /\ Cur_time \in Nat
  BY DEF CalmInv
<1>6. PICK d : d = Dropped
  OBVIOUS
<1>7. /\ d \in Nat /\ Len(kept) = d + Len(Arr)
      /\ \A i \in 1..Len(Arr) : Arr[i] = kept[d + i]
      /\ \A i \in 1..d : kept[i].T < Cur_time - Time_window_size
  BY <1>3, <1>5, <1>6 DEF CalmInv, CalmFacts, Dropped
<1>8. Cur_time - Time_window_size <= t1
  BY DEF Cover
<1>9. Chosen(t1, t2) = Stretch(Arr, a, b)
  <2>1. Idx1(t1) + 1 = a + 1 /\ Idx2(t2) + 1 = b
    BY <1>1
  <2>2. ValuesOf(SubSeq(Arr, a + 1, b)) = Stretch(Arr, a, b)
    BY <1>2, <1>4, ValuesOfStretch
  <2> QED
    BY <2>1, <2>2 DEF Chosen
<1>10. GetSamples(t1, t2) = Stretch(Arr, a, b)
  <2> DEFINE I == {i \in DOMAIN Arr : /\ Arr[i].T >= t1
                                      /\ \A j \in 1..i : Arr[j].T < t1 \/ Arr[j].T <= t2}
  <2>1. ASSUME NEW i \in 1..Len(Arr) PROVE i \in I <=> a < i /\ i <= b
    <3>1. i \in I <=> /\ Arr[i].T >= t1
                      /\ \A j \in 1..i : Arr[j].T < t1 \/ Arr[j].T <= t2
      BY <1>4
    <3>2. ASSUME i \in I PROVE a < i /\ i <= b
      <4>1. i \in 1..i /\ Arr[i].T \in Nat
        BY <1>3
      <4>2. t1 <= Arr[i].T /\ Arr[i].T <= t2
        BY <3>1, <3>2, <4>1
      <4> QED
        BY <1>2, <4>2
    <3>3. ASSUME a < i, i <= b PROVE i \in I
      <4>1. t1 <= Arr[i].T /\ Arr[i].T <= t2 /\ Arr[i].T \in Nat
        BY <1>2, <1>3, <3>3
      <4>2. ASSUME NEW j \in 1..i PROVE Arr[j].T <= t2
        <5>1. j \in 1..Len(Arr) /\ j <= i
          BY <1>3
        <5>2. Arr[j].T <= Arr[i].T /\ Arr[j].T \in Nat
          BY <1>3, <5>1
        <5> QED
          BY <4>1, <5>2
      <4> QED
        BY <3>1, <4>1, <4>2
    <3> QED
      BY <3>2, <3>3
  <2>2. GetSamples(t1, t2) = ValuesAt(Arr, I)
    BY DEF GetSamples
  <2> HIDE DEF I
  <2> QED
    BY <1>2, <1>4, <2>1, <2>2, ValuesAtStretch
<1>11. Reference(t1, t2) = Stretch(kept, d + a, d + b)
  <2> DEFINE I == {i \in DOMAIN kept : t1 <= kept[i].T /\ kept[i].T <= t2}
  <2>1. ASSUME NEW i \in 1..Len(kept) PROVE i \in I <=> d + a < i /\ i <= d + b
    <3>1. i \in I <=> t1 <= kept[i].T /\ kept[i].T <= t2
      BY <1>5
    <3>2. CASE i <= d
      <4>1. kept[i].T < Cur_time - Time_window_size /\ kept[i].T \in Nat
        BY <1>7, <3>2, TimesAreNat
      <4>2. ~(t1 <= kept[i].T)
        BY <1>4, <1>5, <1>8, <4>1
      <4>3. ~(d + a < i)
        BY <1>2, <1>3, <1>7, <3>2
      <4> QED
        BY <3>1, <4>2, <4>3
    <3>3. CASE ~(i <= d)
      <4>1. i - d \in 1..Len(Arr) /\ d + (i - d) = i
        BY <1>3, <1>7, <3>3
      <4>2. Arr[i - d] = kept[d + (i - d)]
        BY <1>7, <4>1
      <4>3. (t1 <= kept[i].T <=> a < i - d) /\ (kept[i].T <= t2 <=> i - d <= b)
        BY <1>2, <4>1, <4>2
      <4>4. (a < i - d <=> d + a < i) /\ (i - d <= b <=> i <= d + b)
        BY <1>2, <1>3, <1>7, <4>1
      <4> QED
        BY <3>1, <4>3, <4>4
    <3> QED
      BY <3>2, <3>3
  <2>2. Reference(t1, t2) = ValuesAt(kept, I)
    BY DEF Reference
  <2>3. d + a \in 0..Len(kept) /\ d + b \in 0..Len(kept) /\ d + a <= d + b
    BY <1>2, <1>3, <1>7
  <2> HIDE DEF I
  <2> QED
    BY <1>5, <2>1, <2>2, <2>3, ValuesAtStretch
<1>12. Stretch(kept, d + a, d + b) = Stretch(Arr, a, b)
  <2>1. (d + b) - (d + a) = b - a
    BY <1>2, <1>3, <1>7
  <2>2. \A i \in 1..(b - a) : kept[(d + a) + i].F = Arr[a + i].F
    <3> SUFFICES ASSUME NEW i \in 1..(b - a) PROVE kept[(d + a) + i].F = Arr[a + i].F
      OBVIOUS
    <3>1. a + i \in 1..Len(Arr) /\ d + (a + i) = (d + a) + i
      BY <1>2, <1>3, <1>7
    <3> QED
      BY <1>7, <3>1
  <2> QED
    BY <2>1, <2>2 DEF Stretch
<1> QED
  BY <1>1, <1>2, <1>9, <1>10, <1>11, <1>12

-----------------------------------------------------------------------------
(* Statistics of a sequence of integers *)

\* The positions of v, of some of them, hold a least value.
LEMMA LeastOver ==
  ASSUME NEW n \in Nat, NEW v, \A i \in 1..n : v[i] \in Int,
         NEW C \in SUBSET (1..n), C # {}
  PROVE  \E i \in C : \A j \in C : v[i] <= v[j]
<1> DEFINE upTo(m) == {i \in C : i <= m}
           Good(m) == upTo(m) # {} => \E i \in upTo(m) : \A j \in upTo(m) : v[i] <= v[j]
           Wrong == {m \in 0..n : ~ Good(m)}
<1>1. Wrong = {}
  <2> SUFFICES ASSUME Wrong # {} PROVE FALSE
    OBVIOUS
  <2>1. PICK m \in Wrong : \A k \in Wrong : m <= k
    <3>1. Wrong \in SUBSET Nat
      OBVIOUS
    <3> HIDE DEF Wrong
    <3> QED
      BY <3>1, SmallestNat
  <2>2. m \in 0..n /\ ~ Good(m)
    BY <2>1
  <2>3. m # 0
    <3>1. \A i \in C : i \in 1..n /\ ~(i <= 0)
      OBVIOUS
    <3>2. upTo(0) = {}
      BY <3>1
    <3> QED
      BY <2>2, <3>2
  <2>4. m - 1 \in 0..n /\ ~(m <= m - 1)
    BY <2>2, <2>3
  <2>5. Good(m - 1)
    <3>1. m - 1 \notin Wrong
      <4> HIDE DEF Wrong
      <4> QED
        BY <2>1, <2>4
    <3> HIDE DEF Good
    <3> QED
      BY <2>4, <3>1
  <2>6. upTo(m) = upTo(m - 1) \/ (m \in C /\ upTo(m) = upTo(m - 1) \cup {m})
    <3>1. \A i \in C : i <= m <=> (i <= m - 1 \/ i = m)
      BY <2>2
    <3> QED
      BY <3>1
  <2>7. m \in C /\ upTo(m) = upTo(m - 1) \cup {m}
    BY <2>2, <2>5, <2>6
  <2>8. \A i \in upTo(m) : v[i] \in Int
    OBVIOUS
  <2>9. CASE upTo(m - 1) = {}
    BY <2>2, <2>7, <2>8, <2>9
  <2>10. CASE upTo(m - 1) # {}
    <3>1. PICK i \in upTo(m - 1) : \A j \in upTo(m - 1) : v[i] <= v[j]
      BY <2>5, <2>10
    <3>2. i \in upTo(m) /\ m \in upTo(m)
      BY <2>7, <3>1
    <3> HIDE DEF upTo
    <3>3. v[i] \in Int /\ v[m] \in Int
      BY <2>8, <3>2
    <3>4. CASE v[i] <= v[m]
      <4>1. \A j \in upTo(m) : v[i] <= v[j]
        BY <2>7, <3>1, <3>4
      <4> QED
        BY <2>2, <3>2, <4>1
    <3>5. CASE ~(v[i] <= v[m])
      <4>1. \A j \in upTo(m) : v[m] <= v[j]
        BY <2>7, <2>8, <3>1, <3>3, <3>5
      <4> QED
        BY <2>2, <3>2, <4>1
    <3> QED
      BY <3>4, <3>5
  <2> QED
    BY <2>9, <2>10
<1>2. upTo(n) = C
  <2>1. \A i \in C : i \in 1..n /\ i <= n
    OBVIOUS
  <2> QED
    BY <2>1
<1>3. Good(n)
  BY <1>1
<1> QED
  BY <1>2, <1>3

\* And a greatest.
LEMMA GreatestOver ==
  ASSUME NEW n \in Nat, NEW v, \A i \in 1..n : v[i] \in Int,
         NEW C \in SUBSET (1..n), C # {}
  PROVE  \E i \in C : \A j \in C : v[j] <= v[i]
<1> DEFINE w == [i \in 1..n |-> -v[i]]
<1>1. \A i \in 1..n : w[i] \in Int /\ w[i] = -v[i]
  OBVIOUS
<1> HIDE DEF w
<1>2. PICK i \in C : \A j \in C : w[i] <= w[j]
  BY <1>1, LeastOver
<1>3. \A j \in C : v[j] \in Int /\ v[i] \in Int /\ w[j] = -v[j] /\ w[i] = -v[i]
  BY <1>1
<1> QED
  BY <1>2, <1>3

\* The least and the greatest value of a sequence.
LEMMA MinMaxOfSeq ==
  ASSUME NEW n \in Nat \ {0}, NEW v \in [1..n -> Int]
  PROVE  /\ Min(ToSet(v)) \in ToSet(v) /\ \A i \in 1..n : Min(ToSet(v)) <= v[i]
         /\ Max(ToSet(v)) \in ToSet(v) /\ \A i \in 1..n : v[i] <= Max(ToSet(v))
<1>1. 1..n # {} /\ \A i \in 1..n : v[i] \in Int
  OBVIOUS
<1>2. ToSet(v) = {v[i] : i \in 1..n}
  BY DEF ToSet
<1>3. \E x \in ToSet(v) : \A y \in ToSet(v) : x <= y
  <2>1. PICK i \in 1..n : \A j \in 1..n : v[i] <= v[j]
    BY <1>1, LeastOver
  <2> QED
    BY <1>2, <2>1
<1>4. \E x \in ToSet(v) : \A y \in ToSet(v) : x >= y
  <2>1. PICK i \in 1..n : \A j \in 1..n : v[j] <= v[i]
    BY <1>1, GreatestOver
  <2> QED
    BY <1>1, <1>2, <2>1
<1>5. Min(ToSet(v)) \in ToSet(v) /\ \A y \in ToSet(v) : Min(ToSet(v)) <= y
  BY <1>3 DEF Min
<1>6. Max(ToSet(v)) \in ToSet(v) /\ \A y \in ToSet(v) : Max(ToSet(v)) >= y
  BY <1>4 DEF Max
<1>7. \A x \in ToSet(v) : x \in Int
  BY <1>1, <1>2
<1> HIDE DEF Min, Max
<1>8. \A i \in 1..n : v[i] \in ToSet(v)
  BY <1>2
<1> QED
  BY <1>5, <1>6, <1>7, <1>8

\* How many values are below x, and how many are not above it.
Below(v, x) == Cardinality({j \in DOMAIN v : v[j] < x})
UpTo(v, x) == Cardinality({j \in DOMAIN v : v[j] <= x})

\* Sets of positions are finite, and a part of one has no more.
LEMMA PositionsCount ==
  ASSUME NEW n \in Nat, NEW B \in SUBSET (1..n)
  PROVE  /\ IsFiniteSet(B) /\ Cardinality(B) \in 0..n
         /\ Cardinality(1..n) = n
         /\ \A A \in SUBSET B : Cardinality(A) <= Cardinality(B)
<1>1. IsFiniteSet(1..n) /\ Cardinality(1..n) = n
  <2>1. IsFiniteSet(1..n) /\ Cardinality(1..n) = IF 1 > n THEN 0 ELSE n - 1 + 1
    BY FS_Interval
  <2> QED
    BY <2>1
<1>2. IsFiniteSet(B) /\ Cardinality(B) \in Nat /\ Cardinality(B) <= n
  BY <1>1, FS_Subset, FS_CardinalityType
<1>3. ASSUME NEW A \in SUBSET B PROVE Cardinality(A) <= Cardinality(B)
  BY <1>2, FS_Subset
<1> QED
  BY <1>1, <1>2, <1>3

\* For each rank there is a value that has it.
LEMMA RankExists ==
  ASSUME NEW n \in Nat \ {0}, NEW v \in [1..n -> Int], NEW i \in 1..n
  PROVE  \E x \in ToSet(v) : Below(v, x) < i /\ i <= UpTo(v, x)
<1> DEFINE C == {k \in 1..n : i <= UpTo(v, v[k])}
<1>1. \A k \in 1..n : v[k] \in Int /\ v[k] \in ToSet(v)
  BY DEF ToSet
<1>2. C # {}
  <2>1. PICK k \in 1..n : \A j \in 1..n : v[j] <= v[k]
    <3>1. 1..n # {} /\ 1..n \in SUBSET (1..n)
      OBVIOUS
    <3> QED
      BY <1>1, <3>1, GreatestOver
  <2>2. {j \in DOMAIN v : v[j] <= v[k]} = 1..n
    BY <2>1
  <2>3. UpTo(v, v[k]) = n
    BY <2>2, PositionsCount DEF UpTo
  <2>4. i <= UpTo(v, v[k])
    BY <2>3
  <2> QED
    BY <2>4
<1>3. PICK k \in C : \A j \in C : v[k] <= v[j]
  <2>1. C \in SUBSET (1..n)
    OBVIOUS
  <2> HIDE DEF C
  <2> QED
    BY <1>1, <1>2, <2>1, LeastOver
<1>4. k \in 1..n /\ i <= UpTo(v, v[k]) /\ v[k] \in Int
  BY <1>3
<1>5. Below(v, v[k]) < i
  <2> SUFFICES ASSUME ~(Below(v, v[k]) < i) PROVE FALSE
    OBVIOUS
  <2> DEFINE L == {j \in DOMAIN v : v[j] < v[k]}
  <2>1. L \in SUBSET (1..n)
    OBVIOUS
  <2>2. Cardinality(L) \in 0..n /\ i <= Cardinality(L)
    <3>1. Below(v, v[k]) = Cardinality(L)
      BY DEF Below
    <3> HIDE DEF L
    <3>2. Cardinality(L) \in 0..n
      BY <2>1, PositionsCount
    <3> QED
      BY <3>1, <3>2
  <2>3. L # {}
    <3>1. L = {} => Cardinality(L) = 0
      BY FS_EmptySet
    <3> QED
      BY <2>2, <3>1
  <2>4. PICK j \in L : \A m \in L : v[m] <= v[j]
    <3> HIDE DEF L
    <3> QED
      BY <1>1, <2>1, <2>3, GreatestOver
  <2>5. j \in 1..n /\ v[j] < v[k] /\ v[j] \in Int
    BY <2>4
  <2> DEFINE M == {m \in DOMAIN v : v[m] <= v[j]}
  <2>6. L \in SUBSET M /\ M \in SUBSET (1..n)
    BY <2>4
  <2>7. UpTo(v, v[j]) = Cardinality(M)
    BY DEF UpTo
  <2>8. Cardinality(L) <= Cardinality(M) /\ Cardinality(M) \in 0..n
    <3> HIDE DEF L, M
    <3> QED
      BY <2>6, PositionsCount
  <2>9. i <= Cardinality(M)
    <3> HIDE DEF L, M
    <3> QED
      BY <2>2, <2>8
  <2>10. j \in C
    <3> HIDE DEF L, M
    <3> QED
      BY <2>5, <2>7, <2>9
  <2> QED
    BY <1>3, <1>4, <2>5, <2>10
<1> QED
  BY <1>1, <1>4, <1>5

\* Sorted has the values, with the least at its beginning and the greatest at its end.
LEMMA SortedRanks ==
  ASSUME NEW n \in Nat \ {0}, NEW v \in [1..n -> Int]
  PROVE  /\ Sorted(v) \in [1..n -> Int]
         /\ Sorted(v)[1] = Min(ToSet(v))
         /\ Sorted(v)[n] = Max(ToSet(v))
<1>1. \A k \in 1..n : v[k] \in Int /\ v[k] \in ToSet(v)
  BY DEF ToSet
<1>2. \A x \in ToSet(v) : x \in Int /\ \E k \in 1..n : x = v[k]
  BY DEF ToSet
<1>3. Sorted(v) = [i \in 1..n |-> CHOOSE x \in ToSet(v) :
                                    Below(v, x) < i /\ i <= UpTo(v, x)]
  <2>1. Sorted(v) = [i \in DOMAIN v |-> CHOOSE x \in ToSet(v) :
                                         Below(v, x) < i /\ i <= UpTo(v, x)]
    BY DEF Sorted, Below, UpTo
  <2>2. DOMAIN v = 1..n
    OBVIOUS
  <2> QED
    BY <2>1, <2>2
<1>4. ASSUME NEW i \in 1..n
      PROVE  Sorted(v)[i] \in ToSet(v) /\ Below(v, Sorted(v)[i]) < i /\ i <= UpTo(v, Sorted(v)[i])
  <2>1. \E x \in ToSet(v) : Below(v, x) < i /\ i <= UpTo(v, x)
    BY RankExists
  <2>2. Sorted(v)[i] = CHOOSE x \in ToSet(v) : Below(v, x) < i /\ i <= UpTo(v, x)
    BY <1>3
  <2> QED
    BY <2>1, <2>2
<1>5. Sorted(v) \in [1..n -> Int]
  <2>1. \A i \in 1..n : Sorted(v)[i] \in Int
    BY <1>2, <1>4
  <2>2. Sorted(v) = [i \in 1..n |-> Sorted(v)[i]]
    BY <1>3
  <2> QED
    BY <2>1, <2>2
<1>6. /\ Min(ToSet(v)) \in ToSet(v) /\ \A i \in 1..n : Min(ToSet(v)) <= v[i]
      /\ Max(ToSet(v)) \in ToSet(v) /\ \A i \in 1..n : v[i] <= Max(ToSet(v))
  BY MinMaxOfSeq
<1>7. Sorted(v)[1] = Min(ToSet(v))
  <2>1. PICK x \in ToSet(v) : x = Sorted(v)[1] /\ Below(v, x) < 1
    BY <1>4
  <2>2. ASSUME NEW k \in 1..n PROVE ~(v[k] < x)
    <3> DEFINE L == {j \in DOMAIN v : v[j] < x}
    <3>1. Cardinality(L) < 1
      BY <2>1 DEF Below
    <3>2. IsFiniteSet(L) /\ Cardinality(L) \in Nat
      <4>1. L \in SUBSET (1..n)
        OBVIOUS
      <4> HIDE DEF L
      <4> QED
        BY <4>1, PositionsCount
    <3>3. L = {}
      <4> HIDE DEF L
      <4> QED
        BY <3>1, <3>2, FS_EmptySet
    <3> QED
      BY <3>3
  <2>3. PICK k \in 1..n : Min(ToSet(v)) = v[k]
    BY <1>2, <1>6
  <2>4. PICK l \in 1..n : x = v[l]
    BY <1>2
  <2>5. Min(ToSet(v)) <= x /\ ~(Min(ToSet(v)) < x) /\ x \in Int /\ Min(ToSet(v)) \in Int
    BY <1>1, <1>6, <2>2, <2>3, <2>4
  <2> QED
    BY <2>1, <2>5
<1>8. Sorted(v)[n] = Max(ToSet(v))
  <2>1. PICK x \in ToSet(v) : x = Sorted(v)[n] /\ n <= UpTo(v, x)
    BY <1>4
  <2>2. ASSUME NEW k \in 1..n PROVE v[k] <= x
    <3> DEFINE M == {j \in DOMAIN v : v[j] <= x}
    <3>1. n <= Cardinality(M)
      BY <2>1 DEF UpTo
    <3>2. M \in SUBSET (1..n)
      OBVIOUS
    <3>3. IsFiniteSet(1..n) /\ Cardinality(1..n) = n
      BY PositionsCount
    <3>4. M = 1..n
      <4> HIDE DEF M
      <4>1. Cardinality(M) \in 0..n
        BY <3>2, PositionsCount
      <4>2. Cardinality(M) = Cardinality(1..n)
        BY <3>1, <3>3, <4>1
      <4> QED
        BY <3>2, <3>3, <4>2, FS_Subset
    <3> QED
      BY <3>4
  <2>3. PICK k \in 1..n : Max(ToSet(v)) = v[k]
    BY <1>2, <1>6
  <2>4. PICK l \in 1..n : x = v[l]
    BY <1>2
  <2>5. x <= Max(ToSet(v)) /\ Max(ToSet(v)) <= x /\ x \in Int /\ Max(ToSet(v)) \in Int
    BY <1>1, <1>6, <2>2, <2>3, <2>4
  <2> QED
    BY <2>1, <2>5
<1> QED
  BY <1>5, <1>7, <1>8

-----------------------------------------------------------------------------
(* The frequencies of a sequence add up to its length *)

\* The positions of v that hold a value of s.
Holding(v, s) == {i \in DOMAIN v : v[i] \in s}

\* g is the function that SumOver defines by recursion.
AddsUp(f, g) ==
  g = [s \in SUBSET (DOMAIN f) |->
         IF s = {} THEN 0
         ELSE f[CHOOSE x \in s : TRUE] + g[s \ {CHOOSE x \in s : TRUE}]]

\* SumOver reads its sum off such a function.
LEMMA SumOverAddsUp ==
  ASSUME NEW f
  PROVE  SumOver(f) = (CHOOSE g : AddsUp(f, g))[DOMAIN f]
BY DEF SumOver, FoldFunction, FoldFunctionOnSet, MapThenFoldSet, AddsUp

\* One value and the others part the positions.
LEMMA HoldingSplits ==
  ASSUME NEW n \in Nat, NEW v \in [1..n -> Int], NEW s \in SUBSET ToSet(v), NEW x \in s
  PROVE  /\ Cardinality(Holding(v, s)) = HowOften(v)[x] + Cardinality(Holding(v, s \ {x}))
         /\ Cardinality(Holding(v, s \ {x})) \in Nat
         /\ HowOften(v)[x] \in Nat \ {0}
<1> DEFINE A == {i \in DOMAIN v : v[i] = x}
           B == Holding(v, s \ {x})
<1>1. x \in ToSet(v) /\ A # {}
  BY DEF ToSet
<1>2. A \in SUBSET (1..n) /\ B \in SUBSET (1..n) /\ A \cup B = Holding(v, s) /\ A \cap B = {}
  BY DEF Holding
<1>3. HowOften(v)[x] = Cardinality(A)
  BY <1>1 DEF HowOften
<1> HIDE DEF A, B
<1>4. /\ IsFiniteSet(A) /\ Cardinality(A) \in Nat
      /\ IsFiniteSet(B) /\ Cardinality(B) \in Nat
  BY <1>2, PositionsCount
<1>5. Cardinality(A) # 0 /\ Cardinality(A \cap B) = 0
  BY <1>1, <1>2, <1>4, FS_EmptySet
<1>6. Cardinality(A \cup B) = Cardinality(A) + Cardinality(B) - Cardinality(A \cap B)
  BY <1>4, FS_Union
<1>7. /\ Cardinality(Holding(v, s)) = HowOften(v)[x] + Cardinality(B)
      /\ Cardinality(B) \in Nat
      /\ HowOften(v)[x] \in Nat \ {0}
  <2>1. Cardinality(Holding(v, s)) = Cardinality(A \cup B)
    BY <1>2, Zenon
  <2>2. Cardinality(A \cup B) = Cardinality(A) + Cardinality(B)
    BY <1>4, <1>5, <1>6
  <2>3. HowOften(v)[x] \in Nat \ {0}
    BY <1>3, <1>4, <1>5
  <2> QED
    BY <1>3, <1>4, <2>1, <2>2, <2>3
<1> QED
  BY <1>7 DEF B

\* The recursion counts positions, and nothing else solves it: another solution would go
\* wrong where the fewest positions are left.
LEMMA FrequenciesAddUp ==
  ASSUME NEW n \in Nat, NEW v \in [1..n -> Int]
  PROVE  SumOver(HowOften(v)) = n
<1> DEFINE f == HowOften(v)
           D == ToSet(v)
           e == [s \in SUBSET D |-> Cardinality(Holding(v, s))]
           pick(s) == CHOOSE x \in s : TRUE
<1>1. DOMAIN f = D
  BY DEF HowOften
<1>2. Cardinality(Holding(v, {})) = 0
  <2>1. Holding(v, {}) = {}
    BY DEF Holding
  <2> QED
    BY <2>1, FS_EmptySet
<1>3. Cardinality(Holding(v, D)) = n /\ D \in SUBSET D
  <2>1. Holding(v, D) = 1..n
    BY DEF Holding, ToSet
  <2>2. Cardinality(1..n) = n
    <3>1. {} \in SUBSET (1..n)
      OBVIOUS
    <3> QED
      BY <3>1, PositionsCount
  <2> QED
    BY <2>1, <2>2
<1>4. ASSUME NEW s \in SUBSET D, s # {}
      PROVE  /\ pick(s) \in s /\ s \ {pick(s)} \in SUBSET D
             /\ Cardinality(Holding(v, s)) = f[pick(s)] + Cardinality(Holding(v, s \ {pick(s)}))
             /\ Cardinality(Holding(v, s \ {pick(s)})) \in Nat
             /\ f[pick(s)] \in Nat \ {0}
  <2>1. pick(s) \in s
    BY <1>4
  <2> HIDE DEF pick
  <2>2. PICK x \in s : x = pick(s)
    BY <2>1
  <2>3. /\ Cardinality(Holding(v, s)) = HowOften(v)[x] + Cardinality(Holding(v, s \ {x}))
        /\ Cardinality(Holding(v, s \ {x})) \in Nat
        /\ HowOften(v)[x] \in Nat \ {0}
    BY HoldingSplits
  <2> QED
    BY <2>1, <2>2, <2>3
<1> HIDE DEF f, D
<1>5. AddsUp(f, e)
  <2>1. \A s \in SUBSET D : e[s] = Cardinality(Holding(v, s))
    OBVIOUS
  <2>2. e = [s \in SUBSET D |-> e[s]]
    OBVIOUS
  <2> HIDE DEF e
  <2>3. ASSUME NEW s \in SUBSET D
        PROVE  e[s] = IF s = {} THEN 0 ELSE f[pick(s)] + e[s \ {pick(s)}]
    <3> HIDE DEF pick
    <3>1. CASE s = {}
      BY <1>2, <2>1, <3>1
    <3>2. CASE s # {}
      BY <1>4, <2>1, <3>2
    <3> QED
      BY <3>1, <3>2
  <2> QED
    BY <1>1, <2>2, <2>3 DEF AddsUp
<1>6. ASSUME NEW g, AddsUp(f, g) PROVE g[D] = n
  <2>0. ASSUME NEW s \in SUBSET D
        PROVE  g[s] = IF s = {} THEN 0 ELSE f[pick(s)] + g[s \ {pick(s)}]
    BY <1>1, <1>6 DEF AddsUp
  <2> HIDE DEF pick
  <2> DEFINE Wrong == {c \in Nat : \E s \in SUBSET D : /\ c = Cardinality(Holding(v, s))
                                                       /\ g[s] # c}
  <2>1. Wrong = {}
    <3> SUFFICES ASSUME Wrong # {} PROVE FALSE
      OBVIOUS
    <3>1. PICK c \in Wrong : \A d \in Wrong : c <= d
      BY SmallestNat
    <3>2. PICK s \in SUBSET D : c = Cardinality(Holding(v, s)) /\ g[s] # c
      BY <3>1
    <3>3. s # {}
      BY <1>2, <2>0, <3>2
    <3> DEFINE t == s \ {pick(s)}
               d == Cardinality(Holding(v, t))
    <3>4. t \in SUBSET D /\ c = f[pick(s)] + d /\ d \in Nat /\ f[pick(s)] \in Nat \ {0}
      BY <1>4, <3>2, <3>3
    <3>5. g[s] = f[pick(s)] + g[t]
      BY <2>0, <3>3
    <3> HIDE DEF t
    <3>6. d \in Wrong
      BY <3>2, <3>4, <3>5
    <3> HIDE DEF d
    <3>7. c <= d
      <4> HIDE DEF Wrong
      <4> QED
        BY <3>1, <3>6
    <3> QED
      BY <3>4, <3>7
  <2> QED
    BY <1>3, <2>1
<1>7. SumOver(f) = (CHOOSE g : AddsUp(f, g))[D]
  BY <1>1, SumOverAddsUp
<1> HIDE DEF e
<1>8. SumOver(f) = n
  BY <1>5, <1>6, <1>7
<1> QED
  BY <1>8 DEF f

-----------------------------------------------------------------------------
(* Answers *)

\* The quantiles 0 and 1 of values are the least and the greatest of them.
LEMMA ExtremeQuantiles ==
  ASSUME NEW n \in Nat \ {0}, NEW v \in [1..n -> Int], v # <<>>
  PROVE  /\ SampleQuantile(0, 1, v)[1] = Min(ToSet(v))
         /\ SampleQuantile(1, 1, v)[1] = Max(ToSet(v))
<1> DEFINE s == Sorted(v)
<1>1. s \in [1..n -> Int] /\ s[1] = Min(ToSet(v)) /\ s[n] = Max(ToSet(v))
  BY SortedRanks
<1> HIDE DEF s
<1>2. Len(s) = n
  BY <1>1
<1>3. ASSUME NEW num \in {0, 1}
      PROVE  LET lower == (num * (Len(s) - 1)) \div 1
                 upper == Min({Len(s) - 1, lower + 1})
                 weight == (num * (Len(s) - 1)) % 1
             IN  SampleQuantile(num, 1, v) = <<s[lower + 1] * (1 - weight) + s[upper + 1] * weight, 1>>
  BY DEF SampleQuantile, s
<1>4. ASSUME NEW num \in {0, 1}
      PROVE  SampleQuantile(num, 1, v)[1] = s[num * (n - 1) + 1]
  <2> DEFINE lower == (num * (Len(s) - 1)) \div 1
             upper == Min({Len(s) - 1, lower + 1})
             weight == (num * (Len(s) - 1)) % 1
  <2>1. lower = num * (n - 1) /\ weight = 0 /\ lower \in 0..(n - 1)
    <3>1. CASE num = 0
      BY <1>2, <3>1
    <3>2. CASE num = 1
      BY <1>2, <3>2
    <3> QED
      BY <3>1, <3>2
  <2>2. upper \in 0..(n - 1)
    <3> HIDE DEF lower
    <3>1. \E x \in {Len(s) - 1, lower + 1} : \A y \in {Len(s) - 1, lower + 1} : x <= y
      <4>1. CASE n - 1 <= lower + 1
        BY <1>2, <2>1, <4>1
      <4>2. CASE ~(n - 1 <= lower + 1)
        BY <1>2, <2>1, <4>2
      <4> QED
        BY <4>1, <4>2
    <3>2. upper \in {Len(s) - 1, lower + 1} /\ \A y \in {Len(s) - 1, lower + 1} : upper <= y
      BY <3>1 DEF Min
    <3> HIDE DEF upper
    <3> QED
      BY <1>2, <2>1, <3>2
  <2>3. SampleQuantile(num, 1, v) = <<s[lower + 1] * (1 - weight) + s[upper + 1] * weight, 1>>
    BY <1>3
  <2> HIDE DEF lower, upper, weight
  <2>4. s[lower + 1] \in Int /\ s[upper + 1] \in Int
    <3>1. lower + 1 \in 1..n /\ upper + 1 \in 1..n
      BY <2>1, <2>2
    <3> QED
      BY <1>1, <3>1
  <2>5. s[lower + 1] * (1 - weight) + s[upper + 1] * weight = s[lower + 1]
    BY <2>1, <2>4
  <2> QED
    BY <2>1, <2>3, <2>5
<1>5. 0 * (n - 1) + 1 = 1 /\ 1 * (n - 1) + 1 = n
  OBVIOUS
<1> QED
  BY <1>1, <1>4, <1>5

\* The running maximum from 0, where a value is positive.
LEMMA MaxFromZero ==
  ASSUME NEW n \in Nat \ {0}, NEW v \in [1..n -> Int], Max(ToSet(v)) > 0
  PROVE  Max({0} \cup ToSet(v)) = Max(ToSet(v))
<1>1. /\ Max(ToSet(v)) \in ToSet(v) /\ \A i \in 1..n : v[i] <= Max(ToSet(v))
  BY MinMaxOfSeq
<1>2. \A x \in ToSet(v) : x \in Int /\ \E k \in 1..n : x = v[k]
  BY DEF ToSet
<1> DEFINE m == Max(ToSet(v))
           S == {0} \cup ToSet(v)
<1>3. m \in Int /\ m > 0 /\ m \in S /\ \A x \in S : m >= x /\ x \in Int
  <2> HIDE DEF m
  <2>1. m \in ToSet(v) /\ m \in Int /\ m > 0 /\ \A i \in 1..n : v[i] <= m
    BY <1>1, <1>2 DEF m
  <2>2. \A x \in ToSet(v) : m >= x
    BY <1>2, <2>1
  <2> QED
    BY <1>2, <2>1, <2>2
<1> HIDE DEF m, S
<1>4. Max(S) \in S /\ \A y \in S : Max(S) >= y
  BY <1>3 DEF Max
<1>5. Max(S) = m
  <2>1. PICK k : k = Max(S)
    OBVIOUS
  <2>2. k \in S /\ k >= m
    BY <1>3, <1>4, <2>1
  <2>3. m >= k /\ k \in Int /\ m \in Int
    BY <1>3, <2>2
  <2> QED
    BY <2>1, <2>2, <2>3
<1> QED
  BY <1>5 DEF m, S

\* For a calm sketch every answer about a covered interval is that of what was kept of it.
LEMMA CalmIsExact ==
  ASSUME SamplingInv, CalmInv
  PROVE  CoveredAnswersAreExact
<1> SUFFICES ASSUME calm, NEW t1 \in Times, NEW t2 \in Times, t1 <= t2, Cover(t1, t2)
             PROVE  LET ref == Reference(t1, t2)
                        freq == HowOften(ref)
                    IN /\ GetSamples(t1, t2) = ref
                       /\ ref # <<>> =>
                            /\ QuerySum(t1, t2) = InvRate * Plus(ref)
                            /\ QueryAvg(t1, t2) = <<Plus(ref), Len(ref)>>
                            /\ QuerySum2(t1, t2) = InvRate * Plus(Squares(ref))
                            /\ QueryStdvar(t1, t2) = Variance(ref)
                            /\ QueryDistinct(t1, t2) = Cardinality(ToSet(ref))
                            /\ QueryL2(t1, t2) = InvRate * SquaresOver(freq)
                            /\ QueryEntropy(t1, t2) =
                                 [total |-> InvRate * Len(ref), freq |-> freq]
                            /\ QueryGSum(t1, t2) =
                                 <<InvRate * QueryDistinct(t1, t2), QueryL1(t1, t2),
                                   QueryEntropy(t1, t2), QueryL2(t1, t2)>>
                            /\ QueryMin(t1, t2) = Min(ToSet(ref))
                            /\ Max(ToSet(ref)) > 0 => QueryMax(t1, t2) = Max(ToSet(ref))
                            /\ QueryQuantile(0, 1, t1, t2)[1] = Min(ToSet(ref))
                            /\ QueryQuantile(1, 1, t1, t2)[1] = Max(ToSet(ref))
                       /\ QueryCount(t1, t2) \in {NaN, InvRate * Len(ref)}
                       /\ QueryL1(t1, t2) = QueryCount(t1, t2)
  BY DEF CoveredAnswersAreExact
<1>1. PICK a, b, v : a = Idx1(t1) /\ b = Idx2(t2) + 1 /\ v = Reference(t1, t2)
  OBVIOUS
<1>2. t1 \in Nat /\ t2 \in Nat
  BY SamplingAssumption
<1>3. /\ a \in 0..Len(Arr) /\ b \in 0..Len(Arr) /\ a <= b
      /\ v = Stretch(Arr, a, b) /\ Chosen(t1, t2) = v /\ GetSamples(t1, t2) = v
      /\ Idx2(t2) \in Int
  BY <1>1, <1>2, ChosenIsReference
<1>4. Len(Arr) \in Nat /\ \A i \in 1..Len(Arr) : Arr[i].F \in Int
  <2>1. Len(Arr) \in Nat /\ \A i \in 1..Len(Arr) : Arr[i] \in Sample
    BY DEF SamplingInv
  <2>2. \A s \in Sample : s.F \in Int
    BY SamplingAssumption DEF Sample
  <2> QED
    BY <2>1, <2>2
<1>5. PICK n : n = b - a
  OBVIOUS
<1>6. n \in Nat /\ v \in [1..n -> Int] /\ Len(v) = n /\ \A i \in 1..n : v[i] = Arr[a + i].F
  <2>1. n \in Nat /\ \A i \in 1..n : a + i \in 1..Len(Arr)
    BY <1>3, <1>4, <1>5
  <2>2. v = [i \in 1..n |-> Arr[a + i].F]
    BY <1>3, <1>5 DEF Stretch
  <2>3. v \in [1..n -> Int] /\ \A i \in 1..n : v[i] = Arr[a + i].F
    BY <1>4, <2>1, <2>2
  <2> QED
    BY <2>1, <2>3
<1>7. \A z : OrNaN(t1, z) = IF a >= Len(Arr) THEN NaN ELSE z
  BY <1>1 DEF OrNaN
<1>8. QueryCount(t1, t2) \in {NaN, InvRate * Len(v)} /\ QueryL1(t1, t2) = QueryCount(t1, t2)
  <2>1. Idx2(t2) - Idx1(t1) + 1 = n
    <3>1. Idx2(t2) = b - 1
      BY <1>1, <1>3
    <3> QED
      BY <1>1, <1>3, <1>5, <3>1
  <2>2. SumOver(HowOften(v)) = n
    BY <1>6, FrequenciesAddUp
  <2>3. QueryL1(t1, t2) = OrNaN(t1, InvRate * n) /\ QueryCount(t1, t2) = OrNaN(t1, InvRate * n)
    BY <1>3, <2>1, <2>2 DEF QueryL1, QueryCount
  <2> QED
    BY <1>6, <1>7, <2>3
<1>9. ASSUME v # <<>>
      PROVE  /\ QuerySum(t1, t2) = InvRate * Plus(v)
             /\ QueryAvg(t1, t2) = <<Plus(v), Len(v)>>
             /\ QuerySum2(t1, t2) = InvRate * Plus(Squares(v))
             /\ QueryStdvar(t1, t2) = Variance(v)
             /\ QueryDistinct(t1, t2) = Cardinality(ToSet(v))
             /\ QueryL2(t1, t2) = InvRate * SquaresOver(HowOften(v))
             /\ QueryEntropy(t1, t2) = [total |-> InvRate * Len(v), freq |-> HowOften(v)]
             /\ QueryGSum(t1, t2) =
                  <<InvRate * QueryDistinct(t1, t2), QueryL1(t1, t2),
                    QueryEntropy(t1, t2), QueryL2(t1, t2)>>
             /\ QueryMin(t1, t2) = Min(ToSet(v))
             /\ Max(ToSet(v)) > 0 => QueryMax(t1, t2) = Max(ToSet(v))
             /\ QueryQuantile(0, 1, t1, t2)[1] = Min(ToSet(v))
             /\ QueryQuantile(1, 1, t1, t2)[1] = Max(ToSet(v))
  <2>1. n \in Nat \ {0}
    <3>1. n # 0
      <4>1. n = 0 => b = a
        BY <1>3, <1>4, <1>5
      <4> QED
        BY <1>3, <1>9, <4>1, StretchEmpty
    <3> QED
      BY <1>6, <3>1
  <2>2. ~(a >= Len(Arr))
    BY <1>3, <1>4, <1>5, <2>1
  <2>3. \A z : OrNaN(t1, z) = z
    BY <1>7, <2>2
  <2>4. /\ QuerySum(t1, t2) = InvRate * Plus(v)
        /\ QueryAvg(t1, t2) = <<Plus(v), Len(v)>>
        /\ QuerySum2(t1, t2) = InvRate * Plus(Squares(v))
        /\ QueryStdvar(t1, t2) = Variance(v)
    BY <1>3, <2>3 DEF QuerySum, QueryAvg, QuerySum2, QueryStdvar
  <2>5. /\ QueryDistinct(t1, t2) = Cardinality(ToSet(v))
        /\ QueryL1(t1, t2) = InvRate * SumOver(HowOften(v))
        /\ QueryL2(t1, t2) = InvRate * SquaresOver(HowOften(v))
        /\ QueryEntropy(t1, t2) = [total |-> InvRate * Len(v), freq |-> HowOften(v)]
    <3>1. DOMAIN HowOften(v) = ToSet(v)
      BY DEF HowOften
    <3> QED
      BY <1>3, <2>3, <3>1 DEF QueryDistinct, QueryL1, QueryL2, QueryEntropy
  <2>6. QueryGSum(t1, t2) =
          <<InvRate * QueryDistinct(t1, t2), QueryL1(t1, t2),
            QueryEntropy(t1, t2), QueryL2(t1, t2)>>
    <3>1. DOMAIN HowOften(v) = ToSet(v)
      BY DEF HowOften
    <3> QED
      BY <1>3, <2>3, <2>5, <3>1 DEF QueryGSum
  <2>7. QueryMin(t1, t2) = Min(ToSet(v))
    <3>1. Arr[Idx1(t1) + 1].F = v[1] /\ v[1] \in ToSet(v)
      <4>1. 1 \in 1..n
        BY <2>1
      <4> QED
        BY <1>1, <1>6, <4>1 DEF ToSet
    <3>2. {Arr[Idx1(t1) + 1].F} \cup ToSet(v) = ToSet(v)
      BY <3>1
    <3> QED
      BY <1>3, <2>3, <3>2 DEF QueryMin
  <2>8. Max(ToSet(v)) > 0 => QueryMax(t1, t2) = Max(ToSet(v))
    BY <1>3, <1>6, <2>1, <2>3, MaxFromZero DEF QueryMax
  <2>9. /\ QueryQuantile(0, 1, t1, t2)[1] = Min(ToSet(v))
        /\ QueryQuantile(1, 1, t1, t2)[1] = Max(ToSet(v))
    <3>1. /\ SampleQuantile(0, 1, v)[1] = Min(ToSet(v))
          /\ SampleQuantile(1, 1, v)[1] = Max(ToSet(v))
      BY <1>6, <1>9, <2>1, ExtremeQuantiles
    <3>2. \A num : QueryQuantile(num, 1, t1, t2) = SampleQuantile(num, 1, v)
      BY <1>3, <2>3 DEF QueryQuantile
    <3> QED
      BY <3>1, <3>2
  <2> QED
    BY <2>4, <2>5, <2>6, <2>7, <2>8, <2>9
<1> HIDE DEF SamplingInv
<1> QED
  BY <1>1, <1>3, <1>8, <1>9

SampledInv == SamplingInv /\ CalmInv

\* What a calm sketch has dropped, and the order of what it has kept, in every state.
THEOREM CalmInvariant == Spec => []CalmInv
<1>1. Init => SampledInv
  <2> SUFFICES ASSUME Init PROVE SampledInv
    OBVIOUS
  <2>1. SamplingInv
    BY InitHolds DEF IInv
  <2>2. Arr = <<>> /\ kept = <<>> /\ Cur_time = 0 /\ Len(Arr) = 0 /\ Len(kept) = 0
    BY DEF Init, SamplingInit
  <2>3. CalmFacts
    BY <2>2 DEF CalmFacts, Dropped
  <2> QED
    BY <2>1, <2>2, <2>3 DEF SampledInv, CalmInv
<1>2. SampledInv /\ [Next]_vars => SampledInv'
  BY SamplingKept, CalmKept DEF SampledInv
<1>3. SampledInv => CalmInv
  BY DEF SampledInv
<1> QED
  BY <1>1, <1>2, <1>3, PTL DEF Spec

\* For any samples, window and limit: when Cover says yes of a calm sketch, every
\* statistic is exactly that of the samples that were kept of the interval.
THEOREM CoveredIsExact == Spec => []CoveredAnswersAreExact
<1>1. IInv /\ CalmInv => CoveredAnswersAreExact
  BY CalmIsExact DEF IInv
<1> QED
  BY <1>1, Invariance, CalmInvariant, PTL
=============================================================================
