------------------------- MODULE SketchStorage_proofs -------------------------
(***************************************************************************)
(* Proofs about SketchStorage, for any number of calls and series, any     *)
(* memory limit and any number of functions: what races can do to the      *)
(* memory limit, to the sketches of a series and to a sample.              *)
(***************************************************************************)
EXTENDS SketchStorage, FiniteSetTheorems, TLAPS

\* Calls that hold a memSeries in order to give it the sketch at their position.
AtSketch == {"look", "alloc", "make"}

\* Each lookup finds the registered memSeries of the series, of which there is one at
\* most, and whoever sets a sketch has seen that there is a place for it.
Registered ==
  /\ \A s \in Series : \A o, p \in hashes[s] : o = p /\ SeriesOf[o] = s
  /\ \A c \in Inserts : \A o, p \in series[c] : o = p /\ SeriesOf[o] = SeriesOf[c]
  /\ \A o \in Inserts : made[o] # {} => o \in allocated
  /\ \A c \in Inserts : pc[c] = "make" => series[c] \subseteq allocated

\* A call creates a memSeries at its first function only, and until then none is
\* known under its name.
Places ==
  \A c \in Inserts :
    /\ pc[c] \in {"start", "limit", "publish", "count", "insert"} => at[c] = 1
    /\ pc[c] \in AtSketch \/ (pc[c] = "get" /\ at[c] # 1) => hashes[SeriesOf[c]] # {}
    /\ pc[c] \in {"start", "limit", "get", "publish"} /\ at[c] = 1 =>
         /\ c \notin allocated
         /\ \A d \in Inserts : c \notin series[d]
         /\ \A s \in Series : c \notin hashes[s]

\* Call c will still see to it that memSeries o, if it stays registered, has sketch t.
Covers(c, o, t) ==
  \E q \in DOMAIN CreateOrder :
    /\ CreateOrder[q] = t
    /\ \/ pc[c] = "get" /\ q >= at[c]
       \/ pc[c] \in AtSketch /\ q > at[c]
       \/ pc[c] \in AtSketch /\ q = at[c] /\ o \in series[c]

\* What a series with a sampling sketch lacks, some call is still going to make.
Repair ==
  \A s \in Series : \A o \in hashes[s] : "USampling" \in made[o] =>
    \A t \in SketchTypes \ made[o] :
      \E c \in Inserts : SeriesOf[c] = s /\ Covers(c, o, t)

\* Calls past the check count for what they will add.
Bound == MemoryLimit > 0 => memoryUsed + Cardinality(Creating) < MemoryLimit + peak

\* From the first calm call on nobody creates sketches of its series.
Calm ==
  \A c \in calm :
    /\ Complete(SeriesOf[c]) /\ InFlight(SeriesOf[c]) \subseteq calm
    /\ pc[c] \in {"insert", "update", "ok"}
    /\ pc[c] = "update" => series[c] = hashes[SeriesOf[c]] /\ at[c] \in DOMAIN InsertOrder
    /\ pc[c] = "update" =>
         \A i \in DOMAIN InsertOrder, o \in hashes[SeriesOf[c]] :
           i < at[c] => c \in held[o][InsertOrder[i]]
    /\ pc[c] = "ok" =>
         \A o \in hashes[SeriesOf[c]], t \in SketchTypes : c \in held[o][t]

IInv == TypeOK /\ Registered /\ Places /\ Repair /\ Bound /\ Calm

-----------------------------------------------------------------------------
(* The lists of functions and of updates. *)

\* Each type is listed, sampling sketches before the others.
LEMMA OrderFacts ==
  /\ Len(CreateOrder) \in Nat /\ Len(CreateOrder) >= 3
  /\ DOMAIN CreateOrder = 1..Len(CreateOrder)
  /\ \A i \in DOMAIN CreateOrder : CreateOrder[i] \in SketchTypes
  /\ \A i \in DOMAIN CreateOrder : CreateOrder[i] = "USampling" =>
       \A t \in SketchTypes \ {"USampling"} :
         \E q \in DOMAIN CreateOrder : q > i /\ CreateOrder[q] = t
<1> DEFINE U == Listed("USampling", 6)
           K == Listed("EHKLL", 3)
           V == Listed("EHUniv", 4)
<1>1. /\ U \in Seq(SketchTypes) /\ Len(U) \in Nat \ {0} /\ \A i \in 1..Len(U) : U[i] = "USampling"
      /\ K \in Seq(SketchTypes) /\ Len(K) \in Nat \ {0} /\ \A i \in 1..Len(K) : K[i] = "EHKLL"
      /\ V \in Seq(SketchTypes) /\ Len(V) \in Nat \ {0} /\ \A i \in 1..Len(V) : V[i] = "EHUniv"
  BY StorageAssumption DEF Listed, SketchTypes
<1> HIDE DEF U, K, V
<1>2. /\ U \o K \in Seq(SketchTypes) /\ Len(U \o K) = Len(U) + Len(K)
      /\ \A i \in 1..(Len(U) + Len(K)) :
           (U \o K)[i] = IF i <= Len(U) THEN U[i] ELSE K[i - Len(U)]
  BY <1>1
<1> DEFINE UK == U \o K
<1> HIDE DEF UK
<1>3. /\ UK \o V \in Seq(SketchTypes) /\ Len(UK \o V) = Len(U) + Len(K) + Len(V)
      /\ \A i \in 1..(Len(U) + Len(K) + Len(V)) :
           (UK \o V)[i] = IF i <= Len(UK) THEN UK[i] ELSE V[i - Len(UK)]
  BY <1>1, <1>2 DEF UK
<1>4. CreateOrder = UK \o V
  BY DEF CreateOrder, UK, U, K, V
<1> DEFINE n == Len(U)
           m == Len(U) + Len(K)
<1>5. /\ \A i \in 1..n : CreateOrder[i] = "USampling"
      /\ \A i \in (n + 1)..m : CreateOrder[i] = "EHKLL"
      /\ \A i \in (m + 1)..Len(CreateOrder) : CreateOrder[i] = "EHUniv"
  <2>1. ASSUME NEW i \in 1..n PROVE CreateOrder[i] = "USampling"
    BY <1>1, <1>2, <1>3, <1>4 DEF UK
  <2>2. ASSUME NEW i \in (n + 1)..m PROVE CreateOrder[i] = "EHKLL"
    <3>1. i - n \in 1..Len(K) /\ i \in 1..m /\ ~(i <= n)
      BY <1>1
    <3>2. UK[i] = K[i - n]
      BY <1>2, <3>1 DEF UK
    <3> QED
      BY <1>1, <1>2, <1>3, <1>4, <3>1, <3>2 DEF UK
  <2>3. ASSUME NEW i \in (m + 1)..Len(CreateOrder) PROVE CreateOrder[i] = "EHUniv"
    <3>1. i - m \in 1..Len(V) /\ i \in 1..Len(CreateOrder) /\ ~(i <= Len(UK))
      BY <1>1, <1>2, <1>3, <1>4 DEF UK
    <3> QED
      BY <1>1, <1>2, <1>3, <1>4, <3>1 DEF UK
  <2> QED
    BY <2>1, <2>2, <2>3
<1>6. /\ n \in Nat \ {0} /\ m \in Nat /\ m > n
      /\ Len(CreateOrder) \in Nat /\ Len(CreateOrder) > m
      /\ DOMAIN CreateOrder = 1..Len(CreateOrder)
  BY <1>1, <1>2, <1>3, <1>4
<1> HIDE DEF n, m
<1>7. ASSUME NEW i \in DOMAIN CreateOrder
      PROVE  CreateOrder[i] \in SketchTypes /\ (CreateOrder[i] = "USampling" => i <= n)
  BY <1>5, <1>6 DEF SketchTypes
<1>8. CreateOrder[n + 1] = "EHKLL" /\ CreateOrder[m + 1] = "EHUniv"
  BY <1>5, <1>6
<1> QED
  BY <1>6, <1>7, <1>8 DEF SketchTypes

-----------------------------------------------------------------------------
(* Types *)

LEMMA CreatingIsFinite ==
  IsFiniteSet(Creating) /\ Cardinality(Creating) \in 0..Cardinality(Inserts)
BY StorageAssumption, FS_Subset, FS_CardinalityType DEF Creating

LEMMA TypeKept ==
  ASSUME TypeOK, [Next]_vars PROVE TypeOK'
<1>1. ASSUME NEW c \in Inserts, CheckInstance(c) PROVE TypeOK'
  BY <1>1 DEF TypeOK, CheckInstance, Finished
<1>2. ASSUME NEW c \in Inserts, CheckLimit(c) PROVE TypeOK'
  <2>1. Creating' \subseteq Inserts
    BY DEF Creating
  <2>2. Cardinality(Creating') \in 0..Cardinality(Inserts)
    BY <2>1, StorageAssumption, FS_Subset, FS_CardinalityType
  <2> QED
    BY <1>2, <2>2 DEF TypeOK, CheckLimit, Finished
<1>3. ASSUME NEW c \in Inserts, GetByHash(c) PROVE TypeOK'
  BY <1>3, StorageAssumption DEF TypeOK, GetByHash, Finished
<1>4. ASSUME NEW c \in Inserts, Publish(c) PROVE TypeOK'
  BY <1>4, StorageAssumption DEF TypeOK, Publish, Finished
<1>5. ASSUME NEW c \in Inserts, TypeOK, NextFunction(c)
      PROVE  /\ pc' \in [Inserts -> {"start", "limit", "get", "publish", "look", "alloc",
                                    "make", "count", "insert", "update"} \cup Finished]
             /\ at' \in [Inserts -> DOMAIN CreateOrder]
  <2>1. at[c] \in 1..Len(CreateOrder) /\ Len(CreateOrder) \in Nat
    BY OrderFacts DEF TypeOK
  <2>2. 1 \in DOMAIN CreateOrder /\ (at[c] < Len(CreateOrder) => at[c] + 1 \in DOMAIN CreateOrder)
    BY <2>1, OrderFacts
  <2>3. CASE at[c] < Len(CreateOrder)
    <3>1. pc' = [pc EXCEPT ![c] = "get"] /\ at' = [at EXCEPT ![c] = at[c] + 1]
      BY <1>5, <2>3 DEF NextFunction
    <3> QED
      BY <2>2, <2>3, <3>1 DEF TypeOK
  <2>4. CASE ~(at[c] < Len(CreateOrder))
    <3>1. pc' = [pc EXCEPT ![c] = "count"] /\ at' = [at EXCEPT ![c] = 1]
      BY <1>5, <2>4 DEF NextFunction
    <3> QED
      BY <2>2, <3>1 DEF TypeOK
  <2> QED
    BY <2>3, <2>4
<1>6. ASSUME NEW c \in Inserts, Look(c) PROVE TypeOK'
  BY <1>5, <1>6 DEF TypeOK, Look, Finished
<1>7. ASSUME NEW c \in Inserts, Alloc(c) PROVE TypeOK'
  BY <1>7 DEF TypeOK, Alloc, Finished, NoSketches
<1>8. ASSUME NEW c \in Inserts, Make(c) PROVE TypeOK'
  <2>1. CreateOrder[at[c]] \in SketchTypes
    BY OrderFacts DEF TypeOK
  <2> DEFINE t == CreateOrder[at[c]]
  <2>2. PICK o \in series[c] : /\ made' = [made EXCEPT ![o] = @ \cup {t}]
                               /\ held' = [held EXCEPT ![o][t] = {}]
    BY <1>8 DEF Make
  <2> HIDE DEF t
  <2>3. made' \in [Inserts -> SUBSET SketchTypes]
    BY <2>1, <2>2 DEF TypeOK, t
  <2>4. held' \in [Inserts -> [SketchTypes -> SUBSET Inserts]]
    BY <2>1, <2>2 DEF TypeOK, t
  <2> QED
    BY <1>5, <1>8, <2>3, <2>4 DEF TypeOK, Make
<1>9. ASSUME NEW c \in Inserts, Count(c) PROVE TypeOK'
  BY <1>9 DEF TypeOK, Count, Finished
<1>10. ASSUME NEW c \in Inserts, SketchInsert(c) PROVE TypeOK'
  BY <1>10, StorageAssumption DEF TypeOK, SketchInsert, Finished
<1>11. ASSUME NEW c \in Inserts, Update(c) PROVE TypeOK'
  <2>1. at' \in [Inserts -> DOMAIN CreateOrder]
    BY <1>11, OrderFacts DEF TypeOK, Update, InsertOrder
  <2>2. held' \in [Inserts -> [SketchTypes -> SUBSET Inserts]]
    BY <1>11 DEF TypeOK, Update
  <2> QED
    BY <1>11, <2>1, <2>2 DEF TypeOK, Update, Finished
<1>12. ASSUME NEW s \in Series, LookUp(s) PROVE TypeOK'
  BY <1>12 DEF TypeOK, LookUp
<1>13. CASE UNCHANGED vars
  BY <1>13 DEF TypeOK, vars
<1> QED
  BY <1>1, <1>2, <1>3, <1>4, <1>6, <1>7, <1>8, <1>9, <1>10, <1>11, <1>12, <1>13
  DEF Next, InsertStep
-----------------------------------------------------------------------------
(* What is registered *)

\* A call goes on to a later function, or has seen the last one.
LEMMA NextFunctionMoves ==
  ASSUME TypeOK, NEW c \in Inserts, NextFunction(c)
  PROVE  /\ \A d \in Inserts \ {c} : pc'[d] = pc[d] /\ at'[d] = at[d]
         /\ \/ at[c] < Len(CreateOrder) /\ pc'[c] = "get" /\ at'[c] = at[c] + 1 /\ at'[c] # 1
            \/ at[c] = Len(CreateOrder) /\ pc'[c] = "count" /\ at'[c] = 1
<1>1. at[c] \in 1..Len(CreateOrder) /\ Len(CreateOrder) \in Nat
  BY OrderFacts DEF TypeOK
<1>2. CASE at[c] < Len(CreateOrder)
  <2>1. pc' = [pc EXCEPT ![c] = "get"] /\ at' = [at EXCEPT ![c] = at[c] + 1]
    BY <1>2 DEF NextFunction
  <2> QED
    BY <1>1, <1>2, <2>1 DEF TypeOK
<1>3. CASE ~(at[c] < Len(CreateOrder))
  <2>1. pc' = [pc EXCEPT ![c] = "count"] /\ at' = [at EXCEPT ![c] = 1]
    BY <1>3 DEF NextFunction
  <2> QED
    BY <1>1, <1>3, <2>1 DEF TypeOK
<1> QED
  BY <1>2, <1>3

LEMMA RegisteredKept ==
  ASSUME TypeOK, Registered, Places, [Next]_vars PROVE Registered'
<1>1. ASSUME NEW c \in Inserts, CheckInstance(c) PROVE Registered'
  BY <1>1, SMTT(30) DEF TypeOK, Registered, CheckInstance
<1>2. ASSUME NEW c \in Inserts, CheckLimit(c) PROVE Registered'
  BY <1>2 DEF TypeOK, Registered, CheckLimit
<1>3. ASSUME NEW c \in Inserts, GetByHash(c) PROVE Registered'
  <2>1. /\ UNCHANGED <<hashes, made, allocated>> /\ SeriesOf[c] \in Series
        /\ series'[c] = hashes[SeriesOf[c]] /\ pc'[c] # "make"
        /\ \A d \in Inserts \ {c} : series'[d] = series[d] /\ pc'[d] = pc[d]
    BY <1>3, StorageAssumption DEF TypeOK, GetByHash
  <2> QED
    BY <2>1 DEF Registered
<1>4. ASSUME NEW c \in Inserts, Publish(c) PROVE Registered'
  BY <1>4, StorageAssumption DEF TypeOK, Registered, Publish
<1>5. ASSUME NEW c \in Inserts, Look(c) PROVE Registered'
  <2>1. /\ UNCHANGED <<series, hashes, made, allocated>>
        /\ \A d \in Inserts : pc'[d] = "make" => pc[d] = "make" \/ series[d] \subseteq allocated
    BY <1>5, NextFunctionMoves DEF TypeOK, Look
  <2> QED
    BY <2>1 DEF Registered
<1>6. ASSUME NEW c \in Inserts, Alloc(c) PROVE Registered'
  BY <1>6 DEF TypeOK, Registered, Alloc
<1>7. ASSUME NEW c \in Inserts, Make(c) PROVE Registered'
  <2>1. /\ UNCHANGED <<series, hashes, allocated>>
        /\ \A d \in Inserts : pc'[d] = "make" => pc[d] = "make"
    BY <1>7, NextFunctionMoves DEF TypeOK, Make
  <2>2. \A o \in Inserts : made'[o] # {} => made[o] # {} \/ o \in series[c]
    BY <1>7 DEF TypeOK, Make
  <2>3. series[c] \subseteq allocated
    BY <1>7 DEF Registered, Make
  <2> QED
    BY <2>1, <2>2, <2>3 DEF Registered
<1>8. ASSUME NEW c \in Inserts, Count(c) PROVE Registered'
  BY <1>8 DEF TypeOK, Registered, Count
<1>9. ASSUME NEW c \in Inserts, SketchInsert(c) PROVE Registered'
  <2>1. /\ UNCHANGED <<hashes, made, allocated>> /\ SeriesOf[c] \in Series
        /\ series'[c] = hashes[SeriesOf[c]] /\ pc'[c] # "make"
        /\ \A d \in Inserts \ {c} : series'[d] = series[d] /\ pc'[d] = pc[d]
    BY <1>9, StorageAssumption DEF TypeOK, SketchInsert
  <2> QED
    BY <2>1 DEF Registered
<1>10. ASSUME NEW c \in Inserts, Update(c) PROVE Registered'
  <2>1. /\ UNCHANGED <<series, hashes, made, allocated>>
        /\ \A d \in Inserts : pc'[d] = "make" => pc[d] = "make"
    BY <1>10 DEF TypeOK, Update
  <2> QED
    BY <2>1 DEF Registered
<1>11. ASSUME NEW s \in Series, LookUp(s) PROVE Registered'
  BY <1>11 DEF Registered, LookUp
<1>12. CASE UNCHANGED vars
  BY <1>12 DEF Registered, vars
<1> QED
  BY <1>1, <1>2, <1>3, <1>4, <1>5, <1>6, <1>7, <1>8, <1>9, <1>10, <1>11, <1>12
  DEF Next, InsertStep

LEMMA PlacesKept ==
  ASSUME TypeOK, Places, [Next]_vars PROVE Places'
<1>1. ASSUME NEW c \in Inserts, CheckInstance(c) PROVE Places'
  BY <1>1 DEF TypeOK, Places, CheckInstance, AtSketch
<1>2. ASSUME NEW c \in Inserts, CheckLimit(c) PROVE Places'
  BY <1>2 DEF TypeOK, Places, CheckLimit, AtSketch
<1>3. ASSUME NEW c \in Inserts, GetByHash(c) PROVE Places'
  BY <1>3, StorageAssumption DEF TypeOK, Places, GetByHash, AtSketch
<1>4. ASSUME NEW c \in Inserts, Publish(c) PROVE Places'
  BY <1>4, StorageAssumption DEF TypeOK, Places, Publish, AtSketch
<1>5. ASSUME NEW c \in Inserts, Look(c) PROVE Places'
  <2>1. CASE pc' = [pc EXCEPT ![c] = "alloc"] /\ UNCHANGED at
    BY <1>5, <2>1 DEF TypeOK, Places, Look, AtSketch
  <2>2. CASE pc' = [pc EXCEPT ![c] = "make"] /\ UNCHANGED at
    BY <1>5, <2>2 DEF TypeOK, Places, Look, AtSketch
  <2>3. CASE NextFunction(c)
    <3>1. pc[c] = "look" /\ UNCHANGED <<series, hashes, allocated>>
      BY <1>5 DEF Look
    <3> QED
      BY <2>3, <3>1, NextFunctionMoves DEF Places, AtSketch
  <2> QED
    BY <1>5, <2>1, <2>2, <2>3 DEF Look
<1>6. ASSUME NEW c \in Inserts, Alloc(c) PROVE Places'
  BY <1>6, SMTT(30) DEF TypeOK, Places, Alloc, AtSketch
<1>7. ASSUME NEW c \in Inserts, Make(c) PROVE Places'
  <2>1. pc[c] = "make" /\ NextFunction(c) /\ UNCHANGED <<series, hashes, allocated>>
    BY <1>7 DEF Make
  <2> QED
    BY <2>1, NextFunctionMoves DEF Places, AtSketch
<1>8. ASSUME NEW c \in Inserts, Count(c) PROVE Places'
  BY <1>8 DEF TypeOK, Places, Count, AtSketch
<1>9. ASSUME NEW c \in Inserts, SketchInsert(c) PROVE Places'
  BY <1>9, StorageAssumption DEF TypeOK, Places, SketchInsert, AtSketch
<1>10. ASSUME NEW c \in Inserts, Update(c) PROVE Places'
  BY <1>10, SMTT(30) DEF TypeOK, Places, Update, AtSketch
<1>11. ASSUME NEW s \in Series, LookUp(s) PROVE Places'
  BY <1>11 DEF Places, LookUp
<1>12. CASE UNCHANGED vars
  BY <1>12 DEF Places, vars
<1> QED
  BY <1>1, <1>2, <1>3, <1>4, <1>5, <1>6, <1>7, <1>8, <1>9, <1>10, <1>11, <1>12
  DEF Next, InsertStep

-----------------------------------------------------------------------------
(* What is repaired *)

\* A call that does not move covers what it covered.
LEMMA OthersStillCover ==
  ASSUME NEW d, NEW o, NEW t, Covers(d, o, t),
         pc'[d] = pc[d], at'[d] = at[d], series'[d] = series[d]
  PROVE  Covers(d, o, t)'
BY DEF Covers, CreateOrder, Listed

\* Steps of a call that is not creating leave everything to those that are.
LEMMA RepairedByOthers ==
  ASSUME Repair, NEW c \in Inserts, UNCHANGED <<hashes, made>>,
         pc[c] \notin AtSketch \cup {"get"},
         \A d \in Inserts \ {c} : pc'[d] = pc[d] /\ at'[d] = at[d] /\ series'[d] = series[d]
  PROVE  Repair'
<1> SUFFICES ASSUME NEW s \in Series, NEW o \in hashes'[s], "USampling" \in made'[o],
                    NEW t \in SketchTypes \ made'[o]
             PROVE  \E d \in Inserts : SeriesOf[d] = s /\ Covers(d, o, t)'
  BY DEF Repair
<1>1. PICK d \in Inserts : SeriesOf[d] = s /\ Covers(d, o, t)
  BY DEF Repair
<1>2. d # c
  BY <1>1 DEF Covers
<1> QED
  BY <1>1, <1>2, OthersStillCover

\* A call that goes on to the next function covers the types listed later.
LEMMA NextFunctionCovers ==
  ASSUME TypeOK, NEW c \in Inserts, NextFunction(c), NEW o, NEW t,
         NEW q \in DOMAIN CreateOrder, CreateOrder[q] = t, q > at[c]
  PROVE  Covers(c, o, t)'
<1>1. at[c] \in 1..Len(CreateOrder) /\ Len(CreateOrder) \in Nat /\ q \in 1..Len(CreateOrder)
  BY OrderFacts DEF TypeOK
<1>2. pc'[c] = "get" /\ at'[c] = at[c] + 1
  BY <1>1, NextFunctionMoves
<1>3. q >= at'[c]
  BY <1>1, <1>2
<1> QED
  BY <1>2, <1>3 DEF Covers, CreateOrder, Listed

LEMMA RepairKept ==
  ASSUME TypeOK, Registered, Places, Repair, [Next]_vars PROVE Repair'
<1>1. ASSUME NEW c \in Inserts, CheckInstance(c) PROVE Repair'
  BY <1>1, RepairedByOthers DEF TypeOK, CheckInstance, AtSketch
<1>2. ASSUME NEW c \in Inserts, CheckLimit(c) PROVE Repair'
  BY <1>2, RepairedByOthers DEF TypeOK, CheckLimit, AtSketch
<1>3. ASSUME NEW c \in Inserts, GetByHash(c) PROVE Repair'
  <2> SUFFICES ASSUME NEW s \in Series, NEW o \in hashes[s], "USampling" \in made[o],
                      NEW t \in SketchTypes \ made[o]
               PROVE  \E d \in Inserts : SeriesOf[d] = s /\ Covers(d, o, t)'
    BY <1>3 DEF Repair, GetByHash
  <2>1. PICK d \in Inserts : SeriesOf[d] = s /\ Covers(d, o, t)
    BY DEF Repair
  <2>2. CASE d # c
    <3>1. pc'[d] = pc[d] /\ at'[d] = at[d] /\ series'[d] = series[d]
      BY <1>3, <2>2 DEF TypeOK, GetByHash
    <3> QED
      BY <2>1, <3>1, OthersStillCover
  <2>3. CASE d = c
    <3>1. pc[c] = "get" /\ pc'[c] = "look" /\ at'[c] = at[c] /\ o \in series'[c]
      BY <1>3, <2>1, <2>3 DEF TypeOK, GetByHash
    <3>2. PICK q \in DOMAIN CreateOrder : CreateOrder[q] = t /\ q >= at[c]
      BY <2>1, <2>3, <3>1 DEF Covers, AtSketch
    <3>3. q > at[c] \/ q = at[c]
      BY <3>2, OrderFacts DEF TypeOK
    <3> QED
      BY <2>1, <2>3, <3>1, <3>2, <3>3 DEF Covers, AtSketch, CreateOrder, Listed
  <2> QED
    BY <2>2, <2>3
<1>4. ASSUME NEW c \in Inserts, Publish(c) PROVE Repair'
  <2> SUFFICES ASSUME NEW s \in Series, NEW o \in hashes'[s], "USampling" \in made[o],
                      NEW t \in SketchTypes \ made[o]
               PROVE  \E d \in Inserts : SeriesOf[d] = s /\ Covers(d, o, t)'
    BY <1>4 DEF Repair, Publish
  <2>1. made[c] = {} /\ pc[c] = "publish"
    BY <1>4 DEF Registered, Places, Publish
  <2>2. o \in hashes[s]
    BY <1>4, <2>1, StorageAssumption DEF TypeOK, Publish
  <2>3. PICK d \in Inserts : SeriesOf[d] = s /\ Covers(d, o, t)
    BY <2>2 DEF Repair
  <2>4. d # c
    BY <2>1, <2>3 DEF Covers, AtSketch
  <2>5. pc'[d] = pc[d] /\ at'[d] = at[d] /\ series'[d] = series[d]
    BY <1>4, <2>4 DEF TypeOK, Publish
  <2> QED
    BY <2>3, <2>5, OthersStillCover
<1>5. ASSUME NEW c \in Inserts, Look(c) PROVE Repair'
  <2> SUFFICES ASSUME NEW s \in Series, NEW o \in hashes[s], "USampling" \in made[o],
                      NEW t \in SketchTypes \ made[o]
               PROVE  \E d \in Inserts : SeriesOf[d] = s /\ Covers(d, o, t)'
    BY <1>5 DEF Repair, Look
  <2>1. PICK d \in Inserts : SeriesOf[d] = s /\ Covers(d, o, t)
    BY DEF Repair
  <2>2. CASE d # c
    <3>1. pc'[d] = pc[d] /\ at'[d] = at[d]
      <4>1. CASE NextFunction(c)
        BY <2>2, <4>1, NextFunctionMoves
      <4>2. CASE ~NextFunction(c)
        BY <1>5, <2>2, <4>2 DEF TypeOK, Look
      <4> QED
        BY <4>1, <4>2
    <3> QED
      BY <1>5, <2>1, <3>1, OthersStillCover DEF Look
  <2>3. CASE d = c
    <3>1. pc[c] = "look" /\ series'[c] = series[c]
      BY <1>5 DEF Look
    <3>2. PICK q \in DOMAIN CreateOrder :
            CreateOrder[q] = t /\ (q > at[c] \/ (q = at[c] /\ o \in series[c]))
      BY <2>1, <2>3, <3>1 DEF Covers, AtSketch
    <3>3. CASE pc'[c] \in {"alloc", "make"} /\ at'[c] = at[c]
      BY <2>1, <2>3, <3>1, <3>2, <3>3, ZenonT(40) DEF Covers, AtSketch, CreateOrder, Listed
    <3>4. CASE /\ series[c] \subseteq allocated
               /\ ~\E p \in series[c] : CreateOrder[at[c]] \notin made[p]
               /\ NextFunction(c)
      BY <2>1, <2>3, <3>2, <3>4, NextFunctionCovers
    <3> QED
      BY <1>5, <3>3, <3>4 DEF TypeOK, Look
  <2> QED
    BY <2>2, <2>3
<1>6. ASSUME NEW c \in Inserts, Alloc(c) PROVE Repair'
  <2>1. \A o \in Inserts : made'[o] \in {made[o], {}}
    BY <1>6 DEF TypeOK, Alloc
  <2> SUFFICES ASSUME NEW s \in Series, NEW o \in hashes[s], "USampling" \in made[o],
                      NEW t \in SketchTypes \ made[o]
               PROVE  \E d \in Inserts : SeriesOf[d] = s /\ Covers(d, o, t)'
    BY <1>6, <2>1 DEF TypeOK, Repair, Alloc
  <2>2. PICK d \in Inserts : SeriesOf[d] = s /\ Covers(d, o, t)
    BY DEF Repair
  <2>3. CASE d # c
    <3>1. pc'[d] = pc[d] /\ at'[d] = at[d] /\ series'[d] = series[d]
      BY <1>6, <2>3 DEF TypeOK, Alloc
    <3> QED
      BY <2>2, <3>1, OthersStillCover
  <2>4. CASE d = c
    <3>1. pc[c] = "alloc" /\ pc'[c] = "look" /\ at'[c] = at[c] /\ series'[c] = series[c]
      BY <1>6 DEF TypeOK, Alloc
    <3> QED
      BY <2>2, <2>4, <3>1, ZenonT(40) DEF Covers, AtSketch, CreateOrder, Listed
  <2> QED
    BY <2>3, <2>4
<1>7. ASSUME NEW c \in Inserts, Make(c) PROVE Repair'
  <2> DEFINE T == CreateOrder[at[c]]
  <2>1. PICK p \in series[c] : made' = [made EXCEPT ![p] = @ \cup {T}]
    BY <1>7 DEF Make
  <2>2. /\ p \in Inserts /\ T \in SketchTypes /\ at[c] \in DOMAIN CreateOrder
        /\ pc[c] = "make" /\ NextFunction(c) /\ UNCHANGED <<series, hashes>>
    BY <1>7, OrderFacts DEF TypeOK, Make
  <2> SUFFICES ASSUME NEW s \in Series, NEW o \in hashes[s], "USampling" \in made'[o],
                      NEW t \in SketchTypes \ made'[o]
               PROVE  \E d \in Inserts : SeriesOf[d] = s /\ Covers(d, o, t)'
    BY <2>2 DEF Repair
  <2>3. o \in Inserts /\ made'[o] = IF o = p THEN made[o] \cup {T} ELSE made[o]
    BY <2>1, <2>2 DEF TypeOK
  <2>4. CASE "USampling" \in made[o]
    <3>1. PICK d \in Inserts : SeriesOf[d] = s /\ Covers(d, o, t)
      BY <2>3, <2>4 DEF Repair
    <3>2. CASE d # c
      BY <2>2, <3>1, <3>2, NextFunctionMoves, OthersStillCover
    <3>3. CASE d = c
      <4>1. PICK q \in DOMAIN CreateOrder :
              CreateOrder[q] = t /\ (q > at[c] \/ (q = at[c] /\ o \in series[c]))
        BY <2>2, <3>1, <3>3 DEF Covers, AtSketch
      <4>2. q > at[c]
        BY <2>3, <4>1 DEF Registered
      <4> QED
        BY <2>2, <3>1, <3>3, <4>1, <4>2, NextFunctionCovers
    <3> QED
      BY <3>2, <3>3
  <2>5. CASE "USampling" \notin made[o]
    <3>1. o = p /\ T = "USampling"
      BY <2>3, <2>5
    <3>2. t \in SketchTypes \ {"USampling"}
      OBVIOUS
    <3>3. PICK q \in DOMAIN CreateOrder : q > at[c] /\ CreateOrder[q] = t
      BY <2>2, <3>1, <3>2, OrderFacts
    <3>4. SeriesOf[c] = s
      BY <2>1, <3>1 DEF Registered
    <3> QED
      BY <2>2, <3>3, <3>4, NextFunctionCovers
  <2> QED
    BY <2>4, <2>5
<1>8. ASSUME NEW c \in Inserts, Count(c) PROVE Repair'
  BY <1>8, RepairedByOthers DEF TypeOK, Count, AtSketch
<1>9. ASSUME NEW c \in Inserts, SketchInsert(c) PROVE Repair'
  BY <1>9, RepairedByOthers DEF TypeOK, SketchInsert, AtSketch
<1>10. ASSUME NEW c \in Inserts, Update(c) PROVE Repair'
  BY <1>10, RepairedByOthers DEF TypeOK, Update, AtSketch
<1>11. CASE UNCHANGED <<pc, at, series, hashes, made>>
  BY <1>11, OthersStillCover DEF Repair
<1> QED
  BY <1>1, <1>2, <1>3, <1>4, <1>5, <1>6, <1>7, <1>8, <1>9, <1>10, <1>11
  DEF Next, InsertStep, LookUp, vars

-----------------------------------------------------------------------------
(* The memory limit *)

LEMMA BoundKept ==
  ASSUME TypeOK, Bound, [Next]_vars PROVE Bound'
<1> USE StorageAssumption
<1> DEFINE Past == {"get", "publish", "look", "alloc", "make", "count"}
<1>1. Cardinality(Creating) \in Nat /\ memoryUsed \in Nat /\ peak \in Nat
  BY CreatingIsFinite, FS_CardinalityType DEF TypeOK
<1>2. ASSUME NEW c \in Inserts, UNCHANGED <<memoryUsed, peak>>,
             \A d \in Inserts \ {c} : pc'[d] = pc[d],
             pc[c] \in Past <=> pc'[c] \in Past
      PROVE  Bound'
  <2>1. Creating' = Creating
    BY <1>2 DEF Creating
  <2> QED
    BY <1>2, <2>1 DEF Bound
<1>3. ASSUME NEW c \in Inserts, CheckInstance(c) PROVE Bound'
  BY <1>2, <1>3 DEF TypeOK, CheckInstance
<1>4. ASSUME NEW c \in Inserts, CheckLimit(c) PROVE Bound'
  <2>1. Cardinality(Creating') \in Nat
    BY FS_Subset, FS_CardinalityType DEF Creating
  <2>2. CASE OverLimit
    <3>1. Creating' = Creating
      BY <1>4, <2>2 DEF TypeOK, CheckLimit, Creating
    <3>2. peak' >= peak /\ memoryUsed' = memoryUsed /\ peak' \in Nat
      BY <1>1, <1>4, <2>1 DEF CheckLimit
    <3> QED
      BY <1>1, <3>1, <3>2 DEF Bound
  <2>3. CASE ~OverLimit
    <3>1. peak' >= Cardinality(Creating') /\ memoryUsed' = memoryUsed
      BY <1>1, <1>4, <2>1 DEF CheckLimit
    <3>2. MemoryLimit > 0 => memoryUsed + 1 <= MemoryLimit
      BY <1>1, <2>3 DEF OverLimit
    <3>3. peak' \in Nat
      BY <1>1, <1>4, <2>1 DEF CheckLimit
    <3> QED
      BY <1>1, <2>1, <3>1, <3>2, <3>3 DEF Bound
  <2> QED
    BY <2>2, <2>3
<1>5. ASSUME NEW c \in Inserts, GetByHash(c) PROVE Bound'
  BY <1>2, <1>5 DEF TypeOK, GetByHash
<1>6. ASSUME NEW c \in Inserts, Publish(c) PROVE Bound'
  BY <1>2, <1>6 DEF TypeOK, Publish
<1>7. ASSUME NEW c \in Inserts, Look(c) PROVE Bound'
  <2>1. CASE NextFunction(c)
    BY <1>2, <1>7, <2>1, NextFunctionMoves DEF Look
  <2>2. CASE ~NextFunction(c)
    BY <1>2, <1>7, <2>2 DEF TypeOK, Look
  <2> QED
    BY <2>1, <2>2
<1>8. ASSUME NEW c \in Inserts, Alloc(c) PROVE Bound'
  BY <1>2, <1>8 DEF TypeOK, Alloc
<1>9. ASSUME NEW c \in Inserts, Make(c) PROVE Bound'
  BY <1>2, <1>9, NextFunctionMoves DEF Make
<1>10. ASSUME NEW c \in Inserts, Count(c) PROVE Bound'
  <2>1. c \in Creating /\ Creating' = Creating \ {c}
    BY <1>10 DEF TypeOK, Count, Creating
  <2>2. Cardinality(Creating') = Cardinality(Creating) - 1
    BY <2>1, CreatingIsFinite, FS_RemoveElement
  <2>3. memoryUsed' = memoryUsed + 1 /\ peak' = peak
    BY <1>10 DEF Count
  <2> QED
    BY <1>1, <2>2, <2>3 DEF Bound
<1>11. ASSUME NEW c \in Inserts, SketchInsert(c) PROVE Bound'
  BY <1>2, <1>11 DEF TypeOK, SketchInsert
<1>12. ASSUME NEW c \in Inserts, Update(c) PROVE Bound'
  BY <1>2, <1>12 DEF TypeOK, Update
<1>13. CASE UNCHANGED <<pc, memoryUsed, peak>>
  BY <1>13 DEF Bound, Creating
<1> QED
  BY <1>3, <1>4, <1>5, <1>6, <1>7, <1>8, <1>9, <1>10, <1>11, <1>12, <1>13
  DEF Next, InsertStep, LookUp, vars

-----------------------------------------------------------------------------
(* What a calm call keeps *)

\* A call that is creating sketches has no calm calls on its series.
LEMMA CreatorsAreAlone ==
  ASSUME TypeOK, Calm, NEW c \in Inserts, c \notin calm, pc[c] \notin Finished \cup {"start"},
         NEW d \in calm
  PROVE  SeriesOf[d] # SeriesOf[c]
BY DEF Calm, InFlight

\* Such a call disturbs nothing that the calm ones rely on.
LEMMA CalmElsewhere ==
  ASSUME TypeOK, Registered, Calm, NEW c \in Inserts,
         c \notin calm, pc[c] \notin Finished \cup {"start"}, UNCHANGED calm,
         \A d \in Inserts \ {c} : pc'[d] = pc[d] /\ at'[d] = at[d] /\ series'[d] = series[d],
         \A s \in Series \ {SeriesOf[c]} : hashes'[s] = hashes[s],
         \A o \in Inserts : SeriesOf[o] # SeriesOf[c] =>
           made'[o] = made[o] /\ \A t \in SketchTypes : held[o][t] \subseteq held'[o][t]
  PROVE  Calm'
<1> SUFFICES ASSUME NEW d \in calm
             PROVE  /\ Complete(SeriesOf[d])' /\ InFlight(SeriesOf[d])' \subseteq calm
                    /\ pc'[d] \in {"insert", "update", "ok"}
                    /\ pc'[d] = "update" =>
                         series'[d] = hashes'[SeriesOf[d]] /\ at'[d] \in DOMAIN InsertOrder
                    /\ pc'[d] = "update" =>
                         \A i \in DOMAIN InsertOrder, o \in hashes'[SeriesOf[d]] :
                           i < at'[d] => d \in held'[o][InsertOrder[i]]
                    /\ pc'[d] = "ok" =>
                         \A o \in hashes'[SeriesOf[d]], t \in SketchTypes : d \in held'[o][t]
  BY DEF Calm, InsertOrder
<1>1. /\ d \in Inserts /\ d # c /\ SeriesOf[d] # SeriesOf[c] /\ SeriesOf[d] \in Series
  BY CreatorsAreAlone, StorageAssumption DEF TypeOK
<1>2. /\ pc'[d] = pc[d] /\ at'[d] = at[d] /\ series'[d] = series[d]
      /\ hashes'[SeriesOf[d]] = hashes[SeriesOf[d]]
  BY <1>1
<1>3. \A o \in hashes[SeriesOf[d]] :
        /\ o \in Inserts /\ made'[o] = made[o]
        /\ \A t \in SketchTypes : held[o][t] \subseteq held'[o][t]
  BY <1>1, SMTT(30) DEF TypeOK, Registered
<1>4. Complete(SeriesOf[d])'
  BY <1>2, <1>3 DEF Calm, Complete
<1>5. InFlight(SeriesOf[d])' \subseteq calm
  BY <1>1 DEF Calm, InFlight
<1>6. \A i \in DOMAIN InsertOrder : InsertOrder[i] \in SketchTypes
  BY DEF InsertOrder, SketchTypes
<1> QED
  BY <1>2, <1>3, <1>4, <1>5, <1>6 DEF Calm

LEMMA CalmKept ==
  ASSUME TypeOK, Registered, Places, Calm, [Next]_vars PROVE Calm'
<1>1. ASSUME NEW c \in Inserts, CheckInstance(c) PROVE Calm'
  <2>1. CASE NilInstances(SeriesOf[c])
    BY <1>1, <2>1 DEF CheckInstance, Calm, Complete, InFlight
  <2>2. CASE ~NilInstances(SeriesOf[c])
    <3>1. /\ UNCHANGED <<at, series, hashes, made, held>>
          /\ pc[c] = "start" /\ c \notin calm
          /\ pc'[c] = IF HasSketchInstance(SeriesOf[c]) THEN "insert" ELSE "limit"
          /\ \A d \in Inserts \ {c} : pc'[d] = pc[d]
          /\ calm' = IF Complete(SeriesOf[c]) /\ InFlight(SeriesOf[c]) \subseteq calm
                       THEN calm \cup {c} ELSE calm
      BY <1>1, <2>2 DEF TypeOK, CheckInstance, Calm
    <3>2. ASSUME NEW d \in calm, SeriesOf[d] = SeriesOf[c]
          PROVE  Complete(SeriesOf[c]) /\ InFlight(SeriesOf[c]) \subseteq calm
      BY <3>2 DEF Calm
    <3>3. ASSUME NEW d \in calm' PROVE Complete(SeriesOf[d])'
      BY <3>1 DEF Calm, Complete
    <3>4. ASSUME NEW d \in calm' PROVE InFlight(SeriesOf[d])' \subseteq calm'
      <4>1. CASE SeriesOf[d] = SeriesOf[c]
        <5>1. InFlight(SeriesOf[c])' \subseteq InFlight(SeriesOf[c]) \cup {c}
          BY <3>1 DEF InFlight
        <5>2. Complete(SeriesOf[c]) /\ InFlight(SeriesOf[c]) \subseteq calm
          BY <3>1, <3>2, <4>1
        <5> QED
          BY <3>1, <4>1, <5>1, <5>2
      <4>2. CASE SeriesOf[d] # SeriesOf[c]
        <5>1. d \in calm /\ InFlight(SeriesOf[d])' \subseteq InFlight(SeriesOf[d])
          BY <3>1, <4>2 DEF InFlight
        <5> QED
          BY <3>1, <5>1 DEF Calm
      <4> QED
        BY <4>1, <4>2
    <3>5. c \in calm' => pc'[c] = "insert"
      <4>1. Complete(SeriesOf[c]) => HasSketchInstance(SeriesOf[c])
        BY DEF Complete, HasSketchInstance, SketchTypes
      <4> QED
        BY <3>1, <4>1
    <3>6. calm \subseteq Inserts
      BY DEF TypeOK
    <3> QED
      BY <3>1, <3>3, <3>4, <3>5, <3>6 DEF Calm
  <2> QED
    BY <2>1, <2>2
<1>2. ASSUME NEW c \in Inserts, CheckLimit(c) PROVE Calm'
  BY <1>2, CalmElsewhere DEF TypeOK, CheckLimit, Calm, Finished
<1>3. ASSUME NEW c \in Inserts, GetByHash(c) PROVE Calm'
  BY <1>3, CalmElsewhere DEF TypeOK, GetByHash, Calm, Finished
<1>4. ASSUME NEW c \in Inserts, Publish(c) PROVE Calm'
  BY <1>4, CalmElsewhere, StorageAssumption DEF TypeOK, Publish, Calm, Finished
<1>5. ASSUME NEW c \in Inserts, Look(c) PROVE Calm'
  <2>1. \A d \in Inserts \ {c} : pc'[d] = pc[d] /\ at'[d] = at[d]
    <3>1. CASE NextFunction(c)
      BY <3>1, NextFunctionMoves
    <3>2. CASE ~NextFunction(c)
      BY <1>5, <3>2 DEF TypeOK, Look
    <3> QED
      BY <3>1, <3>2
  <2> QED
    BY <1>5, <2>1, CalmElsewhere DEF TypeOK, Look, Calm, Finished
<1>6. ASSUME NEW c \in Inserts, Alloc(c) PROVE Calm'
  <2>1. \A o \in Inserts : SeriesOf[o] # SeriesOf[c] =>
          made'[o] = made[o] /\ held'[o] = held[o]
    <3>1. PICK p \in series[c] : /\ made' = [made EXCEPT ![p] = {}]
                                 /\ held' = [held EXCEPT ![p] = NoSketches]
      BY <1>6 DEF Alloc
    <3>2. SeriesOf[p] = SeriesOf[c]
      BY DEF Registered
    <3> QED
      BY <3>1, <3>2 DEF TypeOK
  <2>2. /\ pc[c] = "alloc" /\ UNCHANGED <<at, series, hashes, calm>>
        /\ \A d \in Inserts \ {c} : pc'[d] = pc[d]
    BY <1>6 DEF TypeOK, Alloc
  <2>3. c \notin calm /\ pc[c] \notin Finished \cup {"start"}
    BY <2>2 DEF Calm, Finished
  <2> QED
    BY <2>1, <2>2, <2>3, CalmElsewhere
<1>7. ASSUME NEW c \in Inserts, Make(c) PROVE Calm'
  <2>1. \A o \in Inserts : SeriesOf[o] # SeriesOf[c] =>
          made'[o] = made[o] /\ held'[o] = held[o]
    BY <1>7 DEF TypeOK, Registered, Make
  <2>2. pc[c] = "make" /\ NextFunction(c) /\ UNCHANGED <<series, hashes, calm>>
    BY <1>7 DEF Make
  <2>3. c \notin calm /\ pc[c] \notin Finished \cup {"start"}
    BY <2>2 DEF Calm, Finished
  <2> QED
    BY <2>1, <2>2, <2>3, NextFunctionMoves, CalmElsewhere
<1>8. ASSUME NEW c \in Inserts, Count(c) PROVE Calm'
  BY <1>8, CalmElsewhere DEF TypeOK, Count, Calm, Finished
<1>9. ASSUME NEW c \in Inserts, SketchInsert(c) PROVE Calm'
  <2>1. /\ UNCHANGED <<at, hashes, made, held, calm>> /\ pc[c] = "insert" /\ at[c] = 1
        /\ series'[c] = hashes[SeriesOf[c]]
        /\ pc'[c] = IF NilInstances(SeriesOf[c]) THEN "ok" ELSE "update"
        /\ \A d \in Inserts \ {c} : pc'[d] = pc[d] /\ series'[d] = series[d]
    BY <1>9 DEF TypeOK, Places, SketchInsert
  <2>2. \A s : Complete(s)' <=> Complete(s)
    BY <2>1 DEF Complete
  <2>3. \A s : InFlight(s)' \subseteq InFlight(s)
    BY <2>1 DEF InFlight, Finished
  <2>4. c \in calm => ~NilInstances(SeriesOf[c])
    <3> SUFFICES ASSUME c \in calm, NEW o \in hashes[SeriesOf[c]] PROVE o \in allocated
      BY DEF NilInstances
    <3>1. o \in Inserts /\ made[o] = SketchTypes
      BY StorageAssumption DEF TypeOK, Calm, Complete
    <3>2. made[o] # {}
      BY <3>1 DEF SketchTypes
    <3> QED
      BY <3>1, <3>2 DEF Registered
  <2>5. at[c] \in DOMAIN InsertOrder /\ \A i \in DOMAIN InsertOrder : ~(i < at[c])
    BY <2>1 DEF InsertOrder
  <2>6. calm \subseteq Inserts
    BY DEF TypeOK
  <2> QED
    BY <2>1, <2>2, <2>3, <2>4, <2>5, <2>6 DEF Calm, InsertOrder
<1>10. ASSUME NEW c \in Inserts, Update(c) PROVE Calm'
  <2>1. CASE c \notin calm
    <3>1. \A o \in Inserts, t \in SketchTypes : held[o][t] \subseteq held'[o][t]
      BY <1>10 DEF TypeOK, Update
    <3>2. /\ pc[c] = "update" /\ UNCHANGED <<series, hashes, made, calm>>
          /\ \A d \in Inserts \ {c} : pc'[d] = pc[d] /\ at'[d] = at[d]
      BY <1>10 DEF TypeOK, Update
    <3>3. pc[c] \notin Finished \cup {"start"}
      BY <3>2 DEF Finished
    <3> QED
      BY <2>1, <3>1, <3>2, <3>3, CalmElsewhere
  <2>2. CASE c \in calm
    <3> DEFINE T == InsertOrder[at[c]]
    <3>1. /\ UNCHANGED <<series, hashes, made, calm>> /\ pc[c] = "update"
          /\ series[c] = hashes[SeriesOf[c]] /\ at[c] \in 1..3
          /\ \A d \in Inserts \ {c} : pc'[d] = pc[d] /\ at'[d] = at[d]
          /\ \/ at[c] < 3 /\ at'[c] = at[c] + 1 /\ pc'[c] = "update"
             \/ at[c] = 3 /\ at'[c] = at[c] /\ pc'[c] = "ok"
      <4>1. /\ pc[c] = "update" /\ UNCHANGED <<series, hashes, made, calm>>
            /\ \/ at[c] < Len(InsertOrder) /\ at' = [at EXCEPT ![c] = @ + 1] /\ pc' = pc
               \/ ~(at[c] < Len(InsertOrder)) /\ pc' = [pc EXCEPT ![c] = "ok"] /\ at' = at
        BY <1>10 DEF Update
      <4>2. series[c] = hashes[SeriesOf[c]] /\ at[c] \in DOMAIN InsertOrder
        BY <2>2, <4>1 DEF Calm
      <4>3. DOMAIN InsertOrder = 1..3 /\ Len(InsertOrder) = 3
        BY DEF InsertOrder
      <4>4. at[c] \in 1..3 /\ (~(at[c] < 3) => at[c] = 3)
        BY <4>2, <4>3
      <4> HIDE DEF T
      <4> QED
        BY <4>1, <4>2, <4>3, <4>4 DEF TypeOK
    <3>2. \A o \in Inserts, t \in SketchTypes : held[o][t] \subseteq held'[o][t]
      BY <1>10 DEF TypeOK, Update
    <3>3. \A o \in hashes[SeriesOf[c]] : c \in held'[o][T]
      <4>1. T \in SketchTypes
        BY <3>1 DEF InsertOrder, SketchTypes
      <4>2. \A o \in hashes[SeriesOf[c]] : o \in Inserts /\ made[o] = SketchTypes
        BY <2>2, StorageAssumption DEF TypeOK, Calm, Complete
      <4>3. \A o \in Inserts : o \in series[c] /\ T \in made[o] =>
                held'[o] = [held[o] EXCEPT ![T] = @ \cup {c}]
        BY <1>10 DEF Update
      <4>4. \A o \in Inserts : held[o] \in [SketchTypes -> SUBSET Inserts]
        BY DEF TypeOK
      <4> HIDE DEF T
      <4> SUFFICES ASSUME NEW o \in hashes[SeriesOf[c]] PROVE c \in held'[o][T]
        OBVIOUS
      <4>5. o \in Inserts /\ held'[o] = [held[o] EXCEPT ![T] = @ \cup {c}]
        BY <3>1, <4>1, <4>2, <4>3
      <4> QED
        BY <4>1, <4>4, <4>5
    <3>4. \A s : (Complete(s)' <=> Complete(s)) /\ InFlight(s)' \subseteq InFlight(s)
      BY <3>1 DEF Complete, InFlight, Finished
    <3>5. /\ DOMAIN InsertOrder = 1..3 /\ \A i \in 1..3 : InsertOrder[i] \in SketchTypes
          /\ \A t \in SketchTypes : \E i \in 1..3 : InsertOrder[i] = t
      BY DEF InsertOrder, SketchTypes
    <3>6. \A d \in calm : d \in Inserts /\ \A o \in hashes[SeriesOf[d]] : o \in Inserts
      BY StorageAssumption DEF TypeOK
    <3>7. \A i \in 1..3, o \in hashes[SeriesOf[c]] : i <= at[c] => c \in held'[o][InsertOrder[i]]
      <4> SUFFICES ASSUME NEW i \in 1..3, NEW o \in hashes[SeriesOf[c]], i <= at[c]
                   PROVE  c \in held'[o][InsertOrder[i]]
        OBVIOUS
      <4>1. CASE i = at[c]
        BY <3>3, <4>1
      <4>2. CASE i < at[c]
        BY <2>2, <3>1, <3>2, <3>5, <3>6, <4>2 DEF Calm
      <4> QED
        BY <3>1, <4>1, <4>2
    <3> SUFFICES ASSUME NEW d \in calm
                 PROVE  /\ Complete(SeriesOf[d])' /\ InFlight(SeriesOf[d])' \subseteq calm
                        /\ pc'[d] \in {"insert", "update", "ok"}
                        /\ pc'[d] = "update" =>
                             series'[d] = hashes'[SeriesOf[d]] /\ at'[d] \in DOMAIN InsertOrder
                        /\ pc'[d] = "update" =>
                             \A i \in DOMAIN InsertOrder, o \in hashes'[SeriesOf[d]] :
                               i < at'[d] => d \in held'[o][InsertOrder[i]]
                        /\ pc'[d] = "ok" =>
                             \A o \in hashes'[SeriesOf[d]], t \in SketchTypes : d \in held'[o][t]
      BY <3>1 DEF Calm, InsertOrder
    <3>8. Complete(SeriesOf[d])' /\ InFlight(SeriesOf[d])' \subseteq calm
      BY <3>4 DEF Calm
    <3>9. CASE d # c
      BY <3>1, <3>2, <3>5, <3>6, <3>8, <3>9 DEF Calm
    <3>10. CASE d = c
      BY <3>1, <3>5, <3>7, <3>8, <3>10
    <3> QED
      BY <3>9, <3>10
  <2> QED
    BY <2>1, <2>2
<1>11. CASE UNCHANGED <<pc, at, series, hashes, made, held, calm>>
  BY <1>11 DEF Calm, Complete, InFlight, InsertOrder
<1> QED
  BY <1>1, <1>2, <1>3, <1>4, <1>5, <1>6, <1>7, <1>8, <1>9, <1>10, <1>11
  DEF Next, InsertStep, LookUp, vars

-----------------------------------------------------------------------------
(* The theorems *)

LEMMA InitHolds == Init => IInv
<1> SUFFICES ASSUME Init PROVE IInv
  OBVIOUS
<1>1. TypeOK
  <2>1. 1 \in DOMAIN CreateOrder
    BY OrderFacts
  <2>2. 0 \in 0..Cardinality(Inserts)
    BY StorageAssumption, FS_CardinalityType
  <2> QED
    BY <2>1, <2>2 DEF Init, TypeOK, NoSketches
<1>2. Registered /\ Repair /\ Calm
  BY DEF Init, Registered, Repair, Calm
<1>3. Places
  BY DEF Init, Places, AtSketch
<1>4. Bound
  <2>1. Creating = {}
    BY DEF Init, Creating
  <2> QED
    BY <2>1, FS_EmptySet, StorageAssumption DEF Init, Bound
<1> QED
  BY <1>1, <1>2, <1>3, <1>4 DEF IInv

\* The invariant that all the theorems rest on.
THEOREM Invariance == Spec => []IInv
<1>1. IInv /\ [Next]_vars => IInv'
  BY TypeKept, RegisteredKept, PlacesKept, RepairKept, BoundKept, CalmKept DEF IInv
<1> QED
  BY InitHolds, <1>1, PTL DEF Spec

\* Every variable keeps its type through any interleaving of Insert calls and queries.
THEOREM Types == Spec => []TypeOK
<1>1. IInv => TypeOK
  BY DEF IInv
<1> QED
  BY Invariance, <1>1, PTL

\* However many calls of Storage.Insert race between the memory check and the count,
\* the limit is passed by less than the calls that ever were there together.
THEOREM OvershootStaysBounded == Spec => []OvershootIsBounded
<1>1. IInv => OvershootIsBounded
  <2>1. Cardinality(Creating) \in Nat
    BY CreatingIsFinite
  <2> QED
    BY <2>1, StorageAssumption, FS_CardinalityType DEF IInv, TypeOK, Bound, OvershootIsBounded
<1> QED
  BY Invariance, <1>1, PTL

\* Once no call of a series is under way, hasSketchInstance tells the truth about all
\* three sketches though it asks for one.
THEOREM RestingIsComplete == Spec => []RestingSeriesIsComplete
<1>1. IInv => RestingSeriesIsComplete
  <2> SUFFICES ASSUME IInv, NEW s \in Series, InFlight(s) = {}, HasSketchInstance(s)
               PROVE  Complete(s)
    BY DEF RestingSeriesIsComplete
  <2>1. \A c \in Inserts : SeriesOf[c] = s => \A o, t : ~Covers(c, o, t)
    BY DEF InFlight, Covers, AtSketch, Finished
  <2>2. \A o \in hashes[s] : "USampling" \in made[o]
    BY DEF IInv, Registered, HasSketchInstance
  <2>3. \A o \in hashes[s] : SketchTypes \ made[o] = {}
    BY <2>1, <2>2 DEF IInv, Repair
  <2>4. \A o \in hashes[s] : made[o] \subseteq SketchTypes
    BY DEF IInv, TypeOK
  <2>5. hashes[s] # {}
    BY DEF HasSketchInstance
  <2> QED
    BY <2>3, <2>4, <2>5 DEF Complete
<1> QED
  BY Invariance, <1>1, PTL

\* A sample inserted while its series was complete and undisturbed is in all its
\* sketches for good.
THEOREM CalmIsKept == Spec => []CalmSampleIsKept
<1>1. IInv => CalmSampleIsKept
  BY DEF IInv, Calm, CalmSampleIsKept
<1> QED
  BY Invariance, <1>1, PTL
=============================================================================
