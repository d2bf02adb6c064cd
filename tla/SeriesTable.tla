----------------------------- MODULE SeriesTable -----------------------------
(***************************************************************************)
(* internal/promsketch/promsketches.go: the table of a partition's series, *)
(* by the hash of their labels and by id, and StopBackground, which walks  *)
(* the ids.  The stripe locks cover single map operations; sketchSeries.id *)
(* has none, so it is loaded, stored and read again in steps of their own. *)
(* samplingcache.go and vmsketches.go keep copies of this table.           *)
(***************************************************************************)
EXTENDS Naturals, Sequences, FiniteSets

CONSTANTS Calls,      \* concurrent callers
          LabelSets,
          Hash        \* Hash[l]: of the label set l; label sets may share one

VARIABLES memSeries,  \* memSeries[i]: the i-th one made
          unique,     \* unique[h]: 0 or the index of a memSeries
          conflicts,  \* conflicts[h]: the others with hash h
          series,     \* series[n]: the memSeries with id n, for the ids in the map
          id,
          creator,    \* creator[c]: where c is in NewSketchCacheInstance
          raced       \* history: two callers were between load and index at once

tableVars == <<memSeries, unique, conflicts, series, id, creator, raced>>

Hashes == {Hash[l] : l \in LabelSets}
Idle == [step |-> "idle", lset |-> CHOOSE l \in LabelSets : TRUE, seen |-> 0, made |-> 0]

TableInit ==
  /\ memSeries = <<>>
  /\ unique = [h \in Hashes |-> 0]
  /\ conflicts = [h \in Hashes |-> <<>>]
  /\ series = [n \in {} |-> 0]
  /\ id = 0
  /\ creator = [c \in Calls |-> Idle]
  /\ raced = FALSE

-----------------------------------------------------------------------------
(* sketchSeriesHashMap *)

\* Positions of a list of series that have these labels.
With(l, list, all) == {n \in DOMAIN list : all[list[n]].lset = l}

getByHash(l) ==
  LET h == Hash[l]
      others == With(l, conflicts[h], memSeries)
  IN IF unique[h] # 0 /\ memSeries[unique[h]].lset = l THEN unique[h]
     ELSE IF others = {} THEN 0
     ELSE conflicts[h][CHOOSE n \in others : \A m \in others : n <= m]

\* Planted fault: the conflicts are not searched for the same labels.
AppendOnly(l, i, all) ==
  LET h == Hash[l]
  IN IF unique[h] = 0 \/ all[unique[h]].lset = l
       THEN unique' = [unique EXCEPT ![h] = i] /\ UNCHANGED conflicts
       ELSE conflicts' = [conflicts EXCEPT ![h] = Append(@, i)] /\ UNCHANGED unique

\* set: the place of a series with the same labels is taken over.
set(l, i, all) ==
  LET h == Hash[l]
      others == With(l, conflicts[h], all)
  IN IF unique[h] = 0 \/ all[unique[h]].lset = l
       THEN unique' = [unique EXCEPT ![h] = i] /\ UNCHANGED conflicts
       ELSE /\ conflicts' = [conflicts EXCEPT ![h] =
                 IF others = {} THEN Append(@, i)
                 ELSE [@ EXCEPT ![CHOOSE n \in others : \A m \in others : n <= m] = i]]
            /\ UNCHANGED unique

-----------------------------------------------------------------------------
(* getOrCreate and newSlidingHistorgrams, step by step *)

Goes(c, step) == creator' = [creator EXCEPT ![c].step = step]

Allocating(c) == creator[c].step \in {"store", "publish", "index"}

Look(c, l) ==
  /\ creator[c].step = "idle"
  /\ creator' = [creator EXCEPT ![c] =
       [Idle EXCEPT !.step = IF getByHash(l) = 0 THEN "load" ELSE "have",
                    !.lset = l, !.made = getByHash(l)]]
  /\ UNCHANGED <<memSeries, unique, conflicts, series, id, raced>>

LoadId(c) ==
  /\ creator[c].step = "load"
  /\ creator' = [creator EXCEPT ![c].step = "store", ![c].seen = id]
  /\ raced' = (raced \/ \E d \in Calls : Allocating(d))
  /\ UNCHANGED <<memSeries, unique, conflicts, series, id>>

StoreId(c) ==
  /\ creator[c].step = "store"
  /\ id' = creator[c].seen + 1
  /\ Goes(c, "publish")
  /\ UNCHANGED <<memSeries, unique, conflicts, series, raced>>

\* The id is read again, and the memSeries is registered by its hash.
Publish(c) ==
  LET l == creator[c].lset
      i == Len(memSeries) + 1
      all == Append(memSeries, [lset |-> l, id |-> id, instances |-> "nil", stopped |-> FALSE])
  IN /\ creator[c].step = "publish"
     /\ memSeries' = all
     /\ set(l, i, all)
     /\ creator' = [creator EXCEPT ![c].step = "index", ![c].made = i]
     /\ UNCHANGED <<series, id, raced>>

Index(c) ==
  LET i == creator[c].made
      n == memSeries[i].id
  IN /\ creator[c].step = "index"
     /\ series' = [m \in DOMAIN series \cup {n} |-> IF m = n THEN i ELSE series[m]]
     /\ Goes(c, "have")
     /\ UNCHANGED <<memSeries, unique, conflicts, id, raced>>

\* The first function in the list gives the series its SketchInstances.
Allocate(c) ==
  LET i == creator[c].made
  IN /\ creator[c].step = "have"
     /\ memSeries' = [memSeries EXCEPT ![i].instances = IF @ = "nil" THEN "some" ELSE @]
     /\ Goes(c, "more")
     /\ UNCHANGED <<unique, conflicts, series, id, raced>>

\* The later ones look the series up again; the ehuniv comes with the last four.
MakeUniv(c) ==
  LET i == getByHash(creator[c].lset)
  IN /\ creator[c].step = "more"
     /\ memSeries' = [memSeries EXCEPT ![i].instances = "ehuniv"]
     /\ creator' = [creator EXCEPT ![c] = Idle]
     /\ UNCHANGED <<unique, conflicts, series, id, raced>>

CreatorStep(c) ==
  LoadId(c) \/ StoreId(c) \/ Publish(c) \/ Index(c) \/ Allocate(c)

-----------------------------------------------------------------------------
(* StopBackground at id n *)

getByID(n) == IF n \in DOMAIN series THEN series[n] ELSE 0

StopPanics(n) == getByID(n) # 0 /\ memSeries[getByID(n)].instances = "nil"

StopBackgroundClean(n) ==
  /\ ~StopPanics(n)
  /\ memSeries' = IF getByID(n) # 0 /\ memSeries[getByID(n)].instances = "ehuniv"
                    THEN [memSeries EXCEPT ![getByID(n)].stopped = TRUE]
                    ELSE memSeries
  /\ UNCHANGED <<unique, conflicts, series, id, creator, raced>>

-----------------------------------------------------------------------------
(* Properties *)

Entries(h) ==
  {i \in DOMAIN memSeries : i = unique[h] \/ \E n \in DOMAIN conflicts[h] : conflicts[h][n] = i}

\* However creations race and label sets collide, a label set has one entry, the newest
\* memSeries with these labels, and lookup finds it.
SeriesAreFound ==
  /\ \A h \in Hashes : unique[h] = 0 => conflicts[h] = <<>>
  /\ \A l \in LabelSets :
       LET all == {i \in DOMAIN memSeries : memSeries[i].lset = l}
       IN IF all = {} THEN getByHash(l) = 0
          ELSE {i \in Entries(Hash[l]) : memSeries[i].lset = l} =
                 {getByHash(l)} /\ \A i \in all : i <= getByHash(l)

\* A memSeries that its id does not lead to has lost the id to another that shares it.
\* Without races ids count the memSeries.
IdsAreShared ==
  /\ \A i \in DOMAIN memSeries :
       LET n == memSeries[i].id
       IN \/ getByID(n) # 0 /\ memSeries[getByID(n)].id = n
          \/ \E c \in Calls : creator[c].step = "index" /\ creator[c].made = i
  /\ id <= Len(memSeries) + Cardinality({c \in Calls : creator[c].step = "publish"})
  /\ ~raced => \A i \in DOMAIN memSeries : memSeries[i].id = i
=============================================================================
