---------------------------- MODULE CountSketches ----------------------------
(***************************************************************************)
(* internal/promsketch/CountSketchUniv.go and CountSketch.go: a matrix of  *)
(* counters with three rows.  A key adds its sign, times its count, to one *)
(* counter of every row, and is estimated by the median of the three       *)
(* counters.  The hash functions are constants.                            *)
(***************************************************************************)
EXTENDS TopKHeap, FiniteSetsExt, Functions

CONSTANTS Keys,
          Cols,     \* the number of columns of a sketch
          Position, \* Position[key][row]: the column of the key
          Sign,     \* Sign[key][row]: 1 or -1
          TopK      \* the size of a heap

Rows == 1..3

ASSUME CountSketchAssumption ==
  /\ Cols \in Nat \ {0} /\ TopK \in Nat \ {0}
  /\ Position \in [Keys -> [Rows -> 0..Cols - 1]]
  /\ Sign \in [Keys -> [Rows -> {1, -1}]]

NewCountSketchUniv == [count |-> [r \in Rows |-> [c \in 0..Cols - 1 |-> 0]],
                       l2 |-> [r \in Rows |-> 0]]

\* The same for NewCountSketch, which has a heap as well.
NewCountSketch == [count |-> NewCountSketchUniv.count, l2 |-> NewCountSketchUniv.l2,
                   topK |-> <<>>]

MedianOfThree(a, b, c) ==
  CASE (a <= b /\ b <= c) \/ (c <= b /\ b <= a) -> b
    [] (a <= c /\ c <= b) \/ (b <= c /\ c <= a) -> c
    [] OTHER -> a

\* sort.Slice and the element in the middle.
MiddleOf(rows) == MedianOfThree(rows[1], rows[2], rows[3])

Cell(cs, r, key) == cs.count[r][Position[key][r]]

UpdateStringNoL2(cs, key, count) ==
  [cs EXCEPT !.count = [r \in Rows |->
     [cs.count[r] EXCEPT ![Position[key][r]] = @ + Sign[key][r] * count]]]

\* l2 follows the squares of the counters.
UpdateString(cs, key, count) ==
  LET new == UpdateStringNoL2(cs, key, count)
  IN [new EXCEPT !.l2 = [r \in Rows |->
        cs.l2[r] + Cell(new, r, key) * Cell(new, r, key) - Cell(cs, r, key) * Cell(cs, r, key)]]

EstimateStringCount(cs, key) == MiddleOf([r \in Rows |-> Sign[key][r] * Cell(cs, r, key)])

cs_l22(cs) == MiddleOf(cs.l2)

\* The sums of CountSketch that go through the counters.
cs_l1(cs) ==
  MiddleOf([r \in Rows |->
    FoldFunction(LAMBDA x, acc : acc + (IF x < 0 THEN -x ELSE x), 0, cs.count[r])])
cs_l22_new(cs) ==
  MiddleOf([r \in Rows |-> FoldFunction(LAMBDA x, acc : acc + x * x, 0, cs.count[r])])

\* The counters are added up; l2 stays that of the first.
AddCounters(cs, other) ==
  [cs EXCEPT !.count = [r \in Rows |-> [c \in DOMAIN cs.count[r] |->
     cs.count[r][c] + other.count[r][c]]]]

-----------------------------------------------------------------------------
(* CountSketch.  Whatever count it is given, it adds one. *)

CSUpdateString(cs, key) ==
  LET new == UpdateString(cs, key, 1)
  IN [new EXCEPT !.topK = UpdateCS(cs.topK, TopK, key, EstimateStringCount(new, key))]

CSMergeWith(cs, other) ==
  [AddCounters(cs, other) EXCEPT !.topK = HeapMerge(cs.topK, other.topK, TopK)]

-----------------------------------------------------------------------------
\* Rows in which no other key shares the counter of this one.  Two such rows decide
\* the median.
CleanRows(key) ==
  {r \in Rows : \A other \in Keys \ {key} : Position[other][r] # Position[key][r]}
IsClean(key) == Cardinality(CleanRows(key)) >= 2

\* Two rows in which no two keys meet: every key is clean, and the norm decided.
NobodyMeets(r) == \A a, b \in Keys : a # b => Position[a][r] # Position[b][r]
TwoRowsApart == Cardinality({r \in Rows : NobodyMeets(r)}) >= 2
=============================================================================
