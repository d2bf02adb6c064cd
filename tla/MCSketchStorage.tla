--------------------------- MODULE MCSketchStorage ---------------------------
(* Three samples of one series, for TLC. *)
EXTENDS SketchStorage, TLC

CONSTANTS c1, c2, c3, a

MCInserts  == {c1, c2, c3}
MCSeriesOf == [c \in MCInserts |-> a]

\* The calls are alike.
CallSymmetry == Permutations(MCInserts)
=============================================================================
