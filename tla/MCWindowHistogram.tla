-------------------------- MODULE MCWindowHistogram --------------------------
(***************************************************************************)
(* A histogram with k = 2, whose first merge comes with the third sample   *)
(* and whose first cascade with the seventh, over a window that the        *)
(* timestamps exceed, with samples that may be late by one or come twice.  *)
(***************************************************************************)
EXTENDS WindowHistogram

MCTimes == 0..7

\* One that ends where samples still come, and one that is a single moment.
MCIntervals == {[mint |-> 2, maxt |-> 4], [mint |-> 5, maxt |-> 5]}
=============================================================================
