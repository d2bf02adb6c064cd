----------------------------- MODULE MCSketches -----------------------------
(***************************************************************************)
(* Two keys, which share the columns of at most one row; three layers; and *)
(* every stream of the lengths below with steps of 1 and 3 in windows of 5 *)
(* to 8.                                                                   *)
(***************************************************************************)
EXTENDS Sketches

MCPosition == [key \in Keys |-> IF key = 1 THEN <<0, 0, 1>> ELSE <<0, 1, 0>>]
MCSign == [key \in Keys |-> IF key = 1 THEN <<1, -1, 1>> ELSE <<-1, 1, 1>>]
MCHashBit == [key \in Keys |-> IF key = 1 THEN <<0, 1>> ELSE <<1, 1>>]
MCXLog2X == <<0, 20, 48, 80, 116, 155, 197, 240, 285, 332>>
MCSmoothKeep == <<3, 4>>
MCLength == [ehuniv |-> 8, runs |-> 7, pooled |-> 6, smooth |-> 6]
MCEnd == [ehuniv |-> 13, runs |-> 13, pooled |-> 11, smooth |-> 13]
=============================================================================
