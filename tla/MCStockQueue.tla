---------------------------- MODULE MCStockQueue -----------------------------
(***************************************************************************)
(* Small instances of StockQueue.  The int32 is four bits wide, -4 .. 3, so *)
(* that an increment overflows; the deltas sell one or two units, or give  *)
(* one back; the products start with one or two units.                     *)
(***************************************************************************)
EXTENDS StockQueue, TLC

MCMaxInt == 3
MCDeltas == {-2, -1, 2}
MCSellOne == {-1}
MCInitialStock == [p \in Products |-> 2]
MCSymmetry == Permutations(Callers) \cup Permutations(Servers)
=============================================================================
