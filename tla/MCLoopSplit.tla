---------------------------- MODULE MCLoopSplit ----------------------------
(***************************************************************************)
(* LoopSplit for TLC: every pair of bounds of a 5-bit induction variable   *)
(* for which the split is meant, odd and even, with an empty first half,   *)
(* an empty clone, and both empty.                                         *)
(***************************************************************************)
EXTENDS LoopSplit
=============================================================================
