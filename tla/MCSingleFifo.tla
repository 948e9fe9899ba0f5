---------------------------- MODULE MCSingleFifo ----------------------------
(***************************************************************************)
(* SingleFifo for TLC.  FIFO_SIZE is 3 rather than the 2 of comm.h: with   *)
(* 2, the thresholds FIFO_SIZE-1 and 1 of the two signals coincide and a   *)
(* mistake in one of them would not show.  Two values tell a slot from its *)
(* neighbours; the ring wraps around, as nothing bounds the calls.         *)
(***************************************************************************)
EXTENDS SingleFifo
=============================================================================
