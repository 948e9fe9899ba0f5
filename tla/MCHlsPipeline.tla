--------------------------- MODULE MCHlsPipeline ---------------------------
(***************************************************************************)
(* HlsPipeline for TLC: every way to give the instructions of a loop body  *)
(* to three stages and to choose their readers, and two calls of the       *)
(* function, of which the first runs the body more often than the FIFOs    *)
(* have words.                                                             *)
(***************************************************************************)
EXTENDS HlsPipeline

MCBlocks   == {"body", "side"}
MCBlockOf  == <<"body", "body", "side">>
MCTrace    == <<"body", "side", "body", "body", "body">>
MCCallEnds == <<4, 5>>

\* The program ends after its last call.
MCNext == Next \/ (call > Len(CallEnds) /\ UNCHANGED vars)
MCSpec == Init /\ [][MCNext]_vars /\ Fairness
=============================================================================
