-------------------------- MODULE MCStagePipeline --------------------------
(***************************************************************************)
(* StagePipeline for TLC: every assignment of three instructions to three  *)
(* stages and every choice of readers, so chains, diamonds, fan-outs and   *)
(* stages that only send all occur.  The loop body "body" (instructions 1  *)
(* and 2) runs more often than a queue has slots, with a side block "side" *)
(* (instruction 3) in between that shifts the stages against each other.   *)
(***************************************************************************)
EXTENDS StagePipeline

MCBlocks  == {"body", "side"}
MCBlockOf == <<"body", "body", "side">>
MCTrace   == <<"body", "side", "body", "body">>

\* The program stops when the top level has returned.
MCNext == Next \/ (Returned /\ UNCHANGED vars)
MCSpec == Init /\ [][MCNext]_vars /\ WF_vars(Create \/ Join)
               /\ \A s \in Stages : WF_vars(Stage(s))
=============================================================================
