---------------------------- MODULE CountedLoop ----------------------------
(***************************************************************************)
(* The loop gen-par is given: for (i = lower; !(i > upper); i++) body(i),  *)
(* the outermost loop of the fdtd benchmark.  It is what the split loop of *)
(* LoopSplit has to be equivalent to.                                      *)
(***************************************************************************)
EXTENDS MachineInts

VARIABLES lower, upper,  \* the bounds, fixed before the loop
          i,             \* the induction variable
          exited         \* control has left the loop

vars == <<lower, upper, i, exited>>

Init == /\ lower \in Ints /\ upper \in Ints
        /\ i = lower /\ exited = FALSE

\* The header does not exit: the body runs for i.
Iterate == /\ ~exited /\ ~(i > upper)
           /\ i' = Inc(i)
           /\ UNCHANGED <<lower, upper, exited>>

Exit == /\ ~exited /\ i > upper
        /\ exited' = TRUE
        /\ UNCHANGED <<lower, upper, i>>

Next == Iterate \/ Exit

Spec == Init /\ [][Next]_vars
=============================================================================
