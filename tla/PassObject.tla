----------------------------- MODULE PassObject -----------------------------
(***************************************************************************)
(* One DecoupleInsScc object visiting the functions of a module, and what  *)
(* it keeps from one visit to the next.  A function is given by what a     *)
(* visit makes of it: the number of nodes (strongly connected components)  *)
(* the instruction graph has, and the number of partitions they are cut    *)
(* into.  The functions generated for the partitions are appended to the   *)
(* module, so the pass visits them too.                                    *)
(***************************************************************************)
EXTENDS Naturals, SequencesExt

CONSTANT Modules  \* what the pass is run on: sequences of functions

VARIABLES module,                   \* the functions, the generated ones at the end
          current,                  \* the function visited (0: none yet)
          phase,                    \* "idle", "collected", "partitioned", "cleared", or
                                    \* "undefined": a freed or no object was used
          collectedDagNode,         \* [fn, freed]: the nodes the vector points to
          collectedPartition,       \* how many partitions it points to
          newReplacementBBBuilder   \* the function it inserts into (0: uninitialised)

vars == <<module, current, phase, collectedDagNode, collectedPartition, newReplacementBBBuilder>>

Original(nodes, parts) == [nodes |-> nodes, parts |-> parts, generated |-> FALSE]
Generated == [nodes |-> 0, parts |-> 0, generated |-> TRUE]

Init == /\ module \in Modules
        /\ current = 0 /\ phase = "idle"
        /\ collectedDagNode = <<>> /\ collectedPartition = 0
        /\ newReplacementBBBuilder = 0

\* runOnFunction of the next function.  A generated one is left alone ...
Skip == /\ phase = "idle" /\ current < Len(module)
        /\ module[current + 1].generated
        /\ current' = current + 1
        /\ UNCHANGED <<module, phase, collectedDagNode, collectedPartition, newReplacementBBBuilder>>

\* ... of another the nodes are appended, reversed and numbered; the numbers are
\* written to every node in the vector.
Collect ==
  /\ phase = "idle" /\ current < Len(module)
  /\ ~module[current + 1].generated
  /\ current' = current + 1
  /\ collectedDagNode' = Reverse(collectedDagNode
       \o [n \in 1 .. module[current + 1].nodes |-> [fn |-> current + 1, freed |-> FALSE]])
  /\ phase' = IF \E n \in DOMAIN collectedDagNode' : collectedDagNode'[n].freed
              THEN "undefined" ELSE "collected"
  /\ UNCHANGED <<module, collectedPartition, newReplacementBBBuilder>>

\* generatePartition, and, if there are two partitions or more, a new body and a
\* function for each of them.
Partition ==
  /\ phase = "collected"
  /\ LET parts == IF Len(collectedDagNode) <= 1 THEN 0 ELSE module[current].parts
     IN  /\ collectedPartition' = parts
         /\ IF parts > 1
            THEN /\ newReplacementBBBuilder' = current
                 /\ module' = module \o [k \in 1 .. parts |-> Generated]
            ELSE UNCHANGED <<module, newReplacementBBBuilder>>
  /\ phase' = "partitioned"
  /\ UNCHANGED <<current, collectedDagNode>>

\* "clear up": the maps and partitions go; the nodes are deleted, the vector stays.
ClearUp ==
  /\ phase = "partitioned"
  /\ collectedPartition' = 0
  /\ collectedDagNode' = [n \in DOMAIN collectedDagNode |-> [collectedDagNode[n] EXCEPT !.freed = TRUE]]
  /\ phase' = "cleared"
  /\ UNCHANGED <<module, current, newReplacementBBBuilder>>

\* The new body is told from the blocks to erase by asking the builder for its block.
EraseBlocks ==
  /\ phase = "cleared"
  /\ phase' = IF newReplacementBBBuilder = 0 THEN "undefined" ELSE "idle"
  /\ UNCHANGED <<module, current, collectedDagNode, collectedPartition, newReplacementBBBuilder>>

Next == Skip \/ Collect \/ Partition \/ ClearUp \/ EraseBlocks

Spec == Init /\ [][Next]_vars

-----------------------------------------------------------------------------
(* Properties *)

\* "clear up ... empty all the partitions": a visit starts from nothing, so every node
\* it numbers, prints and partitions is one of the function it visits.
ClearedUp ==
  phase # "idle" =>
    \A n \in DOMAIN collectedDagNode : collectedDagNode[n].fn = current
=============================================================================
