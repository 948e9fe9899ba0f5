----------------------------- MODULE StagePlan -----------------------------
(***************************************************************************)
(* What a decoupled function is compiled to, whatever runs it: which stage *)
(* computes each instruction whose value crosses stages, and which stages  *)
(* receive it.                                                             *)
(*                                                                         *)
(* An execution is a trace of basic blocks; block execution r is round r.  *)
(* In a round a stage has to send the values it computes for others in     *)
(* that block and to receive the ones it needs, in the program order of    *)
(* the instructions whose values they carry.  Branch tags travel like      *)
(* values.                                                                 *)
(***************************************************************************)
EXTENDS Data

CONSTANTS NumStages,  \* the generated functions, in partition order
          NumInstrs,  \* the instructions of the function, in program order
          Blocks,     \* its basic blocks
          BlockOf,    \* the block of each instruction
          Trace       \* the blocks executed, in order

Stages == 1 .. NumStages
Instrs == 1 .. NumInstrs
Rounds == Len(Trace)

ASSUME StagesAssumption == NumStages \in Nat \ {0} /\ NumInstrs \in Nat
ASSUME TraceAssumption  == BlockOf \in [Instrs -> Blocks] /\ Trace \in Seq(Blocks)

VARIABLES owner,    \* the stage that computes an instruction    (fixed when
          readers   \* the stages that receive its value          compiled)

plan == <<owner, readers>>

\* Partitions are cut out of a topological order of the SCCs, so a value only
\* flows to a later stage.
PlanOK == /\ owner \in [Instrs -> Stages]
          /\ readers \in [Instrs -> SUBSET Stages]
          /\ \A i \in Instrs : \A s \in readers[i] : owner[i] < s

Sends(s, r)    == {i \in Instrs : BlockOf[i] = Trace[r] /\ owner[i] = s /\ readers[i] # {}}
Receives(s, r) == {i \in Instrs : BlockOf[i] = Trace[r] /\ s \in readers[i]}
Ops(s, r)      == IF r > Rounds THEN {} ELSE Sends(s, r) \cup Receives(s, r)

First(todo) == CHOOSE i \in todo : \A j \in todo : i <= j
=============================================================================
