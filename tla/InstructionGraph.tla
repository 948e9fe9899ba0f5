-------------------------- MODULE InstructionGraph --------------------------
(***************************************************************************)
(* The analysis InstructionGraph: which instruction has to be computed     *)
(* before which.  Besides the uses of a value it has control dependences,  *)
(* taken from the "earliest predicates" of a block instead of its direct   *)
(* predecessors.                                                           *)
(*                                                                         *)
(* A program is [cfg, code]: code lists the instructions block by block,   *)
(* each block's terminator last; an instruction is [bb, kind, args, ptr],  *)
(* args the sequence of the operands that are instructions (constants and  *)
(* function arguments are in no one's way) and ptr the address of a load   *)
(* or store if that is a GetElementPtr, 0 otherwise.  Kinds: "mem" (load   *)
(* or store), "mul", "cast" (of integers and bits), "op" (any other),      *)
(* "phi", "term" (branch, switch or return of a value) and "void" (return  *)
(* of none).  A branch has up to two successors, a switch three or more:   *)
(* simplifycfg makes smaller switches branches.                            *)
(***************************************************************************)
EXTENDS Cfg

Instrs(prog)   == DOMAIN prog.code
Blocks(prog)   == BlocksIn(prog.cfg)
BlockOf(prog, i) == prog.code[i].bb
IsTerm(prog, i)  == prog.code[i].kind \in {"term", "void"}
IsReturn(prog, i) == IsTerm(prog, i) /\ BlockOf(prog, i) = Exit(prog.cfg)

\* What a pass is given: the operands of an instruction are instructions of the
\* function, and dominate it unless it is a phi; a block ends in its one terminator.
\* A return of no value has no operand and no successor.
WellFormed(prog) ==
  /\ prog.cfg.succ \in Seq(Seq(Blocks(prog)))
  /\ prog.code \in Seq([bb : Blocks(prog), kind : {"mem", "mul", "cast", "op", "phi", "term", "void"},
                         args : Seq(Instrs(prog)), ptr : {0} \cup Instrs(prog)])
  /\ \A b \in Blocks(prog) : \E i \in Instrs(prog) :
       /\ {j \in Instrs(prog) : BlockOf(prog, j) = b /\ IsTerm(prog, j)} = {i}
       /\ \A j \in Instrs(prog) : BlockOf(prog, j) = b => j <= i
  /\ \A i \in Instrs(prog) : prog.code[i].kind # "phi" =>
       \A j \in Range(prog.code[i].args) :
          IF BlockOf(prog, j) = BlockOf(prog, i) THEN j < i
          ELSE BlockOf(prog, j) \in prog.cfg.dom[BlockOf(prog, i)]
  /\ \A i \in Instrs(prog) : prog.code[i].kind = "void" =>
       prog.code[i].args = <<>> /\ prog.cfg.succ[BlockOf(prog, i)] = <<>>

Term(prog, b)  == CHOOSE i \in Instrs(prog) : BlockOf(prog, i) = b /\ IsTerm(prog, i)

\* A block of an outer loop that is not a direct predecessor of t is passed over.
Outside(g, t, b) == b \notin Preds(g, t) /\ LoopDepth(g, t) > LoopDepth(g, b)

\* Whether b, met on the way back from t, is one of t's predicates.
IsPredicate(g, t, b) == \/ b = t \/ ~PostDominates(g, t, b)
                        \/ Preds(g, b) = {}
                        \/ b \in Preds(g, t) /\ LoopDepth(g, t) > LoopDepth(g, b)

\* searchEarliestPredicate: backwards from t through the blocks t post-dominates.
EarliestPredicates(g, t) ==
  LET before == [b \in BlocksIn(g) |->
                   IF Outside(g, t, b) \/ IsPredicate(g, t, b) THEN {} ELSE Preds(g, b)]
  IN  {b \in Closure(before, Preds(g, t)) : ~Outside(g, t, b) /\ IsPredicate(g, t, b)}

Uses(prog) == UNION {{<<i, j>> : i \in Range(prog.code[j].args)} : j \in Instrs(prog)}

\* The address computation and the access form a cycle, and so stay together.
Addresses(prog) == {<<i, prog.code[i].ptr>> : i \in {i \in Instrs(prog) : prog.code[i].ptr # 0}}

Controls(prog) ==
  LET predicates == [b \in Blocks(prog) |-> EarliestPredicates(prog.cfg, b)]
  IN  UNION {{<<Term(prog, p), j>> : p \in predicates[BlockOf(prog, j)]} : j \in Instrs(prog)}

\* DependentInstructions of every node, the graph below the root.
Dependents(prog) ==
  LET edges == Uses(prog) \cup Addresses(prog) \cup Controls(prog)
  IN  [i \in Instrs(prog) |-> {j \in Instrs(prog) : <<i, j>> \in edges}]

\* The instructions that depend on i, i included if it depends on itself.
Descendants(deps, i) == Closure(deps, deps[i])

\* The strongly connected component of i.
Scc(deps, i) == {i} \cup {j \in Descendants(deps, i) : i \in Descendants(deps, j)}
=============================================================================
