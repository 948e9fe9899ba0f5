-------------------------------- MODULE Cfg --------------------------------
(***************************************************************************)
(* Control-flow graphs, and what LLVM's dominator, post-dominator and loop *)
(* analyses answer about them.  The analyses are LLVM's, not this          *)
(* repository's: they are given by their definitions.                      *)
(*                                                                         *)
(* Block 1 is the entry, and the only block without successors is the one  *)
(* that returns.  Every block is reachable and reaches the return.         *)
(***************************************************************************)
EXTENDS Data, Functions, Folds

-----------------------------------------------------------------------------
(* The analyses of a graph, a sequence: succ[b] are b's successors, in order. *)

SuccsIn(succ, b) == Range(succ[b])
PredsIn(succ, b) == {p \in DOMAIN succ : b \in SuccsIn(succ, p)}
ExitOf(succ)     == CHOOSE b \in DOMAIN succ : succ[b] = <<>>

FloodIn(succ, S, Avoid)     == Closure([b \in DOMAIN succ |-> SuccsIn(succ, b) \ Avoid], S \ Avoid)
FloodBackIn(succ, S, Avoid) == Closure([b \in DOMAIN succ |-> PredsIn(succ, b) \ Avoid], S \ Avoid)

DominatorsOf(succ, b)     == {a \in DOMAIN succ : b \notin FloodIn(succ, {1}, {a})}
PostDominatorsOf(succ, b) == {a \in DOMAIN succ : ExitOf(succ) \notin FloodIn(succ, {b}, {a})}

\* LoopInfo: a natural loop per header, i.e. per target of a back edge.
LatchesOf(succ, h) == {t \in PredsIn(succ, h) : h \in DominatorsOf(succ, t)}
LoopOf(succ, h)    == IF LatchesOf(succ, h) = {} THEN {}
                      ELSE {h} \cup FloodBackIn(succ, LatchesOf(succ, h), {h})
DepthOf(succ, b)   == Cardinality({h \in DOMAIN succ : b \in LoopOf(succ, h)})

\* scc_iterator<Function*>: the blocks on a common cycle with b, and b itself.
SccOf(succ, b) == {b} \cup (FloodIn(succ, SuccsIn(succ, b), {}) \cap FloodBackIn(succ, PredsIn(succ, b), {}))

Analysed(succ) == [succ  |-> succ,
                   dom   |-> [b \in DOMAIN succ |-> DominatorsOf(succ, b)],
                   pdom  |-> [b \in DOMAIN succ |-> PostDominatorsOf(succ, b)],
                   depth |-> [b \in DOMAIN succ |-> DepthOf(succ, b)],
                   scc   |-> [b \in DOMAIN succ |-> SccOf(succ, b)]]

-----------------------------------------------------------------------------
(* What a pass asks of an analysed graph. *)

BlocksIn(g) == DOMAIN g.succ
Succs(g, b) == SuccsIn(g.succ, b)
Preds(g, b) == PredsIn(g.succ, b)
Exit(g)     == ExitOf(g.succ)

\* The blocks reached from the blocks of S on paths that never enter Avoid.
Flood(g, S, Avoid) == FloodIn(g.succ, S, Avoid)

PostDominates(g, a, b) == a \in g.pdom[b]
LoopDepth(g, b)        == g.depth[b]
CfgScc(g, b)           == g.scc[b]

\* The graphs a pass is given: every block is reached and reaches the return.
Connected(g) ==
  /\ g = Analysed(g.succ)
  /\ \E e \in BlocksIn(g) : \A b \in BlocksIn(g) : b = e <=> g.succ[b] = <<>>
  /\ \A b \in BlocksIn(g) : b \in Flood(g, {1}, {}) /\ Exit(g) \in Flood(g, {b}, {})

\* Every cycle is in a natural loop, as structured programs have it.
CyclesAreLoops(g) ==
  \A b \in BlocksIn(g) : b \in Flood(g, Succs(g, b), {}) => LoopDepth(g, b) # 0

\* DT->findNearestCommonDominator, folded over a set: the common dominator that
\* all the others dominate.
CommonDominator(g, S) ==
  LET common == {a \in BlocksIn(g) : \A b \in S : a \in g.dom[b]}
  IN  CHOOSE a \in common : common \subseteq g.dom[a]
=============================================================================
