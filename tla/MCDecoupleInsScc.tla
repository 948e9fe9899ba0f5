-------------------------- MODULE MCDecoupleInsScc --------------------------
(***************************************************************************)
(* Functions for DecoupleInsScc besides the samples: every way to put Data *)
(* instructions, one of them an access to memory, into the blocks of a     *)
(* control-flow graph, with every kind, every choice of operands among the *)
(* values that dominate them, and every branch condition.                  *)
(***************************************************************************)
EXTENDS MCSamples

CONSTANTS Graphs,  \* the control-flow graphs
          Data,    \* the number of instructions besides the terminators
          Kinds    \* their kinds

\* The instruction numbers: block by block, terminators last.
DataIdx(place, d) == d + place[d] - 1
TermIdx(place, b) == b + Cardinality({d \in DOMAIN place : place[d] <= b})

Places(g) == {p \in [1 .. Data -> BlocksIn(g)] : \A d \in 1 .. Data - 1 : p[d] <= p[d + 1]}

\* A sequence that TLC evaluates only once.
Table(f(_), n) == FoldLeft(LAMBDA s, k : Append(s, f(k)), <<>>, [k \in 1 .. n |-> k])

\* The values that may be used at the end of each block, and by each instruction.
Live(g, place) == Table(LAMBDA b : {d \in DOMAIN place : place[d] \in g.dom[b]}, Cardinality(BlocksIn(g)))
Usable(g, place, live, kind) ==
  Table(LAMBDA d : IF kind[d] = "phi" THEN UNION {live[p] : p \in Preds(g, place[d])}
                   ELSE {e \in live[place[d]] : e < d}, Data)

\* Phis stand first in a block with several predecessors.  A function that does not
\* access memory has a single partition.
KindsFor(g, place) ==
  {k \in [1 .. Data -> Kinds] :
     /\ \E d \in 1 .. Data : k[d] = "mem"
     /\ \A d \in 1 .. Data : k[d] = "phi" =>
          /\ Cardinality(Preds(g, place[d])) > 1
          /\ \A e \in 1 .. d - 1 : place[e] = place[d] => k[e] = "phi"}

ArgsFor(usable) ==
  {a \in [1 .. Data -> SUBSET (1 .. Data)] : \A d \in 1 .. Data : a[d] \subseteq usable[d]}

\* The condition of each branch; 0 is an argument of the function.
CondsFor(g, live) ==
  {c \in [{b \in BlocksIn(g) : Cardinality(Succs(g, b)) > 1} -> 0 .. Data] :
     \A b \in DOMAIN c : c[b] = 0 \/ c[b] \in live[b]}

ArgSeq(place, S) == SetToSortSeq({DataIdx(place, e) : e \in S}, <)

Program(g, place, kind, args, conds) ==
  [cfg |-> g,
   code |-> [i \in 1 .. Cardinality(BlocksIn(g)) + Data |->
     IF \E b \in BlocksIn(g) : i = TermIdx(place, b)
     THEN LET b == CHOOSE b \in BlocksIn(g) : i = TermIdx(place, b)
          IN  [bb |-> b, kind |-> "term", ptr |-> 0, args |-> IF b \in DOMAIN conds /\ conds[b] # 0
                                                                THEN <<DataIdx(place, conds[b])>> ELSE <<>>]
     ELSE LET d == CHOOSE d \in 1 .. Data : i = DataIdx(place, d)
          IN  [bb |-> place[d], kind |-> kind[d], ptr |-> 0, args |-> ArgSeq(place, args[d])]]]

AnalysedGraphs == {Analysed(succ) : succ \in Graphs}

Enumerated == \E g \in AnalysedGraphs : \E place \in Places(g) :
                LET live == Live(g, place)
                IN  \E kind \in KindsFor(g, place), conds \in CondsFor(g, live) :
                      \E args \in ArgsFor(Usable(g, place, live, kind)) :
                        prog = Program(g, place, kind, args, conds)

MCInit == /\ Enumerated \/ prog \in Programs
          /\ Start
MCSpec == MCInit /\ [][Next]_vars

Straight == << <<>> >>
IfThen   == << <<2, 3>>, <<3>>, <<>> >>
Diamond  == << <<2, 3>>, <<4>>, <<4>>, <<>> >>
DoWhile  == << <<2>>, <<2, 3>>, <<>> >>
While    == << <<2>>, <<3, 4>>, <<2>>, <<>> >>
Switch   == << <<2, 3, 4>>, <<4>>, <<4>>, <<>> >>
LoopIf   == << <<2>>, <<3, 4>>, <<4>>, <<2, 5>>, <<>> >>
Nested   == << <<2>>, <<3>>, <<3, 4>>, <<2, 5>>, <<>> >>
MCGraphs == {Straight, IfThen, Diamond, Switch, DoWhile, While, LoopIf, Nested}

\* The graphs are what the pass is given, and the theorems about blocks apply to all of them.
ASSUME \A g \in AnalysedGraphs : Connected(g) /\ CyclesAreLoops(g)
MCKinds  == {"mem", "op", "phi"}
=============================================================================
