------------------------- MODULE NewFunctionsProofs -------------------------
(***************************************************************************)
(* Proofs about the operators of the pass, for every well-formed function: *)
(* what the graph searches of InstructionGraph find, which blocks          *)
(* PartitionBlocks collects and keeps and where their edges lead, in which *)
(* order NewFunctions fills them, what it receives and what its branch     *)
(* tags mean.                                                              *)
(***************************************************************************)
EXTENDS NewFunctions, DataProofs

-----------------------------------------------------------------------------
(* Descendants and components *)

(* The descendants of a node are nodes, and with a node come its children ... *)
LEMMA DescendantsClosed ==
  ASSUME NEW I, NEW next, IsGraph(next, I), NEW i \in I
  PROVE  /\ Descendants(next, i) \in SUBSET I
         /\ next[i] \subseteq Descendants(next, i)
         /\ IsClosed(next, Descendants(next, i))
<1> DEFINE S == next[i]
<1>1. S \in SUBSET I /\ Descendants(next, i) = Closure(next, S)
  BY DEF IsGraph, Descendants
<1> HIDE DEF S
<1>2. Closure(next, S) \in SUBSET I /\ S \subseteq Closure(next, S) /\ IsClosed(next, Closure(next, S))
  BY <1>1, ClosureClosed
<1> QED
  BY <1>1, <1>2 DEF S

(* ... and there are no others than those have to be. *)
LEMMA DescendantsLeast ==
  ASSUME NEW I, NEW next, IsGraph(next, I), NEW i \in I,
         NEW T, next[i] \subseteq T, IsClosed(next, T)
  PROVE  Descendants(next, i) \subseteq T
<1> DEFINE S == next[i]
<1>1. S \in SUBSET I /\ Descendants(next, i) = Closure(next, S) /\ S \subseteq T
  BY DEF IsGraph, Descendants
<1> HIDE DEF S
<1> QED
  BY <1>1, ClosureLeast

(* The descendants of a descendant are descendants. *)
LEMMA DescendantsTransitive ==
  ASSUME NEW I, NEW next, IsGraph(next, I), NEW i \in I, NEW j \in Descendants(next, i)
  PROVE  j \in I /\ Descendants(next, j) \subseteq Descendants(next, i)
<1> DEFINE D == Descendants(next, i)
<1>1. D \in SUBSET I /\ IsClosed(next, D)
  BY DescendantsClosed
<1>2. j \in I /\ next[j] \subseteq D
  BY <1>1 DEF IsClosed
<1> HIDE DEF D
<1> QED
  BY <1>1, <1>2, DescendantsLeast DEF D

(* A component is the class of every instruction in it. *)
LEMMA SccIsClass ==
  ASSUME NEW I, NEW next, IsGraph(next, I), NEW i \in I
  PROVE  /\ i \in Scc(next, i)
         /\ Scc(next, i) \in SUBSET I
         /\ \A j \in Scc(next, i) : Scc(next, j) = Scc(next, i)
<1> DEFINE D(x) == Descendants(next, x)
<1>1. ASSUME NEW x \in I PROVE D(x) \in SUBSET I /\ \A y \in D(x) : D(y) \subseteq D(x)
  BY DescendantsClosed, DescendantsTransitive
<1>2. \A x : Scc(next, x) = {x} \cup {y \in D(x) : x \in D(y)}
  BY DEF Scc
<1> HIDE DEF D
<1>3. ASSUME NEW j \in Scc(next, i) PROVE Scc(next, j) = Scc(next, i)
  <2>1. CASE j = i
    BY <2>1
  <2>2. CASE j # i
    <3>1. j \in D(i) /\ i \in D(j) /\ j \in I
      BY <1>1, <1>2, <1>3, <2>2
    <3>2. D(i) = D(j)
      BY <1>1, <3>1
    <3>3. ASSUME NEW x, x # i, x # j
          PROVE  x \in {y \in D(i) : i \in D(y)} <=> x \in {y \in D(j) : j \in D(y)}
      BY <1>1, <3>1, <3>2
    <3>4. i \in D(i) /\ j \in D(j)
      BY <3>1, <3>2
    <3> QED
      BY <1>2, <3>1, <3>2, <3>3, <3>4
  <2> QED
    BY <2>1, <2>2
<1> QED
  BY <1>1, <1>2, <1>3

-----------------------------------------------------------------------------
(* The graph of a program *)

(* The instructions of a well-formed program and what they refer to. *)
LEMMA ProgramType ==
  ASSUME NEW prog, WellFormed(prog)
  PROVE  /\ IsFiniteSet(Instrs(prog))
         /\ Instrs(prog) = 1 .. Len(prog.code)
         /\ Len(prog.code) \in Nat
         /\ \A i \in Instrs(prog) : /\ BlockOf(prog, i) \in Blocks(prog)
                                    /\ Range(prog.code[i].args) \subseteq Instrs(prog)
<1>1. Instrs(prog) = 1 .. Len(prog.code) /\ Len(prog.code) \in Nat
  BY DEF WellFormed, Instrs
<1>2. IsFiniteSet(1 .. Len(prog.code))
  BY <1>1, FS_Interval
<1>3. ASSUME NEW i \in Instrs(prog)
      PROVE  BlockOf(prog, i) \in Blocks(prog) /\ Range(prog.code[i].args) \subseteq Instrs(prog)
  <2> DEFINE Ins == [bb : Blocks(prog), kind : {"mem", "mul", "cast", "op", "phi", "term", "void"},
                     args : Seq(Instrs(prog)), ptr : {0} \cup Instrs(prog)]
  <2>0. prog.code \in Seq(Ins)
    BY DEF WellFormed
  <2>1. prog.code[i] \in Ins
    <3> HIDE DEF Ins
    <3> QED
      BY <1>1, <2>0
  <2>2. prog.code[i].bb \in Blocks(prog) /\ prog.code[i].args \in Seq(Instrs(prog))
    BY <2>1
  <2> QED
    BY <2>2 DEF BlockOf, Range
<1> QED
  BY <1>1, <1>2, <1>3

(* The graph has an entry for every instruction. *)
LEMMA DependentsType ==
  ASSUME NEW prog
  PROVE  Dependents(prog) \in [Instrs(prog) -> SUBSET Instrs(prog)]
BY DEF Dependents

-----------------------------------------------------------------------------
(* The blocks of a partition *)

(* A search backwards meets blocks of the function. *)
LEMMA KeepersAreBlocks ==
  ASSUME NEW g, IsFiniteSet(BlocksIn(g)), NEW all, NEW keepers, NEW seed
  PROVE  NextKeepersBack(g, all, keepers, seed) \subseteq BlocksIn(g)
<1> DEFINE B == BlocksIn(g)
           S == Preds(g, seed)
           before == [b \in B |-> IF b \in all \ keepers /\ PostDominates(g, seed, b) THEN Preds(g, b) ELSE {}]
<1>1. NextKeepersBack(g, all, keepers, seed) \subseteq Closure(before, S)
  BY DEF NextKeepersBack
<1>2. \A b : Preds(g, b) \in SUBSET B
  BY DEF Preds, PredsIn, BlocksIn
<1>3. IsGraph(before, B) /\ S \in SUBSET B
  BY <1>2 DEF IsGraph
<1> HIDE DEF before, B, S
<1>4. Closure(before, S) \in SUBSET B
  BY <1>3, ClosureClosed
<1> QED
  BY <1>1, <1>4 DEF B

(* The blocks kept are blocks of the function and include those that have to be. *)
(* Others are of those collected, and kept only if some have to be.              *)
LEMMA KeepersKeep ==
  ASSUME NEW g, IsFiniteSet(BlocksIn(g)), NEW all, NEW real \in SUBSET BlocksIn(g)
  PROVE  /\ real \subseteq Keepers(g, all, real) /\ Keepers(g, all, real) \subseteq BlocksIn(g)
         /\ Keepers(g, all, real) \subseteq real \cup all
         /\ real = {} => Keepers(g, all, real) = {}
<1> DEFINE B == BlocksIn(g)
           T == {k \in SUBSET B : real \subseteq k /\ k \subseteq real \cup all /\ (real = {} => k = {})}
           N == Cardinality(B)
           Wider(k) == k \cup UNION {NextKeepersBack(g, all, k, s) : s \in k}
           H == [n \in 1 .. N |-> [k \in T |-> Wider(k)]]
           Def(h) == h = [n \in 0 .. N |-> IF n = 0 THEN real ELSE Wider(h[n - 1])]
           keepers == CHOOSE h : Def(h)
<1>1. Keepers(g, all, real) = keepers[N]
  BY DEF Keepers
<1>2. N \in Nat /\ real \in T
  BY FS_CardinalityType
<1>3. \A k \in T : Wider(k) \in T
  <2> SUFFICES ASSUME NEW k \in T PROVE Wider(k) \in T
    OBVIOUS
  <2>1. \A s \in k : NextKeepersBack(g, all, k, s) \subseteq B /\ NextKeepersBack(g, all, k, s) \subseteq all
    BY KeepersAreBlocks DEF NextKeepersBack
  <2>2. Wider(k) \in SUBSET B /\ real \subseteq Wider(k) /\ Wider(k) \subseteq real \cup all
    BY <2>1
  <2>3. k = {} => Wider(k) = {}
    OBVIOUS
  <2> HIDE DEF Wider, B
  <2> QED
    BY <2>2, <2>3
<1> HIDE DEF Wider, B
<1>4. H \in [1 .. N -> [T -> T]]
  BY <1>3
<1> HIDE DEF T, N, H
<1>5. PICK h : IsIteration(h, N, real, H)
  BY <1>2, <1>4, IterationExists
<1>6. h \in [0 .. N -> T] /\ h[0] = real /\ \A n \in 1 .. N : h[n] = H[n][h[n - 1]]
  BY <1>2, <1>4, <1>5, IterationIs
<1>7. Def(h)
  <2>1. \A n \in 1 .. N : n - 1 \in 0 .. N
    BY <1>2
  <2>2. \A n \in 1 .. N : h[n] = Wider(h[n - 1])
    BY <1>6, <2>1 DEF H
  <2>3. h = [n \in 0 .. N |-> h[n]]
    BY <1>6
  <2>4. [n \in 0 .. N |-> h[n]] = [n \in 0 .. N |-> IF n = 0 THEN real ELSE Wider(h[n - 1])]
    BY <1>2, <1>6, <2>2
  <2> QED
    BY <2>3, <2>4
<1>8. Def(keepers)
  BY <1>7
<1> HIDE DEF keepers
<1> DEFINE P == {n \in 0 .. N : keepers[n] \in T}
<1>9. 0 \in P
  BY <1>2, <1>8
<1>10. ASSUME NEW n \in 1 .. N, n - 1 \in P PROVE n \in P
  <2>1. keepers[n] = Wider(keepers[n - 1])
    BY <1>2, <1>8
  <2> QED
    BY <1>3, <1>10, <2>1
<1>11. N \in P
  <2> HIDE DEF P
  <2>1. \A n \in 0 .. N : n \in P
    BY <1>2, <1>9, <1>10, UpTo
  <2> QED
    BY <1>2, <2>1
<1> QED
  BY <1>1, <1>11 DEF T, B

(* What is set up for a partition: it executes the blocks of its instructions and *)
(* those of their operands.                                                       *)
BlocksFit(p, mine, bbs) ==
  /\ bbs.all \subseteq Blocks(p)
  /\ insBBs(p, mine) \cup sourceBBs(p, mine) \subseteq bbs.all

(* So are those of a partition set up. *)
LEMMA SetUpFits ==
  ASSUME NEW p, WellFormed(p), NEW mine \in SUBSET Instrs(p), NEW cfDup
  PROVE  BlocksFit(p, mine, setupBBStructure(p, mine, cfDup))
<1> DEFINE B == Blocks(p)
           bbs == generateBBList(p, mine, cfDup)
           real == insBBs(p, mine) \cup sourceBBs(p, mine) \cup PhiOwners(p, mine)
<1>1. IsFiniteSet(B) /\ B = BlocksIn(p.cfg)
  <2>1. p.cfg.succ \in Seq(Seq(B)) /\ B = DOMAIN p.cfg.succ
    BY DEF WellFormed, Blocks, BlocksIn
  <2> HIDE DEF B
  <2>2. B = 1 .. Len(p.cfg.succ) /\ Len(p.cfg.succ) \in Nat
    BY <2>1
  <2>3. IsFiniteSet(B)
    BY <2>2, FS_Interval
  <2> QED
    BY <2>3 DEF B, Blocks
<1>2. real \in SUBSET B
  <2>1. \A i \in Instrs(p) : BlockOf(p, i) \in B /\ Range(p.code[i].args) \subseteq Instrs(p)
    BY ProgramType
  <2>2. Operands(p, mine) \subseteq Instrs(p)
    BY <2>1 DEF Operands
  <2>3. PhiOwners(p, mine) \subseteq B
    BY DEF PhiOwners, Incoming, Preds, PredsIn, Blocks, BlocksIn
  <2> HIDE DEF B
  <2> QED
    BY <2>1, <2>2, <2>3 DEF insBBs, sourceBBs, BlocksOf
<1>3. setupBBStructure(p, mine, cfDup).all = Keepers(p.cfg, bbs.all, real)
  <2> DEFINE t == trimBBList(p, mine, bbs)
  <2>1. t.all = Keepers(p.cfg, bbs.all, real) /\ DOMAIN t = {"all", "dominator", "remap", "singleSuc", "failed"}
    BY DEF trimBBList
  <2>2. \E c : setupBBStructure(p, mine, cfDup) = [t EXCEPT !.failed = c]
    BY DEF setupBBStructure
  <2> HIDE DEF t
  <2> QED
    BY <2>1, <2>2
<1> HIDE DEF B, bbs
<1>4. real \subseteq Keepers(p.cfg, bbs.all, real) /\ Keepers(p.cfg, bbs.all, real) \subseteq B
  <2> HIDE DEF real
  <2> QED
    BY <1>1, <1>2, KeepersKeep
<1> QED
  BY <1>3, <1>4 DEF BlocksFit, B

(* The terminator of a block is in it. *)
LEMMA TermIsThere ==
  ASSUME NEW p, WellFormed(p), NEW b \in Blocks(p)
  PROVE  Term(p, b) \in Instrs(p) /\ BlockOf(p, Term(p, b)) = b /\ IsTerm(p, Term(p, b))
<1>1. \E i \in Instrs(p) : {j \in Instrs(p) : BlockOf(p, j) = b /\ IsTerm(p, j)} = {i}
  BY DEF WellFormed
<1>2. \E i \in Instrs(p) : BlockOf(p, i) = b /\ IsTerm(p, i)
  BY <1>1
<1> QED
  BY <1>2 DEF Term

(* What comes from elsewhere is a value another block of the partition computes *)
(* with, or the branch tag of one of its blocks.                                *)
LEMMA ReceivedIsNeeded ==
  ASSUME NEW p, WellFormed(p), NEW mine \in SUBSET Instrs(p), NEW bbs, BlocksFit(p, mine, bbs),
         NEW i \in Receives(p, mine, bbs)
  PROVE  i \in Instrs(p) /\ BlockOf(p, i) \in bbs.all
<1>1. CASE i \in TagsWanted(p, mine, bbs)
  <2>1. PICK b \in bbs.all : i = Term(p, b)
    BY <1>1 DEF TagsWanted
  <2>2. b \in Blocks(p)
    BY <2>1 DEF BlocksFit
  <2> QED
    BY <2>1, <2>2, TermIsThere
<1>2. CASE i \in Operands(p, mine)
  <2>1. i \in Instrs(p)
    BY <1>2, ProgramType DEF Operands
  <2>2. BlockOf(p, i) \in sourceBBs(p, mine)
    BY <1>2 DEF sourceBBs, BlocksOf
  <2> QED
    BY <2>1, <2>2 DEF BlocksFit
<1> QED
  BY <1>1, <1>2 DEF Receives

-----------------------------------------------------------------------------
(* Control-flow graphs *)

(* A graph of finitely many blocks, with an entry. *)
IsCfg(g) == /\ IsFiniteSet(BlocksIn(g)) /\ 1 \in BlocksIn(g)
            /\ \A b \in BlocksIn(g) : Succs(g, b) \subseteq BlocksIn(g)

(* What a flood reaches, and no more. *)
Floods(g, S, Avoid, T) == /\ S \ Avoid \subseteq T
                          /\ \A x \in T : Succs(g, x) \ Avoid \subseteq T

LEMMA FloodIsClosure ==
  ASSUME NEW g, IsCfg(g), NEW Avoid
  PROVE  \E next : /\ IsGraph(next, BlocksIn(g))
                   /\ \A S : Flood(g, S, Avoid) = Closure(next, S \ Avoid)
                   /\ \A b \in BlocksIn(g) : next[b] = Succs(g, b) \ Avoid
<1> DEFINE next == [b \in DOMAIN g.succ |-> SuccsIn(g.succ, b) \ Avoid]
<1>1. IsGraph(next, BlocksIn(g))
  BY DEF IsGraph, IsCfg, BlocksIn, Succs
<1>2. \A S : Flood(g, S, Avoid) = Closure(next, S \ Avoid)
  BY DEF Flood, FloodIn
<1>3. \A b \in BlocksIn(g) : next[b] = Succs(g, b) \ Avoid
  BY DEF BlocksIn, Succs
<1> QED
  BY <1>1, <1>2, <1>3

LEMMA FloodReaches ==
  ASSUME NEW g, IsCfg(g), NEW S \in SUBSET BlocksIn(g), NEW Avoid
  PROVE  /\ Flood(g, S, Avoid) \in SUBSET BlocksIn(g)
         /\ Floods(g, S, Avoid, Flood(g, S, Avoid))
         /\ Flood(g, S, Avoid) \cap Avoid = {}
<1> DEFINE B == BlocksIn(g)
           F == Flood(g, S, Avoid)
<1>1. PICK next : /\ IsGraph(next, B)
                  /\ \A X : Flood(g, X, Avoid) = Closure(next, X \ Avoid)
                  /\ \A b \in B : next[b] = Succs(g, b) \ Avoid
  BY FloodIsClosure
<1>2. F = Closure(next, S \ Avoid) /\ S \ Avoid \in SUBSET B
  BY <1>1
<1>3. F \in SUBSET B /\ S \ Avoid \subseteq F /\ IsClosed(next, F)
  BY <1>1, <1>2, ClosureClosed
<1>4. Floods(g, S, Avoid, F)
  BY <1>1, <1>3 DEF Floods, IsClosed
<1>5. F \subseteq F \ Avoid
  <2> DEFINE T == F \ Avoid
  <2>1. S \ Avoid \subseteq T /\ IsClosed(next, T)
    BY <1>1, <1>3 DEF IsClosed
  <2> QED
    BY <1>1, <1>2, <2>1, ClosureLeast
<1> QED
  BY <1>3, <1>4, <1>5

LEMMA FloodLeast ==
  ASSUME NEW g, IsCfg(g), NEW S \in SUBSET BlocksIn(g), NEW Avoid,
         NEW T, Floods(g, S, Avoid, T)
  PROVE  Flood(g, S, Avoid) \subseteq T
<1> DEFINE B == BlocksIn(g)
           U == T \cap B
<1>1. PICK next : /\ IsGraph(next, B)
                  /\ \A X : Flood(g, X, Avoid) = Closure(next, X \ Avoid)
                  /\ \A b \in B : next[b] = Succs(g, b) \ Avoid
  BY FloodIsClosure
<1>2. Flood(g, S, Avoid) = Closure(next, S \ Avoid) /\ S \ Avoid \in SUBSET B
  BY <1>1
<1>3. S \ Avoid \subseteq U /\ IsClosed(next, U)
  BY <1>1, <1>2 DEF Floods, IsClosed, IsCfg
<1> HIDE DEF B, U
<1>4. Closure(next, S \ Avoid) \subseteq U
  BY <1>1, <1>2, <1>3, ClosureLeast
<1> QED
  BY <1>2, <1>4 DEF U

-----------------------------------------------------------------------------
(* Dominators *)

(* a dominates b if the entry does not reach b around a. *)
LEMMA DominatesIs ==
  ASSUME NEW g, Connected(g), NEW b \in BlocksIn(g)
  PROVE  g.dom[b] = {a \in BlocksIn(g) : b \notin Flood(g, {1}, {a})}
<1>1. g = Analysed(g.succ)
  BY DEF Connected
<1>2. Analysed(g.succ).dom = [x \in DOMAIN g.succ |-> DominatorsOf(g.succ, x)]
  BY DEF Analysed
<1>3. g.dom = [x \in DOMAIN g.succ |-> DominatorsOf(g.succ, x)]
  BY <1>1, <1>2
<1> QED
  BY <1>3 DEF BlocksIn, DominatorsOf, Flood

(* If b is not reached around a, what is reached around a is reached around b. *)
LEMMA AroundBoth ==
  ASSUME NEW g, IsCfg(g), NEW a, NEW b, b \notin Flood(g, {1}, {a})
  PROVE  Flood(g, {1}, {a}) \subseteq Flood(g, {1}, {b})
<1> DEFINE U == Flood(g, {1}, {a})
           W == Flood(g, {1}, {b})
           T == U \cap W
<1>1. {1} \in SUBSET BlocksIn(g)
  BY DEF IsCfg
<1>2. Floods(g, {1}, {a}, U) /\ Floods(g, {1}, {b}, W)
  BY <1>1, FloodReaches
<1> HIDE DEF U, W
<1>3. Floods(g, {1}, {a}, T)
  <2>1. b \notin U
    BY DEF U
  <2> QED
    BY <1>2, <2>1 DEF Floods
<1>4. U \subseteq T
  BY <1>1, <1>3, FloodLeast DEF U
<1> QED
  BY <1>4 DEF U, W

(* Dominance is a partial order. *)
LEMMA DominanceOrders ==
  ASSUME NEW g, IsCfg(g), Connected(g), NEW b \in BlocksIn(g)
  PROVE  /\ b \in g.dom[b]
         /\ \A a \in g.dom[b] : g.dom[a] \subseteq g.dom[b]
         /\ \A a \in g.dom[b] : b \in g.dom[a] => a = b
<1> DEFINE B == BlocksIn(g)
           U(x) == Flood(g, {1}, {x})
<1>1. \A x, a \in B : a \in g.dom[x] <=> x \notin U(a)
  BY DominatesIs
<1>2. \A x \in B : g.dom[x] \in SUBSET B
  BY DominatesIs
<1>3. \A a, x \in B : x \notin U(a) => U(a) \subseteq U(x)
  BY AroundBoth
<1>4. \A x \in B : x \notin U(x) /\ Floods(g, {1}, {x}, U(x))
  <2>1. {1} \in SUBSET BlocksIn(g)
    BY DEF IsCfg
  <2> QED
    BY <2>1, FloodReaches
<1>5. ASSUME NEW a \in B, a # b, b \notin U(a), a \notin U(b)
      PROVE  FALSE
  <2>1. U(a) = U(b)
    BY <1>3, <1>5
  <2>2. 1 \in U(a)
    BY <1>4, <1>5, <2>1 DEF Floods
  <2>3. Floods(g, {1}, {}, U(a))
    BY <1>4, <1>5, <2>1, <2>2 DEF Floods
  <2>4. Flood(g, {1}, {}) \subseteq U(a)
    <3>1. {1} \in SUBSET BlocksIn(g)
      BY DEF IsCfg
    <3> HIDE DEF U
    <3> QED
      BY <2>3, <3>1, FloodLeast
  <2>5. a \in Flood(g, {1}, {})
    BY DEF Connected
  <2> QED
    BY <1>4, <2>4, <2>5
<1> HIDE DEF U
<1>6. b \in g.dom[b]
  BY <1>1, <1>4
<1>7. \A a \in g.dom[b] : g.dom[a] \subseteq g.dom[b]
  BY <1>1, <1>2, <1>3
<1>8. \A a \in g.dom[b] : b \in g.dom[a] => a = b
  BY <1>1, <1>2, <1>5
<1> QED
  BY <1>6, <1>7, <1>8

-----------------------------------------------------------------------------
(* Ways through a graph *)

(* The graph of a program a pass is given. *)
IsFlow(g) == IsCfg(g) /\ Connected(g) /\ g.succ \in Seq(Seq(BlocksIn(g)))

(* All that is reached from a, a included; a cycle leads from a back to it. *)
Reach(g, a)  == Flood(g, {a}, {})
Cyclic(g, a) == a \in Flood(g, Succs(g, a), {})

LEMMA ReachCloses ==
  ASSUME NEW g, IsCfg(g), NEW a \in BlocksIn(g)
  PROVE  /\ Reach(g, a) \in SUBSET BlocksIn(g) /\ a \in Reach(g, a)
         /\ \A x \in Reach(g, a) : Succs(g, x) \subseteq Reach(g, a)
         /\ \A T : a \in T /\ (\A x \in T \cap BlocksIn(g) : Succs(g, x) \subseteq T) => Reach(g, a) \subseteq T
<1> DEFINE B == BlocksIn(g)
<1>1. {a} \in SUBSET B
  OBVIOUS
<1>2. Reach(g, a) \in SUBSET B /\ Floods(g, {a}, {}, Reach(g, a))
  BY <1>1, FloodReaches DEF Reach
<1>3. ASSUME NEW T, a \in T, \A x \in T \cap B : Succs(g, x) \subseteq T
      PROVE  Reach(g, a) \subseteq T
  <2> DEFINE U == T \cap B
  <2>1. Floods(g, {a}, {}, U)
    BY <1>1, <1>3 DEF Floods, IsCfg
  <2> HIDE DEF U, B
  <2>2. Flood(g, {a}, {}) \subseteq U
    BY <1>1, <2>1, FloodLeast DEF B
  <2> QED
    BY <2>2 DEF Reach, U
<1> QED
  BY <1>2, <1>3 DEF Floods

LEMMA ReachTransitive ==
  ASSUME NEW g, IsCfg(g), NEW a \in BlocksIn(g), NEW b \in Reach(g, a)
  PROVE  b \in BlocksIn(g) /\ Reach(g, b) \subseteq Reach(g, a)
<1>1. /\ Reach(g, a) \in SUBSET BlocksIn(g)
      /\ \A x \in Reach(g, a) : Succs(g, x) \subseteq Reach(g, a)
  BY ReachCloses
<1>2. b \in BlocksIn(g)
  BY <1>1
<1> QED
  BY <1>1, <1>2, ReachCloses

(* A way from b's successor to r and back to b is a cycle through r. *)
LEMMA OnCycle ==
  ASSUME NEW g, IsCfg(g), NEW b \in BlocksIn(g), NEW s \in Succs(g, b),
         NEW r \in Reach(g, s), b \in Reach(g, r)
  PROVE  Cyclic(g, r)
<1> DEFINE B == BlocksIn(g)
           C == Flood(g, Succs(g, r), {})
<1>1. s \in B /\ r \in B /\ Reach(g, r) \subseteq B /\ Reach(g, s) \subseteq B
  <2>1. s \in B
    BY DEF IsCfg
  <2>2. r \in B
    BY <2>1, ReachCloses
  <2> QED
    BY <2>1, <2>2, ReachCloses
<1>2. Succs(g, r) \in SUBSET B
  BY <1>1 DEF IsCfg
<1>3. C \in SUBSET B /\ Succs(g, r) \subseteq C /\ \A x \in C : Succs(g, x) \subseteq C
  <2>1. C \in SUBSET B /\ Floods(g, Succs(g, r), {}, C)
    BY <1>2, FloodReaches
  <2> QED
    BY <2>1 DEF Floods
<1> HIDE DEF C
<1>4. Reach(g, r) \subseteq {r} \cup C
  <2> DEFINE T == {r} \cup C
  <2>1. r \in T /\ \A x \in T \cap B : Succs(g, x) \subseteq T
    BY <1>3
  <2> HIDE DEF T
  <2>2. Reach(g, r) \subseteq T
    BY <1>1, <2>1, ReachCloses
  <2> QED
    BY <2>2 DEF T
<1>5. s \in C
  BY <1>3, <1>4
<1>6. Reach(g, s) \subseteq C
  BY <1>1, <1>3, <1>5, ReachCloses
<1> QED
  BY <1>6 DEF Cyclic, C

(* A block leads to all it dominates. *)
LEMMA DominatorReaches ==
  ASSUME NEW g, IsCfg(g), Connected(g), NEW b \in BlocksIn(g), NEW a \in g.dom[b]
  PROVE  a \in BlocksIn(g) /\ b \in Reach(g, a)
<1> DEFINE B == BlocksIn(g)
           U == Flood(g, {1}, {a})
           T == U \cup Reach(g, a)
<1>1. a \in B /\ b \notin U
  BY DominatesIs
<1>2. Floods(g, {1}, {a}, U) /\ U \in SUBSET B
  <2>1. {1} \in SUBSET B
    BY DEF IsCfg
  <2> QED
    BY <2>1, FloodReaches
<1>3. a \in Reach(g, a) /\ \A x \in Reach(g, a) : Succs(g, x) \subseteq Reach(g, a)
  BY <1>1, ReachCloses
<1>4. 1 \in T /\ \A x \in T \cap B : Succs(g, x) \subseteq T
  BY <1>2, <1>3 DEF Floods
<1>5. 1 \in B
  BY DEF IsCfg
<1> HIDE DEF T
<1>6. Reach(g, 1) \subseteq T
  BY <1>4, <1>5, ReachCloses
<1>7. b \in Reach(g, 1)
  BY DEF Connected, Reach
<1> QED
  BY <1>1, <1>6, <1>7 DEF T

(* The dominators of a block form a chain. *)
LEMMA DominatorChain ==
  ASSUME NEW g, IsCfg(g), Connected(g), NEW b \in BlocksIn(g),
         NEW a \in g.dom[b], NEW c \in g.dom[b]
  PROVE  a \in g.dom[c] \/ c \in g.dom[a]
<1> DEFINE B == BlocksIn(g)
           U(x) == Flood(g, {1}, {x})
           T == U(a) \cup U(c)
<1>1. a \in B /\ c \in B /\ b \notin U(a) /\ b \notin U(c)
  BY DominatesIs
<1>2. SUFFICES ASSUME c \in U(a), a \in U(c) PROVE FALSE
  BY <1>1, DominatesIs
<1>3. {1} \in SUBSET B
  BY DEF IsCfg
<1>4. Floods(g, {1}, {a}, U(a)) /\ Floods(g, {1}, {c}, U(c))
  BY <1>3, FloodReaches
<1> HIDE DEF U
<1>5. Floods(g, {1}, {}, T)
  BY <1>2, <1>4 DEF Floods
<1>6. Flood(g, {1}, {}) \subseteq T
  <2> HIDE DEF T
  <2> QED
    BY <1>3, <1>5, FloodLeast
<1>7. b \in Flood(g, {1}, {})
  BY DEF Connected
<1> QED
  BY <1>1, <1>6, <1>7

(* What dominates a block other than it dominates the blocks before it. *)
LEMMA DominatesBefore ==
  ASSUME NEW g, IsCfg(g), Connected(g), NEW b \in BlocksIn(g), NEW a \in g.dom[b], a # b,
         NEW q \in Preds(g, b)
  PROVE  q \in BlocksIn(g) /\ a \in g.dom[q]
<1> DEFINE U == Flood(g, {1}, {a})
<1>1. a \in BlocksIn(g) /\ b \notin U
  BY DominatesIs
<1>2. q \in BlocksIn(g) /\ b \in Succs(g, q)
  BY DEF Preds, PredsIn, BlocksIn, Succs
<1>3. \A x \in U : Succs(g, x) \ {a} \subseteq U
  <2>1. {1} \in SUBSET BlocksIn(g)
    BY DEF IsCfg
  <2> QED
    BY <2>1, FloodReaches DEF Floods
<1>4. q \notin U
  BY <1>1, <1>2, <1>3
<1> QED
  BY <1>1, <1>2, <1>4, DominatesIs

(* Of blocks with common dominators, the one found is dominated by the others. *)
Dominating(g, S) == {a \in BlocksIn(g) : \A b \in S : a \in g.dom[b]}

LEMMA CommonDominatorIs ==
  ASSUME NEW g, IsCfg(g), Connected(g), NEW S \in SUBSET BlocksIn(g), S # {}
  PROVE  /\ CommonDominator(g, S) \in Dominating(g, S)
         /\ Dominating(g, S) \subseteq g.dom[CommonDominator(g, S)]
<1> DEFINE B == BlocksIn(g)
           N == Cardinality(B)
           D == Dominating(g, S)
           size(a) == Cardinality(g.dom[a])
           gap == {N - size(a) : a \in D}
<1>1. IsFiniteSet(B) /\ N \in Nat /\ 1 \in B
  BY FS_CardinalityType DEF IsCfg
<1>2. PICK b \in B : b \in S
  OBVIOUS
<1>3. \A x \in B : g.dom[x] \in SUBSET B
  BY DominatesIs
<1>4. 1 \in D
  <2>1. ASSUME NEW x \in B PROVE 1 \in g.dom[x]
    <3>1. {1} \in SUBSET B
      BY <1>1
    <3>2. Floods(g, {1}, {1}, {})
      BY DEF Floods
    <3>3. Flood(g, {1}, {1}) \subseteq {}
      BY <3>1, <3>2, FloodLeast
    <3> QED
      BY <1>1, <3>3, DominatesIs
  <2> QED
    BY <1>1, <2>1 DEF Dominating
<1>5. ASSUME NEW a \in D PROVE size(a) \in Nat /\ size(a) <= N /\ N - size(a) \in Nat /\ IsFiniteSet(g.dom[a])
  <2>1. g.dom[a] \in SUBSET B
    BY <1>3 DEF Dominating
  <2>2. IsFiniteSet(g.dom[a]) /\ size(a) <= N
    BY <1>1, <2>1, FS_Subset
  <2>3. size(a) \in Nat
    BY <2>2, FS_CardinalityType
  <2> HIDE DEF size, N
  <2> QED
    BY <1>1, <2>2, <2>3
<1>6. gap \in SUBSET Nat /\ gap # {}
  BY <1>4, <1>5
<1>7. PICK m \in gap : \A n \in gap : m <= n
  <2> HIDE DEF gap
  <2> QED
    BY <1>6, LeastExists
<1>8. PICK a \in D : m = N - size(a)
  OBVIOUS
<1>9. ASSUME NEW c \in D PROVE c \in g.dom[a]
  <2>1. a \in g.dom[b] /\ c \in g.dom[b] /\ a \in B /\ c \in B
    BY <1>2 DEF Dominating
  <2>2. CASE c \in g.dom[a]
    BY <2>2
  <2>3. CASE a \in g.dom[c]
    <3>1. g.dom[a] \subseteq g.dom[c] /\ c \in g.dom[c]
      BY <2>1, <2>3, DominanceOrders
    <3>2. N - size(a) <= N - size(c)
      BY <1>7, <1>8
    <3>3. size(a) \in Nat /\ size(c) \in Nat /\ IsFiniteSet(g.dom[c])
      BY <1>5
    <3>4. size(c) <= size(a)
      <4> HIDE DEF size, N
      <4> QED
        BY <1>1, <3>2, <3>3
    <3>5. g.dom[a] = g.dom[c]
      <4>1. size(a) <= size(c)
        BY <3>1, <3>3, FS_Subset
      <4>2. size(a) = size(c)
        BY <3>3, <3>4, <4>1
      <4> QED
        BY <3>1, <3>3, <4>2, FS_Subset
    <3> QED
      BY <3>1, <3>5
  <2> QED
    BY <2>1, <2>2, <2>3, DominatorChain
<1>10. \E x \in D : D \subseteq g.dom[x]
  BY <1>9
<1>11. CommonDominator(g, S) = CHOOSE x \in D : D \subseteq g.dom[x]
  BY DEF CommonDominator, Dominating
<1> QED
  BY <1>10, <1>11

(* There is only one. *)
LEMMA CommonDominatorUnique ==
  ASSUME NEW g, IsCfg(g), Connected(g), NEW S \in SUBSET BlocksIn(g), S # {},
         NEW d \in Dominating(g, S), d \in S
  PROVE  CommonDominator(g, S) = d
<1> DEFINE c == CommonDominator(g, S)
<1>1. c \in Dominating(g, S) /\ d \in g.dom[c]
  BY CommonDominatorIs
<1>2. c \in g.dom[d] /\ c \in BlocksIn(g) /\ d \in BlocksIn(g)
  BY <1>1 DEF Dominating
<1> QED
  BY <1>1, <1>2, DominanceOrders

-----------------------------------------------------------------------------
(* The blocks added *)

(* Blocks entered through their dominator only. *)
Entered(g, all, dominator) ==
  /\ all \in SUBSET BlocksIn(g) /\ dominator \in BlocksIn(g)
  /\ \A b \in all : dominator \in g.dom[b]
  /\ \A b \in all \ {dominator} : Preds(g, b) \subseteq all \cup {dominator}

Behind(g, S) == UNION {Preds(g, b) : b \in S}

(* One round of AddPredecessors, and what is so after the first n. *)
Round(g, r) ==
  LET now  == r.all \cup r.added
      dom  == CommonDominator(g, {r.dominator} \cup r.added)
      last == IF dom = r.dominator THEN r.added ELSE r.added \cup {r.dominator}
  IN  IF r.added = {} THEN r
      ELSE [all |-> now, dominator |-> dom,
            added |-> (UNION {Preds(g, b) : b \in last \ {dom}}) \ (now \cup {dom})]

Adding(g) == [all : SUBSET BlocksIn(g), added : SUBSET BlocksIn(g), dominator : BlocksIn(g)]

AfterRounds(g, start, r, n) ==
  /\ start \subseteq r.all /\ r.all \cap r.added = {}
  /\ \A b \in (r.all \cup r.added) \ start : Succs(g, b) # {}
  /\ \A b \in r.all \cup r.added : r.dominator \in g.dom[b]
  /\ \A b \in r.all \ {r.dominator} : Preds(g, b) \subseteq r.all \cup r.added \cup {r.dominator}
  /\ r.added = {} \/ Cardinality(r.all) >= n

LEMMA RoundType ==
  ASSUME NEW g, IsCfg(g), Connected(g), NEW r \in Adding(g)
  PROVE  Round(g, r) \in Adding(g)
<1> DEFINE B == BlocksIn(g)
           S == {r.dominator} \cup r.added
           dom == CommonDominator(g, S)
<1>1. r.all \in SUBSET B /\ r.added \in SUBSET B /\ r.dominator \in B
  BY DEF Adding
<1>2. S \in SUBSET B /\ S # {}
  BY <1>1
<1>3. dom \in B
  <2> HIDE DEF S
  <2> QED
    BY <1>2, CommonDominatorIs DEF Dominating
<1> HIDE DEF dom
<1>4. \A b : Preds(g, b) \in SUBSET B
  BY DEF Preds, PredsIn, BlocksIn
<1>5. \A S1 : UNION {Preds(g, b) : b \in S1} \in SUBSET B
  BY <1>4
<1> QED
  BY <1>1, <1>3, <1>5 DEF Round, Adding, dom

LEMMA BehindSome ==
  ASSUME NEW g, NEW S, NEW q
  PROVE  q \in Behind(g, S) <=> \E b \in S : q \in Preds(g, b)
BY DEF Behind

(* The first round finds the dominator, ... *)
LEMMA FirstRound ==
  ASSUME NEW g, IsCfg(g), Connected(g), NEW start \in SUBSET BlocksIn(g), NEW d \in start
  PROVE  AfterRounds(g, start, Round(g, [all |-> start, added |-> start, dominator |-> d]), 1)
<1> DEFINE B == BlocksIn(g)
           r0 == [all |-> start, added |-> start, dominator |-> d]
           r == Round(g, r0)
           dom == CommonDominator(g, start)
<1>1. start # {} /\ {d} \cup start = start /\ start \cup start = start /\ start \cup {d} = start
  OBVIOUS
<1>2. dom \in Dominating(g, start)
  BY <1>1, CommonDominatorIs
<1> HIDE DEF dom
<1>3. r = [all |-> start, dominator |-> dom,
           added |-> (UNION {Preds(g, b) : b \in start \ {dom}}) \ (start \cup {dom})]
  BY <1>1 DEF Round, dom
<1>4. \A b \in B : dom # b /\ dom \in g.dom[b] => \A q \in Preds(g, b) : dom \in g.dom[q]
  BY DominatesBefore
<1>5. \A b \in B : \A q \in Preds(g, b) : Succs(g, q) # {}
  BY DEF Preds, PredsIn, Succs
<1>6. Cardinality(start) >= 1
  <2>1. IsFiniteSet(start)
    BY FS_Subset DEF IsCfg
  <2>2. Cardinality(start) \in Nat /\ Cardinality(start) # 0
    BY <1>1, <2>1, FS_CardinalityType, FS_EmptySet
  <2> QED
    BY <2>2
<1> HIDE DEF r
<1>7. r.all = start /\ r.dominator = dom
      /\ r.added = Behind(g, start \ {dom}) \ (start \cup {dom})
  <2>1. r.all = start /\ r.dominator = dom /\ r.added = (UNION {Preds(g, b) : b \in start \ {dom}}) \ (start \cup {dom})
    BY <1>3
  <2> QED
    BY <2>1 DEF Behind
<1>8. \A b \in r.added : Succs(g, b) # {} /\ dom \in g.dom[b] /\ b \notin start
  <2> SUFFICES ASSUME NEW q \in r.added PROVE Succs(g, q) # {} /\ dom \in g.dom[q] /\ q \notin start
    OBVIOUS
  <2>1. q \notin start /\ \E b \in start \ {dom} : q \in Preds(g, b)
    BY <1>7, BehindSome
  <2>2. PICK b \in start \ {dom} : q \in Preds(g, b)
    BY <2>1
  <2>3. b \in B /\ dom \in g.dom[b]
    BY <1>2, <2>2 DEF Dominating
  <2> QED
    BY <1>4, <1>5, <2>1, <2>2, <2>3
<1>9. \A b \in start : dom \in g.dom[b]
  BY <1>2 DEF Dominating
<1>10. AfterRounds(g, start, r, 1)
  <2>1. \A b \in start \ {dom} : Preds(g, b) \subseteq start \cup r.added \cup {dom}
    <3> SUFFICES ASSUME NEW b \in start \ {dom}, NEW q \in Preds(g, b)
                 PROVE  q \in start \cup r.added \cup {dom}
      OBVIOUS
    <3>1. q \in Behind(g, start \ {dom})
      BY BehindSome
    <3> QED
      BY <1>7, <3>1
  <2>2. start \cap r.added = {} /\ (start \cup r.added) \ start \subseteq r.added
    BY <1>8
  <2>3. \A b \in start \cup r.added : dom \in g.dom[b]
    BY <1>8, <1>9
  <2> QED
    BY <1>6, <1>7, <1>8, <2>1, <2>2, <2>3 DEF AfterRounds
<1> QED
  BY <1>10 DEF r

(* ... which no later one moves. *)
LEMMA LaterRound ==
  ASSUME NEW g, IsCfg(g), Connected(g), NEW start, NEW r \in Adding(g), NEW n \in Nat,
         AfterRounds(g, start, r, n)
  PROVE  AfterRounds(g, start, Round(g, r), n + 1)
<1> DEFINE B == BlocksIn(g)
           d == r.dominator
           now == r.all \cup r.added
           e == Round(g, r)
<1>1. /\ r.all \in SUBSET B /\ r.added \in SUBSET B /\ d \in B
      /\ start \subseteq r.all /\ r.all \cap r.added = {}
      /\ \A b \in now \ start : Succs(g, b) # {}
      /\ \A b \in now : d \in g.dom[b]
      /\ \A b \in r.all \ {d} : Preds(g, b) \subseteq now \cup {d}
      /\ r.added = {} \/ Cardinality(r.all) >= n
  BY DEF Adding, AfterRounds
<1>2. CASE r.added = {}
  BY <1>2 DEF Round, AfterRounds
<1>3. CASE r.added # {}
  <2>1. CommonDominator(g, {d} \cup r.added) = d
    <3> DEFINE S == {d} \cup r.added
    <3>1. S \in SUBSET B /\ S # {} /\ d \in S
      BY <1>1
    <3>2. d \in Dominating(g, S)
      BY <1>1, DominanceOrders DEF Dominating
    <3> HIDE DEF S
    <3> QED
      BY <3>1, <3>2, CommonDominatorUnique DEF S
  <2>2. e = [all |-> now, dominator |-> d,
             added |-> (UNION {Preds(g, b) : b \in r.added \ {d}}) \ (now \cup {d})]
    BY <1>3, <2>1 DEF Round
  <2> HIDE DEF e
  <2>3. /\ e.all = now /\ e.dominator = d
        /\ e.added = Behind(g, r.added \ {d}) \ (now \cup {d})
    <3>1. /\ e.all = now /\ e.dominator = d
          /\ e.added = (UNION {Preds(g, b) : b \in r.added \ {d}}) \ (now \cup {d})
      BY <2>2
    <3> QED
      BY <3>1 DEF Behind
  <2>4. \A b \in e.added : Succs(g, b) # {} /\ d \in g.dom[b] /\ b \notin now
    <3> SUFFICES ASSUME NEW q \in e.added PROVE Succs(g, q) # {} /\ d \in g.dom[q] /\ q \notin now
      OBVIOUS
    <3>1. q \notin now /\ \E b \in r.added \ {d} : q \in Preds(g, b)
      BY <2>3, BehindSome
    <3>2. PICK b \in r.added \ {d} : q \in Preds(g, b)
      BY <3>1
    <3>3. b \in B /\ d \in g.dom[b] /\ d # b
      BY <1>1, <3>2
    <3>4. d \in g.dom[q]
      BY <3>2, <3>3, DominatesBefore
    <3>5. Succs(g, q) # {}
      BY <3>2 DEF Preds, PredsIn, Succs
    <3> QED
      BY <3>1, <3>4, <3>5
  <2>5. Cardinality(e.all) >= n + 1
    <3>1. r.all \subseteq now /\ r.all # now
      BY <1>1, <1>3
    <3>2. IsFiniteSet(now) /\ IsFiniteSet(r.all)
      BY <1>1, FS_Subset DEF IsCfg
    <3>4. Cardinality(r.all) \in Nat /\ Cardinality(now) \in Nat
      BY <3>2, FS_CardinalityType
    <3>3. Cardinality(r.all) < Cardinality(now)
      <4> HIDE DEF now
      <4>1. /\ Cardinality(r.all) <= Cardinality(now)
            /\ Cardinality(now) = Cardinality(r.all) => now = r.all
        BY <3>1, <3>2, FS_Subset
      <4> QED
        BY <3>1, <3>4, <4>1
    <3> HIDE DEF now
    <3> QED
      BY <1>1, <1>3, <2>3, <3>3, <3>4
  <2>6. \A b \in e.all \ {d} : Preds(g, b) \subseteq e.all \cup e.added \cup {d}
    <3> SUFFICES ASSUME NEW b \in now \ {d}, NEW q \in Preds(g, b) PROVE q \in now \cup e.added \cup {d}
      BY <2>3
    <3>1. CASE b \in r.all
      BY <1>1, <3>1
    <3>2. CASE b \in r.added
      <4>1. q \in Behind(g, r.added \ {d})
        BY <3>2, BehindSome
      <4> QED
        BY <2>3, <4>1
    <3> QED
      BY <3>1, <3>2
  <2> HIDE DEF now
  <2>7. start \subseteq e.all /\ e.all \cap e.added = {}
    BY <1>1, <2>3, <2>4 DEF now
  <2>8. \A b \in (e.all \cup e.added) \ start : Succs(g, b) # {}
    BY <1>1, <2>3, <2>4
  <2>9. \A b \in e.all \cup e.added : d \in g.dom[b]
    BY <1>1, <2>3, <2>4
  <2>10. AfterRounds(g, start, e, n + 1)
    BY <2>3, <2>5, <2>6, <2>7, <2>8, <2>9 DEF AfterRounds
  <2> QED
    BY <2>10 DEF e
<1> QED
  BY <1>2, <1>3

(* In the end the blocks are entered through their dominator, and all that was added *)
(* lead somewhere.                                                                    *)
LEMMA PredecessorsAdded ==
  ASSUME NEW g, IsCfg(g), Connected(g), NEW start \in SUBSET BlocksIn(g), NEW d \in start
  PROVE  LET bbs == AddPredecessors(g, start, d)
         IN  /\ bbs \in Adding(g)
             /\ Entered(g, bbs.all, bbs.dominator)
             /\ start \subseteq bbs.all
             /\ \A b \in bbs.all \ start : Succs(g, b) # {}
<1> DEFINE B == BlocksIn(g)
           C == Cardinality(B)
           N == C + 1
           T == Adding(g)
           r0 == [all |-> start, added |-> start, dominator |-> d]
           H == [n \in 1 .. N |-> [r \in T |-> Round(g, r)]]
           Def(h) == h = [n \in 0 .. N |-> IF n = 0 THEN r0 ELSE Round(g, h[n - 1])]
           round == CHOOSE h : Def(h)
           bbs == AddPredecessors(g, start, d)
<1>1. bbs = round[N]
  BY DEF AddPredecessors, Round
<1>2. IsFiniteSet(B) /\ C \in Nat /\ N \in Nat /\ N = C + 1 /\ N # 0
  BY FS_CardinalityType DEF IsCfg
<1>3. r0 \in T /\ N = C + 1
  BY DEF Adding
<1>4. \A r \in T : Round(g, r) \in T
  BY RoundType
<1>5. AfterRounds(g, start, Round(g, r0), 1)
  BY FirstRound
<1> HIDE DEF T, N, r0, bbs
<1>6. H \in [1 .. N -> [T -> T]]
  BY <1>4
<1> HIDE DEF H, C
<1>7. PICK h : IsIteration(h, N, r0, H)
  BY <1>2, <1>3, <1>6, IterationExists
<1>8. h \in [0 .. N -> T] /\ h[0] = r0 /\ \A n \in 1 .. N : h[n] = H[n][h[n - 1]]
  BY <1>2, <1>3, <1>6, <1>7, IterationIs
<1>9. Def(h)
  <2>1. \A n \in 1 .. N : n - 1 \in 0 .. N
    BY <1>2
  <2>2. \A n \in 1 .. N : h[n] = Round(g, h[n - 1])
    BY <1>8, <2>1 DEF H
  <2>3. h = [n \in 0 .. N |-> h[n]]
    BY <1>8
  <2>4. [n \in 0 .. N |-> h[n]] = [n \in 0 .. N |-> IF n = 0 THEN r0 ELSE Round(g, h[n - 1])]
    BY <1>2, <1>8, <2>2
  <2> QED
    BY <2>3, <2>4
<1>10. Def(round)
  BY <1>9
<1> HIDE DEF round
<1>11. round[0] = r0 /\ \A n \in 1 .. N : round[n] = Round(g, round[n - 1])
  BY <1>2, <1>10
<1> DEFINE P == {n \in 0 .. C : round[n + 1] \in T /\ AfterRounds(g, start, round[n + 1], n + 1)}
<1>12. 0 \in P
  <2>1. round[1] = Round(g, r0)
    BY <1>2, <1>11
  <2> QED
    BY <1>2, <1>3, <1>4, <1>5, <2>1
<1>13. ASSUME NEW n \in 1 .. C, n - 1 \in P PROVE n \in P
  <2>1. round[n] \in T /\ AfterRounds(g, start, round[n], n)
    BY <1>2, <1>13
  <2>2. round[n + 1] = Round(g, round[n])
    BY <1>2, <1>11
  <2>3. AfterRounds(g, start, Round(g, round[n]), n + 1)
    BY <2>1, LaterRound DEF T
  <2> QED
    BY <1>4, <2>1, <2>2, <2>3
<1>14. C \in P
  <2> HIDE DEF P, C
  <2>1. \A n \in 0 .. C : n \in P
    BY <1>2, <1>12, <1>13, UpTo
  <2> QED
    BY <1>2, <2>1
<1>15. bbs \in T /\ AfterRounds(g, start, bbs, N)
  BY <1>1, <1>2, <1>14
<1>16. bbs.all \in SUBSET B /\ bbs.dominator \in B
  BY <1>15 DEF T, Adding
<1>17. bbs.added = {}
  <2>1. Cardinality(bbs.all) <= C
    BY <1>2, <1>16, FS_Subset DEF C
  <2>2. Cardinality(bbs.all) \in Nat
    BY <1>2, <1>16, FS_Subset, FS_CardinalityType
  <2>3. ~(Cardinality(bbs.all) >= N)
    <3> HIDE DEF C
    <3> QED
      BY <1>2, <2>1, <2>2
  <2> QED
    BY <1>15, <2>3 DEF AfterRounds
<1> QED
  BY <1>15, <1>16, <1>17 DEF AfterRounds, Entered, bbs, T

-----------------------------------------------------------------------------
(* The search for a block *)

(* What a search gives back, and its step from level to level: all successors are *)
(* tried one after the other.                                                     *)
Found(g) == [keep : BOOLEAN, path : Seq(BlocksIn(g))]

Deeper(prev, domInter, found, s) ==
  IF s \in Range(found.path) \/ s = domInter \/ ~prev[found.path][s].keep
  THEN found ELSE prev[found.path][s]

AllTried(g, domInter, prev, storage, current) ==
  LET succ == g.succ[current]
      tries[m \in 0 .. Len(succ)] ==
        IF m = 0 THEN [keep |-> FALSE, path |-> Append(storage, current)]
        ELSE Deeper(prev, domInter, tries[m - 1], succ[m])
  IN  tries[Len(succ)]

At(g, target, domInter, n, prev, storage, current) ==
  LET tried == AllTried(g, domInter, prev, storage, current)
  IN  IF n = 0 THEN [keep |-> FALSE, path |-> storage]
      ELSE IF current = target THEN [keep |-> TRUE, path |-> Append(storage, current)]
      ELSE IF tried.keep THEN tried
      ELSE [keep |-> FALSE, path |-> storage]

Level(g, target, domInter, n, prev) ==
  [storage \in Seq(BlocksIn(g)) |-> [current \in BlocksIn(g) |->
     At(g, target, domInter, n, prev, storage, current)]]

(* The target, and blocks that lead somewhere. *)
Leading(g, target) == {x \in BlocksIn(g) : x = target \/ Succs(g, x) # {}}
KeepsLeading(g, target, prev) ==
  /\ prev \in [Seq(BlocksIn(g)) -> [BlocksIn(g) -> Found(g)]]
  /\ \A storage \in Seq(BlocksIn(g)), current \in BlocksIn(g) :
       Range(storage) \subseteq Leading(g, target)
         => Range(prev[storage][current].path) \subseteq Leading(g, target)

LEMMA TriedKeepsLeading ==
  ASSUME NEW g, IsFlow(g), NEW target, NEW domInter,
         NEW prev, KeepsLeading(g, target, prev),
         NEW storage \in Seq(BlocksIn(g)), NEW current \in BlocksIn(g)
  PROVE  LET tried == AllTried(g, domInter, prev, storage, current)
         IN  /\ tried \in Found(g)
             /\ Succs(g, current) = {} => ~tried.keep
             /\ Succs(g, current) # {} /\ Range(storage) \subseteq Leading(g, target)
                  => Range(tried.path) \subseteq Leading(g, target)
<1> DEFINE B == BlocksIn(g)
           F == Leading(g, target)
           succ == g.succ[current]
           N == Len(succ)
           T == Found(g)
           Fit(t) == Succs(g, current) # {} /\ Range(storage) \subseteq F => Range(t.path) \subseteq F
           base == [keep |-> FALSE, path |-> Append(storage, current)]
           H == [m \in 1 .. N |-> [t \in T |-> Deeper(prev, domInter, t, succ[m])]]
           Def(h) == h = [m \in 0 .. N |-> IF m = 0 THEN base ELSE Deeper(prev, domInter, h[m - 1], succ[m])]
           tries == CHOOSE h : Def(h)
           tried == AllTried(g, domInter, prev, storage, current)
<1>1. tried = tries[N]
  BY DEF AllTried
<1>2. succ \in Seq(B) /\ N \in Nat /\ DOMAIN succ = 1 .. N /\ \A m \in 1 .. N : succ[m] \in B
  <2>1. g.succ \in Seq(Seq(B)) /\ current \in DOMAIN g.succ
    BY DEF IsFlow, BlocksIn
  <2> HIDE DEF B
  <2>2. succ \in Seq(B)
    BY <2>1
  <2> HIDE DEF succ
  <2> QED
    BY <2>2
<1>3. Succs(g, current) = {} => N = 0
  <2>1. Succs(g, current) = Range(succ)
    BY DEF Succs, SuccsIn
  <2>2. ASSUME N # 0 PROVE Range(succ) # {}
    <3> HIDE DEF N, succ
    <3>1. 1 \in DOMAIN succ
      BY <1>2, <2>2
    <3> QED
      BY <3>1 DEF Range
  <2> HIDE DEF succ, N
  <2> QED
    BY <2>1, <2>2
<1> HIDE DEF tried, succ, N
<1>4. base \in T /\ Fit(base) /\ ~base.keep
  <2> DEFINE a == Append(storage, current)
  <2>1. a \in Seq(B) /\ Range(a) = Range(storage) \cup {current}
    <3> HIDE DEF B
    <3> QED
      BY RangeOfAppend DEF B
  <2> HIDE DEF a
  <2>2. base.path = a /\ base.keep = FALSE /\ base \in T
    BY <2>1 DEF Found, a
  <2>3. Succs(g, current) # {} => current \in F
    BY DEF Leading
  <2> HIDE DEF base
  <2> QED
    BY <2>1, <2>2, <2>3
<1>5. ASSUME NEW t \in T, NEW s \in B
      PROVE  Deeper(prev, domInter, t, s) \in T /\ (Fit(t) => Fit(Deeper(prev, domInter, t, s)))
  <2>1. t.path \in Seq(B)
    BY DEF Found
  <2> DEFINE r == prev[t.path][s]
  <2>2. r \in T /\ (Range(t.path) \subseteq F => Range(r.path) \subseteq F)
    BY <2>1 DEF KeepsLeading
  <2>3. Deeper(prev, domInter, t, s) \in {t, r}
    BY DEF Deeper
  <2> HIDE DEF r
  <2> QED
    BY <2>2, <2>3
<1> HIDE DEF T, base, F
<1>6. H \in [1 .. N -> [T -> T]]
  BY <1>2, <1>5
<1> HIDE DEF H, Fit
<1>7. PICK h : IsIteration(h, N, base, H)
  BY <1>2, <1>4, <1>6, IterationExists
<1>8. h \in [0 .. N -> T] /\ h[0] = base /\ \A m \in 1 .. N : h[m] = H[m][h[m - 1]]
  <2>1. N \in Nat /\ base \in T
    BY <1>2, <1>4
  <2> HIDE DEF Def, B
  <2> QED
    BY <2>1, <1>6, <1>7, IterationIs
<1>9. Def(h)
  <2>1. \A m \in 1 .. N : m - 1 \in 0 .. N
    BY <1>2
  <2>2. \A m \in 1 .. N : h[m] = Deeper(prev, domInter, h[m - 1], succ[m])
    BY <1>8, <2>1 DEF H
  <2>3. h = [m \in 0 .. N |-> h[m]]
    BY <1>8
  <2>4. [m \in 0 .. N |-> h[m]]
          = [m \in 0 .. N |-> IF m = 0 THEN base ELSE Deeper(prev, domInter, h[m - 1], succ[m])]
    BY <1>2, <1>8, <2>2
  <2> QED
    BY <2>3, <2>4
<1>10. Def(tries)
  BY <1>9
<1> HIDE DEF tries
<1>11. tries[0] = base /\ \A m \in 1 .. N : tries[m] = Deeper(prev, domInter, tries[m - 1], succ[m])
  BY <1>2, <1>10
<1> DEFINE P == {m \in 0 .. N : tries[m] \in T /\ Fit(tries[m])}
<1>12. 0 \in P
  BY <1>2, <1>4, <1>11
<1>13. ASSUME NEW m \in 1 .. N, m - 1 \in P PROVE m \in P
  BY <1>2, <1>5, <1>11, <1>13
<1>14. N \in P
  <2> HIDE DEF P
  <2>1. \A m \in 0 .. N : m \in P
    BY <1>2, <1>12, <1>13, UpTo
  <2> QED
    BY <1>2, <2>1
<1>15. Succs(g, current) = {} => ~tried.keep
  BY <1>1, <1>3, <1>4, <1>11
<1> QED
  BY <1>1, <1>14, <1>15 DEF Fit, F, T, tried

LEMMA LevelKeepsLeading ==
  ASSUME NEW g, IsFlow(g), NEW target, NEW domInter,
         NEW prev, KeepsLeading(g, target, prev), NEW n
  PROVE  KeepsLeading(g, target, Level(g, target, domInter, n, prev))
<1> DEFINE B == BlocksIn(g)
           F == Leading(g, target)
           T == Found(g)
           e == Level(g, target, domInter, n, prev)
<1>1. ASSUME NEW storage \in Seq(B), NEW current \in B
      PROVE  LET a == At(g, target, domInter, n, prev, storage, current)
             IN  a \in T /\ (Range(storage) \subseteq F => Range(a.path) \subseteq F)
  <2> DEFINE tried == AllTried(g, domInter, prev, storage, current)
             next == Append(storage, current)
             a == At(g, target, domInter, n, prev, storage, current)
  <2>1. /\ tried \in T
        /\ Succs(g, current) = {} => ~tried.keep
        /\ Succs(g, current) # {} /\ Range(storage) \subseteq F => Range(tried.path) \subseteq F
    BY TriedKeepsLeading
  <2>2. next \in Seq(B) /\ Range(next) = Range(storage) \cup {current}
    BY RangeOfAppend
  <2> HIDE DEF tried, next
  <2>3. \/ a = [keep |-> FALSE, path |-> storage]
        \/ a = [keep |-> TRUE, path |-> next] /\ current = target
        \/ a = tried /\ tried.keep
    BY DEF At, tried, next
  <2> HIDE DEF a
  <2>4. a \in T
    <3> HIDE DEF B
    <3>1. [keep |-> FALSE, path |-> storage] \in T /\ [keep |-> TRUE, path |-> next] \in T
      BY <2>2 DEF Found, B
    <3> HIDE DEF T
    <3> QED
      BY <2>1, <2>3, <3>1
  <2>5. ASSUME Range(storage) \subseteq F PROVE Range(a.path) \subseteq F
    <3>1. CASE a = [keep |-> FALSE, path |-> storage]
      BY <2>5, <3>1
    <3>2. CASE a = [keep |-> TRUE, path |-> next] /\ current = target
      <4>1. a.path = next /\ current \in F
        BY <3>2 DEF Leading
      <4> QED
        BY <2>2, <2>5, <4>1
    <3>3. CASE a = tried /\ tried.keep
      BY <2>1, <2>5, <3>3
    <3> QED
      BY <2>3, <3>1, <3>2, <3>3
  <2> QED
    BY <2>4, <2>5 DEF a
<1>2. e = [storage \in Seq(B) |-> [current \in B |-> At(g, target, domInter, n, prev, storage, current)]]
  BY DEF Level
<1> HIDE DEF e, B, T, F
<1>3. e \in [Seq(B) -> [B -> T]]
  BY <1>1, <1>2
<1>4. \A storage \in Seq(B), current \in B : Range(storage) \subseteq F => Range(e[storage][current].path) \subseteq F
  BY <1>1, <1>2
<1> QED
  BY <1>3, <1>4 DEF KeepsLeading, e, B, T, F

(* All on the way found are the target or lead somewhere; a block finds itself. *)
LEMMA SearchLeads ==
  ASSUME NEW g, IsFlow(g), NEW target, NEW domInter,
         NEW source \in BlocksIn(g)
  PROVE  LET r == Search(g, source, target, domInter)
         IN  /\ r \in Found(g)
             /\ Range(r.path) \subseteq Leading(g, target)
             /\ source = target => r.keep /\ source \in Range(r.path)
<1> DEFINE B == BlocksIn(g)
           N == Cardinality(B)
           T == {f \in [Seq(B) -> [B -> Found(g)]] : KeepsLeading(g, target, f)}
           base == [storage \in Seq(B) |-> [current \in B |-> [keep |-> FALSE, path |-> storage]]]
           H == [n \in 1 .. N |-> [f \in T |-> Level(g, target, domInter, n, f)]]
           Def(h) == h = [n \in 0 .. N |-> Level(g, target, domInter, n, h[n - 1])]
           search == CHOOSE h : Def(h)
           r == Search(g, source, target, domInter)
<1>1. r = search[N][<<>>][source]
  BY DEF Search, Level, At, AllTried, Deeper
<1>2. N \in Nat /\ N # 0
  <2>1. IsFiniteSet(B) /\ B # {}
    BY DEF IsFlow, IsCfg
  <2> HIDE DEF B
  <2> QED
    BY <2>1, FS_CardinalityType, FS_EmptySet
<1>3. \A h : Level(g, target, domInter, 0, h) = base
  BY DEF Level, At
<1>4. base \in T
  <2>1. base \in [Seq(B) -> [B -> Found(g)]]
    BY DEF Found
  <2>2. KeepsLeading(g, target, base)
    BY <2>1 DEF KeepsLeading
  <2> QED
    BY <2>1, <2>2
<1>5. \A n, f : f \in T => Level(g, target, domInter, n, f) \in T
  <2> SUFFICES ASSUME NEW n, NEW f \in T PROVE Level(g, target, domInter, n, f) \in T
    OBVIOUS
  <2>1. KeepsLeading(g, target, Level(g, target, domInter, n, f))
    BY LevelKeepsLeading
  <2> QED
    BY <2>1 DEF KeepsLeading
<1> HIDE DEF base, T, r, N
<1>6. H \in [1 .. N -> [T -> T]]
  BY <1>5
<1> HIDE DEF H
<1>7. PICK h : IsIteration(h, N, base, H)
  BY <1>2, <1>4, <1>6, IterationExists
<1>8. h \in [0 .. N -> T] /\ h[0] = base /\ \A n \in 1 .. N : h[n] = H[n][h[n - 1]]
  BY <1>2, <1>4, <1>6, <1>7, IterationIs
<1>9. Def(h)
  <2>1. \A n \in 1 .. N : n - 1 \in 0 .. N
    BY <1>2
  <2>2. \A n \in 1 .. N : h[n] = Level(g, target, domInter, n, h[n - 1])
    BY <1>8, <2>1 DEF H
  <2>3. h[0] = Level(g, target, domInter, 0, h[0 - 1])
    BY <1>3, <1>8
  <2>4. \A n \in 0 .. N : h[n] = Level(g, target, domInter, n, h[n - 1])
    BY <1>2, <2>2, <2>3
  <2>5. h = [n \in 0 .. N |-> h[n]]
    BY <1>8
  <2>6. [n \in 0 .. N |-> h[n]] = [n \in 0 .. N |-> Level(g, target, domInter, n, h[n - 1])]
    BY <2>4
  <2> QED
    BY <2>5, <2>6
<1>10. Def(search)
  BY <1>9
<1> HIDE DEF search
<1>11. \A n \in 0 .. N : search[n] = Level(g, target, domInter, n, search[n - 1])
  BY <1>10
<1> DEFINE P == {n \in 0 .. N : search[n] \in T}
<1>12. 0 \in P
  BY <1>2, <1>3, <1>4, <1>11
<1>13. ASSUME NEW n \in 1 .. N, n - 1 \in P PROVE n \in P
  BY <1>2, <1>5, <1>11, <1>13
<1>14. N \in P
  <2> HIDE DEF P
  <2>1. \A n \in 0 .. N : n \in P
    BY <1>2, <1>12, <1>13, UpTo
  <2> QED
    BY <1>2, <2>1
<1>15. <<>> \in Seq(B) /\ Range(<<>>) = {}
  BY DEF Range
<1>16. r \in Found(g) /\ Range(r.path) \subseteq Leading(g, target)
  BY <1>1, <1>14, <1>15 DEF T, KeepsLeading
<1>17. ASSUME source = target PROVE r.keep /\ source \in Range(r.path)
  <2>1. search[N] = Level(g, target, domInter, N, search[N - 1])
    BY <1>2, <1>11
  <2>2. r = At(g, target, domInter, N, search[N - 1], <<>>, source)
    BY <1>1, <1>15, <2>1 DEF Level
  <2>3. r = [keep |-> TRUE, path |-> Append(<<>>, source)]
    BY <1>2, <1>17, <2>2 DEF At
  <2>4. source \in Range(Append(<<>>, source))
    <3> DEFINE none == <<>>
    <3>1. none \in Seq(B)
      BY <1>15
    <3> HIDE DEF none, B
    <3>2. source \in Range(Append(none, source))
      BY <3>1, RangeOfAppend
    <3> QED
      BY <3>2 DEF none
  <2> QED
    BY <2>3, <2>4
<1> QED
  BY <1>16, <1>17 DEF r

-----------------------------------------------------------------------------
(* The blocks collected *)

(* All are reached from the entry and reach the return, which only itself does not leave. *)
LEMMA ExitEnds ==
  ASSUME NEW g, IsFlow(g)
  PROVE  /\ Exit(g) \in BlocksIn(g)
         /\ \A b \in BlocksIn(g) : Succs(g, b) = {} <=> b = Exit(g)
         /\ Reach(g, Exit(g)) = {Exit(g)}
         /\ \A b \in BlocksIn(g) : Exit(g) \in Reach(g, b) /\ b \in Reach(g, 1)
<1> DEFINE B == BlocksIn(g)
           e == Exit(g)
<1>1. IsCfg(g) /\ Connected(g) /\ g.succ \in Seq(Seq(B))
  BY DEF IsFlow
<1>2. PICK x \in B : \A b \in B : b = x <=> g.succ[b] = <<>>
  BY <1>1 DEF Connected
<1>3. e = x
  <2>1. x \in DOMAIN g.succ /\ g.succ[x] = <<>>
    BY <1>2 DEF BlocksIn
  <2>2. e \in DOMAIN g.succ /\ g.succ[e] = <<>>
    BY <2>1 DEF Exit, ExitOf
  <2> QED
    BY <1>2, <2>2 DEF BlocksIn
<1>4. ASSUME NEW b \in B PROVE Succs(g, b) = {} <=> g.succ[b] = <<>>
  <2> DEFINE succ == g.succ[b]
  <2>1. b \in DOMAIN g.succ
    BY DEF BlocksIn
  <2>2. succ \in Seq(B)
    <3> HIDE DEF B
    <3> QED
      BY <1>1, <2>1
  <2>3. Succs(g, b) = Range(succ)
    BY DEF Succs, SuccsIn
  <2> HIDE DEF succ, B
  <2>4. ASSUME succ # <<>> PROVE Range(succ) # {}
    <3>1. 1 \in DOMAIN succ
      BY <2>2, <2>4
    <3> QED
      BY <3>1 DEF Range
  <2>5. ASSUME succ = <<>> PROVE Range(succ) = {}
    BY <2>5 DEF Range
  <2> QED
    BY <2>3, <2>4, <2>5 DEF succ
<1>5. e \in B /\ \A b \in B : Succs(g, b) = {} <=> b = e
  BY <1>2, <1>3, <1>4
<1> HIDE DEF e
<1>6. Reach(g, e) = {e}
  <2> DEFINE T == {e}
  <2>1. e \in T /\ \A y \in T \cap B : Succs(g, y) \subseteq T
    BY <1>5
  <2> HIDE DEF T
  <2>2. Reach(g, e) \subseteq T /\ e \in Reach(g, e)
    BY <1>1, <1>5, <2>1, ReachCloses
  <2> QED
    BY <2>2 DEF T
<1>7. \A b \in B : e \in Reach(g, b) /\ b \in Reach(g, 1)
  BY <1>1 DEF Connected, Reach, e
<1> QED
  BY <1>5, <1>6, <1>7 DEF e

(* The component of a block leads to it and is reached from it. *)
LEMMA SccIs ==
  ASSUME NEW g, IsFlow(g), NEW b \in BlocksIn(g)
  PROVE  /\ b \in CfgScc(g, b)
         /\ \A c \in CfgScc(g, b) : c \in BlocksIn(g) /\ c \in Reach(g, b) /\ b \in Reach(g, c)
<1> DEFINE B == BlocksIn(g)
           F == Flood(g, Succs(g, b), {})
           S == Preds(g, b)
           next == [x \in B |-> Preds(g, x)]
           K == Closure(next, S)
<1>1. IsCfg(g) /\ g = Analysed(g.succ)
  BY DEF IsFlow, Connected
<1>2. CfgScc(g, b) = {b} \cup (F \cap K)
  <2>1. Analysed(g.succ).scc = [x \in DOMAIN g.succ |-> SccOf(g.succ, x)]
    BY DEF Analysed
  <2>2. g.scc = [x \in DOMAIN g.succ |-> SccOf(g.succ, x)]
    BY <1>1, <2>1
  <2>3. CfgScc(g, b) = {b} \cup (FloodIn(g.succ, SuccsIn(g.succ, b), {}) \cap FloodBackIn(g.succ, PredsIn(g.succ, b), {}))
    BY <2>2 DEF CfgScc, SccOf, BlocksIn
  <2>4. next = [x \in DOMAIN g.succ |-> PredsIn(g.succ, x) \ {}] /\ S = PredsIn(g.succ, b) \ {}
    BY DEF BlocksIn, Preds
  <2>5. FloodBackIn(g.succ, PredsIn(g.succ, b), {}) = K
    BY <2>4 DEF FloodBackIn
  <2>6. FloodIn(g.succ, SuccsIn(g.succ, b), {}) = F
    BY DEF Flood, Succs
  <2> QED
    BY <2>3, <2>5, <2>6
<1>3. F \subseteq Reach(g, b)
  <2>1. Succs(g, b) \in SUBSET B
    BY <1>1 DEF IsCfg
  <2>2. b \in Reach(g, b) /\ \A x \in Reach(g, b) : Succs(g, x) \subseteq Reach(g, b)
    BY <1>1, ReachCloses
  <2>3. Floods(g, Succs(g, b), {}, Reach(g, b))
    BY <2>2 DEF Floods
  <2> QED
    BY <1>1, <2>1, <2>3, FloodLeast
<1>4. \A x \in B : \A y \in Preds(g, x) : y \in B /\ x \in Reach(g, y)
  <2> SUFFICES ASSUME NEW x \in B, NEW y \in Preds(g, x) PROVE y \in B /\ x \in Reach(g, y)
    OBVIOUS
  <2>1. y \in B /\ x \in Succs(g, y)
    BY DEF Preds, PredsIn, BlocksIn, Succs
  <2> QED
    BY <1>1, <2>1, ReachCloses
<1>5. \A c \in K : b \in Reach(g, c)
  <2> DEFINE T == {x \in B : b \in Reach(g, x)}
  <2>1. S \subseteq T
    BY <1>4
  <2>2. IsClosed(next, T)
    <3> SUFFICES ASSUME NEW x \in T, NEW y \in next[x] PROVE y \in T
      BY DEF IsClosed
    <3>1. y \in B /\ x \in Reach(g, y)
      BY <1>4
    <3> QED
      BY <1>1, <3>1, ReachTransitive
  <2>3. IsGraph(next, B) /\ S \in SUBSET B
    BY <1>1, <1>4 DEF IsGraph, IsCfg
  <2> HIDE DEF T, next, S, B
  <2>4. Closure(next, S) \subseteq T
    BY <2>1, <2>2, <2>3, ClosureLeast
  <2> QED
    BY <2>4 DEF T
<1>6. b \in Reach(g, b) /\ Reach(g, b) \subseteq B
  BY <1>1, ReachCloses
<1> HIDE DEF F, K
<1> QED
  BY <1>2, <1>3, <1>5, <1>6

(* Control that comes back to blocks entered through their dominator comes back to all *)
(* of them.                                                                            *)
LEMMA EnteredAgain ==
  ASSUME NEW g, IsFlow(g), NEW A, NEW d, Entered(g, A, d),
         NEW r \in BlocksIn(g) \ A, NEW x \in A, x \in Reach(g, r)
  PROVE  A \subseteq Reach(g, r)
<1> DEFINE B == BlocksIn(g)
           R == Reach(g, r)
<1>1. IsCfg(g) /\ Connected(g)
  BY DEF IsFlow
<1>2. /\ A \in SUBSET B /\ d \in B
      /\ \A b \in A : d \in g.dom[b]
      /\ \A b \in A \ {d} : Preds(g, b) \subseteq A \cup {d}
  BY DEF Entered
<1>3. r \in R /\ R \in SUBSET B /\ \A y \in R : Succs(g, y) \subseteq R
  BY <1>1, ReachCloses
<1>4. d \in R
  <2> SUFFICES ASSUME d \notin R PROVE FALSE
    OBVIOUS
  <2> DEFINE T == R \ A
  <2>1. ASSUME NEW y \in T \cap B, NEW z \in Succs(g, y) PROVE z \in T
    <3>1. z \in R /\ z # d
      BY <1>3
    <3>2. y \in Preds(g, z)
      BY DEF Preds, PredsIn, BlocksIn, Succs
    <3>3. y \notin A \cup {d}
      OBVIOUS
    <3> QED
      BY <1>2, <3>1, <3>2, <3>3
  <2>2. r \in T
    BY <1>3
  <2> HIDE DEF T
  <2>3. R \subseteq T
    BY <1>1, <2>1, <2>2, ReachCloses
  <2> QED
    BY <2>3 DEF T
<1>5. Reach(g, d) \subseteq R
  BY <1>1, <1>4, ReachTransitive
<1>6. \A b \in A : b \in Reach(g, d)
  BY <1>1, <1>2, DominatorReaches
<1> QED
  BY <1>5, <1>6

(* What generateBBList collects for a partition: the blocks it has to keep, the return *)
(* only if it is one of them, and either none or all of what control comes back to.   *)
Real(p, mine) == insBBs(p, mine) \cup sourceBBs(p, mine) \cup PhiOwners(p, mine)
Collected(g, real, A) ==
  /\ A \in SUBSET BlocksIn(g) /\ real \subseteq A
  /\ Exit(g) \in A => Exit(g) \in real
  /\ \A r \in BlocksIn(g) \ A : \A x \in A : x \in Reach(g, r) => A \subseteq Reach(g, r)

LEMMA RealAreBlocks ==
  ASSUME NEW p, WellFormed(p), NEW mine \in SUBSET Instrs(p)
  PROVE  /\ insBBs(p, mine) \in SUBSET BlocksIn(p.cfg)
         /\ sourceBBs(p, mine) \in SUBSET BlocksIn(p.cfg)
         /\ PhiOwners(p, mine) \in SUBSET BlocksIn(p.cfg)
<1> DEFINE B == Blocks(p)
<1>1. \A i \in Instrs(p) : BlockOf(p, i) \in B /\ Range(p.code[i].args) \subseteq Instrs(p)
  BY ProgramType
<1>2. Operands(p, mine) \subseteq Instrs(p)
  BY <1>1 DEF Operands
<1>3. \A b : Preds(p.cfg, b) \subseteq B
  BY DEF Preds, PredsIn, Blocks, BlocksIn
<1>4. PhiOwners(p, mine) \subseteq B
  BY <1>3 DEF PhiOwners, Incoming
<1> HIDE DEF B
<1>5. insBBs(p, mine) \subseteq B /\ sourceBBs(p, mine) \subseteq B
  BY <1>1, <1>2 DEF insBBs, sourceBBs, BlocksOf
<1> QED
  BY <1>4, <1>5 DEF B, Blocks

LEMMA PathBlocksLead ==
  ASSUME NEW g, IsFlow(g), NEW src \in BlocksIn(g), NEW dest, NEW domInter
  PROVE  /\ PathBlocks(g, src, dest, domInter) \in SUBSET BlocksIn(g)
         /\ \A x \in PathBlocks(g, src, dest, domInter) : x = dest \/ Succs(g, x) # {}
         /\ src = dest => src \in PathBlocks(g, src, dest, domInter)
<1> DEFINE r == Search(g, src, dest, domInter)
<1>1. /\ Range(r.path) \subseteq Leading(g, dest)
      /\ src = dest => r.keep /\ src \in Range(r.path)
  BY SearchLeads
<1>2. PathBlocks(g, src, dest, domInter) = IF r.keep THEN Range(r.path) ELSE {}
  BY DEF PathBlocks
<1> HIDE DEF r
<1> QED
  BY <1>1, <1>2 DEF Leading

LEMMA ConnectCollects ==
  ASSUME NEW p, WellFormed(p), IsFlow(p.cfg), NEW mine \in SUBSET Instrs(p), mine # {}
  PROVE  LET d     == CommonDominator(p.cfg, insBBs(p, mine) \cup sourceBBs(p, mine))
             start == Connect(p, mine, d)
         IN  /\ start \in SUBSET BlocksIn(p.cfg) /\ d \in start
             /\ Real(p, mine) \subseteq start
             /\ \A x \in start : Succs(p.cfg, x) = {} => x \in Real(p, mine)
<1> DEFINE g == p.cfg
           B == BlocksIn(g)
           real == insBBs(p, mine) \cup sourceBBs(p, mine)
           phis == PhiOwners(p, mine)
           d == CommonDominator(g, real)
           P(src, dest) == PathBlocks(g, src, dest, d)
           start == Connect(p, mine, d)
           fromEach == UNION {P(src, dest) : src \in real \cup {d}, dest \in real}
           around == UNION {UNION {P(s, b) : s \in Succs(g, b)} : b \in real \ {d}}
<1>1. IsCfg(g) /\ Connected(g)
  BY DEF IsFlow
<1>2. real \in SUBSET B /\ phis \in SUBSET B /\ real # {}
  <2>1. insBBs(p, mine) # {}
    BY DEF insBBs, BlocksOf
  <2> QED
    BY <2>1, RealAreBlocks
<1>3. start = {d} \cup fromEach \cup phis \cup around
  BY DEF Connect
<1>4. Real(p, mine) = real \cup phis
  BY DEF Real
<1> HIDE DEF real, phis, start
<1>5. d \in B /\ \A b \in real : d \in g.dom[b]
  <2>1. d \in Dominating(g, real)
    BY <1>1, <1>2, CommonDominatorIs
  <2> HIDE DEF d
  <2> QED
    BY <2>1 DEF Dominating
<1> HIDE DEF d
<1>6. \A src \in B : \A dest :
        /\ P(src, dest) \in SUBSET B
        /\ \A x \in P(src, dest) : x = dest \/ Succs(g, x) # {}
        /\ src = dest => src \in P(src, dest)
  BY PathBlocksLead
<1>7. \A b \in B : Succs(g, b) \subseteq B
  BY <1>1 DEF IsCfg
<1> HIDE DEF P
<1>8. \A x \in fromEach : x \in B /\ (x \in real \/ Succs(g, x) # {})
  BY <1>2, <1>5, <1>6
<1>9. real \subseteq fromEach
  <2> SUFFICES ASSUME NEW b \in real PROVE b \in fromEach
    OBVIOUS
  <2>1. b \in P(b, b)
    BY <1>2, <1>6
  <2> QED
    BY <2>1
<1>10. \A x \in around : x \in B /\ (x \in real \/ Succs(g, x) # {})
  BY <1>2, <1>6, <1>7
<1>11. ASSUME Succs(g, d) = {} PROVE d \in real
  <2>1. PICK b \in B : b \in real
    BY <1>2
  <2>2. b \in Reach(g, d) /\ d \in B
    BY <1>1, <1>5, <2>1, DominatorReaches
  <2>3. d = Exit(g) /\ Reach(g, d) = {d}
    BY <1>11, <2>2, ExitEnds
  <2> QED
    BY <2>1, <2>2, <2>3
<1> HIDE DEF fromEach, around
<1>12. start \in SUBSET B /\ d \in start
  BY <1>2, <1>3, <1>5, <1>8, <1>10
<1>13. Real(p, mine) \subseteq start
  BY <1>3, <1>4, <1>9
<1>14. \A x \in start : Succs(g, x) = {} => x \in Real(p, mine)
  BY <1>3, <1>4, <1>8, <1>10, <1>11
<1> QED
  BY <1>12, <1>13, <1>14 DEF start, d, real

LEMMA ListCollects ==
  ASSUME NEW p, WellFormed(p), IsFlow(p.cfg), NEW mine \in SUBSET Instrs(p), mine # {}, NEW cfDup \in BOOLEAN
  PROVE  LET bbs == generateBBList(p, mine, cfDup)
         IN  /\ Collected(p.cfg, Real(p, mine), bbs.all)
             /\ ~cfDup => Entered(p.cfg, bbs.all, bbs.dominator)
<1> DEFINE g == p.cfg
           B == BlocksIn(g)
           real == Real(p, mine)
           d == CommonDominator(g, insBBs(p, mine) \cup sourceBBs(p, mine))
           start == Connect(p, mine, d)
           a == AddPredecessors(g, start, d)
           bbs == generateBBList(p, mine, cfDup)
<1>1. IsCfg(g) /\ Connected(g)
  BY DEF IsFlow
<1>2. /\ start \in SUBSET B /\ d \in start /\ real \subseteq start
      /\ \A x \in start : Succs(g, x) = {} => x \in real
  BY ConnectCollects
<1>3. bbs = IF cfDup THEN WholeLoops(g, a) ELSE a
  BY DEF generateBBList
<1> HIDE DEF start, d, real
<1>4. /\ a \in Adding(g) /\ Entered(g, a.all, a.dominator) /\ start \subseteq a.all
      /\ \A b \in a.all \ start : Succs(g, b) # {}
  BY <1>1, <1>2, PredecessorsAdded
<1> HIDE DEF a, bbs
<1>5. /\ a.all \in SUBSET B /\ real \subseteq a.all
      /\ Exit(g) \in a.all => Exit(g) \in real
  <2>1. Succs(g, Exit(g)) = {} /\ Exit(g) \in B
    BY ExitEnds
  <2> QED
    BY <1>2, <1>4, <2>1 DEF Entered
<1>6. \A r \in B \ a.all : \A x \in a.all : x \in Reach(g, r) => a.all \subseteq Reach(g, r)
  BY <1>4, EnteredAgain
<1>7. CASE bbs = a
  BY <1>4, <1>5, <1>6, <1>7 DEF Collected, real, bbs
<1>8. CASE bbs # a
  <2> DEFINE all == UNION {CfgScc(g, b) : b \in a.all}
  <2>1. cfDup /\ bbs.all = all
    <3>1. \E c : WholeLoops(g, a) \in {a, [[a EXCEPT !.all = all] EXCEPT !.dominator = c]}
      BY DEF WholeLoops
    <3>2. DOMAIN a = {"all", "added", "dominator"}
      BY <1>4 DEF Adding
    <3> QED
      BY <1>3, <1>8, <3>1, <3>2
  <2>2. \A b \in a.all : b \in CfgScc(g, b) /\ \A c \in CfgScc(g, b) : c \in B /\ c \in Reach(g, b) /\ b \in Reach(g, c)
    BY <1>5, SccIs
  <2>3. \A c \in all : c \in B /\ \E b \in a.all : c \in Reach(g, b) /\ b \in Reach(g, c)
    BY <2>2
  <2>4. a.all \subseteq all
    BY <2>2
  <2> HIDE DEF all
  <2>5. ASSUME Exit(g) \in all PROVE Exit(g) \in real
    <3>1. PICK b \in a.all : b \in Reach(g, Exit(g))
      BY <2>3, <2>5
    <3>2. b = Exit(g)
      BY <3>1, ExitEnds
    <3> QED
      BY <1>5, <3>2
  <2>6. ASSUME NEW r \in B \ all, NEW x \in all, x \in Reach(g, r), NEW y \in all PROVE y \in Reach(g, r)
    <3>1. PICK b \in a.all : b \in Reach(g, x)
      BY <2>3
    <3>2. PICK c \in a.all : y \in Reach(g, c)
      BY <2>3
    <3>3. b \in Reach(g, r)
      BY <1>1, <2>6, <3>1, ReachTransitive
    <3>4. r \in B \ a.all
      BY <2>4
    <3>5. c \in Reach(g, r)
      BY <1>6, <3>3, <3>4
    <3> QED
      BY <1>1, <3>2, <3>5, ReachTransitive
  <2>7. Collected(g, real, all)
    BY <1>5, <2>3, <2>4, <2>5, <2>6 DEF Collected
  <2> QED
    BY <2>1, <2>7 DEF real, bbs
<1> QED
  BY <1>7, <1>8

-----------------------------------------------------------------------------
(* The blocks left *)

(* Every edge to s leads to the block k, kept or not collected. *)
LedTo(g, all, keepers, s, k) == NextKeepers(g, all, keepers, s) = {k}
KeptOf(g, all, keepers) == /\ all \in SUBSET BlocksIn(g) /\ keepers \subseteq all
                           /\ Exit(g) \in all => Exit(g) \in keepers

(* What is looked through ahead of s; the return is not passed over. *)
LEMMA AheadIs ==
  ASSUME NEW g, IsFlow(g), NEW all, NEW keepers, KeptOf(g, all, keepers), NEW s \in BlocksIn(g)
  PROVE  /\ s \in Ahead(g, all, keepers, s) /\ Ahead(g, all, keepers, s) \subseteq Reach(g, s)
         /\ \A x \in Ahead(g, all, keepers, s) :
              x \in BlocksIn(g) /\ (Kept(all, keepers, x) \/ Succs(g, x) \subseteq Ahead(g, all, keepers, s))
         /\ Kept(all, keepers, Exit(g))
         /\ NextKeepers(g, all, keepers, s) # {}
<1> DEFINE B == BlocksIn(g)
           Free(x) == ~Kept(all, keepers, x)
           next == [x \in B |-> IF Kept(all, keepers, x) THEN {} ELSE Succs(g, x)]
           F == Ahead(g, all, keepers, s)
           R == Reach(g, s)
<1>1. IsCfg(g)
  BY DEF IsFlow
<1>2. F = Closure(next, {s})
  BY DEF Ahead
<1>3. IsGraph(next, B) /\ {s} \in SUBSET B
  BY <1>1 DEF IsGraph, IsCfg
<1>4. \A x \in B : next[x] = IF Kept(all, keepers, x) THEN {} ELSE Succs(g, x)
  OBVIOUS
<1> HIDE DEF next
<1>5. F \in SUBSET B /\ s \in F /\ \A x \in F : next[x] \subseteq F
  <2> DEFINE S == {s}
  <2>1. S \in SUBSET B /\ s \in S
    OBVIOUS
  <2> HIDE DEF S, B
  <2>2. Closure(next, S) \in SUBSET B /\ S \subseteq Closure(next, S) /\ IsClosed(next, Closure(next, S))
    BY <1>3, <2>1, ClosureClosed
  <2>3. F = Closure(next, S)
    BY <1>2 DEF S
  <2> HIDE DEF F
  <2> QED
    BY <2>1, <2>2, <2>3 DEF IsClosed
<1>6. R \in SUBSET B /\ s \in R /\ \A x \in R : Succs(g, x) \subseteq R
  BY <1>1, ReachCloses
<1>7. F \subseteq R
  <2>1. {s} \subseteq R /\ IsClosed(next, R)
    BY <1>4, <1>6 DEF IsClosed
  <2> HIDE DEF R, B
  <2> QED
    BY <1>2, <1>3, <2>1, ClosureLeast
<1>8. \A x \in F : x \in B /\ (Kept(all, keepers, x) \/ Succs(g, x) \subseteq F)
  BY <1>4, <1>5
<1>9. Kept(all, keepers, Exit(g))
  BY DEF Kept, KeptOf
<1> HIDE DEF F
<1>10. ASSUME NextKeepers(g, all, keepers, s) = {} PROVE FALSE
  <2>1. \A x \in F : ~Kept(all, keepers, x)
    BY <1>10 DEF NextKeepers, F
  <2>2. s \in F /\ \A x \in F \cap B : Succs(g, x) \subseteq F
    BY <1>5, <1>8, <2>1
  <2>3. R \subseteq F
    BY <1>1, <2>2, ReachCloses
  <2>4. Exit(g) \in R
    BY ExitEnds
  <2> QED
    BY <1>9, <2>1, <2>3, <2>4
<1> QED
  BY <1>5, <1>7, <1>8, <1>9, <1>10 DEF F

(* What trimBBList leaves of the blocks collected.  Of its assertions only the one that *)
(* an edge leads to one block can fail.                                                 *)
LEMMA TrimLeaves ==
  ASSUME NEW p, WellFormed(p), IsFlow(p.cfg), NEW mine \in SUBSET Instrs(p),
         NEW bbs, Collected(p.cfg, Real(p, mine), bbs.all)
  PROVE  LET t == trimBBList(p, mine, bbs)
         IN  /\ KeptOf(p.cfg, bbs.all, t.all) /\ Real(p, mine) \subseteq t.all
             /\ t.dominator = bbs.dominator
             /\ t.failed \in {"", "diverges to multiple blocks"}
             /\ t.failed = "" => \A b \in t.all : \A s \in Succs(p.cfg, b) : LedTo(p.cfg, bbs.all, t.all, s, t.remap[s])
<1> DEFINE g == p.cfg
           B == BlocksIn(g)
           real == Real(p, mine)
           K == Keepers(g, bbs.all, real)
           t == trimBBList(p, mine, bbs)
           targets == UNION {Succs(g, b) : b \in K}
           Next4(s) == NextKeepers(g, bbs.all, K, s)
<1>1. IsCfg(g)
  BY DEF IsFlow
<1>2. /\ bbs.all \in SUBSET B /\ real \subseteq bbs.all
      /\ Exit(g) \in bbs.all => Exit(g) \in real
  BY DEF Collected
<1>3. real \subseteq K /\ K \subseteq bbs.all
  <2>1. IsFiniteSet(B) /\ real \in SUBSET B
    BY <1>1, <1>2 DEF IsCfg
  <2> HIDE DEF real
  <2>2. real \subseteq K /\ K \subseteq real \cup bbs.all
    BY <2>1, KeepersKeep
  <2> QED
    BY <1>2, <2>2
<1>4. /\ t.all = K /\ t.dominator = bbs.dominator
      /\ t.remap = [b \in targets |-> IF Next4(b) = {} THEN b ELSE CHOOSE x \in Next4(b) : TRUE]
      /\ t.failed = IF Exit(g) \in UNION {Ahead(g, bbs.all, K, b) : b \in targets} /\ ~Kept(bbs.all, K, Exit(g))
                    THEN "a terminator with no successor"
                    ELSE IF \E b \in targets : Cardinality(Next4(b)) > 1 THEN "diverges to multiple blocks"
                    ELSE IF \E b \in targets : Next4(b) = {} THEN "leads to no block"
                    ELSE IF ~(K \subseteq bbs.all) THEN "keeper is absent"
                    ELSE ""
  BY DEF trimBBList, Real
<1> HIDE DEF t, K, real
<1>5. KeptOf(g, bbs.all, K)
  BY <1>2, <1>3 DEF KeptOf
<1>6. targets \subseteq B
  BY <1>1, <1>2, <1>3 DEF IsCfg
<1>7. \A s \in targets : s \in Ahead(g, bbs.all, K, s) /\ Next4(s) # {} /\ Kept(bbs.all, K, Exit(g))
                         /\ \A x \in Ahead(g, bbs.all, K, s) : x \in B
  BY <1>5, <1>6, AheadIs
<1>8. \A s \in targets : Next4(s) \subseteq B
  BY <1>7 DEF NextKeepers
<1> HIDE DEF targets, Next4
<1>9. ~(Exit(g) \in UNION {Ahead(g, bbs.all, K, b) : b \in targets} /\ ~Kept(bbs.all, K, Exit(g)))
  BY <1>7
<1>10. t.failed = IF \E b \in targets : Cardinality(Next4(b)) > 1 THEN "diverges to multiple blocks" ELSE ""
  <2>1. ~\E b \in targets : Next4(b) = {}
    BY <1>7
  <2> QED
    BY <1>3, <1>4, <1>9, <2>1
<1>11. ASSUME t.failed = "", NEW s \in targets PROVE Next4(s) = {t.remap[s]}
  <2>1. ~(Cardinality(Next4(s)) > 1)
    BY <1>10, <1>11
  <2>2. IsFiniteSet(Next4(s)) /\ Next4(s) # {}
    BY <1>1, <1>7, <1>8, FS_Subset DEF IsCfg
  <2>3. Cardinality(Next4(s)) \in Nat /\ Cardinality(Next4(s)) # 0
    BY <2>2, FS_CardinalityType, FS_EmptySet
  <2>4. Cardinality(Next4(s)) = 1
    BY <2>1, <2>3
  <2>5. PICK k : Next4(s) = {k}
    BY <2>2, <2>4, FS_Singleton
  <2>6. t.remap[s] = CHOOSE x \in Next4(s) : TRUE
    BY <1>4, <1>11, <2>2
  <2> QED
    BY <2>5, <2>6
<1>12. ASSUME t.failed = "", NEW b \in K, NEW s \in Succs(g, b) PROVE LedTo(g, bbs.all, t.all, s, t.remap[s])
  <2>1. s \in targets
    BY DEF targets
  <2> QED
    BY <1>4, <1>11, <1>12, <2>1 DEF LedTo, Next4
<1>13. t.failed \in {"", "diverges to multiple blocks"}
  BY <1>10
<1> QED
  BY <1>3, <1>4, <1>5, <1>12, <1>13 DEF t, real

(* The first blocks kept on the ways from s. *)
FirstFrom(g, keepers, s) == keepers \cap ({s} \cup UNION {Succs(g, b) : b \in Flood(g, {s}, keepers)})

LEMMA FirstIs ==
  ASSUME NEW g, NEW keepers, NEW s, NEW x
  PROVE  x \in FirstFrom(g, keepers, s)
           <=> x \in keepers /\ (x = s \/ \E y \in Flood(g, {s}, keepers) : x \in Succs(g, y))
BY DEF FirstFrom

(* If it is a block kept that the ways from s lead to, it is the first one on all of *)
(* them, and none returns before.                                                    *)
LEMMA LedToKept ==
  ASSUME NEW g, IsFlow(g), NEW all, NEW keepers, KeptOf(g, all, keepers), NEW s \in BlocksIn(g),
         NEW k \in keepers, LedTo(g, all, keepers, s, k)
  PROVE  FirstFrom(g, keepers, s) = {k} /\ Exit(g) \notin Flood(g, {s}, keepers)
<1> DEFINE B == BlocksIn(g)
           A == Ahead(g, all, keepers, s)
           F == Flood(g, {s}, keepers)
           First == FirstFrom(g, keepers, s)
<1>1. IsCfg(g) /\ {s} \in SUBSET B
  BY DEF IsFlow
<1>2. /\ s \in A
      /\ \A x \in A : x \in B /\ (Kept(all, keepers, x) \/ Succs(g, x) \subseteq A)
      /\ Kept(all, keepers, Exit(g))
  BY AheadIs
<1>3. {x \in A : Kept(all, keepers, x)} = {k}
  BY DEF LedTo, NextKeepers
<1>4. F \in SUBSET B /\ F \cap keepers = {} /\ {s} \ keepers \subseteq F
      /\ \A x \in F : Succs(g, x) \ keepers \subseteq F
  BY <1>1, FloodReaches DEF Floods
<1>5. \A T : Floods(g, {s}, keepers, T) => F \subseteq T
  BY <1>1, FloodLeast
<1>6. \A x : x \in First <=> x \in keepers /\ (x = s \/ \E y \in F : x \in Succs(g, y))
  BY FirstIs
<1> HIDE DEF A, F, First
<1>7. \A x \in A : x \in keepers => x = k
  BY <1>3 DEF Kept
<1>8. F \subseteq {x \in A : ~Kept(all, keepers, x)}
  <2> DEFINE T == {x \in A : ~Kept(all, keepers, x)}
  <2>1. Floods(g, {s}, keepers, T)
    BY <1>2, <1>3 DEF Floods, Kept
  <2> HIDE DEF T
  <2>2. F \subseteq T
    BY <1>5, <2>1
  <2> QED
    BY <2>2 DEF T
<1>9. First \subseteq {k}
  BY <1>2, <1>6, <1>7, <1>8
<1>10. First # {}
  <2> SUFFICES ASSUME First = {} PROVE FALSE
    OBVIOUS
  <2>1. s \in F /\ \A x \in F \cap B : Succs(g, x) \subseteq F
    BY <1>4, <1>6
  <2>2. Reach(g, s) \subseteq F
    BY <1>1, <2>1, ReachCloses
  <2>3. Exit(g) \in Reach(g, s)
    BY ExitEnds
  <2> QED
    BY <1>2, <1>8, <2>2, <2>3
<1>11. Exit(g) \notin F
  BY <1>2, <1>8
<1> QED
  BY <1>9, <1>10, <1>11 DEF First, F

(* Otherwise it leads out of the blocks collected: what is met later is met behind it. *)
LEMMA LedOut ==
  ASSUME NEW g, IsFlow(g), NEW all, NEW keepers, KeptOf(g, all, keepers), NEW s \in BlocksIn(g),
         NEW k, k \notin keepers, LedTo(g, all, keepers, s, k)
  PROVE  /\ k \in BlocksIn(g) \ all /\ k \in Reach(g, s)
         /\ FirstFrom(g, keepers, s) \subseteq Reach(g, k)
         /\ \A d \in keepers : Entered(g, all, d) => FirstFrom(g, keepers, s) \subseteq {d}
<1> DEFINE B == BlocksIn(g)
           A == Ahead(g, all, keepers, s)
           F == Flood(g, {s}, keepers)
           First == FirstFrom(g, keepers, s)
<1>1. IsCfg(g) /\ {s} \in SUBSET B
  BY DEF IsFlow
<1>2. /\ s \in A /\ A \subseteq Reach(g, s)
      /\ \A x \in A : x \in B /\ (Kept(all, keepers, x) \/ Succs(g, x) \subseteq A)
  BY AheadIs
<1>3. {x \in A : Kept(all, keepers, x)} = {k}
  BY DEF LedTo, NextKeepers
<1>4. k \in B \ all /\ k \in A /\ k \in Reach(g, s)
  BY <1>2, <1>3 DEF Kept
<1>5. \A x \in A : x \notin keepers /\ (Kept(all, keepers, x) => x = k)
  BY <1>3 DEF Kept
<1>6. \A x : x \in First <=> x \in keepers /\ (x = s \/ \E y \in F : x \in Succs(g, y))
  BY FirstIs
<1>7. k \in Reach(g, k) /\ \A x \in Reach(g, k) : Succs(g, x) \subseteq Reach(g, k)
  BY <1>1, <1>4, ReachCloses
<1>8. \A T : Floods(g, {s}, keepers, T) => F \subseteq T
  BY <1>1, FloodLeast
<1>9. F \in SUBSET B /\ F \cap keepers = {}
  BY <1>1, FloodReaches
<1>10. \A b \in B : Succs(g, b) \subseteq B
  BY <1>1 DEF IsCfg
<1> HIDE DEF A, F, First
<1>11. First \subseteq Reach(g, k)
  <2> DEFINE T == A \cup Reach(g, k)
  <2>1. Floods(g, {s}, keepers, T)
    BY <1>2, <1>5, <1>7 DEF Floods
  <2>2. F \subseteq T
    BY <1>8, <2>1
  <2> QED
    BY <1>2, <1>5, <1>6, <1>7, <2>2
<1>12. ASSUME NEW d \in keepers, Entered(g, all, d), NEW x \in First PROVE x = d
  <2> SUFFICES ASSUME x # d PROVE FALSE
    OBVIOUS
  <2> DEFINE T == A \cup (B \ all)
  <2>1. \A b \in all \ {d} : Preds(g, b) \subseteq all
    BY <1>12 DEF Entered, KeptOf
  <2>2. \A b \in B : \A z \in Succs(g, b) : b \in Preds(g, z)
    BY DEF Preds, PredsIn, BlocksIn, Succs
  <2>3. \A b \in B \ all : \A z \in Succs(g, b) : z \notin keepers => z \in B \ all
    BY <1>10, <1>12, <2>1, <2>2
  <2>4. Floods(g, {s}, keepers, T)
    BY <1>2, <1>4, <1>5, <2>3 DEF Floods
  <2>5. F \subseteq T
    BY <1>8, <2>4
  <2>6. PICK y \in F : x \in Succs(g, y)
    BY <1>2, <1>5, <1>6, <1>12
  <2>7. x \in keepers /\ x \in all
    BY <1>6, <1>12 DEF KeptOf
  <2>8. y \in all
    BY <1>9, <2>1, <2>2, <2>6, <2>7
  <2>9. y \in A /\ ~Kept(all, keepers, y)
    BY <1>4, <1>5, <1>9, <2>5, <2>6, <2>8
  <2> QED
    BY <1>2, <1>5, <2>6, <2>7, <2>9
<1> QED
  BY <1>4, <1>11, <1>12 DEF First

-----------------------------------------------------------------------------
(* A partition whose checks hold *)

(* all being the blocks collected for it. *)
Shaped(g, all, bbs, cfDup) ==
  /\ KeptOf(g, all, bbs.all)
  /\ \A r \in BlocksIn(g) \ all : \A x \in all : x \in Reach(g, r) => all \subseteq Reach(g, r)
  /\ bbs.dominator \in bbs.all /\ \A b \in bbs.all : bbs.dominator \in g.dom[b]
  /\ ~cfDup => Entered(g, all, bbs.dominator)
  /\ \A b \in bbs.all : \A s \in Succs(g, b) :
       /\ LedTo(g, all, bbs.all, s, bbs.remap[s])
       /\ cfDup /\ bbs.remap[s] \notin bbs.all => LoopDepth(g, bbs.remap[s]) = 0

LEMMA SetUpShapes ==
  ASSUME NEW p, WellFormed(p), IsFlow(p.cfg), NEW mine \in SUBSET Instrs(p), NEW cfDup \in BOOLEAN
  PROVE  LET bbs == setupBBStructure(p, mine, cfDup)
         IN  /\ bbs.failed \notin {"a terminator with no successor", "leads to no block", "keeper is absent"}
             /\ bbs.failed = "" => /\ Real(p, mine) \subseteq bbs.all
                                   /\ \E all : Shaped(p.cfg, all, bbs, cfDup)
<1> DEFINE g == p.cfg
           B == BlocksIn(g)
           list == generateBBList(p, mine, cfDup)
           t == trimBBList(p, mine, list)
           dominates == checkDominator(g, t)
           exits == cfDup /\ ~allExitOutsideLoop(g, t)
           check == IF t.failed # "" THEN t.failed
                    ELSE IF dominates # "" THEN dominates
                    ELSE IF exits THEN "fans out inside a loop"
                    ELSE ""
           bbs == setupBBStructure(p, mine, cfDup)
<1>1. IsCfg(g) /\ Connected(g)
  BY DEF IsFlow
<1>2. bbs = [t EXCEPT !.failed = check]
  BY DEF setupBBStructure
<1>3. DOMAIN t = {"all", "dominator", "remap", "singleSuc", "failed"}
  BY DEF trimBBList
<1>4. dominates = LET dom == CommonDominator(g, t.all)
                  IN  IF dom \notin t.all THEN "dominator not in the bb list"
                      ELSE IF dom # t.dominator THEN "dominator does not match" ELSE ""
  BY DEF checkDominator
<1>5. ~exits => (cfDup => \A b \in t.all : \A s \in Succs(g, b) :
                        t.remap[s] \notin t.all => LoopDepth(g, t.remap[s]) = 0)
  BY DEF allExitOutsideLoop
<1>6. CASE mine = {}
  <2> DEFINE K == Keepers(g, list.all, {})
  <2>1. Real(p, mine) = {}
    BY <1>6 DEF Real, insBBs, sourceBBs, BlocksOf, Operands, PhiOwners, Incoming
  <2>2. K = {}
    <3>1. IsFiniteSet(B) /\ {} \in SUBSET B
      BY <1>1 DEF IsCfg
    <3> QED
      BY <3>1, KeepersKeep
  <2>3. t.all = K /\ t.failed = IF Exit(g) \in UNION {Ahead(g, list.all, K, b) : b \in UNION {Succs(g, b) : b \in K}} /\ ~Kept(list.all, K, Exit(g))
                     THEN "a terminator with no successor"
                     ELSE IF \E b \in UNION {Succs(g, b) : b \in K} : Cardinality(NextKeepers(g, list.all, K, b)) > 1 THEN "diverges to multiple blocks"
                     ELSE IF \E b \in UNION {Succs(g, b) : b \in K} : NextKeepers(g, list.all, K, b) = {} THEN "leads to no block"
                     ELSE IF ~(K \subseteq list.all) THEN "keeper is absent"
                     ELSE ""
    BY <2>1 DEF trimBBList, Real
  <2> HIDE DEF K, t
  <2>4. t.all = {} /\ t.failed = ""
    BY <2>2, <2>3
  <2>5. dominates = "dominator not in the bb list"
    BY <1>4, <2>4
  <2> HIDE DEF dominates, exits, bbs
  <2>6. bbs.failed = "dominator not in the bb list"
    BY <1>2, <1>3, <2>4, <2>5
  <2> QED
    BY <2>6 DEF bbs
<1>7. CASE mine # {}
  <2>1. Collected(g, Real(p, mine), list.all) /\ (~cfDup => Entered(g, list.all, list.dominator))
    BY <1>7, ListCollects
  <2> HIDE DEF list
  <2>2. /\ KeptOf(g, list.all, t.all) /\ Real(p, mine) \subseteq t.all
        /\ t.dominator = list.dominator
        /\ t.failed \in {"", "diverges to multiple blocks"}
        /\ t.failed = "" => \A b \in t.all : \A s \in Succs(g, b) : LedTo(g, list.all, t.all, s, t.remap[s])
    BY <2>1, TrimLeaves
  <2> HIDE DEF t
  <2>3. dominates \in {"dominator not in the bb list", "dominator does not match", ""}
    BY <1>4
  <2>4. dominates = "" => CommonDominator(g, t.all) \in t.all /\ CommonDominator(g, t.all) = t.dominator
    BY <1>4
  <2> HIDE DEF dominates, exits
  <2>5. /\ check \notin {"a terminator with no successor", "leads to no block", "keeper is absent"}
        /\ check = "" => t.failed = "" /\ dominates = "" /\ ~exits
    BY <2>2, <2>3
  <2> HIDE DEF check, bbs
  <2>6. bbs.failed = check /\ bbs.all = t.all /\ bbs.dominator = t.dominator /\ bbs.remap = t.remap
    BY <1>2, <1>3
  <2>7. ASSUME check = "" PROVE Shaped(g, list.all, bbs, cfDup)
    <3>1. t.all \in SUBSET B
      BY <2>2 DEF KeptOf
    <3>2. \A b \in t.all : t.dominator \in g.dom[b]
      <4>1. t.all # {} /\ t.dominator = CommonDominator(g, t.all)
        BY <2>4, <2>5, <2>7
      <4>2. t.dominator \in Dominating(g, t.all)
        BY <1>1, <3>1, <4>1, CommonDominatorIs
      <4> QED
        BY <4>2 DEF Dominating
    <3>3. t.dominator \in t.all
      BY <2>4, <2>5, <2>7
    <3>4. \A r \in B \ list.all : \A x \in list.all : x \in Reach(g, r) => list.all \subseteq Reach(g, r)
      BY <2>1 DEF Collected
    <3> QED
      BY <1>5, <2>1, <2>2, <2>5, <2>6, <2>7, <3>2, <3>3, <3>4 DEF Shaped
  <2>8. /\ bbs.failed \notin {"a terminator with no successor", "leads to no block", "keeper is absent"}
        /\ bbs.failed = "" => /\ Real(p, mine) \subseteq bbs.all
                              /\ \E all : Shaped(g, all, bbs, cfDup)
    BY <2>2, <2>5, <2>6, <2>7
  <2> QED
    BY <2>8 DEF bbs
<1> QED
  BY <1>6, <1>7

(* Where control leaves it and comes back, it starts in a loop that the function knows *)
(* it has to run.                                                                      *)
LEMMA ComesBack ==
  ASSUME NEW g, IsFlow(g), CyclesAreLoops(g), NEW all, NEW bbs, NEW cfDup \in BOOLEAN,
         Shaped(g, all, bbs, cfDup),
         NEW b \in bbs.all, NEW s \in Succs(g, b), bbs.remap[s] \notin bbs.all,
         NEW x \in bbs.all, x \in Reach(g, bbs.remap[s])
  PROVE  ~cfDup /\ LoopDepth(g, bbs.dominator) # 0
<1> DEFINE B == BlocksIn(g)
           r == bbs.remap[s]
           d == bbs.dominator
<1>1. IsCfg(g) /\ Connected(g)
  BY DEF IsFlow
<1>2. /\ KeptOf(g, all, bbs.all) /\ LedTo(g, all, bbs.all, s, r)
      /\ \A y \in B \ all : \A z \in all : z \in Reach(g, y) => all \subseteq Reach(g, y)
      /\ d \in bbs.all /\ d \in g.dom[b]
      /\ cfDup => LoopDepth(g, r) = 0
  BY DEF Shaped
<1>3. bbs.all \subseteq all /\ all \subseteq B
  BY <1>2 DEF KeptOf
<1>4. b \in B /\ s \in B /\ d \in B
  BY <1>1, <1>2, <1>3 DEF IsCfg
<1> HIDE DEF r, d
<1>5. r \in B \ all /\ r \in Reach(g, s)
  <2>1. r \notin bbs.all
    BY DEF r
  <2> QED
    BY <1>2, <1>4, <2>1, LedOut
<1>6. all \subseteq Reach(g, r)
  BY <1>2, <1>3, <1>5 DEF r
<1>7. Cyclic(g, r) /\ LoopDepth(g, r) # 0
  <2>1. b \in Reach(g, r)
    BY <1>3, <1>6
  <2>2. Cyclic(g, r)
    BY <1>1, <1>4, <1>5, <2>1, OnCycle
  <2> QED
    BY <1>5, <2>2 DEF CyclesAreLoops, Cyclic
<1>8. Cyclic(g, d) /\ LoopDepth(g, d) # 0
  <2>1. d \in Reach(g, r)
    BY <1>2, <1>3, <1>6
  <2>2. d \in Reach(g, s)
    BY <1>1, <1>4, <1>5, <2>1, ReachTransitive
  <2>3. b \in Reach(g, d)
    BY <1>1, <1>2, <1>4, DominatorReaches
  <2>4. Cyclic(g, d)
    BY <1>1, <1>4, <2>2, <2>3, OnCycle
  <2> QED
    BY <1>4, <2>4 DEF CyclesAreLoops, Cyclic
<1> QED
  BY <1>2, <1>7, <1>8 DEF d

(* The blocks kept are entered where the new function starts. *)
LEMMA StartsFirst ==
  ASSUME NEW g, IsFlow(g), NEW keepers \in SUBSET BlocksIn(g), NEW d \in keepers,
         \A b \in keepers : d \in g.dom[b]
  PROVE  FirstFrom(g, keepers, 1) = {d}
<1> DEFINE B == BlocksIn(g)
           F == Flood(g, {1}, keepers)
           U == Flood(g, {1}, {d})
           First == FirstFrom(g, keepers, 1)
<1>1. IsCfg(g) /\ Connected(g)
  BY DEF IsFlow
<1>2. {1} \in SUBSET B
  BY <1>1 DEF IsCfg
<1>3. F \in SUBSET B /\ Floods(g, {1}, keepers, F) /\ F \cap keepers = {}
  BY <1>1, <1>2, FloodReaches
<1>4. Floods(g, {1}, {d}, U)
  BY <1>1, <1>2, FloodReaches
<1>5. F \subseteq U
  <2>1. Floods(g, {1}, keepers, U)
    BY <1>4 DEF Floods
  <2> QED
    BY <1>1, <1>2, <2>1, FloodLeast
<1>6. \A b \in keepers : b \notin U
  BY <1>1, DominatesIs
<1>7. \A x : x \in First <=> x \in keepers /\ (x = 1 \/ \E y \in F : x \in Succs(g, y))
  BY FirstIs
<1>8. Reach(g, 1) = B
  <2>1. 1 \in B
    BY <1>2
  <2>2. Reach(g, 1) \in SUBSET B
    BY <1>1, <2>1, ReachCloses
  <2>3. \A b \in B : b \in Reach(g, 1)
    BY ExitEnds
  <2> QED
    BY <2>2, <2>3
<1> HIDE DEF F, U, First
<1>9. First \subseteq {d}
  BY <1>4, <1>5, <1>6, <1>7 DEF Floods
<1>10. First # {}
  <2> SUFFICES ASSUME First = {} PROVE FALSE
    OBVIOUS
  <2>1. 1 \in F /\ \A x \in F \cap B : Succs(g, x) \subseteq F
    BY <1>3, <1>7 DEF Floods
  <2>2. Reach(g, 1) \subseteq F
    BY <1>1, <1>2, <2>1, ReachCloses
  <2> QED
    BY <1>3, <1>8, <2>2
<1> QED
  BY <1>9, <1>10 DEF First

(* The new function gets from block to block as the original does. *)
TracesOriginal(p, bbs, cfDup) ==
  /\ FirstFrom(p.cfg, bbs.all, 1) = {bbs.dominator}
  /\ \A b \in bbs.all : \A s \in Succs(p.cfg, b) :
       IF bbs.remap[s] \in bbs.all
       THEN /\ FirstFrom(p.cfg, bbs.all, s) = {bbs.remap[s]}
            /\ Exit(p.cfg) \notin Flood(p.cfg, {s}, bbs.all)
       ELSE FirstFrom(p.cfg, bbs.all, s) \subseteq (IF LoopsBack(p, bbs, cfDup) THEN {bbs.dominator} ELSE {})

LEMMA TraceFollowed ==
  ASSUME NEW p, IsFlow(p.cfg), CyclesAreLoops(p.cfg), NEW all, NEW bbs, NEW cfDup \in BOOLEAN,
         Shaped(p.cfg, all, bbs, cfDup)
  PROVE  TracesOriginal(p, bbs, cfDup)
<1> DEFINE g == p.cfg
           B == BlocksIn(g)
           K == bbs.all
           d == bbs.dominator
<1>1. IsCfg(g) /\ Connected(g)
  BY DEF IsFlow
<1>2. /\ KeptOf(g, all, K) /\ d \in K /\ \A b \in K : d \in g.dom[b]
      /\ ~cfDup => Entered(g, all, d)
      /\ \A b \in K : \A s \in Succs(g, b) : LedTo(g, all, K, s, bbs.remap[s])
  BY DEF Shaped
<1>3. K \in SUBSET B
  BY <1>2 DEF KeptOf
<1>4. FirstFrom(g, K, 1) = {d}
  BY <1>2, <1>3, StartsFirst
<1>5. ASSUME NEW b \in K, NEW s \in Succs(g, b)
      PROVE  IF bbs.remap[s] \in K
             THEN FirstFrom(g, K, s) = {bbs.remap[s]} /\ Exit(g) \notin Flood(g, {s}, K)
             ELSE FirstFrom(g, K, s) \subseteq (IF LoopsBack(p, bbs, cfDup) THEN {d} ELSE {})
  <2> DEFINE r == bbs.remap[s]
  <2>1. s \in B /\ LedTo(g, all, K, s, r)
    BY <1>1, <1>2, <1>3 DEF IsCfg
  <2>2. CASE r \in K
    BY <1>2, <2>1, <2>2, LedToKept
  <2>3. CASE r \notin K
    <3>1. /\ FirstFrom(g, K, s) \subseteq Reach(g, r)
          /\ \A e \in K : Entered(g, all, e) => FirstFrom(g, K, s) \subseteq {e}
      <4> HIDE DEF r, K
      <4> QED
        BY <1>2, <2>1, <2>3, LedOut
    <3>2. ASSUME NEW x \in FirstFrom(g, K, s) PROVE LoopsBack(p, bbs, cfDup) /\ x = d
      <4>1. x \in K
        BY FirstIs
      <4>2. ~cfDup /\ LoopDepth(g, d) # 0
        BY <2>3, <3>1, <3>2, <4>1, ComesBack
      <4>3. r \in OutsideBBs(p, bbs)
        BY <2>3 DEF OutsideBBs
      <4>4. LoopsBack(p, bbs, cfDup)
        BY <4>2, <4>3 DEF LoopsBack
      <4> QED
        BY <1>2, <3>1, <3>2, <4>2, <4>4
    <3> QED
      BY <2>3, <3>2
  <2> QED
    BY <2>2, <2>3
<1> QED
  BY <1>4, <1>5 DEF TracesOriginal

(* None of the assertions met while its function is created fails. *)
LEMMA CreatesAll ==
  ASSUME NEW p, IsFlow(p.cfg), CyclesAreLoops(p.cfg), NEW all, NEW bbs, NEW cfDup \in BOOLEAN,
         Shaped(p.cfg, all, bbs, cfDup), NEW mine, Real(p, mine) \subseteq bbs.all
  PROVE  createFailure(p, mine, bbs, cfDup) = "" /\ phiFailure(p, mine, bbs) = ""
<1> DEFINE g == p.cfg
           B == BlocksIn(g)
           K == bbs.all
           d == bbs.dominator
           out == OutsideBBs(p, bbs)
           F(s) == Flood(g, {s}, K)
<1>1. IsCfg(g)
  BY DEF IsFlow
<1>2. /\ KeptOf(g, all, K) /\ d \in K
      /\ \A b \in K : \A s \in Succs(g, b) : LedTo(g, all, K, s, bbs.remap[s])
  BY DEF Shaped
<1>3. K \subseteq B /\ \A b \in K : \A s \in Succs(g, b) : s \in B
  BY <1>1, <1>2 DEF KeptOf, IsCfg
<1>4. phiFailure(p, mine, bbs) = ""
  BY DEF phiFailure, Real, PhiOwners
<1>5. \A r \in out : \E b \in K : \E s \in Succs(g, b) : r = bbs.remap[s] /\ r \notin K
  BY DEF OutsideBBs
<1>6. hasReturn(p, mine) => Exit(g) \in K
  <2> SUFFICES ASSUME NEW i \in mine, IsReturn(p, i) PROVE Exit(g) \in K
    BY DEF hasReturn
  <2>1. Exit(g) = BlockOf(p, i)
    BY DEF IsReturn
  <2> QED
    BY <2>1 DEF Real, insBBs, BlocksOf
<1>7. ASSUME hasReturn(p, mine), out # {} PROVE LoopsBack(p, bbs, cfDup)
  <2>1. PICK b \in K : \E s \in Succs(g, b) : bbs.remap[s] \notin K
    BY <1>5, <1>7
  <2>2. PICK s \in Succs(g, b) : bbs.remap[s] \notin K
    BY <2>1
  <2> DEFINE r == bbs.remap[s]
  <2>3. r \in B
    <3> HIDE DEF r, K
    <3>1. LedTo(g, all, K, s, r) /\ r \notin K /\ s \in B
      BY <1>2, <1>3, <2>2 DEF r
    <3> QED
      BY <1>2, <3>1, LedOut
  <2>4. Exit(g) \in Reach(g, r)
    BY <2>3, ExitEnds
  <2>5. ~cfDup /\ LoopDepth(g, d) # 0
    BY <1>6, <1>7, <2>2, <2>4, ComesBack
  <2> QED
    BY <1>7, <2>5 DEF LoopsBack
<1>8. ASSUME out = {} PROVE Exit(g) \in K
  <2> SUFFICES ASSUME Exit(g) \notin K PROVE FALSE
    OBVIOUS
  <2> DEFINE T == K \cup UNION {UNION {F(s) : s \in Succs(g, b)} : b \in K}
  <2>1. ASSUME NEW b \in K, NEW s \in Succs(g, b)
        PROVE  /\ FirstFrom(g, K, s) \subseteq K /\ Exit(g) \notin F(s)
               /\ {s} \ K \subseteq F(s) /\ \A x \in F(s) : Succs(g, x) \subseteq F(s) \cup K
    <3>1. bbs.remap[s] \in K
      BY <1>8 DEF OutsideBBs
    <3>2. s \in B /\ LedTo(g, all, K, s, bbs.remap[s]) /\ {s} \in SUBSET B
      BY <1>2, <1>3
    <3>3. Exit(g) \notin F(s)
      <4> HIDE DEF K
      <4> QED
        BY <1>2, <3>1, <3>2, LedToKept
    <3>4. Floods(g, {s}, K, F(s))
      BY <1>1, <3>2, FloodReaches
    <3> QED
      BY <3>3, <3>4 DEF Floods, FirstFrom
  <2> HIDE DEF F
  <2>2. d \in T /\ \A x \in T \cap B : Succs(g, x) \subseteq T
    <3> SUFFICES ASSUME NEW x \in T, NEW z \in Succs(g, x) PROVE z \in T
      BY <1>2
    <3>1. CASE x \in K
      BY <2>1, <3>1
    <3>2. CASE x \notin K
      <4>1. PICK b \in K : \E s \in Succs(g, b) : x \in F(s)
        BY <3>2
      <4>2. PICK s \in Succs(g, b) : x \in F(s)
        BY <4>1
      <4>3. z \in F(s) \cup K
        BY <2>1, <4>2
      <4> QED
        BY <4>2, <4>3
    <3> QED
      BY <3>1, <3>2
  <2>3. Exit(g) \notin T
    BY <2>1
  <2> HIDE DEF T
  <2>4. Reach(g, d) \subseteq T
    BY <1>1, <1>2, <1>3, <2>2, ReachCloses
  <2>5. Exit(g) \in Reach(g, d)
    BY <1>2, <1>3, ExitEnds
  <2> QED
    BY <2>3, <2>4, <2>5
<1>9. createFailure(p, mine, bbs, cfDup) = ""
  <2> HIDE DEF out, K
  <2> QED
    BY <1>7, <1>8 DEF createFailure, out, K
<1> QED
  BY <1>4, <1>9

-----------------------------------------------------------------------------
(* The order of generation *)

(* The graph of a program a pass is given. *)
LEMMA ProgramCfg ==
  ASSUME NEW p, WellFormed(p), Connected(p.cfg)
  PROVE  IsCfg(p.cfg) /\ Blocks(p) = BlocksIn(p.cfg)
<1> DEFINE B == Blocks(p)
<1>1. p.cfg.succ \in Seq(Seq(B)) /\ B = DOMAIN p.cfg.succ
  BY DEF WellFormed, Blocks, BlocksIn
<1>6. B = BlocksIn(p.cfg)
  BY DEF Blocks
<1>2. B = 1 .. Len(p.cfg.succ) /\ Len(p.cfg.succ) \in Nat
  <2> HIDE DEF B
  <2> QED
    BY <1>1
<1>3. IsFiniteSet(B)
  BY <1>2, FS_Interval
<1>4. 1 \in B
  <2>1. B # {}
    BY <1>6 DEF Connected
  <2> QED
    BY <1>2, <2>1
<1>5. ASSUME NEW b \in B PROVE Succs(p.cfg, b) \subseteq B
  <2>1. p.cfg.succ[b] \in Seq(B)
    <3> HIDE DEF B
    <3> QED
      BY <1>1
  <2>2. Range(p.cfg.succ[b]) \subseteq B
    <3> HIDE DEF B
    <3> QED
      BY <2>1 DEF Range
  <2> QED
    BY <2>2 DEF Succs, SuccsIn
<1> QED
  BY <1>3, <1>4, <1>5, <1>6 DEF IsCfg

(* The instructions that come before i on every path to it. *)
Earlier(p, i) ==
  {j \in Instrs(p) : IF BlockOf(p, j) = BlockOf(p, i) THEN j < i
                     ELSE BlockOf(p, j) \in p.cfg.dom[BlockOf(p, i)]}

(* Ranks: one that comes before i has fewer before itself. *)
LEMMA EarlierRanks ==
  ASSUME NEW p, WellFormed(p), Connected(p.cfg)
  PROVE  \E rank \in [Instrs(p) -> 0 .. Cardinality(Instrs(p))] :
           \A i \in Instrs(p) : \A j \in Earlier(p, i) : rank[j] < rank[i]
<1> DEFINE I == Instrs(p)
           E(i) == Earlier(p, i)
           rank == [i \in I |-> Cardinality(E(i))]
<1>1. IsFiniteSet(I) /\ I \in SUBSET Nat /\ \A i \in I : BlockOf(p, i) \in BlocksIn(p.cfg)
  BY ProgramType, ProgramCfg
<1>2. ASSUME NEW i \in I
      PROVE  IsFiniteSet(E(i)) /\ Cardinality(E(i)) \in 0 .. Cardinality(I)
  <2>1. E(i) \in SUBSET I
    BY DEF Earlier
  <2> QED
    BY <1>1, <2>1, FS_Subset, FS_CardinalityType
<1>3. ASSUME NEW i \in I, NEW j \in E(i) PROVE rank[j] < rank[i]
  <2>1. j \in I
    BY DEF Earlier
  <2>2. ASSUME NEW k \in E(j) PROVE k \in E(i)
    <3> DEFINE bi == BlockOf(p, i)
               bj == BlockOf(p, j)
               bk == BlockOf(p, k)
    <3>1. k \in I
      BY <2>2 DEF Earlier
    <3>2. bi \in BlocksIn(p.cfg) /\ bj \in BlocksIn(p.cfg) /\ bk \in BlocksIn(p.cfg)
      BY <1>1, <2>1, <3>1
    <3>3. /\ IF bj = bi THEN j < i ELSE bj \in p.cfg.dom[bi]
          /\ IF bk = bj THEN k < j ELSE bk \in p.cfg.dom[bj]
      BY <1>3, <2>2 DEF Earlier
    <3>4. IF bk = bi THEN k < i ELSE bk \in p.cfg.dom[bi]
      <4>1. CASE bj = bi /\ bk = bj
        BY <1>1, <2>1, <3>1, <3>3, <4>1
      <4>2. CASE bj = bi /\ bk # bj
        BY <3>3, <4>2
      <4>3. CASE bj # bi /\ bk = bj
        BY <3>3, <4>3
      <4>4. CASE bj # bi /\ bk # bj
        <5>1. bk \in p.cfg.dom[bi] /\ bk # bi
          BY <3>2, <3>3, <4>4, ProgramCfg, DominanceOrders
        <5> QED
          BY <5>1
      <4> QED
        BY <4>1, <4>2, <4>3, <4>4
    <3> QED
      BY <3>1, <3>4 DEF Earlier
  <2>3. j \notin E(j)
    <3>1. ~ (j < j)
      BY <1>1, <2>1
    <3> QED
      BY <3>1 DEF Earlier
  <2>4. E(j) \subseteq E(i) /\ E(j) # E(i)
    BY <1>3, <2>2, <2>3
  <2> HIDE DEF E
  <2>5. Cardinality(E(j)) < Cardinality(E(i))
    BY <1>2, <2>1, <2>4, FS_Subset
  <2> QED
    BY <2>1, <2>5
<1>4. rank \in [I -> 0 .. Cardinality(I)]
  BY <1>2
<1> HIDE DEF rank
<1> QED
  BY <1>3, <1>4

(* What an instruction is generated after, ... *)
Needs(p, j) == IF p.code[j].kind = "phi" THEN <<>> ELSE p.code[j].args

LEMMA NeedsEarlier ==
  ASSUME NEW p, WellFormed(p), NEW j \in Instrs(p)
  PROVE  /\ Needs(p, j) \in Seq(Instrs(p))
         /\ \A n \in 1 .. Len(Needs(p, j)) : /\ Needs(p, j)[n] \in Instrs(p)
                                             /\ Needs(p, j)[n] \in Range(p.code[j].args)
                                             /\ Needs(p, j)[n] \in Earlier(p, j)
<1> DEFINE I == Instrs(p)
           Ins == [bb : Blocks(p), kind : {"mem", "mul", "cast", "op", "phi", "term", "void"},
                   args : Seq(I), ptr : {0} \cup I]
           args == p.code[j].args
<1>1. p.code \in Seq(Ins) /\ I = DOMAIN p.code
  BY DEF WellFormed, Instrs
<1>2. p.code[j] \in Ins
  <2> HIDE DEF Ins, I
  <2> QED
    BY <1>1 DEF I
<1>3. args \in Seq(I)
  <2> HIDE DEF I
  <2> QED
    BY <1>2
<1>4. p.code[j].kind # "phi" => \A i \in Range(args) :
         IF BlockOf(p, i) = BlockOf(p, j) THEN i < j ELSE BlockOf(p, i) \in p.cfg.dom[BlockOf(p, j)]
  BY DEF WellFormed
<1> HIDE DEF I, args
<1>5. \A n \in 1 .. Len(args) : args[n] \in Range(args) /\ args[n] \in I
  BY <1>3 DEF Range
<1>6. Len(<<>>) = 0 /\ <<>> \in Seq(I)
  OBVIOUS
<1>7. CASE p.code[j].kind = "phi"
  <2>1. Needs(p, j) = <<>>
    BY <1>7 DEF Needs
  <2>2. 1 .. Len(<<>>) = {}
    OBVIOUS
  <2> QED
    BY <1>6, <2>1, <2>2 DEF I
<1>8. CASE p.code[j].kind # "phi"
  <2>1. Needs(p, j) = args
    BY <1>8 DEF Needs, args
  <2> QED
    BY <1>3, <1>4, <1>5, <1>8, <2>1 DEF Earlier, I, args
<1> QED
  BY <1>7, <1>8

(* ... operand by operand, as far as they are the partition's own, with g generating *)
(* an operand, ...                                                                   *)
NeedsMet(p, mine, g, j, d, e) ==
  e = [n \in 0 .. Len(Needs(p, j)) |-> IF n = 0 THEN d
                                       ELSE IF Needs(p, j)[n] \in mine THEN g[Needs(p, j)[n]][e[n - 1]]
                                       ELSE e[n - 1]]
Met(p, mine, g, j, d) == CHOOSE e : NeedsMet(p, mine, g, j, d, e)

(* ... and generated itself. *)
Placed(p, mine, g, j, d) ==
  IF j \in Range(d) THEN d ELSE Append(Met(p, mine, g, j, d)[Len(Needs(p, j))], j)

Generators(p)          == [Instrs(p) -> [Seq(Instrs(p)) -> Seq(Instrs(p))]]
Generator(p, mine, g)  == [j \in Instrs(p) |-> [d \in Seq(Instrs(p)) |-> Placed(p, mine, g, j, d)]]

(* The operands, one after the other. *)
MetSteps(p, mine, g, j, d, e) ==
  /\ e \in [0 .. Len(Needs(p, j)) -> Seq(Instrs(p))]
  /\ e[0] = d
  /\ \A n \in 1 .. Len(Needs(p, j)) :
       e[n] = IF Needs(p, j)[n] \in mine THEN g[Needs(p, j)[n]][e[n - 1]] ELSE e[n - 1]

LEMMA MetIsStepwise ==
  ASSUME NEW p, WellFormed(p), NEW mine, NEW g, NEW j \in Instrs(p), NEW d \in Seq(Instrs(p)),
         \A i \in Earlier(p, j) : g[i] \in [Seq(Instrs(p)) -> Seq(Instrs(p))]
  PROVE  MetSteps(p, mine, g, j, d, Met(p, mine, g, j, d))
<1> DEFINE V == Seq(Instrs(p))
           L == Len(Needs(p, j))
           arg(n) == Needs(p, j)[n]
           H == [n \in 1 .. L |-> [r \in V |-> IF arg(n) \in mine THEN g[arg(n)][r] ELSE r]]
<1>1. L \in Nat /\ \A n \in 1 .. L : arg(n) \in Earlier(p, j)
  BY NeedsEarlier
<1>2. \A i \in Earlier(p, j) : \A r \in V : g[i][r] \in V
  OBVIOUS
<1>3. H \in [1 .. L -> [V -> V]] /\ d \in V
  BY <1>1, <1>2
<1> HIDE DEF H, V, L
<1>4. PICK h : IsIteration(h, L, d, H)
  BY <1>1, <1>3, IterationExists
<1>5. h \in [0 .. L -> V] /\ h[0] = d /\ \A n \in 1 .. L : h[n] = H[n][h[n - 1]]
  BY <1>1, <1>3, <1>4, IterationIs
<1>6. ASSUME NEW n \in 1 .. L
      PROVE  h[n] = IF arg(n) \in mine THEN g[arg(n)][h[n - 1]] ELSE h[n - 1]
  <2>1. n - 1 \in 0 .. L
    BY <1>1
  <2>2. h[n - 1] \in V
    BY <1>5, <2>1
  <2> QED
    BY <1>5, <2>2 DEF H
<1>7. NeedsMet(p, mine, g, j, d, h)
  <2>1. h = [n \in 0 .. L |-> h[n]]
    BY <1>5
  <2>2. [n \in 0 .. L |-> h[n]]
          = [n \in 0 .. L |-> IF n = 0 THEN d
                              ELSE IF arg(n) \in mine THEN g[arg(n)][h[n - 1]] ELSE h[n - 1]]
    BY <1>1, <1>5, <1>6
  <2> QED
    BY <2>1, <2>2 DEF NeedsMet, L
<1> DEFINE e == Met(p, mine, g, j, d)
<1>8. NeedsMet(p, mine, g, j, d, e)
  BY <1>7 DEF Met
<1> HIDE DEF e
<1> HIDE DEF arg
<1>9. /\ DOMAIN e = 0 .. L /\ e[0] = d /\ e = [n \in 0 .. L |-> e[n]]
      /\ \A n \in 1 .. L : e[n] = IF arg(n) \in mine THEN g[arg(n)][e[n - 1]] ELSE e[n - 1]
  <2>1. e = [n \in 0 .. L |-> IF n = 0 THEN d
                              ELSE IF arg(n) \in mine THEN g[arg(n)][e[n - 1]] ELSE e[n - 1]]
    BY <1>8 DEF NeedsMet, L, arg
  <2>2. \A n \in 1 .. L : n \in 0 .. L /\ n # 0
    BY <1>1
  <2>3. 0 \in 0 .. L
    BY <1>1
  <2> QED
    BY <2>1, <2>2, <2>3
<1> DEFINE P == {n \in 0 .. L : e[n] \in V}
<1>10. 0 \in P
  BY <1>1, <1>3, <1>9
<1>11. ASSUME NEW n \in 1 .. L, n - 1 \in P PROVE n \in P
  <2>1. n \in 0 .. L /\ arg(n) \in Earlier(p, j) /\ e[n - 1] \in V
    BY <1>1, <1>11
  <2>2. g[arg(n)][e[n - 1]] \in V
    BY <1>2, <2>1
  <2> QED
    BY <1>9, <2>1, <2>2
<1>12. \A n \in 0 .. L : n \in P
  <2> HIDE DEF P
  <2> QED
    BY <1>1, <1>10, <1>11, UpTo
<1>13. e \in [0 .. L -> V]
  BY <1>9, <1>12
<1> QED
  BY <1>9, <1>13 DEF MetSteps, L, V, e, arg

(* What is generated for an instruction is a matter of what is for its operands. *)
LEMMA PlacedLocally ==
  ASSUME NEW p, WellFormed(p), NEW mine, NEW j \in Instrs(p), NEW d \in Seq(Instrs(p)),
         NEW f, NEW g,
         \A i \in Earlier(p, j) : f[i] = g[i] /\ f[i] \in [Seq(Instrs(p)) -> Seq(Instrs(p))]
  PROVE  /\ Placed(p, mine, f, j, d) = Placed(p, mine, g, j, d)
         /\ Placed(p, mine, f, j, d) \in Seq(Instrs(p))
<1> DEFINE V == Seq(Instrs(p))
           L == Len(Needs(p, j))
           arg(n) == Needs(p, j)[n]
           e == Met(p, mine, f, j, d)
           h == Met(p, mine, g, j, d)
<1>1. L \in Nat /\ \A n \in 1 .. L : arg(n) \in Earlier(p, j)
  BY NeedsEarlier
<1>2. MetSteps(p, mine, f, j, d, e) /\ MetSteps(p, mine, g, j, d, h)
  BY MetIsStepwise
<1> HIDE DEF e, h
<1>3. /\ e \in [0 .. L -> V] /\ e[0] = d /\ h[0] = d
      /\ \A n \in 1 .. L : e[n] = IF arg(n) \in mine THEN f[arg(n)][e[n - 1]] ELSE e[n - 1]
      /\ \A n \in 1 .. L : h[n] = IF arg(n) \in mine THEN g[arg(n)][h[n - 1]] ELSE h[n - 1]
  BY <1>2 DEF MetSteps
<1> HIDE DEF L, V, arg
<1> DEFINE P == {n \in 0 .. L : e[n] = h[n]}
<1>4. 0 \in P
  BY <1>1, <1>3
<1>5. ASSUME NEW n \in 1 .. L, n - 1 \in P PROVE n \in P
  <2>1. f[arg(n)] = g[arg(n)] /\ e[n - 1] = h[n - 1] /\ n \in 0 .. L
    BY <1>1, <1>5
  <2> QED
    BY <1>3, <2>1
<1>6. L \in P
  <2> HIDE DEF P
  <2>1. \A n \in 0 .. L : n \in P
    BY <1>1, <1>4, <1>5, UpTo
  <2> QED
    BY <1>1, <2>1
<1>7. e[L] = h[L] /\ e[L] \in V
  BY <1>1, <1>3, <1>6
<1>8. Append(e[L], j) \in V
  BY <1>7 DEF V
<1> QED
  BY <1>7, <1>8 DEF Placed, e, h, L, V

(* The recursion of Generate has a solution, which Generate takes. *)
LEMMA GenerateIs ==
  ASSUME NEW p, WellFormed(p), Connected(p.cfg), NEW mine
  PROVE  \E g \in Generators(p) : /\ g = Generator(p, mine, g)
                                  /\ \A d, i : Generate(p, mine, d, i) = g[i][d]
<1> DEFINE I == Instrs(p)
           V == Seq(I)
           F == Generators(p)
           N == Cardinality(I)
           H == [f \in F |-> Generator(p, mine, f)]
           id == [d \in V |-> d]
           f0 == [j \in I |-> id]
           g == CHOOSE f : f = Generator(p, mine, f)
<1>1. PICK rank \in [I -> 0 .. N] : \A i \in I : \A j \in Earlier(p, i) : rank[j] < rank[i]
  BY EarlierRanks
<1>2. N \in Nat
  BY ProgramType, FS_CardinalityType
<1>3. \A f \in F : f = [j \in I |-> f[j]]
  BY DEF Generators
<1>4. f0 \in F
  <2>1. id \in [V -> V]
    OBVIOUS
  <2> HIDE DEF id
  <2> QED
    BY <2>1 DEF Generators
<1>5. ASSUME NEW f \in F PROVE Generator(p, mine, f) \in F
  <2>1. \A j \in I : \A i \in Earlier(p, j) : f[i] \in [V -> V]
    BY DEF Earlier, Generators
  <2>2. \A j \in I : \A d \in V : Placed(p, mine, f, j, d) \in V
    BY <2>1, PlacedLocally
  <2> QED
    BY <2>2 DEF Generators, Generator
<1>6. H \in [F -> F]
  BY <1>5
<1>7. ASSUME NEW f \in F, NEW h \in F, NEW j \in I,
             \A i \in I : rank[i] < rank[j] => f[i] = h[i]
      PROVE  H[f][j] = H[h][j]
  <2>1. \A i \in Earlier(p, j) : i \in I
    BY DEF Earlier
  <2>2. \A i \in Earlier(p, j) : f[i] = h[i] /\ f[i] \in [V -> V]
    BY <1>1, <1>7, <2>1 DEF Generators
  <2>3. \A d \in V : Placed(p, mine, f, j, d) = Placed(p, mine, h, j, d)
    BY <2>2, PlacedLocally
  <2>4. [d \in V |-> Placed(p, mine, f, j, d)] = [d \in V |-> Placed(p, mine, h, j, d)]
    BY <2>3
  <2>5. H[f] = Generator(p, mine, f) /\ H[h] = Generator(p, mine, h)
    OBVIOUS
  <2> HIDE DEF H
  <2> QED
    BY <2>4, <2>5 DEF Generator
<1>8. LocalTo(rank, I, F, H)
  BY <1>7 DEF LocalTo
<1>9. \E f \in F : f = H[f]
  <2> HIDE DEF I, F, N, H, f0
  <2> QED
    BY <1>1, <1>2, <1>3, <1>4, <1>6, <1>8, RecursionExists
<1>10. g = Generator(p, mine, g)
  <2>1. \E f : f = Generator(p, mine, f)
    BY <1>9
  <2> QED
    BY <2>1
<1>11. \A d, i : Generate(p, mine, d, i) = g[i][d]
  BY DEF Generate, Generator, Placed, Met, NeedsMet, Needs
<1> HIDE DEF g, H, f0, id, N
<1>12. \A j \in I : g[j] = [d \in V |-> Placed(p, mine, g, j, d)]
  BY <1>10 DEF Generator
<1> DEFINE P == {k \in 0 .. N + 1 : \A j \in I : rank[j] < k => g[j] \in [V -> V]}
<1>13. 0 \in P
  <2>1. \A j \in I : ~ (rank[j] < 0) /\ 0 \in 0 .. N + 1
    BY <1>2
  <2> QED
    BY <1>2, <2>1
<1>14. ASSUME NEW k \in 1 .. N + 1, k - 1 \in P PROVE k \in P
  <2> SUFFICES ASSUME NEW j \in I, rank[j] < k PROVE g[j] \in [V -> V]
    BY <1>2
  <2>1. ASSUME NEW i \in Earlier(p, j) PROVE g[i] \in [V -> V]
    <3>1. i \in I /\ rank[i] < rank[j]
      BY <1>1 DEF Earlier
    <3>2. rank[i] < k - 1
      BY <1>2, <3>1
    <3> QED
      BY <1>14, <3>1, <3>2
  <2>2. \A d \in V : Placed(p, mine, g, j, d) \in V
    BY <2>1, PlacedLocally
  <2> QED
    BY <1>12, <2>2
<1>15. \A j \in I : g[j] \in [V -> V]
  <2>1. N + 1 \in Nat /\ N + 1 \in 0 .. N + 1 /\ \A j \in I : rank[j] < N + 1
    BY <1>2
  <2>2. N + 1 \in P
    <3> HIDE DEF P
    <3>1. \A k \in 0 .. N + 1 : k \in P
      BY <1>13, <1>14, <2>1, UpTo
    <3> QED
      BY <2>1, <3>1
  <2> QED
    BY <2>1, <2>2
<1>16. g \in Generators(p)
  <2>1. g = [j \in I |-> g[j]]
    BY <1>10 DEF Generator
  <2> QED
    BY <1>15, <2>1 DEF Generators
<1> QED
  BY <1>10, <1>11, <1>16

(* A set of orders to which every instruction of X may be added stays when one of X *)
(* is generated, X having the partition's own operands of its instructions.         *)
Addable(T, X)        == \A d \in T : \A j \in X : Append(d, j) \in T
HasOwn(p, mine, X)   == \A j \in X : Range(p.code[j].args) \cap mine \subseteq X

LEMMA GenerateStays ==
  ASSUME NEW p, WellFormed(p), Connected(p.cfg), NEW mine, NEW X \in SUBSET Instrs(p),
         NEW T \in SUBSET Seq(Instrs(p)), Addable(T, X), HasOwn(p, mine, X),
         NEW d0 \in T, NEW j0 \in X
  PROVE  Generate(p, mine, d0, j0) \in T
<1> DEFINE I == Instrs(p)
           V == Seq(I)
           N == Cardinality(I)
<1>1. PICK rank \in [I -> 0 .. N] : \A i \in I : \A j \in Earlier(p, i) : rank[j] < rank[i]
  BY EarlierRanks
<1>2. N \in Nat
  BY ProgramType, FS_CardinalityType
<1>3. PICK g \in Generators(p) : /\ g = Generator(p, mine, g)
                                 /\ \A d, i : Generate(p, mine, d, i) = g[i][d]
  BY GenerateIs
<1>4. \A j \in I : \A d \in V : g[j][d] = Placed(p, mine, g, j, d)
  BY <1>3 DEF Generator
<1> HIDE DEF N
<1> DEFINE P == {k \in 0 .. N + 1 : \A j \in X : rank[j] < k => \A d \in T : g[j][d] \in T}
<1>5. 0 \in P
  <2>1. \A j \in X : ~ (rank[j] < 0) /\ 0 \in 0 .. N + 1
    BY <1>2
  <2> QED
    BY <1>2, <2>1
<1>6. ASSUME NEW k \in 1 .. N + 1, k - 1 \in P PROVE k \in P
  <2> SUFFICES ASSUME NEW j \in X, rank[j] < k, NEW d \in T PROVE g[j][d] \in T
    BY <1>2
  <2> DEFINE L == Len(Needs(p, j))
             arg(n) == Needs(p, j)[n]
             e == Met(p, mine, g, j, d)
  <2>0. j \in I /\ d \in V
    OBVIOUS
  <2>1. L \in Nat /\ \A n \in 1 .. L : arg(n) \in Earlier(p, j) /\ arg(n) \in Range(p.code[j].args)
    BY <2>0, NeedsEarlier
  <2>2. MetSteps(p, mine, g, j, d, e)
    <3>1. \A i \in Earlier(p, j) : g[i] \in [V -> V]
      BY <1>3 DEF Generators, Earlier
    <3> QED
      BY <2>0, <3>1, MetIsStepwise
  <2> HIDE DEF e
  <2>3. /\ e[0] = d
        /\ \A n \in 1 .. L : e[n] = IF arg(n) \in mine THEN g[arg(n)][e[n - 1]] ELSE e[n - 1]
    BY <2>2 DEF MetSteps
  <2> HIDE DEF L, arg
  <2> DEFINE Q == {n \in 0 .. L : e[n] \in T}
  <2>4. 0 \in Q
    BY <2>1, <2>3
  <2>5. ASSUME NEW n \in 1 .. L, n - 1 \in Q PROVE n \in Q
    <3>1. n \in 0 .. L /\ e[n - 1] \in T
      BY <2>1, <2>5
    <3>2. CASE arg(n) \in mine
      <4>1. arg(n) \in X /\ rank[arg(n)] < rank[j] /\ arg(n) \in I
        BY <1>1, <2>0, <2>1, <3>2 DEF HasOwn, Earlier
      <4>2. rank[arg(n)] < k - 1
        BY <1>2, <2>0, <4>1
      <4>3. g[arg(n)][e[n - 1]] \in T
        BY <1>6, <3>1, <4>1, <4>2
      <4> QED
        BY <2>3, <3>1, <3>2, <4>3
    <3>3. CASE arg(n) \notin mine
      BY <2>3, <3>1, <3>3
    <3> QED
      BY <3>2, <3>3
  <2>6. L \in Q
    <3> HIDE DEF Q
    <3>1. \A n \in 0 .. L : n \in Q
      BY <2>1, <2>4, <2>5, UpTo
    <3> QED
      BY <2>1, <3>1
  <2>7. Append(e[L], j) \in T
    BY <2>6 DEF Addable
  <2> QED
    BY <1>4, <2>0, <2>7 DEF Placed, e, L
<1>7. \A j \in X : \A d \in T : g[j][d] \in T
  <2>1. N + 1 \in Nat /\ N + 1 \in 0 .. N + 1 /\ \A j \in X : rank[j] < N + 1
    BY <1>2
  <2>2. N + 1 \in P
    <3> HIDE DEF P
    <3>1. \A k \in 0 .. N + 1 : k \in P
      BY <1>5, <1>6, <2>1, UpTo
    <3> QED
      BY <2>1, <3>1
  <2> QED
    BY <2>1, <2>2
<1> QED
  BY <1>3, <1>7

(* An order of blocks, each once; and program order within block b. *)
BlockOrder(p, blockOrder) == blockOrder \in Seq(Blocks(p)) /\ IsInjective(blockOrder)
InBlock(p, b) == {x \in Instrs(p) \X Instrs(p) :
                    BlockOf(p, x[1]) = b /\ BlockOf(p, x[2]) = b => x[1] <= x[2]}

(* The instructions visited, block after block, ... *)
VisitedIn(p, mine, b) == FlattenSeq([i \in Instrs(p) |->
                           IF i \in mine /\ BlockOf(p, i) = b THEN <<i>> ELSE <<>>])
VisitedAll(p, mine, blockOrder) == FlattenSeq([k \in DOMAIN blockOrder |-> VisitedIn(p, mine, blockOrder[k])])

LEMMA VisitedInOrder ==
  ASSUME NEW p, WellFormed(p), NEW mine \in SUBSET Instrs(p), NEW blockOrder, BlockOrder(p, blockOrder), NEW b
  PROVE  /\ VisitedAll(p, mine, blockOrder) \in Seq(Instrs(p))
         /\ Range(VisitedAll(p, mine, blockOrder)) \subseteq mine
         /\ InOrder(InBlock(p, b), VisitedAll(p, mine, blockOrder))
<1> DEFINE I == Instrs(p)
           M == Len(p.code)
           R == InBlock(p, b)
           one(c) == [i \in I |-> IF i \in mine /\ BlockOf(p, i) = c THEN <<i>> ELSE <<>>]
           V(c) == VisitedIn(p, mine, c)
           K == Len(blockOrder)
           all == [k \in DOMAIN blockOrder |-> V(blockOrder[k])]
<1>1. I = 1 .. M /\ M \in Nat
  BY ProgramType
<1>2. ASSUME NEW c
      PROVE  /\ V(c) \in Seq(I)
             /\ Range(V(c)) = {i \in mine : BlockOf(p, i) = c}
             /\ InOrder(R, V(c))
  <2> DEFINE s == one(c)
  <2>1. \A i \in I : /\ s[i] \in Seq(I) /\ InOrder(R, s[i])
                     /\ Range(s[i]) = {x \in {i} : x \in mine /\ BlockOf(p, x) = c}
    BY ShortInOrder
  <2>2. AreParts(s, M, I)
    <3>1. s = [i \in 1 .. M |-> s[i]]
      BY <1>1
    <3> HIDE DEF s
    <3> QED
      BY <1>1, <2>1, <3>1 DEF AreParts
  <2>3. \A k, l \in 1 .. M : k < l => Across(R, Range(s[k]), Range(s[l]))
    <3> SUFFICES ASSUME NEW k \in 1 .. M, NEW l \in 1 .. M, k < l PROVE Across(R, {k}, {l})
      BY <1>1, <2>1 DEF Across
    <3>1. <<k, l>> \in R
      BY <1>1 DEF InBlock
    <3> QED
      BY <3>1 DEF Across
  <2> HIDE DEF s, R
  <2>4. \A k \in 1 .. M : InOrder(R, s[k])
    BY <1>1, <2>1
  <2>5. /\ FlattenSeq(s) \in Seq(I)
        /\ Range(FlattenSeq(s)) = UNION {Range(s[k]) : k \in 1 .. M}
        /\ InOrder(R, FlattenSeq(s))
    <3> HIDE DEF I, M
    <3> QED
      BY <1>1, <2>2, <2>3, <2>4, FlattenInOrder
  <2>6. V(c) = FlattenSeq(s)
    BY DEF VisitedIn, s
  <2>7. UNION {Range(s[k]) : k \in 1 .. M} = {i \in mine : BlockOf(p, i) = c}
    BY <1>1, <2>1
  <2> QED
    BY <2>5, <2>6, <2>7
<1> HIDE DEF R, V
<1>3. K \in Nat /\ DOMAIN blockOrder = 1 .. K /\ IsInjective(blockOrder)
  BY DEF BlockOrder
<1>4. AreParts(all, K, I) /\ \A k \in 1 .. K : all[k] = V(blockOrder[k])
  BY <1>2, <1>3 DEF AreParts
<1>5. \A k \in 1 .. K : InOrder(R, all[k])
  BY <1>2, <1>4
<1>6. \A k, l \in 1 .. K : k < l => Across(R, Range(all[k]), Range(all[l]))
  <2> SUFFICES ASSUME NEW k \in 1 .. K, NEW l \in 1 .. K, k < l,
                      NEW x \in Range(all[k]), NEW y \in Range(all[l])
               PROVE  <<x, y>> \in R
    BY DEF Across
  <2>1. x \in I /\ y \in I /\ BlockOf(p, x) = blockOrder[k] /\ BlockOf(p, y) = blockOrder[l]
    BY <1>2, <1>4
  <2>2. blockOrder[k] # blockOrder[l]
    <3>1. k # l
      BY <1>3
    <3> QED
      BY <1>3, <3>1 DEF IsInjective
  <2> QED
    BY <2>1, <2>2 DEF R, InBlock
<1>7. /\ FlattenSeq(all) \in Seq(I)
      /\ Range(FlattenSeq(all)) = UNION {Range(all[k]) : k \in 1 .. K}
      /\ InOrder(R, FlattenSeq(all))
  <2> HIDE DEF I, K, all
  <2> QED
    BY <1>3, <1>4, <1>5, <1>6, FlattenInOrder
<1>8. UNION {Range(all[k]) : k \in 1 .. K} \subseteq mine
  BY <1>2, <1>4
<1> QED
  BY <1>7, <1>8 DEF VisitedAll, R, V

(* ... are generated in program order in a block without operands of the partition, *)
(* where each is generated when it is its turn.                                     *)
LEMMA InOrderGenerated ==
  ASSUME NEW p, WellFormed(p), Connected(p.cfg), NEW mine \in SUBSET Instrs(p),
         NEW blockOrder, BlockOrder(p, blockOrder), NEW b
  PROVE  /\ Generated(p, mine, blockOrder) \in Seq(Instrs(p))
         /\ Range(Generated(p, mine, blockOrder)) \subseteq mine
         /\ b \notin sourceBBs(p, mine) => InOrder(InBlock(p, b), Generated(p, mine, blockOrder))
<1> DEFINE I == Instrs(p)
           R == InBlock(p, b)
           v == VisitedAll(p, mine, blockOrder)
           L == Len(v)
           T0 == {d \in Seq(I) : Range(d) \subseteq mine}
           empty == <<>>
           H == [n \in 1 .. L |-> [d \in T0 |-> Generate(p, mine, d, v[n])]]
           Def(h) == h = [n \in 0 .. L |-> IF n = 0 THEN empty ELSE Generate(p, mine, h[n - 1], v[n])]
           done == CHOOSE h : Def(h)
<1>1. v \in Seq(I) /\ Range(v) \subseteq mine /\ InOrder(R, v)
  BY VisitedInOrder
<1>2. Generated(p, mine, blockOrder) = done[L]
  BY DEF Generated, VisitedAll, VisitedIn
<1> HIDE DEF v
<1>3. L \in Nat /\ DOMAIN v = 1 .. L /\ \A n \in 1 .. L : v[n] \in mine
  BY <1>1 DEF Range
<1>4. empty \in T0
  BY EmptyIsSequence DEF Range
<1>5. \A d \in T0 : \A j \in mine : Generate(p, mine, d, j) \in T0
  <2>1. Addable(T0, mine)
    BY RangeOfAppend DEF Addable
  <2>2. HasOwn(p, mine, mine) /\ T0 \in SUBSET Seq(I)
    BY DEF HasOwn
  <2> HIDE DEF T0
  <2> QED
    BY <2>1, <2>2, GenerateStays
<1> HIDE DEF L, T0, empty
<1>6. H \in [1 .. L -> [T0 -> T0]]
  BY <1>3, <1>5
<1> HIDE DEF H
<1>7. PICK h : IsIteration(h, L, empty, H)
  BY <1>3, <1>4, <1>6, IterationExists
<1>8. h \in [0 .. L -> T0] /\ h[0] = empty /\ \A n \in 1 .. L : h[n] = H[n][h[n - 1]]
  BY <1>3, <1>4, <1>6, <1>7, IterationIs
<1>9. Def(h)
  <2>1. \A n \in 1 .. L : n - 1 \in 0 .. L
    BY <1>3
  <2>2. \A n \in 1 .. L : h[n] = Generate(p, mine, h[n - 1], v[n])
    BY <1>8, <2>1 DEF H
  <2>3. h = [n \in 0 .. L |-> h[n]]
    BY <1>8
  <2>4. [n \in 0 .. L |-> h[n]] = [n \in 0 .. L |-> IF n = 0 THEN empty ELSE Generate(p, mine, h[n - 1], v[n])]
    BY <1>3, <1>8, <2>2
  <2> QED
    BY <2>3, <2>4
<1>10. Def(done)
  BY <1>9
<1> HIDE DEF done
<1>11. done[0] = empty /\ \A n \in 1 .. L : done[n] = Generate(p, mine, done[n - 1], v[n])
  BY <1>3, <1>10
<1> HIDE DEF Def
<1>12. done[L] \in T0
  <2> DEFINE P == {n \in 0 .. L : done[n] \in T0}
  <2>1. 0 \in P
    BY <1>3, <1>4, <1>11
  <2>2. ASSUME NEW n \in 1 .. L, n - 1 \in P PROVE n \in P
    BY <1>3, <1>5, <1>11, <2>2
  <2> HIDE DEF P
  <2>3. \A n \in 0 .. L : n \in P
    BY <1>3, <2>1, <2>2, UpTo
  <2> QED
    BY <1>3, <2>3 DEF P
<1>13. ASSUME b \notin sourceBBs(p, mine) PROVE InOrder(R, done[L])
  <2> DEFINE T(n) == {d \in T0 : /\ InOrder(R, d)
                                 /\ \A x \in Range(d) : BlockOf(p, x) = b => \E k \in 1 .. n : v[k] = x}
             X(n) == {j \in mine : BlockOf(p, j) = b => j = v[n]}
             P == {n \in 0 .. L : done[n] \in T(n)}
  <2>1. 0 \in P
    <3>1. InOrder(R, empty) /\ Range(empty) = {}
      BY EmptyIsSequence DEF empty, InOrder, Range
    <3> QED
      BY <1>3, <1>4, <1>11, <3>1
  <2>2. ASSUME NEW n \in 1 .. L, n - 1 \in P PROVE n \in P
    <3>1. n \in 0 .. L /\ n \in Nat /\ done[n - 1] \in T(n - 1)
      BY <1>3, <2>2
    <3>2. T(n - 1) \subseteq T(n)
      <4>1. 1 .. n - 1 \subseteq 1 .. n
        BY <3>1
      <4> QED
        BY <4>1
    <3>3. v[n] \in X(n) /\ X(n) \in SUBSET I
      BY <1>3
    <3>4. HasOwn(p, mine, X(n))
      <4> SUFFICES ASSUME NEW j \in mine, NEW i \in Range(p.code[j].args), i \in mine PROVE i \in X(n)
        BY DEF HasOwn
      <4>1. BlockOf(p, i) \in sourceBBs(p, mine)
        BY DEF sourceBBs, BlocksOf, Operands
      <4> QED
        BY <1>13, <4>1
    <3>5. Addable(T(n), X(n))
      <4> SUFFICES ASSUME NEW d \in T(n), NEW j \in X(n) PROVE Append(d, j) \in T(n)
        BY DEF Addable
      <4>1. d \in Seq(I) /\ Range(d) \subseteq mine /\ j \in I /\ j \in mine
        BY <3>3 DEF T0
      <4>2. Across(R, Range(d), {j})
        <5> SUFFICES ASSUME NEW x \in Range(d), BlockOf(p, x) = b, BlockOf(p, j) = b PROVE x <= j
          BY <4>1 DEF Across, R, InBlock
        <5>1. PICK k \in 1 .. n : v[k] = x
          OBVIOUS
        <5>2. j = v[n]
          OBVIOUS
        <5>3. CASE k = n
          <6>1. x = j /\ j \in Nat
            BY <4>1, <5>1, <5>2, <5>3, ProgramType
          <6> QED
            BY <6>1
        <5>4. CASE k # n
          <6>1. k < n /\ k \in DOMAIN v /\ n \in DOMAIN v
            BY <1>3, <3>1, <5>4
          <6>2. <<v[k], v[n]>> \in R
            BY <1>1, <6>1 DEF InOrder
          <6> QED
            BY <5>1, <5>2, <6>2 DEF R, InBlock
        <5> QED
          BY <5>3, <5>4
      <4>3. /\ Append(d, j) \in Seq(I) /\ Range(Append(d, j)) = Range(d) \cup {j}
            /\ InOrder(R, Append(d, j))
        <5>1. InOrder(R, d) /\ d \in Seq(I) /\ j \in I
          BY <4>1
        <5> HIDE DEF I, R, T, X, P
        <5>2. Append(d, j) \in Seq(I)
          BY <4>2, <5>1, AppendInOrder
        <5>3. Range(Append(d, j)) = Range(d) \cup {j}
          BY <5>1, RangeOfAppend
        <5>4. InOrder(R, Append(d, j))
          BY <4>2, <5>1, AppendInOrder
        <5> QED
          BY <5>2, <5>3, <5>4
      <4>4. \A x \in Range(d) \cup {j} : BlockOf(p, x) = b => \E k \in 1 .. n : v[k] = x
        <5>1. n \in 1 .. n
          BY <3>1
        <5> QED
          BY <5>1
      <4> QED
        BY <4>1, <4>3, <4>4 DEF T0
    <3>6. T(n) \in SUBSET Seq(I)
      BY DEF T0
    <3> HIDE DEF T, X
    <3>7. Generate(p, mine, done[n - 1], v[n]) \in T(n)
      BY <3>1, <3>2, <3>3, <3>4, <3>5, <3>6, GenerateStays
    <3> QED
      BY <1>11, <3>1, <3>7
  <2>3. L \in P
    <3> HIDE DEF P
    <3>1. \A n \in 0 .. L : n \in P
      BY <1>3, <2>1, <2>2, UpTo
    <3> QED
      BY <1>3, <3>1
  <2> QED
    BY <2>3
<1> QED
  BY <1>2, <1>12, <1>13 DEF T0

-----------------------------------------------------------------------------
(* The items of a block *)

Item(p)      == [op : {"recv", "comp", "send", "ret"}, ins : {0} \cup Instrs(p)]
ItemOrder(p) == {x \in Item(p) \X Item(p) : x[1].ins # 0 /\ x[2].ins # 0 => x[1].ins <= x[2].ins}

(* A sequence of items of instructions in J. *)
ItemsOf(p, J, s) == s \in Seq(Item(p)) /\ \A x \in Range(s) : x.ins \in J

(* One or two items of one instruction. *)
LEMMA ItemsOfOne ==
  ASSUME NEW p, WellFormed(p), NEW i \in Instrs(p), NEW a \in Item(p), NEW c \in Item(p), a.ins = i, c.ins = i
  PROVE  /\ ItemsOf(p, {i}, <<a>>) /\ InOrder(ItemOrder(p), <<a>>)
         /\ ItemsOf(p, {i}, <<a, c>>) /\ InOrder(ItemOrder(p), <<a, c>>)
<1>1. <<a>> \in Seq(Item(p)) /\ InOrder(ItemOrder(p), <<a>>) /\ Range(<<a>>) = {a}
  BY ShortInOrder
<1>3. <<a, c>> \in ItemOrder(p)
  <2>1. i <= i
    BY ProgramType
  <2> QED
    BY <2>1 DEF ItemOrder
<1> DEFINE t == <<a, c>>
<1>4. t \in Seq(Item(p)) /\ DOMAIN t = 1 .. 2 /\ t[1] = a /\ t[2] = c
  OBVIOUS
<1>5. \A m, n \in 1 .. 2 : m < n => m = 1 /\ n = 2
  OBVIOUS
<1> HIDE DEF t
<1>6. InOrder(ItemOrder(p), t)
  BY <1>3, <1>4, <1>5 DEF InOrder
<1>7. \A n \in 1 .. 2 : n = 1 \/ n = 2
  OBVIOUS
<1>8. \A x \in Range(t) : x = a \/ x = c
  BY <1>4, <1>7 DEF Range
<1> QED
  BY <1>1, <1>4, <1>6, <1>8 DEF ItemsOf, t

(* The receives of a block and the jump of another partition's terminator. *)
LEMMA SourcesInOrder ==
  ASSUME NEW p, WellFormed(p), NEW mine, NEW bbs, NEW b \in Blocks(p)
  PROVE  /\ ItemsOf(p, {i \in Instrs(p) : BlockOf(p, i) = b}, Sources(p, mine, bbs, b))
         /\ InOrder(ItemOrder(p), Sources(p, mine, bbs, b))
         /\ b \in insBBs(p, mine) \ sourceBBs(p, mine) => Range(Sources(p, mine, bbs, b)) = {}
<1> DEFINE I == Instrs(p)
           M == Len(p.code)
           R == ItemOrder(p)
           J == {i \in I : BlockOf(p, i) = b}
           here == {i \in I \ mine : BlockOf(p, i) = b /\ ~IsReturn(p, i)}
           todo == IF isFlowOnlyBB(p, mine, b) THEN {Term(p, b)}
                   ELSE IF b \in sourceBBs(p, mine)
                   THEN {i \in here : IsTerm(p, i) \/ i \in Operands(p, mine)}
                   ELSE {}
           s == [i \in I |-> IF i \notin todo THEN <<>>
                             ELSE IF IsTerm(p, i) THEN ForeignTerm(p, bbs, i)
                             ELSE <<Recv(i)>>]
<1>1. I = 1 .. M /\ M \in Nat
  BY ProgramType
<1>2. todo \in SUBSET J
  BY TermIsThere
<1>3. Sources(p, mine, bbs, b) = FlattenSeq(s)
  BY DEF Sources
<1>4. b \in insBBs(p, mine) \ sourceBBs(p, mine) => todo = {}
  BY DEF isFlowOnlyBB
<1> HIDE DEF todo
<1>5. \A i \in I : ItemsOf(p, {i}, s[i]) /\ InOrder(R, s[i]) /\ (i \notin todo => Range(s[i]) = {})
  <2> SUFFICES ASSUME NEW i \in I
               PROVE  ItemsOf(p, {i}, s[i]) /\ InOrder(R, s[i]) /\ (i \notin todo => Range(s[i]) = {})
    OBVIOUS
  <2>1. <<>> \in Seq(Item(p)) /\ InOrder(R, <<>>) /\ Range(<<>>) = {}
    BY EmptyIsSequence DEF InOrder, Range
  <2>2. Recv(i) \in Item(p) /\ Comp(i) \in Item(p) /\ Recv(i).ins = i /\ Comp(i).ins = i
    BY DEF Recv, Comp, Item
  <2>3. /\ ItemsOf(p, {i}, <<Recv(i)>>) /\ InOrder(R, <<Recv(i)>>)
        /\ ItemsOf(p, {i}, <<Recv(i), Comp(i)>>) /\ InOrder(R, <<Recv(i), Comp(i)>>)
        /\ ItemsOf(p, {i}, <<Comp(i)>>) /\ InOrder(R, <<Comp(i)>>)
    <3> HIDE DEF R, I
    <3> QED
      BY <2>2, ItemsOfOne DEF R, I
  <2>4. s[i] = <<>> \/ (i \in todo /\ s[i] \in {<<Recv(i)>>, <<Recv(i), Comp(i)>>, <<Comp(i)>>})
    BY DEF ForeignTerm
  <2>5. i \notin todo => s[i] = <<>>
    OBVIOUS
  <2> HIDE DEF s
  <2> QED
    BY <2>1, <2>3, <2>4, <2>5 DEF ItemsOf
<1>6. AreParts(s, M, Item(p))
  <2>1. s = [i \in 1 .. M |-> s[i]]
    BY <1>1
  <2> HIDE DEF s
  <2> QED
    BY <1>1, <1>5, <2>1 DEF AreParts, ItemsOf
<1> HIDE DEF s
<1>7. \A k, l \in 1 .. M : k < l => Across(R, Range(s[k]), Range(s[l]))
  <2> SUFFICES ASSUME NEW k \in 1 .. M, NEW l \in 1 .. M, k < l,
                      NEW x \in Range(s[k]), NEW y \in Range(s[l])
               PROVE  <<x, y>> \in R
    BY DEF Across
  <2>1. x.ins = k /\ y.ins = l
    BY <1>1, <1>5 DEF ItemsOf
  <2>2. x \in Item(p) /\ y \in Item(p)
    BY <1>1, <1>5 DEF ItemsOf, Range
  <2> QED
    BY <1>1, <2>1, <2>2 DEF ItemOrder
<1>8. \A k \in 1 .. M : InOrder(R, s[k])
  BY <1>1, <1>5
<1>9. /\ FlattenSeq(s) \in Seq(Item(p))
      /\ Range(FlattenSeq(s)) = UNION {Range(s[k]) : k \in 1 .. M}
      /\ InOrder(R, FlattenSeq(s))
  <2> HIDE DEF I, M, R
  <2> QED
    BY <1>1, <1>6, <1>7, <1>8, FlattenInOrder
<1>10. \A x \in Range(FlattenSeq(s)) : x.ins \in J
  <2> SUFFICES ASSUME NEW k \in 1 .. M, NEW x \in Range(s[k]) PROVE x.ins \in J
    BY <1>9
  <2>1. x.ins = k /\ k \in todo
    BY <1>1, <1>5 DEF ItemsOf
  <2> QED
    BY <1>2, <2>1
<1>11. todo = {} => Range(FlattenSeq(s)) = {}
  BY <1>1, <1>5, <1>9
<1> QED
  BY <1>3, <1>4, <1>9, <1>10, <1>11 DEF ItemsOf

(* The items of the instructions generated for a block. *)
ActualIn(p, sends, order, b) ==
  FlattenSeq([n \in DOMAIN order |->
    IF BlockOf(p, order[n]) = b THEN ActualItems(p, sends, order[n]) ELSE <<>>])

LEMMA ActualInOrder ==
  ASSUME NEW p, WellFormed(p), NEW sends, NEW order \in Seq(Instrs(p)), NEW b
  PROVE  /\ ItemsOf(p, {i \in Range(order) : BlockOf(p, i) = b}, ActualIn(p, sends, order, b))
         /\ InOrder(InBlock(p, b), order) => InOrder(ItemOrder(p), ActualIn(p, sends, order, b))
<1> DEFINE I == Instrs(p)
           M == Len(order)
           R == ItemOrder(p)
           All == Item(p) \X Item(p)
           J == {i \in Range(order) : BlockOf(p, i) = b}
           s == [n \in DOMAIN order |->
                  IF BlockOf(p, order[n]) = b THEN ActualItems(p, sends, order[n]) ELSE <<>>]
<1>1. M \in Nat /\ DOMAIN order = 1 .. M /\ \A n \in 1 .. M : order[n] \in I
  OBVIOUS
<1>2. \A n \in 1 .. M : /\ ItemsOf(p, {order[n]}, s[n]) /\ InOrder(R, s[n])
                        /\ BlockOf(p, order[n]) # b => Range(s[n]) = {}
  <2> SUFFICES ASSUME NEW n \in 1 .. M
               PROVE  /\ ItemsOf(p, {order[n]}, s[n]) /\ InOrder(R, s[n])
                      /\ BlockOf(p, order[n]) # b => Range(s[n]) = {}
    OBVIOUS
  <2> DEFINE i == order[n]
  <2>1. <<>> \in Seq(Item(p)) /\ InOrder(R, <<>>) /\ Range(<<>>) = {}
    BY EmptyIsSequence DEF InOrder, Range
  <2>2. i \in I
    BY <1>1
  <2>3. s[n] = IF BlockOf(p, i) = b THEN ActualItems(p, sends, i) ELSE <<>>
    BY <1>1
  <2> HIDE DEF i, s
  <2>4. Send(i) \in Item(p) /\ Comp(i) \in Item(p) /\ Send(i).ins = i /\ Comp(i).ins = i
    BY <2>2 DEF Send, Comp, Item
  <2>5. /\ ItemsOf(p, {i}, <<Comp(i), Send(i)>>) /\ InOrder(R, <<Comp(i), Send(i)>>)
        /\ ItemsOf(p, {i}, <<Send(i), Comp(i)>>) /\ InOrder(R, <<Send(i), Comp(i)>>)
        /\ ItemsOf(p, {i}, <<Comp(i)>>) /\ InOrder(R, <<Comp(i)>>)
    BY <2>2, <2>4, ItemsOfOne
  <2>6. ActualItems(p, sends, i) \in {<<Comp(i), Send(i)>>, <<Send(i), Comp(i)>>, <<Comp(i)>>}
    BY DEF ActualItems
  <2>7. ItemsOf(p, {i}, s[n]) /\ InOrder(R, s[n]) /\ (BlockOf(p, i) # b => Range(s[n]) = {})
    <3>1. CASE BlockOf(p, i) = b
      BY <2>3, <2>5, <2>6, <3>1
    <3>2. CASE BlockOf(p, i) # b
      BY <2>1, <2>3, <3>2 DEF ItemsOf
    <3> QED
      BY <3>1, <3>2
  <2> QED
    BY <2>7 DEF i
<1>3. AreParts(s, M, Item(p))
  <2>1. s = [n \in 1 .. M |-> s[n]]
    BY <1>1
  <2> HIDE DEF s
  <2> QED
    BY <1>2, <2>1 DEF AreParts, ItemsOf
<1>4. ActualIn(p, sends, order, b) = FlattenSeq(s)
  BY DEF ActualIn
<1> HIDE DEF s
<1>5. \A n \in 1 .. M : \A x \in Range(s[n]) : x \in Item(p) /\ x.ins = order[n] /\ x.ins \in J
  <2> SUFFICES ASSUME NEW n \in 1 .. M, NEW x \in Range(s[n])
               PROVE  x \in Item(p) /\ x.ins = order[n] /\ x.ins \in J
    OBVIOUS
  <2>1. x \in Item(p)
    BY <1>2 DEF ItemsOf, Range
  <2>2. x.ins = order[n] /\ BlockOf(p, order[n]) = b
    BY <1>2 DEF ItemsOf
  <2>3. order[n] \in Range(order)
    BY <1>1 DEF Range
  <2> QED
    BY <2>1, <2>2, <2>3
<1>6. /\ FlattenSeq(s) \in Seq(Item(p))
      /\ Range(FlattenSeq(s)) = UNION {Range(s[k]) : k \in 1 .. M}
  <2>1. \A k \in 1 .. M : InOrder(All, s[k])
    BY <1>3 DEF InOrder, AreParts
  <2>2. \A k, l \in 1 .. M : k < l => Across(All, Range(s[k]), Range(s[l]))
    BY <1>5 DEF Across
  <2> HIDE DEF M, All
  <2> QED
    BY <1>1, <1>3, <2>1, <2>2, FlattenInOrder
<1>7. ASSUME InOrder(InBlock(p, b), order) PROVE InOrder(R, FlattenSeq(s))
  <2>1. \A k \in 1 .. M : InOrder(R, s[k])
    BY <1>2
  <2>2. \A k, l \in 1 .. M : k < l => Across(R, Range(s[k]), Range(s[l]))
    <3> SUFFICES ASSUME NEW k \in 1 .. M, NEW l \in 1 .. M, k < l,
                        NEW x \in Range(s[k]), NEW y \in Range(s[l])
                 PROVE  <<x, y>> \in R
      BY DEF Across
    <3>1. /\ x \in Item(p) /\ y \in Item(p) /\ x.ins = order[k] /\ y.ins = order[l]
          /\ x.ins \in J /\ y.ins \in J
      BY <1>5
    <3>2. <<order[k], order[l]>> \in InBlock(p, b)
      BY <1>1, <1>7 DEF InOrder
    <3>3. x.ins <= y.ins
      BY <3>1, <3>2 DEF InBlock
    <3> QED
      BY <3>1, <3>3 DEF ItemOrder
  <2> HIDE DEF M, R
  <2> QED
    BY <1>1, <1>3, <2>1, <2>2, FlattenInOrder
<1>8. \A x \in Range(FlattenSeq(s)) : x.ins \in J
  BY <1>5, <1>6
<1> QED
  BY <1>4, <1>6, <1>7, <1>8 DEF ItemsOf

(* Some of the items. *)
LEMMA OnlyInOrder ==
  ASSUME NEW p, WellFormed(p), NEW items \in Seq(Item(p)), NEW J,
         \A x, y \in Range(items) : x.ins \in J /\ y.ins \in J => <<x, y>> \in ItemOrder(p)
  PROVE  /\ ItemsOf(p, J, Only(items, J)) /\ InOrder(ItemOrder(p), Only(items, J))
         /\ Range(Only(items, J)) \subseteq Range(items)
<1> DEFINE M == Len(items)
           R == ItemOrder(p)
           s == [n \in DOMAIN items |-> IF items[n].ins \in J THEN <<items[n]>> ELSE <<>>]
<1>1. M \in Nat /\ DOMAIN items = 1 .. M /\ \A n \in 1 .. M : items[n] \in Item(p)
  OBVIOUS
<1>2. \A n \in 1 .. M : /\ s[n] \in Seq(Item(p)) /\ InOrder(R, s[n])
                        /\ \A x \in Range(s[n]) : x = items[n] /\ x.ins \in J
  <2> SUFFICES ASSUME NEW n \in 1 .. M
               PROVE  /\ s[n] \in Seq(Item(p)) /\ InOrder(R, s[n])
                      /\ \A x \in Range(s[n]) : x = items[n] /\ x.ins \in J
    OBVIOUS
  <2> DEFINE x == items[n]
  <2>1. x \in Item(p) /\ s[n] = IF x.ins \in J THEN <<x>> ELSE <<>>
    BY <1>1
  <2> HIDE DEF x, s
  <2>2. /\ <<>> \in Seq(Item(p)) /\ InOrder(R, <<>>) /\ Range(<<>>) = {}
        /\ <<x>> \in Seq(Item(p)) /\ InOrder(R, <<x>>) /\ Range(<<x>>) = {x}
    BY <2>1, ShortInOrder
  <2>3. CASE x.ins \in J
    BY <2>1, <2>2, <2>3 DEF x
  <2>4. CASE x.ins \notin J
    BY <2>1, <2>2, <2>4
  <2> QED
    BY <2>3, <2>4
<1>3. AreParts(s, M, Item(p))
  <2>1. s = [n \in 1 .. M |-> s[n]]
    BY <1>1
  <2> HIDE DEF s
  <2> QED
    BY <1>2, <2>1 DEF AreParts
<1>4. Only(items, J) = FlattenSeq(s)
  BY DEF Only
<1> HIDE DEF s
<1>5. \A n \in 1 .. M : \A x \in Range(s[n]) : x \in Range(items) /\ x.ins \in J
  BY <1>1, <1>2 DEF Range
<1>6. \A k, l \in 1 .. M : k < l => Across(R, Range(s[k]), Range(s[l]))
  BY <1>5 DEF Across
<1>7. \A k \in 1 .. M : InOrder(R, s[k])
  BY <1>2
<1>8. /\ FlattenSeq(s) \in Seq(Item(p))
      /\ Range(FlattenSeq(s)) = UNION {Range(s[k]) : k \in 1 .. M}
      /\ InOrder(R, FlattenSeq(s))
  <2> HIDE DEF M, R
  <2> QED
    BY <1>1, <1>3, <1>6, <1>7, FlattenInOrder
<1>9. \A x \in Range(FlattenSeq(s)) : x \in Range(items) /\ x.ins \in J
  BY <1>5, <1>8
<1> QED
  BY <1>4, <1>8, <1>9 DEF ItemsOf

(* A block's terminator is behind its other instructions. *)
LEMMA TerminatorIsLast ==
  ASSUME NEW p, WellFormed(p), NEW b \in Blocks(p),
         NEW i \in Instrs(p), BlockOf(p, i) = b,
         NEW t \in Instrs(p), BlockOf(p, t) = b, IsTerm(p, t)
  PROVE  i <= t /\ (IsTerm(p, i) => i = t)
<1>1. PICK l \in Instrs(p) : /\ {j \in Instrs(p) : BlockOf(p, j) = b /\ IsTerm(p, j)} = {l}
                             /\ \A j \in Instrs(p) : BlockOf(p, j) = b => j <= l
  BY DEF WellFormed
<1>2. t = l
  BY <1>1
<1> QED
  BY <1>1, <1>2

(* The reordering puts the items of a block into program order. *)
LEMMA ReorderedInOrder ==
  ASSUME NEW p, WellFormed(p), NEW mine, NEW b \in Blocks(p), NEW items,
         ItemsOf(p, {0} \cup {i \in Instrs(p) : BlockOf(p, i) = b}, items),
         b \in insBBs(p, mine) \cap sourceBBs(p, mine) \/ InOrder(ItemOrder(p), items)
  PROVE  InOrder(ItemOrder(p), Reordered(p, mine, b, items))
<1> DEFINE I == Instrs(p)
           M == Len(p.code)
           R == ItemOrder(p)
           last == {0} \cup {i \in I : IsTerm(p, i)}
           s == [i \in I |-> IF i \in last THEN <<>> ELSE Only(items, {i})]
<1>1. I = 1 .. M /\ M \in Nat
  BY ProgramType
<1>2. items \in Seq(Item(p)) /\ \A x \in Range(items) : x \in Item(p) /\ (x.ins = 0 \/ (x.ins \in I /\ BlockOf(p, x.ins) = b))
  BY DEF ItemsOf, Range
<1>3. CASE b \notin insBBs(p, mine) \cap sourceBBs(p, mine)
  BY <1>3 DEF Reordered
<1>4. CASE b \in insBBs(p, mine) \cap sourceBBs(p, mine)
  <2>1. Reordered(p, mine, b, items) = FlattenSeq(s) \o Only(items, last)
    BY <1>4 DEF Reordered
  <2>2. \A i \in I : ItemsOf(p, {i}, Only(items, {i})) /\ InOrder(R, Only(items, {i}))
                     /\ Range(Only(items, {i})) \subseteq Range(items)
    <3> SUFFICES ASSUME NEW i \in I
                 PROVE  ItemsOf(p, {i}, Only(items, {i})) /\ InOrder(R, Only(items, {i}))
                        /\ Range(Only(items, {i})) \subseteq Range(items)
      OBVIOUS
    <3>1. \A x, y \in Range(items) : x.ins \in {i} /\ y.ins \in {i} => <<x, y>> \in R
      BY <1>1, <1>2 DEF ItemOrder
    <3> HIDE DEF R
    <3> QED
      BY <1>2, <3>1, OnlyInOrder DEF R
  <2>3. \A i \in I : /\ s[i] \in Seq(Item(p)) /\ InOrder(R, s[i])
                     /\ \A x \in Range(s[i]) : x \in Range(items) /\ x.ins = i /\ i \notin last
    <3>1. <<>> \in Seq(Item(p)) /\ InOrder(R, <<>>) /\ Range(<<>>) = {}
      BY EmptyIsSequence DEF InOrder, Range
    <3>2. \A i \in I : s[i] = IF i \in last THEN <<>> ELSE Only(items, {i})
      OBVIOUS
    <3> HIDE DEF s
    <3> QED
      BY <2>2, <3>1, <3>2 DEF ItemsOf
  <2>4. AreParts(s, M, Item(p))
    <3>1. s = [n \in 1 .. M |-> s[n]]
      BY <1>1
    <3> HIDE DEF s
    <3> QED
      BY <1>1, <2>3, <3>1 DEF AreParts
  <2> HIDE DEF s
  <2>5. \A k, l \in 1 .. M : k < l => Across(R, Range(s[k]), Range(s[l]))
    <3> SUFFICES ASSUME NEW k \in 1 .. M, NEW l \in 1 .. M, k < l,
                        NEW x \in Range(s[k]), NEW y \in Range(s[l])
                 PROVE  <<x, y>> \in R
      BY DEF Across
    <3>1. x.ins = k /\ y.ins = l /\ x \in Item(p) /\ y \in Item(p)
      BY <1>1, <1>2, <2>3
    <3> QED
      BY <1>1, <3>1 DEF ItemOrder
  <2>6. \A k \in 1 .. M : InOrder(R, s[k])
    BY <1>1, <2>3
  <2>7. /\ FlattenSeq(s) \in Seq(Item(p))
        /\ Range(FlattenSeq(s)) = UNION {Range(s[k]) : k \in 1 .. M}
        /\ InOrder(R, FlattenSeq(s))
    <3> HIDE DEF M, R
    <3> QED
      BY <1>1, <2>4, <2>5, <2>6, FlattenInOrder
  <2>8. \A x, y \in Range(items) : x.ins \in last /\ y.ins \in last => <<x, y>> \in R
    <3> SUFFICES ASSUME NEW x \in Range(items), NEW y \in Range(items), x.ins \in last, y.ins \in last,
                        x.ins # 0, y.ins # 0
                 PROVE  x.ins <= y.ins
      BY <1>2 DEF ItemOrder
    <3> QED
      BY <1>2, TerminatorIsLast
  <2>9. /\ ItemsOf(p, last, Only(items, last)) /\ InOrder(R, Only(items, last))
        /\ Range(Only(items, last)) \subseteq Range(items)
    <3> HIDE DEF R, last
    <3> QED
      BY <1>2, <2>8, OnlyInOrder DEF R
  <2>10. Across(R, Range(FlattenSeq(s)), Range(Only(items, last)))
    <3> SUFFICES ASSUME NEW k \in 1 .. M, NEW x \in Range(s[k]), NEW y \in Range(Only(items, last))
                 PROVE  <<x, y>> \in R
      BY <2>7 DEF Across
    <3>1. x \in Range(items) /\ x.ins = k /\ k \in I /\ k # 0
      BY <1>1, <2>3
    <3>2. y \in Range(items) /\ y.ins \in last
      BY <2>9 DEF ItemsOf
    <3>3. y.ins # 0 => x.ins <= y.ins
      BY <1>2, <3>1, <3>2, TerminatorIsLast
    <3> QED
      BY <1>2, <3>1, <3>2, <3>3 DEF ItemOrder
  <2>11. Only(items, last) \in Seq(Item(p))
    BY <2>9 DEF ItemsOf
  <2>12. InOrder(R, FlattenSeq(s) \o Only(items, last))
    <3> HIDE DEF R, last
    <3> QED
      BY <2>7, <2>9, <2>10, <2>11, ConcatInOrder
  <2> QED
    BY <2>1, <2>12
<1> QED
  BY <1>3, <1>4

(* The items of every block of a new function stand in program order. *)
LEMMA NewBlocksInOrder ==
  ASSUME NEW p, WellFormed(p), Connected(p.cfg), NEW mine \in SUBSET Instrs(p),
         NEW bbs, BlocksFit(p, mine, bbs), NEW sends, NEW blockOrder, BlockOrder(p, blockOrder)
  PROVE  \A b \in DOMAIN NewBlocks(p, mine, bbs, sends, blockOrder) :
           InOrder(ItemOrder(p), NewBlocks(p, mine, bbs, sends, blockOrder)[b])
<1> DEFINE I == Instrs(p)
           R == ItemOrder(p)
           All == Item(p) \X Item(p)
           order == Generated(p, mine, blockOrder)
           J(b) == {i \in I : BlockOf(p, i) = b}
           C(b) == Created(p, mine, bbs, b)
           S(b) == Sources(p, mine, bbs, b)
           A(b) == ActualIn(p, sends, order, b)
           new == NewBlocks(p, mine, bbs, sends, blockOrder)
<1>1. /\ DOMAIN new = bbs.all
      /\ \A b \in bbs.all : new[b] = Reordered(p, mine, b, C(b) \o S(b) \o A(b))
  BY DEF NewBlocks, ActualIn
<1> HIDE DEF new
<1> SUFFICES ASSUME NEW b \in bbs.all PROVE InOrder(R, new[b])
  BY <1>1 DEF new
<1>2. b \in Blocks(p)
  BY DEF BlocksFit
<1>3. order \in Seq(I) /\ Range(order) \subseteq mine
  BY InOrderGenerated
<1>4. b \notin insBBs(p, mine) \cap sourceBBs(p, mine) => InOrder(InBlock(p, b), order)
  <2>1. CASE b \notin sourceBBs(p, mine)
    BY <2>1, InOrderGenerated
  <2>2. CASE b \notin insBBs(p, mine)
    <3>1. \A i \in Range(order) : BlockOf(p, i) # b /\ i \in I
      BY <1>3, <2>2 DEF insBBs, BlocksOf
    <3>2. \A m \in DOMAIN order : order[m] \in Range(order)
      BY DEF Range
    <3> HIDE DEF order
    <3> QED
      BY <3>1, <3>2 DEF InOrder, InBlock
  <2> QED
    BY <2>1, <2>2
<1>5. /\ C(b) \in Seq(Item(p)) /\ InOrder(R, C(b)) /\ InOrder(All, C(b))
      /\ \A x \in Range(C(b)) : x.ins = 0
  <2>1. RetVoid \in Item(p) /\ RetVoid.ins = 0
    BY DEF RetVoid, Item
  <2>2. C(b) \in {<<>>, <<RetVoid>>}
    BY DEF Created
  <2>3. /\ <<>> \in Seq(Item(p)) /\ InOrder(R, <<>>) /\ InOrder(All, <<>>) /\ Range(<<>>) = {}
        /\ <<RetVoid>> \in Seq(Item(p)) /\ Range(<<RetVoid>>) = {RetVoid}
        /\ InOrder(R, <<RetVoid>>) /\ InOrder(All, <<RetVoid>>)
    BY <2>1, ShortInOrder
  <2> QED
    BY <2>1, <2>2, <2>3
<1>6. /\ S(b) \in Seq(Item(p)) /\ \A x \in Range(S(b)) : x.ins \in J(b)
      /\ InOrder(R, S(b))
      /\ b \in insBBs(p, mine) \ sourceBBs(p, mine) => Range(S(b)) = {}
  BY <1>2, SourcesInOrder DEF ItemsOf
<1>7. /\ A(b) \in Seq(Item(p)) /\ \A x \in Range(A(b)) : x.ins \in {i \in Range(order) : BlockOf(p, i) = b}
      /\ b \notin insBBs(p, mine) \cap sourceBBs(p, mine) => InOrder(R, A(b))
  BY <1>3, <1>4, ActualInOrder DEF ItemsOf
<1>8. /\ \A x \in Range(A(b)) : x.ins \in J(b)
      /\ b \notin insBBs(p, mine) => Range(A(b)) = {}
  BY <1>3, <1>7 DEF insBBs, BlocksOf
<1> HIDE DEF order, C, S, A, R
<1> DEFINE c == C(b)
           s == S(b)
           a == A(b)
<1> HIDE DEF c, s, a
<1>9. /\ c \in Seq(Item(p)) /\ s \in Seq(Item(p)) /\ a \in Seq(Item(p))
      /\ InOrder(R, c) /\ InOrder(R, s)
      /\ \A x \in Range(c) : x \in Item(p) /\ x.ins = 0
      /\ \A x \in Range(s) \cup Range(a) : x \in Item(p) /\ x.ins \in J(b)
  BY <1>5, <1>6, <1>7, <1>8 DEF Range, c, s, a
<1>10. InOrder(All, c) /\ InOrder(All, s) /\ InOrder(All, a)
  BY <1>9 DEF InOrder
<1>11. ItemsOf(p, {0} \cup J(b), (c \o s) \o a)
  <2>1. Across(All, Range(c), Range(s))
    BY <1>9 DEF Across
  <2>2. c \o s \in Seq(Item(p)) /\ Range(c \o s) = Range(c) \cup Range(s) /\ InOrder(All, c \o s)
    <3> HIDE DEF All
    <3> QED
      BY <1>9, <1>10, <2>1, ConcatInOrder
  <2>3. Across(All, Range(c \o s), Range(a))
    BY <1>9, <2>2 DEF Across
  <2>4. (c \o s) \o a \in Seq(Item(p)) /\ Range((c \o s) \o a) = Range(c \o s) \cup Range(a)
    <3> DEFINE cs == c \o s
    <3>1. cs \in Seq(Item(p)) /\ a \in Seq(Item(p)) /\ InOrder(All, cs) /\ InOrder(All, a)
          /\ Across(All, Range(cs), Range(a))
      BY <1>9, <1>10, <2>2, <2>3
    <3> HIDE DEF All, cs
    <3>2. cs \o a \in Seq(Item(p)) /\ Range(cs \o a) = Range(cs) \cup Range(a)
      BY <3>1, ConcatInOrder
    <3> QED
      BY <3>2 DEF cs
  <2> QED
    BY <1>9, <2>2, <2>4 DEF ItemsOf
<1>12. ASSUME b \notin insBBs(p, mine) \cap sourceBBs(p, mine)
       PROVE  InOrder(R, (c \o s) \o a)
  <2>1. InOrder(R, a) /\ (Range(s) = {} \/ Range(a) = {})
    <3>1. b \in insBBs(p, mine) \cup sourceBBs(p, mine) \/ b \notin insBBs(p, mine)
      OBVIOUS
    <3> QED
      BY <1>6, <1>7, <1>8, <1>12 DEF s, a
  <2>2. Across(R, Range(c), Range(s))
    BY <1>9 DEF Across, R, ItemOrder
  <2>3. c \o s \in Seq(Item(p)) /\ Range(c \o s) = Range(c) \cup Range(s) /\ InOrder(R, c \o s)
    BY <1>9, <2>2, ConcatInOrder
  <2>4. Across(R, Range(c \o s), Range(a))
    BY <1>9, <2>1, <2>3 DEF Across, R, ItemOrder
  <2> QED
    BY <1>9, <2>1, <2>3, <2>4, ConcatInOrder
<1>13. InOrder(R, Reordered(p, mine, b, (c \o s) \o a))
  BY <1>2, <1>11, <1>12, ReorderedInOrder DEF R
<1> QED
  BY <1>1, <1>13 DEF c, s, a

-----------------------------------------------------------------------------
(* Branch tags *)

(* The width chosen is wide enough. *)
LEMMA WideEnough ==
  ASSUME NEW n \in Nat
  PROVE  n <= 2 ^ integerWidthForSuccessors(n) /\ 2 ^ integerWidthForSuccessors(n) \in Nat
<1> DEFINE Wide == {w \in Nat : n <= 2 ^ w}
<1>1. Wide \in SUBSET Nat /\ n \in Wide
  BY Powers
<1>2. PICK w \in Wide : \A v \in Wide : w <= v
  <2> HIDE DEF Wide
  <2> QED
    BY <1>1, LeastExists
<1>3. w \in 0 .. n /\ 2 ^ w >= n
  BY <1>1, <1>2
<1>4. w > 0 => 2 ^ (w - 1) < n
  <2> SUFFICES ASSUME w > 0 PROVE 2 ^ (w - 1) < n
    OBVIOUS
  <2> DEFINE v == w - 1
  <2>1. v \in Nat /\ ~ (w <= v)
    BY <1>3
  <2> HIDE DEF v
  <2>2. v \notin Wide /\ 2 ^ v \in Nat
    BY <1>2, <2>1, Powers
  <2>3. 2 ^ v < n
    BY <2>1, <2>2
  <2> QED
    BY <2>3 DEF v
<1>5. \E x \in 0 .. n : 2 ^ x >= n /\ (x > 0 => 2 ^ (x - 1) < n)
  BY <1>3, <1>4
<1>6. /\ integerWidthForSuccessors(n) \in 0 .. n
      /\ 2 ^ integerWidthForSuccessors(n) >= n
  BY <1>5 DEF integerWidthForSuccessors
<1> QED
  BY <1>6, Powers

(* The tag of a successor stands for one of the same block. *)
LEMMA FirstIsSame ==
  ASSUME NEW succ, NEW L \in Nat, DOMAIN succ = 1 .. L, NEW n \in 1 .. L
  PROVE  FirstOf(succ, n) \in 1 .. L /\ succ[FirstOf(succ, n)] = succ[n]
<1> DEFINE Same == {m \in 1 .. L : succ[m] = succ[n]}
<1>1. Same \in SUBSET Nat /\ n \in Same
  OBVIOUS
<1>2. PICK m \in Same : \A l \in Same : m <= l
  <2> HIDE DEF Same
  <2> QED
    BY <1>1, LeastExists
<1>3. m \in 1 .. L /\ succ[m] = succ[n] /\ \A l \in 1 .. m - 1 : succ[l] # succ[n]
  BY <1>2
<1>4. \E x \in DOMAIN succ : succ[x] = succ[n] /\ \A l \in 1 .. x - 1 : succ[l] # succ[n]
  BY <1>3
<1> QED
  BY <1>4 DEF FirstOf
=============================================================================
