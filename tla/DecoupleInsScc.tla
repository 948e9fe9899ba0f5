--------------------------- MODULE DecoupleInsScc ---------------------------
(***************************************************************************)
(* The pass DecoupleInsScc on one function.  The strongly connected        *)
(* components of the instruction graph, in a topological order, are cut    *)
(* into partitions behind memory accesses; each partition's blocks are set *)
(* up; then each becomes a function of its own, which receives values and  *)
(* branch tags from earlier ones through channels and sends to later ones. *)
(*                                                                         *)
(* The order of the components is the one Tarjan's algorithm               *)
(* (scc_iterator) finishes them in.  It depends on the order of each       *)
(* value's use list, which is whatever earlier passes have made it, and    *)
(* the order of generation depends on the addresses of the blocks: both    *)
(* are chosen here.                                                        *)
(***************************************************************************)
EXTENDS NewFunctions

CONSTANTS Programs,  \* the functions to run the pass on
          CfDup      \* the values of the option: FALSE means -disable-cf-dup

ASSUME ProgramsAssumption == /\ \A p \in Programs : WellFormed(p) /\ Connected(p.cfg)
                             /\ CfDup \subseteq BOOLEAN

VARIABLES prog,      \* the function
          controlFlowDuplication,
          deps,      \* its instruction graph
          path,      \* Tarjan's search: the instructions entered ...
          finished,  \* ... and left, in order
          dag,       \* collectedDagNode: the components, as sets
          mines,     \* collectedPartition: the instructions of each
          bbss,      \* the blocks of each partition set up so far
          channels,  \* ins2AllocatedChannel: instructions with a channel
          functions, \* the functions generated so far
          phase,     \* "start", "graph", "setup", "generate", or how the pass ended:
                     \* "unchanged", "done", "failed"
          failed     \* the assertion that failed, or the null pointer used

option == <<prog, controlFlowDuplication>>
vars == <<option, deps, path, finished, dag, mines, bbss, channels, functions, phase, failed>>

Start == /\ controlFlowDuplication \in CfDup
         /\ deps = <<>>
         /\ path = <<>> /\ finished = <<>>
         /\ dag = <<>> /\ mines = <<>> /\ bbss = <<>>
         /\ channels = {} /\ functions = <<>>
         /\ phase = "start" /\ failed = ""

Init == prog \in Programs /\ Start

-----------------------------------------------------------------------------
\* The analysis the pass requires.
BuildGraph == /\ phase = "start"
              /\ deps' = Dependents(prog)
              /\ phase' = "graph"
              /\ UNCHANGED <<option, path, finished, dag, mines, bbss, channels, functions, failed>>

\* Mutation: a node on the search path is entered again.
UnenteredOnPath(i, p, f) == deps[i] \ Range(f)

\* The children of a node still to enter.  The root's are in program order, and
\* so are those of a terminator.
Unentered(i, p, f) == deps[i] \ (Range(p) \cup Range(f))
Least(S) == {i \in S : \A j \in S : i <= j}
Enterable == IF path = <<>> THEN Least(DOMAIN deps \ Range(finished))
             ELSE LET S == Unentered(Last(path), path, finished)
                  IN  IF IsTerm(prog, Last(path)) THEN Least(S) ELSE S

\* Leaving every node that has no child to enter.
Unwind(p, f) ==
  LET left[n \in 0 .. Len(p)] ==
        IF n = 0 THEN [path |-> p, finished |-> f]
        ELSE LET l == left[n - 1]
             IN  IF l.path = <<>> \/ Unentered(Last(l.path), l.path, l.finished) # {} THEN l
                 ELSE [path |-> Front(l.path), finished |-> Append(l.finished, Last(l.path))]
  IN  left[Len(p)]

Visit(i) == /\ phase = "graph" /\ i \in Enterable
            /\ LET u == Unwind(Append(path, i), finished)
               IN  path' = u.path /\ finished' = u.finished
            /\ UNCHANGED <<option, deps, dag, mines, bbss, channels, functions, phase, failed>>

\* The components of a list of instructions, each where its first one stands.
Components(order) ==
  LET listed[n \in 0 .. Len(order)] ==
        IF n = 0 THEN <<>>
        ELSE LET d == listed[n - 1]
                 c == Scc(deps, order[n])
             IN  IF c \in Range(d) THEN d ELSE Append(d, c)
  IN  listed[Len(order)]

\* Mutation: collectedDagNode is not reversed.
DagNodesUnreversed(order) == Components(order)

\* A component is done when its first node is left; the list is then reversed.
DagNodes(order) == Components(Reverse(order))

\* instructionLatencyLookup, per component
Latency(i) == CASE prog.code[i].kind = "mul" -> 5
                [] prog.code[i].kind = "cast" -> 0
                [] IsTerm(prog, i) /\ Len(prog.cfg.succ[BlockOf(prog, i)]) \in 1 .. 2 -> 0
                [] OTHER -> 1
sccLat(node)      == FoldFunction(+, 0, [i \in node |-> Latency(i)])
hasMemory(node)   == \E i \in node : prog.code[i].kind = "mem"
singleIns(node)   == Cardinality(node) = 1
LONGLATTHRESHOLD == 5

needANewPartition(part, node) ==
  LET containMemory     == \E n \in Range(part) : hasMemory(n)
      containLongLatCyc == \E n \in Range(part) : sccLat(n) >= LONGLATTHRESHOLD
  IN  \/ hasMemory(node) /\ (containLongLatCyc \/ containMemory)
      \/ ~singleIns(node) /\ sccLat(node) >= LONGLATTHRESHOLD /\ containMemory

\* Partitions as sequences of components; never a new one behind the last node.
barrierPartition(nodes) ==
  LET parts[n \in 0 .. Len(nodes)] ==
        IF n = 0 THEN << <<>> >>
        ELSE LET p    == parts[n - 1]
                 part == Append(p[Len(p)], nodes[n])
                 now  == [p EXCEPT ![Len(p)] = part]
             IN  IF n # Len(nodes) /\ needANewPartition(part, nodes[n])
                 THEN Append(now, <<>>) ELSE now
  IN  parts[Len(nodes)]

\* The check of the order (every dependence leads to the same or a later node), and
\* checkAcyclicDependency (no two partitions depend on each other, however far).
TopologicallySorted(nodes) ==
  \A m, n \in DOMAIN nodes : (\E i \in nodes[m] : deps[i] \cap nodes[n] # {}) => m <= n

PartitionCycle(ms) ==
  LET next == [p \in DOMAIN ms |-> {q \in DOMAIN ms \ {p} : \E i \in ms[p] : deps[i] \cap ms[q] # {}}]
  IN  \E p \in DOMAIN ms : p \in Descendants(next, p)

Partition ==
  /\ phase = "graph" /\ Len(finished) = Len(prog.code)
  /\ dag' = DagNodes(finished)
  /\ LET parts == barrierPartition(dag')
         ms    == [k \in DOMAIN parts |-> UNION Range(parts[k])]
     IN  IF ~TopologicallySorted(dag')
         THEN phase' = "failed" /\ failed' = "not topologically sorted" /\ UNCHANGED mines
         ELSE IF Len(dag') <= 1 \/ Len(ms) <= 1
         THEN phase' = "unchanged" /\ UNCHANGED <<mines, failed>>
         ELSE /\ mines' = ms
              /\ IF PartitionCycle(ms)
                 THEN phase' = "failed" /\ failed' = "cycle exist between partitions"
                 ELSE phase' = "setup" /\ UNCHANGED failed
  /\ UNCHANGED <<option, deps, path, finished, bbss, channels, functions>>

-----------------------------------------------------------------------------
\* setupBBStructure of the next partition; all of them come before the first
\* function is generated.
SetUp ==
  /\ phase = "setup"
  /\ LET k   == Len(bbss) + 1
         bbs == setupBBStructure(prog, mines[k], controlFlowDuplication)
     IN  /\ bbss' = Append(bbss, bbs)
         /\ failed' = bbs.failed
         /\ phase' = IF bbs.failed # "" THEN "failed"
                     ELSE IF k = Len(mines) THEN "generate" ELSE "setup"
  /\ UNCHANGED <<option, deps, path, finished, dag, mines, channels, functions>>

\* What a partition meets while its function is generated: the type of the value of a
\* return that has none, which is no assertion but a null pointer, then the assertions.
GenerationFailure(k, recv, send) ==
  IF \E i \in mines[k] : prog.code[i].kind = "void" THEN "no return value"
  ELSE IF ~(recv \subseteq channels) THEN "partition does not see allocated channel"
  ELSE IF send \cap channels # {} THEN "sr partition sees allocated channel"
  ELSE IF createFailure(prog, mines[k], bbss[k], controlFlowDuplication) # ""
  THEN createFailure(prog, mines[k], bbss[k], controlFlowDuplication)
  ELSE phiFailure(prog, mines[k], bbss[k])

\* generateDecoupledFunction of the next partition; behind the last one the body of
\* the original is replaced by calls of them all.
GenerateFunction ==
  /\ phase = "generate"
  /\ LET k    == Len(functions) + 1
         recv == Receives(prog, mines[k], bbss[k])
         send == Sends(prog, mines, bbss, k)
     IN  IF GenerationFailure(k, recv, send) # ""
         THEN /\ phase' = "failed" /\ failed' = GenerationFailure(k, recv, send)
              /\ UNCHANGED <<channels, functions>>
         ELSE /\ \E blockOrder \in SetToSeqs(insBBs(prog, mines[k])) :
                   functions' = Append(functions,
                     [recv |-> recv, send |-> send,
                      blocks |-> NewBlocks(prog, mines[k], bbss[k], send, blockOrder),
                      sendBlocks |-> SendBlocks(prog, bbss[k], send)])
              /\ channels' = channels \cup send
              /\ phase' = IF k = Len(mines) THEN "done" ELSE "generate"
              /\ UNCHANGED failed
  /\ UNCHANGED <<option, deps, path, finished, dag, mines, bbss>>

Next == \/ BuildGraph
        \/ \E i \in DOMAIN deps : Visit(i)
        \/ Partition
        \/ SetUp
        \/ GenerateFunction

Spec == Init /\ [][Next]_vars

-----------------------------------------------------------------------------
(* Properties *)

\* Every variable has its type; a finished search has left every instruction once.
TypeOK ==
  LET Insns == DOMAIN prog.code
  IN  /\ WellFormed(prog) /\ controlFlowDuplication \in BOOLEAN
      /\ deps \in {<<>>} \cup [Insns -> SUBSET Insns]
      /\ path \in Seq(Insns) /\ finished \in Seq(Insns)
      /\ IsInjective(path \o finished)
      /\ dag \in Seq(SUBSET Insns) /\ mines \in Seq(SUBSET Insns)
      /\ \A k \in DOMAIN bbss : bbss[k].all \subseteq Blocks(prog)
      /\ channels \subseteq Insns
      /\ Len(functions) <= Len(bbss) /\ Len(bbss) <= Len(mines)
      /\ phase \in {"start", "graph", "setup", "generate", "unchanged", "done", "failed"}
      /\ (failed # "") <=> (phase = "failed")

\* The two assertions about the order never fail: the reversed list of components
\* is topologically sorted whatever the use lists look like, and cutting it never
\* makes two partitions wait for each other.
PartitionsAreAcyclic == failed \notin {"not topologically sorted", "cycle exist between partitions"}

\* The assertions about the shape of a partition's blocks that never fail: every
\* edge leads somewhere, every keeper and everything a phi chooses by is kept, only
\* a partition that always ends in the returning block returns, and one that never
\* leaves has that block.
BlocksConnect ==
  failed \notin {"a terminator with no successor", "leads to no block", "keeper is absent",
                 "incoming block was not kept", "Error in checking control flow structure",
                 "not finding original return block"}

\* The first of a partition's blocks that the original function gets to from s.
FirstKept(bbs, s) ==
  LET passed == Flood(prog.cfg, {s}, bbs.all)
  IN  bbs.all \cap ({s} \cup UNION {Succs(prog.cfg, b) : b \in passed})

\* A new function takes the path of the original.  It starts at the only one of its
\* blocks the original can get to first.  Where it jumps from one block to another,
\* every execution of the original gets to that block next, among the blocks of the
\* function, and cannot return before; where it leaves, no execution comes back,
\* unless the function loops back: then to its first block only.
FollowsTrace ==
  phase \in {"generate", "done"} =>
    \A bbs \in Range(bbss) :
      /\ FirstKept(bbs, 1) = {bbs.dominator}
      /\ \A b \in bbs.all : \A s \in Succs(prog.cfg, b) :
           IF bbs.remap[s] \in bbs.all
           THEN /\ FirstKept(bbs, s) = {bbs.remap[s]}
                /\ Exit(prog.cfg) \notin Flood(prog.cfg, {s}, bbs.all)
           ELSE FirstKept(bbs, s) \subseteq (IF LoopsBack(prog, bbs, controlFlowDuplication)
                                             THEN {bbs.dominator} ELSE {})

\* Every channel has one sender and at least one receiver, all behind the sender,
\* and the sender and every receiver execute the block of the instruction.
EndsMatch ==
  phase = "done" =>
    \A i \in DOMAIN prog.code :
      LET senders   == {k \in DOMAIN functions : i \in functions[k].send}
          receivers == {k \in DOMAIN functions : i \in functions[k].recv}
      IN  /\ Cardinality(senders) = (IF receivers = {} THEN 0 ELSE 1)
          /\ \A s \in senders, r \in receivers :
               s < r /\ BlockOf(prog, i) \in bbss[s].all \cap bbss[r].all

\* A branch tag means the same to the partition that sends it and to those that
\* receive it: each of them goes to its own block for the successor the sender
\* takes, and the channel is wide enough for every tag.
TagsAgree ==
  phase = "done" =>
    \A k, q \in DOMAIN functions :
      \A t \in {t \in functions[k].send \cap functions[q].recv : IsTerm(prog, t)} :
        \A n \in DOMAIN prog.cfg.succ[BlockOf(prog, t)] :
          LET succ == prog.cfg.succ[BlockOf(prog, t)]
              tag  == TagSent(succ, n)
          IN  /\ tag < 2 ^ integerWidthForSuccessors(Len(succ))
              /\ TagDestination(prog, bbss[q], succ, tag)
                   = mapOriginalBBDest2CurrentBBDest(prog, bbss[q], succ[n])

\* "note if a bb is only in sourceBBs/insBBs, then its instructions are already
\* properly ordered, else ..." they are put back: in every block of a new function
\* sends, receives and computations stand in the program order of the original.
ProgramOrder ==
  \A f \in Range(functions) : \A b \in DOMAIN f.blocks : \A m, n \in DOMAIN f.blocks[b] :
    m < n /\ f.blocks[b][m].ins # 0 /\ f.blocks[b][n].ins # 0
      => f.blocks[b][m].ins <= f.blocks[b][n].ins

\* "terminators will only be generated if it is not an actualIns here" (they are
\* generated elsewhere if it is): every block of a new function ends in one jump or
\* return, with nothing behind it.
Ends(x) == x.op = "ret" \/ (x.op = "comp" /\ IsTerm(prog, x.ins))
EveryBlockEnds ==
  \A f \in Range(functions) : \A b \in DOMAIN f.blocks :
    \E last \in DOMAIN f.blocks[b] :
      {n \in DOMAIN f.blocks[b] : n >= last \/ Ends(f.blocks[b][n])} = {last}
        /\ Ends(f.blocks[b][last])

\* AllBBs has "all the necessary BBs for control flow purpose" (generatePartitions.h):
\* no new function executes its first block, which it starts with, when the original
\* would have returned without reaching it.
StartsWhenReached ==
  functions # <<>> =>
    \A bbs \in Range(bbss) : Exit(prog.cfg) \notin Flood(prog.cfg, {1}, {bbs.dominator}) \ {bbs.dominator}

\* What the pass asserts of its own results holds for every function it accepts:
\* "partition does not see allocated channel", "dominator check failed: dominator not
\* in the bb list" and "original dominator does not match regenerated dominator", "some
\* basic blocks fan out to non-included basic blocks inside a loop, shouldn't happen
\* when control flow is is duplicated", "a non-included basic block diverge to multiple
\* basic blocks, we cannot construct a proper cfg".
ChannelIsAllocated   == failed # "partition does not see allocated channel"
DominatorIsKept      == failed \notin {"dominator not in the bb list", "dominator does not match"}
ExitsAreOutsideLoops == failed # "fans out inside a loop"
KeepersSuffice       == failed # "diverges to multiple blocks"
AssertionsHold == ChannelIsAllocated /\ DominatorIsKept /\ ExitsAreOutsideLoops /\ KeepersSuffice

\* "got to do IR level branch to send different things -- and each branch would then go
\* to their own destination": a block made to send a switch's tag jumps to the new
\* block of the successor it stands for.
SendBlocksLead ==
  \A k \in DOMAIN functions : \A b \in DOMAIN functions[k].sendBlocks :
    \A n \in DOMAIN functions[k].sendBlocks[b] :
      functions[k].sendBlocks[b][n].to
        = mapOriginalBBDest2CurrentBBDest(prog, bbss[k], prog.cfg.succ[b][n])
=============================================================================
