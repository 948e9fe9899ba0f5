---------------------------- MODULE NewFunctions ----------------------------
(***************************************************************************)
(* DppFunctionGenerator: the function generated for one partition, given   *)
(* by the set mine of its instructions and its blocks bbs (the result of   *)
(* setupBBStructure).  What the function does in a block is a sequence of  *)
(* items [op, ins]: receive the value or branch tag of ins, compute it     *)
(* (for a terminator: jump), send it, or, with ins = 0, return.            *)
(***************************************************************************)
EXTENDS PartitionBlocks, SequencesExt

Recv(i) == [op |-> "recv", ins |-> i]
Comp(i) == [op |-> "comp", ins |-> i]
Send(i) == [op |-> "send", ins |-> i]
RetVoid == [op |-> "ret",  ins |-> 0]

terminatorNotLocal(prog, mine, b) == Term(prog, b) \notin mine
isFlowOnlyBB(prog, mine, b) == b \notin insBBs(prog, mine) \cup sourceBBs(prog, mine)

\* The branch tags a partition has to be told.
TagsWanted(prog, mine, bbs) ==
  {Term(prog, b) : b \in {b \in bbs.all : /\ terminatorNotLocal(prog, mine, b)
                                          /\ needBranchTag(bbs, b)
                                          /\ b # Exit(prog.cfg)}}

\* srcInstruction of collectPartitionFuncArguments: what comes from elsewhere.
Receives(prog, mine, bbs) == TagsWanted(prog, mine, bbs) \cup (Operands(prog, mine) \ mine)

\* Mutation: whoever executes a branch's block is taken to want its tag.
ReceiverOfEveryTag(prog, mines, bbss, k, i) ==
  \E q \in DOMAIN mines \ {k} :
     IF IsTerm(prog, i) THEN BlockOf(prog, i) \in bbss[q].all
                        ELSE i \in Operands(prog, mines[q])

\* receiverPartitionsExist, for partition k of the partitions mines.
ReceiverExists(prog, mines, bbss, k, i) ==
  \E q \in DOMAIN mines \ {k} :
     IF IsTerm(prog, i) THEN i \in TagsWanted(prog, mines[q], bbss[q])
                        ELSE i \in Operands(prog, mines[q])

\* instToSend
Sends(prog, mines, bbss, k) == {i \in mines[k] : ReceiverExists(prog, mines, bbss, k, i)}

-----------------------------------------------------------------------------
\* createNewFunctionBBs: the blocks control leaves the partition to, all one
\* extra block in the new function ...
OutsideBBs(prog, bbs) ==
  {bbs.remap[s] : s \in UNION {Succs(prog.cfg, b) : b \in bbs.all}} \ bbs.all

hasReturn(prog, mine) == \E i \in mine : IsReturn(prog, i)

\* Mutation: the extra block always returns.
NeverLoopsBack(prog, bbs, cfDup) == FALSE

\* ... which loops back to the dominator if control flow is not duplicated.
LoopsBack(prog, bbs, cfDup) ==
  ~cfDup /\ LoopDepth(prog.cfg, bbs.dominator) # 0 /\ OutsideBBs(prog, bbs) # {}

\* A function without the return, but with its block, returns there: a return that
\* is generated when the block is created.
Created(prog, mine, bbs, b) ==
  IF b = Exit(prog.cfg) /\ OutsideBBs(prog, bbs) = {} /\ ~hasReturn(prog, mine)
  THEN <<RetVoid>> ELSE <<>>

createFailure(prog, mine, bbs, cfDup) ==
  IF LoopsBack(prog, bbs, cfDup) THEN ""
  ELSE IF OutsideBBs(prog, bbs) # {} /\ hasReturn(prog, mine) THEN "Error in checking control flow structure"
  ELSE IF OutsideBBs(prog, bbs) = {} /\ ~hasReturn(prog, mine) /\ Exit(prog.cfg) \notin bbs.all
       THEN "not finding original return block"
  ELSE ""

\* The jump at the end of a block whose terminator is another partition's.
ForeignTerm(prog, bbs, t) ==
  IF needBranchTag(bbs, BlockOf(prog, t)) THEN <<Recv(t), Comp(t)>> ELSE <<Comp(t)>>

-----------------------------------------------------------------------------
\* Branch tags.  With n blocks in the original, the new function's are numbered n + 1
\* to 2n for the block of each original one, 2n + 1 for the extra block, 0 for none.
\* mapOriginalBBDest2CurrentBBDest knows original blocks only.
mapOriginalBBDest2CurrentBBDest(prog, bbs, dest) ==
  LET n == Cardinality(Blocks(prog))
  IN  IF dest \notin Blocks(prog) THEN 0
      ELSE IF bbs.remap[dest] \in bbs.all THEN n + bbs.remap[dest] ELSE 2 * n + 1

\* ceil(log2(numSuccessor)).  The code takes the logarithm in floating point, with the
\* same result for every int: a double has the exact logarithm of a power of two, and
\* that of one more is more above it than the logarithm is off.
integerWidthForSuccessors(numSuccessor) ==
  CHOOSE w \in 0 .. numSuccessor : /\ 2 ^ w >= numSuccessor
                                   /\ w > 0 => 2 ^ (w - 1) < numSuccessor

FirstOf(succ, n) == CHOOSE m \in DOMAIN succ : /\ succ[m] = succ[n]
                                               /\ \A l \in 1 .. m - 1 : succ[l] # succ[n]

\* Mutation: the condition itself is sent, 1 for the true branch.
TagSentAsCondition(succ, n) == IF Len(succ) = 2 THEN 2 - n ELSE FirstOf(succ, n) - 1

\* The tag pushed when successor n is taken: its index, for a switch the first one
\* of the same block.
TagSent(succ, n) == (IF Len(succ) = 2 THEN n ELSE FirstOf(succ, n)) - 1

\* generateGenericSwitchStatement: the case of each index, the first successor the
\* default.
TagDestination(prog, bbs, succ, tag) ==
  mapOriginalBBDest2CurrentBBDest(prog, bbs, succ[IF tag + 1 \in DOMAIN succ THEN tag + 1 ELSE 1])

\* The owner of a switch sends its tag in a block of its own per successor.  The first
\* one of a destination is filled with the store and with a jump to the block that
\* the destination of the successor, already mapped, is mapped to; others stay empty.
SendBlocks(prog, bbs, sends) ==
  [b \in {b \in bbs.all : Term(prog, b) \in sends /\ Len(prog.cfg.succ[b]) > 2} |->
    LET succ == prog.cfg.succ[b]
    IN  [n \in DOMAIN succ |->
          IF FirstOf(succ, n) = n
          THEN [tag |-> TagSent(succ, n),
                to  |-> mapOriginalBBDest2CurrentBBDest(prog, bbs,
                          mapOriginalBBDest2CurrentBBDest(prog, bbs, succ[n]))]
          ELSE [tag |-> -1, to |-> 0]]]

-----------------------------------------------------------------------------
\* populateFlowOnlyBB and populateContentBBSrcIns: the receives of a block and the
\* terminator that is not the partition's own, in program order.
Sources(prog, mine, bbs, b) ==
  LET here == {i \in Instrs(prog) \ mine : BlockOf(prog, i) = b /\ ~IsReturn(prog, i)}
      todo == IF isFlowOnlyBB(prog, mine, b) THEN {Term(prog, b)}
              ELSE IF b \in sourceBBs(prog, mine)
              THEN {i \in here : IsTerm(prog, i) \/ i \in Operands(prog, mine)}
              ELSE {}
  IN  FlattenSeq([i \in Instrs(prog) |-> IF i \notin todo THEN <<>>
                                         ELSE IF IsTerm(prog, i) THEN ForeignTerm(prog, bbs, i)
                                         ELSE <<Recv(i)>>])

\* generateActualInstruction: an instruction, if it has not been, after its operands.
Generate(prog, mine, done, i) ==
  LET generate[j \in Instrs(prog)] == [d \in Seq(Instrs(prog)) |->
        LET args == IF prog.code[j].kind = "phi" THEN <<>> ELSE prog.code[j].args
            each[n \in 0 .. Len(args)] == IF n = 0 THEN d
                                          ELSE IF args[n] \in mine THEN generate[args[n]][each[n - 1]]
                                          ELSE each[n - 1]
        IN  IF j \in Range(d) THEN d ELSE Append(each[Len(args)], j)]
  IN  generate[i][done]

\* populateContentBBActualIns, for the blocks in some order of their addresses: the
\* instructions of the partition in the order of generation.
Generated(prog, mine, blockOrder) ==
  LET Visited(b) == FlattenSeq([i \in Instrs(prog) |->
                      IF i \in mine /\ BlockOf(prog, i) = b THEN <<i>> ELSE <<>>])
      visited == FlattenSeq([k \in DOMAIN blockOrder |-> Visited(blockOrder[k])])
      done[n \in 0 .. Len(visited)] ==
        IF n = 0 THEN <<>> ELSE Generate(prog, mine, done[n - 1], visited[n])
  IN  done[Len(visited)]

\* A computed value is sent right after it, a branch tag before the jump.
ActualItems(prog, sends, i) ==
  IF i \notin sends THEN <<Comp(i)>>
  ELSE IF IsTerm(prog, i) THEN <<Send(i), Comp(i)>> ELSE <<Comp(i), Send(i)>>

\* Mutation: no reordering.
Unordered(prog, mine, b, items) == items

\* The items of the instructions in I.
Only(items, I) == FlattenSeq([n \in DOMAIN items |-> IF items[n].ins \in I THEN <<items[n]>> ELSE <<>>])

\* The reordering at the end of generateFunction: in a block with both kinds of
\* instructions those that are no terminators come first, in program order.
Reordered(prog, mine, b, items) ==
  LET last == {0} \cup {i \in Instrs(prog) : IsTerm(prog, i)}
  IN  IF b \in insBBs(prog, mine) \cap sourceBBs(prog, mine)
      THEN FlattenSeq([i \in Instrs(prog) |-> IF i \in last THEN <<>> ELSE Only(items, {i})])
             \o Only(items, last)
      ELSE items

\* The code of every block of the new function.
NewBlocks(prog, mine, bbs, sends, blockOrder) ==
  LET order == Generated(prog, mine, blockOrder)
      Actual(b) == FlattenSeq([n \in DOMAIN order |->
                     IF BlockOf(prog, order[n]) = b THEN ActualItems(prog, sends, order[n]) ELSE <<>>])
  IN  [b \in bbs.all |-> Reordered(prog, mine, b,
         Created(prog, mine, bbs, b) \o Sources(prog, mine, bbs, b) \o Actual(b))]

\* completePhiNodes: every block a phi chooses by has an equivalent (blocks outside
\* are mapped to the extra end block).
phiFailure(prog, mine, bbs) ==
  IF Incoming(prog, mine) \subseteq bbs.all \cup OutsideBBs(prog, bbs)
  THEN "" ELSE "incoming block was not kept"
=============================================================================
