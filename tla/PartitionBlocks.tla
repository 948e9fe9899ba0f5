-------------------------- MODULE PartitionBlocks --------------------------
(***************************************************************************)
(* DAGPartition::setupBBStructure: which basic blocks of the original      *)
(* function a partition has to execute.  generateBBList collects the       *)
(* blocks of its instructions, of their operands and everything between;   *)
(* trimBBList takes out the blocks control merely passes through.          *)
(*                                                                         *)
(* A partition is given by the set mine of its instructions.               *)
(***************************************************************************)
EXTENDS InstructionGraph

Operands(prog, mine)   == UNION {Range(prog.code[i].args) : i \in mine}
BlocksOf(prog, insns)  == {BlockOf(prog, i) : i \in insns}
insBBs(prog, mine)     == BlocksOf(prog, mine)
sourceBBs(prog, mine)  == BlocksOf(prog, Operands(prog, mine))

\* Mutation: the blocks a phi chooses between are not added.
Unowned(prog, mine) == {}

\* The incoming blocks of the partition's phis: the predecessors they choose between.
Incoming(prog, mine) ==
  UNION {Preds(prog.cfg, BlockOf(prog, i)) : i \in {i \in mine : prog.code[i].kind = "phi"}}

PhiOwners(prog, mine) == Incoming(prog, mine)

\* searchToBasicBlock: a depth-first search that never enters a block twice nor
\* the dominator; what it keeps are the blocks from which it found the target,
\* which need not be all that lead there.  With storage on the way to current the
\* search can go n blocks deep, which leaves room for all of them.
Search(g, source, target, domInter) ==
  LET search[n \in 0 .. Cardinality(BlocksIn(g))] ==
        [storage \in Seq(BlocksIn(g)) |-> [current \in BlocksIn(g) |->
           LET succ == g.succ[current]
               tries[m \in 0 .. Len(succ)] ==
                 IF m = 0 THEN [keep |-> FALSE, path |-> Append(storage, current)]
                 ELSE LET found == tries[m - 1]
                          r     == search[n - 1][found.path][succ[m]]
                      IN  IF succ[m] \in Range(found.path) \/ succ[m] = domInter \/ ~r.keep
                          THEN found ELSE r
           IN  IF n = 0 THEN [keep |-> FALSE, path |-> storage]
               ELSE IF current = target THEN [keep |-> TRUE, path |-> Append(storage, current)]
               ELSE IF tries[Len(succ)].keep THEN tries[Len(succ)]
               ELSE [keep |-> FALSE, path |-> storage]]]
  IN  search[Cardinality(BlocksIn(g))][<<>>][source]

\* mergePath2BBIntoStorage
PathBlocks(g, src, dest, domInter) ==
  LET r == Search(g, src, dest, domInter)
  IN  IF r.keep THEN Range(r.path) ELSE {}

\* Everything the searches put into AllBBs, from the dominator, from every
\* relevant block to every other, and from every block around to itself.
Connect(prog, mine, dominator) ==
  LET g    == prog.cfg
      real == insBBs(prog, mine) \cup sourceBBs(prog, mine)
  IN  {dominator}
        \cup (UNION {PathBlocks(g, src, dest, dominator) : src \in real \cup {dominator}, dest \in real})
        \cup PhiOwners(prog, mine)
        \cup UNION {UNION {PathBlocks(g, s, b, dominator) : s \in Succs(g, b)} : b \in real \ {dominator}}

\* The loop that adds the predecessors of everything but the dominator, which
\* itself moves up as blocks are added.
AddPredecessors(g, all, dominator) ==
  LET round[n \in 0 .. Cardinality(BlocksIn(g)) + 1] ==  \* each but the last adds a block
        IF n = 0 THEN [all |-> all, added |-> all, dominator |-> dominator]
        ELSE LET r    == round[n - 1]
                 now  == r.all \cup r.added
                 dom  == CommonDominator(g, {r.dominator} \cup r.added)
                 last == IF dom = r.dominator THEN r.added ELSE r.added \cup {r.dominator}
             IN  IF r.added = {} THEN r
                 ELSE [all |-> now, dominator |-> dom,
                       added |-> (UNION {Preds(g, b) : b \in last \ {dom}}) \ (now \cup {dom})]
  IN  round[Cardinality(BlocksIn(g)) + 1]

\* With duplicated control flow a partition that starts inside a loop gets all
\* of that loop, so that it leaves it with everybody else.
WholeLoops(g, bbs) ==
  IF LoopDepth(g, bbs.dominator) = 0 THEN bbs
  ELSE LET all == UNION {CfgScc(g, b) : b \in bbs.all}
       IN  [bbs EXCEPT !.all = all, !.dominator = CommonDominator(g, {@} \cup all)]

generateBBList(prog, mine, cfDup) ==
  LET g   == prog.cfg
      dom == CommonDominator(g, insBBs(prog, mine) \cup sourceBBs(prog, mine))
      all == Connect(prog, mine, dom)
      bbs == AddPredecessors(g, all, dom)
  IN  IF cfDup THEN WholeLoops(g, bbs) ELSE bbs

-----------------------------------------------------------------------------
\* The keepers a search backwards from one keeper meets first: blocks it does not
\* post-dominate, behind blocks of the partition that it does.
NextKeepersBack(g, all, keepers, seed) ==
  LET before == [b \in BlocksIn(g) |->
                   IF b \in all \ keepers /\ PostDominates(g, seed, b) THEN Preds(g, b) ELSE {}]
  IN  {b \in Closure(before, Preds(g, seed)) :
         b \in all \ keepers /\ ~PostDominates(g, seed, b)}

\* The queue of keepers, run until it is empty.
Keepers(g, all, real) ==
  LET keepers[n \in 0 .. Cardinality(BlocksIn(g))] ==
        IF n = 0 THEN real
        ELSE LET k == keepers[n - 1]
             IN  k \cup UNION {NextKeepersBack(g, all, k, s) : s \in k}
  IN  keepers[Cardinality(BlocksIn(g))]

\* search4NextKeeper: the kept or outside blocks an edge to b leads to, and the
\* others on the way there.
Kept(all, keepers, b) == b \in keepers \/ b \notin all
Ahead(g, all, keepers, b) ==
  Closure([x \in BlocksIn(g) |-> IF Kept(all, keepers, x) THEN {} ELSE Succs(g, x)], {b})
NextKeepers(g, all, keepers, b) == {x \in Ahead(g, all, keepers, b) : Kept(all, keepers, x)}

\* What trimBBList leaves: the blocks, where each original edge leads now, the
\* blocks that no longer need a branch tag, and the assertion that failed, if any.
trimBBList(prog, mine, bbs) ==
  LET g       == prog.cfg
      real    == insBBs(prog, mine) \cup sourceBBs(prog, mine) \cup PhiOwners(prog, mine)
      keepers == Keepers(g, bbs.all, real)
      targets == UNION {Succs(g, b) : b \in keepers}
      Next4(b) == NextKeepers(g, bbs.all, keepers, b)
      remap   == [b \in targets |-> IF Next4(b) = {} THEN b ELSE CHOOSE x \in Next4(b) : TRUE]
  IN  [all       |-> keepers,
       dominator |-> bbs.dominator,
       remap     |-> remap,
       singleSuc |-> {b \in keepers : /\ b # Exit(g)
                                      /\ \A s, t \in Succs(g, b) : remap[s] = remap[t]},
       failed    |-> IF Exit(g) \in UNION {Ahead(g, bbs.all, keepers, b) : b \in targets} /\ ~Kept(bbs.all, keepers, Exit(g))
                     THEN "a terminator with no successor"
                     ELSE IF \E b \in targets : Cardinality(Next4(b)) > 1 THEN "diverges to multiple blocks"
                     ELSE IF \E b \in targets : Next4(b) = {} THEN "leads to no block"
                     ELSE IF ~(keepers \subseteq bbs.all) THEN "keeper is absent"
                     ELSE ""]

checkDominator(g, bbs) ==
  LET dom == CommonDominator(g, bbs.all)
  IN  IF dom \notin bbs.all THEN "dominator not in the bb list"
      ELSE IF dom # bbs.dominator THEN "dominator does not match" ELSE ""

allExitOutsideLoop(g, bbs) ==
  \A b \in bbs.all : \A s \in Succs(g, b) :
     bbs.remap[s] \notin bbs.all => LoopDepth(g, bbs.remap[s]) = 0

\* setupBBStructure, with the checks at its end.
setupBBStructure(prog, mine, cfDup) ==
  LET bbs   == trimBBList(prog, mine, generateBBList(prog, mine, cfDup))
      check == IF bbs.failed # "" THEN bbs.failed
               ELSE IF checkDominator(prog.cfg, bbs) # "" THEN checkDominator(prog.cfg, bbs)
               ELSE IF cfDup /\ ~allExitOutsideLoop(prog.cfg, bbs) THEN "fans out inside a loop"
               ELSE ""
  IN  [bbs EXCEPT !.failed = check]

needBranchTag(bbs, b) == b \notin bbs.singleSuc
=============================================================================
