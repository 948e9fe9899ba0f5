# ArchSyn in TLA+

ArchSyn patches LLVM 3.6 with passes that turn one sequential function into a
pipeline of functions ("decoupled processing") and print it as C: as threads
joined by software FIFOs (the CPU back end) or as cores joined by hardware FIFOs
(the HLS back end).  This directory models what has to be right for the pipeline
to compute what the function did, model-checks it with TLC on small instances
and proves its safety with TLAPS for all instances: of the queue, of both back
ends' pipelines, of the loop split, of the partitions, blocks, channels and order
of instructions the compiler pass produces, and of the C it prints.

Paths below are relative to `src/`.

## 1. Inventory

| Part | Code | State | Operations |
|---|---|---|---|
| single_fifo | `include/dpp/comm.h:8-62` | ring `storage`, `head`, `tail`, `space`; a mutex; one condition variable | `write`, `read` (both block) |
| fifo_channel, channel_info, push, pop | `comm.h:65-160` | one single_fifo per reader of a value | `write` fills the slots one after another, `read` empties the caller's |
| generated CPU program | `lib/Transforms/GenSynthC/GenCFunc.h` | threads, channels and argument packs in the top level's frame | create the stages, run them, join them |
| C printer | `GenCFunc.h`, `GenCInsn.h`, `GenCFuncUtil.h` | per function: phi pre-assignments, names, printed text | one printer per instruction |
| InstructionGraph | `lib/Analysis/InstructionGraph.cpp` | nodes, dependence edges, predecessor cache | built per function, `releaseMemory` |
| DecoupleInsScc, partitioning | `DecoupleInsScc.cpp`, `generatePartitions.h` | components in order, partitions, instruction -> partition | SCCs, latency heuristic, order and cycle checks |
| DecoupleInsScc, blocks | `DecoupleInsScc.cpp:95-660`, `generatePartitionsUtil.h` | per partition: own blocks, operand blocks, all blocks, dominator, redirections | `generateBBList`, `trimBBList`, checks |
| DecoupleInsScc, functions | `generateNewFunctions.cpp`, `generateNewInstructions.h` | instruction -> channel, old -> new block | arguments, blocks, receives, sends, phis, order, top level |
| DecoupleInsScc, the pass object | `DecoupleInsScc.cpp` | lists kept from one function to the next | `runOnFunction`, `releaseMemory` |
| Genpar | `lib/Transforms/Genpar/Genpar.cpp` | one value map per function | clone an outermost loop, split its index range |
| HLS back end | `GenHLSTcl.h` | in hardware: source and destination FIFOs, fork cores, cores; it writes the Tcl that describes them | cores run, forks copy, the processor starts and polls |
| DecoupleMemAccess | `lib/Transforms/DecoupleMemAccess` | unfinished: prints, changes nothing | - |
| drivers | `tools/*` | command lines | fill a pass manager |

**How the parts interact.** InstructionGraph is required by DecoupleInsScc; the
components of the graph become partitions, a partition's instructions determine
its blocks, its blocks determine which values and branch tags it receives, and
those determine the channels.  The new functions carry attributes on their
arguments (read or write channel); GenSynthC reads only those attributes and
prints one `fifo_channel` per channel with one slot per reading call.  At run time
the stages meet only in single_fifos and in the join of the top level.

**What is hard.** At run time: two threads per queue under a single condition
variable that is signalled conditionally; a write to several readers that blocks
half way; stages drifting apart by queue capacities; a top level whose frame holds
everything.  At compile time nothing is concurrent, but the result depends on the
order of use lists and on pointer order; a block set is grown, corrected and
trimmed in steps, each relying on what the last left; the sending and the
receiving side of a channel are decided by different code; and a pass object
outlives the function.  A printer turns LLVM's parallel phis and exact widths into
a sequence of C assignments between signed integers.  In hardware queues and forks
are not reset between calls.  `PROJECT.json` lists every hazard with its line.

**What makes each part correct.**

* queue: a bounded FIFO, no lost wake-up, a call returns when the queue permits;
* channels and stages: every pop gets the value of the block execution it is in, no
  deadlock, the top level returns with everything finished and drained;
* partitioning: the order of components is topological, partitions are acyclic;
* blocks: every edge leads to a kept block or out, a stage takes the original's path;
* functions: each channel has one writer and matching readers, program order inside
  a block, every block ends in one terminator;
* branch tags mean the same to their sender and to every receiver;
* printed C: it takes the branches and returns the value of the LLVM function;
* hardware: as for channels and stages, and nothing is left over for the next call;
* the pass object: a function is processed from what belongs to it;
* Genpar: the two copies together run the iterations of the loop, in order.

## 2. Modules

| Module | Models | Composes |
|---|---|---|
| `BoundedQueue` | the promise of a queue: a call is invoked, takes effect once, returns (abstract, no code) | |
| `SingleFifo` | `single_fifo::write`/`read` between their synchronisation points | implements `BoundedQueue` |
| `SingleFifoProofs` | its types and invariant, no lost wake-up, the refinement | |
| `Data` | what is reached in a graph; a queue that lists a set in order (no code) | |
| `DataProofs` | induction over sets, functions by recursion, graph searches, growing and merged lists, powers of two | `Data` |
| `StagePlan` | what a function is compiled to: senders, receivers, their order in a block | `Data` |
| `StageDataflow` | what any back end promises of a plan (abstract, no queues) | `StagePlan` |
| `StagePipeline` | the emitted CPU program: stages, channels, create and join | `StagePlan`; its queues are `BoundedQueue`'s effects; implements `StageDataflow` |
| `StagePipelineProofs` | its invariant, right rounds, no deadlock, clean return, the refinement | |
| `HlsPipeline` | the emitted hardware: cores, FIFOs, forks, processor, call after call | `StagePlan`; implements `StageDataflow` |
| `HlsPipelineProofs` | the same of the hardware, call after call | |
| `MachineInts` | two's complement integers of a width | |
| `CountedLoop` | the loop before Genpar (abstract) | `MachineInts` |
| `LoopSplit` | the loop after Genpar | implements `CountedLoop` |
| `LoopSplitProofs` | that it does, for every width | |
| `Cfg` | control-flow graphs with LLVM's dominators and loops (external) | `Data` |
| `InstructionGraph` | uses and control dependences | `Cfg` |
| `PartitionBlocks` | `setupBBStructure` | `InstructionGraph` |
| `NewFunctions` | `DppFunctionGenerator` | `PartitionBlocks` |
| `DecoupleInsScc` | the pass on one function, step by step | all four |
| `NewFunctionsProofs` | components, dominators; kept blocks, receives, tags; paths of a partition, order of a block | |
| `DecoupleInsSccProofs` | topological order, acyclic partitions, matching channel ends, agreed tags, connected blocks, the original's path, program order | |
| `PassObject` | `runOnFunction` over the functions of a module | |
| `PrintedInts` | one LLVM instruction and the C expression printed for it | |
| `PrintedC` | an LLVM function and the C function printed for it, side by side | `PrintedInts`, `Cfg` |
| `PrintedCProofs` | what the printed operators compute, the assignments of a block, both functions in step | |
| `MCSingleFifo`, `MCStagePipeline`, `MCHlsPipeline`, `MCLoopSplit`, `MCSamples`, `MCDecoupleInsScc`, `MCPassObject`, `MCPrintedC` | instances for TLC | |

### 2.1 SingleFifo

`pc[t]` names the statement a thread is at: `lock`, the loop's `test`, `blocked` in
`pthread_cond_wait`, `transfer` (the slot), `count` (space and index), `signal`,
`unlock`.  The writer and the reader share the actions because the two functions of
the code are mirror images; what differs (`MustWait`, `MustSignal`, which slot and
index) is in one operator or one IF each.  `pthread_cond_wait` releases the
mutex and blocks in one step and re-enters at `lock`; it may also return with no
signal.  One writer and one reader per queue is what the top level generates:
a channel's argument is written by the one function that owns the instruction, and
every reading call has a slot of its own.

### 2.2 StagePipeline

The compiled plan (`owner`, `readers`) is chosen once, arbitrarily but forward, as
the partitions are cut from a topological order.  An execution is a trace of
blocks; a value is represented by the *round* (position in the trace) that
computed it.  A stage works through the sends and receives of its block in program
order - that is what `ProgramOrder` of `DecoupleInsScc`, a theorem, says of the generated
code.
`Push` is one iteration of the slot loop in `fifo_channel::write`, so a
fan-out can block between two readers; slots are served from the last reader
down, because slots are numbered along an LLVM use list, which is the reverse of
creation order.  The composition assumes what the compile-time models examine:
that each stage goes through the same trace (`FollowsTrace`, a theorem too) and is
entered when the original would be (see `StartsWhenReached` in section 5 for where it
is not).
In either direction, an order alone would suffice against deadlock: program
order inside a block, or channels that only lead forward.  The code has both.

`StageDataflow` is the promise without mechanism: a stage walks through its rounds, a
receive waits until its sender is past the send of that round, a call returns when
all stages have walked through it.  The mapping from `StagePipeline` regards a send
as past as soon as its slot loop starts; from then on the readers' own slots decide
when they may go on, which is the argument that a fan-out needs no order among
its slots.

### 2.3 HlsPipeline

One action per word moved: a core's `Send`, its `ReceiveForked` or `ReceiveDirect`
(the destination FIFO of a fork, or the source FIFO where there is one reader
only, as `connectDestFifos` decides), `ForkRead` and one `ForkWrite` per port.  The processor
runs `StartForks`, `StartCore`, `Poll` and `Return`, then calls the function again: the
generated function starts the forks on every call, which does nothing to a fork
that still runs, and resets nothing.  The depths are the script's 256 and 32
words as constants.

### 2.4 DecoupleInsScc and what it extends

A program is a control-flow graph and a list of instructions with block, kind,
operands and, for a load or store, the address computation.  `WellFormed` is what
LLVM's verifier guarantees of the function a pass is given: operands and successors
exist, each block ends in its one terminator, and an operand dominates its use unless
the use is a phi.  `ProgramsAssumption` adds `Connected`, that every block is reached
from the entry and reaches the one return: the pass refuses a second return and asks for
`-mergereturn` (`DecoupleInsScc.cpp:854`), the scripts run `-simplifycfg` before it, and
a function with an endless loop is excluded.  A switch has three successors or more, since
`-simplifycfg` makes smaller ones branches.  Nothing else is assumed of `Programs`.  The pass's phases
are actions: `BuildGraph`; `Visit`, one step of Tarjan's search with every choice of
next child a use list's order may give; `Partition` with both checks; `SetUp`, one
partition's blocks; `GenerateFunction`, one function, with every order of its blocks
(the code iterates a pointer-ordered map).  An assertion that fails ends the
run in phase `failed` with `failed` naming it, and so does the null pointer of
`generateNewFunctions.cpp:44`: a function that returns no value ends the pass when
the partition with its return becomes a function.  All of the partitions' blocks are
set up before the first function is generated, as in the code.

`PartitionBlocks` follows `generateBBList` (path search with its one shared visited
set, predecessor closure, whole loops) and `trimBBList` with every assertion;
`controlFlowDuplication` is the option `-disable-cf-dup`.  `NewFunctions` computes the
channels of a partition, the blocks it creates, and for each block the items
*receive, compute, send, return* in the order the code leaves them.  Branch
tags are numbers: `TagSent` for the value a sender stores, `TagDestination` for the block a
receiver's switch goes to, `SendBlocks` for the blocks the owner of a switch sends
from, with `mapOriginalBBDest2CurrentBBDest` as partial as the code's map.  What is
abstracted: names, types and instruction bodies.  Latencies are the table's, in which
a multiplication alone is long and branches and casts cost nothing.
`integerWidthForSuccessors` is the exact logarithm, which the floating-point one of the
code equals for every `int` once it is rounded up.

### 2.5 PassObject

A function is given by its numbers of nodes and partitions, which the model above
determines.  The actions are the sections of `runOnFunction`; generated functions are
appended to the module and visited too, as the pass manager does.  Reading a
deleted node or an unset pointer ends the run in phase `undefined`.

### 2.6 PrintedC

A function is executed twice, block by block, on the same inputs: as LLVM (bit
patterns, phis in parallel) and as the C text means (signed integers of the width
of the declared type, one assignment after another, phi assignments at the end of each
predecessor, `goto`, `switch`).  Targets are the CPU (`int` and `long`) and the HLS
back end (`ap_int` of the LLVM width).  Loads, pops and arguments are inputs; a
function whose LLVM execution is undefined (`nsw`, shift out of range) is not compared
further.

The printer is right only for functions that meet `Printable`, which the module
spells out, since nothing in the code checks it: no phi assignment reads a phi the
same block has just assigned; the terminator and the other successors do not read
one either; a switch goes to each block other than the default's for one value; no
`true` constant on the CPU, and no switch over an `i1` there (its case 1 is printed -1);
and every instruction is `Faithful` on its target (on the CPU,
for instance, `lshr`, `ult`, wrapping `add` and `sext` of an `i1` are not).  The conjuncts
are each needed: without any one of them TLC finds a function in the families of
the instance whose C differs.  So the runs and theorems do not say that swapped phis,
shared cases or those casts are printed right; they are printed wrong.  They
say that nothing else goes wrong: the place and order of phi assignments among the other
assignments, the cases `findCaseDest` answers for, and the arithmetic of the rest.  `WellFormed` is what LLVM's verifier guarantees of the
functions: operands of the instruction's types, a terminator with as many successors as
it needs and different case values, a phi argument for each block before.  `&` and `^`
work bit by bit, by a table of the resulting bits.  Operators the printer has and the model leaves out
(multiplication, division, `or`, `shl`, the other comparisons) print in the same way.

### 2.7 LoopSplit

The state is the bounds, the induction variable and which copy runs.  `half`
is a logical shift of the two's complement bits, as `CreateLShr` makes it;
increments wrap.  `Splittable` is the precondition under which the split is an
equivalence: `upper >= 0`, `upper < MaxInt`, `lower <= half + 1`.  The pass
itself does not check it; the loops it is used on start at 1 and end at a
positive bound.

## 3. Runs

| Run | Instance | Shows |
|---|---|---|
| `fifo` | 3 slots, 2 values; 3,866 states | `IInv` and its parts; refinement of the bounded queue; each call completes |
| `pipeline` | 3 stages, 3 instructions, every plan, FIFO_SIZE 2, 4 rounds; 302,601 states | slots hold exactly the difference of their ends; right round; no deadlock; clean return; the function returns; refinement of the dataflow graph |
| `hls` | 3 stages, 3 instructions, every plan, one-word FIFOs, 5 rounds in 2 calls; 194,969 states | the same of hardware, across calls |
| `decouple` | 8 graphs x 2 instructions x all operands and conditions, 10 samples, both options; 62,947 states | acyclic partitions, connected blocks, the original's path, matching channel ends, agreed tags, program order |
| `printed_c` | all printable functions of three families on both targets, `int` 3 bits, `long` 4 bits; 78,475 states | same branches, same phis and live values, same result |
| `loop_split` | 5-bit integers, all bounds; 5,485 states | ranges meet; iterations are the original's; it leaves the loop |
| `assertions_hold`, `starts_when_reached`, `every_block_ends`, `send_blocks_lead`, `casts_convert`, `cleared_up` | samples | the findings of section 5 |

**Bounds.** `fifo`: three slots are the fewest for which "just left empty", "just
left full" and neither are three different counts, and two values tell order and
duplication apart; the proofs remove the bound.  `pipeline`: the loop body runs
three times against two slots, so a sender fills a queue and waits while its
reader is held up by another; the side block puts the stages out of phase;
three stages are the fewest with a chain, a fan-out and a reconvergence.
`hls`: a word per FIFO makes every FIFO full and empty in turn and lets a
fork be held up between two ports; the first call runs the body as often as source
FIFO, fork and destination FIFO together hold, and the second call would read
whatever the first leaves.
`printed_c`: with widths 1 to 4 there are types narrower than both C types, equal
to `int`, and wider than it, and all operand values are tried; two phis (and a third for
the exit condition) are the fewest that swap, rotate and lose copies; two cases and a default
over three blocks give all ways to share one, for a number and for a truth value.
`loop_split`: all pairs of bounds of the width, including the largest usable one.
`decouple`: the graphs are the shapes the block code treats differently
(straight, if, diamond, switch, both kinds of loop, a loop with an if, a nest);
two data instructions give up to three partitions with terminators, and the samples
add the longer shapes (accumulation over a loaded array, return out of a nest).

`CHECK_DEADLOCK` is off where the modelled program ends: a compiler pass and a
loop.  It is on for `fifo`, whose threads call for ever, and for `pipeline`, where a
returned top level is the one permitted end (`MCNext` stutters there and nowhere
else), and in the same way for `hls` (after the last call) and `printed_c` (after the
return), so TLC's deadlock check is part of the argument.

**Fairness.** `SingleFifo`: weak fairness of a thread inside a call, because the
scheduler runs runnable threads, and strong fairness of `Lock`, because the
other stage and spurious wake-ups take the mutex in between - a mutex that is free
again and again is obtained eventually, which is what the implementation's
queueing gives and the program needs.  No call has to be made and no spurious
wake-up has to happen.  `StagePipeline`: weak fairness of each thread and of the
top level.  It relies on a call to a queue completing whenever the queue
lets it, which is `CallsComplete` of `BoundedQueue`.  `TopReturns` and `AllReturn` are
about the pipelines of the default option, in which a stage repeats the loops around
its blocks; the scripts in `archsyn_regression` use it.  With `-disable-cf-dup` a stage
whose first block is in a loop jumps back to it at its end (`LoopsBack` in
`NewFunctions`) and has no return: a thread like that is never joined, whatever
the fairness.  What the two back ends do with such stages is not modelled.
`HlsPipeline`: weak fairness of each core and fork, which are
circuits that make a step whenever their FIFOs let them, and of the processor's
program.  `LoopSplit`: a sequential program continues.  The compiler models state no liveness; their phases only go
forward.

**Mutants.** Every property of a passing run has a changed version of a modelled
definition (the operators commented `Mutation:`, unused otherwise) under which it
fails: a wake-up without the mutex, a signal on one threshold, no wrap-around, a
fan-out that stops after its first slot, a write that does not wait, a pop that
does not consume, a join that does not wait, an unreversed list of components, and
others of this kind.

## 4. Proofs

All theorems hold for every value of the constants that the named assumptions
admit.  `PROJECT.json` lists them; the lemmas they rest on stand before them.

### 4.1 The queue (`SingleFifoProofs`)

For every `FIFO_SIZE >= 1` and every set of values:

* `Invariance`: `Spec => []IInv`.  `NoLostWakeup` is not inductive: to know that the
  thread about to signal really signals, one has to know that it alone changes
  `space` (`ExclusiveAccess`); that the counts stay in range one has to know that
  whoever is past the loop need not wait, which is a conjunct of `CallData`; that
  `head` is the slot after the last used one is `RingConsistent`.  The proof has a
  step per action and, under it, one per conjunct that the action disturbs. Modular
  arithmetic is confined to `RingIndex`, `NextSlot` and `RingHead`: indices run over
  at most two turns, where `%` is one subtraction.
* `NoLostWakeupHolds` and `TypeCorrect`: from `Invariance`.
* `FifoIsQueue`: `Spec => IsQueue`.  The abstract queue is read off the ring from
  `tail` on, and `Count` is the step that takes effect: the writer's appends its
  argument (`WriterCounts`), the reader's removes the head and returns it. Every
  other step is an invocation, a return or a stutter.

### 4.2 The CPU program (`StagePipelineProofs`)

For every number of stages and instructions, every plan, every trace of blocks and
every `FIFO_SIZE >= 1`:

* `Invariance`: the inductive invariant is `TypeOK`, the checked
  `ChannelHoldsTheDifference`, and four more.  A queue lists the rounds its sender
  is *past* and its reader is not; `Past` looks at the slots a send has still to
  serve, so `WorkInOrder` has to say that those are readers of the operation in
  progress, and that this operation is the least one left.  That the difference is
  never negative is `ReaderBehind`.  `OnlyReaders` and `JoinedDone` are there for
  the return.  What a push or a pop does to the list of rounds is `ListsAppended`
  and `ListsHead` of `DataProofs`: a sender at round `r` is not past any later
  one, so `r` goes to the end; the reader at `r` is past every earlier one, so it
  finds `r` at the head.
* `PopsTheRightRound`: `RightRound`, by `ListsHead`.
* `StagesDoNotDeadlock`: suppose every unfinished stage waits, and look at those in
  the least round (`LeastExists`).  None of them waits in a push: a full slot holds
  a round its reader is not past, which puts the reader in an earlier round
  (`PushWaitsForEarlier`).  So all of them wait in a pop; take the one with the
  least instruction.  Its queue is empty, so its sender is not past this value and,
  being in no earlier round, is in this one with a least instruction that can only
  be this very send.  It would be waiting in a push.  The argument holds for any
  depth and does not need that channels lead forward; it needs program order inside
  a block, which `ProgramOrder` checks of the compiler.
* `TopReturnsClean`: finished stages are past everything, and a difference of equals
  is empty.
* `PipelineIsDataflow`: `Spec => ActsAsDataflow`.  `Start` of a send is the dataflow
  step (the slot loop is what remains of it), the last pop of a receive is the
  other; a push, a create, a join is a stutter.

### 4.3 The hardware (`HlsPipelineProofs`)

For every number of stages and instructions, every plan, trace and sequence of calls
and all depths `>= 1`: the same theorems.  What is in transit is the concatenation
of a destination FIFO, the word in the fork if it still owes it to this port, and
the source FIFO; `ForkRead` and `ForkWrite` move a word inside that list and change
nothing (`PartsAppend`, `PartsHead` and their companions).  `PortsInUse` says that
only forks of channels with several readers hold a word and only their ports are
filled. `WithinCall` is new: a core that is not started stands at the beginning of
the call and a finished one at its end.  It is what makes `CallsReturnClean` a
statement across calls, since the FIFOs the next call finds are the ones this call
left.  In `HardwareDoesNotDeadlock` the argument of 4.2 gains a case: the value a
core waits for may have been sent and be kept by a fork, which waits at the full
port of another reader, and that one is in an earlier round (`ForkWaitsAtPort`,
`SentWaitsForEarlier`).

The proof attempt found a slip of the model: `CoreWaits` listed its three cases as a
`CASE` whose guards overlap, of which the semantics allows any; TLC takes the first.
It is a conditional now.

### 4.4 Partitions (`DecoupleInsSccProofs`, first half)

For every set of well-formed functions, whatever the analysis makes the edges and
whatever the order of the use lists:

* `AcyclicPartitions`: the two assertions on the order of the components never
  fail.  The invariant is `SearchInv`, with `Searched` for Tarjan's search as its
  heart: the entered instructions form a path (`Chained`), every child of a left one
  has been entered (`NoneMissed`), and, the reason why the reversed list is sorted,
  *when the last instruction of a component is left, everything that is reachable
  from it has been left* (`LeftBehind`).  `LeaveKeeps` is the step that matters:
  were something reachable still on the path, it would lead on to the instruction
  being left, and so belong to its component, which would not be complete.
  `UnwindKeeps` carries it through the several instructions one `Visit` leaves.
  `DagIsSorted` reads the order off the finished list, `PartitionsInOrder` and
  `PartsInOrder` that `barrierPartition` cuts it in contiguous pieces wherever it
  cuts, and `NoPartitionCycle` that pieces of a sorted list cannot depend on each
  other in a circle: all that is reachable from a part is later, and a part is not
  later than itself.
* The searches themselves are functions by recursion over finite data
  (`ClosureClosed` and `ClosureLeast` of `DataProofs`).  `DescendantsClosed`, `DescendantsLeast` and `SccIsClass` say what they compute,
  for every graph: the least set closed under the edges, and the classes of mutual
  reachability.

### 4.5 Blocks, channels and order (`NewFunctionsProofs`, `DecoupleInsSccProofs`, second half)

`FunctionsInv` adds to `SearchInv` that the partitions are disjoint and depend on
earlier ones only (`FoundInOrder`), that each has its blocks as `setupBBStructure`
computes them (`SetUpInOrder`), and that *each generated function receives only what
functions before it send* (`GeneratedInOrder`), for those that pass the assertion
"partition does not see allocated channel".

* `ChannelEndsMatch`: `EndsMatch`.  There is at most one sender because partitions
  are disjoint; there is a receiver because a send is computed from the partitions
  that need it, and the order of the two from `GeneratedInOrder`.  That both execute
  the block of the instruction is `SetUpFits`: the blocks kept by `trimBBList`
  include those of the partition's own instructions and of their operands.
* `TagsMeanTheSame`: `TagsAgree`.  `WideEnough` is `n <= 2^w` for the width the pass
  computes, from `Powers`; `FirstIsSame` that sender and receiver number equal
  successors by the first of them.
* `TypeCorrect`: all of `TypeOK`, among it that no instruction is entered twice and
  the block sets are blocks of the function.
* `ItemsInProgramOrder`: `ProgramOrder`, from `OrderInv` (the blocks of each
  generated function are in order).  A block is made in one of three ways.  Where both
  own and received items occur it is sorted by the original order, and what `Reordered`
  returns is in order since the terminator is last in an LLVM block
  (`ReorderedInOrder`).  Where only received values occur they come out of lists kept
  per instruction (`SourcesInOrder`, `ActualInOrder`).  Where only own ones occur
  `Generate` pulls operands forward before the instruction that needs them, which
  disturbs no order because an operand in the same block stands earlier and one in
  another block does not go into this one (`PlacedLocally`, `VisitedInOrder`,
  `InOrderGenerated`).  That `Generate` ends at all is a theorem about dominance: an
  operand that is not in the same block is in one with fewer dominators
  (`EarlierRanks`, `NeedsEarlier`), so a function by recursion along that rank exists
  (`RecursionExists` of `DataProofs`) and is the one the model defines (`GenerateIs`).
* `BlocksAlwaysConnect` and `FunctionsFollowTrace`: `BlocksConnect` and `FollowsTrace`
  of every function all of whose cycles are natural loops.  The invariant is
  `ShapeInv`: each partition set up is `Shaped` and, when the hypothesis holds,
  satisfies both.  The argument has four parts.
  *Dominators*: those of a block form a chain, the common dominator the pass computes
  exists and is unique, and what the dominator dominates is reached through it
  (`DominatorChain`, `CommonDominatorIs`, `DominatorReaches`).
  *Collection*: a round that adds predecessors adds all blocks between the dominator
  and the ones that count (`PredecessorsAdded`), the path search with its shared
  visited set leaves every collected block with a way on inside the collection or
  to its end (`TriedKeepsLeading`, `SearchLeads`), and whole loops are added with the
  headers they are entered by (`ListCollects`).
  *Trimming* removes what lies ahead of the new dominator and nothing that counts
  (`AheadIs`, `TrimLeaves`).  So an edge out of a kept block leads to exactly one first
  kept block or out for good (`LedToKept`, `LedOut`), which is `BlocksConnect`.
  *Traces*: a path of the original that leaves the blocks and comes back would close a
  cycle; a cycle is in a natural loop, whose blocks are in the collection together
  (`ComesBack`, `OnCycle`); an execution that reaches a partition enters it at its first
  block (`StartsFirst`); step by step the new function then is where the original
  next is (`TraceFollowed`).

The hypothesis `CyclesAreLoops` came out of a failed proof.  On an irreducible graph (a
cycle with two entries, which no natural loop contains) TLC finds `FollowsTrace`
violated while `BlocksConnect` holds: the pass asks `LoopInfo` for cycles, does not
add what `LoopInfo` does not know, and checks nothing.  Structured C programs have no such
cycles; a `goto` into a loop makes one.  The instance of the run `decouple` checks by an
`ASSUME` that all of its graphs meet the hypothesis, and in the run both properties
are checked as they stand.

### 4.6 The loop split (`LoopSplitProofs`)

For every width:

* `SplitRangesMeet`: `RangesMeet` is inductive as it stands once `half` is known to
  lie in the lower half of `0..upper` (`HalfBounds`).
* `SplitIsOriginal`: the jump into the clone is a stutter of the original loop since
  `i` already is the clone's first index; other steps map to their namesakes. Both
  assume `Splittable`, through `Init`.

### 4.7 The printed C (`PrintedCProofs`)

For all widths of `int` and `long` with `2 <= IntBits < LongBits`, both targets and every
well-formed function; the first three for those that are `Printable`:

* `ResultsAreEqual`, `BranchesAreTaken`, `PhisAreAssigned` (`SameResult`, `SamePath`,
  `VariablesAgree`) and `TypeCorrect`.  `VariablesAgree` is not inductive by itself: the
  variables have to fit their types, and a block with phis must have been entered from a
  block before it (`Entered`), both conjuncts of `Inv`, the inductive invariant.
* *One instruction.*  `ExpressionComputes`: what the C expression yields, cut to the type
  of its variable, stands for what the instruction yields, if the operands' variables
  stand for the operands.  Each group of operators has a lemma.  A sum is right as a
  residue, and without wrapping where `nsw` says so (`SumComputes`).  `&` and `^` are right
  because the bits of a negative number above its width repeat its sign
  (`BitsCompute`).  A shift commutes with reading the bits as signed (`ShiftComputes`).
  Comparisons, casts and selects are `ComparisonComputes`, `CastComputes` and
  `ChoiceComputes`; there the guards of `Faithful` are what the proof uses.
* *One block.*  `AfterBlockIs` and `AssignsInTurn` say what the two recursions compute:
  every value from the block's final values, every variable from those before it.
  `PlainAgrees` goes through a block's assignments by induction; what an instruction
  reads is a phi of the block, stands before it, or comes from outside and is then live
  where the block starts (`ArgHolds`, `UsedIsLive`).  `PhisAgree` is the
  sequence of phi assignments, where `PhisInOrder` is used.
* *From block to block.*  `EndOperands` and `SameNext` use `EdgesSplit`, that the terminator
  does not read what has just been assigned, and `CasesApart`: if `findCaseDest` does not
  answer for the case that applies, its block is the default's.  `AgreesNext` shows
  the agreement where the next block starts: what is live there and not computed by this
  block was live before it (`LiveBefore`).

Two conditions came out of failed proofs.  A switch over an `i1` is printed on the CPU with
`case -1`, which a variable of 0 or 1 never equals: `ConstantsAgree` now excludes it, and the
instance has such switches.  And a phi without arguments, in the entry block, would be
compared with a value that does not exist: LLVM's verifier rejects it, and `WellFormed`
says so.

### 4.8 Assumptions, and induction

Used are `FifoSizeAssumption`, `ValuesAssumption`, `MaxIntAssumption`,
`StagesAssumption`, `TraceAssumption`, `SizeAssumption`, `DepthAssumption`,
`CallsAssumption`, `WidthAssumption` and the `ProgramsAssumption` of `DecoupleInsScc` and of
`PrintedC`; TLC evaluates each in the runs above.
`CyclesAreLoops` and `Printable` are no assumptions but hypotheses written in the theorems.
The composition of 4.2 and 4.3 with 4.5 is not a theorem: the pipelines assume a
plan, and the compiler theorems and runs say that the pass produces one.

The provers cannot instantiate an induction theorem whose parameter is a predicate.
`DataProofs` states induction with *sets* instead: a nonempty set of naturals has a
least element (`LeastExists`), a set that contains 0 and is closed under successor
up to `N` contains `0..N` (`UpTo`), a function defined by recursion on `0..N` exists
(`IterationExists`) and satisfies its equations (`IterationIs`).  `RecursionExists` does the
same for recursion along any rank.  Recursion in the models is written as such
functions; there is no `RECURSIVE` operator.  What `Append`, concatenation and `FlattenSeq` do to
lists in order is `AppendInOrder`, `ConcatInOrder` and `FlattenInOrder`.

### 4.9 Only model-checked

* Liveness (`CallsComplete`, `TopReturns`, `AllReturn`, `Terminates`): the prover
  has no rules for fairness and ENABLED.

Every safety property of the passing runs is stated by a theorem; of those of
the decoupling pass, `BlocksConnect` and `FollowsTrace` with the hypothesis of 4.5, and of
the printer's, with `Printable`, which all functions of the run satisfy.

## 5. Findings

Statements the code, its assertions or its comments make that are false of what the
code does.  `PROJECT.json` quotes the lines.  Where a sample shows no return, it ends in
`return 0;`.

| Property | Sample | What happens |
|---|---|---|
| `AssertionsHold` | `*p = 1; do a = *q; while (a);` | a stage in front of a loop leaves into its header (`ExitsAreOutsideLoops`) |
| | `a = *p; if (a > 0) *q = 1;` | the load's stage asks for the tag of a branch that a later stage computes (`ChannelIsAllocated`) |
| | `do { if (c) a = *p; *q = 1; } while (d);` | the loop is added whole, its header trimmed again (`DominatorIsKept`) |
| | a nest, then `return b`, `-disable-cf-dup` | an edge of a kept block leads to two kept blocks (`KeepersSuffice`) |
| `StartsWhenReached` | `if (c) q[i] = *p;` | the second stage is the guarded block alone and executes it whatever `c` is |
| `EveryBlockEnds` | `if (c) { *p = 1; *q = 2; }` | the second stage's block has no terminator |
| `SendBlocksLead` | a switch whose tag another stage needs | the jump of a send block is mapped twice and leads to no block; blocks of shared cases stay empty |
| `CastsConvert` | `return (int)(x < y);` in hardware | a true `ap_int<1>` is -1, and is assigned as such |
| `ClearedUp` | two functions in a module | the second starts with the deleted nodes of the first |

TLC stops at the first violation, so `assertions_hold` reports one of its four
samples; with `Programs` set to one of them alone it reports that one's.

The properties that do hold are stated for every function, those that reach
these assertions included: `BlocksConnect`, for instance, says of the assertions
it lists that no function of the instance reaches them, and the theorem that no
function with natural loops does.

## 6. Not modelled

* The layout of the printed text, names, floating point, addresses and allocations, and the
  Tcl scripts (`GenHLSTcl.h` is mostly those): no property is about them.
* Genpar's other loops over one value map, header phis other than the induction
  variable, and constant bounds (which crash the compiler).
* `releaseMemory` leaves the predecessor cache: an old entry is read, and appended to, only
  when a freed block's address is used again, and the models have no addresses.
* The pipelines under `-disable-cf-dup`, whose stages do not all walk through the same
  blocks: the compiler's models and theorems cover both options, those of the two back
  ends the default.
* Memory dependences: the analysis leaves them out and its user answers for aliasing;
  a model of the pipeline with memory would only restate that.
* `DecoupleMemAccess` (changes no function), `ArchSynUtils` (one attribute lookup, whose
  answers are `recv` and `send`), the drivers (command lines).

## 7. Plan

Done, in this order: queue and its refinement; the pipeline over abstract queues;
the loop split; the decoupling pass from graph to functions; the hardware and the
dataflow graph both back ends implement; the C printer; branch tags; the pass
object; the proofs about both pipelines; the proofs about components, partitions,
channel ends and tags; the proofs about program order, connected blocks and the
original's path; the proofs about the printed C.

Next: the printer's operators that the model leaves out, and Genpar as a pass (an
accumulator phi, several loops).
