--------------------------- MODULE StagePipeline ---------------------------
(***************************************************************************)
(* The program the CPU back end emits for one decoupled function: the top  *)
(* level (PipelinedCFuncGenerator) creates one thread per stage and joins  *)
(* them; each stage executes its share of every basic block the original   *)
(* function executes, pushing the values later stages need into a          *)
(* fifo_channel with one single_fifo per reader and popping the values it  *)
(* needs itself.  A single_fifo is the bounded queue that SingleFifo is    *)
(* proved to be.                                                           *)
(*                                                                         *)
(* What travels is the number of the round that computed the value: a      *)
(* stage must pop the value of the very round it is in.  What a stage does *)
(* not receive, it does not wait for.                                      *)
(***************************************************************************)
EXTENDS StagePlan

CONSTANT FIFO_SIZE

ASSUME SizeAssumption == FIFO_SIZE \in Nat \ {0}

VARIABLES created,  \* threads the top level has created
          joined,   \* threads it has joined
          at,       \* each stage: its round, the sends and receives it has
                    \* still to do there, the one in progress (0: none), and
                    \* the slots that one has still to serve
          fifos     \* fifos[i][s]: the single_fifo of reader s in i's channel

vars == <<owner, readers, created, joined, at, fifos>>

EnterRound(s, r) == [round |-> r, todo |-> Ops(s, r), cur |-> 0, left |-> {}]

Init == /\ PlanOK
        /\ created = 0 /\ joined = 0
        /\ at = [s \in Stages |-> EnterRound(s, 1)]
        /\ fifos = [i \in Instrs |-> [s \in Stages |-> <<>>]]

\* The sends and receives of a block stand in the program order of the
\* instructions whose values they carry.
NextOp(s) == First(at[s].todo)

Running(s) == s <= created /\ at[s].round <= Rounds
Done(s)    == at[s].round > Rounds

\* The stage reaches the next push or pop of its block.
Start(s) == /\ Running(s) /\ at[s].cur = 0
            /\ at[s].todo # {}
            /\ at' = [at EXCEPT ![s].cur = NextOp(s),
                                ![s].left = IF owner[NextOp(s)] = s
                                            THEN readers[NextOp(s)] ELSE {s}]
            /\ UNCHANGED <<plan, created, joined, fifos>>

\* Mutation: the slot loop of fifo_channel::write ends after its first slot.
ServedFirstOnly(s, r) == [at[s] EXCEPT !.todo = @ \ {at[s].cur}, !.cur = 0, !.left = {}]

\* One slot of the operation in progress has been served.
Served(s, r) == LET left == at[s].left \ {r}
                IN  IF left = {}
                    THEN [at[s] EXCEPT !.todo = @ \ {at[s].cur}, !.cur = 0, !.left = {}]
                    ELSE [at[s] EXCEPT !.left = left]

\* The slot loop of fifo_channel::write.  Slots are numbered along LLVM's use
\* list, which is the reverse of the order in which the calls were created.
NextSlot(s) == CHOOSE r \in at[s].left : \A q \in at[s].left : q <= r

\* Mutation: the write does not wait for room.
PushUnbounded(s) == LET i == at[s].cur
                        r == NextSlot(s)
                    IN  /\ Running(s) /\ i # 0 /\ owner[i] = s
                        /\ fifos' = [fifos EXCEPT ![i][r] = Append(@, at[s].round)]
                        /\ at' = [at EXCEPT ![s] = Served(s, r)]
                        /\ UNCHANGED <<plan, created, joined>>

\* One blocking single_fifo::write of push ...
Push(s) == LET i == at[s].cur
               r == NextSlot(s)
           IN  /\ Running(s) /\ i # 0 /\ owner[i] = s
               /\ Len(fifos[i][r]) < FIFO_SIZE
               /\ fifos' = [fifos EXCEPT ![i][r] = Append(@, at[s].round)]
               /\ at' = [at EXCEPT ![s] = Served(s, r)]
               /\ UNCHANGED <<plan, created, joined>>

\* Mutation: the pop reads its slot without consuming the value.
PopPeek(s) == LET i == at[s].cur
              IN  /\ Running(s) /\ i # 0 /\ owner[i] # s
                  /\ fifos[i][s] # <<>>
                  /\ at' = [at EXCEPT ![s] = Served(s, s)]
                  /\ UNCHANGED <<plan, created, joined, fifos>>

\* ... and the blocking single_fifo::read of pop.
Pop(s) == LET i == at[s].cur
          IN  /\ Running(s) /\ i # 0 /\ owner[i] # s
              /\ fifos[i][s] # <<>>
              /\ fifos' = [fifos EXCEPT ![i][s] = Tail(@)]
              /\ at' = [at EXCEPT ![s] = Served(s, s)]
              /\ UNCHANGED <<plan, created, joined>>

\* The terminator: on to the next block of the trace, or out of the stage.
Branch(s) == /\ Running(s) /\ at[s].cur = 0 /\ at[s].todo = {}
             /\ at' = [at EXCEPT ![s] = EnterRound(s, @.round + 1)]
             /\ UNCHANGED <<plan, created, joined, fifos>>

\* The top level: pthread_create in call order, the last call also joins all.
Create == /\ created < NumStages
          /\ created' = created + 1
          /\ UNCHANGED <<plan, joined, at, fifos>>

\* Mutation: the join loop does not wait for the thread it joins.
JoinEarly == /\ created = NumStages /\ joined < NumStages
             /\ joined' = joined + 1
             /\ UNCHANGED <<plan, created, at, fifos>>

Join == /\ created = NumStages /\ joined < NumStages
        /\ Done(joined + 1)
        /\ joined' = joined + 1
        /\ UNCHANGED <<plan, created, at, fifos>>

Returned == joined = NumStages

Stage(s) == Start(s) \/ Push(s) \/ Pop(s) \/ Branch(s)

Next == \/ \E s \in Stages : Stage(s)
        \/ Create
        \/ Join

Spec == Init /\ [][Next]_vars

\* Every thread that can run is scheduled.
FairSpec == Spec /\ WF_vars(Create \/ Join) /\ \A s \in Stages : WF_vars(Stage(s))

-----------------------------------------------------------------------------
(* Properties *)

\* Every variable has its type; values only flow forward; a queue never holds
\* more than FIFO_SIZE values.
TypeOK ==
  /\ PlanOK
  /\ created \in 0 .. NumStages /\ joined \in 0 .. NumStages
  /\ at \in [Stages -> [round : 1 .. Rounds + 1, todo : SUBSET Instrs,
                        cur : Instrs \cup {0}, left : SUBSET Stages]]
  /\ fifos \in [Instrs -> [Stages -> Seq(1 .. Rounds)]]
  /\ \A i \in Instrs, s \in Stages : Len(fifos[i][s]) <= FIFO_SIZE

\* Stage s is through with instruction i of round r, as its sender to reader q
\* or as a receiver.
Past(s, i, r, q) == \/ at[s].round > r
                    \/ /\ at[s].round = r
                       /\ \/ i \notin at[s].todo
                          \/ at[s].cur = i /\ q \notin at[s].left

\* A channel slot holds exactly the rounds its sender is through with and its
\* reader is not, oldest first: nothing is lost, duplicated or overtaken, however
\* far the stages drift apart.
InFlight(i, q) == {r \in 1 .. Rounds : /\ BlockOf[i] = Trace[r]
                                       /\ Past(owner[i], i, r, q)
                                       /\ ~Past(q, i, r, q)}
ChannelHoldsTheDifference ==
  \A i \in Instrs : \A q \in readers[i] : Lists(fifos[i][q], InFlight(i, q))

\* A pop never yields the value of another round than the one the stage is in.
RightRound == [][\A s \in Stages :
                   Pop(s) => Head(fifos[at[s].cur][s]) = at[s].round]_vars

\* A stage waiting in a push or a pop.
Blocked(s) == /\ at[s].cur # 0
              /\ IF owner[at[s].cur] = s
                 THEN Len(fifos[at[s].cur][NextSlot(s)]) = FIFO_SIZE
                 ELSE fifos[at[s].cur][s] = <<>>

\* "Their relative sequence would ensure the execution sequence being compatible
\* with other partitions -- no deadlock" (generateNewInstructions.h): as long as
\* a stage is unfinished, some unfinished stage is not waiting.
NoDeadlock == created = NumStages =>
                \/ \A s \in Stages : Done(s)
                \/ \E s \in Stages : ~Done(s) /\ ~Blocked(s)

\* The channels and argument packs live in the frame of the top level: when it
\* returns, no stage is inside it any more and nothing is left in a channel.
ReturnsClean == Returned => /\ \A s \in Stages : Done(s)
                            /\ \A i \in Instrs, s \in Stages : fifos[i][s] = <<>>

\* The decoupled function returns.
TopReturns == <>Returned

\* A send is over for its readers as soon as it starts serving slots: what has not
\* been pushed yet, the reader of that slot still waits for.
MappedAt == [s \in Stages |->
               [round |-> at[s].round,
                todo  |-> IF at[s].cur # 0 /\ owner[at[s].cur] = s
                          THEN at[s].todo \ {at[s].cur} ELSE at[s].todo]]

Dataflow == INSTANCE StageDataflow
              WITH at <- MappedAt, returned <- (IF Returned THEN 1 ELSE 0), CallEnds <- <<Rounds>>

\* Threads, bounded queues and the slot loops of push together behave as the
\* dataflow graph of the stages, called once.
ActsAsDataflow == Dataflow!Spec
=============================================================================
