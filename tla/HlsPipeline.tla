---------------------------- MODULE HlsPipeline ----------------------------
(***************************************************************************)
(* The hardware the HLS back end (GenHLSTcl) describes for one decoupled   *)
(* function: a core per stage, a source FIFO per channel and, when several *)
(* stages read a channel, a fork core that copies every value it finds in  *)
(* the source FIFO to one destination FIFO per reader.  The processor      *)
(* starts forks and cores and polls the cores; forks never finish, and     *)
(* forks and FIFOs live on from one call of the function to the next.      *)
(*                                                                         *)
(* The value in a FIFO is the round that computed it.                      *)
(***************************************************************************)
EXTENDS StagePlan

CONSTANTS CallEnds,   \* the last round of each call of the function, in order
          SRC_DEPTH,  \* words of a source FIFO        (256 in GenHLSTcl)
          DST_DEPTH   \* words of a destination FIFO    (32)

ASSUME DepthAssumption == SRC_DEPTH \in Nat \ {0} /\ DST_DEPTH \in Nat \ {0}
ASSUME CallsAssumption == /\ CallEnds \in Seq(1 .. Rounds)
                          /\ \A c, d \in DOMAIN CallEnds : c < d => CallEnds[c] < CallEnds[d]

VARIABLES call,     \* the call of the function in progress
          forking,  \* the forks have been started
          started,  \* cores the processor has started in this call
          polled,   \* cores it has seen done
          at,       \* each core: its round, the sends and receives left in it
          src,      \* src[i]: the source FIFO of i's channel
          fork,     \* fork[i]: the value it has read and the readers still to serve
          dst       \* dst[i][s]: the destination FIFO of reader s

vars == <<owner, readers, call, forking, started, polled, at, src, fork, dst>>

EnterRound(s, r) == [round |-> r, todo |-> Ops(s, r)]

Init == /\ PlanOK
        /\ call = 1 /\ forking = FALSE /\ started = 0 /\ polled = 0
        /\ at = [s \in Stages |-> EnterRound(s, 1)]
        /\ src = [i \in Instrs |-> <<>>]
        /\ fork = [i \in Instrs |-> [val |-> 0, left |-> {}]]
        /\ dst = [i \in Instrs |-> [s \in Stages |-> <<>>]]

\* Mutation: a fork only from three readers on.
ForkedFromThree(i) == Cardinality(readers[i]) > 2

\* userArguments->size() > 2: the writer and more than one reader.
Forked(i) == Cardinality(readers[i]) > 1

Running(s) == /\ call <= Len(CallEnds) /\ s <= started
              /\ at[s].round <= CallEnds[call]
Done(s)    == at[s].round > CallEnds[call]

Through(s, i) == [at EXCEPT ![s].todo = @ \ {i}]

\* Mutation: the write does not wait for room.
SendUnbounded(s) == LET i == First(at[s].todo)
                    IN  /\ Running(s) /\ at[s].todo # {} /\ owner[i] = s
                        /\ src' = [src EXCEPT ![i] = Append(@, at[s].round)]
                        /\ at' = Through(s, i)
                        /\ UNCHANGED <<plan, call, forking, started, polled, fork, dst>>

\* A core writes its port: one word into the source FIFO, when there is room.
Send(s) == LET i == First(at[s].todo)
           IN  /\ Running(s) /\ at[s].todo # {} /\ owner[i] = s
               /\ Len(src[i]) < SRC_DEPTH
               /\ src' = [src EXCEPT ![i] = Append(@, at[s].round)]
               /\ at' = Through(s, i)
               /\ UNCHANGED <<plan, call, forking, started, polled, fork, dst>>

\* A core reads its port, which connectDestFifos ties to a destination FIFO of
\* the fork ...
ReceiveForked(s) == LET i == First(at[s].todo)
                    IN  /\ Running(s) /\ at[s].todo # {} /\ owner[i] # s /\ Forked(i)
                        /\ dst[i][s] # <<>>
                        /\ dst' = [dst EXCEPT ![i][s] = Tail(@)]
                        /\ at' = Through(s, i)
                        /\ UNCHANGED <<plan, call, forking, started, polled, src, fork>>

\* ... or, for an only reader, to the source FIFO.
ReceiveDirect(s) == LET i == First(at[s].todo)
                    IN  /\ Running(s) /\ at[s].todo # {} /\ owner[i] # s /\ ~Forked(i)
                        /\ src[i] # <<>>
                        /\ src' = [src EXCEPT ![i] = Tail(@)]
                        /\ at' = Through(s, i)
                        /\ UNCHANGED <<plan, call, forking, started, polled, fork, dst>>

Branch(s) == /\ Running(s) /\ at[s].todo = {}
             /\ at' = [at EXCEPT ![s] = EnterRound(s, @.round + 1)]
             /\ UNCHANGED <<plan, call, forking, started, polled, src, fork, dst>>

\* while(1) { data = *writer; *reader0 = data; *reader1 = data; ... }
ForkRead(i) == /\ forking /\ Forked(i) /\ fork[i].left = {}
               /\ src[i] # <<>>
               /\ fork' = [fork EXCEPT ![i] = [val |-> Head(src[i]), left |-> readers[i]]]
               /\ src' = [src EXCEPT ![i] = Tail(@)]
               /\ UNCHANGED <<plan, call, forking, started, polled, at, dst>>

\* Ports stand in the order of LLVM's use list, the later stages first.
NextPort(i) == CHOOSE s \in fork[i].left : \A q \in fork[i].left : q <= s

\* Mutation: the fork serves its first port only.
ForkWriteFirst(i) == /\ fork[i].left # {}
                     /\ Len(dst[i][NextPort(i)]) < DST_DEPTH
                     /\ dst' = [dst EXCEPT ![i][NextPort(i)] = Append(@, fork[i].val)]
                     /\ fork' = [fork EXCEPT ![i].left = {}]
                     /\ UNCHANGED <<plan, call, forking, started, polled, at, src>>

ForkWrite(i) == /\ fork[i].left # {}
                /\ Len(dst[i][NextPort(i)]) < DST_DEPTH
                /\ dst' = [dst EXCEPT ![i][NextPort(i)] = Append(@, fork[i].val)]
                /\ fork' = [fork EXCEPT ![i].left = @ \ {NextPort(i)}]
                /\ UNCHANGED <<plan, call, forking, started, polled, at, src>>

\* The processor: _Start of every fork (of no effect on a fork that is running
\* from an earlier call), _Start of every core, then IsDone of every core.
StartForks == /\ ~forking
              /\ forking' = TRUE
              /\ UNCHANGED <<plan, call, started, polled, at, src, fork, dst>>

StartCore == /\ forking /\ call <= Len(CallEnds) /\ started < NumStages
             /\ started' = started + 1
             /\ UNCHANGED <<plan, call, forking, polled, at, src, fork, dst>>

\* Mutation: the last core is not polled.
PollAllButLast == /\ started = NumStages
                  /\ IF polled + 1 = NumStages THEN polled' = NumStages ELSE
                     /\ polled < NumStages
                     /\ Done(polled + 1)
                     /\ polled' = polled + 1
                  /\ UNCHANGED <<plan, call, forking, started, at, src, fork, dst>>

Poll == /\ started = NumStages /\ polled < NumStages
        /\ Done(polled + 1)
        /\ polled' = polled + 1
        /\ UNCHANGED <<plan, call, forking, started, at, src, fork, dst>>

\* The function returns, and is called again.
Return == /\ polled = NumStages
          /\ call' = call + 1 /\ started' = 0 /\ polled' = 0
          /\ UNCHANGED <<plan, forking, at, src, fork, dst>>

Core(s)   == Send(s) \/ ReceiveForked(s) \/ ReceiveDirect(s) \/ Branch(s)
Fork(i)   == ForkRead(i) \/ ForkWrite(i)
Processor == StartForks \/ StartCore \/ Poll \/ Return

Next == (\E s \in Stages : Core(s)) \/ (\E i \in Instrs : Fork(i)) \/ Processor

Spec == Init /\ [][Next]_vars

\* Hardware blocks that can move do move, and the processor runs.
Fairness == /\ WF_vars(Processor)
            /\ \A s \in Stages : WF_vars(Core(s))
            /\ \A i \in Instrs : WF_vars(Fork(i))

FairSpec == Spec /\ Fairness

-----------------------------------------------------------------------------
(* Properties *)

\* Every variable has its type and no FIFO is overrun.
TypeOK ==
  /\ PlanOK
  /\ call \in 1 .. Len(CallEnds) + 1 /\ forking \in BOOLEAN
  /\ started \in 0 .. NumStages /\ polled \in 0 .. started
  /\ at \in [Stages -> [round : 1 .. Rounds + 1, todo : SUBSET Instrs]]
  /\ src \in [Instrs -> Seq(1 .. Rounds)]
  /\ fork \in [Instrs -> [val : 0 .. Rounds, left : SUBSET Stages]]
  /\ dst \in [Instrs -> [Stages -> Seq(1 .. Rounds)]]
  /\ \A i \in Instrs : /\ Len(src[i]) <= SRC_DEPTH
                       /\ \A s \in Stages : Len(dst[i][s]) <= DST_DEPTH

\* What the hardware holds for a reader: its destination FIFO, the value the fork
\* has still to hand it, the source FIFO.
Holds(i, q) == IF Forked(i)
               THEN dst[i][q] \o (IF q \in fork[i].left THEN <<fork[i].val>> ELSE <<>>) \o src[i]
               ELSE src[i]

Past(s, i, r) == at[s].round > r \/ (at[s].round = r /\ i \notin at[s].todo)

\* Splitting a channel over source FIFO, fork and destination FIFOs loses nothing
\* and reorders nothing: each reader has ahead of it exactly the rounds the
\* writer is past and it is not, oldest first, across calls too.
InFlight(i, q) == {r \in 1 .. Rounds : /\ BlockOf[i] = Trace[r]
                                       /\ Past(owner[i], i, r) /\ ~Past(q, i, r)}
HoldsTheDifference ==
  \A i \in Instrs : \A q \in readers[i] : Lists(Holds(i, q), InFlight(i, q))

\* A core reads the value of the round it is in.
RightRound ==
  [][\A s \in Stages :
       LET i == First(at[s].todo)
       IN  (ReceiveForked(s) \/ ReceiveDirect(s))
             => at[s].round = Head(IF Forked(i) THEN dst[i][s] ELSE src[i])]_vars

CoreWaits(s) == /\ at[s].todo # {}
                /\ LET i == First(at[s].todo)
                   IN  IF owner[i] = s THEN Len(src[i]) = SRC_DEPTH
                       ELSE (IF Forked(i) THEN dst[i][s] ELSE src[i]) = <<>>
ForkWaits(i) == IF fork[i].left = {} THEN src[i] = <<>>
                ELSE Len(dst[i][NextPort(i)]) = DST_DEPTH

\* The FIFO depths and the order in which a fork serves its ports never stop all
\* of them: while a started call is unfinished some core or fork can move.
NoDeadlock ==
  (forking /\ started = NumStages) =>
    \/ \A s \in Stages : Done(s)
    \/ \E s \in Stages : ~Done(s) /\ ~CoreWaits(s)
    \/ \E i \in Instrs : Forked(i) /\ ~ForkWaits(i)

\* Between calls the hardware, which is not reset, is as before the first one: no
\* value of a call is left in a FIFO or a fork to be read by the next call.
ReturnsClean ==
  started = 0 => \A i \in Instrs : /\ src[i] = <<>> /\ fork[i].left = {}
                                   /\ \A s \in Stages : dst[i][s] = <<>>

\* Every call returns.
AllReturn == <>(call > Len(CallEnds))

Dataflow == INSTANCE StageDataflow WITH returned <- call - 1

\* The cores, forks and FIFOs together behave as the dataflow graph.
ActsAsDataflow == Dataflow!Spec
=============================================================================
