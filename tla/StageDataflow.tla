--------------------------- MODULE StageDataflow ---------------------------
(***************************************************************************)
(* What a decoupled function promises, without queues, threads or cores:   *)
(* every stage walks through the rounds of the trace and through the sends *)
(* and receives of each in program order; a receive waits until the sender *)
(* is past the send of that very round; and a call of the function returns *)
(* when all its stages have walked through the call's rounds, the next one *)
(* starting only then.  The CPU program (StagePipeline) and the hardware   *)
(* (HlsPipeline) implement it.                                             *)
(***************************************************************************)
EXTENDS StagePlan

CONSTANT CallEnds  \* the last round of each call of the function, in order

VARIABLES at,       \* each stage: its round, the sends and receives left in it
          returned  \* how many calls have returned

vars == <<owner, readers, at, returned>>

EnterRound(s, r) == [round |-> r, todo |-> Ops(s, r)]

Init == /\ PlanOK
        /\ at = [s \in Stages |-> EnterRound(s, 1)]
        /\ returned = 0

Running(s) == /\ returned < Len(CallEnds)
              /\ at[s].round <= CallEnds[returned + 1]

\* Stage s is through with instruction i of round r.
Past(s, i, r) == at[s].round > r \/ (at[s].round = r /\ i \notin at[s].todo)

\* The next send, or the next receive once its sender is past it.
Step(s) == /\ Running(s) /\ at[s].todo # {}
           /\ LET i == First(at[s].todo)
              IN  /\ owner[i] # s => Past(owner[i], i, at[s].round)
                  /\ at' = [at EXCEPT ![s].todo = @ \ {i}]
           /\ UNCHANGED <<plan, returned>>

Branch(s) == /\ Running(s) /\ at[s].todo = {}
             /\ at' = [at EXCEPT ![s] = EnterRound(s, @.round + 1)]
             /\ UNCHANGED <<plan, returned>>

Return == /\ returned < Len(CallEnds)
          /\ \A s \in Stages : ~Running(s)
          /\ returned' = returned + 1
          /\ UNCHANGED <<plan, at>>

Next == (\E s \in Stages : Step(s) \/ Branch(s)) \/ Return

Spec == Init /\ [][Next]_vars
=============================================================================
