----------------------------- MODULE SingleFifo -----------------------------
(***************************************************************************)
(* struct single_fifo of include/dpp/comm.h (lines 8-62): a ring buffer    *)
(* under one mutex, with ONE condition variable on which the writer waits  *)
(* while the ring is full and the reader while it is empty, and which is   *)
(* signalled only on the step that leaves "empty" and on the step that     *)
(* leaves "full".                                                          *)
(*                                                                         *)
(* The generated top level hands every single_fifo to exactly one writing  *)
(* stage and one reading stage, so there are two threads.  They interleave *)
(* at every lock, unlock, wait, wake-up and shared write; the two counter  *)
(* updates of an operation are one step, being under the lock.             *)
(***************************************************************************)
EXTENDS Naturals

CONSTANTS FIFO_SIZE,  \* slots of the ring: 2 in comm.h
          Values,     \* what T may carry
          NoValue     \* an uninitialised slot, and "no argument, no result"

ASSUME FifoSizeAssumption == FIFO_SIZE \in Nat \ {0}
ASSUME ValuesAssumption   == NoValue \notin Values

Threads == {"writer", "reader"}
Slots   == 0 .. FIFO_SIZE - 1
Other(t) == IF t = "writer" THEN "reader" ELSE "writer"

VARIABLES storage, head, tail, space,  \* the fields of the struct
          mutex,                       \* who holds *my_mutex, or "nobody"
          waiters,                     \* who is blocked on *my_cond
          pc,                          \* where each thread is in its call
          local                        \* the argument i / the result rt_val

ring == <<storage, head, tail, space>>
vars == <<storage, head, tail, space, mutex, waiters, pc, local>>

Goto(t, from, to) == pc[t] = from /\ pc' = [pc EXCEPT ![t] = to]

Init == /\ storage = [s \in Slots |-> NoValue]
        /\ head = 0 /\ tail = 0 /\ space = FIFO_SIZE
        /\ mutex = "nobody" /\ waiters = {}
        /\ pc = [t \in Threads |-> "idle"]
        /\ local = [t \in Threads |-> NoValue]

\* A stage calls write(v) ...
CallWrite(v) == /\ Goto("writer", "idle", "lock")
                /\ local' = [local EXCEPT !["writer"] = v]
                /\ UNCHANGED <<ring, mutex, waiters>>

\* ... or read().
CallRead == /\ Goto("reader", "idle", "lock")
            /\ UNCHANGED <<ring, mutex, waiters, local>>

\* pthread_mutex_lock, and the re-acquisition at the end of pthread_cond_wait.
Lock(t) == /\ Goto(t, "lock", "test")
           /\ mutex = "nobody"
           /\ mutex' = t
           /\ UNCHANGED <<ring, waiters, local>>

\* The condition of the while loop: full for the writer, empty for the reader.
MustWait(t) == space = IF t = "writer" THEN 0 ELSE FIFO_SIZE

\* The loop is left ...
Pass(t) == /\ Goto(t, "test", "transfer")
           /\ ~MustWait(t)
           /\ UNCHANGED <<ring, mutex, waiters, local>>

\* ... or pthread_cond_wait releases the mutex and blocks, in one step.
Wait(t) == /\ Goto(t, "test", "blocked")
           /\ MustWait(t)
           /\ mutex' = "nobody"
           /\ waiters' = waiters \cup {t}
           /\ UNCHANGED <<ring, local>>

\* Mutation: a waiter goes on without taking the mutex again.
WakeupUnlocked(t) == /\ Goto(t, "blocked", "test")
                     /\ waiters' = waiters \ {t}
                     /\ UNCHANGED <<ring, mutex, local>>

\* POSIX lets pthread_cond_wait return without a signal.
SpuriousWakeup(t) == /\ Goto(t, "blocked", "lock")
                     /\ waiters' = waiters \ {t}
                     /\ UNCHANGED <<ring, mutex, local>>

\* Mutation: the reader takes the slot the writer fills next.
TransferFromHead(t) == /\ Goto(t, "transfer", "count")
                       /\ IF t = "writer"
                          THEN /\ storage' = [storage EXCEPT ![head] = local[t]]
                               /\ UNCHANGED local
                          ELSE /\ local' = [local EXCEPT ![t] = storage[head]]
                               /\ UNCHANGED storage
                       /\ UNCHANGED <<head, tail, space, mutex, waiters>>

\* storage[head] = i  /  rt_val = storage[tail]
Transfer(t) == /\ Goto(t, "transfer", "count")
               /\ IF t = "writer"
                  THEN /\ storage' = [storage EXCEPT ![head] = local[t]]
                       /\ UNCHANGED local
                  ELSE /\ local' = [local EXCEPT ![t] = storage[tail]]
                       /\ UNCHANGED storage
               /\ UNCHANGED <<head, tail, space, mutex, waiters>>

\* Mutation: head is advanced without wrapping around.
CountNoWrap(t) == /\ Goto(t, "count", "signal")
                  /\ IF t = "writer"
                     THEN space' = space - 1 /\ head' = head + 1 /\ UNCHANGED tail
                     ELSE /\ space' = space + 1
                          /\ tail' = (tail + 1) % FIFO_SIZE
                          /\ UNCHANGED head
                  /\ UNCHANGED <<storage, mutex, waiters, local>>

\* space-- and head moves on  /  space++ and tail moves on
Count(t) == /\ Goto(t, "count", "signal")
            /\ IF t = "writer"
               THEN /\ space' = space - 1
                    /\ head' = (head + 1) % FIFO_SIZE
                    /\ UNCHANGED tail
               ELSE /\ space' = space + 1
                    /\ tail' = (tail + 1) % FIFO_SIZE
                    /\ UNCHANGED head
            /\ UNCHANGED <<storage, mutex, waiters, local>>

\* Mutation: both operations signal on the writer's threshold.
MustSignalOneThreshold(t) == space = FIFO_SIZE - 1

\* Only the operation that leaves "empty" (writer) or "full" (reader) signals.
MustSignal(t) == space = IF t = "writer" THEN FIFO_SIZE - 1 ELSE 1

\* pthread_cond_signal wakes a waiter if there is one; the caller still holds
\* the mutex and cannot be waiting itself.
Signal(t) == /\ pc[t] = "signal"
             /\ IF MustSignal(t) /\ Other(t) \in waiters
                THEN /\ waiters' = waiters \ {Other(t)}
                     /\ pc' = [pc EXCEPT ![t] = "unlock", ![Other(t)] = "lock"]
                ELSE /\ pc' = [pc EXCEPT ![t] = "unlock"]
                     /\ UNCHANGED waiters
             /\ UNCHANGED <<ring, mutex, local>>

\* pthread_mutex_unlock and the return to the stage.
Unlock(t) == /\ Goto(t, "unlock", "idle")
             /\ mutex' = "nobody"
             /\ local' = [local EXCEPT ![t] = NoValue]
             /\ UNCHANGED <<ring, waiters>>

InCall(t) == Pass(t) \/ Wait(t) \/ Transfer(t) \/ Count(t) \/ Signal(t) \/ Unlock(t)

Next == \/ \E v \in Values : CallWrite(v)
        \/ CallRead
        \/ \E t \in Threads : Lock(t) \/ SpuriousWakeup(t) \/ InCall(t)

Spec == Init /\ [][Next]_vars

\* A thread inside a call is scheduled, and a mutex that is free again and
\* again is eventually obtained.  Calls and spurious wake-ups owe nothing.
FairSpec == Spec /\ \A t \in Threads : WF_vars(InCall(t)) /\ SF_vars(Lock(t))

-----------------------------------------------------------------------------
\* The representation: the values from tail on, one per used slot.
RingContents == [i \in 1 .. FIFO_SIZE - space |-> storage[(tail + i - 1) % FIFO_SIZE]]

\* How far a call is, seen from outside: its effect is the counter update.
Progress(t) == IF pc[t] = "idle" THEN "idle"
               ELSE IF pc[t] \in {"signal", "unlock"} THEN "done" ELSE "busy"

Queue == INSTANCE BoundedQueue WITH
           Capacity <- FIFO_SIZE,
           queue    <- RingContents,
           sender   <- [op |-> Progress("writer"), val |-> local["writer"]],
           receiver <- [op |-> Progress("reader"),
                        val |-> IF Progress("reader") = "done"
                                THEN local["reader"] ELSE NoValue]

-----------------------------------------------------------------------------
(* Properties *)

PCs == {"idle", "lock", "test", "blocked", "transfer", "count", "signal", "unlock"}

\* Every variable has its type: in particular head, tail and space stay inside
\* the ring although they are updated by unchecked arithmetic.
TypeOK == /\ storage \in [Slots -> Values \cup {NoValue}]
          /\ head \in Slots /\ tail \in Slots
          /\ space \in 0 .. FIFO_SIZE
          /\ mutex \in Threads \cup {"nobody"}
          /\ waiters \in SUBSET Threads
          /\ pc \in [Threads -> PCs]
          /\ local \in [Threads -> Values \cup {NoValue}]

Critical == {"test", "transfer", "count", "signal", "unlock"}

\* The fields are only touched under the mutex: a thread between lock and
\* unlock (and not asleep in pthread_cond_wait) is the holder.
ExclusiveAccess == /\ \A t \in Threads : pc[t] \in Critical <=> mutex = t
                   /\ \A t \in Threads : pc[t] = "blocked" <=> t \in waiters

\* The three counters describe one ring: head is the slot after the last used.
RingConsistent == head = (tail + (FIFO_SIZE - space)) % FIFO_SIZE

\* No lost wake-up, although the signal is conditional and the condition
\* variable shared: a thread asleep on my_cond either still has to wait, or the
\* other thread has just ended the reason and is about to signal.
NoLostWakeup ==
  \A t \in waiters :
    \/ MustWait(t)
    \/ /\ pc[Other(t)] = "signal"
       /\ MustSignal(Other(t))

\* What the two calls carry at each of their steps.
CallData ==
  /\ pc["writer"] # "idle" => local["writer"] \in Values
  /\ pc["reader"] \notin {"count", "signal", "unlock"} => local["reader"] = NoValue
  /\ pc["writer"] = "idle" => local["writer"] = NoValue
  /\ \A t \in Threads : pc[t] \in {"transfer", "count"} => ~MustWait(t)
  /\ pc["writer"] = "count" => storage[head] = local["writer"]
  /\ pc["reader"] = "count" => local["reader"] = storage[tail]

\* The inductive invariant the proofs rest on.
IInv == TypeOK /\ ExclusiveAccess /\ RingConsistent /\ NoLostWakeup /\ CallData

\* single_fifo behaves as a bounded FIFO queue: what read returns is what was
\* written, each value once and in order, and never more than FIFO_SIZE held.
IsQueue == Queue!Spec

\* Neither call hangs once the queue lets it go on, whatever the interleaving
\* of the tests, the waits and the conditional signals.
CallsComplete == Queue!CallsComplete
=============================================================================
