---------------------------- MODULE BoundedQueue ----------------------------
(***************************************************************************)
(* What include/dpp/comm.h promises of one single_fifo: a bounded queue    *)
(* between one writing and one reading stage.  Each call is an interval    *)
(* (invoke .. return) with one atomic effect in between, the write waits   *)
(* while the queue is full and the read while it is empty.                 *)
(* No line of the program corresponds to a definition of this module:      *)
(* SingleFifo implements it.                                               *)
(***************************************************************************)
EXTENDS Naturals, Sequences

CONSTANTS Values,    \* what a channel may carry
          Capacity,  \* how many values it holds
          NoValue    \* "no argument, no result"

VARIABLES queue,     \* the values written and not yet read, oldest first
          sender,    \* the writing call: [op |-> progress, val |-> argument]
          receiver   \* the reading call: [op |-> progress, val |-> result]

vars == <<queue, sender, receiver>>

Idle == [op |-> "idle", val |-> NoValue]

Init == queue = <<>> /\ sender = Idle /\ receiver = Idle

InvokeWrite(v) == /\ sender = Idle
                  /\ sender' = [op |-> "busy", val |-> v]
                  /\ UNCHANGED <<queue, receiver>>

Enqueue == /\ sender.op = "busy"
           /\ Len(queue) < Capacity
           /\ queue' = Append(queue, sender.val)
           /\ sender' = [sender EXCEPT !.op = "done"]
           /\ UNCHANGED receiver

ReturnWrite == /\ sender.op = "done"
               /\ sender' = Idle
               /\ UNCHANGED <<queue, receiver>>

InvokeRead == /\ receiver = Idle
              /\ receiver' = [op |-> "busy", val |-> NoValue]
              /\ UNCHANGED <<queue, sender>>

Dequeue == /\ receiver.op = "busy"
           /\ queue # <<>>
           /\ receiver' = [op |-> "done", val |-> Head(queue)]
           /\ queue' = Tail(queue)
           /\ UNCHANGED sender

ReturnRead == /\ receiver.op = "done"
              /\ receiver' = Idle
              /\ UNCHANGED <<queue, sender>>

Next == \/ \E v \in Values : InvokeWrite(v)
        \/ Enqueue \/ ReturnWrite
        \/ InvokeRead \/ Dequeue \/ ReturnRead

Spec == Init /\ [][Next]_vars

-----------------------------------------------------------------------------
\* Liveness of the two calls: one that can take effect does (nothing but the
\* call itself can end "not full" for the writer, "not empty" for the reader),
\* and one that took effect returns.  Nothing makes a stage call at all.
CallsComplete == /\ (sender.op = "busy" /\ Len(queue) < Capacity) ~> sender.op = "done"
                 /\ (receiver.op = "busy" /\ queue # <<>>) ~> receiver.op = "done"
                 /\ sender.op = "done" ~> sender.op = "idle"
                 /\ receiver.op = "done" ~> receiver.op = "idle"
=============================================================================
