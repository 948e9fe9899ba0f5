-------------------------- MODULE SingleFifoProofs --------------------------
(***************************************************************************)
(* Proofs about SingleFifo for every FIFO_SIZE >= 1 and every Values.      *)
(***************************************************************************)
EXTENDS SingleFifo, Integers, Sequences, SequenceTheorems, TLAPS

(* Indices run over at most two turns of the ring, where % is one subtraction. *)
LEMMA RingIndex ==
  ASSUME NEW a \in 0 .. 2 * FIFO_SIZE - 1
  PROVE  a % FIFO_SIZE = IF a < FIFO_SIZE THEN a ELSE a - FIFO_SIZE
  BY FifoSizeAssumption

(* The slot after s. *)
LEMMA NextSlot ==
  ASSUME NEW s \in Slots
  PROVE  /\ (s + 1) % FIFO_SIZE = IF s + 1 = FIFO_SIZE THEN 0 ELSE s + 1
         /\ (s + 1) % FIFO_SIZE \in Slots
<1>1. s + 1 \in 0 .. 2 * FIFO_SIZE - 1
  BY FifoSizeAssumption DEF Slots
<1> QED
  BY <1>1, RingIndex, FifoSizeAssumption DEF Slots

(* The slot that lies FIFO_SIZE - sp slots after tl, as head does. *)
LEMMA RingHead ==
  ASSUME NEW tl \in Slots, NEW sp \in 0 .. FIFO_SIZE
  PROVE  (tl + (FIFO_SIZE - sp)) % FIFO_SIZE
           = IF tl < sp THEN tl + (FIFO_SIZE - sp) ELSE tl - sp
<1>1. tl + (FIFO_SIZE - sp) \in 0 .. 2 * FIFO_SIZE - 1
  BY FifoSizeAssumption DEF Slots
<1> DEFINE a == tl + (FIFO_SIZE - sp)
<1>2. a % FIFO_SIZE = IF a < FIFO_SIZE THEN a ELSE a - FIFO_SIZE
  BY <1>1, RingIndex
<1> QED
  BY <1>2, FifoSizeAssumption DEF Slots

(* The inductive invariant holds initially. *)
LEMMA InitIInv == Init => IInv
<1> SUFFICES ASSUME Init PROVE IInv
  OBVIOUS
<1> USE FifoSizeAssumption, ValuesAssumption DEF Init
<1>1. TypeOK
  BY DEF TypeOK, Threads, Slots, PCs
<1>2. ExclusiveAccess
  BY DEF ExclusiveAccess, Threads, Critical
<1>3. RingConsistent
  BY RingIndex DEF RingConsistent
<1>4. NoLostWakeup /\ CallData
  BY DEF NoLostWakeup, CallData, Threads
<1> QED
  BY <1>1, <1>2, <1>3, <1>4 DEF IInv

(* Typing is preserved by every step that starts in the invariant. *)
LEMMA NextType == IInv /\ [Next]_vars => TypeOK'
<1> SUFFICES ASSUME IInv, [Next]_vars PROVE TypeOK'
  OBVIOUS
<1> USE FifoSizeAssumption, ValuesAssumption
    DEF IInv, TypeOK, Threads, Slots, PCs, ring, Goto, Other
<1>1. ASSUME NEW v \in Values, CallWrite(v) PROVE TypeOK'
  BY <1>1 DEF CallWrite
<1>2. CASE CallRead
  BY <1>2 DEF CallRead
<1>3. ASSUME NEW t \in Threads, Lock(t) PROVE TypeOK'
  BY <1>3 DEF Lock
<1>4. ASSUME NEW t \in Threads, SpuriousWakeup(t) PROVE TypeOK'
  BY <1>4 DEF SpuriousWakeup
<1>5. ASSUME NEW t \in Threads, Pass(t) PROVE TypeOK'
  BY <1>5 DEF Pass
<1>6. ASSUME NEW t \in Threads, Wait(t) PROVE TypeOK'
  BY <1>6 DEF Wait
<1>7. ASSUME NEW t \in Threads, Transfer(t) PROVE TypeOK'
  BY <1>7 DEF Transfer
<1>8. ASSUME NEW t \in Threads, Count(t) PROVE TypeOK'
  <2>1. (head + 1) % FIFO_SIZE \in Slots /\ (tail + 1) % FIFO_SIZE \in Slots
    BY NextSlot
  <2>2. ~MustWait(t)
    BY <1>8 DEF Count, CallData
  <2> QED
    BY <1>8, <2>1, <2>2 DEF Count, MustWait
<1>9. ASSUME NEW t \in Threads, Signal(t) PROVE TypeOK'
  BY <1>9 DEF Signal
<1>10. ASSUME NEW t \in Threads, Unlock(t) PROVE TypeOK'
  BY <1>10 DEF Unlock
<1>11. CASE UNCHANGED vars
  BY <1>11 DEF vars
<1> QED
  BY <1>1, <1>2, <1>3, <1>4, <1>5, <1>6, <1>7, <1>8, <1>9, <1>10, <1>11
     DEF Next, InCall

(* The remaining conjuncts are preserved, action by action. *)
LEMMA NextIInv == IInv /\ [Next]_vars => IInv'
<1> SUFFICES ASSUME IInv, [Next]_vars
             PROVE  ExclusiveAccess' /\ RingConsistent' /\ NoLostWakeup' /\ CallData'
  BY NextType DEF IInv
<1> USE FifoSizeAssumption, ValuesAssumption
    DEF IInv, TypeOK, Threads, PCs, Critical, Goto, Other
<1>0. \/ UNCHANGED ring /\ RingConsistent'
      \/ ring' # ring
  BY DEF RingConsistent, ring
<1>1. ASSUME NEW v \in Values, CallWrite(v)
      PROVE  ExclusiveAccess' /\ NoLostWakeup' /\ CallData' /\ RingConsistent'
  BY <1>1, <1>0 DEF CallWrite, ExclusiveAccess, NoLostWakeup, CallData, MustWait, MustSignal, ring
<1>2. ASSUME CallRead
      PROVE  ExclusiveAccess' /\ NoLostWakeup' /\ CallData' /\ RingConsistent'
  BY <1>2, <1>0 DEF CallRead, ExclusiveAccess, NoLostWakeup, CallData, MustWait, MustSignal, ring
<1>3. ASSUME NEW t \in Threads, Lock(t)
      PROVE  ExclusiveAccess' /\ NoLostWakeup' /\ CallData' /\ RingConsistent'
  BY <1>3, <1>0 DEF Lock, ExclusiveAccess, NoLostWakeup, CallData, MustWait, MustSignal, ring
<1>4. ASSUME NEW t \in Threads, SpuriousWakeup(t)
      PROVE  ExclusiveAccess' /\ NoLostWakeup' /\ CallData' /\ RingConsistent'
  BY <1>4, <1>0 DEF SpuriousWakeup, ExclusiveAccess, NoLostWakeup, CallData, MustWait, MustSignal, ring
<1>5. ASSUME NEW t \in Threads, Pass(t)
      PROVE  ExclusiveAccess' /\ NoLostWakeup' /\ CallData' /\ RingConsistent'
  BY <1>5, <1>0 DEF Pass, ExclusiveAccess, NoLostWakeup, CallData, MustWait, MustSignal, ring
<1>6. ASSUME NEW t \in Threads, Wait(t)
      PROVE  ExclusiveAccess' /\ NoLostWakeup' /\ CallData' /\ RingConsistent'
  BY <1>6, <1>0 DEF Wait, ExclusiveAccess, NoLostWakeup, CallData, MustWait, MustSignal, ring
<1>7. ASSUME NEW t \in Threads, Transfer(t)
      PROVE  ExclusiveAccess' /\ NoLostWakeup' /\ CallData' /\ RingConsistent'
  <2>1. ExclusiveAccess'
    BY <1>7 DEF Transfer, ExclusiveAccess
  <2>2. NoLostWakeup'
    BY <1>7 DEF Transfer, NoLostWakeup, MustWait, MustSignal
  <2>3. CallData'
    BY <1>7 DEF Transfer, CallData, ExclusiveAccess, MustWait, Slots
  <2>4. RingConsistent'
    BY <1>7 DEF Transfer, RingConsistent
  <2> QED
    BY <2>1, <2>2, <2>3, <2>4
<1>8. ASSUME NEW t \in Threads, Count(t)
      PROVE  ExclusiveAccess' /\ NoLostWakeup' /\ CallData' /\ RingConsistent'
  <2>1. ExclusiveAccess'
    BY <1>8 DEF Count, ExclusiveAccess
  <2>2. NoLostWakeup'
    BY <1>8 DEF Count, NoLostWakeup, MustWait, MustSignal, ExclusiveAccess, CallData
  <2>3. CallData'
    BY <1>8 DEF Count, CallData, ExclusiveAccess, MustWait
  <2>4. RingConsistent'
    <3>1. head = IF tail < space THEN tail + (FIFO_SIZE - space) ELSE tail - space
      BY RingHead DEF RingConsistent
    <3>2. tail' \in Slots /\ space' \in 0 .. FIFO_SIZE
      BY NextType
    <3>3. SUFFICES head' = IF tail' < space' THEN tail' + (FIFO_SIZE - space')
                                             ELSE tail' - space'
      BY <3>2, RingHead DEF RingConsistent
    <3>4. ~MustWait(t)
      BY <1>8 DEF Count, CallData
    <3>5. CASE t = "writer"
      <4>1. /\ space' = space - 1 /\ space # 0 /\ tail' = tail
            /\ head' = IF head + 1 = FIFO_SIZE THEN 0 ELSE head + 1
        BY <1>8, <3>4, <3>5, NextSlot DEF Count, MustWait
      <4> QED
        BY <4>1, <3>1 DEF Slots
    <3>6. CASE t = "reader"
      <4>1. /\ space' = space + 1 /\ space # FIFO_SIZE /\ head' = head
            /\ tail' = IF tail + 1 = FIFO_SIZE THEN 0 ELSE tail + 1
        BY <1>8, <3>4, <3>6, NextSlot DEF Count, MustWait
      <4> QED
        BY <4>1, <3>1 DEF Slots
    <3> QED
      BY <3>5, <3>6
  <2> QED
    BY <2>1, <2>2, <2>3, <2>4
<1>9. ASSUME NEW t \in Threads, Signal(t)
      PROVE  ExclusiveAccess' /\ NoLostWakeup' /\ CallData' /\ RingConsistent'
  <2>1. ExclusiveAccess'
    BY <1>9 DEF Signal, ExclusiveAccess
  <2>2. NoLostWakeup'
    BY <1>9 DEF Signal, NoLostWakeup, MustWait, MustSignal, ExclusiveAccess, ring
  <2>3. CallData'
    BY <1>9 DEF Signal, CallData, ExclusiveAccess, MustWait, ring
  <2> QED
    BY <1>9, <1>0, <2>1, <2>2, <2>3 DEF Signal
<1>10. ASSUME NEW t \in Threads, Unlock(t)
       PROVE  ExclusiveAccess' /\ NoLostWakeup' /\ CallData' /\ RingConsistent'
  BY <1>10, <1>0 DEF Unlock, ExclusiveAccess, NoLostWakeup, CallData, MustWait, MustSignal, ring
<1>11. ASSUME UNCHANGED vars
       PROVE  ExclusiveAccess' /\ NoLostWakeup' /\ CallData' /\ RingConsistent'
  BY <1>11, <1>0 DEF vars, ExclusiveAccess, NoLostWakeup, CallData, MustWait, MustSignal, ring
<1> QED
  BY <1>1, <1>2, <1>3, <1>4, <1>5, <1>6, <1>7, <1>8, <1>9, <1>10, <1>11
     DEF Next, InCall

(* The invariant IInv holds in every reachable state of the ring. *)
THEOREM Invariance == Spec => []IInv
<1>1. QED
  BY InitIInv, NextIInv, PTL DEF Spec

(* Every variable of the queue has its type: space stays between 0 and FIFO_SIZE, *)
(* head and tail stay slots of the ring.                                         *)
THEOREM TypeCorrect == Spec => []TypeOK
<1>1. IInv => TypeOK
  BY DEF IInv
<1>2. QED
  BY <1>1, Invariance, PTL

(* No thread sleeps on the condition variable once its reason is gone, unless *)
(* the signal that wakes it is the other thread's next step.                  *)
THEOREM NoLostWakeupHolds == Spec => []NoLostWakeup
<1>1. IInv => NoLostWakeup
  BY DEF IInv
<1>2. QED
  BY <1>1, Invariance, PTL

-----------------------------------------------------------------------------
(* The refinement of BoundedQueue. *)

Payload == Values \cup {NoValue}

(* The abstract queue as a function of the fields it is read from. *)
ContentsOf(st, tl, sp) == [i \in 1 .. FIFO_SIZE - sp |-> st[(tl + i - 1) % FIFO_SIZE]]

(* One turn of the ring at most. *)
Wrap(a) == IF a < FIFO_SIZE THEN a ELSE a - FIFO_SIZE

(* It is a sequence with one element per used slot, wrapping around. *)
LEMMA Contents ==
  ASSUME NEW st \in [Slots -> Payload], NEW tl \in Slots, NEW sp \in 0 .. FIFO_SIZE,
         NEW c, c = ContentsOf(st, tl, sp)
  PROVE  /\ c \in Seq(Payload)
         /\ Len(c) = FIFO_SIZE - sp
         /\ \A i \in 1 .. FIFO_SIZE - sp : c[i] = st[Wrap(tl + i - 1)]
<1>1. ASSUME NEW i \in 1 .. FIFO_SIZE - sp
      PROVE  /\ (tl + i - 1) % FIFO_SIZE = Wrap(tl + i - 1)
             /\ Wrap(tl + i - 1) \in Slots
  <2> DEFINE a == tl + i - 1
  <2>1. a \in 0 .. 2 * FIFO_SIZE - 1
    BY FifoSizeAssumption DEF Slots
  <2> HIDE DEF a
  <2>2. a % FIFO_SIZE = Wrap(a)
    BY <2>1, RingIndex DEF Wrap
  <2>3. Wrap(a) \in Slots
    BY <2>1, FifoSizeAssumption DEF Wrap, Slots
  <2> QED
    BY <2>2, <2>3 DEF a
<1>2. \A i \in 1 .. FIFO_SIZE - sp : c[i] = st[Wrap(tl + i - 1)]
  BY <1>1 DEF ContentsOf
<1>3. c \in [1 .. FIFO_SIZE - sp -> Payload]
  BY <1>1 DEF ContentsOf
<1>4. FIFO_SIZE - sp \in Nat
  BY FifoSizeAssumption
<1> QED
  BY <1>2, <1>3, <1>4

(* The writer's counter update appends its argument. *)
LEMMA WriterCounts ==
  ASSUME IInv, TypeOK', Count("writer")
  PROVE  /\ RingContents' = Append(RingContents, local["writer"])
         /\ Len(RingContents) < FIFO_SIZE
<1>1. /\ space' = space - 1 /\ space \in 1 .. FIFO_SIZE
      /\ tail' = tail /\ tail \in Slots
      /\ storage' = storage /\ storage \in [Slots -> Payload]
      /\ storage[head] = local["writer"] /\ local["writer"] \in Payload
  BY FifoSizeAssumption
     DEF Count, Goto, IInv, TypeOK, CallData, MustWait, Threads, Payload
<1>2. head = Wrap(tail + (FIFO_SIZE - space))
  <2> DEFINE a == tail + (FIFO_SIZE - space)
  <2>1. a \in 0 .. 2 * FIFO_SIZE - 1 /\ head = a % FIFO_SIZE
    BY <1>1, FifoSizeAssumption DEF IInv, RingConsistent, Slots
  <2> HIDE DEF a
  <2>2. head = Wrap(a)
    BY <2>1, RingIndex DEF Wrap
  <2> QED
    BY <2>2 DEF a
<1> DEFINE s == ContentsOf(storage, tail, space - 1)
           t == ContentsOf(storage, tail, space)
           u == Append(t, local["writer"])
<1>3. space - 1 \in 0 .. FIFO_SIZE /\ space \in 0 .. FIFO_SIZE
  BY <1>1, FifoSizeAssumption
<1>4. /\ s \in Seq(Payload) /\ Len(s) = FIFO_SIZE - (space - 1)
      /\ \A i \in 1 .. FIFO_SIZE - (space - 1) : s[i] = storage[Wrap(tail + i - 1)]
  BY <1>1, <1>3, Contents
<1>5. /\ t \in Seq(Payload) /\ Len(t) = FIFO_SIZE - space
      /\ \A i \in 1 .. FIFO_SIZE - space : t[i] = storage[Wrap(tail + i - 1)]
  BY <1>1, <1>3, Contents
<1> HIDE DEF s, t
<1>6. /\ u \in Seq(Payload) /\ Len(u) = FIFO_SIZE - space + 1
      /\ \A i \in 1 .. FIFO_SIZE - space : u[i] = t[i]
      /\ u[FIFO_SIZE - space + 1] = local["writer"]
  BY <1>1, <1>5, FifoSizeAssumption
<1> HIDE DEF u
<1>7. s[FIFO_SIZE - space + 1] = local["writer"]
  <2>1. tail + (FIFO_SIZE - space + 1) - 1 = tail + (FIFO_SIZE - space)
    BY <1>1, FifoSizeAssumption DEF Slots
  <2> QED
    BY <2>1, <1>1, <1>2, <1>4, FifoSizeAssumption
<1>8. Len(s) = Len(u) /\ \A i \in 1 .. Len(s) : s[i] = u[i]
  BY <1>1, <1>4, <1>5, <1>6, <1>7, FifoSizeAssumption
<1>9. s = u
  BY <1>4, <1>6, <1>8, SeqEqual
<1> QED
  BY <1>1, <1>5, <1>9, FifoSizeAssumption DEF RingContents, ContentsOf, s, t, u

(* The reader's counter update removes the value it holds. *)
LEMMA ReaderCounts ==
  ASSUME IInv, TypeOK', Count("reader")
  PROVE  /\ RingContents # <<>>
         /\ local["reader"] = Head(RingContents)
         /\ RingContents' = Tail(RingContents)
<1>1. /\ space' = space + 1 /\ space \in 0 .. FIFO_SIZE - 1
      /\ tail' = Wrap(tail + 1) /\ tail \in Slots /\ tail' \in Slots
      /\ storage' = storage /\ storage \in [Slots -> Payload]
      /\ storage[tail] = local["reader"]
  BY NextSlot, FifoSizeAssumption
     DEF Count, Goto, IInv, TypeOK, CallData, MustWait, Threads, Payload, Wrap, Slots
<1> DEFINE s == ContentsOf(storage, tail', space + 1)
           t == ContentsOf(storage, tail, space)
           u == Tail(t)
<1>2. space + 1 \in 0 .. FIFO_SIZE /\ space \in 0 .. FIFO_SIZE
  BY <1>1, FifoSizeAssumption
<1>3. /\ s \in Seq(Payload) /\ Len(s) = FIFO_SIZE - (space + 1)
      /\ \A i \in 1 .. FIFO_SIZE - (space + 1) : s[i] = storage[Wrap(tail' + i - 1)]
  BY <1>1, <1>2, Contents
<1>4. /\ t \in Seq(Payload) /\ Len(t) = FIFO_SIZE - space
      /\ \A i \in 1 .. FIFO_SIZE - space : t[i] = storage[Wrap(tail + i - 1)]
  BY <1>1, <1>2, Contents
<1> HIDE DEF s, t
<1>5. t # <<>> /\ Head(t) = t[1] /\ t[1] = local["reader"]
  <2>1. Len(t) > 0 /\ Wrap(tail + 1 - 1) = tail
    BY <1>1, <1>4, FifoSizeAssumption DEF Wrap, Slots
  <2> QED
    BY <2>1, <1>1, <1>4, FifoSizeAssumption
<1>6. /\ u \in Seq(Payload) /\ Len(u) = FIFO_SIZE - (space + 1)
      /\ \A i \in 1 .. FIFO_SIZE - (space + 1) : u[i] = t[i + 1]
  BY <1>1, <1>4, <1>5, HeadTailProperties, FifoSizeAssumption
<1> HIDE DEF u
<1>7. ASSUME NEW i \in 1 .. FIFO_SIZE - (space + 1)
      PROVE  s[i] = u[i]
  <2>1. i + 1 \in 1 .. FIFO_SIZE - space
    BY <1>1, FifoSizeAssumption
  <2>2. Wrap(tail' + i - 1) = Wrap(tail + (i + 1) - 1)
    BY <1>1, FifoSizeAssumption DEF Wrap, Slots
  <2> QED
    BY <2>1, <2>2, <1>3, <1>4, <1>6
<1>8. s = u
  BY <1>3, <1>6, <1>7, SeqEqual
<1> QED
  BY <1>1, <1>5, <1>8 DEF RingContents, ContentsOf, s, t, u

(* A transfer moves data that is outside the abstract queue: the writer fills *)
(* an unused slot, the reader's local copy is not yet its result.             *)
LEMMA TransferIsInvisible ==
  ASSUME IInv, NEW t \in Threads, Transfer(t)
  PROVE  RingContents' = RingContents
<1>1. space \in 0 .. FIFO_SIZE /\ tail \in Slots /\ UNCHANGED <<tail, space, head>>
  BY DEF IInv, TypeOK, Transfer
<1>2. CASE t = "reader"
  BY <1>1, <1>2 DEF Transfer, RingContents
<1>3. CASE t = "writer"
  <2>1. space # 0 /\ storage' = [storage EXCEPT ![head] = local[t]]
    BY <1>3 DEF Transfer, Goto, IInv, CallData, MustWait
  <2>2. ASSUME NEW i \in 1 .. FIFO_SIZE - space
        PROVE  (tail + i - 1) % FIFO_SIZE \in Slots \ {head}
    <3> DEFINE a == tail + i - 1
               b == tail + (FIFO_SIZE - space)
    <3>1. a \in 0 .. 2 * FIFO_SIZE - 1 /\ b \in 0 .. 2 * FIFO_SIZE - 1
      BY <1>1, FifoSizeAssumption DEF Slots
    <3>2. a < b /\ b < a + FIFO_SIZE
      BY <1>1, <2>1, FifoSizeAssumption DEF Slots
    <3>3. head = b % FIFO_SIZE
      BY DEF IInv, RingConsistent
    <3> HIDE DEF a, b
    <3>4. a % FIFO_SIZE = Wrap(a) /\ b % FIFO_SIZE = Wrap(b)
      BY <3>1, RingIndex DEF Wrap
    <3>5. Wrap(a) \in Slots /\ Wrap(a) # Wrap(b)
      BY <3>1, <3>2, FifoSizeAssumption DEF Wrap, Slots
    <3> QED
      BY <3>3, <3>4, <3>5 DEF a
  <2> QED
    BY <1>1, <2>1, <2>2 DEF RingContents, IInv, TypeOK
<1> QED
  BY <1>2, <1>3 DEF Threads

(* The initial ring is the initial queue. *)
LEMMA InitRefines == Init => Queue!Init
<1> SUFFICES ASSUME Init PROVE Queue!Init
  OBVIOUS
<1>1. RingContents = <<>>
  BY FifoSizeAssumption DEF Init, RingContents
<1> QED
  BY <1>1 DEF Init, Queue!Init, Queue!Idle, Progress, Threads

(* Every step of the ring is a step of the queue, or changes nothing of it. *)
LEMMA NextRefines == IInv /\ TypeOK' /\ [Next]_vars => [Queue!Next]_(Queue!vars)
<1> SUFFICES ASSUME IInv, TypeOK', [Next]_vars
             PROVE  [Queue!Next]_(Queue!vars)
  OBVIOUS
<1> USE DEF Goto, Threads, Progress, Queue!vars, Queue!Idle
<1>a. /\ pc \in [Threads -> PCs] /\ local \in [Threads -> Values \cup {NoValue}]
      /\ CallData
  BY DEF IInv, TypeOK
<1>1. ASSUME NEW v \in Values, CallWrite(v) PROVE Queue!InvokeWrite(v)
  BY <1>1, <1>a DEF CallWrite, Queue!InvokeWrite, CallData, RingContents, ring
<1>2. ASSUME CallRead PROVE Queue!InvokeRead
  BY <1>2, <1>a DEF CallRead, Queue!InvokeRead, CallData, RingContents, ring
<1>3. ASSUME NEW t \in Threads, Lock(t) \/ SpuriousWakeup(t) \/ Pass(t) \/ Wait(t)
      PROVE  UNCHANGED Queue!vars
  BY <1>3, <1>a DEF Lock, SpuriousWakeup, Pass, Wait, RingContents, ring, PCs
<1>4. ASSUME NEW t \in Threads, Transfer(t) PROVE UNCHANGED Queue!vars
  BY <1>4, <1>a, TransferIsInvisible DEF Transfer, PCs
<1>5. ASSUME Count("writer") PROVE Queue!Enqueue
  BY <1>5, <1>a, WriterCounts DEF Count, Queue!Enqueue, PCs
<1>6. ASSUME Count("reader") PROVE Queue!Dequeue
  BY <1>6, <1>a, ReaderCounts DEF Count, Queue!Dequeue, PCs
<1>7. ASSUME NEW t \in Threads, Signal(t) PROVE UNCHANGED Queue!vars
  BY <1>7, <1>a DEF Signal, RingContents, ring, PCs, Other, IInv, ExclusiveAccess, Critical
<1>8. ASSUME Unlock("writer") PROVE Queue!ReturnWrite
  BY <1>8, <1>a DEF Unlock, Queue!ReturnWrite, RingContents, ring, PCs
<1>9. ASSUME Unlock("reader") PROVE Queue!ReturnRead
  BY <1>9, <1>a DEF Unlock, Queue!ReturnRead, RingContents, ring, PCs
<1>10. ASSUME UNCHANGED vars PROVE UNCHANGED Queue!vars
  BY <1>10 DEF vars, RingContents
<1> QED
  BY <1>1, <1>2, <1>3, <1>4, <1>5, <1>6, <1>7, <1>8, <1>9, <1>10
     DEF Next, InCall, Queue!Next

(* single_fifo implements a bounded FIFO queue, whatever FIFO_SIZE is. *)
THEOREM FifoIsQueue == Spec => IsQueue
<1>1. IInv => TypeOK
  BY DEF IInv
<1>2. QED
  BY <1>1, InitRefines, NextRefines, Invariance, PTL DEF Spec, IsQueue, Queue!Spec
=============================================================================
