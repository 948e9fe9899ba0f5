------------------------ MODULE StagePipelineProofs ------------------------
(***************************************************************************)
(* Proofs about StagePipeline for every number of stages and instructions, *)
(* every plan, trace and FIFO_SIZE >= 1.                                   *)
(***************************************************************************)
EXTENDS StagePipeline, DataProofs

(* The plan *)

(* What a stage has to do next is the first of what is left. *)
LEMMA FirstIsLeast ==
  ASSUME NEW todo \in SUBSET Instrs, todo # {}
  PROVE  First(todo) \in todo /\ \A j \in todo : First(todo) <= j
<1>1. \E i \in todo : \A j \in todo : i <= j
  BY LeastExists, StagesAssumption DEF Instrs
<1> QED
  BY <1>1 DEF First

LEMMA RoundsType == Rounds \in Nat /\ Trace \in [1 .. Rounds -> Blocks]
  BY TraceAssumption DEF Rounds

(* What a stage has to do in a round. *)
LEMMA OpsMembers ==
  ASSUME PlanOK, NEW s \in Stages, NEW r \in Nat
  PROVE  /\ Ops(s, r) \in SUBSET Instrs
         /\ \A i \in Instrs : i \in Ops(s, r) <=>
              /\ r <= Rounds /\ BlockOf[i] = Trace[r]
              /\ (owner[i] = s /\ readers[i] # {}) \/ s \in readers[i]
  BY RoundsType DEF PlanOK, Ops, Sends, Receives

(* The sender of a value is an earlier stage than its readers. *)
LEMMA SenderIsEarlier ==
  ASSUME PlanOK, NEW i \in Instrs, NEW q \in readers[i]
  PROVE  /\ owner[i] \in Stages /\ q \in Stages
         /\ owner[i] # q /\ owner[i] \notin readers[i]
  BY StagesAssumption DEF PlanOK, Stages

-----------------------------------------------------------------------------
(* The invariant *)


(* The operation in progress is the first one left, and what it has still to  *)
(* serve are readers of the value (a push) or the stage itself (a pop).       *)
WorkInOrder ==
  \A s \in Stages :
    /\ at[s].todo \subseteq Ops(s, at[s].round)
    /\ at[s].cur = 0 => at[s].left = {}
    /\ at[s].cur # 0 => /\ at[s].cur \in at[s].todo
                        /\ \A j \in at[s].todo : at[s].cur <= j
                        /\ at[s].left # {}
                        /\ at[s].left \subseteq (IF owner[at[s].cur] = s
                                                 THEN readers[at[s].cur] ELSE {s})

(* A reader is never past a value its sender is not past. *)
ReaderBehind ==
  \A i \in Instrs : \A q \in readers[i] : \A r \in 1 .. Rounds :
    BlockOf[i] = Trace[r] /\ Past(q, i, r, q) => Past(owner[i], i, r, q)

(* Only the slots of readers are used. *)
OnlyReaders == \A i \in Instrs : \A s \in Stages \ readers[i] : fifos[i][s] = <<>>

(* What the top level has joined is done. *)
JoinedDone == /\ joined > 0 => created = NumStages
              /\ \A s \in Stages : s <= joined => Done(s)

(* The inductive invariant. *)
IInv == /\ TypeOK
        /\ WorkInOrder
        /\ ReaderBehind
        /\ ChannelHoldsTheDifference
        /\ OnlyReaders
        /\ JoinedDone

-----------------------------------------------------------------------------
(* Types *)

(* The values of at[s]. *)
Work == [round : 1 .. Rounds + 1, todo : SUBSET Instrs,
         cur : Instrs \cup {0}, left : SUBSET Stages]

LEMMA InitType == Init => TypeOK
<1> SUFFICES ASSUME Init PROVE TypeOK
  OBVIOUS
<1> USE DEF Init
<1>1. at \in [Stages -> Work]
  <2>1. ASSUME NEW s \in Stages PROVE Ops(s, 1) \in SUBSET Instrs
    BY OpsMembers
  <2> QED
    BY <2>1, RoundsType DEF EnterRound, Work
<1>2. /\ fifos \in [Instrs -> [Stages -> Seq(1 .. Rounds)]]
      /\ \A i \in Instrs, s \in Stages : Len(fifos[i][s]) <= FIFO_SIZE
  BY SizeAssumption, RoundsType
<1> QED
  BY <1>1, <1>2, StagesAssumption DEF TypeOK, Work

(* The slot served next is one of those left. *)
LEMMA NextSlotIsLeft ==
  ASSUME TypeOK, NEW s \in Stages, at[s].left # {}
  PROVE  NextSlot(s) \in at[s].left
<1>1. at[s].left \in SUBSET Stages
  BY DEF TypeOK
<1>2. \E r \in at[s].left : \A q \in at[s].left : q <= r
  BY <1>1, GreatestExists, StagesAssumption DEF Stages
<1> QED
  BY <1>2 DEF NextSlot

(* What serving a slot leaves of the stage's work. *)
LEMMA ServedIs ==
  ASSUME TypeOK, NEW s \in Stages, NEW q
  PROVE  LET w == Served(s, q)
         IN  /\ w \in Work
             /\ w.round = at[s].round
             /\ at[s].left \ {q} = {} =>
                  /\ w.todo = at[s].todo \ {at[s].cur}
                  /\ w.cur = 0 /\ w.left = {}
             /\ at[s].left \ {q} # {} =>
                  /\ w.todo = at[s].todo /\ w.cur = at[s].cur
                  /\ w.left = at[s].left \ {q}
<1>1. /\ at[s] \in Work
      /\ at[s].todo \ {at[s].cur} \in SUBSET Instrs
      /\ at[s].left \ {q} \in SUBSET Stages
  BY DEF TypeOK, Work
<1>2. CASE at[s].left \ {q} = {}
  BY <1>1, <1>2 DEF Served, Work
<1>3. CASE at[s].left \ {q} # {}
  BY <1>1, <1>3 DEF Served, Work
<1> QED
  BY <1>2, <1>3

LEMMA NextType == TypeOK /\ WorkInOrder /\ [Next]_vars => TypeOK'
<1> SUFFICES ASSUME TypeOK, WorkInOrder, [Next]_vars PROVE TypeOK'
  OBVIOUS
<1> USE DEF TypeOK, Work, plan
<1>1. ASSUME NEW s \in Stages, Start(s) PROVE TypeOK'
  <2>1. NextOp(s) \in Instrs
    <3>1. at[s].todo \in SUBSET Instrs /\ at[s].todo # {}
      BY <1>1 DEF Start
    <3> QED
      BY <3>1, FirstIsLeast DEF NextOp
  <2>2. (IF owner[NextOp(s)] = s THEN readers[NextOp(s)] ELSE {s}) \in SUBSET Stages
    BY <2>1 DEF PlanOK
  <2>3. at' \in [Stages -> Work]
    <3>1. at[s] \in Work
      OBVIOUS
    <3>2. [at[s] EXCEPT !.cur = NextOp(s), !.left = IF owner[NextOp(s)] = s
                                                    THEN readers[NextOp(s)] ELSE {s}] \in Work
      BY <2>1, <2>2, <3>1
    <3> QED
      BY <1>1, <3>2 DEF Start
  <2> QED
    BY <1>1, <2>3 DEF Start, PlanOK
<1>2. ASSUME NEW s \in Stages, Push(s) PROVE TypeOK'
  <2> DEFINE i == at[s].cur
             q == NextSlot(s)
  <2>1. i \in Instrs /\ at[s].round \in 1 .. Rounds
    BY <1>2, RoundsType DEF Push, Running
  <2>2. q \in Stages
    BY <1>2, NextSlotIsLeft DEF Push, WorkInOrder
  <2>3. /\ fifos' = [fifos EXCEPT ![i][q] = Append(@, at[s].round)]
        /\ at' = [at EXCEPT ![s] = Served(s, q)]
        /\ Len(fifos[i][q]) < FIFO_SIZE
        /\ UNCHANGED <<plan, created, joined>>
    BY <1>2 DEF Push
  <2> HIDE DEF i, q
  <2>4. at' \in [Stages -> Work]
    BY <2>2, <2>3, ServedIs
  <2>5. /\ Append(fifos[i][q], at[s].round) \in Seq(1 .. Rounds)
        /\ Len(Append(fifos[i][q], at[s].round)) <= FIFO_SIZE
    BY <2>1, <2>2, <2>3, SizeAssumption
  <2>6. /\ fifos' \in [Instrs -> [Stages -> Seq(1 .. Rounds)]]
        /\ \A j \in Instrs, t \in Stages : Len(fifos'[j][t]) <= FIFO_SIZE
    BY <2>1, <2>2, <2>3, <2>5
  <2> QED
    BY <2>3, <2>4, <2>6 DEF PlanOK
<1>3. ASSUME NEW s \in Stages, Pop(s) PROVE TypeOK'
  <2> DEFINE i == at[s].cur
  <2>1. i \in Instrs
    BY <1>3 DEF Pop
  <2>2. /\ fifos' = [fifos EXCEPT ![i][s] = Tail(@)]
        /\ at' = [at EXCEPT ![s] = Served(s, s)]
        /\ fifos[i][s] # <<>>
        /\ UNCHANGED <<plan, created, joined>>
    BY <1>3 DEF Pop
  <2> HIDE DEF i
  <2>3. at' \in [Stages -> Work]
    BY <2>2, ServedIs
  <2>4. /\ Tail(fifos[i][s]) \in Seq(1 .. Rounds)
        /\ Len(Tail(fifos[i][s])) <= FIFO_SIZE
    <3> DEFINE seq == fifos[i][s]
    <3>1. seq \in Seq(1 .. Rounds) /\ Len(seq) <= FIFO_SIZE /\ seq # <<>>
      BY <2>1, <2>2
    <3> HIDE DEF seq
    <3>2. Tail(seq) \in Seq(1 .. Rounds) /\ Len(Tail(seq)) = Len(seq) - 1 /\ Len(seq) \in Nat
      BY <3>1, HeadTailProperties, LenProperties
    <3> QED
      BY <3>1, <3>2, SizeAssumption DEF seq
  <2>5. /\ fifos' \in [Instrs -> [Stages -> Seq(1 .. Rounds)]]
        /\ \A j \in Instrs, t \in Stages : Len(fifos'[j][t]) <= FIFO_SIZE
    BY <2>1, <2>2, <2>4
  <2> QED
    BY <2>2, <2>3, <2>5 DEF PlanOK
<1>4. ASSUME NEW s \in Stages, Branch(s) PROVE TypeOK'
  <2>1. at[s].round + 1 \in 1 .. Rounds + 1
    BY <1>4, RoundsType DEF Branch, Running
  <2>2. Ops(s, at[s].round + 1) \in SUBSET Instrs
    BY <2>1, RoundsType, OpsMembers
  <2>3. at' \in [Stages -> Work]
    BY <1>4, <2>1, <2>2 DEF Branch, EnterRound
  <2> QED
    BY <1>4, <2>3 DEF Branch, PlanOK
<1>5. CASE Create
  BY <1>5, StagesAssumption DEF Create, PlanOK
<1>6. CASE Join
  BY <1>6, StagesAssumption DEF Join, PlanOK
<1>7. CASE UNCHANGED vars
  BY <1>7 DEF vars, PlanOK
<1> QED
  BY <1>1, <1>2, <1>3, <1>4, <1>5, <1>6, <1>7 DEF Next, Stage

-----------------------------------------------------------------------------
(* What the steps of a stage do to its work, and to what it is past *)

(* The operation in progress is a send or a receive of the stage's block. *)
LEMMA InProgress ==
  ASSUME TypeOK, WorkInOrder, NEW s \in Stages, at[s].cur # 0
  PROVE  /\ at[s].cur \in Instrs /\ at[s].round \in 1 .. Rounds
         /\ BlockOf[at[s].cur] = Trace[at[s].round]
         /\ at[s].cur \in at[s].todo
         /\ owner[at[s].cur] = s => at[s].left \subseteq readers[at[s].cur]
         /\ owner[at[s].cur] # s => s \in readers[at[s].cur] /\ at[s].left = {s}
<1>1. /\ at[s].cur \in at[s].todo /\ at[s].left # {}
      /\ at[s].cur \in Ops(s, at[s].round)
      /\ at[s].left \subseteq (IF owner[at[s].cur] = s THEN readers[at[s].cur] ELSE {s})
  BY DEF WorkInOrder
<1>2. at[s].cur \in Instrs /\ at[s].round \in 1 .. Rounds + 1 /\ PlanOK
  BY DEF TypeOK
<1>3. at[s].round \in Nat
  BY <1>2, RoundsType
<1>4. /\ at[s].round <= Rounds /\ BlockOf[at[s].cur] = Trace[at[s].round]
      /\ owner[at[s].cur] = s \/ s \in readers[at[s].cur]
  BY <1>1, <1>2, <1>3, OpsMembers
<1>5. owner[at[s].cur] # s => s \in readers[at[s].cur] /\ at[s].left = {s}
  BY <1>1, <1>4
<1> QED
  BY <1>1, <1>2, <1>4, <1>5, RoundsType

(* Start picks the first operation left, with at least one slot to serve. *)
LEMMA StartIs ==
  ASSUME TypeOK, WorkInOrder, NEW s \in Stages, Start(s)
  PROVE  LET i == NextOp(s)
         IN  /\ i \in Instrs /\ i \in at[s].todo /\ \A j \in at[s].todo : i <= j
             /\ at'[s].round = at[s].round /\ at'[s].todo = at[s].todo
             /\ at'[s].cur = i
             /\ at'[s].left = IF owner[i] = s THEN readers[i] ELSE {s}
             /\ at'[s].left # {}
             /\ \A t \in Stages \ {s} : at'[t] = at[t]
<1> DEFINE i == NextOp(s)
<1>1. at[s].todo \in SUBSET Instrs /\ at[s].todo # {} /\ at[s] \in Work
  BY DEF TypeOK, Start, Work
<1>2. i \in at[s].todo /\ \A j \in at[s].todo : i <= j
  BY <1>1, FirstIsLeast DEF NextOp
<1>3. at' = [at EXCEPT ![s].cur = i, ![s].left = IF owner[i] = s THEN readers[i] ELSE {s}]
  BY DEF Start
<1> HIDE DEF i
<1>4. /\ at'[s].round = at[s].round /\ at'[s].todo = at[s].todo
      /\ at'[s].cur = i
      /\ at'[s].left = IF owner[i] = s THEN readers[i] ELSE {s}
      /\ \A t \in Stages \ {s} : at'[t] = at[t]
  BY <1>1, <1>3 DEF TypeOK, Work
<1>5. owner[i] = s => readers[i] # {}
  <2>1. i \in Ops(s, at[s].round) /\ at[s].round \in Nat /\ PlanOK /\ i \in Instrs
    BY <1>1, <1>2, RoundsType DEF WorkInOrder, TypeOK
  <2> QED
    BY <2>1, OpsMembers
<1> QED
  BY <1>1, <1>2, <1>4, <1>5 DEF i

(* Serving a slot makes the stage past that value for that slot, and past *)
(* nothing else.                                                         *)
LEMMA ServedPast ==
  ASSUME TypeOK, WorkInOrder, NEW s \in Stages, at[s].cur # 0, NEW p \in at[s].left,
         at' = [at EXCEPT ![s] = Served(s, p)]
  PROVE  \A t \in Stages, i \in Instrs, r \in 1 .. Rounds, q \in Stages :
           /\ Past(t, i, r, q)' <=>
                Past(t, i, r, q) \/ (t = s /\ i = at[s].cur /\ r = at[s].round /\ q = p)
           /\ t = s /\ i = at[s].cur /\ r = at[s].round /\ q = p => ~ Past(t, i, r, q)
<1>1. /\ at[s].cur \in at[s].todo /\ at[s].round \in 1 .. Rounds
  BY InProgress
<1>2. \A t \in Stages : at'[t] = IF t = s THEN Served(s, p) ELSE at[t]
  BY DEF TypeOK
<1> TAKE t \in Stages, i \in Instrs, r \in 1 .. Rounds, q \in Stages
<1>3. CASE t # s
  BY <1>2, <1>3 DEF Past
<1>4. CASE t = s /\ at[s].left \ {p} = {}
  <2>1. /\ at'[s].round = at[s].round /\ at'[s].cur = 0
        /\ at'[s].todo = at[s].todo \ {at[s].cur}
    BY <1>2, <1>4, ServedIs
  <2>2. at[s].left = {p} /\ i # 0
    BY <1>4, StagesAssumption DEF Instrs
  <2> QED
    BY <1>1, <1>4, <2>1, <2>2, RoundsType DEF Past
<1>5. CASE t = s /\ at[s].left \ {p} # {}
  <2>1. /\ at'[s].round = at[s].round /\ at'[s].cur = at[s].cur
        /\ at'[s].todo = at[s].todo
        /\ at'[s].left = at[s].left \ {p}
    BY <1>2, <1>5, ServedIs
  <2> QED
    BY <1>1, <1>5, <2>1, RoundsType DEF Past
<1> QED
  BY <1>3, <1>4, <1>5

(* A send or a receive of a block execution. *)
Travels(i, q, r) == q \in readers[i] /\ BlockOf[i] = Trace[r]

(* Starting an operation and branching make no stage past a value. *)
LEMMA QuietPast ==
  ASSUME TypeOK, WorkInOrder, NEW s \in Stages, Start(s) \/ Branch(s),
         NEW i \in Instrs, NEW q \in Stages, NEW r \in 1 .. Rounds, Travels(i, q, r)
  PROVE  /\ Past(owner[i], i, r, q)' <=> Past(owner[i], i, r, q)
         /\ Past(q, i, r, q)' <=> Past(q, i, r, q)
<1>1. owner[i] \in Stages /\ owner[i] # q /\ owner' = owner
  BY SenderIsEarlier DEF TypeOK, Travels, Start, Branch, plan
<1>2. ASSUME NEW t \in {owner[i], q} PROVE Past(t, i, r, q)' <=> Past(t, i, r, q)
  <2>1. CASE Start(s)
    <3>1. CASE t # s
      <4>1. t \in Stages \ {s}
        BY <1>1, <3>1
      <4>2. at'[t] = at[t]
        BY <2>1, <4>1, StartIs
      <4> QED
        BY <4>2 DEF Past
    <3>2. CASE t = s /\ i # NextOp(s)
      <4>1. at[s].cur = 0 /\ i # 0
        BY <2>1, StagesAssumption DEF Start, Instrs
      <4> QED
        BY <2>1, <3>2, <4>1, StartIs DEF Past
    <3>3. CASE t = s /\ i = NextOp(s)
      <4>1. q \in at'[s].left
        BY <1>1, <2>1, <3>3, StartIs DEF Travels
      <4>2. at[s].cur = 0 /\ i # 0
        BY <2>1, StagesAssumption DEF Start, Instrs
      <4> QED
        BY <2>1, <3>3, <4>1, <4>2, StartIs DEF Past
    <3> QED
      BY <3>1, <3>2, <3>3
  <2>2. CASE Branch(s)
    <3>1. /\ at' = [at EXCEPT ![s] = EnterRound(s, at[s].round + 1)]
          /\ at[s].todo = {} /\ at[s].cur = 0 /\ at[s].round \in 1 .. Rounds
      BY <2>2, RoundsType DEF Branch, Running, TypeOK
    <3>2. \A u \in Stages : at'[u] = IF u = s THEN EnterRound(s, at[s].round + 1) ELSE at[u]
      BY <3>1 DEF TypeOK
    <3>3. CASE t # s
      BY <1>1, <3>2, <3>3 DEF Past
    <3>4. CASE t = s
      <4>1. r <= Rounds /\ (owner[i] = t \/ t = q)
        BY RoundsType
      <4>2. r = at[s].round + 1 => i \in Ops(s, at[s].round + 1)
        BY <3>1, <3>4, <4>1, OpsMembers, RoundsType DEF TypeOK, Travels
      <4>3. /\ at'[s].round = at[s].round + 1 /\ at'[s].cur = 0
            /\ at'[s].todo = Ops(s, at[s].round + 1)
        BY <3>2 DEF EnterRound
      <4>4. i # 0
        BY StagesAssumption DEF Instrs
      <4> QED
        BY <3>1, <3>4, <4>2, <4>3, <4>4, RoundsType DEF Past
    <3> QED
      BY <3>3, <3>4
  <2> QED
    BY <2>1, <2>2
<1> QED
  BY <1>1, <1>2

(* A push makes the sender past the value of its round, for one reader. *)
LEMMA PushIs ==
  ASSUME TypeOK, WorkInOrder, NEW s \in Stages, Push(s)
  PROVE  LET i == at[s].cur
             p == NextSlot(s)
             r == at[s].round
         IN  /\ i \in Instrs /\ owner[i] = s /\ Travels(i, p, r) /\ p \in at[s].left
             /\ r \in 1 .. Rounds /\ at' = [at EXCEPT ![s] = Served(s, p)]
             /\ fifos' = [fifos EXCEPT ![i][p] = Append(@, r)]
             /\ UNCHANGED <<owner, readers, created, joined>>
             /\ ~ Past(owner[i], i, r, p)
             /\ \A j \in Instrs, q \in Stages, x \in 1 .. Rounds : q \in readers[j] =>
                  /\ Past(owner[j], j, x, q)' <=>
                       Past(owner[j], j, x, q) \/ (j = i /\ q = p /\ x = r)
                  /\ Past(q, j, x, q)' <=> Past(q, j, x, q)
<1> DEFINE i == at[s].cur
           r == at[s].round
<1>1. /\ at' = [at EXCEPT ![s] = Served(s, NextSlot(s))]
      /\ fifos' = [fifos EXCEPT ![i][NextSlot(s)] = Append(@, r)]
      /\ UNCHANGED <<owner, readers, created, joined>>
      /\ owner[i] = s /\ i # 0
  BY DEF Push, plan
<1>2. PICK p \in at[s].left : p = NextSlot(s)
  BY <1>1, NextSlotIsLeft DEF WorkInOrder
<1>3. i \in Instrs /\ r \in 1 .. Rounds /\ Travels(i, p, r) /\ p \in Stages
  BY <1>1, <1>2, InProgress, SenderIsEarlier DEF Travels, TypeOK
<1>4. \A t \in Stages, j \in Instrs, x \in 1 .. Rounds, q \in Stages :
        /\ Past(t, j, x, q)' <=> Past(t, j, x, q) \/ (t = s /\ j = i /\ x = r /\ q = p)
        /\ t = s /\ j = i /\ x = r /\ q = p => ~ Past(t, j, x, q)
  BY <1>1, <1>2, ServedPast
<1> HIDE DEF i, r
<1>5. ASSUME NEW j \in Instrs, NEW q \in Stages, NEW x \in 1 .. Rounds, q \in readers[j]
      PROVE  /\ Past(owner[j], j, x, q)' <=>
                  Past(owner[j], j, x, q) \/ (j = i /\ q = p /\ x = r)
             /\ Past(q, j, x, q)' <=> Past(q, j, x, q)
  <2>1. owner[j] \in Stages /\ owner[j] # q /\ owner' = owner
    BY <1>1, <1>5, SenderIsEarlier DEF TypeOK
  <2>2. Past(q, j, x, q)' <=> Past(q, j, x, q)
    BY <1>1, <1>4, <2>1
  <2>3. Past(owner[j], j, x, q)' <=> Past(owner[j], j, x, q) \/ (j = i /\ q = p /\ x = r)
    BY <1>1, <1>4, <2>1 DEF Past
  <2> QED
    BY <2>2, <2>3
<1>6. ~ Past(owner[i], i, r, p)
  BY <1>1, <1>3, <1>4
<1> QED
  BY <1>1, <1>2, <1>3, <1>5, <1>6 DEF i, r

(* A pop makes the reader past the value of its round, which is the one it *)
(* finds: older ones would be of rounds the reader has left, and a newer   *)
(* one shows that the sender is past this one, which then is still there.  *)
LEMMA PopIs ==
  ASSUME TypeOK, WorkInOrder, ChannelHoldsTheDifference, NEW s \in Stages, Pop(s)
  PROVE  LET i == at[s].cur
             r == at[s].round
         IN  /\ i \in Instrs /\ owner[i] # s /\ Travels(i, s, r)
             /\ r \in 1 .. Rounds /\ at' = [at EXCEPT ![s] = Served(s, s)]
             /\ fifos' = [fifos EXCEPT ![i][s] = Tail(@)]
             /\ UNCHANGED <<owner, readers, created, joined>>
             /\ fifos[i][s] # <<>> /\ Head(fifos[i][s]) = r
             /\ Past(owner[i], i, r, s) /\ ~ Past(s, i, r, s)
             /\ \A j \in Instrs, q \in Stages, x \in 1 .. Rounds : q \in readers[j] =>
                  /\ Past(owner[j], j, x, q)' <=> Past(owner[j], j, x, q)
                  /\ Past(q, j, x, q)' <=> Past(q, j, x, q) \/ (j = i /\ q = s /\ x = r)
<1> DEFINE i == at[s].cur
           r == at[s].round
<1>1. /\ at' = [at EXCEPT ![s] = Served(s, s)]
      /\ fifos' = [fifos EXCEPT ![i][s] = Tail(@)]
      /\ UNCHANGED <<owner, readers, created, joined>>
      /\ owner[i] # s /\ i # 0 /\ fifos[i][s] # <<>>
  BY DEF Pop, plan
<1>2. i \in Instrs /\ r \in 1 .. Rounds /\ Travels(i, s, r) /\ s \in at[s].left
  BY <1>1, InProgress DEF Travels
<1>3. \A t \in Stages, j \in Instrs, x \in 1 .. Rounds, q \in Stages :
        /\ Past(t, j, x, q)' <=> Past(t, j, x, q) \/ (t = s /\ j = i /\ x = r /\ q = s)
        /\ t = s /\ j = i /\ x = r /\ q = s => ~ Past(t, j, x, q)
  BY <1>1, <1>2, ServedPast
<1>4. r = at[s].round
  OBVIOUS
<1> HIDE DEF i, r
<1>5. ASSUME NEW j \in Instrs, NEW q \in Stages, NEW x \in 1 .. Rounds, q \in readers[j]
      PROVE  /\ Past(owner[j], j, x, q)' <=> Past(owner[j], j, x, q)
             /\ Past(q, j, x, q)' <=> Past(q, j, x, q) \/ (j = i /\ q = s /\ x = r)
  <2>1. owner[j] \in Stages /\ owner[j] # q /\ owner' = owner
    BY <1>1, <1>5, SenderIsEarlier DEF TypeOK
  <2>2. Past(q, j, x, q)' <=> Past(q, j, x, q) \/ (j = i /\ q = s /\ x = r)
    BY <1>1, <1>3, <2>1
  <2>3. j = i => owner[j] # s
    BY <1>1
  <2>4. Past(owner[j], j, x, q)' <=> Past(owner[j], j, x, q)
    BY <1>1, <1>3, <2>1, <2>3 DEF Past
  <2> QED
    BY <2>2, <2>4
<1>6. ~ Past(s, i, r, s)
  BY <1>2, <1>3
<1>7. Past(owner[i], i, r, s) /\ Head(fifos[i][s]) = r
  <2> DEFINE h == Head(fifos[i][s])
  <2>1. fifos[i][s] \in Seq(1 .. Rounds) /\ Lists(fifos[i][s], InFlight(i, s))
    BY <1>2 DEF TypeOK, ChannelHoldsTheDifference, Travels
  <2>2. h \in InFlight(i, s) /\ \A y \in InFlight(i, s) : h <= y
    <3>1. 1 .. Rounds \in SUBSET Nat
      BY RoundsType
    <3> HIDE DEF h
    <3>2. \A seq \in Seq(1 .. Rounds) : \A S : Lists(seq, S) /\ seq # <<>> =>
            Head(seq) \in S /\ \A y \in S : Head(seq) <= y
      BY <3>1, ListsHead, Zenon
    <3> QED
      BY <1>1, <2>1, <3>2, Zenon DEF h
  <2> HIDE DEF h
  <2>3. h \in 1 .. Rounds /\ Past(owner[i], i, h, s) /\ ~ Past(s, i, h, s)
    BY <2>2 DEF InFlight
  <2>4. owner[i] \in Stages /\ at[owner[i]].round \in 1 .. Rounds + 1
    BY <1>2, SenderIsEarlier DEF TypeOK, Travels
  <2>5. r <= h
    BY <1>2, <1>4, <2>3, RoundsType DEF Past
  <2>6. Past(owner[i], i, r, s)
    BY <1>2, <2>3, <2>4, <2>5, RoundsType DEF Past
  <2>7. r \in InFlight(i, s)
    BY <1>2, <1>6, <2>6 DEF InFlight, Travels
  <2>8. h = r
    BY <1>2, <2>2, <2>3, <2>5, <2>7, RoundsType
  <2> QED
    BY <2>6, <2>8 DEF h
<1> QED
  BY <1>1, <1>2, <1>5, <1>6, <1>7 DEF i, r

-----------------------------------------------------------------------------
(* The invariant *)

LEMMA InitInv == Init => IInv
<1> SUFFICES ASSUME Init PROVE IInv
  OBVIOUS
<1>1. TypeOK
  BY InitType
<1>2. \A s \in Stages : /\ at[s].round = 1 /\ at[s].todo = Ops(s, 1)
                       /\ at[s].cur = 0 /\ at[s].left = {}
  BY DEF Init, EnterRound
<1>3. WorkInOrder
  BY <1>2 DEF WorkInOrder
<1>4. \A i \in Instrs, q \in Stages, r \in 1 .. Rounds : Travels(i, q, r) =>
        ~ Past(q, i, r, q) /\ ~ Past(owner[i], i, r, q)
  <2> TAKE i \in Instrs, q \in Stages, r \in 1 .. Rounds
  <2> SUFFICES ASSUME Travels(i, q, r) PROVE ~ Past(q, i, r, q) /\ ~ Past(owner[i], i, r, q)
    OBVIOUS
  <2>1. owner[i] \in Stages /\ q \in readers[i] /\ i # 0
    BY <1>1, SenderIsEarlier, StagesAssumption DEF TypeOK, Travels, Instrs
  <2>2. r = 1 => i \in Ops(q, 1) /\ i \in Ops(owner[i], 1)
    BY <1>1, <2>1, OpsMembers, RoundsType DEF TypeOK, Travels
  <2> QED
    BY <1>2, <2>1, <2>2, RoundsType DEF Past
<1>5. ReaderBehind
  BY <1>1, <1>4 DEF ReaderBehind, TypeOK, PlanOK, Travels
<1>6. ChannelHoldsTheDifference
  <2> SUFFICES ASSUME NEW i \in Instrs, NEW q \in readers[i]
               PROVE  Lists(fifos[i][q], InFlight(i, q))
    BY DEF ChannelHoldsTheDifference
  <2>1. q \in Stages
    BY <1>1, SenderIsEarlier DEF TypeOK
  <2>2. InFlight(i, q) = {}
    BY <1>4, <2>1 DEF InFlight, Travels
  <2>3. fifos[i][q] = <<>>
    BY <2>1 DEF Init
  <2> QED
    BY <2>2, <2>3, ListsNothing
<1>7. OnlyReaders /\ JoinedDone
  BY StagesAssumption DEF Init, OnlyReaders, JoinedDone, Stages
<1> QED
  BY <1>1, <1>3, <1>5, <1>6, <1>7 DEF IInv

(* A running stage is not joined yet. *)
LEMMA JoinedKept ==
  ASSUME TypeOK, JoinedDone, NEW s \in Stages, Running(s),
         \A t \in Stages \ {s} : at'[t] = at[t], UNCHANGED <<created, joined>>
  PROVE  JoinedDone'
<1>1. at[s].round \in Nat
  BY RoundsType DEF TypeOK
<1>2. \A t \in Stages : t <= joined => t # s
  BY <1>1, RoundsType DEF JoinedDone, Running, Done
<1> QED
  BY <1>2 DEF JoinedDone, Done

(* Serving a slot keeps the stage's work in order. *)
LEMMA ServedInOrder ==
  ASSUME TypeOK, WorkInOrder, NEW s \in Stages, at[s].cur # 0, NEW p,
         at' = [at EXCEPT ![s] = Served(s, p)], UNCHANGED <<owner, readers>>
  PROVE  WorkInOrder'
<1>1. \A t \in Stages, r \in Nat : Ops(t, r)' = Ops(t, r)
  BY DEF Ops, Sends, Receives
<1>2. \A t \in Stages : at'[t] = IF t = s THEN Served(s, p) ELSE at[t]
  BY DEF TypeOK
<1>3. \A t \in Stages : at[t].round \in Nat
  BY RoundsType DEF TypeOK
<1> SUFFICES ASSUME NEW t \in Stages
             PROVE  /\ at'[t].todo \subseteq Ops(t, at'[t].round)
                    /\ at'[t].cur = 0 => at'[t].left = {}
                    /\ at'[t].cur # 0 =>
                         /\ at'[t].cur \in at'[t].todo
                         /\ \A j \in at'[t].todo : at'[t].cur <= j
                         /\ at'[t].left # {}
                         /\ at'[t].left \subseteq (IF owner[at'[t].cur] = t
                                                  THEN readers[at'[t].cur] ELSE {t})
  BY <1>1, <1>2, <1>3, ServedIs DEF WorkInOrder
<1>4. CASE t # s
  BY <1>2, <1>4 DEF WorkInOrder
<1>5. CASE t = s /\ at[s].left \ {p} = {}
  <2>1. /\ at'[s].todo = at[s].todo \ {at[s].cur} /\ at'[s].round = at[s].round
        /\ at'[s].cur = 0 /\ at'[s].left = {}
    BY <1>2, <1>5, ServedIs
  <2> QED
    BY <2>1, <1>5 DEF WorkInOrder
<1>6. CASE t = s /\ at[s].left \ {p} # {}
  <2>1. /\ at'[s].todo = at[s].todo /\ at'[s].round = at[s].round
        /\ at'[s].cur = at[s].cur /\ at'[s].left = at[s].left \ {p}
    BY <1>2, <1>6, ServedIs
  <2> QED
    BY <2>1, <1>6 DEF WorkInOrder
<1> QED
  BY <1>4, <1>5, <1>6

LEMMA QuietInv ==
  ASSUME IInv, TypeOK', NEW s \in Stages, Start(s) \/ Branch(s)
  PROVE  IInv'
<1> USE DEF IInv
<1>1. UNCHANGED <<owner, readers, created, joined, fifos>>
  BY DEF Start, Branch, plan
<1>2. \A t \in Stages : at[t].round \in Nat
  BY RoundsType DEF TypeOK
<1>3. \A t \in Stages \ {s} : at'[t] = at[t]
  BY DEF Start, Branch, TypeOK
<1>4. WorkInOrder'
  <2>1. \A t \in Stages, r \in Nat : Ops(t, r)' = Ops(t, r)
    BY <1>1 DEF Ops, Sends, Receives
  <2>2. \A t \in Stages : at'[t].round \in Nat
    BY RoundsType DEF TypeOK
  <2> SUFFICES ASSUME NEW t \in Stages
               PROVE  /\ at'[t].todo \subseteq Ops(t, at'[t].round)
                      /\ at'[t].cur = 0 => at'[t].left = {}
                      /\ at'[t].cur # 0 =>
                           /\ at'[t].cur \in at'[t].todo
                           /\ \A j \in at'[t].todo : at'[t].cur <= j
                           /\ at'[t].left # {}
                           /\ at'[t].left \subseteq (IF owner[at'[t].cur] = t
                                                    THEN readers[at'[t].cur] ELSE {t})
    BY <1>1, <2>1, <2>2 DEF WorkInOrder
  <2>3. CASE t # s
    BY <1>3, <2>3 DEF WorkInOrder
  <2>4. CASE t = s /\ Start(s)
    <3>1. LET i == NextOp(s)
          IN  /\ i \in Instrs /\ i \in at[s].todo /\ \A j \in at[s].todo : i <= j
              /\ at'[s].round = at[s].round /\ at'[s].todo = at[s].todo
              /\ at'[s].cur = i
              /\ at'[s].left = IF owner[i] = s THEN readers[i] ELSE {s}
              /\ at'[s].left # {}
      BY <2>4, StartIs
    <3>2. NextOp(s) # 0
      BY <3>1, StagesAssumption DEF Instrs
    <3> QED
      BY <2>4, <3>1, <3>2 DEF WorkInOrder
  <2>5. CASE t = s /\ Branch(s)
    <3>1. at'[s] = EnterRound(s, at[s].round + 1)
      BY <2>5 DEF Branch, TypeOK
    <3> QED
      BY <2>5, <3>1 DEF EnterRound
  <2> QED
    BY <2>3, <2>4, <2>5
<1>5. \A i \in Instrs, q \in Stages, r \in 1 .. Rounds : Travels(i, q, r) =>
        /\ Past(owner[i], i, r, q)' <=> Past(owner[i], i, r, q)
        /\ Past(q, i, r, q)' <=> Past(q, i, r, q)
  BY QuietPast
<1>6. ReaderBehind'
  BY <1>1, <1>5 DEF ReaderBehind, Travels, TypeOK, PlanOK
<1>7. ChannelHoldsTheDifference'
  <2>1. ASSUME NEW i \in Instrs, NEW q \in readers[i] PROVE InFlight(i, q)' = InFlight(i, q)
    BY <1>1, <1>5, <2>1, SenderIsEarlier DEF InFlight, Travels, TypeOK
  <2> QED
    BY <1>1, <2>1 DEF ChannelHoldsTheDifference
<1>8. OnlyReaders'
  BY <1>1 DEF OnlyReaders
<1>9. JoinedDone'
  BY <1>1, <1>3, JoinedKept DEF Start, Branch
<1> QED
  BY <1>4, <1>6, <1>7, <1>8, <1>9

LEMMA PushInv ==
  ASSUME IInv, TypeOK', NEW s \in Stages, Push(s)
  PROVE  IInv'
<1> USE DEF IInv
<1> DEFINE i == at[s].cur
           p == NextSlot(s)
           r == at[s].round
<1>1. /\ i \in Instrs /\ owner[i] = s /\ Travels(i, p, r) /\ p \in at[s].left
      /\ r \in 1 .. Rounds /\ at' = [at EXCEPT ![s] = Served(s, p)]
      /\ fifos' = [fifos EXCEPT ![i][p] = Append(@, r)]
      /\ UNCHANGED <<owner, readers, created, joined>>
      /\ ~ Past(owner[i], i, r, p)
  BY PushIs
<1>2. \A j \in Instrs, q \in Stages, x \in 1 .. Rounds : q \in readers[j] =>
        /\ Past(owner[j], j, x, q)' <=> Past(owner[j], j, x, q) \/ (j = i /\ q = p /\ x = r)
        /\ Past(q, j, x, q)' <=> Past(q, j, x, q)
  BY PushIs
<1>3. i # 0 /\ r = at[s].round /\ \A j \in Instrs : readers[j] \subseteq Stages
  BY DEF Push, TypeOK, PlanOK
<1> HIDE DEF i, p, r
<1>4. WorkInOrder'
  <2>1. at[s].cur # 0
    BY <1>3 DEF i
  <2> QED
    BY <1>1, <2>1, ServedInOrder
<1>5. ReaderBehind'
  BY <1>1, <1>2, <1>3 DEF ReaderBehind
<1>6. ChannelHoldsTheDifference'
  <2> SUFFICES ASSUME NEW j \in Instrs, NEW q \in readers[j]
               PROVE  Lists(fifos'[j][q], InFlight(j, q)')
    BY <1>1 DEF ChannelHoldsTheDifference
  <2>1. q \in Stages /\ Lists(fifos[j][q], InFlight(j, q))
    BY <1>3 DEF ChannelHoldsTheDifference
  <2>2. CASE j = i /\ q = p
    <3>1. fifos'[j][q] = Append(fifos[j][q], r)
      BY <1>1, <2>1, <2>2 DEF TypeOK
    <3>2. BlockOf[i] = Trace[r] /\ ~ Past(q, i, r, q)
      BY <1>1, <2>2 DEF Travels, ReaderBehind
    <3>3. InFlight(j, q)' = InFlight(j, q) \cup {r}
      BY <1>1, <1>2, <2>1, <2>2, <3>2 DEF InFlight
    <3>4. ASSUME NEW y \in InFlight(j, q) PROVE y < r
      <4>1. y \in 1 .. Rounds /\ Past(s, i, y, p) /\ ~ Past(s, i, r, p)
        BY <1>1, <2>2, <3>4 DEF InFlight
      <4>2. at[s].round >= y
        BY <4>1, RoundsType DEF Past, TypeOK
      <4> QED
        BY <1>1, <1>3, <4>1, <4>2, RoundsType
    <3>5. fifos[j][q] \in Seq(1 .. Rounds) /\ 1 .. Rounds \in SUBSET Nat
      BY <2>1, RoundsType DEF TypeOK
    <3>6. Lists(Append(fifos[j][q], r), InFlight(j, q) \cup {r})
      BY <1>1, <2>1, <3>4, <3>5, ListsAppended
    <3> QED
      BY <3>1, <3>3, <3>6
  <2>3. CASE ~ (j = i /\ q = p)
    <3>1. fifos'[j][q] = fifos[j][q]
      BY <1>1, <2>1, <2>3 DEF TypeOK
    <3>2. InFlight(j, q)' = InFlight(j, q)
      BY <1>1, <1>2, <2>1, <2>3 DEF InFlight
    <3> QED
      BY <2>1, <3>1, <3>2
  <2> QED
    BY <2>2, <2>3
<1>7. OnlyReaders'
  BY <1>1 DEF OnlyReaders, TypeOK, Travels
<1>8. JoinedDone'
  <2>1. \A t \in Stages \ {s} : at'[t] = at[t]
    BY <1>1 DEF TypeOK
  <2> QED
    BY <1>1, <2>1, JoinedKept DEF Push
<1> QED
  BY <1>4, <1>5, <1>6, <1>7, <1>8

LEMMA PopInv ==
  ASSUME IInv, TypeOK', NEW s \in Stages, Pop(s)
  PROVE  IInv'
<1> USE DEF IInv
<1> DEFINE i == at[s].cur
           r == at[s].round
<1>1. /\ i \in Instrs /\ Travels(i, s, r)
      /\ r \in 1 .. Rounds /\ at' = [at EXCEPT ![s] = Served(s, s)]
      /\ fifos' = [fifos EXCEPT ![i][s] = Tail(@)]
      /\ UNCHANGED <<owner, readers, created, joined>>
      /\ fifos[i][s] # <<>> /\ Head(fifos[i][s]) = r
      /\ Past(owner[i], i, r, s)
  BY PopIs
<1>2. \A j \in Instrs, q \in Stages, x \in 1 .. Rounds : q \in readers[j] =>
        /\ Past(owner[j], j, x, q)' <=> Past(owner[j], j, x, q)
        /\ Past(q, j, x, q)' <=> Past(q, j, x, q) \/ (j = i /\ q = s /\ x = r)
  BY PopIs
<1>3. i # 0 /\ \A j \in Instrs : readers[j] \subseteq Stages
  BY DEF Pop, TypeOK, PlanOK
<1> HIDE DEF i, r
<1>4. WorkInOrder'
  <2>1. at[s].cur # 0
    BY <1>3 DEF i
  <2> QED
    BY <1>1, <2>1, ServedInOrder
<1>5. ReaderBehind'
  BY <1>1, <1>2, <1>3 DEF ReaderBehind
<1>6. ChannelHoldsTheDifference'
  <2> SUFFICES ASSUME NEW j \in Instrs, NEW q \in readers[j]
               PROVE  Lists(fifos'[j][q], InFlight(j, q)')
    BY <1>1 DEF ChannelHoldsTheDifference
  <2>1. q \in Stages /\ Lists(fifos[j][q], InFlight(j, q))
    BY <1>3 DEF ChannelHoldsTheDifference
  <2>2. CASE j = i /\ q = s
    <3>1. fifos'[j][q] = Tail(fifos[j][q])
      BY <1>1, <2>1, <2>2 DEF TypeOK
    <3>2. InFlight(j, q)' = InFlight(j, q) \ {r}
      BY <1>1, <1>2, <2>1, <2>2 DEF InFlight
    <3>3. fifos[j][q] \in Seq(1 .. Rounds) /\ 1 .. Rounds \in SUBSET Nat
      BY <2>1, RoundsType DEF TypeOK
    <3>4. Lists(Tail(fifos[j][q]), InFlight(j, q) \ {Head(fifos[j][q])})
      BY <1>1, <2>1, <2>2, <3>3, ListsHead
    <3> QED
      BY <1>1, <2>2, <3>1, <3>2, <3>4
  <2>3. CASE ~ (j = i /\ q = s)
    <3>1. fifos'[j][q] = fifos[j][q]
      BY <1>1, <2>1, <2>3 DEF TypeOK
    <3>2. InFlight(j, q)' = InFlight(j, q)
      BY <1>1, <1>2, <2>1, <2>3 DEF InFlight
    <3> QED
      BY <2>1, <3>1, <3>2
  <2> QED
    BY <2>2, <2>3
<1>7. OnlyReaders'
  BY <1>1 DEF OnlyReaders, TypeOK, Travels
<1>8. JoinedDone'
  <2>1. \A t \in Stages \ {s} : at'[t] = at[t]
    BY <1>1 DEF TypeOK
  <2> QED
    BY <1>1, <2>1, JoinedKept DEF Pop
<1> QED
  BY <1>4, <1>5, <1>6, <1>7, <1>8

LEMMA NextInv == IInv /\ [Next]_vars => IInv'
<1> SUFFICES ASSUME IInv, [Next]_vars PROVE IInv'
  OBVIOUS
<1>1. TypeOK'
  BY NextType DEF IInv
<1>2. ASSUME NEW s \in Stages, Stage(s) PROVE IInv'
  BY <1>1, <1>2, QuietInv, PushInv, PopInv DEF Stage
<1>3. ASSUME UNCHANGED <<owner, readers, at, fifos>> PROVE IInv' <=> TypeOK' /\ JoinedDone'
  <2>1. WorkInOrder'
    BY <1>3 DEF IInv, WorkInOrder, Ops, Sends, Receives
  <2>2. ReaderBehind'
    BY <1>3 DEF IInv, ReaderBehind, Past
  <2>3. ChannelHoldsTheDifference'
    BY <1>3 DEF IInv, ChannelHoldsTheDifference, InFlight, Past
  <2>4. OnlyReaders'
    BY <1>3 DEF IInv, OnlyReaders
  <2> QED
    BY <2>1, <2>2, <2>3, <2>4 DEF IInv
<1>4. CASE Create
  <2>1. joined = 0
    BY <1>4, StagesAssumption DEF IInv, JoinedDone, TypeOK, Create
  <2>2. JoinedDone'
    BY <1>4, <2>1 DEF Create, JoinedDone, Stages
  <2> QED
    BY <1>1, <1>3, <1>4, <2>2 DEF Create, plan
<1>5. CASE Join
  <2>1. JoinedDone'
    BY <1>5, StagesAssumption DEF Join, JoinedDone, IInv, TypeOK, Stages, Done
  <2> QED
    BY <1>1, <1>3, <1>5, <2>1 DEF Join, plan
<1>6. CASE UNCHANGED vars
  <2>1. JoinedDone'
    BY <1>6 DEF vars, JoinedDone, IInv, Done
  <2> QED
    BY <1>1, <1>3, <1>6, <2>1 DEF vars
<1> QED
  BY <1>2, <1>4, <1>5, <1>6 DEF Next

(* IInv holds in every reachable state. *)
THEOREM Invariance == Spec => []IInv
  BY InitInv, NextInv, PTL DEF Spec

(* Every variable has its type, values flow to later stages only, and no queue *)
(* is overrun.                                                                *)
THEOREM TypeCorrect == Spec => []TypeOK
<1>1. IInv => TypeOK
  BY DEF IInv
<1> QED
  BY <1>1, Invariance, PTL

(* A channel slot holds exactly the rounds its sender is through with and its *)
(* reader is not, oldest first.                                              *)
THEOREM ChannelsHoldTheDifference == Spec => []ChannelHoldsTheDifference
<1>1. IInv => ChannelHoldsTheDifference
  BY DEF IInv
<1> QED
  BY <1>1, Invariance, PTL

(* A pop yields the value of the round the stage is in. *)
THEOREM PopsTheRightRound == Spec => RightRound
<1>1. IInv /\ [Next]_vars =>
        [\A s \in Stages : Pop(s) => Head(fifos[at[s].cur][s]) = at[s].round]_vars
  <2> SUFFICES ASSUME IInv, NEW s \in Stages, Pop(s)
               PROVE  Head(fifos[at[s].cur][s]) = at[s].round
    OBVIOUS
  <2> QED
    BY PopIs DEF IInv
<1> QED
  BY <1>1, Invariance, PTL DEF Spec, RightRound

(* When the top level returns, no stage is running and every queue is empty. *)
THEOREM TopReturnsClean == Spec => []ReturnsClean
<1>1. IInv => ReturnsClean
  <2> SUFFICES ASSUME IInv, Returned
               PROVE  /\ \A s \in Stages : Done(s)
                      /\ \A i \in Instrs, s \in Stages : fifos[i][s] = <<>>
    BY DEF ReturnsClean
  <2> USE DEF IInv
  <2>1. \A s \in Stages : Done(s)
    BY StagesAssumption DEF Returned, JoinedDone, Stages
  <2>2. ASSUME NEW i \in Instrs, NEW s \in Stages, s \in readers[i] PROVE fifos[i][s] = <<>>
    <3>1. InFlight(i, s) = {}
      BY <2>1, RoundsType DEF InFlight, Past, Done, TypeOK
    <3>2. fifos[i][s] \in Seq(1 .. Rounds) /\ Lists(fifos[i][s], {})
      BY <2>2, <3>1 DEF TypeOK, ChannelHoldsTheDifference
    <3> QED
      BY <3>2, ListsNothing
  <2> QED
    BY <2>1, <2>2 DEF OnlyReaders
<1> QED
  BY <1>1, Invariance, PTL

-----------------------------------------------------------------------------
(* Deadlock freedom: of the unfinished stages in the earliest round, take one *)
(* whose operation in progress is the earliest.  It cannot wait in a push:    *)
(* the queue would hold a value of an earlier round, and its reader would be  *)
(* further behind.  It cannot wait in a pop: the sender would be in the same  *)
(* round, serving that very value, and would wait in a push.                  *)

(* A push waits for a reader that is in an earlier round. *)
LEMMA PushWaitsForEarlier ==
  ASSUME IInv, NEW s \in Stages, at[s].cur # 0, owner[at[s].cur] = s, Blocked(s)
  PROVE  \E q \in Stages : at[q].round < at[s].round
<1> USE DEF IInv
<1> DEFINE i == at[s].cur
           p == NextSlot(s)
           r == at[s].round
<1>1. /\ i \in Instrs /\ r \in 1 .. Rounds /\ i \in at[s].todo
      /\ at[s].left \subseteq readers[i] /\ at[s].left # {}
  BY InProgress DEF WorkInOrder
<1>2. p \in at[s].left /\ p \in readers[i] /\ p \in Stages
  BY <1>1, NextSlotIsLeft, SenderIsEarlier DEF TypeOK
<1>3. Len(fifos[i][p]) = FIFO_SIZE /\ owner[i] = s
  BY DEF Blocked
<1>4. r = at[s].round /\ i = at[s].cur
  OBVIOUS
<1> HIDE DEF i, p, r
<1> DEFINE seq == fifos[i][p]
<1>5. seq \in Seq(1 .. Rounds) /\ Lists(seq, InFlight(i, p)) /\ Len(seq) = FIFO_SIZE
  BY <1>1, <1>2, <1>3 DEF TypeOK, ChannelHoldsTheDifference
<1> HIDE DEF seq
<1>6. Head(seq) \in InFlight(i, p)
  <2>1. seq # <<>>
    BY <1>5, SizeAssumption
  <2>2. 1 .. Rounds \in SUBSET Nat
    BY RoundsType
  <2> QED
    BY <1>5, <2>1, <2>2, ListsHead
<1>7. PICK h \in 1 .. Rounds : Past(s, i, h, p) /\ ~ Past(p, i, h, p)
  BY <1>3, <1>6 DEF InFlight
<1>8. at[s].round \in Nat /\ at[p].round \in Nat
  BY <1>2, RoundsType DEF TypeOK
<1>9. h < r
  BY <1>1, <1>2, <1>4, <1>7, <1>8, RoundsType DEF Past
<1>10. at[p].round <= h
  BY <1>7, <1>8, RoundsType DEF Past
<1> QED
  BY <1>2, <1>4, <1>8, <1>9, <1>10, RoundsType

(* As long as a stage is unfinished, some unfinished stage is not waiting. *)
THEOREM StagesDoNotDeadlock == Spec => []NoDeadlock
<1>1. IInv => NoDeadlock
  <2> SUFFICES ASSUME IInv, ~ \A s \in Stages : Done(s),
                      \A s \in Stages : ~ Done(s) => Blocked(s)
               PROVE  FALSE
    BY DEF NoDeadlock
  <2> USE DEF IInv
  <2>1. \A s \in Stages : at[s].round \in Nat /\ (at[s].cur # 0 => at[s].cur \in Nat)
    BY RoundsType, StagesAssumption DEF TypeOK, Instrs
  <2> DEFINE Late == {s \in Stages : ~ Done(s)}
  <2>2. PICK m \in {at[s].round : s \in Late} : \A n \in {at[s].round : s \in Late} : m <= n
    <3>1. {at[s].round : s \in Late} \in SUBSET Nat /\ {at[s].round : s \in Late} # {}
      BY <2>1
    <3> QED
      BY <3>1, LeastExists
  <2>3. m \in Nat /\ m <= Rounds /\ \E s \in Stages : ~ Done(s) /\ at[s].round = m
    BY <2>1, <2>2, RoundsType DEF Done
  <2>4. \A s \in Stages : m <= at[s].round
    BY <2>1, <2>2, <2>3, RoundsType DEF Done
  <2> DEFINE Latest == {s \in Stages : at[s].round = m}
  <2>5. \A s \in Latest : ~ Done(s) /\ Blocked(s) /\ at[s].cur # 0
    BY <2>3, RoundsType DEF Done, Blocked
  <2>6. PICK c \in {at[s].cur : s \in Latest} : \A n \in {at[s].cur : s \in Latest} : c <= n
    <3>1. {at[s].cur : s \in Latest} \in SUBSET Nat /\ {at[s].cur : s \in Latest} # {}
      BY <2>1, <2>3, <2>5
    <3> QED
      BY <3>1, LeastExists
  <2>7. PICK s \in Latest : at[s].cur = c /\ \A t \in Latest : c <= at[t].cur
    BY <2>6
  <2>8. \A t \in Latest : owner[at[t].cur] # t
    <3> SUFFICES ASSUME NEW t \in Latest, owner[at[t].cur] = t PROVE FALSE
      OBVIOUS
    <3>1. PICK q \in Stages : at[q].round < at[t].round
      BY <2>5, PushWaitsForEarlier
    <3> QED
      BY <2>1, <2>3, <2>4, <3>1
  <2> DEFINE o == owner[c]
  <2>9. /\ c \in Instrs /\ o # s /\ Travels(c, s, m) /\ m \in 1 .. Rounds
        /\ c \in at[s].todo /\ at[s].left = {s}
    BY <2>5, <2>7, <2>8, InProgress DEF Travels
  <2>10. o \in Stages
    BY <2>9, SenderIsEarlier DEF TypeOK, Travels
  <2>11. ~ Past(s, c, m, s)
    BY <2>1, <2>3, <2>7, <2>9 DEF Past
  <2>12. ~ Past(o, c, m, s)
    <3>1. fifos[c][s] = <<>>
      BY <2>5, <2>7, <2>9 DEF Blocked
    <3>2. Lists(<<>>, InFlight(c, s))
      BY <2>9, <3>1 DEF Travels, ChannelHoldsTheDifference
    <3>3. InFlight(c, s) = {}
      BY <3>2 DEF Lists
    <3> QED
      BY <2>9, <2>11, <3>3 DEF InFlight, Travels
  <2>13. o \in Latest /\ c \in at[o].todo
    BY <2>1, <2>3, <2>4, <2>10, <2>12 DEF Past
  <2>14. at[o].cur = c
    <3>1. c <= at[o].cur /\ at[o].cur <= c /\ at[o].cur \in Nat /\ c \in Nat
      BY <2>1, <2>5, <2>7, <2>13 DEF WorkInOrder
    <3> QED
      BY <3>1
  <2> QED
    BY <2>8, <2>13, <2>14
<1> QED
  BY <1>1, Invariance, PTL

-----------------------------------------------------------------------------
(* Threads, queues and slot loops implement the dataflow graph. *)

(* What the dataflow graph sees of a stage. *)
LEMMA MappedIs ==
  ASSUME TypeOK
  PROVE  /\ MappedAt \in [Stages -> [round : 1 .. Rounds + 1, todo : SUBSET Instrs]]
         /\ \A s \in Stages :
              /\ MappedAt[s].round = at[s].round
              /\ MappedAt[s].todo = IF at[s].cur # 0 /\ owner[at[s].cur] = s
                                    THEN at[s].todo \ {at[s].cur} ELSE at[s].todo
<1>1. \A s \in Stages : /\ at[s].round \in 1 .. Rounds + 1
                       /\ at[s].todo \in SUBSET Instrs
                       /\ at[s].todo \ {at[s].cur} \in SUBSET Instrs
  BY DEF TypeOK
<1> QED
  BY <1>1 DEF MappedAt

(* Both specifications are about one plan. *)
LEMMA SamePlan ==
  /\ Dataflow!Stages = Stages /\ (Dataflow!PlanOK <=> PlanOK)
  /\ \A s, r : Dataflow!Ops(s, r) = Ops(s, r)
  /\ \A todo : Dataflow!First(todo) = First(todo)
  /\ UNCHANGED plan => UNCHANGED Dataflow!plan
<1>1. /\ Dataflow!Stages = Stages /\ Dataflow!Instrs = Instrs /\ Dataflow!Rounds = Rounds
      /\ UNCHANGED plan => UNCHANGED Dataflow!plan
  BY DEF Dataflow!Stages, Stages, Dataflow!Instrs, Instrs, Dataflow!Rounds, Rounds,
         Dataflow!plan, plan
<1>2. Dataflow!PlanOK <=> PlanOK
  BY <1>1 DEF Dataflow!PlanOK, PlanOK
<1>3. \A s, r : Dataflow!Ops(s, r) = Ops(s, r)
  BY <1>1 DEF Dataflow!Ops, Ops, Dataflow!Sends, Sends, Dataflow!Receives, Receives
<1>4. \A todo : Dataflow!First(todo) = First(todo)
  BY DEF Dataflow!First, First
<1> QED
  BY <1>1, <1>2, <1>3, <1>4

LEMMA InitRefines == Init => Dataflow!Init
<1> SUFFICES ASSUME Init PROVE Dataflow!Init
  OBVIOUS
<1>1. MappedAt = [s \in Stages |-> [round |-> 1, todo |-> Ops(s, 1)]]
  BY DEF Init, MappedAt, EnterRound
<1>2. ~ Returned
  BY StagesAssumption DEF Init, Returned
<1> QED
  BY <1>1, <1>2, SamePlan DEF Init, Dataflow!Init, Dataflow!EnterRound

(* What the dataflow graph calls running, and past. *)
LEMMA MappedRuns ==
  ASSUME IInv, NEW s \in Stages, Running(s)
  PROVE  Dataflow!Running(s) /\ ~ Returned
<1> USE DEF IInv
<1>1. at[s].round <= Rounds /\ at[s].round \in Nat
  BY RoundsType DEF Running, TypeOK
<1>2. ~ Returned
  BY <1>1, RoundsType, StagesAssumption DEF Returned, JoinedDone, Done, Stages
<1>3. MappedAt[s].round = at[s].round
  BY MappedIs
<1> QED
  BY <1>1, <1>2, <1>3 DEF Dataflow!Running

LEMMA MappedPast ==
  ASSUME IInv, NEW i \in Instrs, NEW q \in readers[i], NEW r \in 1 .. Rounds,
         Past(owner[i], i, r, q)
  PROVE  Dataflow!Past(owner[i], i, r)
<1> USE DEF IInv
<1>1. owner[i] \in Stages /\ i # 0
  BY SenderIsEarlier, StagesAssumption DEF TypeOK, Instrs
<1> QED
  BY <1>1, MappedIs DEF Past, Dataflow!Past

(* The operation in progress is the first one left. *)
LEMMA CurIsFirst ==
  ASSUME IInv, NEW s \in Stages, at[s].cur # 0
  PROVE  First(at[s].todo) = at[s].cur
<1>1. /\ at[s].cur \in at[s].todo /\ at[s].todo \in SUBSET Instrs
      /\ \A j \in at[s].todo : at[s].cur <= j
  BY DEF IInv, WorkInOrder, TypeOK
<1>2. First(at[s].todo) \in at[s].todo /\ \A j \in at[s].todo : First(at[s].todo) <= j
  BY <1>1, FirstIsLeast
<1>3. /\ First(at[s].todo) <= at[s].cur /\ at[s].cur <= First(at[s].todo)
      /\ First(at[s].todo) \in Nat /\ at[s].cur \in Nat
  BY <1>1, <1>2, StagesAssumption DEF Instrs
<1> QED
  BY <1>3

(* A step of one stage changes what the dataflow graph sees of that stage only. *)
LEMMA MappedStep ==
  ASSUME TypeOK, TypeOK', UNCHANGED plan, NEW s \in Stages,
         \A t \in Stages \ {s} : at'[t] = at[t],
         NEW done, MappedAt[s].todo \ done = MappedAt'[s].todo,
         at'[s].round = at[s].round
  PROVE  MappedAt' = [MappedAt EXCEPT ![s].todo = @ \ done]
<1>1. owner' = owner
  BY DEF plan
<1>2. \A t \in Stages \ {s} : MappedAt'[t] = MappedAt[t]
  BY <1>1 DEF MappedAt
<1>3. MappedAt'[s].round = MappedAt[s].round
  BY DEF MappedAt
<1>4. /\ MappedAt \in [Stages -> [round : 1 .. Rounds + 1, todo : SUBSET Instrs]]
      /\ MappedAt' = [t \in Stages |-> [round |-> MappedAt'[t].round, todo |-> MappedAt'[t].todo]]
  BY MappedIs DEF MappedAt
<1>5. MappedAt[s] = [round |-> MappedAt[s].round, todo |-> MappedAt[s].todo]
  BY <1>4
<1>6. [MappedAt[s] EXCEPT !.todo = @ \ done] = MappedAt'[s]
  BY <1>3, <1>4, <1>5
<1> QED
  BY <1>2, <1>4, <1>6

(* The start of a push is the send of the dataflow graph. *)
LEMMA StartRefines ==
  ASSUME IInv, TypeOK', NEW s \in Stages, Start(s)
  PROVE  Dataflow!Step(s) \/ UNCHANGED Dataflow!vars
<1> USE DEF IInv
<1>1. PICK i \in Instrs :
        /\ i = NextOp(s) /\ i \in at[s].todo
        /\ at'[s].round = at[s].round /\ at'[s].todo = at[s].todo /\ at'[s].cur = i
        /\ \A t \in Stages \ {s} : at'[t] = at[t]
  BY StartIs
<1>2. /\ at[s].cur = 0 /\ Running(s)
      /\ UNCHANGED <<owner, readers, created, joined, fifos>> /\ UNCHANGED plan
  BY DEF Start, plan
<1>3. MappedAt[s].todo = at[s].todo
  BY <1>2, MappedIs
<1>4. i = First(at[s].todo) /\ i # 0
  BY <1>1, StagesAssumption DEF NextOp, Instrs
<1>5. MappedAt'[s].todo = IF owner[i] = s THEN at[s].todo \ {i} ELSE at[s].todo
  BY <1>1, <1>2, <1>4 DEF MappedAt
<1>6. CASE owner[i] = s
  <2>1. MappedAt[s].todo \ {i} = MappedAt'[s].todo
    BY <1>3, <1>5, <1>6
  <2>2. MappedAt' = [MappedAt EXCEPT ![s].todo = @ \ {i}]
    BY <1>1, <1>2, <2>1, MappedStep
  <2>3. Dataflow!Running(s) /\ UNCHANGED Dataflow!plan /\ Returned' = Returned
    BY <1>2, MappedRuns, SamePlan DEF Returned
  <2> QED
    BY <1>1, <1>3, <1>4, <1>6, <2>2, <2>3, SamePlan DEF Dataflow!Step
<1>7. CASE owner[i] # s
  <2>1. MappedAt[s].todo \ {} = MappedAt'[s].todo
    BY <1>3, <1>5, <1>7
  <2>2. MappedAt' = [MappedAt EXCEPT ![s].todo = @ \ {}]
    BY <1>1, <1>2, <2>1, MappedStep
  <2>3. MappedAt' = MappedAt
    BY <2>2, MappedIs
  <2> QED
    BY <1>2, <2>3 DEF Dataflow!vars, Returned
<1> QED
  BY <1>6, <1>7

(* The dataflow graph is through with a send already when the first slot of *)
(* the push is served.                                                     *)
LEMMA PushRefines ==
  ASSUME IInv, TypeOK', NEW s \in Stages, Push(s)
  PROVE  UNCHANGED Dataflow!vars
<1> USE DEF IInv
<1>1. PICK i \in Instrs :
        /\ i = at[s].cur /\ owner[i] = s /\ at[s].left # {}
        /\ at' = [at EXCEPT ![s] = Served(s, NextSlot(s))]
        /\ UNCHANGED <<owner, readers, created, joined>>
  BY PushIs
<1>2. UNCHANGED plan /\ i # 0
  BY <1>1, StagesAssumption DEF plan, Instrs
<1>3. at'[s] = Served(s, NextSlot(s)) /\ \A t \in Stages \ {s} : at'[t] = at[t]
  BY <1>1 DEF TypeOK
<1>4. MappedAt[s].todo = at[s].todo \ {i}
  BY <1>1, <1>2, MappedIs
<1>5. at'[s].round = at[s].round /\ MappedAt'[s].todo = at[s].todo \ {i}
  <2>1. CASE at[s].left \ {NextSlot(s)} = {}
    <3>1. at'[s].round = at[s].round /\ at'[s].todo = at[s].todo \ {i} /\ at'[s].cur = 0
      BY <1>1, <1>3, <2>1, ServedIs
    <3> QED
      BY <3>1 DEF MappedAt
  <2>2. CASE at[s].left \ {NextSlot(s)} # {}
    <3>1. at'[s].round = at[s].round /\ at'[s].todo = at[s].todo /\ at'[s].cur = i
      BY <1>1, <1>3, <2>2, ServedIs
    <3> QED
      BY <1>1, <1>2, <3>1 DEF MappedAt
  <2> QED
    BY <2>1, <2>2
<1>6. MappedAt[s].todo \ {} = MappedAt'[s].todo
  BY <1>4, <1>5
<1>7. MappedAt' = [MappedAt EXCEPT ![s].todo = @ \ {}]
  BY <1>2, <1>3, <1>5, <1>6, MappedStep
<1>8. MappedAt' = MappedAt
  BY <1>7, MappedIs
<1> QED
  BY <1>1, <1>8 DEF Dataflow!vars, Returned

(* A pop is the receive of the dataflow graph: its sender is past the value. *)
LEMMA PopRefines ==
  ASSUME IInv, TypeOK', NEW s \in Stages, Pop(s)
  PROVE  Dataflow!Step(s)
<1> USE DEF IInv
<1>1. PICK i \in Instrs, r \in 1 .. Rounds :
        /\ i = at[s].cur /\ owner[i] # s /\ s \in readers[i] /\ r = at[s].round
        /\ at' = [at EXCEPT ![s] = Served(s, s)]
        /\ UNCHANGED <<owner, readers, created, joined>>
        /\ Past(owner[i], i, r, s)
  BY PopIs DEF Travels
<1>2. UNCHANGED plan /\ i # 0 /\ Running(s)
  BY <1>1, StagesAssumption DEF plan, Instrs, Pop
<1>3. at'[s] = Served(s, s) /\ \A t \in Stages \ {s} : at'[t] = at[t]
  BY <1>1 DEF TypeOK
<1>4. MappedAt[s].todo = at[s].todo /\ MappedAt[s].round = r /\ i \in at[s].todo
      /\ i = First(at[s].todo) /\ at[s].left = {s}
  BY <1>1, <1>2, MappedIs, CurIsFirst, InProgress
<1>5. at'[s].round = at[s].round /\ MappedAt'[s].todo = at[s].todo \ {i}
  <2>1. at[s].left \ {s} = {}
    BY <1>4
  <2>2. at'[s].round = at[s].round /\ at'[s].todo = at[s].todo \ {i} /\ at'[s].cur = 0
    BY <1>1, <1>3, <2>1, ServedIs
  <2> QED
    BY <2>2 DEF MappedAt
<1>6. MappedAt[s].todo \ {i} = MappedAt'[s].todo
  BY <1>4, <1>5
<1>7. MappedAt' = [MappedAt EXCEPT ![s].todo = @ \ {i}]
  BY <1>2, <1>3, <1>5, <1>6, MappedStep
<1>8. Dataflow!Running(s) /\ UNCHANGED Dataflow!plan /\ Returned' = Returned
  BY <1>1, <1>2, MappedRuns, SamePlan DEF Returned
<1>9. Dataflow!Past(owner[i], i, r)
  BY <1>1, MappedPast
<1> QED
  BY <1>1, <1>4, <1>7, <1>8, <1>9, SamePlan DEF Dataflow!Step

LEMMA BranchRefines ==
  ASSUME IInv, TypeOK', NEW s \in Stages, Branch(s)
  PROVE  Dataflow!Branch(s)
<1> USE DEF IInv
<1> DEFINE r == at[s].round
<1>1. /\ Running(s) /\ at[s].cur = 0 /\ at[s].todo = {}
      /\ at' = [at EXCEPT ![s] = EnterRound(s, r + 1)]
      /\ UNCHANGED plan /\ UNCHANGED <<owner, readers, joined>>
  BY DEF Branch, plan
<1>2. MappedAt[s].todo = {} /\ MappedAt[s].round = r
  BY <1>1, MappedIs
<1>3. \A t \in Stages : MappedAt'[t] = IF t = s THEN [round |-> r + 1, todo |-> Ops(s, r + 1)]
                                      ELSE MappedAt[t]
  <2>1. ASSUME NEW t \in Stages, t # s PROVE MappedAt'[t] = MappedAt[t]
    BY <1>1, <2>1 DEF MappedAt, TypeOK
  <2>2. at'[s] = EnterRound(s, r + 1)
    BY <1>1 DEF TypeOK
  <2>3. MappedAt'[s] = [round |-> r + 1, todo |-> Ops(s, r + 1)]
    BY <2>2 DEF MappedAt, EnterRound
  <2> QED
    BY <2>1, <2>3
<1>4. MappedAt' = [t \in Stages |-> MappedAt'[t]] /\ MappedAt = [t \in Stages |-> MappedAt[t]]
  BY DEF MappedAt
<1>5. MappedAt' = [MappedAt EXCEPT ![s] = [round |-> r + 1, todo |-> Ops(s, r + 1)]]
  BY <1>3, <1>4
<1>6. Dataflow!Running(s) /\ UNCHANGED Dataflow!plan /\ Returned' = Returned
  BY <1>1, MappedRuns, SamePlan DEF Returned
<1> QED
  BY <1>2, <1>5, <1>6, SamePlan DEF Dataflow!Branch, Dataflow!EnterRound

(* The last join returns: every stage is through with every round. *)
LEMMA JoinRefines ==
  ASSUME IInv, IInv', Join
  PROVE  Dataflow!Return \/ UNCHANGED Dataflow!vars
<1> USE DEF IInv
<1>1. /\ UNCHANGED <<owner, readers, at>> /\ joined' = joined + 1 /\ joined < NumStages
      /\ UNCHANGED plan /\ MappedAt' = MappedAt
  BY DEF Join, plan, MappedAt
<1>2. ~ Returned
  BY <1>1, StagesAssumption DEF Returned, TypeOK
<1>3. CASE Returned'
  <2>1. \A s \in Stages : at[s].round > Rounds
    BY <1>1, <1>3, StagesAssumption DEF Returned, JoinedDone, Done, Stages
  <2>2. \A s \in Stages : ~ Dataflow!Running(s)
    <3> SUFFICES ASSUME NEW s \in Stages PROVE ~ (MappedAt[s].round <= <<Rounds>>[0 + 1])
      BY <1>2 DEF Dataflow!Running
    <3>1. MappedAt[s].round = at[s].round
      BY MappedIs
    <3>2. at[s].round \in Nat
      BY RoundsType DEF TypeOK
    <3> QED
      BY <2>1, <3>1, <3>2, RoundsType
  <2> QED
    BY <1>1, <1>2, <1>3, <2>2, SamePlan DEF Dataflow!Return
<1>4. CASE ~ Returned'
  BY <1>1, <1>2, <1>4 DEF Dataflow!vars
<1> QED
  BY <1>3, <1>4

(* Every step is a step of the dataflow graph, or changes nothing of it. *)
LEMMA NextRefines == IInv /\ IInv' /\ [Next]_vars => [Dataflow!Next]_(Dataflow!vars)
<1> SUFFICES ASSUME IInv, IInv', [Next]_vars
             PROVE  Dataflow!Next \/ UNCHANGED Dataflow!vars
  OBVIOUS
<1>1. TypeOK'
  BY DEF IInv
<1>2. ASSUME NEW s \in Stages, Stage(s) PROVE Dataflow!Next \/ UNCHANGED Dataflow!vars
  BY <1>1, <1>2, StartRefines, PushRefines, PopRefines, BranchRefines, SamePlan
     DEF Stage, Dataflow!Next
<1>3. CASE Create
  BY <1>3 DEF Create, plan, Dataflow!vars, MappedAt, Returned
<1>4. CASE Join
  BY <1>4, JoinRefines DEF Dataflow!Next
<1>5. CASE UNCHANGED vars
  BY <1>5 DEF vars, Dataflow!vars, MappedAt, Returned
<1> QED
  BY <1>2, <1>3, <1>4, <1>5 DEF Next

(* The CPU program implements the dataflow graph of its stages. *)
THEOREM PipelineIsDataflow == Spec => ActsAsDataflow
  BY InitRefines, NextRefines, Invariance, PTL DEF Spec, ActsAsDataflow, Dataflow!Spec
=============================================================================
