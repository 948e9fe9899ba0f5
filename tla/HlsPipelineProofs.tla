------------------------- MODULE HlsPipelineProofs -------------------------
(***************************************************************************)
(* Proofs about HlsPipeline for every number of stages and instructions,   *)
(* every plan, trace, sequence of calls and FIFO depth >= 1.               *)
(***************************************************************************)
EXTENDS HlsPipeline, DataProofs

(* The plan *)

(* What a stage has to do next is the first of what is left. *)
LEMMA FirstIsLeast ==
  ASSUME NEW todo \in SUBSET Instrs, todo # {}
  PROVE  First(todo) \in todo /\ \A j \in todo : First(todo) <= j
<1>1. \E i \in todo : \A j \in todo : i <= j
  BY LeastExists, StagesAssumption DEF Instrs
<1> QED
  BY <1>1 DEF First

LEMMA RoundsType == Rounds \in Nat /\ Trace \in [1 .. Rounds -> Blocks]
  BY TraceAssumption DEF Rounds

(* What a stage has to do in a round. *)
LEMMA OpsMembers ==
  ASSUME PlanOK, NEW s \in Stages, NEW r \in Nat
  PROVE  /\ Ops(s, r) \in SUBSET Instrs
         /\ \A i \in Instrs : i \in Ops(s, r) <=>
              /\ r <= Rounds /\ BlockOf[i] = Trace[r]
              /\ (owner[i] = s /\ readers[i] # {}) \/ s \in readers[i]
  BY RoundsType DEF PlanOK, Ops, Sends, Receives

(* The sender of a value is an earlier stage than its readers. *)
LEMMA SenderIsEarlier ==
  ASSUME PlanOK, NEW i \in Instrs, NEW q \in readers[i]
  PROVE  /\ owner[i] \in Stages /\ q \in Stages
         /\ owner[i] # q /\ owner[i] \notin readers[i]
  BY StagesAssumption DEF PlanOK, Stages

-----------------------------------------------------------------------------
(* The invariant *)


(* A stage has left what its block gives it, or less. *)
WorkInOrder == \A s \in Stages : at[s].todo \subseteq Ops(s, at[s].round)

(* A send or a receive of a block execution. *)
Travels(i, q, r) == q \in readers[i] /\ BlockOf[i] = Trace[r]

(* A reader is never past a value its sender is not past. *)
ReaderBehind ==
  \A i \in Instrs : \A q \in readers[i] : \A r \in 1 .. Rounds :
    Travels(i, q, r) /\ Past(q, i, r) => Past(owner[i], i, r)

(* Only forks of forked channels hold a value, and only the ports of readers *)
(* are used.                                                                 *)
PortsInUse ==
  \A i \in Instrs :
    /\ fork[i].left \subseteq readers[i]
    /\ fork[i].left # {} => Forked(i) /\ fork[i].val \in 1 .. Rounds
    /\ readers[i] = {} => src[i] = <<>>
    /\ \A s \in Stages : ~ Forked(i) \/ s \notin readers[i] => dst[i][s] = <<>>

(* The first round of the call in progress. *)
CallStart == IF call = 1 THEN 1 ELSE CallEnds[call - 1] + 1

(* A core that is not started has not moved in this call, one that is stays in *)
(* the call, and one that was polled is through with it.                      *)
WithinCall ==
  /\ started > 0 => forking /\ call <= Len(CallEnds)
  /\ \A s \in Stages :
       /\ s > started => at[s] = EnterRound(s, CallStart)
       /\ call <= Len(CallEnds) /\ Done(s) => at[s] = EnterRound(s, CallEnds[call] + 1)
       /\ s <= polled => Done(s)

(* The inductive invariant. *)
IInv == /\ TypeOK
        /\ WorkInOrder
        /\ ReaderBehind
        /\ HoldsTheDifference
        /\ PortsInUse
        /\ WithinCall

-----------------------------------------------------------------------------
(* What the parts of a channel hold together *)

LEMMA HeadOfConcat ==
  ASSUME NEW T, NEW a \in Seq(T), NEW b \in Seq(T), a # <<>>
  PROVE  /\ a \o b # <<>> /\ Head(a \o b) = Head(a) /\ Tail(a \o b) = Tail(a) \o b
<1> DEFINE ab == a \o b
           ta == Tail(a)
<1>1. /\ ab \in Seq(T) /\ Len(ab) = Len(a) + Len(b)
      /\ \A n \in 1 .. Len(a) + Len(b) : ab[n] = IF n <= Len(a) THEN a[n] ELSE b[n - Len(a)]
  BY ConcatProperties
<1>2. Len(a) \in Nat \ {0} /\ Len(b) \in Nat
  BY EmptySeq, LenProperties
<1>3. ab # <<>>
  BY <1>1, <1>2, EmptySeq
<1>4. Head(ab) = ab[1] /\ Head(a) = a[1]
  OBVIOUS
<1>5. /\ ta \in Seq(T) /\ Len(ta) = Len(a) - 1
      /\ \A n \in 1 .. Len(ta) : ta[n] = a[n + 1]
  BY HeadTailProperties
<1>6. /\ Tail(ab) \in Seq(T) /\ Len(Tail(ab)) = Len(ab) - 1
      /\ \A n \in 1 .. Len(Tail(ab)) : Tail(ab)[n] = ab[n + 1]
  BY <1>1, <1>3, HeadTailProperties
<1>7. /\ ta \o b \in Seq(T) /\ Len(ta \o b) = Len(ta) + Len(b)
      /\ \A n \in 1 .. Len(ta) + Len(b) :
           (ta \o b)[n] = IF n <= Len(ta) THEN ta[n] ELSE b[n - Len(ta)]
  BY <1>5, ConcatProperties
<1> HIDE DEF ab, ta
<1>8. Tail(ab) = ta \o b
  <2>1. Len(Tail(ab)) = Len(ta \o b)
    BY <1>1, <1>2, <1>5, <1>6, <1>7
  <2>2. \A n \in 1 .. Len(Tail(ab)) : Tail(ab)[n] = (ta \o b)[n]
    <3> TAKE n \in 1 .. Len(Tail(ab))
    <3>1. n \in 1 .. Len(a) - 1 + Len(b) /\ n \in Nat /\ n + 1 \in 1 .. Len(a) + Len(b)
      BY <1>1, <1>2, <1>6
    <3>2. Tail(ab)[n] = IF n + 1 <= Len(a) THEN a[n + 1] ELSE b[n + 1 - Len(a)]
      BY <1>1, <1>6, <3>1
    <3>3. (ta \o b)[n] = IF n <= Len(a) - 1 THEN a[n + 1] ELSE b[n - (Len(a) - 1)]
      BY <1>2, <1>5, <1>7, <3>1
    <3> QED
      BY <1>2, <3>1, <3>2, <3>3
  <2> QED
    BY <1>6, <1>7, <2>1, <2>2, SeqEqual
<1>9. ab[1] = a[1]
  BY <1>1, <1>2
<1> QED
  BY <1>3, <1>4, <1>8, <1>9 DEF ab, ta

(* In what follows, d is a destination FIFO, m the value in the fork, if any, *)
(* and s the source FIFO.                                                     *)
LEMMA PartsType ==
  ASSUME NEW T, NEW d \in Seq(T), NEW m \in Seq(T), NEW s \in Seq(T)
  PROVE  /\ d \o m \in Seq(T) /\ d \o m \o s \in Seq(T)
         /\ d \o m \o s = <<>> => d = <<>> /\ m = <<>> /\ s = <<>>
<1>1. d \o m \in Seq(T) /\ d \o m \o s \in Seq(T)
  BY ConcatProperties
<1>2. d \o m \o s = <<>> => d = <<>> /\ m = <<>> /\ s = <<>>
  BY <1>1, ConcatEqualIffEmpty
<1> QED
  BY <1>1, <1>2

LEMMA PartsAppend ==
  ASSUME NEW T, NEW d \in Seq(T), NEW m \in Seq(T), NEW s \in Seq(T), NEW x \in T
  PROVE  d \o m \o Append(s, x) = Append(d \o m \o s, x)
<1>1. d \o m \in Seq(T) /\ d \o m \o s \in Seq(T)
  BY PartsType
<1>2. <<x>> \in Seq(T) /\ Append(s, x) = s \o <<x>>
  BY AppendIsConcat
<1>3. Append(d \o m \o s, x) = d \o m \o s \o <<x>>
  BY <1>1, AppendIsConcat
<1>4. d \o m \o s \o <<x>> = d \o m \o (s \o <<x>>)
  BY <1>1, <1>2, ConcatAssociative
<1> QED
  BY <1>2, <1>3, <1>4

LEMMA PartsHead ==
  ASSUME NEW T, NEW d \in Seq(T), NEW m \in Seq(T), NEW s \in Seq(T), d # <<>>
  PROVE  d \o m \o s # <<>> /\ Head(d \o m \o s) = Head(d)
<1>1. d \o m \in Seq(T) /\ d \o m # <<>> /\ Head(d \o m) = Head(d)
  BY PartsType, HeadOfConcat
<1> QED
  BY <1>1, HeadOfConcat

LEMMA PartsTail ==
  ASSUME NEW T, NEW d \in Seq(T), NEW m \in Seq(T), NEW s \in Seq(T), d # <<>>
  PROVE  Tail(d \o m \o s) = Tail(d) \o m \o s
<1>1. d \o m \in Seq(T) /\ d \o m # <<>> /\ Tail(d \o m) = Tail(d) \o m
  BY PartsType, HeadOfConcat
<1>2. Tail(d \o m \o s) = Tail(d \o m) \o s
  BY <1>1, HeadOfConcat
<1> QED
  BY <1>1, <1>2

(* The fork takes the head of the source FIFO ... *)
LEMMA PartsForkRead ==
  ASSUME NEW T, NEW d \in Seq(T), NEW s \in Seq(T), s # <<>>
  PROVE  d \o <<Head(s)>> \o Tail(s) = d \o <<>> \o s
<1>1. Head(s) \in T /\ Tail(s) \in Seq(T)
  BY HeadTailProperties
<1>2. <<Head(s)>> \in Seq(T)
  BY <1>1
<1>3. <<Head(s)>> \o Tail(s) = s
  <2> DEFINE h == <<Head(s)>>
             c == h \o Tail(s)
  <2>1. Len(h) = 1 /\ h[1] = s[1]
    OBVIOUS
  <2>2. /\ Len(s) \in Nat \ {0} /\ Len(Tail(s)) = Len(s) - 1
        /\ \A n \in 1 .. Len(Tail(s)) : Tail(s)[n] = s[n + 1]
    BY HeadTailProperties, EmptySeq
  <2>3. /\ c \in Seq(T) /\ Len(c) = Len(h) + Len(Tail(s))
        /\ \A n \in 1 .. Len(h) + Len(Tail(s)) :
             c[n] = IF n <= Len(h) THEN h[n] ELSE Tail(s)[n - Len(h)]
    BY <1>1, <1>2, ConcatProperties
  <2> HIDE DEF h, c
  <2>4. Len(c) = Len(s) /\ \A n \in 1 .. Len(s) : c[n] = s[n]
    BY <2>1, <2>2, <2>3
  <2> QED
    BY <2>3, <2>4, SeqEqual DEF c, h
<1>4. d \o <<Head(s)>> \o Tail(s) = d \o (<<Head(s)>> \o Tail(s))
  BY <1>1, <1>2, ConcatAssociative
<1>5. d \o <<>> = d
  BY ConcatEmptySeq
<1> QED
  BY <1>3, <1>4, <1>5

(* ... and hands it to a destination FIFO. *)
LEMMA PartsForkWrite ==
  ASSUME NEW T, NEW d \in Seq(T), NEW s \in Seq(T), NEW x \in T
  PROVE  Append(d, x) \o <<>> \o s = d \o <<x>> \o s
<1>1. Append(d, x) \in Seq(T) /\ Append(d, x) = d \o <<x>>
  BY AppendProperties, AppendIsConcat
<1>2. Append(d, x) \o <<>> = Append(d, x)
  BY <1>1, ConcatEmptySeq
<1> QED
  BY <1>1, <1>2

(* A channel that is not forked has one reader at most. *)
LEMMA OnlyReader ==
  ASSUME PlanOK, NEW i \in Instrs, NEW q \in readers[i], ~ Forked(i)
  PROVE  readers[i] = {q}
<1>1. readers[i] \in SUBSET Stages /\ {q} \in SUBSET readers[i]
  BY DEF PlanOK
<1>2. IsFiniteSet(Stages)
  BY StagesAssumption, FS_Interval DEF Stages
<1>3. IsFiniteSet(readers[i])
  BY <1>1, <1>2, FS_Subset
<1>4. Cardinality(readers[i]) \in Nat /\ Cardinality({q}) = 1
  BY <1>3, FS_CardinalityType, FS_Singleton
<1>5. Cardinality({q}) <= Cardinality(readers[i])
  BY <1>1, <1>3, FS_Subset
<1>6. Cardinality(readers[i]) = Cardinality({q})
  BY <1>4, <1>5 DEF Forked
<1> QED
  BY <1>1, <1>3, <1>6, FS_Subset

(* What travels in a channel. *)
Values == 1 .. Rounds

(* The value the fork of a channel has still to hand a reader. *)
Mid(i, q) == IF q \in fork[i].left THEN <<fork[i].val>> ELSE <<>>

LEMMA HoldsType ==
  ASSUME TypeOK, PortsInUse, NEW i \in Instrs, NEW q \in Stages
  PROVE  /\ Mid(i, q) \in Seq(Values) /\ dst[i][q] \in Seq(Values)
         /\ src[i] \in Seq(Values) /\ Holds(i, q) \in Seq(Values)
         /\ Holds(i, q) = IF Forked(i) THEN dst[i][q] \o Mid(i, q) \o src[i] ELSE src[i]
<1>1. dst[i][q] \in Seq(Values) /\ src[i] \in Seq(Values)
  BY DEF TypeOK, Values
<1>2. Mid(i, q) \in Seq(Values)
  <2>1. CASE q \in fork[i].left
    <3>1. fork[i].val \in 1 .. Rounds /\ Mid(i, q) = <<fork[i].val>>
      BY <2>1 DEF PortsInUse, Mid
    <3> QED
      BY <3>1 DEF Values
  <2>2. CASE q \notin fork[i].left
    BY <2>2, EmptySeq DEF Mid
  <2> QED
    BY <2>1, <2>2
<1>3. Holds(i, q) = IF Forked(i) THEN dst[i][q] \o Mid(i, q) \o src[i] ELSE src[i]
  BY DEF Holds, Mid
<1>4. dst[i][q] \o Mid(i, q) \o src[i] \in Seq(Values)
  BY <1>1, <1>2, PartsType
<1> QED
  BY <1>1, <1>2, <1>3, <1>4

-----------------------------------------------------------------------------
(* What the steps of a core do to its work, and to what it is past *)

(* The next operation of a core is a send or a receive of its block. *)
LEMMA NextIs ==
  ASSUME TypeOK, WorkInOrder, NEW s \in Stages, at[s].todo # {}
  PROVE  LET i == First(at[s].todo)
         IN  /\ i \in Instrs /\ i \in at[s].todo /\ \A j \in at[s].todo : i <= j
             /\ at[s].round \in 1 .. Rounds /\ BlockOf[i] = Trace[at[s].round]
             /\ owner[i] = s => readers[i] # {}
             /\ owner[i] # s => s \in readers[i]
<1>1. at[s].todo \in SUBSET Instrs /\ at[s].round \in 1 .. Rounds + 1 /\ PlanOK
  BY DEF TypeOK
<1>2. PICK i \in at[s].todo : i = First(at[s].todo) /\ \A j \in at[s].todo : i <= j
  BY <1>1, FirstIsLeast
<1>3. i \in Instrs /\ i \in Ops(s, at[s].round) /\ at[s].round \in Nat
  BY <1>1, RoundsType DEF WorkInOrder
<1>4. /\ at[s].round <= Rounds /\ BlockOf[i] = Trace[at[s].round]
      /\ (owner[i] = s /\ readers[i] # {}) \/ s \in readers[i]
  BY <1>1, <1>3, OpsMembers
<1>5. s \in readers[i] => readers[i] # {}
  OBVIOUS
<1> QED
  BY <1>1, <1>2, <1>3, <1>4, <1>5, RoundsType

(* An operation makes the core past the value it carries, and past nothing else. *)
LEMMA ThroughPast ==
  ASSUME TypeOK, NEW s \in Stages, NEW i \in at[s].todo, at' = Through(s, i)
  PROVE  /\ at'[s].round = at[s].round /\ at'[s].todo = at[s].todo \ {i}
         /\ \A t \in Stages \ {s} : at'[t] = at[t]
         /\ ~ Past(s, i, at[s].round)
         /\ \A t \in Stages, j \in Instrs, x \in 1 .. Rounds :
              Past(t, j, x)' <=> Past(t, j, x) \/ (t = s /\ j = i /\ x = at[s].round)
<1>1. at[s].round \in Nat /\ at[s].round \in 1 .. Rounds + 1
  BY RoundsType DEF TypeOK
<1>2. /\ at'[s].round = at[s].round /\ at'[s].todo = at[s].todo \ {i}
      /\ \A t \in Stages \ {s} : at'[t] = at[t]
  BY DEF Through, TypeOK
<1>3. ASSUME NEW t \in Stages, NEW j \in Instrs, NEW x \in 1 .. Rounds
      PROVE  Past(t, j, x)' <=> Past(t, j, x) \/ (t = s /\ j = i /\ x = at[s].round)
  <2>1. CASE t # s
    <3>1. at'[t] = at[t]
      BY <1>2, <2>1
    <3> QED
      BY <2>1, <3>1 DEF Past
  <2>2. CASE t = s
    BY <1>1, <1>2, <2>2, RoundsType DEF Past
  <2> QED
    BY <2>1, <2>2
<1>4. ~ Past(s, i, at[s].round)
  BY <1>1 DEF Past
<1> QED
  BY <1>2, <1>3, <1>4

(* Branching makes no core past a value. *)
LEMMA QuietPast ==
  ASSUME TypeOK, NEW s \in Stages, Branch(s), NEW t \in Stages,
         NEW i \in Instrs, NEW q \in Stages, NEW r \in 1 .. Rounds,
         Travels(i, q, r), t = owner[i] \/ t = q
  PROVE  Past(t, i, r)' <=> Past(t, i, r)
<1>1. /\ at' = [at EXCEPT ![s] = EnterRound(s, at[s].round + 1)]
      /\ at[s].todo = {} /\ at[s].round \in 1 .. Rounds + 1
  BY DEF Branch, TypeOK
<1>2. \A u \in Stages : at'[u] = IF u = s THEN EnterRound(s, at[s].round + 1) ELSE at[u]
  BY <1>1 DEF TypeOK
<1>3. CASE t # s
  BY <1>2, <1>3 DEF Past
<1>4. CASE t = s
  <2>1. r = at[s].round + 1 => i \in Ops(s, at[s].round + 1)
    <3>1. readers[i] # {} /\ r <= Rounds /\ at[s].round + 1 \in Nat /\ PlanOK
      BY <1>1, RoundsType DEF Travels, TypeOK
    <3> QED
      BY <1>4, <3>1, OpsMembers DEF Travels
  <2>2. /\ at'[s].round = at[s].round + 1
        /\ at'[s].todo = Ops(s, at[s].round + 1)
    BY <1>2 DEF EnterRound
  <2> QED
    BY <1>1, <1>4, <2>1, <2>2, RoundsType DEF Past
<1> QED
  BY <1>3, <1>4

-----------------------------------------------------------------------------
(* What the steps do to the values a channel holds for its readers *)

(* The head of a nonempty channel is the value of the round the reader is in, *)
(* and the sender is past it.                                                *)
LEMMA HeadIsRound ==
  ASSUME TypeOK, PortsInUse, HoldsTheDifference, NEW s \in Stages, NEW i \in at[s].todo,
         Travels(i, s, at[s].round), at[s].round \in 1 .. Rounds, Holds(i, s) # <<>>
  PROVE  Head(Holds(i, s)) = at[s].round /\ Past(owner[i], i, at[s].round)
<1> DEFINE r == at[s].round
           h == Head(Holds(i, s))
<1>1. i \in Instrs /\ s \in readers[i] /\ BlockOf[i] = Trace[r] /\ r \in 1 .. Rounds
  BY DEF TypeOK, Travels
<1>2. h \in InFlight(i, s) /\ \A y \in InFlight(i, s) : h <= y
  <2>1. Holds(i, s) \in Seq(Values) /\ Lists(Holds(i, s), InFlight(i, s))
    BY <1>1, HoldsType DEF HoldsTheDifference
  <2>2. Values \in SUBSET Nat
    BY RoundsType DEF Values
  <2> HIDE DEF h
  <2>3. \A seq \in Seq(Values) : \A S : Lists(seq, S) /\ seq # <<>> =>
          Head(seq) \in S /\ \A y \in S : Head(seq) <= y
    BY <2>2, ListsHead, Zenon
  <2> QED
    BY <2>1, <2>3, Zenon DEF h
<1> HIDE DEF h
<1>3. h \in 1 .. Rounds /\ Past(owner[i], i, h) /\ ~ Past(s, i, h)
  BY <1>2 DEF InFlight
<1>4. ~ Past(s, i, r) /\ r <= h
  BY <1>1, <1>3, RoundsType DEF Past
<1>5. owner[i] \in Stages /\ at[owner[i]].round \in 1 .. Rounds + 1
  BY <1>1, SenderIsEarlier DEF TypeOK
<1>6. Past(owner[i], i, r)
  BY <1>1, <1>3, <1>4, <1>5, RoundsType DEF Past
<1>7. r \in InFlight(i, s)
  BY <1>1, <1>4, <1>6 DEF InFlight
<1>8. h = r
  BY <1>1, <1>2, <1>3, <1>4, <1>7, RoundsType
<1> QED
  BY <1>6, <1>8 DEF h

(* A send appends the core's round to what is held for every reader. *)
LEMMA SendIs ==
  ASSUME TypeOK, WorkInOrder, PortsInUse, NEW s \in Stages, Send(s)
  PROVE  \E i \in Instrs, r \in 1 .. Rounds :
           /\ i = First(at[s].todo) /\ i \in at[s].todo /\ r = at[s].round
           /\ owner[i] = s /\ readers[i] # {} /\ BlockOf[i] = Trace[r]
           /\ at' = Through(s, i) /\ src' = [src EXCEPT ![i] = Append(@, r)]
           /\ \A j \in Instrs : \A q \in readers[j] :
                Holds(j, q)' = IF j = i THEN Append(Holds(j, q), r) ELSE Holds(j, q)
<1>1. /\ at[s].todo # {} /\ UNCHANGED <<owner, readers, fork, dst>>
      /\ owner[First(at[s].todo)] = s /\ at' = Through(s, First(at[s].todo))
      /\ src' = [src EXCEPT ![First(at[s].todo)] = Append(@, at[s].round)]
  BY DEF Send, plan
<1>2. PICK i \in Instrs, r \in 1 .. Rounds :
        /\ i = First(at[s].todo) /\ i \in at[s].todo /\ r = at[s].round
        /\ readers[i] # {} /\ BlockOf[i] = Trace[r]
  BY <1>1, NextIs
<1>3. src' = [src EXCEPT ![i] = Append(@, r)]
  BY <1>1, <1>2
<1>4. ASSUME NEW j \in Instrs, NEW q \in readers[j]
      PROVE  Holds(j, q)' = IF j = i THEN Append(Holds(j, q), r) ELSE Holds(j, q)
  <2>1. q \in Stages
    BY SenderIsEarlier DEF TypeOK
  <2>2. src'[j] = IF j = i THEN Append(src[j], r) ELSE src[j]
    BY <1>3 DEF TypeOK
  <2>3. Holds(j, q)' = IF Forked(j) THEN dst[j][q] \o Mid(j, q) \o src'[j] ELSE src'[j]
    BY <1>1 DEF Holds, Mid, Forked
  <2>4. /\ dst[j][q] \in Seq(Values) /\ Mid(j, q) \in Seq(Values)
        /\ src[j] \in Seq(Values)
        /\ Holds(j, q) = IF Forked(j) THEN dst[j][q] \o Mid(j, q) \o src[j] ELSE src[j]
    BY <2>1, HoldsType
  <2>5. dst[j][q] \o Mid(j, q) \o Append(src[j], r) = Append(dst[j][q] \o Mid(j, q) \o src[j], r)
    <3> DEFINE d == dst[j][q]
               m == Mid(j, q)
               z == src[j]
    <3>1. d \in Seq(Values) /\ m \in Seq(Values) /\ z \in Seq(Values) /\ r \in Values
      BY <2>4 DEF Values
    <3> HIDE DEF d, m, z
    <3>2. d \o m \o Append(z, r) = Append(d \o m \o z, r)
      BY <3>1, PartsAppend
    <3> QED
      BY <3>2 DEF d, m, z
  <2> QED
    BY <2>2, <2>3, <2>4, <2>5
<1> QED
  BY <1>1, <1>2, <1>3, <1>4

(* A receive takes the value of the core's round out of what is held for it. *)
LEMMA ReceiveIs ==
  ASSUME TypeOK, WorkInOrder, PortsInUse, HoldsTheDifference, NEW s \in Stages,
         ReceiveForked(s) \/ ReceiveDirect(s)
  PROVE  \E i \in Instrs, r \in 1 .. Rounds :
           /\ i = First(at[s].todo) /\ i \in at[s].todo /\ r = at[s].round
           /\ owner[i] # s /\ Travels(i, s, r) /\ at' = Through(s, i)
           /\ Past(owner[i], i, r)
           /\ Head(IF Forked(i) THEN dst[i][s] ELSE src[i]) = r
           /\ Holds(i, s) # <<>> /\ Head(Holds(i, s)) = r
           /\ \A j \in Instrs : \A q \in readers[j] :
                Holds(j, q)' = IF j = i /\ q = s THEN Tail(Holds(j, q)) ELSE Holds(j, q)
<1>1. /\ at[s].todo # {} /\ UNCHANGED <<owner, readers, fork>>
      /\ owner[First(at[s].todo)] # s /\ at' = Through(s, First(at[s].todo))
  BY DEF ReceiveForked, ReceiveDirect, plan
<1>2. PICK i \in Instrs, r \in 1 .. Rounds :
        /\ i = First(at[s].todo) /\ i \in at[s].todo /\ r = at[s].round
        /\ owner[i] # s /\ Travels(i, s, r)
  BY <1>1, NextIs DEF Travels
<1>3. /\ \A j \in Instrs : Forked(j)' <=> Forked(j)
      /\ \A j \in Instrs, q \in Stages : Mid(j, q)' = Mid(j, q)
  BY <1>1 DEF Forked, Mid
<1>4. /\ s \in readers[i]
      /\ \A j \in Instrs : \A q \in readers[j] :
           /\ dst[j][q] \in Seq(Values) /\ Mid(j, q) \in Seq(Values)
           /\ src[j] \in Seq(Values)
           /\ Holds(j, q) = IF Forked(j) THEN dst[j][q] \o Mid(j, q) \o src[j] ELSE src[j]
           /\ Holds(j, q)' = IF Forked(j) THEN dst'[j][q] \o Mid(j, q) \o src'[j] ELSE src'[j]
  <2>1. s \in readers[i]
    BY <1>2 DEF Travels
  <2>2. ASSUME NEW j \in Instrs, NEW q \in readers[j]
        PROVE  /\ dst[j][q] \in Seq(Values) /\ Mid(j, q) \in Seq(Values)
               /\ src[j] \in Seq(Values)
               /\ Holds(j, q) = IF Forked(j) THEN dst[j][q] \o Mid(j, q) \o src[j] ELSE src[j]
               /\ Holds(j, q)' = IF Forked(j) THEN dst'[j][q] \o Mid(j, q) \o src'[j]
                                              ELSE src'[j]
    <3>1. q \in Stages
      BY SenderIsEarlier DEF TypeOK
    <3>2. Holds(j, q)' = IF Forked(j) THEN dst'[j][q] \o Mid(j, q) \o src'[j] ELSE src'[j]
      BY <1>1 DEF Holds, Mid, Forked
    <3> QED
      BY <3>1, <3>2, HoldsType
  <2> QED
    BY <2>1, <2>2
<1>5. /\ Head(IF Forked(i) THEN dst[i][s] ELSE src[i]) = Head(Holds(i, s))
      /\ Holds(i, s) # <<>>
      /\ \A j \in Instrs : \A q \in readers[j] :
           Holds(j, q)' = IF j = i /\ q = s THEN Tail(Holds(j, q)) ELSE Holds(j, q)
  <2>1. CASE ReceiveForked(s)
    <3>1. /\ Forked(i) /\ dst[i][s] # <<>> /\ dst' = [dst EXCEPT ![i][s] = Tail(@)]
          /\ src' = src
      BY <1>2, <2>1 DEF ReceiveForked
    <3>2. \A j \in Instrs, q \in Stages :
            dst'[j][q] = IF j = i /\ q = s THEN Tail(dst[j][q]) ELSE dst[j][q]
      BY <3>1 DEF TypeOK
    <3>3. /\ Holds(i, s) # <<>> /\ Head(Holds(i, s)) = Head(dst[i][s])
          /\ Tail(Holds(i, s)) = Tail(dst[i][s]) \o Mid(i, s) \o src[i]
      <4> DEFINE d == dst[i][s]
                 m == Mid(i, s)
                 z == src[i]
      <4>1. d \in Seq(Values) /\ m \in Seq(Values) /\ z \in Seq(Values) /\ d # <<>>
        BY <1>4, <3>1
      <4>2. Holds(i, s) = d \o m \o z
        BY <1>4, <3>1
      <4> HIDE DEF d, m, z
      <4>3. d \o m \o z # <<>> /\ Head(d \o m \o z) = Head(d)
        BY <4>1, PartsHead
      <4>4. Tail(d \o m \o z) = Tail(d) \o m \o z
        BY <4>1, PartsTail
      <4> QED
        BY <4>2, <4>3, <4>4, Zenon DEF d, m, z
    <3>4. ASSUME NEW j \in Instrs, NEW q \in readers[j]
          PROVE  Holds(j, q)' = IF j = i /\ q = s THEN Tail(Holds(j, q)) ELSE Holds(j, q)
      <4>1. q \in Stages
        BY SenderIsEarlier DEF TypeOK
      <4>2. CASE j = i /\ q = s
        BY <1>4, <3>1, <3>2, <3>3, <4>1, <4>2, Zenon
      <4>3. CASE ~ (j = i /\ q = s)
        <5>1. dst'[j][q] = dst[j][q]
          BY <3>2, <4>1, <4>3
        <5> QED
          BY <1>4, <3>1, <4>3, <5>1, Zenon
      <4> QED
        BY <4>2, <4>3
    <3> QED
      BY <3>1, <3>3, <3>4, Zenon
  <2>2. CASE ReceiveDirect(s)
    <3>1. /\ ~ Forked(i) /\ src[i] # <<>> /\ src' = [src EXCEPT ![i] = Tail(@)]
          /\ dst' = dst
      BY <1>2, <2>2 DEF ReceiveDirect
    <3>2. \A j \in Instrs : src'[j] = IF j = i THEN Tail(src[j]) ELSE src[j]
      BY <3>1 DEF TypeOK
    <3>3. \A q \in readers[i] : q = s
      BY <1>4, <3>1, OnlyReader DEF TypeOK
    <3>4. Holds(i, s) = src[i]
      BY <1>4, <3>1, Zenon
    <3>5. ASSUME NEW j \in Instrs, NEW q \in readers[j]
          PROVE  Holds(j, q)' = IF j = i /\ q = s THEN Tail(Holds(j, q)) ELSE Holds(j, q)
      <4>1. CASE j = i
        <5>1. q = s /\ src'[j] = Tail(src[j])
          BY <3>2, <3>3, <4>1
        <5> QED
          BY <1>4, <3>1, <3>4, <4>1, <5>1, Zenon
      <4>2. CASE j # i
        <5>1. dst'[j][q] = dst[j][q] /\ src'[j] = src[j]
          BY <3>1, <3>2, <4>2
        <5> QED
          BY <1>4, <4>2, <5>1, Zenon
      <4> QED
        BY <4>1, <4>2
    <3> QED
      BY <3>1, <3>4, <3>5, Zenon
  <2> QED
    BY <2>1, <2>2
<1>6. Head(Holds(i, s)) = r /\ Past(owner[i], i, r)
  BY <1>2, <1>5, HeadIsRound
<1> QED
  BY <1>1, <1>2, <1>5, <1>6

LEMMA NextPortIs ==
  ASSUME TypeOK, NEW i \in Instrs, fork[i].left # {}
  PROVE  NextPort(i) \in fork[i].left
<1>1. fork[i].left \in SUBSET Stages
  BY DEF TypeOK
<1>2. \E s \in fork[i].left : \A q \in fork[i].left : q <= s
  BY <1>1, GreatestExists, StagesAssumption DEF Stages
<1> QED
  BY <1>2 DEF NextPort

(* What a fork does to its channel. *)
LEMMA ForkReadIs ==
  ASSUME TypeOK, NEW i \in Instrs, ForkRead(i)
  PROVE  /\ UNCHANGED <<owner, readers, at, dst>>
         /\ Forked(i) /\ fork[i].left = {} /\ src[i] # <<>>
         /\ src'[i] = Tail(src[i])
         /\ fork'[i].val = Head(src[i]) /\ fork'[i].left = readers[i]
         /\ \A j \in Instrs \ {i} : src'[j] = src[j] /\ fork'[j] = fork[j]
  BY DEF ForkRead, TypeOK, plan

LEMMA ForkWriteIs ==
  ASSUME TypeOK, NEW i \in Instrs, ForkWrite(i)
  PROVE  /\ UNCHANGED <<owner, readers, at, src>> /\ NextPort(i) \in fork[i].left
         /\ fork'[i].val = fork[i].val /\ fork'[i].left = fork[i].left \ {NextPort(i)}
         /\ \A j \in Instrs \ {i} : fork'[j] = fork[j]
         /\ \A j \in Instrs, q \in Stages :
              dst'[j][q] = IF j = i /\ q = NextPort(i) THEN Append(dst[j][q], fork[i].val)
                                                      ELSE dst[j][q]
<1>1. /\ UNCHANGED <<owner, readers, at, src>> /\ fork[i].left # {}
      /\ dst' = [dst EXCEPT ![i][NextPort(i)] = Append(@, fork[i].val)]
      /\ fork' = [fork EXCEPT ![i].left = @ \ {NextPort(i)}]
  BY DEF ForkWrite, plan
<1>2. PICK p \in Stages : p = NextPort(i) /\ p \in fork[i].left
  BY <1>1, NextPortIs DEF TypeOK
<1>3. /\ fork'[i].val = fork[i].val /\ fork'[i].left = fork[i].left \ {p}
      /\ \A j \in Instrs \ {i} : fork'[j] = fork[j]
  BY <1>1, <1>2 DEF TypeOK
<1>4. \A j \in Instrs, q \in Stages :
        dst'[j][q] = IF j = i /\ q = p THEN Append(dst[j][q], fork[i].val) ELSE dst[j][q]
  BY <1>1, <1>2 DEF TypeOK
<1> QED
  BY <1>1, <1>2, <1>3, <1>4

(* A fork moves values, and changes nothing of what is held for a reader. *)
LEMMA ForkIs ==
  ASSUME TypeOK, PortsInUse, NEW i \in Instrs, ForkRead(i) \/ ForkWrite(i)
  PROVE  \A j \in Instrs : \A q \in readers[j] : Holds(j, q)' = Holds(j, q)
<1> SUFFICES ASSUME NEW j \in Instrs, NEW q \in readers[j]
             PROVE  Holds(j, q)' = Holds(j, q)
  OBVIOUS
<1>1. q \in Stages
  BY SenderIsEarlier DEF TypeOK
<1>2. readers' = readers
  BY DEF ForkRead, ForkWrite, plan
<1>3. CASE j # i
  <2>1. src'[j] = src[j] /\ fork'[j] = fork[j] /\ dst'[j][q] = dst[j][q]
    BY <1>1, <1>3, ForkReadIs, ForkWriteIs
  <2> QED
    BY <1>2, <2>1 DEF Holds, Forked
<1>4. CASE j = i /\ ForkRead(i)
  <2> DEFINE d == dst[i][q]
             z == src[i]
  <2>1. d \in Seq(Values) /\ z \in Seq(Values) /\ z # <<>>
    BY <1>1, <1>4, HoldsType, ForkReadIs
  <2>2. Holds(j, q)' = d \o <<Head(z)>> \o Tail(z)
    BY <1>2, <1>4, ForkReadIs DEF Holds, Forked
  <2>3. Holds(j, q) = d \o <<>> \o z
    BY <1>4, ForkReadIs DEF Holds
  <2> HIDE DEF d, z
  <2>4. d \o <<Head(z)>> \o Tail(z) = d \o <<>> \o z
    BY <2>1, PartsForkRead
  <2> QED
    BY <2>2, <2>3, <2>4, Zenon
<1>5. CASE j = i /\ ForkWrite(i)
  <2>1. /\ Forked(i) /\ NextPort(i) \in fork[i].left /\ src' = src
        /\ fork'[i].val = fork[i].val /\ fork'[i].left = fork[i].left \ {NextPort(i)}
        /\ dst'[i][q] = IF q = NextPort(i) THEN Append(dst[i][q], fork[i].val) ELSE dst[i][q]
    BY <1>1, <1>5, ForkWriteIs DEF PortsInUse
  <2>2. CASE q # NextPort(i)
    BY <1>2, <1>5, <2>1, <2>2 DEF Holds, Forked
  <2>3. CASE q = NextPort(i)
    <3> DEFINE d == dst[i][q]
               z == src[i]
               x == fork[i].val
    <3>1. d \in Seq(Values) /\ z \in Seq(Values) /\ x \in Values
      BY <1>1, <2>1, HoldsType DEF PortsInUse, Values
    <3>2. Holds(j, q)' = Append(d, x) \o <<>> \o z
      BY <1>2, <1>5, <2>1, <2>3 DEF Holds, Forked
    <3>3. Holds(j, q) = d \o <<x>> \o z
      BY <1>5, <2>1, <2>3 DEF Holds
    <3> HIDE DEF d, z, x
    <3>4. Append(d, x) \o <<>> \o z = d \o <<x>> \o z
      BY <3>1, PartsForkWrite
    <3> QED
      BY <3>2, <3>3, <3>4, Zenon
  <2> QED
    BY <2>2, <2>3
<1> QED
  BY <1>3, <1>4, <1>5

-----------------------------------------------------------------------------
(* Types *)

LEMMA CallEndsType ==
  /\ Len(CallEnds) \in Nat
  /\ \A c \in 1 .. Len(CallEnds) : CallEnds[c] \in 1 .. Rounds
  /\ \A c, d \in 1 .. Len(CallEnds) : c < d => CallEnds[c] < CallEnds[d]
<1>1. Len(CallEnds) \in Nat /\ DOMAIN CallEnds = 1 .. Len(CallEnds)
  BY CallsAssumption, LenProperties
<1>2. \A c \in 1 .. Len(CallEnds) : CallEnds[c] \in 1 .. Rounds
  BY CallsAssumption, ElementOfSeq
<1> QED
  BY <1>1, <1>2, CallsAssumption

LEMMA InitType == Init => TypeOK
<1> SUFFICES ASSUME Init PROVE TypeOK
  OBVIOUS
<1> USE DEF Init
<1>1. at \in [Stages -> [round : 1 .. Rounds + 1, todo : SUBSET Instrs]]
  <2>1. ASSUME NEW s \in Stages PROVE Ops(s, 1) \in SUBSET Instrs
    BY OpsMembers
  <2> QED
    BY <2>1, RoundsType DEF EnterRound
<1>2. /\ src \in [Instrs -> Seq(1 .. Rounds)]
      /\ fork \in [Instrs -> [val : 0 .. Rounds, left : SUBSET Stages]]
      /\ dst \in [Instrs -> [Stages -> Seq(1 .. Rounds)]]
  BY RoundsType
<1>3. \A i \in Instrs : /\ Len(src[i]) <= SRC_DEPTH
                       /\ \A s \in Stages : Len(dst[i][s]) <= DST_DEPTH
  BY DepthAssumption
<1>4. /\ call \in 1 .. Len(CallEnds) + 1 /\ forking \in BOOLEAN
      /\ started \in 0 .. NumStages /\ polled \in 0 .. started
  <2>1. call = 1 /\ started = 0 /\ polled = 0
    OBVIOUS
  <2>2. /\ call \in 1 .. Len(CallEnds) + 1
        /\ started \in 0 .. NumStages /\ polled \in 0 .. started
    BY <2>1, CallEndsType, StagesAssumption
  <2>3. forking \in BOOLEAN
    BY Zenon
  <2> QED
    BY <2>2, <2>3
<1>5. PlanOK
  OBVIOUS
<1> QED
  BY ONLY <1>1, <1>2, <1>3, <1>4, <1>5 DEF TypeOK

(* A queue of at most n values stays one when a value is taken out of it, or put *)
(* in when there is room.                                                      *)
LEMMA QueueType ==
  ASSUME NEW T, NEW seq \in Seq(T), NEW n \in Nat, Len(seq) <= n
  PROVE  /\ seq # <<>> => /\ Tail(seq) \in Seq(T) /\ Len(Tail(seq)) <= n
                         /\ Head(seq) \in T
         /\ \A x \in T : Len(seq) < n => Append(seq, x) \in Seq(T) /\ Len(Append(seq, x)) <= n
<1>1. Len(seq) \in Nat
  BY LenProperties
<1>2. ASSUME seq # <<>>
      PROVE  Tail(seq) \in Seq(T) /\ Len(Tail(seq)) <= n /\ Head(seq) \in T
  <2>1. Tail(seq) \in Seq(T) /\ Len(Tail(seq)) = Len(seq) - 1 /\ Head(seq) \in T
    BY <1>2, HeadTailProperties
  <2> QED
    BY <1>1, <2>1
<1>3. ASSUME NEW x \in T, Len(seq) < n
      PROVE  Append(seq, x) \in Seq(T) /\ Len(Append(seq, x)) <= n
  <2>1. Append(seq, x) \in Seq(T) /\ Len(Append(seq, x)) = Len(seq) + 1
    BY AppendProperties
  <2> QED
    BY <1>1, <1>3, <2>1
<1> QED
  BY <1>2, <1>3

(* What a source FIFO and a destination FIFO may contain. *)
SrcQueue == {seq \in Seq(Values) : Len(seq) <= SRC_DEPTH}
DstQueue == {seq \in Seq(Values) : Len(seq) <= DST_DEPTH}

LEMMA QueuesTyped ==
  ASSUME TypeOK
  PROVE  /\ src \in [Instrs -> SrcQueue] /\ dst \in [Instrs -> [Stages -> DstQueue]]
         /\ \A seq \in SrcQueue : seq # <<>> => Tail(seq) \in SrcQueue /\ Head(seq) \in Values
         /\ \A seq \in DstQueue : seq # <<>> => Tail(seq) \in DstQueue /\ Head(seq) \in Values
         /\ \A seq \in SrcQueue, x \in Values : Len(seq) < SRC_DEPTH => Append(seq, x) \in SrcQueue
         /\ \A seq \in DstQueue, x \in Values : Len(seq) < DST_DEPTH => Append(seq, x) \in DstQueue
<1>1. src \in [Instrs -> SrcQueue]
  BY DEF TypeOK, SrcQueue, Values
<1>2. dst \in [Instrs -> [Stages -> DstQueue]]
  BY DEF TypeOK, DstQueue, Values
<1>3. ASSUME NEW seq \in SrcQueue
      PROVE  /\ seq # <<>> => Tail(seq) \in SrcQueue /\ Head(seq) \in Values
             /\ \A x \in Values : Len(seq) < SRC_DEPTH => Append(seq, x) \in SrcQueue
  <2>1. seq \in Seq(Values) /\ Len(seq) <= SRC_DEPTH /\ SRC_DEPTH \in Nat
    BY DepthAssumption DEF SrcQueue
  <2> QED
    BY <2>1, QueueType DEF SrcQueue
<1>4. ASSUME NEW seq \in DstQueue
      PROVE  /\ seq # <<>> => Tail(seq) \in DstQueue /\ Head(seq) \in Values
             /\ \A x \in Values : Len(seq) < DST_DEPTH => Append(seq, x) \in DstQueue
  <2>1. seq \in Seq(Values) /\ Len(seq) <= DST_DEPTH /\ DST_DEPTH \in Nat
    BY DepthAssumption DEF DstQueue
  <2> QED
    BY <2>1, QueueType DEF DstQueue
<1> QED
  BY <1>1, <1>2, <1>3, <1>4

LEMMA NextType == TypeOK /\ WorkInOrder /\ PortsInUse /\ WithinCall /\ [Next]_vars => TypeOK'
<1> SUFFICES ASSUME TypeOK, WorkInOrder, PortsInUse, WithinCall, [Next]_vars PROVE TypeOK'
  OBVIOUS
<1> DEFINE Work == [round : 1 .. Rounds + 1, todo : SUBSET Instrs]
           Port == [val : 0 .. Rounds, left : SUBSET Stages]
<1>a. /\ PlanOK /\ call \in 1 .. Len(CallEnds) + 1 /\ forking \in BOOLEAN
      /\ started \in 0 .. NumStages /\ polled \in 0 .. started
      /\ at \in [Stages -> Work] /\ fork \in [Instrs -> Port]
      /\ src \in [Instrs -> SrcQueue] /\ dst \in [Instrs -> [Stages -> DstQueue]]
  BY QueuesTyped DEF TypeOK
<1>b. ASSUME PlanOK', call' \in 1 .. Len(CallEnds) + 1, forking' \in BOOLEAN,
             started' \in 0 .. NumStages, polled' \in 0 .. started',
             at' \in [Stages -> Work], fork' \in [Instrs -> Port],
             src' \in [Instrs -> SrcQueue], dst' \in [Instrs -> [Stages -> DstQueue]]
      PROVE  TypeOK'
  BY <1>b DEF TypeOK, SrcQueue, DstQueue, Values
<1>c. ASSUME NEW s \in Stages, NEW i \in at[s].todo PROVE Through(s, i) \in [Stages -> Work]
  BY <1>a DEF Through
<1>d. ASSUME NEW s \in Stages, Running(s)
      PROVE  call \in 1 .. Len(CallEnds) /\ at[s].round \in 1 .. Rounds
  BY <1>a, <1>d, CallEndsType, RoundsType DEF Running
<1>e. UNCHANGED plan => PlanOK'
  BY <1>a DEF plan, PlanOK
<1>1. ASSUME NEW s \in Stages, Send(s) PROVE TypeOK'
  <2>1. PICK i \in Instrs, r \in Values :
          /\ i \in at[s].todo /\ at' = Through(s, i) /\ i = First(at[s].todo)
          /\ src' = [src EXCEPT ![i] = Append(@, r)]
    BY <1>1, SendIs DEF Values
  <2>2. Append(src[i], r) \in SrcQueue
    <3>1. src[i] \in SrcQueue /\ Len(src[i]) < SRC_DEPTH
      BY <1>1, <1>a, <2>1 DEF Send
    <3> QED
      BY <3>1, QueuesTyped
  <2>3. src' \in [Instrs -> SrcQueue]
    BY <1>a, <2>1, <2>2
  <2>4. UNCHANGED plan /\ UNCHANGED <<call, forking, started, polled, fork, dst>>
    BY <1>1 DEF Send
  <2> QED
    BY <1>a, <1>b, <1>c, <1>e, <2>1, <2>3, <2>4
<1>2. ASSUME NEW s \in Stages, ReceiveForked(s) PROVE TypeOK'
  <2>1. PICK i \in at[s].todo : /\ i \in Instrs /\ at' = Through(s, i) /\ dst[i][s] # <<>>
                               /\ dst' = [dst EXCEPT ![i][s] = Tail(@)]
    BY <1>2, NextIs DEF ReceiveForked
  <2>2. Tail(dst[i][s]) \in DstQueue
    <3>1. dst[i][s] \in DstQueue
      BY <1>a, <2>1
    <3> QED
      BY <2>1, <3>1, QueuesTyped
  <2>3. dst' \in [Instrs -> [Stages -> DstQueue]]
    BY <1>a, <2>1, <2>2
  <2>4. UNCHANGED plan /\ UNCHANGED <<call, forking, started, polled, src, fork>>
    BY <1>2 DEF ReceiveForked
  <2> QED
    BY <1>a, <1>b, <1>c, <1>e, <2>1, <2>3, <2>4
<1>3. ASSUME NEW s \in Stages, ReceiveDirect(s) PROVE TypeOK'
  <2>1. PICK i \in at[s].todo : /\ i \in Instrs /\ at' = Through(s, i) /\ src[i] # <<>>
                               /\ src' = [src EXCEPT ![i] = Tail(@)]
    BY <1>3, NextIs DEF ReceiveDirect
  <2>2. Tail(src[i]) \in SrcQueue
    <3>1. src[i] \in SrcQueue
      BY <1>a, <2>1
    <3> QED
      BY <2>1, <3>1, QueuesTyped
  <2>3. src' \in [Instrs -> SrcQueue]
    BY <1>a, <2>1, <2>2
  <2>4. UNCHANGED plan /\ UNCHANGED <<call, forking, started, polled, fork, dst>>
    BY <1>3 DEF ReceiveDirect
  <2> QED
    BY <1>a, <1>b, <1>c, <1>e, <2>1, <2>3, <2>4
<1>4. ASSUME NEW s \in Stages, Branch(s) PROVE TypeOK'
  <2>1. at[s].round + 1 \in 1 .. Rounds + 1 /\ at[s].round + 1 \in Nat
    BY <1>4, <1>d, RoundsType DEF Branch
  <2>2. Ops(s, at[s].round + 1) \in SUBSET Instrs
    BY <1>a, <2>1, OpsMembers
  <2>3. at' \in [Stages -> Work]
    BY <1>4, <1>a, <2>1, <2>2 DEF Branch, EnterRound
  <2>4. UNCHANGED plan /\ UNCHANGED <<call, forking, started, polled, src, fork, dst>>
    BY <1>4 DEF Branch
  <2> QED
    BY <1>a, <1>b, <1>e, <2>3, <2>4
<1>5. ASSUME NEW i \in Instrs, ForkRead(i) PROVE TypeOK'
  <2>1. src[i] \in SrcQueue /\ src[i] # <<>>
    BY <1>5, <1>a DEF ForkRead
  <2>2. Tail(src[i]) \in SrcQueue /\ Head(src[i]) \in 0 .. Rounds
    BY <2>1, QueuesTyped, RoundsType DEF Values
  <2>3. readers[i] \in SUBSET Stages
    BY <1>a DEF PlanOK
  <2>4. fork' \in [Instrs -> Port] /\ src' \in [Instrs -> SrcQueue]
    BY <1>5, <1>a, <2>2, <2>3 DEF ForkRead
  <2>5. UNCHANGED plan /\ UNCHANGED <<call, forking, started, polled, at, dst>>
    BY <1>5 DEF ForkRead
  <2> QED
    BY <1>a, <1>b, <1>e, <2>4, <2>5
<1>6. ASSUME NEW i \in Instrs, ForkWrite(i) PROVE TypeOK'
  <2>1. PICK p \in Stages : p = NextPort(i) /\ p \in fork[i].left
    BY <1>6, <1>a, NextPortIs DEF ForkWrite
  <2>2. Append(dst[i][p], fork[i].val) \in DstQueue
    <3>1. dst[i][p] \in DstQueue /\ Len(dst[i][p]) < DST_DEPTH /\ fork[i].val \in Values
      BY <1>6, <1>a, <2>1 DEF ForkWrite, PortsInUse, Values
    <3> QED
      BY <3>1, QueuesTyped
  <2>3. /\ dst' = [dst EXCEPT ![i][p] = Append(@, fork[i].val)]
        /\ fork' = [fork EXCEPT ![i].left = @ \ {p}]
        /\ UNCHANGED plan /\ UNCHANGED <<call, forking, started, polled, at, src>>
    BY <1>6, <2>1 DEF ForkWrite
  <2>4. dst' \in [Instrs -> [Stages -> DstQueue]] /\ fork' \in [Instrs -> Port]
    BY <1>a, <2>2, <2>3
  <2> QED
    BY <1>a, <1>b, <1>e, <2>3, <2>4
<1>7. CASE Processor
  <2>1. call' \in 1 .. Len(CallEnds) + 1
    BY <1>7, <1>a, CallEndsType, StagesAssumption
       DEF Processor, StartForks, StartCore, Poll, Return, WithinCall
  <2>2. started' \in 0 .. NumStages /\ polled' \in 0 .. started'
    BY <1>7, <1>a, StagesAssumption DEF Processor, StartForks, StartCore, Poll, Return
  <2>3. forking' \in BOOLEAN
    BY <1>7, <1>a, Zenon DEF Processor, StartForks, StartCore, Poll, Return
  <2>4. UNCHANGED plan /\ UNCHANGED <<at, src, fork, dst>>
    BY <1>7 DEF Processor, StartForks, StartCore, Poll, Return
  <2> QED
    BY <1>a, <1>b, <1>e, <2>1, <2>2, <2>3, <2>4
<1>8. CASE UNCHANGED vars
  BY <1>8, <1>a, <1>b, <1>e DEF vars, plan
<1> QED
  BY <1>1, <1>2, <1>3, <1>4, <1>5, <1>6, <1>7, <1>8 DEF Next, Core, Fork

-----------------------------------------------------------------------------
(* The invariant *)

LEMMA InitInv == Init => IInv
<1> SUFFICES ASSUME Init PROVE IInv
  OBVIOUS
<1>1. TypeOK
  BY InitType
<1>2. \A s \in Stages : at[s] = EnterRound(s, 1) /\ at[s].round = 1 /\ at[s].todo = Ops(s, 1)
  BY DEF Init, EnterRound
<1>3. WorkInOrder
  BY <1>2 DEF WorkInOrder
<1>4. \A i \in Instrs, q \in Stages, r \in 1 .. Rounds : Travels(i, q, r) =>
        ~ Past(q, i, r) /\ ~ Past(owner[i], i, r)
  <2> TAKE i \in Instrs, q \in Stages, r \in 1 .. Rounds
  <2> SUFFICES ASSUME Travels(i, q, r) PROVE ~ Past(q, i, r) /\ ~ Past(owner[i], i, r)
    OBVIOUS
  <2>1. owner[i] \in Stages /\ q \in readers[i]
    BY <1>1, SenderIsEarlier DEF TypeOK, Travels
  <2>2. r = 1 => i \in Ops(q, 1) /\ i \in Ops(owner[i], 1)
    BY <1>1, <2>1, OpsMembers, RoundsType DEF TypeOK, Travels
  <2> QED
    BY <1>2, <2>1, <2>2, RoundsType DEF Past
<1>5. ReaderBehind
  BY <1>1, <1>4 DEF ReaderBehind, TypeOK, PlanOK
<1>6. PortsInUse
  BY DEF Init, PortsInUse
<1>7. HoldsTheDifference
  <2> SUFFICES ASSUME NEW i \in Instrs, NEW q \in readers[i]
               PROVE  Lists(Holds(i, q), InFlight(i, q))
    BY DEF HoldsTheDifference
  <2>1. q \in Stages
    BY <1>1, SenderIsEarlier DEF TypeOK
  <2>2. InFlight(i, q) = {}
    BY <1>4, <2>1 DEF InFlight, Travels
  <2>3. Holds(i, q) = <<>>
    BY <2>1 DEF Init, Holds
  <2> QED
    BY <2>2, <2>3, ListsNothing
<1>8. WithinCall
  <2>1. started = 0 /\ polled = 0 /\ call = 1 /\ CallStart = 1
    BY DEF Init, CallStart
  <2>2. ASSUME NEW s \in Stages, call <= Len(CallEnds) PROVE ~ Done(s)
    BY <1>2, <2>1, <2>2, CallEndsType, RoundsType DEF Done
  <2> QED
    BY <1>2, <2>1, <2>2, StagesAssumption DEF WithinCall, Stages
<1> QED
  BY <1>1, <1>3, <1>5, <1>6, <1>7, <1>8 DEF IInv

(* A step of a core stays in the call. *)
LEMMA CoreWithinCall ==
  ASSUME TypeOK, WithinCall, NEW s \in Stages, Running(s),
         UNCHANGED <<owner, readers, call, forking, started, polled>>,
         \A t \in Stages \ {s} : at'[t] = at[t],
         at'[s].round = at[s].round \/ at'[s] = EnterRound(s, at[s].round + 1)
  PROVE  WithinCall'
<1>1. \A t, r : EnterRound(t, r)' = EnterRound(t, r)
  BY DEF EnterRound, Ops, Sends, Receives
<1>2. CallStart' = CallStart
  BY DEF CallStart
<1>3. /\ call \in 1 .. Len(CallEnds) /\ CallEnds[call] \in Nat /\ at[s].round \in Nat
      /\ at[s].round <= CallEnds[call] /\ s <= started
  BY CallEndsType, RoundsType DEF Running, TypeOK
<1>4. \A t \in Stages : /\ (t > started => t # s)
                       /\ (t <= polled => t # s)
  BY <1>3 DEF WithinCall, Done, TypeOK, Stages
<1>5. Done(s)' => at'[s] = EnterRound(s, CallEnds[call] + 1)
  <2>1. CASE at'[s].round = at[s].round
    BY <1>3, <2>1 DEF Done
  <2>2. CASE at'[s] = EnterRound(s, at[s].round + 1)
    <3>1. at'[s].round = at[s].round + 1
      BY <2>2 DEF EnterRound
    <3>2. Done(s)' => at[s].round = CallEnds[call]
      BY <1>3, <3>1 DEF Done
    <3> QED
      BY <2>2, <3>2
  <2> QED
    BY <2>1, <2>2
<1>6. \A t \in Stages \ {s} : Done(t)' <=> Done(t)
  BY DEF Done
<1> SUFFICES ASSUME NEW t \in Stages
             PROVE  /\ t > started => at'[t] = EnterRound(t, CallStart)
                    /\ call <= Len(CallEnds) /\ Done(t)' => at'[t] = EnterRound(t, CallEnds[call] + 1)
                    /\ t <= polled => Done(t)'
  BY <1>1, <1>2 DEF WithinCall
<1>7. CASE t = s
  BY <1>4, <1>5, <1>7
<1>8. CASE t # s
  BY <1>6, <1>8 DEF WithinCall
<1> QED
  BY <1>7, <1>8

(* An operation leaves less of the block to do. *)
LEMMA ThroughInOrder ==
  ASSUME TypeOK, WorkInOrder, NEW s \in Stages, NEW i \in at[s].todo, at' = Through(s, i),
         UNCHANGED <<owner, readers>>
  PROVE  WorkInOrder'
<1>1. \A t, r : Ops(t, r)' = Ops(t, r)
  BY DEF Ops, Sends, Receives
<1>2. \A t \in Stages : at'[t].round = at[t].round /\ at'[t].todo \subseteq at[t].todo
  <2> TAKE t \in Stages
  <2>1. CASE t = s
    BY <2>1, ThroughPast
  <2>2. CASE t # s
    <3>1. at'[t] = at[t]
      BY <2>2, ThroughPast
    <3> QED
      BY <3>1
  <2> QED
    BY <2>1, <2>2
<1> QED
  BY <1>1, <1>2 DEF WorkInOrder

LEMMA SendInv ==
  ASSUME IInv, TypeOK', NEW s \in Stages, Send(s)
  PROVE  IInv'
<1> USE DEF IInv
<1>1. PICK i \in Instrs, r \in 1 .. Rounds :
        /\ i \in at[s].todo /\ r = at[s].round
        /\ owner[i] = s /\ readers[i] # {} /\ BlockOf[i] = Trace[r]
        /\ at' = Through(s, i) /\ src' = [src EXCEPT ![i] = Append(@, r)]
        /\ \A j \in Instrs : \A q \in readers[j] :
             Holds(j, q)' = IF j = i THEN Append(Holds(j, q), r) ELSE Holds(j, q)
  BY SendIs
<1>2. /\ UNCHANGED <<owner, readers, call, forking, started, polled, fork, dst>>
      /\ Running(s)
  BY DEF Send, plan
<1>3. /\ at'[s].round = at[s].round /\ \A t \in Stages \ {s} : at'[t] = at[t]
      /\ ~ Past(s, i, r)
      /\ \A t \in Stages, j \in Instrs, x \in 1 .. Rounds :
           Past(t, j, x)' <=> Past(t, j, x) \/ (t = s /\ j = i /\ x = r)
  BY <1>1, ThroughPast
<1>4. \A j \in Instrs : \A q \in readers[j] :
        q \in Stages /\ owner[j] \in Stages /\ owner[j] # q
  BY SenderIsEarlier DEF TypeOK
<1>5. \A j \in Instrs : \A q \in readers[j] : \A x \in 1 .. Rounds :
        /\ Past(owner[j], j, x)' <=> Past(owner[j], j, x) \/ (j = i /\ x = r)
        /\ Past(q, j, x)' <=> Past(q, j, x)
  <2> SUFFICES ASSUME NEW j \in Instrs, NEW q \in readers[j], NEW x \in 1 .. Rounds
               PROVE  /\ Past(owner[j], j, x)' <=> Past(owner[j], j, x) \/ (j = i /\ x = r)
                      /\ Past(q, j, x)' <=> Past(q, j, x)
    OBVIOUS
  <2>1. Past(q, j, x)' <=> Past(q, j, x)
    BY <1>1, <1>3, <1>4
  <2>2. Past(owner[j], j, x)' <=> Past(owner[j], j, x) \/ (j = i /\ x = r)
    <3>1. j = i <=> j = i /\ owner[j] = s
      BY <1>1
    <3> QED
      BY <1>2, <1>3, <1>4, <3>1 DEF Past
  <2> QED
    BY <2>1, <2>2
<1>6. WorkInOrder'
  BY <1>1, <1>2, ThroughInOrder
<1>7. ReaderBehind'
  BY <1>2, <1>5 DEF ReaderBehind, Travels
<1>8. HoldsTheDifference'
  <2> SUFFICES ASSUME NEW j \in Instrs, NEW q \in readers[j]
               PROVE  Lists(Holds(j, q)', InFlight(j, q)')
    BY <1>2 DEF HoldsTheDifference
  <2>1. q \in Stages /\ Lists(Holds(j, q), InFlight(j, q))
    BY <1>4 DEF HoldsTheDifference
  <2>2. CASE j = i
    <3>1. ~ Past(q, i, r)
      BY <1>1, <1>3, <2>2 DEF ReaderBehind, Travels
    <3>2. InFlight(j, q)' = InFlight(j, q) \cup {r}
      BY <1>1, <1>2, <1>5, <2>2, <3>1 DEF InFlight
    <3>3. ASSUME NEW y \in InFlight(j, q) PROVE y < r
      <4>1. y \in 1 .. Rounds /\ Past(s, i, y) /\ ~ Past(s, i, r)
        BY <1>1, <1>3, <2>2, <3>3 DEF InFlight
      <4> QED
        BY <1>1, <4>1, RoundsType DEF Past, TypeOK
    <3>4. Holds(j, q) \in Seq(Values)
      BY <2>1, HoldsType
    <3>5. Values \in SUBSET Nat /\ r \in Values
      BY RoundsType DEF Values
    <3>6. Lists(Append(Holds(j, q), r), InFlight(j, q) \cup {r})
      BY <2>1, <3>3, <3>4, <3>5, ListsAppended
    <3> QED
      BY <1>1, <2>2, <3>2, <3>6
  <2>3. CASE j # i
    <3>1. InFlight(j, q)' = InFlight(j, q)
      BY <1>2, <1>5, <2>3 DEF InFlight
    <3> QED
      BY <1>1, <2>1, <2>3, <3>1
  <2> QED
    BY <2>2, <2>3
<1>9. PortsInUse'
  <2>1. \A j \in Instrs : readers[j] = {} => src'[j] = src[j]
    BY <1>1 DEF TypeOK
  <2> QED
    BY <1>2, <2>1 DEF PortsInUse, Forked
<1>10. WithinCall'
  BY <1>2, <1>3, CoreWithinCall
<1> QED
  BY <1>6, <1>7, <1>8, <1>9, <1>10

LEMMA ReceiveInv ==
  ASSUME IInv, TypeOK', NEW s \in Stages, ReceiveForked(s) \/ ReceiveDirect(s)
  PROVE  IInv'
<1> USE DEF IInv
<1>1. PICK i \in Instrs, r \in 1 .. Rounds :
        /\ i = First(at[s].todo) /\ i \in at[s].todo /\ r = at[s].round
        /\ owner[i] # s /\ Travels(i, s, r) /\ at' = Through(s, i)
        /\ Past(owner[i], i, r) /\ Holds(i, s) # <<>> /\ Head(Holds(i, s)) = r
        /\ \A j \in Instrs : \A q \in readers[j] :
             Holds(j, q)' = IF j = i /\ q = s THEN Tail(Holds(j, q)) ELSE Holds(j, q)
  BY ReceiveIs
<1>2. /\ UNCHANGED <<owner, readers, call, forking, started, polled, fork>>
      /\ Running(s)
  BY DEF ReceiveForked, ReceiveDirect, plan
<1>3. /\ at'[s].round = at[s].round /\ \A t \in Stages \ {s} : at'[t] = at[t]
      /\ \A t \in Stages, j \in Instrs, x \in 1 .. Rounds :
           Past(t, j, x)' <=> Past(t, j, x) \/ (t = s /\ j = i /\ x = r)
  BY <1>1, ThroughPast
<1>4. \A j \in Instrs : \A q \in readers[j] :
        q \in Stages /\ owner[j] \in Stages /\ owner[j] # q
  BY SenderIsEarlier DEF TypeOK
<1>5. \A j \in Instrs : \A q \in readers[j] : \A x \in 1 .. Rounds :
        /\ Past(owner[j], j, x)' <=> Past(owner[j], j, x)
        /\ Past(q, j, x)' <=> Past(q, j, x) \/ (j = i /\ q = s /\ x = r)
  <2> SUFFICES ASSUME NEW j \in Instrs, NEW q \in readers[j], NEW x \in 1 .. Rounds
               PROVE  /\ Past(owner[j], j, x)' <=> Past(owner[j], j, x)
                      /\ Past(q, j, x)' <=> Past(q, j, x) \/ (j = i /\ q = s /\ x = r)
    OBVIOUS
  <2>1. Past(q, j, x)' <=> Past(q, j, x) \/ (j = i /\ q = s /\ x = r)
    BY <1>3, <1>4
  <2>2. Past(owner[j], j, x)' <=> Past(owner[j], j, x)
    <3>1. j = i => owner[j] # s
      BY <1>1
    <3> QED
      BY <1>2, <1>3, <1>4, <3>1 DEF Past
  <2> QED
    BY <2>1, <2>2
<1>6. WorkInOrder'
  BY <1>1, <1>2, ThroughInOrder
<1>7. ReaderBehind'
  BY <1>1, <1>2, <1>5 DEF ReaderBehind, Travels
<1>8. HoldsTheDifference'
  <2> SUFFICES ASSUME NEW j \in Instrs, NEW q \in readers[j]
               PROVE  Lists(Holds(j, q)', InFlight(j, q)')
    BY <1>2 DEF HoldsTheDifference
  <2>1. q \in Stages /\ Lists(Holds(j, q), InFlight(j, q))
    BY <1>4 DEF HoldsTheDifference
  <2>2. CASE j = i /\ q = s
    <3>1. InFlight(j, q)' = InFlight(j, q) \ {r}
      BY <1>2, <1>5, <2>2 DEF InFlight
    <3>2. Holds(j, q) \in Seq(Values)
      BY <2>1, HoldsType
    <3>3. Values \in SUBSET Nat
      BY RoundsType DEF Values
    <3>4. Lists(Tail(Holds(j, q)), InFlight(j, q) \ {Head(Holds(j, q))})
      BY <1>1, <2>1, <2>2, <3>2, <3>3, ListsHead
    <3> QED
      BY <1>1, <2>2, <3>1, <3>4
  <2>3. CASE ~ (j = i /\ q = s)
    <3>1. InFlight(j, q)' = InFlight(j, q)
      BY <1>2, <1>5, <2>3 DEF InFlight
    <3> QED
      BY <1>1, <2>1, <2>3, <3>1
  <2> QED
    BY <2>2, <2>3
<1>9. PortsInUse'
  <2>1. s \in readers[i]
    BY <1>1 DEF Travels
  <2>2. \A j \in Instrs : readers[j] = {} => src'[j] = src[j]
    BY <1>1, <2>1 DEF ReceiveForked, ReceiveDirect, TypeOK
  <2>3. \A j \in Instrs, t \in Stages : ~ Forked(j) \/ t \notin readers[j] => dst'[j][t] = dst[j][t]
    <3>1. CASE ReceiveForked(s)
      <4>1. Forked(i) /\ dst' = [dst EXCEPT ![i][s] = Tail(@)]
        BY <1>1, <3>1 DEF ReceiveForked
      <4> QED
        BY <2>1, <4>1 DEF TypeOK
    <3>2. CASE ReceiveDirect(s)
      BY <3>2 DEF ReceiveDirect
    <3> QED
      BY <3>1, <3>2
  <2> QED
    BY <1>2, <2>2, <2>3 DEF PortsInUse, Forked
<1>10. WithinCall'
  BY <1>2, <1>3, CoreWithinCall
<1> QED
  BY <1>6, <1>7, <1>8, <1>9, <1>10

LEMMA BranchInv ==
  ASSUME IInv, TypeOK', NEW s \in Stages, Branch(s)
  PROVE  IInv'
<1> USE DEF IInv
<1>1. /\ UNCHANGED <<owner, readers, call, forking, started, polled, src, fork, dst>>
      /\ Running(s) /\ at' = [at EXCEPT ![s] = EnterRound(s, at[s].round + 1)]
  BY DEF Branch, plan
<1>2. /\ at'[s] = EnterRound(s, at[s].round + 1)
      /\ \A t \in Stages \ {s} : at'[t] = at[t]
  BY <1>1 DEF TypeOK
<1>3. WorkInOrder'
  <2>1. \A t, r : Ops(t, r)' = Ops(t, r)
    BY <1>1 DEF Ops, Sends, Receives
  <2>2. ASSUME NEW t \in Stages PROVE at'[t].todo \subseteq Ops(t, at'[t].round)
    BY <1>2 DEF EnterRound, WorkInOrder
  <2> QED
    BY <2>1, <2>2 DEF WorkInOrder
<1>4. \A j \in Instrs : \A q \in readers[j] : \A x \in 1 .. Rounds :
        Travels(j, q, x) => /\ Past(owner[j], j, x)' <=> Past(owner[j], j, x)
                            /\ Past(q, j, x)' <=> Past(q, j, x)
  <2> SUFFICES ASSUME NEW j \in Instrs, NEW q \in readers[j], NEW x \in 1 .. Rounds,
                      Travels(j, q, x)
               PROVE  /\ Past(owner[j], j, x)' <=> Past(owner[j], j, x)
                      /\ Past(q, j, x)' <=> Past(q, j, x)
    OBVIOUS
  <2>1. q \in Stages
    BY SenderIsEarlier DEF TypeOK
  <2>2. PICK o \in Stages : o = owner[j]
    BY SenderIsEarlier DEF TypeOK
  <2>3. Past(o, j, x)' <=> Past(o, j, x)
    BY <2>1, <2>2, QuietPast
  <2>4. Past(q, j, x)' <=> Past(q, j, x)
    BY <2>1, QuietPast
  <2>5. owner'[j] = o
    BY <1>1, <2>2
  <2> QED
    BY <2>2, <2>3, <2>4, <2>5 DEF Past
<1>5. ReaderBehind'
  BY <1>1, <1>4 DEF ReaderBehind, Travels
<1>6. HoldsTheDifference'
  <2> SUFFICES ASSUME NEW j \in Instrs, NEW q \in readers[j]
               PROVE  Lists(Holds(j, q)', InFlight(j, q)')
    BY <1>1 DEF HoldsTheDifference
  <2>1. Holds(j, q)' = Holds(j, q)
    BY <1>1 DEF Holds, Forked
  <2>2. InFlight(j, q)' = InFlight(j, q)
    BY <1>1, <1>4 DEF InFlight, Travels
  <2> QED
    BY <2>1, <2>2 DEF HoldsTheDifference
<1>7. PortsInUse'
  BY <1>1 DEF PortsInUse, Forked
<1>8. WithinCall'
  BY <1>1, <1>2, CoreWithinCall
<1> QED
  BY <1>3, <1>5, <1>6, <1>7, <1>8

(* What WithinCall says is kept by a step that moves no core and no call. *)
LEMMA WithinCallKept ==
  ASSUME WithinCall, UNCHANGED <<owner, readers, call, forking, started, polled, at>>
  PROVE  WithinCall'
<1>1. \A t, r : EnterRound(t, r)' = EnterRound(t, r)
  BY DEF EnterRound, Ops, Sends, Receives
<1>2. CallStart' = CallStart /\ \A s \in Stages : Done(s)' <=> Done(s)
  BY DEF CallStart, Done
<1> QED
  BY <1>1, <1>2 DEF WithinCall

LEMMA ForkInv ==
  ASSUME IInv, TypeOK', NEW i \in Instrs, ForkRead(i) \/ ForkWrite(i)
  PROVE  IInv'
<1> USE DEF IInv
<1>1. UNCHANGED <<owner, readers, call, forking, started, polled, at>>
  BY DEF ForkRead, ForkWrite, plan
<1>2. WorkInOrder'
  BY <1>1 DEF WorkInOrder, Ops, Sends, Receives
<1>3. ReaderBehind'
  BY <1>1 DEF ReaderBehind, Travels, Past
<1>4. HoldsTheDifference'
  <2> SUFFICES ASSUME NEW j \in Instrs, NEW q \in readers[j]
               PROVE  Lists(Holds(j, q)', InFlight(j, q)')
    BY <1>1 DEF HoldsTheDifference
  <2>1. Holds(j, q)' = Holds(j, q)
    BY ForkIs
  <2>2. InFlight(j, q)' = InFlight(j, q)
    BY <1>1 DEF InFlight, Past
  <2> QED
    BY <2>1, <2>2 DEF HoldsTheDifference
<1>5. PortsInUse'
  <2>1. CASE ForkRead(i)
    <3>1. /\ Forked(i) /\ fork[i].left = {} /\ src[i] # <<>> /\ src'[i] = Tail(src[i])
          /\ fork'[i].val = Head(src[i]) /\ fork'[i].left = readers[i]
          /\ \A j \in Instrs \ {i} : src'[j] = src[j] /\ fork'[j] = fork[j]
          /\ dst' = dst
      BY <2>1, ForkReadIs
    <3>2. readers[i] # {}
      BY <3>1 DEF PortsInUse
    <3>3. Head(src[i]) \in 1 .. Rounds
      BY <3>1, QueuesTyped DEF Values
    <3> QED
      BY <1>1, <3>1, <3>2, <3>3 DEF PortsInUse, Forked
  <2>2. CASE ForkWrite(i)
    <3>1. PICK p \in fork[i].left : p = NextPort(i)
      BY <2>2, ForkWriteIs
    <3>2. /\ src' = src /\ fork'[i].val = fork[i].val /\ fork'[i].left = fork[i].left \ {p}
          /\ \A j \in Instrs \ {i} : fork'[j] = fork[j]
          /\ \A j \in Instrs, q \in Stages : ~ (j = i /\ q = p) => dst'[j][q] = dst[j][q]
      BY <2>2, <3>1, ForkWriteIs
    <3>3. Forked(i) /\ p \in readers[i]
      BY <3>1 DEF PortsInUse
    <3>4. \A j \in Instrs : Forked(j)' <=> Forked(j)
      BY <1>1 DEF Forked
    <3>5. \A j \in Instrs : /\ fork'[j].left \subseteq readers[j]
                           /\ fork'[j].left # {} => Forked(j) /\ fork'[j].val \in 1 .. Rounds
      BY <3>1, <3>2 DEF PortsInUse
    <3>6. \A j \in Instrs, q \in Stages :
            ~ Forked(j) \/ q \notin readers[j] => dst'[j][q] = <<>>
      BY <3>2, <3>3 DEF PortsInUse
    <3> QED
      BY <1>1, <3>2, <3>4, <3>5, <3>6 DEF PortsInUse
  <2> QED
    BY <2>1, <2>2
<1>6. WithinCall'
  BY <1>1, WithinCallKept
<1> QED
  BY <1>2, <1>3, <1>4, <1>5, <1>6

(* The processor changes nothing of the data path. *)
LEMMA DataPathKept ==
  ASSUME IInv, UNCHANGED <<owner, readers, at, src, fork, dst>>
  PROVE  (WorkInOrder /\ ReaderBehind /\ HoldsTheDifference /\ PortsInUse)'
<1> USE DEF IInv
<1>1. WorkInOrder'
  BY DEF WorkInOrder, Ops, Sends, Receives
<1>2. ReaderBehind'
  BY DEF ReaderBehind, Travels, Past
<1>3. HoldsTheDifference'
  <2>1. \A i \in Instrs, q \in Stages : Holds(i, q)' = Holds(i, q) /\ InFlight(i, q)' = InFlight(i, q)
    BY DEF Holds, InFlight, Past, Forked
  <2>2. \A i \in Instrs : \A q \in readers[i] : q \in Stages
    BY SenderIsEarlier DEF TypeOK
  <2> QED
    BY <2>1, <2>2 DEF HoldsTheDifference
<1>4. PortsInUse'
  BY DEF PortsInUse, Forked
<1> QED
  BY <1>1, <1>2, <1>3, <1>4

LEMMA ProcessorInv ==
  ASSUME IInv, TypeOK', Processor
  PROVE  IInv'
<1> USE DEF IInv
<1> SUFFICES WithinCall'
  <2>1. UNCHANGED <<owner, readers, at, src, fork, dst>>
    BY DEF Processor, StartForks, StartCore, Poll, Return, plan
  <2> QED
    BY <2>1, DataPathKept
<1>1. UNCHANGED <<owner, readers, at, src, fork, dst>>
  BY DEF Processor, StartForks, StartCore, Poll, Return, plan
<1>2. \A t, r : EnterRound(t, r)' = EnterRound(t, r)
  BY <1>1 DEF EnterRound, Ops, Sends, Receives
<1>3. /\ \A s \in Stages : s \in 1 .. NumStages /\ s \in Nat /\ at[s].round \in Nat
      /\ NumStages \in Nat \ {0} /\ started \in 0 .. NumStages /\ polled \in 0 .. started
      /\ call \in 1 .. Len(CallEnds) + 1
  BY StagesAssumption, RoundsType DEF TypeOK, Stages
<1>4. CASE StartForks
  <2>1. forking' /\ UNCHANGED <<call, started, polled>>
    BY <1>4 DEF StartForks
  <2>2. CallStart' = CallStart /\ \A s \in Stages : Done(s)' <=> Done(s)
    BY <1>1, <2>1 DEF CallStart, Done
  <2> QED
    BY <1>1, <1>2, <2>1, <2>2 DEF WithinCall
<1>5. CASE StartCore
  <2>1. /\ forking /\ call <= Len(CallEnds) /\ started' = started + 1
        /\ UNCHANGED <<call, forking, polled>>
    BY <1>5 DEF StartCore
  <2>2. \A s \in Stages : s > started' => s > started
    BY <1>3, <2>1
  <2>3. CallStart' = CallStart /\ \A s \in Stages : Done(s)' <=> Done(s)
    BY <1>1, <2>1 DEF CallStart, Done
  <2> QED
    BY <1>1, <1>2, <2>1, <2>2, <2>3 DEF WithinCall
<1>6. CASE Poll
  <2>1. polled' = polled + 1 /\ Done(polled + 1) /\ UNCHANGED <<call, forking, started>>
    BY <1>6 DEF Poll
  <2>2. \A s \in Stages : s <= polled' => s <= polled \/ s = polled + 1
    BY <1>3, <2>1
  <2>3. CallStart' = CallStart /\ \A s \in Stages : Done(s)' <=> Done(s)
    BY <1>1, <2>1 DEF CallStart, Done
  <2> QED
    BY <1>1, <1>2, <2>1, <2>2, <2>3 DEF WithinCall
<1>7. CASE Return
  <2>1. /\ polled = NumStages /\ call' = call + 1 /\ started' = 0 /\ polled' = 0
        /\ forking' = forking
    BY <1>7 DEF Return
  <2>2. started > 0 /\ call \in 1 .. Len(CallEnds) /\ \A s \in Stages : Done(s)
    BY <1>3, <2>1, CallEndsType DEF WithinCall
  <2>3. CallStart' = CallEnds[call] + 1
    BY <2>1, <2>2 DEF CallStart
  <2>4. \A s \in Stages : at[s] = EnterRound(s, CallEnds[call] + 1)
    BY <2>2 DEF WithinCall
  <2>5. ASSUME NEW s \in Stages, call + 1 <= Len(CallEnds) PROVE ~ Done(s)'
    <3>1. at[s].round = CallEnds[call] + 1
      <4>1. at[s] = EnterRound(s, CallEnds[call] + 1)
        BY <2>4
      <4> QED
        BY ONLY <4>1 DEF EnterRound
    <3>2. /\ CallEnds[call] \in Nat /\ CallEnds[call + 1] \in Nat
          /\ CallEnds[call] < CallEnds[call + 1]
      <4>1. call + 1 \in 1 .. Len(CallEnds) /\ call < call + 1
        BY <2>2, <2>5, CallEndsType
      <4> QED
        BY <2>2, <4>1, CallEndsType, RoundsType
    <3> QED
      BY <1>1, <2>1, <3>1, <3>2 DEF Done
  <2> QED
    BY <1>1, <1>2, <1>3, <2>1, <2>3, <2>4, <2>5 DEF WithinCall
<1> QED
  BY <1>4, <1>5, <1>6, <1>7 DEF Processor

LEMMA NextInv == IInv /\ [Next]_vars => IInv'
<1> SUFFICES ASSUME IInv, [Next]_vars PROVE IInv'
  OBVIOUS
<1>1. TypeOK'
  BY NextType DEF IInv
<1>2. ASSUME NEW s \in Stages, Core(s) PROVE IInv'
  BY <1>1, <1>2, SendInv, ReceiveInv, BranchInv DEF Core
<1>3. ASSUME NEW i \in Instrs, Fork(i) PROVE IInv'
  BY <1>1, <1>3, ForkInv DEF Fork
<1>4. CASE Processor
  BY <1>1, <1>4, ProcessorInv
<1>5. CASE UNCHANGED vars
  <2>1. /\ UNCHANGED <<owner, readers, at, src, fork, dst>>
        /\ UNCHANGED <<call, forking, started, polled>>
    BY <1>5 DEF vars
  <2>2. WithinCall'
    BY <2>1, WithinCallKept DEF IInv
  <2> QED
    BY <1>1, <2>1, <2>2, DataPathKept DEF IInv
<1> QED
  BY <1>2, <1>3, <1>4, <1>5 DEF Next

(* The invariant holds in every state of the hardware, across calls. *)
THEOREM Invariance == Spec => []IInv
  BY InitInv, NextInv, PTL DEF Spec

(* Every variable has its type, and no FIFO holds more than its depth: a core and *)
(* a fork write only when there is room.                                         *)
THEOREM TypeCorrect == Spec => []TypeOK
<1>1. IInv => TypeOK
  BY DEF IInv
<1> QED
  BY <1>1, Invariance, PTL

(* Source FIFO, fork and destination FIFO together hold for a reader exactly the *)
(* rounds its sender is past and it is not, in order.                            *)
THEOREM HardwareHoldsTheDifference == Spec => []HoldsTheDifference
<1>1. IInv => HoldsTheDifference
  BY DEF IInv
<1> QED
  BY <1>1, Invariance, PTL

(* A core that reads its port reads the value of the round it is in. *)
THEOREM CoresReadTheRightRound == Spec => RightRound
<1>1. ASSUME IInv PROVE
        \A s \in Stages :
          LET i == First(at[s].todo)
          IN  (ReceiveForked(s) \/ ReceiveDirect(s))
                => at[s].round = Head(IF Forked(i) THEN dst[i][s] ELSE src[i])
  BY <1>1, ReceiveIs DEF IInv
<1> QED
  BY <1>1, Invariance, PTL DEF RightRound

(* A core in its call's first round is past the values of the rounds before only. *)
LEMMA EnteredPast ==
  ASSUME TypeOK, NEW s \in Stages, NEW f \in Nat, at[s] = EnterRound(s, f),
         NEW i \in Instrs, NEW q \in Stages, NEW r \in 1 .. Rounds, Travels(i, q, r),
         s = owner[i] \/ s = q
  PROVE  Past(s, i, r) <=> f > r
<1>1. at[s].round = f /\ at[s].todo = Ops(s, f)
  BY DEF EnterRound
<1>2. r = f => i \in Ops(s, f)
  <2>1. PlanOK /\ (readers[i] # {}) /\ r <= Rounds
    BY RoundsType DEF TypeOK, Travels
  <2> QED
    BY <2>1, OpsMembers DEF Travels
<1> QED
  BY <1>1, <1>2, RoundsType DEF Past

(* Between calls every FIFO is empty and every fork idle. *)
THEOREM CallsReturnClean == Spec => []ReturnsClean
<1>1. IInv => ReturnsClean
  <2> SUFFICES ASSUME IInv, started = 0, NEW i \in Instrs
               PROVE  /\ src[i] = <<>> /\ fork[i].left = {}
                      /\ \A s \in Stages : dst[i][s] = <<>>
    BY DEF ReturnsClean
  <2> USE DEF IInv
  <2>1. CallStart \in Nat /\ \A s \in Stages : at[s] = EnterRound(s, CallStart)
    <3>1. CallStart \in Nat
      <4>1. CASE call = 1
        BY <4>1 DEF CallStart
      <4>2. CASE call # 1
        <5>1. call - 1 \in 1 .. Len(CallEnds)
          BY <4>2, CallEndsType DEF TypeOK
        <5>2. CallEnds[call - 1] \in Nat
          BY <5>1, CallEndsType, RoundsType
        <5> QED
          BY <4>2, <5>2 DEF CallStart
      <4> QED
        BY <4>1, <4>2
    <3>2. \A s \in Stages : s > started
      BY StagesAssumption DEF Stages
    <3> QED
      BY <3>1, <3>2 DEF WithinCall
  <2>2. ASSUME NEW q \in readers[i] PROVE Holds(i, q) = <<>>
    <3>1. q \in Stages /\ owner[i] \in Stages
      BY SenderIsEarlier DEF TypeOK
    <3>2. PICK o \in Stages, f \in Nat : o = owner[i] /\ f = CallStart
      BY <2>1, <3>1
    <3>3. InFlight(i, q) = {}
      <4> SUFFICES ASSUME NEW r \in 1 .. Rounds, BlockOf[i] = Trace[r]
                   PROVE  Past(o, i, r) <=> Past(q, i, r)
        BY <3>2 DEF InFlight
      <4>1. Travels(i, q, r)
        BY DEF Travels
      <4>2. (Past(o, i, r) <=> f > r) /\ (Past(q, i, r) <=> f > r)
        BY <2>1, <3>1, <3>2, <4>1, EnteredPast
      <4> QED
        BY <4>2
    <3>4. Holds(i, q) \in Seq(Values) /\ Lists(Holds(i, q), {})
      BY <3>1, <3>3, HoldsType DEF HoldsTheDifference
    <3> QED
      BY <3>4, ListsNothing
  <2>3. ASSUME NEW q \in readers[i], Forked(i)
        PROVE  dst[i][q] = <<>> /\ q \notin fork[i].left /\ src[i] = <<>>
    <3>1. q \in Stages
      BY SenderIsEarlier DEF TypeOK
    <3>2. /\ dst[i][q] \in Seq(Values) /\ Mid(i, q) \in Seq(Values) /\ src[i] \in Seq(Values)
          /\ dst[i][q] \o Mid(i, q) \o src[i] = <<>>
      BY <2>2, <2>3, <3>1, HoldsType
    <3>3. dst[i][q] = <<>> /\ Mid(i, q) = <<>> /\ src[i] = <<>>
      BY <3>2, PartsType
    <3> QED
      BY <3>3 DEF Mid
  <2>4. CASE Forked(i)
    <3>1. fork[i].left \subseteq readers[i]
      BY DEF PortsInUse
    <3>2. \A s \in Stages : s \notin readers[i] => dst[i][s] = <<>>
      BY DEF PortsInUse
    <3>3. readers[i] = {} => src[i] = <<>>
      BY DEF PortsInUse
    <3> QED
      BY <2>3, <2>4, <3>1, <3>2, <3>3
  <2>5. CASE ~ Forked(i)
    <3>1. src[i] = <<>>
      BY <2>2, <2>5 DEF PortsInUse, Holds
    <3> QED
      BY <2>5, <3>1 DEF PortsInUse
  <2> QED
    BY <2>4, <2>5
<1> QED
  BY <1>1, Invariance, PTL

-----------------------------------------------------------------------------
(* Deadlock freedom: of the unfinished cores in the earliest round, take one  *)
(* whose next operation is the earliest.  A core that waits in a send, or for *)
(* a value that was sent already, waits for a destination FIFO (or, with one  *)
(* reader, a source FIFO) whose reader is in an earlier round.  A core that   *)
(* waits for a value that was not sent has its sender in the same round,      *)
(* about to send that very value.                                             *)

LEMMA ConcatIndex ==
  ASSUME NEW T, NEW a \in Seq(T), NEW b \in Seq(T)
  PROVE  /\ \A n \in 1 .. Len(a) : n \in DOMAIN (a \o b) /\ (a \o b)[n] = a[n]
         /\ \A n \in 1 .. Len(b) : /\ Len(a) + n \in DOMAIN (a \o b)
                                   /\ (a \o b)[Len(a) + n] = b[n]
         /\ \A n \in DOMAIN (a \o b) : n \in 1 .. Len(a) \/ n - Len(a) \in 1 .. Len(b)
<1> DEFINE c == a \o b
<1>1. /\ DOMAIN c = 1 .. Len(a) + Len(b) /\ Len(a) \in Nat /\ Len(b) \in Nat
      /\ \A n \in 1 .. Len(a) + Len(b) : c[n] = IF n <= Len(a) THEN a[n] ELSE b[n - Len(a)]
  BY ConcatProperties, LenProperties
<1> HIDE DEF c
<1>2. \A n \in 1 .. Len(a) : n \in DOMAIN c /\ c[n] = a[n]
  BY <1>1
<1>3. \A n \in 1 .. Len(b) : Len(a) + n \in DOMAIN c /\ c[Len(a) + n] = b[n]
  BY <1>1
<1>4. \A n \in DOMAIN c : n \in 1 .. Len(a) \/ n - Len(a) \in 1 .. Len(b)
  BY <1>1
<1> QED
  BY <1>2, <1>3, <1>4 DEF c

(* What is behind a nonempty destination FIFO is later than its head. *)
LEMMA PartsAfterHead ==
  ASSUME NEW T \in SUBSET Nat, NEW d \in Seq(T), NEW m \in Seq(T), NEW s \in Seq(T),
         d # <<>>, NEW S, Lists(d \o m \o s, S), NEW x,
         (\E n \in 1 .. Len(m) : m[n] = x) \/ (\E n \in 1 .. Len(s) : s[n] = x)
  PROVE  Head(d \o m \o s) < x
<1> DEFINE a == d \o m
           c == a \o s
<1>1. a \in Seq(T) /\ c \in Seq(T) /\ c # <<>> /\ Len(a) = Len(d) + Len(m)
  BY PartsType, PartsHead, ConcatProperties
<1>2. Len(d) \in Nat \ {0} /\ Len(m) \in Nat /\ Len(s) \in Nat
  BY LenProperties, EmptySeq
<1>3. \A k \in 1 .. Len(m) : a[Len(d) + k] = m[k]
  BY ConcatIndex
<1> HIDE DEF a
<1>4. /\ \A n \in 1 .. Len(a) : n \in DOMAIN c /\ c[n] = a[n]
      /\ \A n \in 1 .. Len(s) : Len(a) + n \in DOMAIN c /\ c[Len(a) + n] = s[n]
  <2>1. a \in Seq(T)
    BY <1>1
  <2> QED
    BY <2>1, ConcatIndex
<1>5. Head(c) = c[1] /\ 1 \in DOMAIN c
  BY <1>1, <1>2, <1>4
<1>6. Lists(c, S)
  BY DEF a
<1> HIDE DEF c
<1>7. \E k \in DOMAIN c : 1 < k /\ c[k] = x
  <2>1. CASE \E n \in 1 .. Len(m) : m[n] = x
    <3>1. PICK n \in 1 .. Len(m) : m[n] = x
      BY <2>1
    <3>2. Len(d) + n \in 1 .. Len(a) /\ 1 < Len(d) + n
      BY <1>1, <1>2
    <3> QED
      BY <1>3, <1>4, <3>1, <3>2
  <2>2. CASE \E n \in 1 .. Len(s) : s[n] = x
    <3>1. PICK n \in 1 .. Len(s) : s[n] = x
      BY <2>2
    <3>2. 1 < Len(a) + n
      BY <1>1, <1>2
    <3> QED
      BY <1>4, <3>1, <3>2
  <2> QED
    BY <2>1, <2>2
<1>8. Head(c) < x
  BY <1>5, <1>6, <1>7 DEF Lists
<1> QED
  BY <1>8 DEF c, a

(* With an empty destination FIFO, what is held is in the fork or in the source. *)
LEMMA PartsMembers ==
  ASSUME NEW T, NEW m \in Seq(T), NEW s \in Seq(T), NEW S, Lists(<<>> \o m \o s, S), NEW x \in S
  PROVE  (\E n \in 1 .. Len(m) : m[n] = x) \/ (\E n \in 1 .. Len(s) : s[n] = x)
<1>1. <<>> \o m = m
  BY ConcatEmptySeq
<1>2. PICK n \in DOMAIN (m \o s) : (m \o s)[n] = x
  BY <1>1 DEF Lists
<1>3. Len(m) \in Nat /\ n \in Nat
  BY <1>2, LenProperties, ConcatProperties
<1>4. CASE n \in 1 .. Len(m)
  BY <1>2, <1>4, ConcatIndex
<1>5. CASE n - Len(m) \in 1 .. Len(s)
  <2>1. (m \o s)[Len(m) + (n - Len(m))] = s[n - Len(m)] /\ Len(m) + (n - Len(m)) = n
    BY <1>3, <1>5, ConcatIndex
  <2> QED
    BY <1>2, <1>5, <2>1
<1> QED
  BY <1>4, <1>5, ConcatIndex

(* A value held for a reader whose sender is about to send the next one is of an *)
(* earlier round, and so is the reader.                                         *)
LEMMA HeldForEarlier ==
  ASSUME IInv, NEW i \in Instrs, NEW q \in readers[i], NEW s \in Stages, s = owner[i],
         i \in at[s].todo, Holds(i, q) # <<>>
  PROVE  at[q].round < at[s].round
<1> USE DEF IInv
<1>1. q \in Stages
  BY SenderIsEarlier DEF TypeOK
<1>2. PICK seq \in Seq(Values) : seq = Holds(i, q) /\ Lists(seq, InFlight(i, q)) /\ seq # <<>>
  BY <1>1, HoldsType DEF HoldsTheDifference
<1>3. Values \in SUBSET Nat
  BY RoundsType DEF Values
<1>4. Head(seq) \in InFlight(i, q)
  BY <1>2, <1>3, ListsHead
<1>5. PICK h \in 1 .. Rounds : Past(s, i, h) /\ ~ Past(q, i, h)
  BY <1>4 DEF InFlight
<1>6. at[s].round \in Nat /\ at[q].round \in Nat
  BY <1>1, RoundsType DEF TypeOK
<1> QED
  BY <1>5, <1>6, RoundsType DEF Past

(* A fork that waits with a value to hand over has a full port before it. *)
LEMMA ForkWaitsAtPort ==
  ASSUME IInv, NEW i \in Instrs, Forked(i), ForkWaits(i), src[i] # <<>> \/ fork[i].left # {}
  PROVE  \E p \in readers[i] : /\ p \in Stages /\ p \in fork[i].left /\ dst[i][p] # <<>>
                               /\ Holds(i, p) # <<>>
<1> USE DEF IInv
<1>1. fork[i].left # {}
  BY DEF ForkWaits
<1>2. PICK p \in fork[i].left : p = NextPort(i)
  BY <1>1, NextPortIs
<1>3. p \in readers[i] /\ p \in Stages
  BY SenderIsEarlier DEF PortsInUse, TypeOK
<1>4. Len(dst[i][p]) = DST_DEPTH
  BY <1>1, <1>2 DEF ForkWaits
<1>5. dst[i][p] # <<>>
  BY <1>4, DepthAssumption
<1>6. Holds(i, p) # <<>>
  BY <1>3, <1>5, HoldsType, PartsHead
<1> QED
  BY <1>3, <1>5, <1>6

(* A core that waits in a send waits for a reader in an earlier round. *)
LEMMA SendWaitsForEarlier ==
  ASSUME IInv, NEW s \in Stages, CoreWaits(s), owner[First(at[s].todo)] = s,
         \A j \in Instrs : Forked(j) => ForkWaits(j)
  PROVE  \E q \in Stages : at[q].round < at[s].round
<1> USE DEF IInv
<1>1. PICK i \in Instrs : i = First(at[s].todo) /\ i \in at[s].todo /\ readers[i] # {}
  BY NextIs DEF CoreWaits
<1>2. Len(src[i]) = SRC_DEPTH /\ owner[i] = s
  <2>1. Len(src[First(at[s].todo)]) = SRC_DEPTH
    BY DEF CoreWaits
  <2> QED
    BY <1>1, <2>1, Zenon
<1>3. src[i] # <<>>
  BY <1>2, DepthAssumption
<1>4. PICK q \in readers[i] : q \in Stages /\ Holds(i, q) # <<>>
  <2>1. CASE Forked(i)
    BY <1>3, <2>1, ForkWaitsAtPort
  <2>2. CASE ~ Forked(i)
    <3>1. PICK q \in readers[i] : q \in Stages
      BY <1>1, SenderIsEarlier DEF TypeOK
    <3> QED
      BY <1>3, <2>2, <3>1 DEF Holds
  <2> QED
    BY <2>1, <2>2
<1> QED
  BY <1>1, <1>2, <1>4, HeldForEarlier

(* A core that waits for a value that was sent waits, because the fork does, for *)
(* another reader in an earlier round.                                          *)
LEMMA SentWaitsForEarlier ==
  ASSUME IInv, NEW s \in Stages, CoreWaits(s), owner[First(at[s].todo)] # s,
         Past(owner[First(at[s].todo)], First(at[s].todo), at[s].round),
         \A j \in Instrs : Forked(j) => ForkWaits(j)
  PROVE  \E q \in Stages : at[q].round < at[s].round
<1> USE DEF IInv
<1>1. PICK i \in Instrs, r \in 1 .. Rounds :
        /\ i = First(at[s].todo) /\ i \in at[s].todo /\ r = at[s].round
        /\ BlockOf[i] = Trace[r] /\ s \in readers[i]
  BY NextIs DEF CoreWaits
<1>2. r \in InFlight(i, s)
  BY <1>1, RoundsType DEF InFlight, Past
<1>3. Lists(Holds(i, s), InFlight(i, s))
  BY <1>1 DEF HoldsTheDifference
<1>4. Holds(i, s) # <<>>
  BY <1>2, <1>3 DEF Lists
<1>5. Forked(i) /\ dst[i][s] = <<>>
  BY <1>1, <1>4 DEF CoreWaits, Holds
<1> DEFINE m == Mid(i, s)
           z == src[i]
<1>6. m \in Seq(Values) /\ z \in Seq(Values) /\ Holds(i, s) = <<>> \o m \o z
  BY <1>5, HoldsType
<1>7. m # <<>> => s \in fork[i].left /\ m = <<fork[i].val>>
  BY DEF Mid
<1> HIDE DEF m, z
<1>8. (\E n \in 1 .. Len(m) : m[n] = r) \/ (\E n \in 1 .. Len(z) : z[n] = r)
  BY <1>2, <1>3, <1>6, PartsMembers
<1>9. src[i] # <<>> \/ fork[i].left # {}
  BY <1>7, <1>8 DEF z
<1>10. PICK p \in readers[i] : p \in Stages /\ p \in fork[i].left /\ dst[i][p] # <<>>
  BY <1>5, <1>9, ForkWaitsAtPort
<1> DEFINE d == dst[i][p]
           x == <<fork[i].val>>
<1>11. /\ d \in Seq(Values) /\ x \in Seq(Values) /\ d # <<>>
       /\ Holds(i, p) = d \o x \o z /\ Lists(d \o x \o z, InFlight(i, p))
  <2>1. Mid(i, p) = x
    BY <1>10 DEF Mid
  <2>2. Lists(Holds(i, p), InFlight(i, p))
    BY <1>10 DEF HoldsTheDifference
  <2> QED
    BY <1>5, <1>10, <2>1, <2>2, HoldsType DEF z
<1>12. m # <<>> => m = x
  BY <1>7
<1> HIDE DEF d, x
<1>13. (\E n \in 1 .. Len(x) : x[n] = r) \/ (\E n \in 1 .. Len(z) : z[n] = r)
  BY <1>8, <1>12
<1>14. Values \in SUBSET Nat
  BY RoundsType DEF Values
<1>15. Head(d \o x \o z) < r
  BY <1>6, <1>11, <1>13, <1>14, PartsAfterHead
<1>16. Head(d \o x \o z) \in InFlight(i, p)
  <2>1. d \o x \o z \in Seq(Values) /\ d \o x \o z # <<>>
    BY <1>6, <1>11, PartsType, PartsHead
  <2> QED
    BY <1>11, <1>14, <2>1, ListsHead
<1>17. PICK h \in 1 .. Rounds : h < r /\ ~ Past(p, i, h)
  BY <1>15, <1>16 DEF InFlight
<1>18. at[p].round \in Nat
  BY <1>10, RoundsType DEF TypeOK
<1> QED
  BY <1>1, <1>10, <1>17, <1>18, RoundsType DEF Past

(* While a started call is unfinished some unfinished core or some fork can move. *)
THEOREM HardwareDoesNotDeadlock == Spec => []NoDeadlock
<1>1. IInv => NoDeadlock
  <2> SUFFICES ASSUME IInv, forking, started = NumStages,
                      ~ \A s \in Stages : Done(s),
                      \A s \in Stages : ~ Done(s) => CoreWaits(s),
                      \A i \in Instrs : Forked(i) => ForkWaits(i)
               PROVE  FALSE
    BY DEF NoDeadlock
  <2> USE DEF IInv
  <2>1. \A s \in Stages : at[s].round \in Nat
    BY RoundsType DEF TypeOK
  <2>2. CallEnds[call] \in Nat
    BY CallEndsType, StagesAssumption, RoundsType DEF WithinCall, TypeOK
  <2> DEFINE Late == {s \in Stages : ~ Done(s)}
  <2>3. PICK m \in {at[s].round : s \in Late} : \A n \in {at[s].round : s \in Late} : m <= n
    <3>1. {at[s].round : s \in Late} \in SUBSET Nat /\ {at[s].round : s \in Late} # {}
      BY <2>1
    <3> QED
      BY <3>1, LeastExists
  <2>4. m \in Nat /\ m <= CallEnds[call] /\ \E s \in Stages : ~ Done(s) /\ at[s].round = m
    BY <2>1, <2>2, <2>3 DEF Done
  <2>5. \A s \in Stages : m <= at[s].round
    BY <2>1, <2>2, <2>3, <2>4 DEF Done
  <2> DEFINE Latest == {s \in Stages : at[s].round = m}
  <2>6. \A s \in Latest : CoreWaits(s) /\ at[s].todo # {}
    <3>1. \A s \in Latest : ~ Done(s)
      BY <2>2, <2>4 DEF Done
    <3> QED
      BY <3>1 DEF CoreWaits
  <2>7. \A s \in Latest : /\ First(at[s].todo) \in Nat /\ First(at[s].todo) \in Instrs
                       /\ \A j \in at[s].todo : First(at[s].todo) <= j
    BY <2>6, NextIs, StagesAssumption DEF Instrs
  <2>8. PICK c \in {First(at[s].todo) : s \in Latest} :
          \A n \in {First(at[s].todo) : s \in Latest} : c <= n
    <3>1. /\ {First(at[s].todo) : s \in Latest} \in SUBSET Nat
          /\ {First(at[s].todo) : s \in Latest} # {}
      BY <2>4, <2>7
    <3> QED
      BY <3>1, LeastExists
  <2>9. PICK s \in Latest : First(at[s].todo) = c
    BY <2>8
  <2>10. \A q \in Stages, t \in Latest : ~ (at[q].round < at[t].round)
    BY <2>1, <2>4, <2>5
  <2>11. \A t \in Latest : owner[First(at[t].todo)] # t
    BY <2>6, <2>10, SendWaitsForEarlier
  <2>12. ~ Past(owner[c], c, m)
    BY <2>6, <2>9, <2>10, <2>11, SentWaitsForEarlier
  <2>13. c \in Instrs /\ s \in readers[c] /\ c \in Nat
    BY <2>6, <2>7, <2>9, <2>11, NextIs
  <2>14. PICK o \in Stages : o = owner[c]
    BY <2>13, SenderIsEarlier DEF TypeOK
  <2>15. o \in Latest /\ c \in at[o].todo
    BY <2>1, <2>4, <2>5, <2>12, <2>14 DEF Past
  <2>16. First(at[o].todo) = c
    <3>1. c <= First(at[o].todo) /\ First(at[o].todo) <= c /\ First(at[o].todo) \in Nat
      BY <2>7, <2>8, <2>15
    <3> QED
      BY <2>13, <3>1
  <2> QED
    BY <2>11, <2>14, <2>15, <2>16
<1> QED
  BY <1>1, Invariance, PTL

-----------------------------------------------------------------------------
(* Cores, forks and FIFOs implement the dataflow graph. *)

(* Both specifications are about one plan. *)
LEMMA SamePlan ==
  /\ Dataflow!Stages = Stages /\ (Dataflow!PlanOK <=> PlanOK)
  /\ \A s, r : Dataflow!EnterRound(s, r) = EnterRound(s, r)
  /\ \A todo : Dataflow!First(todo) = First(todo)
  /\ UNCHANGED <<owner, readers>> => UNCHANGED Dataflow!plan
<1>1. /\ Dataflow!Stages = Stages /\ Dataflow!Instrs = Instrs /\ Dataflow!Rounds = Rounds
      /\ UNCHANGED <<owner, readers>> => UNCHANGED Dataflow!plan
  BY DEF Dataflow!Stages, Stages, Dataflow!Instrs, Instrs, Dataflow!Rounds, Rounds,
         Dataflow!plan
<1>2. Dataflow!PlanOK <=> PlanOK
  BY <1>1 DEF Dataflow!PlanOK, PlanOK
<1>3. \A s, r : Dataflow!Ops(s, r) = Ops(s, r)
  BY <1>1 DEF Dataflow!Ops, Ops, Dataflow!Sends, Sends, Dataflow!Receives, Receives
<1>4. \A todo : Dataflow!First(todo) = First(todo)
  BY DEF Dataflow!First, First
<1> QED
  BY <1>1, <1>2, <1>3, <1>4 DEF Dataflow!EnterRound, EnterRound

LEMMA InitRefines == Init => Dataflow!Init
  BY SamePlan DEF Init, Dataflow!Init

(* The dataflow graph counts the calls that returned. *)
LEMMA SameRunning ==
  ASSUME TypeOK
  PROVE  /\ call - 1 < Len(CallEnds) <=> call <= Len(CallEnds)
         /\ \A s \in Stages : Dataflow!Running(s) <=> call <= Len(CallEnds)
                                                      /\ at[s].round <= CallEnds[call]
<1>1. call \in Nat /\ Len(CallEnds) \in Nat
  BY CallEndsType DEF TypeOK
<1>2. call - 1 < Len(CallEnds) <=> call <= Len(CallEnds)
  BY <1>1
<1>3. call - 1 + 1 = call
  BY <1>1
<1> QED
  BY <1>2, <1>3 DEF Dataflow!Running

(* A send, and a receive of a value its sender is past, is a step. *)
LEMMA OperationRefines ==
  ASSUME IInv, NEW s \in Stages, Send(s) \/ ReceiveForked(s) \/ ReceiveDirect(s)
  PROVE  Dataflow!Step(s)
<1> USE DEF IInv
<1>1. /\ Running(s) /\ at[s].todo # {} /\ UNCHANGED <<owner, readers, call>>
      /\ at' = Through(s, First(at[s].todo))
  BY DEF Send, ReceiveForked, ReceiveDirect, plan
<1>2. owner[First(at[s].todo)] # s =>
        Past(owner[First(at[s].todo)], First(at[s].todo), at[s].round)
  BY ReceiveIs DEF Send
<1>3. Dataflow!Running(s)
  BY <1>1, SameRunning DEF Running
<1> QED
  BY <1>1, <1>2, <1>3, SamePlan DEF Dataflow!Step, Dataflow!Past, Past, Through

LEMMA BranchRefines ==
  ASSUME IInv, NEW s \in Stages, Branch(s)
  PROVE  Dataflow!Branch(s)
<1> USE DEF IInv
<1>1. /\ Running(s) /\ at[s].todo = {} /\ UNCHANGED <<owner, readers, call>>
      /\ at' = [at EXCEPT ![s] = EnterRound(s, @.round + 1)]
  BY DEF Branch, plan
<1>2. Dataflow!Running(s)
  BY <1>1, SameRunning DEF Running
<1> QED
  BY <1>1, <1>2, SamePlan DEF Dataflow!Branch

(* A call returns when every core was seen done. *)
LEMMA ReturnRefines ==
  ASSUME IInv, Return
  PROVE  Dataflow!Return
<1> USE DEF IInv
<1>1. /\ polled = NumStages /\ call' = call + 1 /\ UNCHANGED <<owner, readers, at>>
  BY DEF Return, plan
<1>2. call \in 1 .. Len(CallEnds) /\ \A s \in Stages : Done(s)
  BY <1>1, CallEndsType, StagesAssumption DEF WithinCall, TypeOK, Stages
<1>3. \A s \in Stages : ~ Dataflow!Running(s)
  <2> TAKE s \in Stages
  <2>1. at[s].round \in Nat /\ CallEnds[call] \in Nat /\ at[s].round > CallEnds[call]
    BY <1>2, CallEndsType, RoundsType DEF TypeOK, Done
  <2>2. ~ (at[s].round <= CallEnds[call])
    BY <2>1
  <2> QED
    BY <2>2, SameRunning
<1>4. call - 1 < Len(CallEnds) /\ call' - 1 = call - 1 + 1
  BY <1>1, <1>2, CallEndsType
<1> QED
  BY <1>1, <1>3, <1>4, SamePlan DEF Dataflow!Return

(* Every step is a step of the dataflow graph, or changes nothing of it. *)
LEMMA NextRefines == IInv /\ [Next]_vars => [Dataflow!Next]_(Dataflow!vars)
<1> SUFFICES ASSUME IInv, [Next]_vars
             PROVE  Dataflow!Next \/ UNCHANGED Dataflow!vars
  OBVIOUS
<1>1. ASSUME NEW s \in Stages, Core(s) PROVE Dataflow!Next
  BY <1>1, OperationRefines, BranchRefines, SamePlan DEF Core, Dataflow!Next
<1>2. ASSUME NEW i \in Instrs, Fork(i) PROVE UNCHANGED Dataflow!vars
  BY <1>2 DEF Fork, ForkRead, ForkWrite, plan, Dataflow!vars
<1>3. CASE StartForks \/ StartCore \/ Poll
  BY <1>3 DEF StartForks, StartCore, Poll, plan, Dataflow!vars
<1>4. CASE Return
  BY <1>4, ReturnRefines DEF Dataflow!Next
<1>5. CASE UNCHANGED vars
  BY <1>5 DEF vars, Dataflow!vars
<1> QED
  BY <1>1, <1>2, <1>3, <1>4, <1>5 DEF Next, Processor

(* The hardware implements the dataflow graph of the function's stages. *)
THEOREM HardwareIsDataflow == Spec => ActsAsDataflow
  BY InitRefines, NextRefines, Invariance, PTL DEF Spec, ActsAsDataflow, Dataflow!Spec
=============================================================================
