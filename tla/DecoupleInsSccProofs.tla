------------------------ MODULE DecoupleInsSccProofs ------------------------
(***************************************************************************)
(* Proofs about DecoupleInsScc for every set of well-formed functions:     *)
(* whatever the order of the use lists, the components are found in a      *)
(* topological order and cut into partitions that do not depend on each    *)
(* other; and the channels of the generated functions have matching ends.  *)
(***************************************************************************)
EXTENDS DecoupleInsScc, NewFunctionsProofs

-----------------------------------------------------------------------------
(* Tarjan's search *)

(* The first a instructions left. *)
Left(f, a) == {f[b] : b \in 1 .. a}

(* Each instruction is entered and left once, the search path is a path,    *)
(* every child of an instruction left has been entered, and                 *)
Visited(p, f) ==
  /\ IsInjective(p) /\ IsInjective(f) /\ Range(p) \cap Range(f) = {}
Chained(d, p) == \A m, n \in DOMAIN p : m < n => p[n] \in Descendants(d, p[m])
NoneMissed(d, p, f) == \A x \in Range(f) : d[x] \subseteq Range(p) \cup Range(f)

(* when the last instruction of a component is left, so is all it leads to. *)
LeftBehind(d, f) ==
  \A a \in DOMAIN f :
    Scc(d, f[a]) \subseteq Left(f, a) => Descendants(d, f[a]) \subseteq Left(f, a)

Searched(I, d, p, f) == /\ p \in Seq(I) /\ f \in Seq(I)
                        /\ Visited(p, f)
                        /\ Chained(d, p)
                        /\ NoneMissed(d, p, f)
                        /\ LeftBehind(d, f)

(* An instruction is entered: the root, or a child of the last one entered. *)
LEMMA EnterKeeps ==
  ASSUME NEW I, NEW d, IsGraph(d, I), NEW p, NEW f, Searched(I, d, p, f),
         NEW i \in I, i \notin Range(p), i \notin Range(f),
         p # <<>> => i \in d[Last(p)]
  PROVE  Searched(I, d, Append(p, i), f)
<1> DEFINE q == Append(p, i)
<1>1. /\ p \in Seq(I) /\ f \in Seq(I) /\ Visited(p, f) /\ Chained(d, p)
      /\ NoneMissed(d, p, f) /\ LeftBehind(d, f)
  BY DEF Searched
<1>2. /\ q \in Seq(I) /\ Len(q) = Len(p) + 1 /\ Len(p) \in Nat
      /\ DOMAIN p = 1 .. Len(p) /\ DOMAIN q = 1 .. Len(p) + 1
      /\ \A n \in 1 .. Len(p) : q[n] = p[n]
      /\ q[Len(p) + 1] = i
  BY <1>1
<1> HIDE DEF q
<1>3. Range(q) = Range(p) \cup {i}
  BY <1>2 DEF Range
<1>4. Visited(q, f)
  <2>1. IsInjective(q)
    <3>1. \A m, n \in 1 .. Len(p) : p[m] = p[n] => m = n
      BY <1>1, <1>2 DEF Visited, IsInjective
    <3>2. \A n \in 1 .. Len(p) : p[n] # i
      BY <1>2 DEF Range
    <3> QED
      BY <1>2, <3>1, <3>2 DEF IsInjective
  <2> QED
    BY <1>1, <1>3, <2>1 DEF Visited
<1>5. Chained(d, q)
  <2> SUFFICES ASSUME NEW m \in DOMAIN q, NEW n \in DOMAIN q, m < n
               PROVE  q[n] \in Descendants(d, q[m])
    BY DEF Chained
  <2>1. m \in 1 .. Len(p) /\ q[m] = p[m] /\ p[m] \in I
    BY <1>1, <1>2
  <2>2. CASE n \in 1 .. Len(p)
    BY <1>1, <1>2, <2>1, <2>2 DEF Chained
  <2>3. CASE n = Len(p) + 1
    <3>1. Len(p) \in 1 .. Len(p) /\ p # <<>> /\ p[Len(p)] \in I
      BY <1>1, <1>2, <2>1
    <3>2. i \in d[p[Len(p)]]
      BY <3>1 DEF Last
    <3>3. CASE m = Len(p)
      <4>1. i \in Descendants(d, p[m])
        BY <2>1, <3>2, <3>3, DescendantsClosed
      <4> QED
        BY <1>2, <2>1, <2>3, <4>1
    <3>4. CASE m # Len(p)
      <4>1. p[Len(p)] \in Descendants(d, p[m])
        BY <1>1, <1>2, <2>1, <3>1, <3>4 DEF Chained
      <4>2. IsClosed(d, Descendants(d, p[m]))
        BY <2>1, DescendantsClosed
      <4>3. i \in Descendants(d, p[m])
        BY <3>2, <4>1, <4>2 DEF IsClosed
      <4> QED
        BY <1>2, <2>1, <2>3, <4>3
    <3> QED
      BY <3>3, <3>4
  <2> QED
    BY <1>2, <2>2, <2>3
<1>6. NoneMissed(d, q, f)
  BY <1>1, <1>3 DEF NoneMissed
<1> QED
  BY <1>1, <1>2, <1>4, <1>5, <1>6 DEF Searched, q

(* An instruction is left: the last one entered, when its children have been.  If *)
(* its component is complete with it, no way leads from what has been left back   *)
(* to the path, for from there it leads on to the instruction.                    *)
LEMMA LeaveKeeps ==
  ASSUME NEW I, NEW d, IsGraph(d, I), NEW p, NEW f, Searched(I, d, p, f),
         p # <<>>, d[Last(p)] \subseteq Range(p) \cup Range(f)
  PROVE  Searched(I, d, Front(p), Append(f, Last(p)))
<1> DEFINE q == Front(p)
           x == Last(p)
           g == Append(f, x)
<1>1. /\ p \in Seq(I) /\ f \in Seq(I) /\ Visited(p, f) /\ Chained(d, p)
      /\ NoneMissed(d, p, f) /\ LeftBehind(d, f)
  BY DEF Searched
<1>2. /\ Len(p) \in Nat \ {0} /\ DOMAIN p = 1 .. Len(p) /\ x = p[Len(p)] /\ x \in I
      /\ q \in Seq(I) /\ DOMAIN q = 1 .. Len(p) - 1
      /\ \A n \in 1 .. Len(p) - 1 : q[n] = p[n]
  <2>1. Len(p) \in Nat /\ Len(p) # 0 /\ DOMAIN p = 1 .. Len(p)
    BY <1>1
  <2>2. q = [n \in 1 .. Len(p) - 1 |-> p[n]]
    BY <1>1, <2>1 DEF Front
  <2>3. \A n \in 1 .. Len(p) - 1 : p[n] \in I
    BY <1>1, <2>1
  <2>4. q \in Seq(I)
    <3>1. q \in [1 .. Len(p) - 1 -> I] /\ Len(p) - 1 \in Nat
      BY <2>1, <2>2, <2>3
    <3> QED
      BY <3>1
  <2> QED
    BY <1>1, <2>1, <2>2, <2>4 DEF Last
<1>3. /\ g \in Seq(I) /\ Len(f) \in Nat
      /\ DOMAIN f = 1 .. Len(f) /\ DOMAIN g = 1 .. Len(f) + 1
      /\ \A n \in 1 .. Len(f) : g[n] = f[n]
      /\ g[Len(f) + 1] = x
  BY <1>1, <1>2
<1> HIDE DEF q, x, g
<1>4. Range(p) = Range(q) \cup {x} /\ Range(g) = Range(f) \cup {x} /\ x \notin Range(q)
  <2>1. Range(p) = Range(q) \cup {x}
    BY <1>2 DEF Range
  <2>2. Range(g) = Range(f) \cup {x}
    BY <1>3 DEF Range
  <2>3. \A n \in 1 .. Len(p) - 1 : p[n] # x
    BY <1>1, <1>2 DEF Visited, IsInjective
  <2>4. x \notin Range(q)
    BY <1>2, <2>3 DEF Range
  <2> QED
    BY <2>1, <2>2, <2>4
<1>5. Visited(q, g)
  <2>1. IsInjective(q)
    BY <1>1, <1>2 DEF Visited, IsInjective
  <2>2. x \notin Range(f)
    BY <1>1, <1>4 DEF Visited
  <2>3. IsInjective(g)
    <3>1. \A m, n \in 1 .. Len(f) : f[m] = f[n] => m = n
      BY <1>1, <1>3 DEF Visited, IsInjective
    <3>2. \A n \in 1 .. Len(f) : f[n] # x
      BY <1>3, <2>2 DEF Range
    <3> QED
      BY <1>3, <3>1, <3>2 DEF IsInjective
  <2> QED
    BY <1>1, <1>4, <2>1, <2>3 DEF Visited
<1>6. Chained(d, q)
  BY <1>1, <1>2 DEF Chained
<1>7. NoneMissed(d, q, g)
  <2>1. d[x] \subseteq Range(q) \cup Range(g)
    BY <1>4 DEF x
  <2> QED
    BY <1>1, <1>4, <2>1 DEF NoneMissed
<1>8. LeftBehind(d, g)
  <2> SUFFICES ASSUME NEW a \in DOMAIN g, Scc(d, g[a]) \subseteq Left(g, a)
               PROVE  Descendants(d, g[a]) \subseteq Left(g, a)
    BY DEF LeftBehind
  <2>1. CASE a \in DOMAIN f
    <3>1. g[a] = f[a] /\ Left(g, a) = Left(f, a)
      BY <1>3, <2>1 DEF Left
    <3> QED
      BY <1>1, <2>1, <3>1 DEF LeftBehind
  <2>2. CASE a = Len(f) + 1
    <3> DEFINE D == Descendants(d, x)
               T == {u \in Range(g) : u \in D}
    <3>1. g[a] = x /\ Left(g, a) = Range(g)
      BY <1>3, <2>2 DEF Left, Range
    <3>2. D \in SUBSET I /\ d[x] \subseteq D /\ IsClosed(d, D)
      BY <1>2, DescendantsClosed
    <3>3. ASSUME NEW w \in D, w \in Range(q) PROVE FALSE
      <4>1. PICK m \in 1 .. Len(p) - 1 : w = p[m]
        BY <1>2, <3>3 DEF Range
      <4>2. x \in Descendants(d, w)
        <5>1. m \in DOMAIN p /\ Len(p) \in DOMAIN p /\ m < Len(p)
          BY <1>2
        <5>2. p[Len(p)] \in Descendants(d, p[m])
          BY <1>1, <5>1 DEF Chained
        <5> QED
          BY <1>2, <4>1, <5>2
      <4>3. w \in Scc(d, x)
        BY <4>2 DEF Scc
      <4>4. w \in Range(g)
        BY <3>1, <4>3
      <4> QED
        BY <1>5, <3>3, <4>4 DEF Visited
    <3>4. \A u \in Range(g) : d[u] \subseteq Range(q) \cup Range(g)
      BY <1>7 DEF NoneMissed
    <3> HIDE DEF D
    <3>5. d[x] \subseteq T /\ IsClosed(d, T)
      <4>1. x \in Range(g)
        BY <1>4
      <4>2. d[x] \subseteq T
        BY <3>2, <3>3, <3>4, <4>1
      <4>3. ASSUME NEW u \in T PROVE d[u] \subseteq T
        <5>1. d[u] \subseteq D
          BY <3>2 DEF IsClosed
        <5>2. d[u] \subseteq Range(q) \cup Range(g)
          BY <3>4
        <5> QED
          BY <3>3, <5>1, <5>2
      <4> QED
        BY <4>2, <4>3 DEF IsClosed
    <3> HIDE DEF T
    <3>6. D \subseteq T
      BY <1>2, <3>5, DescendantsLeast DEF D
    <3> QED
      BY <3>1, <3>6 DEF T, D
  <2> QED
    BY <1>3, <2>1, <2>2
<1> QED
  BY <1>2, <1>3, <1>5, <1>6, <1>7, <1>8 DEF Searched, q, x, g

(* One step of Unwind. *)
Retreat(l) == IF l.path = <<>> \/ Unentered(Last(l.path), l.path, l.finished) # {} THEN l
              ELSE [path |-> Front(l.path), finished |-> Append(l.finished, Last(l.path))]

(* One step of leaving. *)
LEMMA RetreatKeeps ==
  ASSUME NEW I, IsGraph(deps, I), NEW l, Searched(I, deps, l.path, l.finished)
  PROVE  Searched(I, deps, Retreat(l).path, Retreat(l).finished)
<1> DEFINE p == l.path
           f == l.finished
<1>1. CASE p = <<>> \/ Unentered(Last(p), p, f) # {}
  BY <1>1 DEF Retreat
<1>2. CASE p # <<>> /\ Unentered(Last(p), p, f) = {}
  <2>1. deps[Last(p)] \subseteq Range(p) \cup Range(f)
    BY <1>2 DEF Unentered
  <2>2. Searched(I, deps, p, f)
    OBVIOUS
  <2> HIDE DEF p, f
  <2>3. Searched(I, deps, Front(p), Append(f, Last(p)))
    BY <1>2, <2>1, <2>2, LeaveKeeps
  <2>4. Retreat(l) = [path |-> Front(p), finished |-> Append(f, Last(p))]
    BY <1>2 DEF Retreat, p, f
  <2> QED
    BY <2>3, <2>4
<1> QED
  BY <1>1, <1>2

(* Leaving all that can be left. *)
LEMMA UnwindKeeps ==
  ASSUME NEW I, IsGraph(deps, I), NEW p, NEW f, Searched(I, deps, p, f)
  PROVE  Searched(I, deps, Unwind(p, f).path, Unwind(p, f).finished)
<1> DEFINE T == {l \in [path : Seq(I), finished : Seq(I)] : Searched(I, deps, l.path, l.finished)}
           N == Len(p)
           base == [path |-> p, finished |-> f]
           H == [n \in 1 .. N |-> [l \in T |-> Retreat(l)]]
           Def(h) == h = [n \in 0 .. N |-> IF n = 0 THEN base ELSE Retreat(h[n - 1])]
           left == CHOOSE h : Def(h)
<1>1. Unwind(p, f) = left[N]
  BY DEF Unwind, Retreat
<1>2. N \in Nat /\ base \in T
  BY DEF Searched
<1>3. \A l \in T : Retreat(l) \in T
  <2> SUFFICES ASSUME NEW l \in T PROVE Retreat(l) \in T
    OBVIOUS
  <2>1. Searched(I, deps, Retreat(l).path, Retreat(l).finished)
    BY RetreatKeeps
  <2>2. Retreat(l) \in [path : Seq(I), finished : Seq(I)]
    <3>1. CASE Retreat(l) = l
      BY <3>1
    <3>2. CASE Retreat(l) = [path |-> Front(l.path), finished |-> Append(l.finished, Last(l.path))]
      <4>1. Retreat(l).path \in Seq(I) /\ Retreat(l).finished \in Seq(I)
        BY <2>1 DEF Searched
      <4> QED
        BY <3>2, <4>1
    <3> QED
      BY <3>1, <3>2 DEF Retreat
  <2> QED
    BY <2>1, <2>2
<1>4. H \in [1 .. N -> [T -> T]]
  BY <1>3
<1> HIDE DEF T, N, base, H
<1>5. PICK h : IsIteration(h, N, base, H)
  BY <1>2, <1>4, IterationExists
<1>6. h \in [0 .. N -> T] /\ h[0] = base /\ \A n \in 1 .. N : h[n] = H[n][h[n - 1]]
  BY <1>2, <1>4, <1>5, IterationIs
<1>7. Def(h)
  <2>1. \A n \in 1 .. N : n - 1 \in 0 .. N
    BY <1>2
  <2>2. \A n \in 1 .. N : h[n] = Retreat(h[n - 1])
    BY <1>6, <2>1 DEF H
  <2>3. h = [n \in 0 .. N |-> h[n]]
    BY <1>6
  <2>4. [n \in 0 .. N |-> h[n]] = [n \in 0 .. N |-> IF n = 0 THEN base ELSE Retreat(h[n - 1])]
    BY <1>2, <1>6, <2>2
  <2> QED
    BY <2>3, <2>4
<1>8. Def(left)
  BY <1>7
<1> HIDE DEF left
<1> DEFINE P == {n \in 0 .. N : left[n] \in T}
<1>9. 0 \in P
  BY <1>2, <1>8
<1>10. ASSUME NEW n \in 1 .. N, n - 1 \in P PROVE n \in P
  <2>1. left[n] = Retreat(left[n - 1])
    BY <1>2, <1>8
  <2> QED
    BY <1>3, <1>10, <2>1
<1>11. N \in P
  <2> HIDE DEF P
  <2>1. \A n \in 0 .. N : n \in P
    BY <1>2, <1>9, <1>10, UpTo
  <2> QED
    BY <1>2, <2>1
<1> QED
  BY <1>1, <1>11 DEF T

-----------------------------------------------------------------------------
(* The components in order *)

(* What the first k instructions of order make of the list: their components,   *)
(* once each, an earlier one being met before any instruction of a later one is. *)
MetBefore(next, order, k, c, e) ==
  \E j \in 1 .. k : Scc(next, order[j]) = c /\ \A l \in 1 .. j : Scc(next, order[l]) # e
ListedFrom(next, order, k, d) ==
  /\ \A j \in 1 .. k : Scc(next, order[j]) \in Range(d)
  /\ \A n \in DOMAIN d : \E j \in 1 .. k : Scc(next, order[j]) = d[n]
  /\ IsInjective(d)
  /\ \A m, n \in DOMAIN d : m < n => MetBefore(next, order, k, d[m], d[n])

List(d, c) == IF c \in Range(d) THEN d ELSE Append(d, c)

(* One more instruction is met. *)
LEMMA ListKeeps ==
  ASSUME NEW S, NEW d \in Seq(S), NEW next, NEW order, NEW k \in Nat,
         ListedFrom(next, order, k, d)
  PROVE  ListedFrom(next, order, k + 1, List(d, Scc(next, order[k + 1])))
<1> DEFINE c == Scc(next, order[k + 1])
           e == List(d, c)
<1>1. /\ Len(d) \in Nat /\ DOMAIN d = 1 .. Len(d)
      /\ \A j \in 1 .. k : Scc(next, order[j]) \in Range(d)
      /\ \A n \in DOMAIN d : \E j \in 1 .. k : Scc(next, order[j]) = d[n]
      /\ IsInjective(d)
      /\ \A m, n \in DOMAIN d : m < n => MetBefore(next, order, k, d[m], d[n])
  BY DEF ListedFrom
<1>2. \A j \in 1 .. k + 1 : j \in 1 .. k \/ j = k + 1
  OBVIOUS
<1>3. \A x, y : MetBefore(next, order, k, x, y) => MetBefore(next, order, k + 1, x, y)
  BY DEF MetBefore
<1>4. CASE c \in Range(d)
  <2>1. e = d
    BY <1>4 DEF List
  <2>2. \A j \in 1 .. k + 1 : Scc(next, order[j]) \in Range(e)
    BY <1>1, <1>2, <1>4, <2>1
  <2>3. \A n \in DOMAIN e : \E j \in 1 .. k + 1 : Scc(next, order[j]) = e[n]
    BY <1>1, <2>1
  <2> HIDE DEF e
  <2>4. ListedFrom(next, order, k + 1, e)
    BY <1>1, <1>3, <2>1, <2>2, <2>3 DEF ListedFrom
  <2> QED
    BY <2>4 DEF e
<1>5. CASE c \notin Range(d)
  <2>1. e = Append(d, c)
    BY <1>5 DEF List
  <2>2. /\ DOMAIN e = 1 .. Len(d) + 1
        /\ \A n \in 1 .. Len(d) : e[n] = d[n]
        /\ e[Len(d) + 1] = c
    BY <2>1
  <2> HIDE DEF e
  <2>3. Range(e) = Range(d) \cup {c}
    <3> HIDE DEF c
    <3> QED
      BY <2>1, RangeOfAppend
  <2>4. \A j \in 1 .. k + 1 : Scc(next, order[j]) \in Range(e)
    BY <1>1, <1>2, <2>3
  <2>5. ASSUME NEW n \in DOMAIN e PROVE \E j \in 1 .. k + 1 : Scc(next, order[j]) = e[n]
    <3>1. CASE n \in 1 .. Len(d)
      BY <1>1, <2>2, <3>1
    <3>2. CASE n = Len(d) + 1
      BY <2>2, <3>2
    <3> QED
      BY <2>2, <3>1, <3>2
  <2>6. IsInjective(e)
    <3>1. \A m, n \in 1 .. Len(d) : d[m] = d[n] => m = n
      BY <1>1 DEF IsInjective
    <3>2. \A n \in 1 .. Len(d) : d[n] # c
      BY <1>1, <1>5 DEF Range
    <3> QED
      BY <2>2, <3>1, <3>2 DEF IsInjective
  <2>7. ASSUME NEW m \in DOMAIN e, NEW n \in DOMAIN e, m < n
        PROVE  MetBefore(next, order, k + 1, e[m], e[n])
    <3>1. m \in 1 .. Len(d) /\ e[m] = d[m]
      BY <1>1, <2>2, <2>7
    <3>2. CASE n \in 1 .. Len(d)
      BY <1>1, <1>3, <2>2, <2>7, <3>1, <3>2
    <3>3. CASE n = Len(d) + 1
      <4>1. PICK j \in 1 .. k : Scc(next, order[j]) = d[m]
        BY <1>1, <3>1
      <4>2. \A l \in 1 .. j : Scc(next, order[l]) # c
        BY <1>1, <1>5, <4>1
      <4> QED
        BY <2>2, <3>1, <3>3, <4>1, <4>2 DEF MetBefore
    <3> QED
      BY <2>2, <3>2, <3>3
  <2>8. ListedFrom(next, order, k + 1, e)
    BY <2>4, <2>5, <2>6, <2>7 DEF ListedFrom
  <2> QED
    BY <2>8 DEF e
<1> QED
  BY <1>4, <1>5

(* All instructions of the list are. *)
LEMMA ComponentsAreListed ==
  ASSUME NEW I, IsGraph(deps, I), NEW order \in Seq(I)
  PROVE  /\ Components(order) \in Seq(SUBSET I)
         /\ ListedFrom(deps, order, Len(order), Components(order))
<1> DEFINE T == Seq(SUBSET I)
           N == Len(order)
           H == [n \in 1 .. N |-> [d \in T |-> List(d, Scc(deps, order[n]))]]
           Def(h) == h = [n \in 0 .. N |-> IF n = 0 THEN <<>> ELSE List(h[n - 1], Scc(deps, order[n]))]
           listed == CHOOSE h : Def(h)
<1>1. Components(order) = listed[N]
  BY DEF Components, List
<1>2. N \in Nat /\ <<>> \in T
  OBVIOUS
<1>3. ASSUME NEW n \in 1 .. N, NEW d \in T PROVE List(d, Scc(deps, order[n])) \in T
  <2>1. Scc(deps, order[n]) \in SUBSET I
    BY SccIsClass
  <2> QED
    BY <2>1 DEF List
<1>4. H \in [1 .. N -> [T -> T]]
  BY <1>3
<1> HIDE DEF T, N, H
<1>5. PICK h : IsIteration(h, N, <<>>, H)
  BY <1>2, <1>4, IterationExists
<1>6. h \in [0 .. N -> T] /\ h[0] = <<>> /\ \A n \in 1 .. N : h[n] = H[n][h[n - 1]]
  BY <1>2, <1>4, <1>5, IterationIs
<1>7. Def(h)
  <2>1. \A n \in 1 .. N : n - 1 \in 0 .. N
    BY <1>2
  <2>2. \A n \in 1 .. N : h[n] = List(h[n - 1], Scc(deps, order[n]))
    BY <1>6, <2>1 DEF H
  <2>3. h = [n \in 0 .. N |-> h[n]]
    BY <1>6
  <2>4. [n \in 0 .. N |-> h[n]]
          = [n \in 0 .. N |-> IF n = 0 THEN <<>> ELSE List(h[n - 1], Scc(deps, order[n]))]
    BY <1>2, <1>6, <2>2
  <2> QED
    BY <2>3, <2>4
<1>8. Def(listed)
  BY <1>7
<1> HIDE DEF listed
<1> DEFINE P == {n \in 0 .. N : listed[n] \in T /\ ListedFrom(deps, order, n, listed[n])}
<1>9. 0 \in P
  <2>1. listed[0] = <<>>
    BY <1>2, <1>8
  <2>2. ListedFrom(deps, order, 0, <<>>)
    BY DEF ListedFrom, IsInjective
  <2> QED
    BY <1>2, <2>1, <2>2
<1>10. ASSUME NEW n \in 1 .. N, n - 1 \in P PROVE n \in P
  <2>1. listed[n] = List(listed[n - 1], Scc(deps, order[n]))
    BY <1>2, <1>8
  <2> DEFINE k == n - 1
             d == listed[k]
  <2>2. k \in Nat /\ n = k + 1 /\ d \in Seq(SUBSET I) /\ ListedFrom(deps, order, k, d)
    BY <1>2, <1>10 DEF T
  <2> HIDE DEF k, d
  <2>3. ListedFrom(deps, order, k + 1, List(d, Scc(deps, order[k + 1])))
    BY <2>2, ListKeeps
  <2>4. ListedFrom(deps, order, n, listed[n])
    BY <2>1, <2>2, <2>3 DEF d, k
  <2>5. listed[n] \in T
    BY <1>3, <1>10, <2>1
  <2> QED
    BY <2>4, <2>5
<1>11. N \in P
  <2> HIDE DEF P
  <2>1. \A n \in 0 .. N : n \in P
    BY <1>2, <1>9, <1>10, UpTo
  <2> QED
    BY <1>2, <2>1
<1> QED
  BY <1>1, <1>11 DEF T, N

(* A finished search: all instructions have been left. *)
LEMMA AllLeft ==
  ASSUME NEW I, NEW N \in Nat, I = 1 .. N, NEW f \in Seq(I), IsInjective(f), Len(f) = N
  PROVE  Range(f) = I
<1>1. f \in [1 .. N -> I] /\ DOMAIN f = 1 .. N
  OBVIOUS
<1>2. f \in Injection(1 .. N, I)
  BY <1>1 DEF Injection, IsInjective
<1>3. IsFiniteSet(I) /\ Cardinality(1 .. N) = Cardinality(I)
  BY FS_Interval
<1>4. f \in Surjection(1 .. N, I)
  BY <1>2, <1>3, FS_Injection
<1> QED
  BY <1>1, <1>4 DEF Surjection, Range

(* The list of components: each is there, once. *)
IsDag(next, I, nodes) ==
  /\ nodes \in Seq(SUBSET I)
  /\ IsInjective(nodes)
  /\ \A n \in DOMAIN nodes : \E x \in I : nodes[n] = Scc(next, x)
  /\ \A x \in I : Scc(next, x) \in Range(nodes)

(* So are the components of a finished search. *)
LEMMA DagIsComplete ==
  ASSUME NEW I, NEW N \in Nat, I = 1 .. N, IsGraph(deps, I),
         NEW f \in Seq(I), IsInjective(f), Len(f) = N
  PROVE  IsDag(deps, I, DagNodes(f))
<1> DEFINE r == Reverse(f)
           d == DagNodes(f)
<1>1. /\ r \in Seq(I) /\ Len(r) = N /\ DOMAIN f = 1 .. N
      /\ \A j \in 1 .. N : N + 1 - j \in 1 .. N /\ r[j] = f[N + 1 - j] /\ r[j] \in I
  <2>1. r = [j \in 1 .. N |-> f[N + 1 - j]]
    BY DEF Reverse
  <2>2. \A j \in 1 .. N : N + 1 - j \in 1 .. N /\ f[N + 1 - j] \in I
    OBVIOUS
  <2>3. r \in [1 .. N -> I]
    BY <2>1, <2>2
  <2> HIDE DEF r
  <2> QED
    BY <2>1, <2>2, <2>3
<1>2. ListedFrom(deps, r, N, d) /\ d \in Seq(SUBSET I)
  <2> HIDE DEF r
  <2>1. ListedFrom(deps, r, Len(r), Components(r)) /\ Components(r) \in Seq(SUBSET I)
    BY <1>1, ComponentsAreListed
  <2> QED
    BY <1>1, <2>1 DEF DagNodes, r
<1> HIDE DEF r, d
<1>3. ASSUME NEW n \in DOMAIN d PROVE \E x \in I : d[n] = Scc(deps, x)
  BY <1>1, <1>2 DEF ListedFrom
<1>4. ASSUME NEW x \in I PROVE Scc(deps, x) \in Range(d)
  <2>0. Range(f) = I
    BY AllLeft
  <2>1. PICK b \in 1 .. N : x = f[b]
    BY <1>1, <2>0 DEF Range
  <2>2. N + 1 - b \in 1 .. N /\ N + 1 - (N + 1 - b) = b
    OBVIOUS
  <2>3. r[N + 1 - b] = x
    BY <1>1, <2>1, <2>2
  <2> QED
    BY <1>2, <2>2, <2>3 DEF ListedFrom
<1> QED
  BY <1>2, <1>3, <1>4 DEF IsDag, ListedFrom, d

(* The list of components is in a topological order. *)
LEMMA DagIsSorted ==
  ASSUME NEW I, NEW N \in Nat, I = 1 .. N, IsGraph(deps, I),
         NEW f \in Seq(I), IsInjective(f), Len(f) = N, LeftBehind(deps, f)
  PROVE  TopologicallySorted(DagNodes(f))
<1> DEFINE r == Reverse(f)
           d == DagNodes(f)
<1>1. /\ r \in Seq(I) /\ Len(r) = N /\ DOMAIN f = 1 .. N
      /\ \A j \in 1 .. N : N + 1 - j \in 1 .. N /\ r[j] = f[N + 1 - j] /\ r[j] \in I
  <2>1. r = [j \in 1 .. N |-> f[N + 1 - j]]
    BY DEF Reverse
  <2>2. \A j \in 1 .. N : N + 1 - j \in 1 .. N /\ f[N + 1 - j] \in I
    OBVIOUS
  <2>3. r \in [1 .. N -> I]
    BY <2>1, <2>2
  <2> HIDE DEF r
  <2> QED
    BY <2>1, <2>2, <2>3
<1>2. ListedFrom(deps, r, N, d) /\ d \in Seq(SUBSET I)
  <2> HIDE DEF r
  <2>1. ListedFrom(deps, r, Len(r), Components(r)) /\ Components(r) \in Seq(SUBSET I)
    BY <1>1, ComponentsAreListed
  <2> QED
    BY <1>1, <2>1 DEF DagNodes, r
<1> HIDE DEF r, d
<1>3. SUFFICES ASSUME NEW m \in DOMAIN d, NEW n \in DOMAIN d,
                      NEW i \in d[m], deps[i] \cap d[n] # {}, n < m
               PROVE  FALSE
  <2>1. DOMAIN d = 1 .. Len(d) /\ Len(d) \in Nat
    BY <1>2
  <2> QED
    BY <2>1 DEF TopologicallySorted, d
<1>4. PICK j \in 1 .. N : Scc(deps, r[j]) = d[n] /\ \A l \in 1 .. j : Scc(deps, r[l]) # d[m]
  BY <1>2, <1>3 DEF ListedFrom, MetBefore
<1>5. PICK k \in 1 .. N : Scc(deps, r[k]) = d[m] /\ \A l \in 1 .. N : Scc(deps, r[l]) = d[m] => k <= l
  <2> DEFINE K == {l \in 1 .. N : Scc(deps, r[l]) = d[m]}
  <2>1. K \in SUBSET Nat /\ K # {}
    <3>1. PICK l \in 1 .. N : Scc(deps, r[l]) = d[m]
      BY <1>2 DEF ListedFrom
    <3> QED
      BY <3>1
  <2> HIDE DEF K
  <2>2. PICK k \in K : \A l \in K : k <= l
    BY <2>1, LeastExists
  <2> QED
    BY <2>2 DEF K
<1> DEFINE x == r[k]
           y == r[j]
           a == N + 1 - k
<1>6. j < k
  BY <1>4, <1>5
<1>7. x \in I /\ y \in I /\ a \in 1 .. N /\ x = f[a] /\ y = f[N + 1 - j] /\ a < N + 1 - j
  <2>1. a \in 1 .. N /\ a < N + 1 - j
    BY <1>6
  <2>2. x = f[a] /\ y = f[N + 1 - j]
    BY <1>1
  <2>3. x \in I /\ y \in I
    BY <1>1
  <2> QED
    BY <2>1, <2>2, <2>3
<1>8. Scc(deps, x) \subseteq Left(f, a)
  <2> SUFFICES ASSUME NEW z \in Scc(deps, x) PROVE z \in Left(f, a)
    OBVIOUS
  <2>1. z \in I /\ Scc(deps, z) = d[m]
    <3> HIDE DEF x
    <3>1. z \in I /\ Scc(deps, z) = Scc(deps, x)
      BY <1>7, SccIsClass
    <3> QED
      BY <1>5, <3>1 DEF x
  <2>2. Range(f) = I
    BY AllLeft
  <2>3. PICK b \in 1 .. N : z = f[b]
    BY <1>1, <2>1, <2>2 DEF Range
  <2>4. N + 1 - b \in 1 .. N /\ r[N + 1 - b] = z
    <3>1. N + 1 - b \in 1 .. N /\ N + 1 - (N + 1 - b) = b
      OBVIOUS
    <3>2. r[N + 1 - b] = f[N + 1 - (N + 1 - b)]
      BY <1>1, <3>1
    <3> QED
      BY <2>3, <3>1, <3>2
  <2>5. k <= N + 1 - b
    BY <1>5, <2>1, <2>4
  <2>6. b \in 1 .. a
    BY <2>5
  <2> QED
    BY <2>3, <2>6 DEF Left
<1>9. Descendants(deps, x) \subseteq Left(f, a)
  BY <1>1, <1>7, <1>8 DEF LeftBehind
<1>10. y \in Descendants(deps, x)
  <2> HIDE DEF x, y
  <2>1. PICK w : w \in deps[i] /\ w \in d[n]
    BY <1>3
  <2>2. i \in Scc(deps, x) /\ w \in Scc(deps, y)
    BY <1>4, <1>5, <2>1 DEF x, y
  <2>3. i \in I /\ w \in I
    <3>1. Scc(deps, x) \in SUBSET I /\ Scc(deps, y) \in SUBSET I
      BY <1>7, SccIsClass
    <3> QED
      BY <2>2, <3>1
  <2>4. w \in Descendants(deps, x)
    <3> DEFINE D == Descendants(deps, x)
    <3>1. deps[x] \subseteq D /\ IsClosed(deps, D)
      BY <1>7, DescendantsClosed
    <3>2. i = x \/ i \in D
      BY <2>2 DEF Scc
    <3> HIDE DEF D
    <3>3. w \in D
      BY <2>1, <3>1, <3>2 DEF IsClosed
    <3> QED
      BY <3>3 DEF D
  <2>5. y \in Scc(deps, w)
    <3>1. Scc(deps, w) = Scc(deps, y) /\ y \in Scc(deps, y)
      BY <1>7, <2>2, SccIsClass
    <3> QED
      BY <3>1
  <2>6. y = w \/ y \in Descendants(deps, w)
    BY <2>5 DEF Scc
  <2>7. Descendants(deps, w) \subseteq Descendants(deps, x)
    BY <1>7, <2>4, DescendantsTransitive
  <2> QED
    BY <2>4, <2>6, <2>7
<1>11. PICK b \in 1 .. a : y = f[b]
  BY <1>9, <1>10 DEF Left
<1>12. b = N + 1 - j
  <2>1. b \in 1 .. N /\ N + 1 - j \in 1 .. N /\ f[b] = f[N + 1 - j]
    BY <1>1, <1>7, <1>11
  <2> QED
    BY <1>1, <2>1 DEF IsInjective
<1> QED
  BY <1>7, <1>11, <1>12

-----------------------------------------------------------------------------
(* The partitions *)

(* The first k components in parts: those of an earlier part come first. *)
Before(nodes, k, X, Y) ==
  \A x \in X, y \in Y : \E a, b \in 1 .. k : a < b /\ nodes[a] = x /\ nodes[b] = y
PartedFrom(nodes, k, ps) ==
  /\ Len(ps) >= 1
  /\ \A p \in DOMAIN ps : \A x \in Range(ps[p]) : \E a \in 1 .. k : nodes[a] = x
  /\ \A p, q \in DOMAIN ps : p < q => Before(nodes, k, Range(ps[p]), Range(ps[q]))

Extended(ps, node) == [ps EXCEPT ![Len(ps)] = Append(ps[Len(ps)], node)]

(* A component put behind the last one keeps the order. *)
LEMMA ExtendedKeeps ==
  ASSUME NEW S, NEW nodes, NEW k \in Nat, nodes[k + 1] \in S,
         NEW ps \in Seq(Seq(S)), PartedFrom(nodes, k, ps)
  PROVE  /\ Extended(ps, nodes[k + 1]) \in Seq(Seq(S))
         /\ PartedFrom(nodes, k + 1, Extended(ps, nodes[k + 1]))
<1> DEFINE L == Len(ps)
           c == nodes[k + 1]
           e == Extended(ps, c)
<1>1. /\ L \in Nat /\ L >= 1 /\ DOMAIN ps = 1 .. L
      /\ \A p \in 1 .. L : ps[p] \in Seq(S)
      /\ \A p \in 1 .. L : \A x \in Range(ps[p]) : \E a \in 1 .. k : nodes[a] = x
      /\ \A p, q \in 1 .. L : p < q => Before(nodes, k, Range(ps[p]), Range(ps[q]))
  BY DEF PartedFrom
<1>2. L \in 1 .. L /\ ps[L] \in Seq(S) /\ c \in S
  BY <1>1
<1>3. Append(ps[L], c) \in Seq(S)
  <2> HIDE DEF c
  <2> QED
    BY <1>2
<1>4. e = [ps EXCEPT ![L] = Append(ps[L], c)]
  BY DEF Extended
<1> DEFINE W == Seq(S)
           v == Append(ps[L], c)
<1>5. ps \in Seq(W) /\ v \in W
  BY <1>3
<1>6. /\ e \in Seq(W) /\ Len(e) = L /\ DOMAIN e = 1 .. L
      /\ \A p \in 1 .. L : p # L => e[p] = ps[p]
      /\ e[L] = v
  <2>1. e = [ps EXCEPT ![Len(ps)] = v]
    BY <1>4
  <2> HIDE DEF W, v, e
  <2> QED
    BY <1>1, <1>5, <2>1, LastReplaced
<1> HIDE DEF W
<1>7. Range(e[L]) = Range(ps[L]) \cup {c}
  <2>1. ps[L] \in Seq(S)
    BY <1>1
  <2> HIDE DEF L, c
  <2>2. Range(Append(ps[L], c)) = Range(ps[L]) \cup {c}
    BY <2>1, RangeOfAppend
  <2> QED
    BY <1>6, <2>2
<1> HIDE DEF e, L
<1>8. ASSUME NEW p \in 1 .. L, NEW x \in Range(e[p]) PROVE \E a \in 1 .. k + 1 : nodes[a] = x
  <2>1. CASE x = c
    BY <2>1
  <2>2. CASE x # c
    <3>1. x \in Range(ps[p])
      BY <1>6, <1>7, <1>8, <2>2
    <3> QED
      BY <1>1, <3>1
  <2> QED
    BY <2>1, <2>2
<1>9. ASSUME NEW p \in 1 .. L, NEW q \in 1 .. L, p < q
      PROVE  Before(nodes, k + 1, Range(e[p]), Range(e[q]))
  <2> SUFFICES ASSUME NEW x \in Range(e[p]), NEW y \in Range(e[q])
               PROVE  \E a, b \in 1 .. k + 1 : a < b /\ nodes[a] = x /\ nodes[b] = y
    BY DEF Before
  <2>1. x \in Range(ps[p])
    BY <1>1, <1>6, <1>9
  <2>2. CASE y \in Range(ps[q])
    <3>1. \E a, b \in 1 .. k : a < b /\ nodes[a] = x /\ nodes[b] = y
      BY <1>1, <1>9, <2>1, <2>2 DEF Before
    <3> QED
      BY <3>1
  <2>3. CASE y \notin Range(ps[q])
    <3>1. y = c
      BY <1>6, <1>7, <2>3
    <3>2. \E a \in 1 .. k : nodes[a] = x
      BY <1>1, <2>1
    <3> QED
      BY <3>1, <3>2
  <2> QED
    BY <2>2, <2>3
<1>10. PartedFrom(nodes, k + 1, e)
  BY <1>1, <1>6, <1>8, <1>9 DEF PartedFrom
<1> QED
  BY <1>6, <1>10 DEF e, W

(* A new part behind the last one keeps the order as well. *)
LEMMA NewPartKeeps ==
  ASSUME NEW S, NEW nodes, NEW k \in Nat, NEW ps \in Seq(Seq(S)), PartedFrom(nodes, k, ps)
  PROVE  Append(ps, <<>>) \in Seq(Seq(S)) /\ PartedFrom(nodes, k, Append(ps, <<>>))
<1> DEFINE L == Len(ps)
           e == Append(ps, <<>>)
<1>1. /\ L \in Nat /\ L >= 1 /\ DOMAIN ps = 1 .. L
      /\ \A p \in 1 .. L : \A x \in Range(ps[p]) : \E a \in 1 .. k : nodes[a] = x
      /\ \A p, q \in 1 .. L : p < q => Before(nodes, k, Range(ps[p]), Range(ps[q]))
  BY DEF PartedFrom
<1> DEFINE W == Seq(S)
           v == <<>>
<1>2. ps \in Seq(W) /\ v \in W
  OBVIOUS
<1>3. /\ e \in Seq(W) /\ Len(e) = L + 1 /\ DOMAIN e = 1 .. L + 1
      /\ \A p \in 1 .. L : e[p] = ps[p]
      /\ e[L + 1] = v
  <2>1. e = Append(ps, v)
    OBVIOUS
  <2> HIDE DEF W, v, e
  <2> QED
    BY <1>1, <1>2, <2>1, OneMore
<1>4. Range(v) = {}
  BY DEF Range
<1> HIDE DEF W, v
<1>5. Range(e[L + 1]) = {}
  BY <1>3, <1>4
<1> HIDE DEF e, L
<1>6. ASSUME NEW p \in 1 .. L + 1, NEW x \in Range(e[p]) PROVE \E a \in 1 .. k : nodes[a] = x
  BY <1>1, <1>3, <1>5, <1>6
<1>7. ASSUME NEW p \in 1 .. L + 1, NEW q \in 1 .. L + 1, p < q
      PROVE  Before(nodes, k, Range(e[p]), Range(e[q]))
  <2>1. CASE q = L + 1
    BY <1>5, <2>1 DEF Before
  <2>2. CASE q # L + 1
    BY <1>1, <1>3, <1>7, <2>2
  <2> QED
    BY <2>1, <2>2
<1>8. PartedFrom(nodes, k, e)
  BY <1>1, <1>3, <1>6, <1>7 DEF PartedFrom
<1> QED
  BY <1>3, <1>8 DEF e, W

Parted(nodes, n, p) ==
  IF n # Len(nodes) /\ needANewPartition(Append(p[Len(p)], nodes[n]), nodes[n])
  THEN Append(Extended(p, nodes[n]), <<>>) ELSE Extended(p, nodes[n])

(* The cuts behind memory accesses leave the components in their order. *)
LEMMA PartitionsInOrder ==
  ASSUME NEW S, NEW nodes \in Seq(S)
  PROVE  /\ barrierPartition(nodes) \in Seq(Seq(S))
         /\ PartedFrom(nodes, Len(nodes), barrierPartition(nodes))
<1> DEFINE T == {ps \in Seq(Seq(S)) : Len(ps) >= 1}
           N == Len(nodes)
           base == << <<>> >>
           H == [n \in 1 .. N |-> [p \in T |-> Parted(nodes, n, p)]]
           Def(h) == h = [n \in 0 .. N |-> IF n = 0 THEN base ELSE Parted(nodes, n, h[n - 1])]
           parts == CHOOSE h : Def(h)
<1>1. barrierPartition(nodes) = parts[N]
  BY DEF barrierPartition, Parted, Extended
<1>2. N \in Nat /\ base \in T
  OBVIOUS
<1>3. ASSUME NEW n \in 1 .. N, NEW p \in T PROVE Parted(nodes, n, p) \in T
  <2>1. Extended(p, nodes[n]) \in T
    <3>1. Len(p) \in 1 .. Len(p) /\ p[Len(p)] \in Seq(S) /\ nodes[n] \in S
      OBVIOUS
    <3>2. Append(p[Len(p)], nodes[n]) \in Seq(S)
      BY <3>1
    <3> QED
      BY <3>1, <3>2 DEF Extended
  <2> DEFINE e == Extended(p, nodes[n])
  <2>2. e \in T
    BY <2>1
  <2> HIDE DEF e
  <2>3. Append(e, <<>>) \in T
    BY <2>2
  <2> QED
    BY <2>2, <2>3 DEF Parted, e
<1>4. H \in [1 .. N -> [T -> T]]
  BY <1>3
<1> HIDE DEF T, N, H, base
<1>5. PICK h : IsIteration(h, N, base, H)
  BY <1>2, <1>4, IterationExists
<1>6. h \in [0 .. N -> T] /\ h[0] = base /\ \A n \in 1 .. N : h[n] = H[n][h[n - 1]]
  BY <1>2, <1>4, <1>5, IterationIs
<1>7. Def(h)
  <2>1. \A n \in 1 .. N : n - 1 \in 0 .. N
    BY <1>2
  <2>2. \A n \in 1 .. N : h[n] = Parted(nodes, n, h[n - 1])
    BY <1>6, <2>1 DEF H
  <2>3. h = [n \in 0 .. N |-> h[n]]
    BY <1>6
  <2>4. [n \in 0 .. N |-> h[n]]
          = [n \in 0 .. N |-> IF n = 0 THEN base ELSE Parted(nodes, n, h[n - 1])]
    BY <1>2, <1>6, <2>2
  <2> QED
    BY <2>3, <2>4
<1>8. Def(parts)
  BY <1>7
<1> HIDE DEF parts
<1> DEFINE P == {n \in 0 .. N : parts[n] \in Seq(Seq(S)) /\ PartedFrom(nodes, n, parts[n])}
<1>9. 0 \in P
  <2>1. parts[0] = << <<>> >>
    BY <1>2, <1>8 DEF base
  <2>2. << <<>> >> \in Seq(Seq(S)) /\ PartedFrom(nodes, 0, << <<>> >>)
    <3>1. Range(<<>>) = {}
      BY DEF Range
    <3> QED
      BY <3>1 DEF PartedFrom
  <2>3. 0 \in 0 .. N
    BY <1>2
  <2> QED
    BY <2>1, <2>2, <2>3
<1>10. ASSUME NEW n \in 1 .. N, n - 1 \in P PROVE n \in P
  <2>1. parts[n] = Parted(nodes, n, parts[n - 1])
    BY <1>2, <1>8
  <2> DEFINE k == n - 1
             p == parts[k]
             e == Extended(p, nodes[k + 1])
  <2>2. k \in Nat /\ n = k + 1 /\ p \in Seq(Seq(S)) /\ PartedFrom(nodes, k, p) /\ nodes[k + 1] \in S
    BY <1>2, <1>10 DEF N
  <2> HIDE DEF k, p
  <2>3. e \in Seq(Seq(S)) /\ PartedFrom(nodes, k + 1, e)
    BY <2>2, ExtendedKeeps
  <2> HIDE DEF e
  <2>4. Append(e, <<>>) \in Seq(Seq(S)) /\ PartedFrom(nodes, k + 1, Append(e, <<>>))
    BY <2>2, <2>3, NewPartKeeps
  <2>5. parts[n] = e \/ parts[n] = Append(e, <<>>)
    BY <2>1, <2>2 DEF Parted, e, p, k
  <2>6. parts[n] \in Seq(Seq(S)) /\ PartedFrom(nodes, n, parts[n])
    <3>1. CASE parts[n] = e
      BY <2>2, <2>3, <3>1
    <3>2. CASE parts[n] = Append(e, <<>>)
      BY <2>2, <2>4, <3>2
    <3> QED
      BY <2>5, <3>1, <3>2
  <2> QED
    BY <2>6
<1>11. N \in P
  <2> HIDE DEF P
  <2>1. \A n \in 0 .. N : n \in P
    BY <1>2, <1>9, <1>10, UpTo
  <2> QED
    BY <1>2, <2>1
<1> QED
  BY <1>1, <1>11 DEF N

(* What the partitions are: disjoint, and no instruction needed in an earlier one *)
(* than where it is computed.                                                     *)
MinesInOrder(next, I, ms) ==
  /\ ms \in Seq(SUBSET I)
  /\ \A p, q \in DOMAIN ms : p < q => ms[p] \cap ms[q] = {}
  /\ \A p, q \in DOMAIN ms : q < p => \A i \in ms[p] : next[i] \cap ms[q] = {}

(* The parts of a sorted list of components are. *)
LEMMA PartsInOrder ==
  ASSUME NEW I, IsGraph(deps, I), NEW nodes, IsDag(deps, I, nodes), TopologicallySorted(nodes),
         NEW ms, ms = [k \in DOMAIN barrierPartition(nodes) |-> UNION Range(barrierPartition(nodes)[k])]
  PROVE  MinesInOrder(deps, I, ms)
<1> DEFINE ps == barrierPartition(nodes)
           N == Len(nodes)
<1>1. /\ nodes \in Seq(SUBSET I) /\ N \in Nat /\ DOMAIN nodes = 1 .. N
      /\ IsInjective(nodes)
      /\ \A n \in DOMAIN nodes : \E x \in I : nodes[n] = Scc(deps, x)
  BY DEF IsDag
<1>2. ps \in Seq(Seq(SUBSET I)) /\ PartedFrom(nodes, N, ps)
  <2> DEFINE S == SUBSET I
  <2>1. nodes \in Seq(S)
    BY <1>1
  <2> HIDE DEF S
  <2>2. ps \in Seq(Seq(S)) /\ PartedFrom(nodes, N, ps)
    BY <2>1, PartitionsInOrder
  <2> QED
    BY <2>2 DEF S
<1>3. ms = [k \in DOMAIN ps |-> UNION Range(ps[k])]
  OBVIOUS
<1> HIDE DEF ps, N
<1>4. /\ DOMAIN ps = 1 .. Len(ps) /\ Len(ps) \in Nat
      /\ \A p \in 1 .. Len(ps) : ps[p] \in Seq(SUBSET I)
  BY <1>2
<1>5. ms \in Seq(SUBSET I) /\ DOMAIN ms = DOMAIN ps
  <2>1. ASSUME NEW p \in 1 .. Len(ps) PROVE UNION Range(ps[p]) \in SUBSET I
    <3>1. Range(ps[p]) \subseteq SUBSET I
      BY <1>4 DEF Range
    <3> QED
      BY <3>1
  <2>2. ms \in [1 .. Len(ps) -> SUBSET I]
    BY <1>3, <1>4, <2>1
  <2> QED
    BY <1>4, <2>2
<1>6. \A p \in DOMAIN ps : \A i \in ms[p] : \E X \in Range(ps[p]) : i \in X
  BY <1>3
<1>7. \A p, q \in DOMAIN ps : p < q => Before(nodes, N, Range(ps[p]), Range(ps[q]))
  BY <1>2 DEF PartedFrom
<1>8. ASSUME NEW p \in DOMAIN ps, NEW q \in DOMAIN ps, p < q, NEW i \in ms[p], i \in ms[q]
      PROVE  FALSE
  <2>1. PICK X \in Range(ps[p]) : i \in X
    BY <1>6, <1>8
  <2>2. PICK Y \in Range(ps[q]) : i \in Y
    BY <1>6, <1>8
  <2>3. PICK a \in 1 .. N, b \in 1 .. N : a < b /\ nodes[a] = X /\ nodes[b] = Y
    BY <1>7, <1>8 DEF Before
  <2>4. PICK x \in I, y \in I : X = Scc(deps, x) /\ Y = Scc(deps, y)
    BY <1>1, <2>3
  <2>5. X = Y
    <3>1. Scc(deps, i) = Scc(deps, x) /\ Scc(deps, i) = Scc(deps, y)
      BY <2>1, <2>2, <2>4, SccIsClass
    <3> QED
      BY <2>4, <3>1
  <2> QED
    BY <1>1, <2>3, <2>5 DEF IsInjective
<1>9. ASSUME NEW p \in DOMAIN ps, NEW q \in DOMAIN ps, q < p, NEW i \in ms[p],
             NEW w \in deps[i], w \in ms[q]
      PROVE  FALSE
  <2>1. PICK X \in Range(ps[p]) : i \in X
    BY <1>6
  <2>2. PICK Y \in Range(ps[q]) : w \in Y
    BY <1>6, <1>9
  <2>3. PICK a \in 1 .. N, b \in 1 .. N : a < b /\ nodes[a] = Y /\ nodes[b] = X
    BY <1>7, <1>9 DEF Before
  <2>4. b <= a
    BY <1>1, <2>1, <2>2, <2>3 DEF TopologicallySorted
  <2> QED
    BY <2>3, <2>4
<1>10. \A p, q \in DOMAIN ms : p < q => ms[p] \cap ms[q] = {}
  BY <1>5, <1>8
<1>11. \A p, q \in DOMAIN ms : q < p => \A i \in ms[p] : deps[i] \cap ms[q] = {}
  BY <1>5, <1>9
<1> QED
  BY <1>5, <1>10, <1>11 DEF MinesInOrder

(* So no partition depends on itself through others. *)
LEMMA NoPartitionCycle ==
  ASSUME NEW I, NEW ms, MinesInOrder(deps, I, ms)
  PROVE  ~PartitionCycle(ms)
<1> DEFINE D == DOMAIN ms
           next == [p \in D |-> {q \in D \ {p} : \E i \in ms[p] : deps[i] \cap ms[q] # {}}]
<1>1. SUFFICES ASSUME NEW p \in D, p \in Descendants(next, p) PROVE FALSE
  BY DEF PartitionCycle
<1>2. ms \in Seq(SUBSET I) /\ D = 1 .. Len(ms) /\ Len(ms) \in Nat
  BY DEF MinesInOrder
<1>3. IsGraph(next, D)
  <2>1. IsFiniteSet(D)
    BY <1>2, FS_Interval
  <2>2. next \in [D -> SUBSET D]
    OBVIOUS
  <2> QED
    BY <2>1, <2>2 DEF IsGraph
<1>4. \A x \in D : \A y \in next[x] : y \in D /\ x < y
  <2> SUFFICES ASSUME NEW x \in D, NEW y \in next[x] PROVE y \in D /\ x < y
    OBVIOUS
  <2>1. y \in D /\ y # x /\ \E i \in ms[x] : deps[i] \cap ms[y] # {}
    OBVIOUS
  <2>2. ~(y < x)
    BY <2>1 DEF MinesInOrder
  <2> QED
    BY <1>2, <2>1, <2>2
<1> HIDE DEF next, D
<1> DEFINE T == {q \in D : p < q}
<1>5. next[p] \subseteq T
  BY <1>4
<1>6. IsClosed(next, T)
  <2> SUFFICES ASSUME NEW x \in T PROVE next[x] \subseteq T
    BY DEF IsClosed
  <2> QED
    BY <1>2, <1>4
<1> HIDE DEF T
<1>7. Descendants(next, p) \subseteq T
  BY <1>3, <1>5, <1>6, DescendantsLeast
<1> QED
  BY <1>1, <1>2, <1>7 DEF T

-----------------------------------------------------------------------------
(* The pass keeps this from step to step.                                     *)
Phases == {"start", "graph", "setup", "generate", "unchanged", "done", "failed"}

Given == WellFormed(prog) /\ controlFlowDuplication \in BOOLEAN /\ phase \in Phases
NotStarted == phase = "start" => deps = <<>> /\ path = <<>> /\ finished = <<>>
GraphBuilt == phase # "start" => deps = Dependents(prog)
SearchInOrder == phase # "start" => Searched(Instrs(prog), deps, path, finished)
PartsApart == phase \in {"setup", "generate", "done"} => MinesInOrder(deps, Instrs(prog), mines)

SearchInv == Given /\ NotStarted /\ GraphBuilt /\ SearchInOrder /\ PartsApart /\ PartitionsAreAcyclic

(* It holds at the start. *)
LEMMA SearchInit == Init => SearchInv
<1> SUFFICES ASSUME Init PROVE SearchInv
  OBVIOUS
<1> USE DEF Init, Start
<1>1. Given
  BY ProgramsAssumption DEF Given, Phases
<1> QED
  BY <1>1 DEF SearchInv, NotStarted, GraphBuilt, SearchInOrder, PartsApart, PartitionsAreAcyclic

(* Every action keeps it: building the graph, *)
LEMMA BuildGraphKeeps ==
  ASSUME SearchInv, BuildGraph
  PROVE  SearchInv'
<1> USE DEF BuildGraph, option
<1>1. Given'
  BY DEF SearchInv, Given, Phases
<1>2. deps' = Dependents(prog) /\ prog' = prog /\ phase' = "graph"
  OBVIOUS
<1>3. path' = <<>> /\ finished' = <<>>
  BY DEF SearchInv, NotStarted
<1>4. Searched(Instrs(prog), deps', <<>>, <<>>)
  <2>1. Range(<<>>) = {} /\ IsInjective(<<>>)
    BY DEF Range, IsInjective
  <2> QED
    BY <2>1 DEF Searched, Visited, Chained, NoneMissed, LeftBehind
<1>5. SearchInOrder'
  BY <1>2, <1>3, <1>4 DEF SearchInOrder
<1> QED
  BY <1>1, <1>2, <1>5 DEF SearchInv, NotStarted, GraphBuilt, PartsApart, PartitionsAreAcyclic

(* (the graph is that of the program) *)
LEMMA GraphOfProgram ==
  ASSUME SearchInv, phase # "start"
  PROVE  IsGraph(deps, Instrs(prog)) /\ DOMAIN deps = Instrs(prog)
<1>1. WellFormed(prog) /\ deps = Dependents(prog)
  BY DEF SearchInv, Given, GraphBuilt
<1>2. Dependents(prog) \in [Instrs(prog) -> SUBSET Instrs(prog)]
  BY DependentsType
<1>3. IsFiniteSet(Instrs(prog))
  BY <1>1, ProgramType
<1> QED
  BY <1>1, <1>2, <1>3 DEF IsGraph

(* entering an instruction, *)
LEMMA VisitKeeps ==
  ASSUME SearchInv, NEW i \in DOMAIN deps, Visit(i)
  PROVE  SearchInv'
<1> DEFINE I == Instrs(prog)
           u == Unwind(Append(path, i), finished)
<1>1. /\ phase = "graph" /\ i \in Enterable
      /\ path' = u.path /\ finished' = u.finished
      /\ prog' = prog /\ controlFlowDuplication' = controlFlowDuplication
      /\ deps' = deps /\ mines' = mines /\ phase' = phase /\ failed' = failed
  BY DEF Visit, option
<1>2. IsGraph(deps, I) /\ DOMAIN deps = I
  BY <1>1, GraphOfProgram
<1>3. Searched(I, deps, path, finished)
  BY <1>1 DEF SearchInv, SearchInOrder
<1>4. /\ i \in I /\ i \notin Range(path) /\ i \notin Range(finished)
      /\ path # <<>> => i \in deps[Last(path)]
  <2>1. CASE path = <<>>
    <3>1. i \in DOMAIN deps \ Range(finished)
      BY <1>1, <2>1 DEF Enterable, Least
    <3>2. Range(path) = {}
      BY <2>1 DEF Range
    <3> QED
      BY <1>2, <2>1, <3>1, <3>2
  <2>2. CASE path # <<>>
    <3>1. i \in deps[Last(path)] \ (Range(path) \cup Range(finished))
      BY <1>1, <2>2 DEF Enterable, Least, Unentered
    <3> QED
      BY <1>2, <3>1
  <2> QED
    BY <2>1, <2>2
<1>5. Searched(I, deps, Append(path, i), finished)
  <2> HIDE DEF I
  <2> QED
    BY <1>2, <1>3, <1>4, EnterKeeps
<1>6. Searched(I, deps, u.path, u.finished)
  <2> HIDE DEF I
  <2> QED
    BY <1>2, <1>5, UnwindKeeps
<1>7. SearchInOrder'
  BY <1>1, <1>6 DEF SearchInOrder
<1> HIDE DEF u
<1>8. Given' /\ NotStarted' /\ GraphBuilt' /\ PartsApart' /\ PartitionsAreAcyclic'
  BY <1>1 DEF SearchInv, Given, NotStarted, GraphBuilt, PartsApart, PartitionsAreAcyclic
<1> QED
  BY <1>7, <1>8 DEF SearchInv

(* cutting the components, *)
LEMMA PartitionKeeps ==
  ASSUME SearchInv, Partition
  PROVE  SearchInv'
<1> DEFINE I == Instrs(prog)
           N == Len(prog.code)
           nodes == DagNodes(finished)
           parts == barrierPartition(nodes)
           ms == [k \in DOMAIN parts |-> UNION Range(parts[k])]
<1>1. /\ phase = "graph" /\ Len(finished) = N
      /\ prog' = prog /\ controlFlowDuplication' = controlFlowDuplication
      /\ deps' = deps /\ path' = path /\ finished' = finished
  BY DEF Partition, option
<1>2. /\ ~TopologicallySorted(nodes) => phase' = "failed" /\ failed' = "not topologically sorted"
      /\ TopologicallySorted(nodes) =>
           \/ phase' = "unchanged" /\ failed' = failed
           \/ /\ mines' = ms
              /\ IF PartitionCycle(ms)
                 THEN phase' = "failed" /\ failed' = "cycle exist between partitions"
                 ELSE phase' = "setup" /\ failed' = failed
  <2> HIDE DEF nodes
  <2>1. dag' = nodes
    BY DEF Partition, nodes
  <2> QED
    BY <2>1 DEF Partition
<1>3. IsGraph(deps, I) /\ I = 1 .. N /\ N \in Nat
  <2>1. WellFormed(prog)
    BY DEF SearchInv, Given
  <2> QED
    BY <1>1, <2>1, GraphOfProgram, ProgramType
<1>4. Searched(I, deps, path, finished)
  BY <1>1 DEF SearchInv, SearchInOrder
<1>5. finished \in Seq(I) /\ IsInjective(finished) /\ LeftBehind(deps, finished)
  BY <1>4 DEF Searched, Visited
<1>6. IsDag(deps, I, nodes) /\ TopologicallySorted(nodes)
  <2> HIDE DEF I, N
  <2> QED
    BY <1>1, <1>3, <1>5, DagIsComplete, DagIsSorted
<1> HIDE DEF nodes
<1>7. MinesInOrder(deps, I, ms)
  <2> HIDE DEF I
  <2> QED
    BY <1>3, <1>6, PartsInOrder
<1> HIDE DEF ms
<1>8. ~PartitionCycle(ms)
  <2> HIDE DEF I
  <2> QED
    BY <1>7, NoPartitionCycle
<1>9. /\ phase' \in {"unchanged", "setup"} /\ failed' = failed
      /\ phase' = "setup" => mines' = ms
  BY <1>2, <1>6, <1>8
<1>10. PartsApart'
  BY <1>1, <1>7, <1>9 DEF PartsApart
<1>11. SearchInOrder'
  BY <1>1, <1>4 DEF SearchInOrder
<1>12. Given' /\ NotStarted' /\ GraphBuilt' /\ PartitionsAreAcyclic'
  BY <1>1, <1>9 DEF SearchInv, Given, Phases, NotStarted, GraphBuilt, PartitionsAreAcyclic
<1> QED
  BY <1>10, <1>11, <1>12 DEF SearchInv

(* The failures of the later steps are others. *)
SetUpFailures ==
  {"", "a terminator with no successor", "diverges to multiple blocks", "leads to no block",
   "keeper is absent", "dominator not in the bb list", "dominator does not match",
   "fans out inside a loop"}
GenerationFailures ==
  {"", "no return value",
   "partition does not see allocated channel", "sr partition sees allocated channel",
   "Error in checking control flow structure", "not finding original return block",
   "incoming block was not kept"}

(* An assertion of setupBBStructure is one of those. *)
LEMMA SetUpFailureIsOne ==
  ASSUME NEW p, NEW mine, NEW cfDup
  PROVE  setupBBStructure(p, mine, cfDup).failed \in SetUpFailures
<1> DEFINE t == trimBBList(p, mine, generateBBList(p, mine, cfDup))
           check == IF t.failed # "" THEN t.failed
                    ELSE IF checkDominator(p.cfg, t) # "" THEN checkDominator(p.cfg, t)
                    ELSE IF cfDup /\ ~allExitOutsideLoop(p.cfg, t) THEN "fans out inside a loop"
                    ELSE ""
<1>1. DOMAIN t = {"all", "dominator", "remap", "singleSuc", "failed"} /\ t.failed \in SetUpFailures
  BY DEF trimBBList, SetUpFailures
<1>2. checkDominator(p.cfg, t) \in SetUpFailures
  BY DEF checkDominator, SetUpFailures
<1>3. setupBBStructure(p, mine, cfDup) = [t EXCEPT !.failed = check]
  BY DEF setupBBStructure
<1> HIDE DEF t
<1>4. check \in SetUpFailures
  BY <1>1, <1>2 DEF SetUpFailures
<1> HIDE DEF check
<1> QED
  BY <1>1, <1>3, <1>4

(* setting up a partition, *)
LEMMA SetUpKeeps ==
  ASSUME SearchInv, SetUp
  PROVE  SearchInv'
<1> DEFINE bbs == setupBBStructure(prog, mines[Len(bbss) + 1], controlFlowDuplication)
<1>1. /\ phase = "setup" /\ phase' \in {"failed", "generate", "setup"}
      /\ failed' = bbs.failed
      /\ prog' = prog /\ controlFlowDuplication' = controlFlowDuplication
      /\ deps' = deps /\ path' = path /\ finished' = finished /\ mines' = mines
  BY DEF SetUp, option
<1>2. failed' \in SetUpFailures
  BY <1>1, SetUpFailureIsOne
<1> HIDE DEF bbs
<1>3. PartitionsAreAcyclic'
  BY <1>2 DEF SetUpFailures, PartitionsAreAcyclic
<1> QED
  BY <1>1, <1>3 DEF SearchInv, Given, Phases, NotStarted, GraphBuilt, SearchInOrder, PartsApart

(* and generating a function. *)
LEMMA GenerateKeeps ==
  ASSUME SearchInv, GenerateFunction
  PROVE  SearchInv'
<1> DEFINE k    == Len(functions) + 1
           recv == Receives(prog, mines[k], bbss[k])
           send == Sends(prog, mines, bbss, k)
<1>1. /\ phase = "generate" /\ phase' \in {"failed", "generate", "done"}
      /\ failed' = failed \/ failed' = GenerationFailure(k, recv, send)
      /\ prog' = prog /\ controlFlowDuplication' = controlFlowDuplication
      /\ deps' = deps /\ path' = path /\ finished' = finished /\ mines' = mines
  BY DEF GenerateFunction, option
<1>2. GenerationFailure(k, recv, send) \in GenerationFailures
  BY DEF GenerationFailure, GenerationFailures, createFailure, phiFailure
<1> HIDE DEF k, recv, send
<1>3. PartitionsAreAcyclic'
  BY <1>1, <1>2 DEF SearchInv, GenerationFailures, PartitionsAreAcyclic
<1> QED
  BY <1>1, <1>3 DEF SearchInv, Given, Phases, NotStarted, GraphBuilt, SearchInOrder, PartsApart

(* The invariant, of every execution. *)
LEMMA SearchInvariant == Spec => []SearchInv
<1>1. ASSUME SearchInv, [Next]_vars PROVE SearchInv'
  <2>1. CASE Next
    BY <1>1, <2>1, BuildGraphKeeps, VisitKeeps, PartitionKeeps, SetUpKeeps, GenerateKeeps DEF Next
  <2>2. CASE UNCHANGED vars
    BY <1>1, <2>2 DEF vars, option, SearchInv, Given, NotStarted, GraphBuilt, SearchInOrder,
                      PartsApart, PartitionsAreAcyclic
  <2> QED
    BY <1>1, <2>1, <2>2
<1> QED
  BY <1>1, SearchInit, PTL DEF Spec

(* Whatever the functions and the order of their use lists: the components come  *)
(* out in a topological order and the partitions never wait for each other, so   *)
(* that neither assertion about the order fails.                                  *)
THEOREM AcyclicPartitions == Spec => []PartitionsAreAcyclic
<1>1. SearchInv => PartitionsAreAcyclic
  BY DEF SearchInv
<1> QED
  BY <1>1, SearchInvariant, PTL

-----------------------------------------------------------------------------
(* From step to step the pass also keeps this. *)

(* One function per partition, each receiving what earlier ones send. *)
SetUpInOrder ==
  /\ IsSequence(bbss) /\ Len(bbss) <= Len(mines)
  /\ \A k \in DOMAIN bbss : bbss[k] = setupBBStructure(prog, mines[k], controlFlowDuplication)
  /\ phase \in {"generate", "done"} => Len(bbss) = Len(mines)
  /\ phase = "setup" => Len(bbss) < Len(mines)
  /\ phase \in {"start", "graph", "unchanged"} => bbss = <<>>
GeneratedInOrder ==
  /\ IsSequence(functions) /\ Len(functions) <= Len(bbss)
  /\ \A k \in DOMAIN functions :
       /\ functions[k].send = Sends(prog, mines, bbss, k)
       /\ functions[k].recv = Receives(prog, mines[k], bbss[k])
       /\ functions[k].recv \subseteq UNION {functions[j].send : j \in 1 .. k - 1}
  /\ channels = UNION {functions[j].send : j \in DOMAIN functions}
  /\ functions # <<>> => phase \in {"generate", "done", "failed"} /\ Len(bbss) = Len(mines)
  /\ phase = "generate" => Len(functions) < Len(mines)
  /\ phase = "done" => Len(functions) = Len(mines)

(* The parts are apart as soon as there are any. *)
FoundInOrder ==
  /\ MinesInOrder(deps, Instrs(prog), mines)
  /\ dag \in Seq(SUBSET Instrs(prog))
  /\ phase \in {"start", "graph"} => mines = <<>>
  /\ (failed # "") <=> (phase = "failed")

FunctionsInv == SearchInv /\ FoundInOrder /\ SetUpInOrder /\ GeneratedInOrder

(* It holds at the start ... *)
LEMMA FunctionsInit == Init => FunctionsInv
<1> SUFFICES ASSUME Init PROVE FunctionsInv
  OBVIOUS
<1>1. SearchInv
  BY SearchInit
<1>2. /\ dag = <<>> /\ mines = <<>> /\ bbss = <<>> /\ functions = <<>>
      /\ channels = {} /\ phase = "start" /\ failed = ""
  BY DEF Init, Start
<1>3. FoundInOrder
  <2> DEFINE I == Instrs(prog)
  <2> HIDE DEF I
  <2>1. <<>> \in Seq(SUBSET I)
    OBVIOUS
  <2>2. MinesInOrder(deps, I, <<>>)
    BY <2>1, EmptyIsSequence DEF MinesInOrder
  <2> QED
    BY <1>2, <2>1, <2>2 DEF FoundInOrder, I
<1>4. SetUpInOrder
  <2>1. /\ IsSequence(bbss) /\ Len(bbss) = 0 /\ Len(mines) = 0
        /\ \A k \in DOMAIN bbss : FALSE
    BY <1>2, EmptyIsSequence
  <2>2. Len(bbss) <= Len(mines)
    BY <2>1
  <2>3. phase \notin {"generate", "done", "setup"}
    BY <1>2
  <2> QED
    BY <1>2, <2>1, <2>2, <2>3, Zenon DEF SetUpInOrder
<1>5. GeneratedInOrder
  <2>1. \A k \in DOMAIN functions : FALSE
    BY <1>2, EmptyIsSequence
  <2>2. channels = UNION {functions[j].send : j \in DOMAIN functions}
    BY <1>2, <2>1
  <2>3. IsSequence(functions) /\ Len(functions) = 0 /\ Len(bbss) = 0
    BY <1>2, EmptyIsSequence
  <2>4. Len(functions) <= Len(bbss)
    BY <2>3
  <2>5. phase \notin {"generate", "done"}
    BY <1>2
  <2> QED
    BY <1>2, <2>1, <2>2, <2>3, <2>4, <2>5, Zenon DEF GeneratedInOrder
<1> QED
  BY <1>1, <1>3, <1>4, <1>5 DEF FunctionsInv

(* ... and the actions keep it: building the graph, *)
LEMMA BuildGraphOrders ==
  ASSUME FunctionsInv, BuildGraph
  PROVE  FunctionsInv'
<1>1. SearchInv'
  BY BuildGraphKeeps DEF FunctionsInv
<1>2. /\ phase = "start" /\ phase' = "graph" /\ deps' = Dependents(prog) /\ prog' = prog
      /\ controlFlowDuplication' = controlFlowDuplication
      /\ dag' = dag /\ mines' = mines /\ bbss' = bbss /\ functions' = functions
      /\ channels' = channels /\ failed' = failed
  BY DEF BuildGraph, option
<1>3. FoundInOrder'
  <2>1. mines = <<>> /\ dag \in Seq(SUBSET Instrs(prog)) /\ failed = ""
    BY <1>2 DEF FunctionsInv, FoundInOrder
  <2>2. MinesInOrder(deps', Instrs(prog), <<>>)
    <3> DEFINE I == Instrs(prog)
    <3> HIDE DEF I
    <3>1. <<>> \in Seq(SUBSET I)
      OBVIOUS
    <3> QED
      BY <3>1, EmptyIsSequence DEF MinesInOrder, I
  <2> QED
    BY <1>2, <2>1, <2>2 DEF FoundInOrder
<1>4. SetUpInOrder'
  BY <1>2 DEF FunctionsInv, SetUpInOrder
<1>5. GeneratedInOrder'
  BY <1>2 DEF FunctionsInv, GeneratedInOrder
<1> QED
  BY <1>1, <1>3, <1>4, <1>5 DEF FunctionsInv

(* entering an instruction, *)
LEMMA VisitOrders ==
  ASSUME FunctionsInv, NEW i \in DOMAIN deps, Visit(i)
  PROVE  FunctionsInv'
<1>1. SearchInv'
  BY VisitKeeps DEF FunctionsInv
<1>2. /\ phase' = phase /\ deps' = deps /\ prog' = prog
      /\ controlFlowDuplication' = controlFlowDuplication
      /\ dag' = dag /\ mines' = mines /\ bbss' = bbss /\ functions' = functions
      /\ channels' = channels /\ failed' = failed
  BY DEF Visit, option
<1>3. FoundInOrder' /\ SetUpInOrder'
  BY <1>2 DEF FunctionsInv, FoundInOrder, SetUpInOrder
<1>4. GeneratedInOrder'
  BY <1>2 DEF FunctionsInv, GeneratedInOrder
<1> QED
  BY <1>1, <1>3, <1>4 DEF FunctionsInv

(* cutting the components, *)
LEMMA PartitionOrders ==
  ASSUME FunctionsInv, Partition
  PROVE  FunctionsInv'
<1> DEFINE I == Instrs(prog)
           nodes == DagNodes(finished)
           parts == barrierPartition(nodes)
           ms == [k \in DOMAIN parts |-> UNION Range(parts[k])]
<1>1. SearchInv' /\ PartitionsAreAcyclic'
  BY PartitionKeeps DEF FunctionsInv, SearchInv
<1>2. /\ phase = "graph" /\ deps' = deps /\ prog' = prog /\ dag' = nodes
      /\ controlFlowDuplication' = controlFlowDuplication
      /\ bbss' = bbss /\ functions' = functions /\ channels' = channels
  BY DEF Partition, option
<1>3. \/ phase' = "unchanged" /\ mines' = mines /\ failed' = failed
      \/ phase' = "setup" /\ mines' = ms /\ failed' = failed /\ ~(Len(ms) <= 1)
  <2> HIDE DEF nodes
  <2>1. dag' = nodes
    BY <1>2
  <2> QED
    BY <1>1, <2>1 DEF Partition, PartitionsAreAcyclic
<1>4. bbss = <<>> /\ mines = <<>> /\ failed = "" /\ functions = <<>>
      /\ MinesInOrder(deps, I, mines)
  BY <1>2 DEF FunctionsInv, FoundInOrder, SetUpInOrder, GeneratedInOrder
<1>5. nodes \in Seq(SUBSET I)
  <2>1. IsGraph(deps, I) /\ I = 1 .. Len(prog.code) /\ Len(prog.code) \in Nat
    BY <1>2, GraphOfProgram, ProgramType DEF FunctionsInv, SearchInv, Given
  <2>2. finished \in Seq(I) /\ IsInjective(finished) /\ Len(finished) = Len(prog.code)
    BY <1>2 DEF FunctionsInv, SearchInv, SearchInOrder, Searched, Visited, Partition
  <2> HIDE DEF I
  <2>3. IsDag(deps, I, nodes)
    BY <2>1, <2>2, DagIsComplete
  <2> QED
    BY <2>3 DEF IsDag
<1>6. PartsApart'
  BY <1>1 DEF SearchInv
<1> HIDE DEF nodes, ms
<1>7. FoundInOrder'
  <2>1. MinesInOrder(deps', Instrs(prog'), mines')
    BY <1>2, <1>3, <1>4, <1>6 DEF PartsApart
  <2> QED
    BY <1>2, <1>3, <1>4, <1>5, <2>1 DEF FoundInOrder
<1>8. IsSequence(bbss) /\ Len(bbss) = 0 /\ \A k \in DOMAIN bbss : FALSE
  BY <1>4, EmptyIsSequence
<1>9. Len(bbss) <= Len(mines') /\ (phase' = "setup" => Len(bbss) < Len(mines'))
  <2>1. CASE phase' = "unchanged" /\ mines' = mines
    <3>1. Len(mines') = 0
      BY <1>4, <2>1, EmptyIsSequence
    <3>2. phase' # "setup"
      BY <2>1
    <3> QED
      BY <1>8, <3>1, <3>2
  <2>2. CASE mines' = ms /\ ~(Len(ms) <= 1)
    <3> DEFINE J == Instrs(prog')
    <3>1. mines' \in Seq(SUBSET J)
      BY <1>7 DEF FoundInOrder, MinesInOrder
    <3> HIDE DEF J
    <3>2. Len(mines') \in Nat
      BY <3>1
    <3> QED
      BY <1>8, <2>2, <3>2
  <2> QED
    BY <1>3, <2>1, <2>2
<1>10. SetUpInOrder'
  BY <1>2, <1>3, <1>4, <1>8, <1>9 DEF SetUpInOrder
<1>11. \A k \in DOMAIN functions : FALSE
  BY <1>4, EmptyIsSequence
<1>12. GeneratedInOrder'
  BY <1>2, <1>3, <1>4, <1>11 DEF FunctionsInv, GeneratedInOrder
<1> QED
  BY <1>1, <1>7, <1>10, <1>12 DEF FunctionsInv

(* setting up a partition, *)
LEMMA SetUpOrders ==
  ASSUME FunctionsInv, SetUp
  PROVE  FunctionsInv'
<1> DEFINE k   == Len(bbss) + 1
           bbs == setupBBStructure(prog, mines[k], controlFlowDuplication)
<1>1. SearchInv'
  BY SetUpKeeps DEF FunctionsInv
<1>2. /\ phase = "setup" /\ bbss' = Append(bbss, bbs) /\ failed' = bbs.failed
      /\ phase' = IF bbs.failed # "" THEN "failed"
                  ELSE IF k = Len(mines) THEN "generate" ELSE "setup"
      /\ deps' = deps /\ prog' = prog /\ controlFlowDuplication' = controlFlowDuplication
      /\ dag' = dag /\ mines' = mines /\ functions' = functions /\ channels' = channels
  BY DEF SetUp, option
<1>3. /\ IsSequence(bbss) /\ Len(bbss) < Len(mines)
      /\ \A j \in DOMAIN bbss : bbss[j] = setupBBStructure(prog, mines[j], controlFlowDuplication)
  BY <1>2 DEF FunctionsInv, SetUpInOrder
<1>4. Len(mines) \in Nat
  <2> DEFINE I == Instrs(prog)
  <2>1. mines \in Seq(SUBSET I)
    BY DEF FunctionsInv, FoundInOrder, MinesInOrder
  <2> HIDE DEF I
  <2> QED
    BY <2>1
<1>5. functions = <<>> /\ channels = UNION {functions[j].send : j \in DOMAIN functions}
  BY <1>2 DEF FunctionsInv, GeneratedInOrder
<1>6. FoundInOrder'
  <2> HIDE DEF k, bbs
  <2> QED
    BY <1>2 DEF FunctionsInv, FoundInOrder
<1>7. /\ IsSequence(bbss') /\ Len(bbss') = Len(bbss) + 1 /\ Len(bbss) \in Nat
      /\ DOMAIN bbss = 1 .. Len(bbss) /\ DOMAIN bbss' = 1 .. Len(bbss) + 1
      /\ \A j \in 1 .. Len(bbss) : bbss'[j] = bbss[j]
      /\ bbss'[Len(bbss) + 1] = bbs
  <2> HIDE DEF bbs
  <2>1. Lengthened(bbss', bbss, bbs)
    BY <1>2 DEF Lengthened
  <2> QED
    BY <1>3, <2>1, OneMoreItem
<1>8. SetUpInOrder'
  <2>1. ASSUME NEW j \in DOMAIN bbss'
        PROVE  bbss'[j] = setupBBStructure(prog, mines[j], controlFlowDuplication)
    <3>1. CASE j \in 1 .. Len(bbss)
      BY <1>3, <1>7, <3>1
    <3>2. CASE j = Len(bbss) + 1
      BY <1>7, <3>2
    <3> QED
      BY <1>7, <3>1, <3>2
  <2>2. Len(bbss') <= Len(mines) /\ k \in Nat
    BY <1>3, <1>4, <1>7
  <2> HIDE DEF bbs
  <2>3. phase' \in {"failed", "generate", "setup"} /\ (phase' = "generate" => Len(bbss') = Len(mines))
    BY <1>2, <1>7
  <2>4. phase' = "setup" => Len(bbss') < Len(mines)
    <3>1. phase' = "setup" => k # Len(mines)
      BY <1>2
    <3> HIDE DEF k
    <3>2. Len(bbss') = k
      BY <1>7 DEF k
    <3> QED
      BY <1>4, <2>2, <3>1, <3>2
  <2> QED
    BY <1>2, <1>7, <2>1, <2>2, <2>3, <2>4 DEF SetUpInOrder
<1>9. GeneratedInOrder'
  <2>1. IsSequence(functions) /\ Len(functions) = 0 /\ \A j \in DOMAIN functions : FALSE
    BY <1>5, EmptyIsSequence
  <2>2. Len(functions) <= Len(bbss') /\ Len(functions) < Len(mines)
    BY <1>3, <1>4, <1>7, <2>1
  <2>3. phase' # "done"
    BY <1>2
  <2>4. functions' = <<>> /\ mines' = mines /\ channels' = UNION {functions'[j].send : j \in DOMAIN functions'}
    BY <1>2, <1>5
  <2> QED
    BY <1>2, <1>5, <2>1, <2>2, <2>3, <2>4 DEF GeneratedInOrder
<1> QED
  BY <1>1, <1>6, <1>8, <1>9 DEF FunctionsInv

(* and generating a function. *)
LEMMA GenerateOrders ==
  ASSUME FunctionsInv, GenerateFunction
  PROVE  FunctionsInv'
<1> DEFINE k    == Len(functions) + 1
           recv == Receives(prog, mines[k], bbss[k])
           send == Sends(prog, mines, bbss, k)
<1>1. SearchInv'
  BY GenerateKeeps DEF FunctionsInv
<1>2. /\ phase = "generate" /\ bbss' = bbss
      /\ deps' = deps /\ prog' = prog /\ controlFlowDuplication' = controlFlowDuplication
      /\ dag' = dag /\ mines' = mines
  BY DEF GenerateFunction, option
<1>3. /\ IsSequence(bbss) /\ Len(bbss) = Len(mines)
  BY <1>2 DEF FunctionsInv, SetUpInOrder
<1>4. /\ IsSequence(functions) /\ Len(functions) < Len(mines) /\ Len(functions) <= Len(bbss)
      /\ \A j \in DOMAIN functions :
           /\ functions[j].send = Sends(prog, mines, bbss, j)
           /\ functions[j].recv = Receives(prog, mines[j], bbss[j])
           /\ functions[j].recv \subseteq UNION {functions[l].send : l \in 1 .. j - 1}
      /\ channels = UNION {functions[j].send : j \in DOMAIN functions}
  BY <1>2 DEF FunctionsInv, GeneratedInOrder
<1>5. Len(mines) \in Nat
  <2> DEFINE I == Instrs(prog)
  <2>1. mines \in Seq(SUBSET I)
    BY DEF FunctionsInv, FoundInOrder, MinesInOrder
  <2> HIDE DEF I
  <2> QED
    BY <2>1
<1>6. failed = ""
  BY <1>2 DEF FunctionsInv, FoundInOrder
<1>7. SetUpInOrder'
  <2>1. phase' \in {"failed", "generate", "done"}
    BY DEF GenerateFunction
  <2> QED
    BY <1>2, <1>3, <2>1 DEF FunctionsInv, SetUpInOrder
<1>8. CASE GenerationFailure(k, recv, send) # ""
  <2>1. /\ phase' = "failed" /\ failed' = GenerationFailure(k, recv, send)
        /\ channels' = channels /\ functions' = functions
    BY <1>8 DEF GenerateFunction
  <2> HIDE DEF k, recv, send
  <2>2. FoundInOrder'
    BY <1>2, <1>8, <2>1 DEF FunctionsInv, FoundInOrder
  <2>3. GeneratedInOrder'
    BY <1>2, <1>3, <2>1 DEF FunctionsInv, GeneratedInOrder
  <2> QED
    BY <1>1, <1>7, <2>2, <2>3 DEF FunctionsInv
<1>9. CASE GenerationFailure(k, recv, send) = ""
  <2>1. PICK r : functions' = Append(functions, r) /\ r.send = send /\ r.recv = recv
    <3>1. \E blockOrder \in SetToSeqs(insBBs(prog, mines[k])) :
            functions' = Append(functions,
                     [recv |-> recv, send |-> send,
                      blocks |-> NewBlocks(prog, mines[k], bbss[k], send, blockOrder),
                      sendBlocks |-> SendBlocks(prog, bbss[k], send)])
      BY <1>9 DEF GenerateFunction
    <3> HIDE DEF k, recv, send
    <3>2. PICK blockOrder : functions' = Append(functions,
                     [recv |-> recv, send |-> send,
                      blocks |-> NewBlocks(prog, mines[k], bbss[k], send, blockOrder),
                      sendBlocks |-> SendBlocks(prog, bbss[k], send)])
      BY <3>1
    <3> DEFINE new == [recv |-> recv, send |-> send,
                       blocks |-> NewBlocks(prog, mines[k], bbss[k], send, blockOrder),
                       sendBlocks |-> SendBlocks(prog, bbss[k], send)]
    <3>3. new.send = send /\ new.recv = recv /\ functions' = Append(functions, new)
      BY <3>2
    <3> QED
      BY <3>3
  <2>2. /\ channels' = channels \cup send /\ failed' = failed
        /\ phase' = IF k = Len(mines) THEN "done" ELSE "generate"
    BY <1>9 DEF GenerateFunction
  <2>3. recv \subseteq channels
    <3> HIDE DEF k, recv, send
    <3> QED
      BY <1>9 DEF GenerationFailure
  <2>4. /\ IsSequence(functions') /\ Len(functions') = Len(functions) + 1 /\ Len(functions) \in Nat
        /\ DOMAIN functions = 1 .. Len(functions) /\ DOMAIN functions' = 1 .. Len(functions) + 1
        /\ \A j \in 1 .. Len(functions) : functions'[j] = functions[j]
        /\ functions'[Len(functions) + 1] = r
        /\ functions' # <<>>
    <3> HIDE DEF recv, send
    <3>1. Lengthened(functions', functions, r)
      BY <2>1 DEF Lengthened
    <3> QED
      BY <1>4, <3>1, OneMoreItem
  <2>5. FoundInOrder'
    BY <1>2, <1>6, <2>2 DEF FunctionsInv, FoundInOrder
  <2> DEFINE Sent(j) == UNION {functions[l].send : l \in 1 .. j}
             SentNow(j) == UNION {functions'[l].send : l \in 1 .. j}
  <2>6. \A j \in 0 .. Len(functions) : SentNow(j) = Sent(j)
    BY <2>4
  <2>7. channels = Sent(Len(functions)) /\ SentNow(Len(functions) + 1) = channels \cup send
    <3>1. channels = Sent(Len(functions))
      BY <1>4, <2>4
    <3> HIDE DEF send
    <3>2. SentNow(Len(functions) + 1) = SentNow(Len(functions)) \cup functions'[Len(functions) + 1].send
      BY <2>4
    <3> HIDE DEF SentNow, Sent
    <3>3. SentNow(Len(functions)) = Sent(Len(functions))
      BY <2>4, <2>6
    <3> QED
      BY <2>1, <2>4, <3>1, <3>2, <3>3
  <2>8. channels' = UNION {functions'[j].send : j \in DOMAIN functions'}
    <3> HIDE DEF send, Sent
    <3> QED
      BY <2>2, <2>4, <2>7
  <2>9. ASSUME NEW j \in DOMAIN functions'
        PROVE  /\ functions'[j].send = Sends(prog, mines, bbss, j)
               /\ functions'[j].recv = Receives(prog, mines[j], bbss[j])
               /\ functions'[j].recv \subseteq UNION {functions'[l].send : l \in 1 .. j - 1}
    <3>1. CASE j \in 1 .. Len(functions)
      <4> HIDE DEF Sent, SentNow
      <4>1. functions'[j] = functions[j] /\ j - 1 \in 0 .. Len(functions) /\ j \in DOMAIN functions
        BY <2>4, <3>1
      <4>2. functions[j].recv \subseteq Sent(j - 1)
        BY <1>4, <4>1 DEF Sent
      <4>3. SentNow(j - 1) = Sent(j - 1)
        BY <2>6, <4>1
      <4>4. functions'[j].recv \subseteq SentNow(j - 1)
        BY <4>1, <4>2, <4>3
      <4> QED
        BY <1>4, <4>1, <4>4 DEF SentNow
    <3>2. CASE j = Len(functions) + 1
      <4>1. functions'[j] = r /\ j - 1 = Len(functions)
        BY <2>4, <3>2
      <4>2. SentNow(j - 1) = channels
        <5> HIDE DEF Sent, SentNow
        <5> QED
          BY <2>4, <2>6, <2>7, <4>1
      <4>3. functions'[j].recv \subseteq SentNow(j - 1)
        <5> HIDE DEF SentNow, recv
        <5> QED
          BY <2>1, <2>3, <4>1, <4>2
      <4> QED
        BY <2>1, <3>2, <4>1, <4>3
    <3> QED
      BY <2>4, <3>1, <3>2
  <2> HIDE DEF recv, send, Sent, SentNow
  <2>10. Len(functions') <= Len(bbss) /\ k = Len(functions')
    BY <1>3, <1>4, <1>5, <2>4
  <2>11. /\ phase' \in {"generate", "done"}
         /\ phase' = "generate" => Len(functions') < Len(mines)
         /\ phase' = "done" => Len(functions') = Len(mines)
    BY <1>3, <1>4, <1>5, <2>2, <2>4
  <2>12. GeneratedInOrder'
    BY <1>2, <1>3, <2>4, <2>8, <2>9, <2>10, <2>11 DEF GeneratedInOrder
  <2> QED
    BY <1>1, <1>7, <2>5, <2>12 DEF FunctionsInv
<1> QED
  BY <1>8, <1>9

(* The invariant, of every execution. *)
LEMMA FunctionsInvariant == Spec => []FunctionsInv
<1>1. ASSUME FunctionsInv, [Next]_vars PROVE FunctionsInv'
  <2>1. CASE Next
    BY <1>1, <2>1, BuildGraphOrders, VisitOrders, PartitionOrders, SetUpOrders, GenerateOrders
       DEF Next
  <2>2. CASE UNCHANGED vars
    <3>1. /\ prog' = prog /\ controlFlowDuplication' = controlFlowDuplication /\ deps' = deps
          /\ path' = path /\ finished' = finished /\ dag' = dag /\ mines' = mines
          /\ bbss' = bbss /\ functions' = functions /\ channels' = channels
          /\ phase' = phase /\ failed' = failed
      BY <2>2 DEF vars, option
    <3>2. SearchInv'
      BY <1>1, <3>1 DEF FunctionsInv, SearchInv, Given, NotStarted, GraphBuilt, SearchInOrder,
                        PartsApart, PartitionsAreAcyclic
    <3>3. FoundInOrder' /\ SetUpInOrder'
      BY <1>1, <3>1 DEF FunctionsInv, FoundInOrder, SetUpInOrder
    <3>4. GeneratedInOrder'
      BY <1>1, <3>1 DEF FunctionsInv, GeneratedInOrder
    <3> QED
      BY <3>2, <3>3, <3>4 DEF FunctionsInv
  <2> QED
    BY <1>1, <2>1, <2>2
<1> QED
  BY <1>1, FunctionsInit, PTL DEF Spec

-----------------------------------------------------------------------------
(* Type correctness *)

(* What is on the path and what is left are different instructions. *)
LEMMA Joined ==
  ASSUME NEW I, NEW p \in Seq(I), NEW f \in Seq(I), Visited(p, f)
  PROVE  IsInjective(p \o f)
<1> DEFINE j == p \o f
<1>1. /\ Len(p) \in Nat /\ Len(f) \in Nat /\ DOMAIN p = 1 .. Len(p) /\ DOMAIN f = 1 .. Len(f)
      /\ DOMAIN j = 1 .. Len(p) + Len(f)
      /\ \A n \in 1 .. Len(p) : j[n] = p[n]
      /\ \A n \in Len(p) + 1 .. Len(p) + Len(f) : n - Len(p) \in 1 .. Len(f) /\ j[n] = f[n - Len(p)]
  OBVIOUS
<1> HIDE DEF j
<1>2. /\ \A m, n \in 1 .. Len(p) : p[m] = p[n] => m = n
      /\ \A m, n \in 1 .. Len(f) : f[m] = f[n] => m = n
      /\ \A m \in 1 .. Len(p), n \in 1 .. Len(f) : p[m] # f[n]
  <2>1. IsInjective(p) /\ IsInjective(f) /\ Range(p) \cap Range(f) = {}
    BY DEF Visited
  <2>2. \A m \in 1 .. Len(p), n \in 1 .. Len(f) : p[m] # f[n]
    BY <1>1, <2>1, Zenon DEF Range
  <2> QED
    BY <1>1, <2>1, <2>2 DEF IsInjective
<1>3. ASSUME NEW m \in 1 .. Len(p) + Len(f), NEW n \in 1 .. Len(p) + Len(f), j[m] = j[n]
      PROVE  m = n
  <2>1. CASE m <= Len(p) /\ n <= Len(p)
    BY <1>1, <1>2, <1>3, <2>1
  <2>2. CASE m > Len(p) /\ n > Len(p)
    <3>1. m - Len(p) \in 1 .. Len(f) /\ n - Len(p) \in 1 .. Len(f) /\ f[m - Len(p)] = f[n - Len(p)]
      BY <1>1, <1>3, <2>2
    <3>2. m - Len(p) = n - Len(p)
      BY <1>2, <3>1
    <3> QED
      BY <1>1, <3>2
  <2>3. CASE m <= Len(p) /\ n > Len(p)
    BY <1>1, <1>2, <1>3, <2>3
  <2>4. CASE m > Len(p) /\ n <= Len(p)
    BY <1>1, <1>2, <1>3, <2>4
  <2> QED
    BY <1>1, <2>1, <2>2, <2>3, <2>4
<1> QED
  BY <1>1, <1>3 DEF IsInjective, j

(* Each partition is a set of instructions, and its blocks are its own. *)
LEMMA PartitionFits ==
  ASSUME FunctionsInv, NEW k \in DOMAIN bbss
  PROVE  /\ k \in DOMAIN mines /\ mines[k] \in SUBSET Instrs(prog)
         /\ BlocksFit(prog, mines[k], bbss[k])
<1> DEFINE I == Instrs(prog)
<1>1. mines \in Seq(SUBSET I)
  BY DEF FunctionsInv, FoundInOrder, MinesInOrder
<1>2. /\ IsSequence(bbss) /\ Len(bbss) <= Len(mines)
      /\ bbss[k] = setupBBStructure(prog, mines[k], controlFlowDuplication)
  BY DEF FunctionsInv, SetUpInOrder
<1>3. k \in DOMAIN mines /\ mines[k] \in SUBSET I
  <2>1. DOMAIN bbss = 1 .. Len(bbss) /\ Len(bbss) \in Nat
    BY <1>2 DEF IsSequence
  <2> HIDE DEF I
  <2>2. DOMAIN mines = 1 .. Len(mines) /\ Len(mines) \in Nat
    BY <1>1
  <2>3. k \in DOMAIN mines
    BY <1>2, <2>1, <2>2
  <2> QED
    BY <1>1, <2>3
<1>4. WellFormed(prog)
  BY DEF FunctionsInv, SearchInv, Given
<1> QED
  BY <1>2, <1>3, <1>4, SetUpFits

(* A function sends what its partition computes. *)
LEMMA FunctionFits ==
  ASSUME FunctionsInv, NEW k \in DOMAIN functions
  PROVE  /\ k \in DOMAIN bbss /\ k \in DOMAIN mines
         /\ functions[k].send = Sends(prog, mines, bbss, k)
         /\ functions[k].recv = Receives(prog, mines[k], bbss[k])
         /\ functions[k].send \subseteq mines[k]
<1>1. /\ IsSequence(bbss) /\ IsSequence(functions) /\ Len(functions) <= Len(bbss)
      /\ functions[k].send = Sends(prog, mines, bbss, k)
      /\ functions[k].recv = Receives(prog, mines[k], bbss[k])
  BY DEF FunctionsInv, SetUpInOrder, GeneratedInOrder
<1>2. k \in DOMAIN bbss
  <2>1. DOMAIN bbss = 1 .. Len(bbss) /\ Len(bbss) \in Nat
    BY <1>1 DEF IsSequence
  <2>2. DOMAIN functions = 1 .. Len(functions) /\ Len(functions) \in Nat
    BY <1>1 DEF IsSequence
  <2> QED
    BY <1>1, <2>1, <2>2
<1>3. k \in DOMAIN mines
  BY <1>2, PartitionFits
<1>4. functions[k].send \subseteq mines[k]
  BY <1>1 DEF Sends
<1> QED
  BY <1>1, <1>2, <1>3, <1>4

(* Every variable keeps its type; no instruction is entered or left twice. *)
THEOREM TypeCorrect == Spec => []TypeOK
<1>1. FunctionsInv => TypeOK
  <2> SUFFICES ASSUME FunctionsInv PROVE TypeOK
    OBVIOUS
  <2> DEFINE I == DOMAIN prog.code
  <2>1. I = Instrs(prog)
    BY DEF Instrs
  <2>2. WellFormed(prog) /\ controlFlowDuplication \in BOOLEAN /\ phase \in Phases
    BY DEF FunctionsInv, SearchInv, Given
  <2>3. deps \in {<<>>} \cup [I -> SUBSET I]
    BY <2>1, DependentsType DEF FunctionsInv, SearchInv, NotStarted, GraphBuilt
  <2>4. path \in Seq(I) /\ finished \in Seq(I) /\ IsInjective(path \o finished)
    <3>1. CASE phase = "start"
      <4>1. path = <<>> /\ finished = <<>>
        BY <3>1 DEF FunctionsInv, SearchInv, NotStarted
      <4> HIDE DEF I
      <4>2. IsInjective(<<>> \o <<>>)
        BY DEF IsInjective
      <4> QED
        BY <4>1, <4>2
    <3>2. CASE phase # "start"
      <4>1. Searched(I, deps, path, finished)
        BY <2>1, <3>2 DEF FunctionsInv, SearchInv, SearchInOrder
      <4> HIDE DEF I
      <4> QED
        BY <4>1, Joined DEF Searched
    <3> QED
      BY <3>1, <3>2
  <2>5. dag \in Seq(SUBSET I) /\ mines \in Seq(SUBSET I) /\ ((failed # "") <=> (phase = "failed"))
    BY <2>1 DEF FunctionsInv, FoundInOrder, MinesInOrder
  <2>6. \A k \in DOMAIN bbss : bbss[k].all \subseteq Blocks(prog)
    BY PartitionFits DEF BlocksFit
  <2>7. channels \subseteq I
    <3>1. channels = UNION {functions[j].send : j \in DOMAIN functions}
      BY DEF FunctionsInv, GeneratedInOrder
    <3>2. \A j \in DOMAIN functions : functions[j].send \subseteq I
      BY <2>1, FunctionFits, PartitionFits
    <3> QED
      BY <3>1, <3>2
  <2>8. Len(functions) <= Len(bbss) /\ Len(bbss) <= Len(mines)
    BY DEF FunctionsInv, SetUpInOrder, GeneratedInOrder
  <2> QED
    BY <2>2, <2>3, <2>4, <2>5, <2>6, <2>7, <2>8 DEF TypeOK, Phases
<1> QED
  BY <1>1, FunctionsInvariant, PTL

-----------------------------------------------------------------------------
(* The functions and their channels *)

(* Every channel of the generated program has one sender and at least one receiver, *)
(* the sender first, and both ends execute the block of the instruction.            *)
THEOREM ChannelEndsMatch == Spec => []EndsMatch
<1>1. FunctionsInv => EndsMatch
  <2> SUFFICES ASSUME FunctionsInv, phase = "done", NEW i \in DOMAIN prog.code
               PROVE  LET senders   == {k \in DOMAIN functions : i \in functions[k].send}
                          receivers == {k \in DOMAIN functions : i \in functions[k].recv}
                      IN  /\ Cardinality(senders) = (IF receivers = {} THEN 0 ELSE 1)
                          /\ \A s \in senders, r \in receivers :
                               s < r /\ BlockOf(prog, i) \in bbss[s].all \cap bbss[r].all
    BY DEF EndsMatch
  <2> DEFINE senders   == {k \in DOMAIN functions : i \in functions[k].send}
             receivers == {k \in DOMAIN functions : i \in functions[k].recv}
  <2>1. /\ Len(functions) = Len(mines)
        /\ DOMAIN functions = 1 .. Len(functions) /\ Len(functions) \in Nat
        /\ DOMAIN mines = 1 .. Len(mines)
    <3> DEFINE I == Instrs(prog)
    <3>1. IsSequence(functions) /\ Len(functions) = Len(mines)
      BY DEF FunctionsInv, GeneratedInOrder
    <3>2. mines \in Seq(SUBSET I)
      BY DEF FunctionsInv, FoundInOrder, MinesInOrder
    <3> HIDE DEF I
    <3>3. DOMAIN functions = 1 .. Len(functions) /\ Len(functions) \in Nat
      BY <3>1 DEF IsSequence
    <3> QED
      BY <3>1, <3>2, <3>3
  <2>2. \A p, q \in DOMAIN mines : p # q => mines[p] \cap mines[q] = {}
    <3>1. \A p, q \in DOMAIN mines : p < q => mines[p] \cap mines[q] = {}
      BY DEF FunctionsInv, FoundInOrder, MinesInOrder
    <3> QED
      BY <2>1, <3>1
  <2>3. \A r \in receivers : \E s \in senders : s < r
    <3> SUFFICES ASSUME NEW r \in receivers PROVE \E s \in senders : s < r
      OBVIOUS
    <3>1. functions[r].recv \subseteq UNION {functions[j].send : j \in 1 .. r - 1}
      BY DEF FunctionsInv, GeneratedInOrder
    <3>2. PICK j \in 1 .. r - 1 : i \in functions[j].send
      BY <3>1
    <3> QED
      BY <2>1, <3>2
  <2>4. \A s, t \in senders : s = t
    BY <2>2, FunctionFits
  <2>5. ASSUME NEW s \in senders PROVE receivers # {}
    <3>1. i \in Sends(prog, mines, bbss, s) /\ i \in mines[s] /\ s \in DOMAIN mines
      BY FunctionFits
    <3>2. PICK q \in DOMAIN mines \ {s} :
             IF IsTerm(prog, i) THEN i \in TagsWanted(prog, mines[q], bbss[q])
                                ELSE i \in Operands(prog, mines[q])
      BY <3>1 DEF Sends, ReceiverExists
    <3>3. q \in DOMAIN functions /\ i \notin mines[q]
      BY <2>1, <2>2, <3>1
    <3>4. i \in Receives(prog, mines[q], bbss[q])
      BY <3>2, <3>3 DEF Receives
    <3> QED
      BY <3>3, <3>4, FunctionFits
  <2>6. Cardinality(senders) = IF receivers = {} THEN 0 ELSE 1
    <3>1. CASE receivers = {}
      <4>1. senders = {}
        BY <2>5, <3>1
      <4> HIDE DEF senders, receivers
      <4> QED
        BY <3>1, <4>1, FS_EmptySet
    <3>2. CASE receivers # {}
      <4>1. PICK s : s \in senders
        BY <2>3, <3>2
      <4>2. senders = {s}
        BY <2>4, <4>1
      <4> HIDE DEF senders, receivers
      <4> QED
        BY <3>2, <4>2, FS_Singleton
    <3> QED
      BY <3>1, <3>2
  <2>7. ASSUME NEW s \in senders, NEW r \in receivers
        PROVE  s < r /\ BlockOf(prog, i) \in bbss[s].all \cap bbss[r].all
    <3>1. s < r
      BY <2>3, <2>4
    <3>2. BlockOf(prog, i) \in bbss[s].all
      <4>1. i \in mines[s] /\ BlocksFit(prog, mines[s], bbss[s])
        BY FunctionFits, PartitionFits
      <4>2. BlockOf(prog, i) \in insBBs(prog, mines[s])
        BY <4>1 DEF insBBs, BlocksOf
      <4> QED
        BY <4>1, <4>2 DEF BlocksFit
    <3>3. BlockOf(prog, i) \in bbss[r].all
      <4>1. i \in Receives(prog, mines[r], bbss[r]) /\ r \in DOMAIN bbss
        BY FunctionFits
      <4>2. mines[r] \in SUBSET Instrs(prog) /\ BlocksFit(prog, mines[r], bbss[r])
        BY <4>1, PartitionFits
      <4>3. WellFormed(prog)
        BY DEF FunctionsInv, SearchInv, Given
      <4> QED
        BY <4>1, <4>2, <4>3, ReceivedIsNeeded
    <3> QED
      BY <3>1, <3>2, <3>3
  <2> QED
    BY <2>6, <2>7
<1> QED
  BY <1>1, FunctionsInvariant, PTL

(* The owner of a branch and the partitions that follow it agree on what its tag *)
(* means, and the channel is wide enough for it.                                 *)
THEOREM TagsMeanTheSame == Spec => []TagsAgree
<1>1. FunctionsInv => TagsAgree
  <2> SUFFICES ASSUME FunctionsInv, NEW k \in DOMAIN functions, NEW q \in DOMAIN functions,
                      NEW t \in functions[k].send,
                      NEW n \in DOMAIN prog.cfg.succ[BlockOf(prog, t)]
               PROVE  LET succ == prog.cfg.succ[BlockOf(prog, t)]
                          tag  == TagSent(succ, n)
                      IN  /\ tag < 2 ^ integerWidthForSuccessors(Len(succ))
                          /\ TagDestination(prog, bbss[q], succ, tag)
                               = mapOriginalBBDest2CurrentBBDest(prog, bbss[q], succ[n])
    BY DEF TagsAgree
  <2> DEFINE B    == Blocks(prog)
             succ == prog.cfg.succ[BlockOf(prog, t)]
             L    == Len(succ)
             tag  == TagSent(succ, n)
  <2>1. succ \in Seq(B)
    <3>1. t \in Instrs(prog)
      BY FunctionFits, PartitionFits
    <3>2. WellFormed(prog)
      BY DEF FunctionsInv, SearchInv, Given
    <3>3. BlockOf(prog, t) \in DOMAIN prog.cfg.succ
      BY <3>1, <3>2, ProgramType DEF Blocks, BlocksIn
    <3>4. prog.cfg.succ \in Seq(Seq(B))
      BY <3>2 DEF WellFormed
    <3> HIDE DEF B
    <3> QED
      BY <3>3, <3>4
  <2>2. L \in Nat /\ DOMAIN succ = 1 .. L /\ n \in 1 .. L
    <3>1. n \in DOMAIN succ
      OBVIOUS
    <3> HIDE DEF succ, B
    <3> QED
      BY <2>1, <3>1
  <2> HIDE DEF succ, L, B
  <2>3. tag + 1 \in 1 .. L /\ tag \in Nat /\ succ[tag + 1] = succ[n]
    <3>1. CASE Len(succ) = 2
      <4>1. tag = n - 1
        BY <3>1 DEF TagSent
      <4>2. tag + 1 = n /\ tag \in Nat
        BY <2>2, <4>1
      <4> QED
        BY <2>2, <4>2
    <3>2. CASE Len(succ) # 2
      <4> DEFINE m == FirstOf(succ, n)
      <4>1. tag = m - 1
        BY <3>2 DEF TagSent
      <4>2. m \in 1 .. L /\ succ[m] = succ[n]
        BY <2>2, FirstIsSame
      <4> HIDE DEF m
      <4>3. tag + 1 = m /\ tag \in Nat
        BY <2>2, <4>1, <4>2
      <4> QED
        BY <4>2, <4>3
    <3> QED
      BY <3>1, <3>2
  <2> HIDE DEF tag
  <2>4. tag < 2 ^ integerWidthForSuccessors(L)
    <3> DEFINE W == 2 ^ integerWidthForSuccessors(L)
    <3>1. L <= W /\ W \in Nat
      BY <2>2, WideEnough
    <3> HIDE DEF W
    <3>2. tag < W
      BY <2>2, <2>3, <3>1
    <3> QED
      BY <3>2 DEF W
  <2>5. TagDestination(prog, bbss[q], succ, tag)
          = mapOriginalBBDest2CurrentBBDest(prog, bbss[q], succ[n])
    <3>1. TagDestination(prog, bbss[q], succ, tag)
            = mapOriginalBBDest2CurrentBBDest(prog, bbss[q], succ[tag + 1])
      BY <2>2, <2>3 DEF TagDestination
    <3> QED
      BY <2>3, <3>1
  <2> QED
    BY <2>4, <2>5 DEF succ, L, tag
<1> QED
  BY <1>1, FunctionsInvariant, PTL

-----------------------------------------------------------------------------
(* The order of the items *)

(* The blocks of a partition are visited once each. *)
LEMMA AddressOrder ==
  ASSUME NEW p, WellFormed(p), Connected(p.cfg), NEW mine \in SUBSET Instrs(p),
         NEW blockOrder \in SetToSeqs(insBBs(p, mine))
  PROVE  BlockOrder(p, blockOrder)
<1> DEFINE S == insBBs(p, mine)
           N == Cardinality(S)
<1>1. S \subseteq Blocks(p) /\ IsFiniteSet(S)
  <2>1. S \subseteq Blocks(p)
    BY ProgramType DEF insBBs, BlocksOf
  <2>2. IsFiniteSet(Blocks(p))
    BY ProgramCfg DEF IsCfg
  <2> QED
    BY <2>1, <2>2, FS_Subset
<1> HIDE DEF S
<1>2. N \in Nat
  BY <1>1, FS_CardinalityType
<1>3. blockOrder \in [1 .. N -> S] /\ \A i, j \in 1 .. N : i # j => blockOrder[i] # blockOrder[j]
  BY DEF SetToSeqs, S
<1> HIDE DEF N
<1>4. blockOrder \in Seq(Blocks(p))
  <2>1. blockOrder \in [1 .. N -> Blocks(p)]
    BY <1>1, <1>3
  <2> QED
    BY <1>2, <2>1
<1>5. IsInjective(blockOrder)
  BY <1>3 DEF IsInjective
<1> QED
  BY <1>4, <1>5 DEF BlockOrder

(* A list of functions whose items are in order gets one more. *)
BlocksInOrder(p, f) == \A b \in DOMAIN f.blocks : InOrder(ItemOrder(p), f.blocks[b])

OrderInv == /\ FunctionsInv
            /\ Connected(prog.cfg)
            /\ \A k \in DOMAIN functions : BlocksInOrder(prog, functions[k])

LEMMA GenerateKeepsOrder ==
  ASSUME OrderInv, GenerateFunction
  PROVE  \A k \in DOMAIN functions' : BlocksInOrder(prog, functions'[k])
<1> DEFINE k    == Len(functions) + 1
           recv == Receives(prog, mines[k], bbss[k])
           send == Sends(prog, mines, bbss, k)
<1>1. FunctionsInv /\ phase = "generate"
  BY DEF OrderInv, GenerateFunction
<1>2. k \in DOMAIN bbss /\ IsSequence(functions)
  <2>1. IsSequence(bbss) /\ Len(bbss) = Len(mines)
    BY <1>1 DEF FunctionsInv, SetUpInOrder
  <2>2. IsSequence(functions) /\ Len(functions) < Len(mines)
    BY <1>1 DEF FunctionsInv, GeneratedInOrder
  <2>3. Len(bbss) \in Nat /\ DOMAIN bbss = 1 .. Len(bbss) /\ Len(functions) \in Nat
    BY <2>1, <2>2 DEF IsSequence
  <2> QED
    BY <2>1, <2>2, <2>3
<1>3. CASE functions' = functions
  BY <1>3 DEF OrderInv
<1>4. CASE functions' # functions
  <2>1. PICK blockOrder \in SetToSeqs(insBBs(prog, mines[k])) :
          functions' = Append(functions,
                     [recv |-> recv, send |-> send,
                      blocks |-> NewBlocks(prog, mines[k], bbss[k], send, blockOrder),
                      sendBlocks |-> SendBlocks(prog, bbss[k], send)])
    BY <1>4 DEF GenerateFunction
  <2> HIDE DEF k, recv, send
  <2> DEFINE new == [recv |-> recv, send |-> send,
                     blocks |-> NewBlocks(prog, mines[k], bbss[k], send, blockOrder),
                     sendBlocks |-> SendBlocks(prog, bbss[k], send)]
  <2>2. BlocksInOrder(prog, new)
    <3>1. /\ WellFormed(prog) /\ Connected(prog.cfg)
          /\ mines[k] \in SUBSET Instrs(prog) /\ BlocksFit(prog, mines[k], bbss[k])
      BY <1>1, <1>2, PartitionFits DEF OrderInv, FunctionsInv, SearchInv, Given
    <3>2. BlockOrder(prog, blockOrder)
      BY <3>1, AddressOrder
    <3>3. new.blocks = NewBlocks(prog, mines[k], bbss[k], send, blockOrder)
      OBVIOUS
    <3>4. \A b \in DOMAIN NewBlocks(prog, mines[k], bbss[k], send, blockOrder) :
            InOrder(ItemOrder(prog), NewBlocks(prog, mines[k], bbss[k], send, blockOrder)[b])
      BY <3>1, <3>2, NewBlocksInOrder
    <3> QED
      BY <3>3, <3>4 DEF BlocksInOrder
  <2>3. Lengthened(functions', functions, new)
    BY <2>1 DEF Lengthened
  <2> HIDE DEF new
  <2>4. /\ DOMAIN functions = 1 .. Len(functions) /\ DOMAIN functions' = 1 .. Len(functions) + 1
        /\ \A j \in 1 .. Len(functions) : functions'[j] = functions[j]
        /\ functions'[Len(functions) + 1] = new
        /\ Len(functions) \in Nat
    BY <1>2, <2>3, OneMoreItem
  <2>5. \A j \in DOMAIN functions : BlocksInOrder(prog, functions[j])
    BY DEF OrderInv
  <2> QED
    BY <2>2, <2>4, <2>5
<1> QED
  BY <1>3, <1>4

LEMMA OrderInit == Init => OrderInv
<1> SUFFICES ASSUME Init PROVE OrderInv
  OBVIOUS
<1>1. Connected(prog.cfg)
  BY ProgramsAssumption DEF Init
<1>2. functions = <<>>
  BY DEF Init, Start
<1>3. \A k \in DOMAIN functions : BlocksInOrder(prog, functions[k])
  BY <1>2
<1> QED
  BY <1>1, <1>3, FunctionsInit DEF OrderInv

(* The invariant, of every execution. *)
LEMMA OrderInvariant == Spec => []OrderInv
<1>1. Init => OrderInv
  BY OrderInit
<1>2. ASSUME OrderInv, FunctionsInv', [Next]_vars PROVE OrderInv'
  <2>1. prog' = prog
    BY <1>2 DEF Next, BuildGraph, Visit, Partition, SetUp, GenerateFunction, vars, option
  <2>2. \A k \in DOMAIN functions' : BlocksInOrder(prog, functions'[k])
    <3>1. CASE functions' = functions
      BY <1>2, <3>1 DEF OrderInv
    <3>2. CASE GenerateFunction
      BY <1>2, <3>2, GenerateKeepsOrder
    <3> QED
      BY <1>2, <3>1, <3>2 DEF Next, BuildGraph, Visit, Partition, SetUp, vars
  <2>3. Connected(prog'.cfg)
    BY <1>2, <2>1 DEF OrderInv
  <2>4. \A k \in DOMAIN functions' : BlocksInOrder(prog', functions'[k])
    BY <2>1, <2>2
  <2> QED
    BY <1>2, <2>3, <2>4 DEF OrderInv
<1> QED
  BY <1>1, <1>2, FunctionsInvariant, PTL DEF Spec

(* In every block of a new function the items stand in program order, although it *)
(* was filled in the order of the blocks' addresses and of the operands.          *)
THEOREM ItemsInProgramOrder == Spec => []ProgramOrder
<1>1. OrderInv => ProgramOrder
  <2> SUFFICES ASSUME OrderInv, NEW f \in Range(functions), NEW b \in DOMAIN f.blocks,
                      NEW m \in DOMAIN f.blocks[b], NEW n \in DOMAIN f.blocks[b], m < n,
                      f.blocks[b][m].ins # 0, f.blocks[b][n].ins # 0
               PROVE  f.blocks[b][m].ins <= f.blocks[b][n].ins
    BY DEF ProgramOrder
  <2>1. BlocksInOrder(prog, f)
    BY DEF OrderInv, Range
  <2>2. <<f.blocks[b][m], f.blocks[b][n]>> \in ItemOrder(prog)
    BY <2>1 DEF BlocksInOrder, InOrder
  <2> QED
    BY <2>2 DEF ItemOrder
<1> QED
  BY <1>1, OrderInvariant, PTL

-----------------------------------------------------------------------------
(* The shape of the partitions *)

(* What is set up for a partition that passed the checks. *)
LEMMA PartitionShaped ==
  ASSUME OrderInv, NEW k \in DOMAIN bbss
  PROVE  /\ IsFlow(prog.cfg) /\ controlFlowDuplication \in BOOLEAN
         /\ bbss[k].failed = "" => /\ Real(prog, mines[k]) \subseteq bbss[k].all
                                   /\ \E all : Shaped(prog.cfg, all, bbss[k], controlFlowDuplication)
<1>1. /\ FunctionsInv /\ WellFormed(prog) /\ Connected(prog.cfg) /\ controlFlowDuplication \in BOOLEAN
      /\ bbss[k] = setupBBStructure(prog, mines[k], controlFlowDuplication)
  BY DEF OrderInv, FunctionsInv, SearchInv, Given, SetUpInOrder
<1>2. mines[k] \in SUBSET Instrs(prog)
  BY <1>1, PartitionFits
<1>3. IsFlow(prog.cfg)
  BY <1>1, ProgramCfg DEF IsFlow, WellFormed, Blocks
<1> QED
  BY <1>1, <1>2, <1>3, SetUpShapes

(* The pass goes on only with partitions that passed. *)
ShapeInv == /\ OrderInv
            /\ failed = "" => \A k \in DOMAIN bbss : bbss[k].failed = ""
            /\ CyclesAreLoops(prog.cfg) => BlocksConnect

LEMMA SetUpKeepsShape ==
  ASSUME ShapeInv, SetUp
  PROVE  /\ failed' = "" => \A k \in DOMAIN bbss' : bbss'[k].failed = ""
         /\ BlocksConnect'
<1> DEFINE k   == Len(bbss) + 1
           bbs == setupBBStructure(prog, mines[k], controlFlowDuplication)
<1>1. /\ OrderInv /\ FunctionsInv /\ phase = "setup" /\ bbss' = Append(bbss, bbs) /\ failed' = bbs.failed
  BY DEF SetUp, ShapeInv, OrderInv
<1>2. /\ failed = "" /\ WellFormed(prog) /\ Connected(prog.cfg) /\ controlFlowDuplication \in BOOLEAN
  BY <1>1 DEF OrderInv, FunctionsInv, FoundInOrder, SearchInv, Given
<1>8. IsSequence(bbss) /\ Len(bbss) < Len(mines)
  BY <1>1 DEF FunctionsInv, SetUpInOrder
<1>3. mines[k] \in SUBSET Instrs(prog)
  <2> DEFINE I == Instrs(prog)
  <2>1. mines \in Seq(SUBSET I)
    BY <1>1 DEF FunctionsInv, FoundInOrder, MinesInOrder
  <2>2. Len(bbss) \in Nat
    BY <1>8 DEF IsSequence
  <2> HIDE DEF I
  <2>3. DOMAIN mines = 1 .. Len(mines) /\ Len(mines) \in Nat
    BY <2>1
  <2>4. k \in DOMAIN mines
    BY <1>8, <2>2, <2>3
  <2> HIDE DEF k
  <2> QED
    BY <2>1, <2>4 DEF I
<1>4. IsFlow(prog.cfg)
  BY <1>2, ProgramCfg DEF IsFlow, WellFormed, Blocks
<1>5. /\ bbs.failed \in SetUpFailures
      /\ bbs.failed \notin {"a terminator with no successor", "leads to no block", "keeper is absent"}
  BY <1>2, <1>3, <1>4, SetUpFailureIsOne, SetUpShapes
<1> HIDE DEF bbs
<1>6. BlocksConnect'
  BY <1>1, <1>5 DEF BlocksConnect, SetUpFailures
<1>7. ASSUME failed' = "", NEW j \in DOMAIN bbss' PROVE bbss'[j].failed = ""
  <2>1. Lengthened(bbss', bbss, bbs)
    BY <1>1 DEF Lengthened
  <2>2. /\ DOMAIN bbss = 1 .. Len(bbss) /\ DOMAIN bbss' = 1 .. Len(bbss) + 1
        /\ \A i \in 1 .. Len(bbss) : bbss'[i] = bbss[i]
        /\ bbss'[Len(bbss) + 1] = bbs
        /\ Len(bbss) \in Nat
    BY <1>8, <2>1, OneMoreItem
  <2>3. \A i \in DOMAIN bbss : bbss[i].failed = ""
    BY <1>2 DEF ShapeInv
  <2>4. bbs.failed = ""
    BY <1>1, <1>7
  <2>5. CASE j \in 1 .. Len(bbss)
    BY <2>2, <2>3, <2>5
  <2>6. CASE j = Len(bbss) + 1
    BY <2>2, <2>4, <2>6
  <2>7. Len(bbss) \in Nat /\ j \in 1 .. Len(bbss) + 1
    BY <1>7, <2>2
  <2> HIDE DEF k
  <2>8. j \in 1 .. Len(bbss) \/ j = Len(bbss) + 1
    BY <2>7
  <2> QED
    BY <2>5, <2>6, <2>8
<1> QED
  BY <1>6, <1>7

LEMMA GenerateKeepsShape ==
  ASSUME ShapeInv, GenerateFunction, CyclesAreLoops(prog.cfg)
  PROVE  BlocksConnect'
<1> DEFINE k    == Len(functions) + 1
           recv == Receives(prog, mines[k], bbss[k])
           send == Sends(prog, mines, bbss, k)
<1>1. /\ OrderInv /\ FunctionsInv /\ phase = "generate"
      /\ failed' = failed \/ failed' = GenerationFailure(k, recv, send)
  BY DEF GenerateFunction, ShapeInv, OrderInv
<1>2. failed = "" /\ BlocksConnect
  BY <1>1 DEF ShapeInv, FunctionsInv, FoundInOrder
<1>3. k \in DOMAIN bbss
  <2>1. IsSequence(bbss) /\ Len(bbss) = Len(mines)
    BY <1>1 DEF FunctionsInv, SetUpInOrder
  <2>2. IsSequence(functions) /\ Len(functions) < Len(mines)
    BY <1>1 DEF FunctionsInv, GeneratedInOrder
  <2>3. Len(bbss) \in Nat /\ DOMAIN bbss = 1 .. Len(bbss) /\ Len(functions) \in Nat
    BY <2>1, <2>2 DEF IsSequence
  <2> QED
    BY <2>1, <2>2, <2>3
<1> HIDE DEF k, recv, send
<1>4. bbss[k].failed = ""
  BY <1>2, <1>3 DEF ShapeInv
<1>5. /\ IsFlow(prog.cfg) /\ controlFlowDuplication \in BOOLEAN
      /\ Real(prog, mines[k]) \subseteq bbss[k].all
      /\ \E all : Shaped(prog.cfg, all, bbss[k], controlFlowDuplication)
  BY <1>1, <1>3, <1>4, PartitionShaped
<1>6. /\ createFailure(prog, mines[k], bbss[k], controlFlowDuplication) = ""
      /\ phiFailure(prog, mines[k], bbss[k]) = ""
  BY <1>5, CreatesAll
<1>7. GenerationFailure(k, recv, send)
        \in {"", "no return value",
             "partition does not see allocated channel", "sr partition sees allocated channel"}
  BY <1>6 DEF GenerationFailure
<1> QED
  BY <1>1, <1>2, <1>7 DEF BlocksConnect

(* The invariant, of every execution. *)
LEMMA ShapeInvariant == Spec => []ShapeInv
<1>1. Init => ShapeInv
  <2> SUFFICES ASSUME Init, OrderInv PROVE ShapeInv
    BY OrderInit
  <2>1. bbss = <<>> /\ failed = ""
    BY DEF Init, Start
  <2>2. \A k \in DOMAIN bbss : bbss[k].failed = ""
    BY <2>1, EmptyIsSequence
  <2>3. BlocksConnect
    BY <2>1 DEF BlocksConnect
  <2> QED
    BY <2>2, <2>3 DEF ShapeInv
<1>2. ASSUME ShapeInv, OrderInv', [Next]_vars PROVE ShapeInv'
  <2>1. prog' = prog
    BY <1>2 DEF Next, BuildGraph, Visit, Partition, SetUp, GenerateFunction, vars, option
  <2>2. CASE SetUp
    BY <1>2, <2>2, SetUpKeepsShape DEF ShapeInv
  <2>3. CASE GenerateFunction
    <3>1. bbss' = bbss /\ failed = ""
      BY <1>2, <2>3 DEF GenerateFunction, ShapeInv, OrderInv, FunctionsInv, FoundInOrder
    <3>2. CyclesAreLoops(prog.cfg) => BlocksConnect'
      BY <1>2, <2>3, GenerateKeepsShape
    <3> QED
      BY <1>2, <2>1, <3>1, <3>2 DEF ShapeInv
  <2>4. CASE Partition
    <3>1. bbss' = bbss /\ failed' \in {failed, "not topologically sorted", "cycle exist between partitions"} /\ failed = ""
      BY <1>2, <2>4 DEF Partition, ShapeInv, OrderInv, FunctionsInv, FoundInOrder
    <3> QED
      BY <1>2, <2>1, <3>1 DEF ShapeInv, BlocksConnect
  <2>5. CASE bbss' = bbss /\ failed' = failed
    BY <1>2, <2>1, <2>5 DEF ShapeInv, BlocksConnect
  <2> QED
    BY <1>2, <2>2, <2>3, <2>4, <2>5 DEF Next, BuildGraph, Visit, vars
<1> QED
  BY <1>1, <1>2, OrderInvariant, PTL DEF Spec

(* In every function all of whose cycles are natural loops the assertions about the    *)
(* shape of a partition's blocks hold: no edge leads nowhere or passes over the return, *)
(* every block that has to be kept is, and the new function returns where, and only     *)
(* where, the original does.                                                            *)
THEOREM BlocksAlwaysConnect == Spec => [](CyclesAreLoops(prog.cfg) => BlocksConnect)
<1>1. ShapeInv => (CyclesAreLoops(prog.cfg) => BlocksConnect)
  BY DEF ShapeInv
<1> QED
  BY <1>1, ShapeInvariant, PTL

(* And there every new function takes the path of the original: whatever execution the *)
(* original takes, the next block of the partition it gets to is the one the new        *)
(* function jumps to, and where the new function ends no execution comes back to it.    *)
THEOREM FunctionsFollowTrace == Spec => [](CyclesAreLoops(prog.cfg) => FollowsTrace)
<1>1. ShapeInv => (CyclesAreLoops(prog.cfg) => FollowsTrace)
  <2> SUFFICES ASSUME ShapeInv, CyclesAreLoops(prog.cfg), phase \in {"generate", "done"}
               PROVE  \A bbs \in Range(bbss) : TracesOriginal(prog, bbs, controlFlowDuplication)
    BY DEF FollowsTrace, FirstKept, TracesOriginal, FirstFrom
  <2> TAKE bbs \in Range(bbss)
  <2>1. OrderInv /\ failed = ""
    BY DEF ShapeInv, OrderInv, FunctionsInv, FoundInOrder
  <2>2. PICK k \in DOMAIN bbss : bbs = bbss[k]
    BY DEF Range
  <2>3. bbs.failed = ""
    BY <2>1, <2>2 DEF ShapeInv
  <2>4. /\ IsFlow(prog.cfg) /\ controlFlowDuplication \in BOOLEAN
        /\ \E all : Shaped(prog.cfg, all, bbs, controlFlowDuplication)
    BY <2>1, <2>2, <2>3, PartitionShaped
  <2> QED
    BY <2>4, TraceFollowed
<1> QED
  BY <1>1, ShapeInvariant, PTL
=============================================================================
