----------------------------- MODULE DataProofs -----------------------------
(***************************************************************************)
(* Facts about data that the proofs share: induction in a form the provers *)
(* can instantiate, over sets instead of predicates, functions defined by  *)
(* recursion, sequences that grow, queues that list a set, graph searches  *)
(* and powers of two.                                                      *)
(***************************************************************************)
EXTENDS Data, Integers, Functions, SequencesExt, SequenceTheorems, FiniteSetTheorems, WellFoundedInduction, TLAPS

(* A nonempty set of naturals has a least element. *)
LEMMA LeastExists ==
  ASSUME NEW T \in SUBSET Nat, T # {}
  PROVE  \E m \in T : \A n \in T : m <= n
<1> DEFINE R == OpToRel(<, Nat)
<1>1. IsWellFoundedOn(R, Nat)
  BY NatLessThanWellFounded
<1>2. \A m, n \in Nat : n < m => <<n, m>> \in R
  BY DEF OpToRel
<1> HIDE DEF R
<1>3. PICK m \in T : \A n \in T : ~ (<<n, m>> \in R)
  BY <1>1, WFMin
<1>4. \A n \in T : ~ (n < m)
  BY <1>2, <1>3, Zenon
<1> QED
  BY <1>4, SMT

(* A nonempty set of numbers up to N has a greatest element. *)
LEMMA GreatestExists ==
  ASSUME NEW N \in Nat, NEW T \in SUBSET (1 .. N), T # {}
  PROVE  \E m \in T : \A n \in T : n <= m
<1> DEFINE U == {N - n : n \in T}
<1>1. U \in SUBSET Nat /\ U # {}
  <2>1. ASSUME NEW n \in T PROVE N - n \in Nat
    OBVIOUS
  <2> QED
    BY <2>1
<1>2. PICK k \in U : \A l \in U : k <= l
  BY <1>1, LeastExists
<1>3. PICK m \in T : k = N - m
  BY <1>2
<1>4. ASSUME NEW n \in T PROVE n <= m
  <2>1. k <= N - n
    BY <1>2
  <2> QED
    BY <2>1, <1>3
<1> QED
  BY <1>4

(* Induction up to N. *)
LEMMA UpTo ==
  ASSUME NEW N \in Nat, NEW P, 0 \in P, \A k \in 1 .. N : k - 1 \in P => k \in P
  PROVE  \A k \in 0 .. N : k \in P
<1> SUFFICES ASSUME (0 .. N) \ P # {} PROVE FALSE
  OBVIOUS
<1>1. PICK m \in (0 .. N) \ P : \A n \in (0 .. N) \ P : m <= n
  <2> DEFINE T == (0 .. N) \ P
  <2>1. T \in SUBSET Nat /\ T # {}
    OBVIOUS
  <2> HIDE DEF T
  <2>2. \E m \in T : \A n \in T : m <= n
    BY <2>1, LeastExists
  <2> QED
    BY <2>2 DEF T
<1>2. m \in 1 .. N /\ m - 1 \in 0 .. N
  BY <1>1
<1>3. m - 1 \notin P
  BY <1>1, <1>2
<1>4. m - 1 \in (0 .. N) \ P
  BY <1>2, <1>3
<1> QED
  BY <1>1, <1>2, <1>4

(* A recursive definition of which only the step H and the start are known. *)
IsIteration(g, N, base, H) == g = [k \in 0 .. N |-> IF k = 0 THEN base ELSE H[k][g[k - 1]]]

(* There is a function that the recursion defines. *)
LEMMA IterationExists ==
  ASSUME NEW N \in Nat, NEW T, NEW base \in T, NEW H \in [1 .. N -> [T -> T]]
  PROVE  \E g : IsIteration(g, N, base, H)
<1> DEFINE P == {M \in 0 .. N : \E g \in [0 .. M -> T] : IsIteration(g, M, base, H)}
<1>1. 0 \in P
  <2> DEFINE g == [k \in 0 .. 0 |-> base]
  <2>1. g \in [0 .. 0 -> T]
    OBVIOUS
  <2>2. IsIteration(g, 0, base, H)
    <3>1. \A k \in 0 .. 0 : k = 0
      OBVIOUS
    <3> QED
      BY <3>1 DEF IsIteration
  <2> HIDE DEF g
  <2> QED
    BY <2>1, <2>2
<1>2. ASSUME NEW M \in 1 .. N, M - 1 \in P PROVE M \in P
  <2>1. PICK g \in [0 .. M - 1 -> T] : IsIteration(g, M - 1, base, H)
    BY <1>2
  <2> DEFINE h == [k \in 0 .. M |-> IF k = M THEN H[M][g[M - 1]] ELSE g[k]]
  <2>2. M - 1 \in 0 .. M - 1 /\ M # 0
    OBVIOUS
  <2>3. h \in [0 .. M -> T]
    <3>1. H[M][g[M - 1]] \in T
      BY <2>2
    <3>2. \A k \in 0 .. M : k # M => k \in 0 .. M - 1
      OBVIOUS
    <3> QED
      BY <3>1, <3>2
  <2>4. ASSUME NEW k \in 0 .. M PROVE h[k] = IF k = 0 THEN base ELSE H[k][h[k - 1]]
    <3>1. CASE k = M
      <4>1. h[k - 1] = g[M - 1] /\ k # 0
        BY <3>1, <2>2
      <4> QED
        BY <4>1, <3>1
    <3>2. CASE k # M
      <4>1. k \in 0 .. M - 1 /\ h[k] = g[k]
        BY <3>2
      <4>2. k # 0 => k - 1 \in 0 .. M - 1 /\ h[k - 1] = g[k - 1]
        BY <4>1
      <4>3. g[k] = IF k = 0 THEN base ELSE H[k][g[k - 1]]
        BY <2>1, <4>1 DEF IsIteration
      <4> HIDE DEF h
      <4> QED
        BY <4>1, <4>2, <4>3
    <3> QED
      BY <3>1, <3>2
  <2>5. IsIteration(h, M, base, H)
    <3>1. h = [k \in 0 .. M |-> h[k]]
      OBVIOUS
    <3> HIDE DEF h
    <3>2. [k \in 0 .. M |-> h[k]] = [k \in 0 .. M |-> IF k = 0 THEN base ELSE H[k][h[k - 1]]]
      BY <2>4
    <3> QED
      BY <3>1, <3>2 DEF IsIteration
  <2> HIDE DEF h
  <2> QED
    BY <2>3, <2>5
<1>3. N \in P
  <2> HIDE DEF P
  <2>1. \A k \in 0 .. N : k \in P
    BY <1>1, <1>2, UpTo
  <2> QED
    BY <2>1
<1> QED
  BY <1>3

(* What it defines has the type the steps keep, and is determined step by step. *)
LEMMA IterationIs ==
  ASSUME NEW N \in Nat, NEW T, NEW base \in T, NEW H \in [1 .. N -> [T -> T]],
         NEW g, IsIteration(g, N, base, H)
  PROVE  /\ g \in [0 .. N -> T]
         /\ g[0] = base
         /\ \A k \in 1 .. N : g[k] = H[k][g[k - 1]]
<1>1. /\ DOMAIN g = 0 .. N
      /\ \A k \in 0 .. N : g[k] = IF k = 0 THEN base ELSE H[k][g[k - 1]]
  BY DEF IsIteration
<1>2. g[0] = base /\ \A k \in 1 .. N : g[k] = H[k][g[k - 1]]
  BY <1>1
<1> DEFINE P == {k \in 0 .. N : g[k] \in T}
<1>3. 0 \in P
  BY <1>2
<1>4. \A k \in 1 .. N : k - 1 \in P => k \in P
  BY <1>2
<1>5. \A k \in 0 .. N : g[k] \in T
  <2> HIDE DEF P
  <2>1. \A k \in 0 .. N : k \in P
    BY <1>3, <1>4, UpTo
  <2> QED
    BY <2>1 DEF P
<1>6. g = [k \in 0 .. N |-> g[k]]
  BY DEF IsIteration
<1> QED
  BY <1>2, <1>5, <1>6

(* A recursion H that asks only for what has a smaller rank defines a function of *)
(* F: as many rounds as there are ranks settle it.                               *)
LocalTo(rank, D, F, H) ==
  \A f, g \in F : \A x \in D : (\A y \in D : rank[y] < rank[x] => f[y] = g[y]) => H[f][x] = H[g][x]

LEMMA RecursionExists ==
  ASSUME NEW D, NEW N \in Nat, NEW rank \in [D -> 0 .. N],
         NEW F, \A f \in F : f = [x \in D |-> f[x]], NEW f0 \in F, NEW H \in [F -> F],
         LocalTo(rank, D, F, H)
  PROVE  \E f \in F : f = H[f]
<1> DEFINE M == N + 2
           G == [k \in 1 .. M |-> H]
<1>1. M \in Nat /\ G \in [1 .. M -> [F -> F]]
  OBVIOUS
<1>2. PICK h : IsIteration(h, M, f0, G)
  <2> HIDE DEF M, G
  <2> QED
    BY <1>1, IterationExists
<1>3. h \in [0 .. M -> F] /\ h[0] = f0 /\ \A k \in 1 .. M : h[k] = G[k][h[k - 1]]
  <2> HIDE DEF M, G
  <2> QED
    BY <1>1, <1>2, IterationIs
<1>4. \A k \in 1 .. M : h[k] = H[h[k - 1]]
  BY <1>3
<1> DEFINE P == {k \in 0 .. N + 1 : \A x \in D : rank[x] < k => h[k][x] = h[k + 1][x]}
<1>5. 0 \in P
  OBVIOUS
<1>6. ASSUME NEW k \in 1 .. N + 1, k - 1 \in P PROVE k \in P
  <2> SUFFICES ASSUME NEW x \in D, rank[x] < k PROVE h[k][x] = h[k + 1][x]
    OBVIOUS
  <2>1. k - 1 \in 0 .. M /\ k \in 0 .. M /\ k \in 1 .. M /\ k + 1 \in 1 .. M
    OBVIOUS
  <2>2. h[k] = H[h[k - 1]] /\ h[k + 1] = H[h[k]]
    BY <1>4, <2>1
  <2>3. h[k - 1] \in F /\ h[k] \in F
    BY <1>3, <2>1
  <2>4. \A y \in D : rank[y] < rank[x] => h[k - 1][y] = h[k][y]
    <3> SUFFICES ASSUME NEW y \in D, rank[y] < rank[x] PROVE h[k - 1][y] = h[k][y]
      OBVIOUS
    <3>1. rank[y] < k - 1
      OBVIOUS
    <3>2. h[k - 1][y] = h[(k - 1) + 1][y]
      BY <1>6, <3>1
    <3> QED
      BY <3>2
  <2>5. H[h[k - 1]][x] = H[h[k]][x]
    BY <2>3, <2>4 DEF LocalTo
  <2> QED
    BY <2>2, <2>5
<1>7. \A k \in 0 .. N + 1 : k \in P
  <2> HIDE DEF P
  <2> QED
    BY <1>5, <1>6, UpTo
<1>8. \A x \in D : h[N + 1][x] = h[N + 2][x]
  <2>1. N + 1 \in 0 .. N + 1 /\ (N + 1) + 1 = N + 2
    OBVIOUS
  <2>2. N + 1 \in P
    <3> HIDE DEF P
    <3> QED
      BY <1>7, <2>1
  <2>3. ASSUME NEW x \in D PROVE rank[x] < N + 1
    OBVIOUS
  <2> QED
    BY <2>1, <2>2, <2>3
<1>9. N + 1 \in 0 .. M /\ N + 2 \in 0 .. M /\ N + 2 \in 1 .. M /\ (N + 2) - 1 = N + 1
  OBVIOUS
<1>10. h[N + 1] \in F /\ h[N + 2] \in F /\ h[N + 2] = H[h[N + 1]]
  BY <1>3, <1>4, <1>9
<1>11. h[N + 1] = h[N + 2]
  <2>1. h[N + 1] = [x \in D |-> h[N + 1][x]] /\ h[N + 2] = [x \in D |-> h[N + 2][x]]
    BY <1>10
  <2> QED
    BY <1>8, <2>1
<1> QED
  BY <1>10, <1>11

-----------------------------------------------------------------------------
(* Sequences *)

(* The elements of a sequence with one more. *)
LEMMA RangeOfAppend ==
  ASSUME NEW S, NEW s \in Seq(S), NEW c
  PROVE  Range(Append(s, c)) = Range(s) \cup {c}
<1> DEFINE t == Append(s, c)
<1>1. /\ Len(s) \in Nat /\ DOMAIN s = 1 .. Len(s) /\ DOMAIN t = 1 .. Len(s) + 1
      /\ \A n \in 1 .. Len(s) : t[n] = s[n]
      /\ t[Len(s) + 1] = c
  OBVIOUS
<1> HIDE DEF t
<1>2. ASSUME NEW x \in Range(t) PROVE x \in Range(s) \cup {c}
  <2>1. PICK n \in 1 .. Len(s) + 1 : x = t[n]
    BY <1>1, <1>2 DEF Range
  <2>2. CASE n \in 1 .. Len(s)
    BY <1>1, <2>1, <2>2 DEF Range
  <2>3. CASE n = Len(s) + 1
    BY <1>1, <2>1, <2>3
  <2> QED
    BY <1>1, <2>2, <2>3
<1>3. ASSUME NEW x \in Range(s) PROVE x \in Range(t)
  BY <1>1, <1>3 DEF Range
<1>4. c \in Range(t)
  BY <1>1 DEF Range
<1> QED
  BY <1>2, <1>3, <1>4 DEF t

(* A sequence with its last element replaced. *)
LEMMA LastReplaced ==
  ASSUME NEW W, NEW ps \in Seq(W), Len(ps) >= 1, NEW v \in W,
         NEW e, e = [ps EXCEPT ![Len(ps)] = v]
  PROVE  /\ e \in Seq(W) /\ Len(e) = Len(ps) /\ DOMAIN e = 1 .. Len(ps)
         /\ \A p \in 1 .. Len(ps) : p # Len(ps) => e[p] = ps[p]
         /\ e[Len(ps)] = v
OBVIOUS

(* A sequence with one more element. *)
LEMMA OneMore ==
  ASSUME NEW W, NEW ps \in Seq(W), NEW v \in W, NEW e, e = Append(ps, v)
  PROVE  /\ e \in Seq(W) /\ Len(e) = Len(ps) + 1 /\ DOMAIN e = 1 .. Len(ps) + 1
         /\ \A p \in 1 .. Len(ps) : e[p] = ps[p]
         /\ e[Len(ps) + 1] = v
OBVIOUS

(* A sequence of anything. *)
IsSequence(s) == s \in Seq(Range(s))
Lengthened(e, s, v) == e = Append(s, v)

(* One with one more item. *)
LEMMA OneMoreItem ==
  ASSUME NEW s, IsSequence(s), NEW v, NEW e, Lengthened(e, s, v)
  PROVE  /\ IsSequence(e) /\ Len(e) = Len(s) + 1 /\ Len(s) \in Nat
         /\ DOMAIN s = 1 .. Len(s) /\ DOMAIN e = 1 .. Len(s) + 1
         /\ \A k \in 1 .. Len(s) : e[k] = s[k]
         /\ e[Len(s) + 1] = v
         /\ e # <<>>
<1> DEFINE W == Range(s) \cup {v}
<1>1. s \in Seq(W) /\ v \in W
  BY DEF IsSequence
<1>2. Range(Append(s, v)) = W
  BY <1>1, RangeOfAppend
<1> HIDE DEF W
<1>3. /\ e \in Seq(W) /\ Len(e) = Len(s) + 1 /\ DOMAIN e = 1 .. Len(s) + 1
      /\ \A k \in 1 .. Len(s) : e[k] = s[k]
      /\ e[Len(s) + 1] = v
  <2>1. e = Append(s, v)
    BY DEF Lengthened
  <2> QED
    BY <1>1, <2>1, OneMore
<1>4. Len(s) \in Nat /\ DOMAIN s = 1 .. Len(s)
  BY <1>1
<1>5. IsSequence(e)
  BY <1>2, <1>3 DEF IsSequence, Lengthened
<1>6. e # <<>>
  BY <1>3, <1>4
<1> QED
  BY <1>3, <1>4, <1>5, <1>6

(* The empty sequence. *)
LEMMA EmptyIsSequence == IsSequence(<<>>) /\ Len(<<>>) = 0 /\ DOMAIN <<>> = {}
BY DEF IsSequence, Range

-----------------------------------------------------------------------------
(* Sequences in order *)

(* Every element of a sequence is related to all behind it. *)
InOrder(R, s) == \A m, n \in DOMAIN s : m < n => <<s[m], s[n]>> \in R
Across(R, A, B) == \A x \in A, y \in B : <<x, y>> \in R

(* The empty sequence and those of one element are in order. *)
LEMMA ShortInOrder ==
  ASSUME NEW S, NEW R, NEW x \in S
  PROVE  /\ <<>> \in Seq(S) /\ InOrder(R, <<>>) /\ Range(<<>>) = {}
         /\ <<x>> \in Seq(S) /\ InOrder(R, <<x>>) /\ Range(<<x>>) = {x}
<1>1. <<>> \in Seq(S) /\ <<x>> \in Seq(S) /\ DOMAIN <<>> = {} /\ DOMAIN <<x>> = {1} /\ <<x>>[1] = x
  OBVIOUS
<1>2. InOrder(R, <<>>) /\ Range(<<>>) = {}
  BY DEF InOrder, Range
<1>3. \A m, n \in {1} : ~ (m < n)
  OBVIOUS
<1>4. InOrder(R, <<x>>)
  <2>1. DOMAIN <<x>> = {1}
    OBVIOUS
  <2> QED
    BY <1>3, <2>1, Zenon DEF InOrder
<1>5. Range(<<x>>) = {x}
  BY DEF Range
<1> QED
  BY <1>1, <1>2, <1>4, <1>5

(* One more behind the others. *)
LEMMA AppendInOrder ==
  ASSUME NEW S, NEW s \in Seq(S), NEW c \in S, NEW R, InOrder(R, s), Across(R, Range(s), {c})
  PROVE  /\ Append(s, c) \in Seq(S)
         /\ Range(Append(s, c)) = Range(s) \cup {c}
         /\ InOrder(R, Append(s, c))
<1> DEFINE t == Append(s, c)
<1>1. /\ t \in Seq(S) /\ Len(s) \in Nat /\ DOMAIN s = 1 .. Len(s) /\ DOMAIN t = 1 .. Len(s) + 1
      /\ \A n \in 1 .. Len(s) : t[n] = s[n]
      /\ t[Len(s) + 1] = c
  OBVIOUS
<1> HIDE DEF t
<1>2. InOrder(R, t)
  <2> SUFFICES ASSUME NEW m \in DOMAIN t, NEW n \in DOMAIN t, m < n PROVE <<t[m], t[n]>> \in R
    BY DEF InOrder
  <2>1. m \in DOMAIN s /\ t[m] = s[m]
    BY <1>1
  <2>2. CASE n \in DOMAIN s
    BY <1>1, <2>1, <2>2 DEF InOrder
  <2>3. CASE n = Len(s) + 1
    <3>1. t[n] = c /\ t[m] \in Range(s)
      BY <1>1, <2>1, <2>3 DEF Range
    <3> QED
      BY <3>1 DEF Across
  <2> QED
    BY <1>1, <2>2, <2>3
<1> QED
  BY <1>1, <1>2, RangeOfAppend DEF t

(* One behind the other. *)
LEMMA ConcatInOrder ==
  ASSUME NEW S, NEW s \in Seq(S), NEW t \in Seq(S), NEW R,
         InOrder(R, s), InOrder(R, t), Across(R, Range(s), Range(t))
  PROVE  /\ s \o t \in Seq(S)
         /\ Range(s \o t) = Range(s) \cup Range(t)
         /\ InOrder(R, s \o t)
<1> DEFINE u == s \o t
<1>1. /\ u \in Seq(S) /\ Len(s) \in Nat /\ Len(t) \in Nat
      /\ DOMAIN s = 1 .. Len(s) /\ DOMAIN t = 1 .. Len(t) /\ DOMAIN u = 1 .. Len(s) + Len(t)
      /\ \A m \in 1 .. Len(s) : u[m] = s[m]
      /\ \A m \in 1 .. Len(s) + Len(t) : m > Len(s) => u[m] = t[m - Len(s)]
  OBVIOUS
<1> HIDE DEF u
<1>2. \A m \in DOMAIN u : IF m <= Len(s) THEN m \in DOMAIN s /\ u[m] = s[m]
                          ELSE m - Len(s) \in DOMAIN t /\ u[m] = t[m - Len(s)]
  BY <1>1
<1>3. InOrder(R, u)
  <2> SUFFICES ASSUME NEW m \in DOMAIN u, NEW n \in DOMAIN u, m < n PROVE <<u[m], u[n]>> \in R
    BY DEF InOrder
  <2>1. m \in Nat /\ n \in Nat
    BY <1>1
  <2>2. CASE n <= Len(s)
    <3>1. m \in DOMAIN s /\ n \in DOMAIN s /\ u[m] = s[m] /\ u[n] = s[n]
      BY <1>1, <1>2, <2>1, <2>2
    <3> QED
      BY <3>1 DEF InOrder
  <2>3. CASE m > Len(s)
    <3>1. /\ m - Len(s) \in DOMAIN t /\ n - Len(s) \in DOMAIN t
          /\ u[m] = t[m - Len(s)] /\ u[n] = t[n - Len(s)]
          /\ m - Len(s) < n - Len(s)
      BY <1>1, <1>2, <2>1, <2>3
    <3> QED
      BY <3>1 DEF InOrder
  <2>4. CASE m <= Len(s) /\ ~ (n <= Len(s))
    <3>1. m \in DOMAIN s /\ u[m] = s[m] /\ n - Len(s) \in DOMAIN t /\ u[n] = t[n - Len(s)]
      BY <1>2, <2>4
    <3>2. u[m] \in Range(s) /\ u[n] \in Range(t)
      BY <3>1 DEF Range
    <3> QED
      BY <3>2 DEF Across
  <2> QED
    BY <1>1, <2>1, <2>2, <2>3, <2>4
<1>4. Range(u) \subseteq Range(s) \cup Range(t)
  BY <1>2 DEF Range
<1>5. Range(s) \subseteq Range(u)
  BY <1>1 DEF Range
<1>6. Range(t) \subseteq Range(u)
  <2> SUFFICES ASSUME NEW n \in 1 .. Len(t) PROVE \E m \in DOMAIN u : u[m] = t[n]
    BY <1>1 DEF Range
  <2>1. n + Len(s) \in 1 .. Len(s) + Len(t) /\ n + Len(s) > Len(s) /\ (n + Len(s)) - Len(s) = n
    BY <1>1
  <2> QED
    BY <1>1, <2>1
<1> QED
  BY <1>1, <1>3, <1>4, <1>5, <1>6 DEF u

AreParts(s, n, S) == s \in [1 .. n -> Seq(S)]
Joins(flatten, s, n) == flatten[1] = s[1] /\ \A k \in 2 .. n : flatten[k] = flatten[k - 1] \o s[k]

(* The parts are joined from the first to the last. *)
LEMMA FlattenIs ==
  ASSUME NEW S, NEW n \in Nat, n # 0, NEW s, AreParts(s, n, S)
  PROVE  \E flatten : FlattenSeq(s) = flatten[n] /\ Joins(flatten, s, n)
<1>0. Len(s) = n /\ s \in Seq(Seq(S)) /\ s \in [1 .. n -> Seq(S)]
  BY DEF AreParts
<1> DEFINE Def(h) == h = [k \in 1 .. n |-> IF k = 1 THEN s[k] ELSE h[k - 1] \o s[k]]
           flatten == CHOOSE h : Def(h)
           T == Seq(S)
           H == [k \in 1 .. n |-> [r \in T |-> r \o s[k]]]
<1>9. FlattenSeq(s) = flatten[n]
  BY <1>0 DEF FlattenSeq
<1>2. H \in [1 .. n -> [T -> T]] /\ <<>> \in T
  <2>1. \A k \in 1 .. n : \A r \in T : r \o s[k] \in T
    BY <1>0
  <2> QED
    BY <2>1
<1> HIDE DEF H, T
<1>3. PICK g : IsIteration(g, n, <<>>, H)
  BY <1>2, IterationExists
<1>4. g \in [0 .. n -> T] /\ g[0] = <<>> /\ \A k \in 1 .. n : g[k] = H[k][g[k - 1]]
  BY <1>2, <1>3, IterationIs
<1> USE DEF H, T
<1>5. ASSUME NEW k \in 1 .. n PROVE g[k] = g[k - 1] \o s[k] /\ k - 1 \in 0 .. n
  <2>1. k - 1 \in 0 .. n
    OBVIOUS
  <2>2. g[k - 1] \in T
    BY <1>4, <2>1
  <2>3. H[k][g[k - 1]] = g[k - 1] \o s[k]
    BY <1>0, <2>2
  <2> HIDE DEF H
  <2> QED
    BY <1>4, <2>1, <2>3
<1>6. Def(flatten)
  <2> DEFINE f == [k \in 1 .. n |-> g[k]]
  <2>1. Def(f)
    <3>1. ASSUME NEW k \in 1 .. n PROVE f[k] = IF k = 1 THEN s[k] ELSE f[k - 1] \o s[k]
      <4>1. CASE k = 1
        <5>0. 1 \in 1 .. n
          OBVIOUS
        <5>1. g[1] = g[1 - 1] \o s[1] /\ s[1] \in Seq(S)
          BY <1>0, <1>5, <5>0
        <5>2. <<>> \o s[1] = s[1]
          BY <5>1
        <5>3. g[1 - 1] = <<>>
          BY <1>4
        <5> QED
          BY <4>1, <5>1, <5>2, <5>3
      <4>2. CASE k # 1
        <5>1. k - 1 \in 1 .. n
          BY <4>2
        <5> QED
          BY <1>5, <4>2, <5>1
      <4> QED
        BY <4>1, <4>2
    <3>2. f = [k \in 1 .. n |-> f[k]]
      OBVIOUS
    <3> HIDE DEF f
    <3>3. [k \in 1 .. n |-> f[k]] = [k \in 1 .. n |-> IF k = 1 THEN s[k] ELSE f[k - 1] \o s[k]]
      BY <3>1
    <3> QED
      BY <3>2, <3>3
  <2> HIDE DEF f, Def
  <2> QED
    BY <2>1
<1> HIDE DEF flatten
<1>7. 1 \in 1 .. n /\ \A k \in 2 .. n : k \in 1 .. n /\ k # 1
  OBVIOUS
<1> HIDE DEF flatten
<1>8. flatten[1] = s[1] /\ \A k \in 2 .. n : flatten[k] = flatten[k - 1] \o s[k]
  BY <1>6, <1>7
<1> QED
  BY <1>8, <1>9 DEF Joins

(* Parts in order make a sequence in order. *)
LEMMA FlattenInOrder ==
  ASSUME NEW S, NEW n \in Nat, NEW s, AreParts(s, n, S), NEW R,
         \A k \in 1 .. n : InOrder(R, s[k]),
         \A k, l \in 1 .. n : k < l => Across(R, Range(s[k]), Range(s[l]))
  PROVE  /\ FlattenSeq(s) \in Seq(S)
         /\ Range(FlattenSeq(s)) = UNION {Range(s[k]) : k \in 1 .. n}
         /\ InOrder(R, FlattenSeq(s))
<1>1. Len(s) = n /\ s \in Seq(Seq(S)) /\ s \in [1 .. n -> Seq(S)]
  BY DEF AreParts
<1>2. CASE n = 0
  <2>1. s = <<>> /\ FlattenSeq(s) = <<>>
    BY <1>1, <1>2 DEF FlattenSeq
  <2>2. <<>> \in Seq(S) /\ InOrder(R, <<>>) /\ Range(<<>>) = {}
    BY DEF InOrder, Range
  <2>3. UNION {Range(s[k]) : k \in 1 .. n} = {}
    BY <1>2
  <2> QED
    BY <2>1, <2>2, <2>3
<1>3. CASE n # 0
  <2>5. PICK flatten : FlattenSeq(s) = flatten[n] /\ Joins(flatten, s, n)
    BY <1>3, FlattenIs
  <2>6. /\ FlattenSeq(s) = flatten[n] /\ flatten[1] = s[1]
        /\ \A k \in 2 .. n : flatten[k] = flatten[k - 1] \o s[k]
    BY <2>5 DEF Joins
  <2> DEFINE U(k) == UNION {Range(s[l]) : l \in 1 .. k}
             P == {k \in 0 .. n : k = 0 \/ (flatten[k] \in Seq(S) /\ Range(flatten[k]) = U(k) /\ InOrder(R, flatten[k]))}
  <2>7. 0 \in P
    OBVIOUS
  <2>8. ASSUME NEW k \in 1 .. n, k - 1 \in P PROVE k \in P
    <3>1. CASE k = 1
      <4>1. flatten[1] = s[1] /\ 1 \in 1 .. n
        BY <2>6, <3>1
      <4>2. U(1) = Range(s[1])
        <5>1. 1 .. 1 = {1}
          OBVIOUS
        <5> QED
          BY <5>1
      <4>3. s[1] \in Seq(S) /\ InOrder(R, s[1])
        BY <1>1, <4>1
      <4> HIDE DEF U
      <4> QED
        BY <3>1, <4>1, <4>2, <4>3
    <3>2. CASE k # 1
      <4> DEFINE r == flatten[k - 1]
                 t == s[k]
      <4>1. flatten[k] = r \o t
        <5>1. k \in 2 .. n
          BY <3>2
        <5> QED
          BY <2>6, <5>1
      <4>2. r \in Seq(S) /\ Range(r) = U(k - 1) /\ InOrder(R, r)
        BY <2>8, <3>2
      <4>3. t \in Seq(S) /\ InOrder(R, t)
        BY <1>1
      <4>4. Across(R, Range(r), Range(t))
        <5> SUFFICES ASSUME NEW x \in U(k - 1), NEW y \in Range(t) PROVE <<x, y>> \in R
          BY <4>2 DEF Across
        <5>1. PICK l \in 1 .. k - 1 : x \in Range(s[l])
          OBVIOUS
        <5>2. l \in 1 .. n /\ l < k
          OBVIOUS
        <5>3. Across(R, Range(s[l]), Range(t))
          BY <5>2
        <5> QED
          BY <5>1, <5>3 DEF Across
      <4>5. U(k) = U(k - 1) \cup Range(t)
        <5>1. 1 .. k = (1 .. k - 1) \cup {k}
          OBVIOUS
        <5> QED
          BY <5>1
      <4>6. r \o t \in Seq(S) /\ Range(r \o t) = Range(r) \cup Range(t) /\ InOrder(R, r \o t)
        <5> HIDE DEF r, t, U
        <5> QED
          BY <4>2, <4>3, <4>4, ConcatInOrder
      <4>7. flatten[k] \in Seq(S) /\ Range(flatten[k]) = U(k) /\ InOrder(R, flatten[k])
        <5> HIDE DEF r, t, U
        <5> QED
          BY <4>1, <4>2, <4>5, <4>6
      <4> HIDE DEF U
      <4> QED
        BY <4>7
    <3> QED
      BY <3>1, <3>2
  <2>9. \A k \in 0 .. n : k \in P
    <3> HIDE DEF P
    <3> QED
      BY <2>7, <2>8, UpTo
  <2> QED
    <3>1. n \in 0 .. n
      OBVIOUS
    <3>2. n \in P
      <4> HIDE DEF P
      <4> QED
        BY <2>9, <3>1
    <3> QED
      BY <1>3, <2>6, <3>2
<1> QED
  BY <1>2, <1>3

-----------------------------------------------------------------------------
(* Queues that list their contents in order. *)

LEMMA ListsNothing ==
  /\ Lists(<<>>, {})
  /\ \A S : \A seq \in Seq(S) : Lists(seq, {}) => seq = <<>>
<1>1. Lists(<<>>, {})
  BY DEF Lists
<1>2. ASSUME NEW S, NEW seq \in Seq(S), Lists(seq, {}) PROVE seq = <<>>
  <2>1. DOMAIN seq = {} /\ DOMAIN seq = 1 .. Len(seq) /\ Len(seq) \in Nat
    BY <1>2 DEF Lists
  <2>2. Len(seq) = 0
    BY <2>1
  <2> QED
    BY <2>2
<1> QED
  BY <1>1, <1>2

(* A value greater than all others is appended in order. *)
LEMMA ListsAppended ==
  ASSUME NEW T \in SUBSET Nat, NEW seq \in Seq(T), NEW S, Lists(seq, S), NEW x \in T,
         \A y \in S : y < x
  PROVE  Lists(Append(seq, x), S \cup {x})
<1> DEFINE app == Append(seq, x)
<1>1. /\ DOMAIN app = 1 .. Len(seq) + 1 /\ DOMAIN seq = 1 .. Len(seq) /\ Len(seq) \in Nat
      /\ \A n \in 1 .. Len(seq) : app[n] = seq[n]
      /\ app[Len(seq) + 1] = x
  BY AppendProperties
<1>2. \A n \in 1 .. Len(seq) : seq[n] \in S
  BY <1>1 DEF Lists
<1> HIDE DEF app
<1>3. {app[n] : n \in DOMAIN app} = S \cup {x}
  <2>1. \A n \in DOMAIN app : app[n] \in S \cup {x}
    BY <1>1, <1>2
  <2>2. \A y \in S : \E n \in DOMAIN app : y = app[n]
    <3> TAKE y \in S
    <3>1. PICK n \in 1 .. Len(seq) : y = seq[n]
      BY <1>1 DEF Lists
    <3> QED
      BY <3>1, <1>1
  <2>3. \E n \in DOMAIN app : x = app[n]
    BY <1>1
  <2> QED
    BY <2>1, <2>2, <2>3
<1>4. \A m, n \in DOMAIN app : m < n => app[m] < app[n]
  BY <1>1, <1>2 DEF Lists
<1> QED
  BY <1>3, <1>4 DEF Lists, app

(* The head is the least value, and the tail lists the others. *)
LEMMA ListsHead ==
  ASSUME NEW T \in SUBSET Nat, NEW seq \in Seq(T), NEW S, Lists(seq, S), seq # <<>>
  PROVE  /\ Head(seq) \in S /\ \A y \in S : Head(seq) <= y
         /\ Lists(Tail(seq), S \ {Head(seq)})
<1>1. /\ Len(seq) \in Nat \ {0} /\ DOMAIN seq = 1 .. Len(seq)
      /\ Head(seq) = seq[1]
      /\ \A n \in 1 .. Len(seq) : seq[n] \in Nat
  <2>1. Len(seq) \in Nat \ {0} /\ DOMAIN seq = 1 .. Len(seq)
    BY EmptySeq, LenProperties
  <2>2. \A n \in 1 .. Len(seq) : seq[n] \in Nat
    BY ElementOfSeq
  <2> QED
    BY <2>1, <2>2
<1> DEFINE t == Tail(seq)
<1>2. /\ DOMAIN t = 1 .. Len(seq) - 1
      /\ \A n \in 1 .. Len(seq) - 1 : t[n] = seq[n + 1]
  <2>1. t \in Seq(T) /\ Len(t) = Len(seq) - 1 /\ \A n \in 1 .. Len(t) : t[n] = seq[n + 1]
    BY HeadTailProperties
  <2> QED
    BY <2>1, LenProperties
<1> HIDE DEF t
<1>3. /\ \A n \in 1 .. Len(seq) : seq[n] \in S
      /\ \A y \in S : \E n \in 1 .. Len(seq) : y = seq[n]
      /\ \A m, n \in 1 .. Len(seq) : m < n => seq[m] < seq[n]
  BY <1>1, Zenon DEF Lists
<1>4. \A n \in 2 .. Len(seq) : seq[1] < seq[n]
  BY <1>1, <1>3
<1>5. \A y \in S : seq[1] <= y
  BY <1>1, <1>3, <1>4
<1>6. {t[n] : n \in DOMAIN t} = S \ {seq[1]}
  <2>1. ASSUME NEW n \in DOMAIN t PROVE t[n] \in S \ {seq[1]}
    <3>1. n + 1 \in 2 .. Len(seq) /\ n + 1 \in 1 .. Len(seq) /\ t[n] = seq[n + 1]
      BY <1>1, <1>2
    <3>2. seq[n + 1] \in Nat /\ seq[1] < seq[n + 1] /\ seq[n + 1] \in S /\ seq[1] \in Nat
      BY <3>1, <1>1, <1>3, <1>4
    <3> QED
      BY <3>1, <3>2
  <2>2. ASSUME NEW y \in S \ {seq[1]} PROVE \E n \in DOMAIN t : y = t[n]
    <3>1. PICK m \in 1 .. Len(seq) : y = seq[m]
      BY <1>3
    <3>2. m - 1 \in DOMAIN t /\ t[m - 1] = y
      BY <3>1, <1>1, <1>2
    <3> QED
      BY <3>2
  <2> QED
    BY <2>1, <2>2
<1>7. \A m, n \in DOMAIN t : m < n => t[m] < t[n]
  BY <1>1, <1>2, <1>3
<1> QED
  BY <1>1, <1>3, <1>5, <1>6, <1>7 DEF Lists, t

-----------------------------------------------------------------------------
(* Graph searches *)

(* A finite graph, given by the children of each node, and a set of nodes that *)
(* no edge leaves.                                                            *)
IsGraph(next, I)  == IsFiniteSet(I) /\ next \in [I -> SUBSET I]
IsClosed(next, T) == \A x \in T : next[x] \subseteq T

(* A search of Closure, with its next nodes given by a function, and what it *)
(* computes: more and more nodes.                                           *)
More(next, r) == r \cup UNION {next[x] : x \in r}
IsSearch(reached, next, S, N) ==
  reached = [k \in 0 .. N |-> IF k = 0 THEN S ELSE More(next, reached[k - 1])]
Grows(g, next, I, S, N) == /\ g \in [0 .. N -> SUBSET I]
                           /\ g[0] = S
                           /\ \A k \in 1 .. N : g[k] = More(next, g[k - 1])

(* A search stays among the nodes. *)
LEMMA MoreNodes ==
  ASSUME NEW I, NEW next, IsGraph(next, I), NEW R \in SUBSET I
  PROVE  More(next, R) \in SUBSET I
BY DEF IsGraph, More

(* A search over a set of nodes is defined ... *)
LEMMA SearchExists ==
  ASSUME NEW I, NEW next, IsGraph(next, I), NEW S \in SUBSET I, NEW N \in Nat
  PROVE  \E g : IsSearch(g, next, S, N)
<1> DEFINE T == SUBSET I
           H == [k \in 1 .. N |-> [r \in T |-> More(next, r)]]
<1>1. S \in T
  OBVIOUS
<1>2. H \in [1 .. N -> [T -> T]]
  <2>1. \A r \in T : More(next, r) \in T
    BY MoreNodes
  <2> QED
    BY <2>1
<1> HIDE DEF H, T
<1>3. PICK g : IsIteration(g, N, S, H)
  BY <1>1, <1>2, IterationExists
<1>4. g \in [0 .. N -> T] /\ g[0] = S /\ \A k \in 1 .. N : g[k] = H[k][g[k - 1]]
  BY <1>1, <1>2, <1>3, IterationIs
<1>5. \A k \in 1 .. N : g[k] = More(next, g[k - 1])
  <2>1. \A k \in 1 .. N : k - 1 \in 0 .. N
    OBVIOUS
  <2> QED
    BY <1>4, <2>1 DEF H
<1>6. g = [k \in 0 .. N |-> g[k]]
  BY <1>4
<1>7. [k \in 0 .. N |-> g[k]] = [k \in 0 .. N |-> IF k = 0 THEN S ELSE More(next, g[k - 1])]
  BY <1>4, <1>5
<1> QED
  BY <1>6, <1>7 DEF IsSearch

(* ... and grows step by step inside it. *)
LEMMA SearchGrows ==
  ASSUME NEW I, NEW next, IsGraph(next, I), NEW S \in SUBSET I, NEW N \in Nat,
         NEW g, IsSearch(g, next, S, N)
  PROVE  Grows(g, next, I, S, N)
<1> DEFINE P == {k \in 0 .. N : g[k] \in SUBSET I}
<1>1. \A k \in 0 .. N : g[k] = IF k = 0 THEN S ELSE More(next, g[k - 1])
  BY DEF IsSearch
<1>2. g[0] = S
  BY <1>1
<1>3. ASSUME NEW k \in 1 .. N PROVE g[k] = More(next, g[k - 1])
  BY <1>1
<1>4. 0 \in P
  BY <1>2
<1>5. ASSUME NEW k \in 1 .. N, k - 1 \in P PROVE k \in P
  <2>1. More(next, g[k - 1]) \in SUBSET I
    BY <1>5, MoreNodes
  <2> QED
    BY <1>3, <2>1
<1>6. \A k \in 0 .. N : g[k] \in SUBSET I
  <2> HIDE DEF P
  <2>1. \A k \in 0 .. N : k \in P
    BY <1>4, <1>5, UpTo
  <2> QED
    BY <2>1 DEF P
<1>7. g = [k \in 0 .. N |-> g[k]]
  BY DEF IsSearch
<1> QED
  BY <1>2, <1>3, <1>6, <1>7 DEF Grows

(* As many steps as there are nodes are enough: each but the last adds one. *)
LEMMA SearchIsClosed ==
  ASSUME NEW I, NEW next, IsGraph(next, I), NEW S,
         NEW N \in Nat, N = Cardinality(I), NEW g, Grows(g, next, I, S, N)
  PROVE  g[N] \in SUBSET I /\ S \subseteq g[N] /\ IsClosed(next, g[N])
<1> DEFINE P == {k \in 0 .. N : S \subseteq g[k] /\ (IsClosed(next, g[k]) \/ Cardinality(g[k]) >= k)}
<1>1. IsFiniteSet(I) /\ next \in [I -> SUBSET I]
  BY DEF IsGraph
<1>2. /\ g \in [0 .. N -> SUBSET I]
      /\ g[0] = S
      /\ \A k \in 1 .. N : g[k] = g[k - 1] \cup UNION {next[x] : x \in g[k - 1]}
  BY DEF Grows, More
<1>3. ASSUME NEW R \in SUBSET I PROVE IsFiniteSet(R) /\ Cardinality(R) \in Nat
  BY <1>1, FS_Subset, FS_CardinalityType
<1>4. 0 \in P
  BY <1>2, <1>3
<1>5. ASSUME NEW k \in 1 .. N, k - 1 \in P PROVE k \in P
  <2> DEFINE A == g[k - 1]
             B == g[k]
  <2>1. /\ A \in SUBSET I /\ B \in SUBSET I /\ S \subseteq A
        /\ IsClosed(next, A) \/ Cardinality(A) >= k - 1
    BY <1>2, <1>5
  <2>2. B = A \cup UNION {next[x] : x \in A}
    BY <1>2
  <2> HIDE DEF A, B
  <2>3. CASE IsClosed(next, A)
    <3>1. B = A
      BY <2>1, <2>2, <2>3 DEF IsClosed
    <3> QED
      BY <2>1, <2>3, <3>1 DEF B
  <2>4. CASE ~ IsClosed(next, A)
    <3>1. A \subseteq B /\ A # B
      BY <2>1, <2>2, <2>4 DEF IsClosed
    <3>2. Cardinality(A) < Cardinality(B)
      BY <1>3, <2>1, <3>1, FS_Subset
    <3>3. Cardinality(A) \in Nat /\ Cardinality(B) \in Nat
      BY <1>3, <2>1
    <3>4. Cardinality(B) >= k
      BY <2>1, <2>4, <3>2, <3>3
    <3> QED
      BY <2>1, <3>1, <3>4 DEF B
  <2> QED
    BY <2>3, <2>4
<1>6. N \in P
  <2> HIDE DEF P
  <2>1. \A k \in 0 .. N : k \in P
    BY <1>4, <1>5, UpTo
  <2> QED
    BY <2>1
<1>7. g[N] \in SUBSET I
  BY <1>2
<1>8. IsClosed(next, g[N])
  <2>1. CASE Cardinality(g[N]) >= N
    <3>1. Cardinality(g[N]) = N
      BY <1>1, <1>3, <1>7, <2>1, FS_Subset
    <3>2. g[N] = I
      BY <1>1, <1>7, <3>1, FS_Subset
    <3> QED
      BY <1>1, <3>2 DEF IsClosed
  <2> QED
    BY <1>6, <2>1
<1> QED
  BY <1>6, <1>7, <1>8

(* What a search finds is in every closed set that contains its start. *)
LEMMA SearchIsLeast ==
  ASSUME NEW I, NEW next, NEW S, NEW N \in Nat, NEW g, Grows(g, next, I, S, N),
         NEW T, S \subseteq T, IsClosed(next, T)
  PROVE  g[N] \subseteq T
<1> DEFINE P == {k \in 0 .. N : g[k] \subseteq T}
<1>1. g[0] = S /\ \A k \in 1 .. N : g[k] = More(next, g[k - 1])
  BY DEF Grows
<1>2. 0 \in P
  BY <1>1
<1>3. ASSUME NEW k \in 1 .. N, k - 1 \in P PROVE k \in P
  <2>1. g[k - 1] \subseteq T
    BY <1>3
  <2>2. g[k] = More(next, g[k - 1])
    BY <1>1
  <2>3. g[k] \subseteq T
    BY <2>1, <2>2 DEF More, IsClosed
  <2> QED
    BY <2>3
<1> HIDE DEF P
<1>4. \A k \in 0 .. N : k \in P
  BY <1>2, <1>3, UpTo
<1> QED
  BY <1>4 DEF P

(* Closure computes such a search. *)
LEMMA ClosureIsSearched ==
  ASSUME NEW I, NEW next, IsGraph(next, I), NEW S \in SUBSET I
  PROVE  /\ Cardinality(I) \in Nat
         /\ \E g : Grows(g, next, I, S, Cardinality(I)) /\ Closure(next, S) = g[Cardinality(I)]
<1> DEFINE N == Cardinality(I)
           g == CHOOSE h : IsSearch(h, next, S, N)
<1>1. N \in Nat /\ DOMAIN next = I
  BY FS_CardinalityType DEF IsGraph
<1>2. Closure(next, S) = g[N]
  BY <1>1 DEF Closure, IsSearch, More
<1> HIDE DEF N
<1>3. \E h : IsSearch(h, next, S, N)
  BY <1>1, SearchExists
<1>4. IsSearch(g, next, S, N)
  BY <1>3
<1> HIDE DEF g
<1>5. Grows(g, next, I, S, N)
  BY <1>1, <1>4, SearchGrows
<1> QED
  BY <1>1, <1>2, <1>5 DEF N

(* What is reached are nodes, the first ones among them, and with a node come those *)
(* behind it ...                                                                    *)
LEMMA ClosureClosed ==
  ASSUME NEW I, NEW next, IsGraph(next, I), NEW S \in SUBSET I
  PROVE  /\ Closure(next, S) \in SUBSET I
         /\ S \subseteq Closure(next, S)
         /\ IsClosed(next, Closure(next, S))
<1> DEFINE N == Cardinality(I)
<1>1. PICK g : Grows(g, next, I, S, N) /\ Closure(next, S) = g[N]
  BY ClosureIsSearched
<1>2. N \in Nat
  BY ClosureIsSearched
<1>3. g[N] \in SUBSET I /\ S \subseteq g[N] /\ IsClosed(next, g[N])
  BY <1>1, <1>2, SearchIsClosed
<1> QED
  BY <1>1, <1>3

(* ... and there are no others than those have to be. *)
LEMMA ClosureLeast ==
  ASSUME NEW I, NEW next, IsGraph(next, I), NEW S \in SUBSET I,
         NEW T, S \subseteq T, IsClosed(next, T)
  PROVE  Closure(next, S) \subseteq T
<1> DEFINE N == Cardinality(I)
<1>1. N \in Nat /\ \E g : Grows(g, next, I, S, N) /\ Closure(next, S) = g[N]
  BY ClosureIsSearched
<1> HIDE DEF N
<1>2. PICK g : Grows(g, next, I, S, N) /\ Closure(next, S) = g[N]
  BY <1>1
<1>3. g[N] \subseteq T
  BY <1>1, <1>2, SearchIsLeast
<1> QED
  BY <1>2, <1>3

-----------------------------------------------------------------------------
(* Powers *)

(* A power of two is at least its exponent. *)
LEMMA Powers ==
  ASSUME NEW n \in Nat
  PROVE  2 ^ n \in Nat /\ n <= 2 ^ n
<1> DEFINE S == 1 .. n
           T == {{x} : x \in S}
           f == [x \in S |-> {x}]
<1>1. IsFiniteSet(S) /\ Cardinality(S) = n
  BY FS_Interval
<1>2. IsFiniteSet(SUBSET S) /\ Cardinality(SUBSET S) = 2 ^ Cardinality(S)
  <2> HIDE DEF S
  <2> QED
    BY <1>1, FS_SUBSET
<1>3. f \in Injection(S, SUBSET S)
  BY DEF Injection, IsInjective
<1> HIDE DEF S, f
<1>4. Cardinality(S) <= Cardinality(SUBSET S) /\ Cardinality(SUBSET S) \in Nat
  BY <1>2, <1>3, FS_Injection, FS_CardinalityType
<1> QED
  BY <1>1, <1>2, <1>4

(* The sets of numbers up to n + 1 are those up to n, with n + 1 and without. *)
LEMMA PowerDoubles ==
  ASSUME NEW n \in Nat
  PROVE  2 ^ (n + 1) = 2 * 2 ^ n
<1> DEFINE S == 1 .. n
           T == 1 .. n + 1
           A == SUBSET S
           B == {X \in SUBSET T : n + 1 \in X}
           f == [X \in A |-> X \cup {n + 1}]
<1>1. IsFiniteSet(S) /\ Cardinality(S) = n /\ IsFiniteSet(T) /\ Cardinality(T) = n + 1
  <2>1. n + 1 \in Int /\ n \in Int /\ 1 \in Int
    OBVIOUS
  <2>2. IsFiniteSet(T) /\ Cardinality(T) = IF 1 <= n + 1 THEN (n + 1) - 1 + 1 ELSE 0
    BY <2>1, FS_Interval
  <2>3. IsFiniteSet(S) /\ Cardinality(S) = IF 1 <= n THEN n - 1 + 1 ELSE 0
    BY <2>1, FS_Interval
  <2> QED
    BY <2>2, <2>3
<1>2. /\ IsFiniteSet(A) /\ Cardinality(A) = 2 ^ n
      /\ Cardinality(SUBSET T) = 2 ^ (n + 1)
  <2> HIDE DEF S, T
  <2>1. IsFiniteSet(SUBSET S) /\ Cardinality(SUBSET S) = 2 ^ Cardinality(S)
    BY <1>1, FS_SUBSET
  <2>2. Cardinality(SUBSET T) = 2 ^ Cardinality(T)
    BY <1>1, FS_SUBSET
  <2> QED
    BY <1>1, <2>1, <2>2
<1>3. T = S \cup {n + 1} /\ n + 1 \notin S
  OBVIOUS
<1>4. SUBSET T = A \cup B /\ A \cap B = {}
  BY <1>3
<1>5. f \in Bijection(A, B)
  <2> HIDE DEF S, T
  <2>1. \A X \in A : f[X] \in B
    BY <1>3
  <2>2. \A X, Y \in A : f[X] = f[Y] => X = Y
    <3> SUFFICES ASSUME NEW X \in A, NEW Y \in A, X \cup {n + 1} = Y \cup {n + 1} PROVE X = Y
      OBVIOUS
    <3> QED
      BY <1>3
  <2>3. ASSUME NEW Y \in B PROVE \E X \in A : f[X] = Y
    <3> DEFINE X == Y \ {n + 1}
    <3>1. X \in A /\ X \cup {n + 1} = Y
      BY <1>3
    <3> HIDE DEF X
    <3> QED
      BY <3>1
  <2>4. f \in [A -> B]
    BY <2>1
  <2> HIDE DEF f, A, B
  <2> QED
    BY <2>2, <2>3, <2>4 DEF Bijection, Injection, IsInjective, Surjection
<1> HIDE DEF f, A, B, S, T
<1>6. IsFiniteSet(B) /\ Cardinality(B) = Cardinality(A)
  BY <1>2, <1>5, FS_Bijection DEF ExistsBijection
<1>7. Cardinality(A \cup B) = Cardinality(A) + Cardinality(B) - Cardinality(A \cap B)
  BY <1>2, <1>6, FS_Union
<1>8. Cardinality({}) = 0
  BY FS_EmptySet
<1>9. 2 ^ n \in Nat
  BY Powers
<1>10. Cardinality(A \cup B) = 2 ^ n + 2 ^ n
  <2>1. Cardinality(A \cup B) = 2 ^ n + 2 ^ n - 0
    BY <1>2, <1>4, <1>6, <1>7, <1>8
  <2> QED
    BY <1>9, <2>1
<1>11. 2 ^ (n + 1) = 2 ^ n + 2 ^ n
  BY <1>2, <1>4, <1>10, Zenon
<1>12. \A x \in Nat : x + x = 2 * x
  OBVIOUS
<1> QED
  BY <1>9, <1>11, <1>12

LEMMA PowersAdd ==
  ASSUME NEW m \in Nat, NEW n \in Nat
  PROVE  2 ^ (m + n) = 2 ^ m * 2 ^ n
<1> DEFINE P == {k \in 0 .. n : 2 ^ (m + k) = 2 ^ m * 2 ^ k}
<1>1. \A k \in Nat : 2 ^ k \in Nat
  BY Powers
<1>2. 0 \in P
  <2>1. 2 ^ 0 = 1 /\ m + 0 = m /\ 2 ^ m \in Nat
    BY <1>1
  <2>2. 2 ^ (m + 0) = 2 ^ m
    BY <2>1
  <2> QED
    BY <2>1, <2>2
<1>3. ASSUME NEW k \in 1 .. n, k - 1 \in P PROVE k \in P
  <2> DEFINE l == k - 1
  <2>1. l \in Nat /\ m + l \in Nat /\ k = l + 1 /\ m + k = (m + l) + 1
    OBVIOUS
  <2>2. 2 ^ (m + l) = 2 ^ m * 2 ^ l
    BY <1>3
  <2> HIDE DEF l
  <2>3. 2 ^ (l + 1) = 2 * 2 ^ l /\ 2 ^ ((m + l) + 1) = 2 * 2 ^ (m + l)
    BY <2>1, PowerDoubles
  <2>4. 2 ^ k = 2 * 2 ^ l /\ 2 ^ (m + k) = 2 * (2 ^ m * 2 ^ l)
    BY <2>1, <2>2, <2>3
  <2>5. 2 ^ m \in Int /\ 2 ^ l \in Int
    BY <1>1, <2>1
  <2>6. \A a, b \in Int : 2 * (a * b) = a * (2 * b)
    OBVIOUS
  <2>7. 2 * (2 ^ m * 2 ^ l) = 2 ^ m * (2 * 2 ^ l)
    BY <2>5, <2>6
  <2> QED
    BY <2>4, <2>7
<1> HIDE DEF P
<1>4. n \in P
  BY <1>2, <1>3, UpTo
<1> QED
  BY <1>4 DEF P
=============================================================================
