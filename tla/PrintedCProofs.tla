--------------------------- MODULE PrintedCProofs ---------------------------
(***************************************************************************)
(* Proofs about PrintedC, for all widths of int and long and for every     *)
(* function: the printed expressions compute what the instructions do, and *)
(* the printed function runs in step with the function it is printed for.  *)
(***************************************************************************)
EXTENDS PrintedC, DataProofs

-----------------------------------------------------------------------------
(* Integers of a width *)

Fits(x, w) == x \in -(2 ^ (w - 1)) .. 2 ^ (w - 1) - 1

(* Division with remainder. *)
LEMMA Division ==
  ASSUME NEW d \in Nat \ {0}
  PROVE  /\ \A x \in Int : /\ x \div d \in Int /\ x % d \in 0 .. d - 1
                           /\ x = d * (x \div d) + (x % d)
         /\ \A q \in Int, r \in 0 .. d - 1 : (d * q + r) \div d = q /\ (d * q + r) % d = r
OBVIOUS

(* A power of two is twice the one before. *)
LEMMA HalfOf ==
  ASSUME NEW w \in Nat \ {0}
  PROVE  2 ^ (w - 1) \in Nat \ {0} /\ 2 ^ w = 2 * 2 ^ (w - 1) /\ 2 ^ w \in Nat \ {0}
<1> DEFINE v == w - 1
<1>1. v \in Nat /\ w = v + 1
  OBVIOUS
<1> HIDE DEF v
<1>2. 2 ^ v \in Nat /\ 2 ^ (v + 1) = 2 * 2 ^ v /\ 2 ^ (v + 1) \in Nat
  BY <1>1, Powers, PowerDoubles
<1>3. v + 1 <= 2 ^ (v + 1)
  BY <1>1, Powers
<1>4. 2 ^ v # 0
  BY <1>1, <1>2, <1>3
<1> QED
  BY <1>1, <1>2, <1>4 DEF v

(* A greater power is a multiple of a smaller one. *)
LEMMA PowerDivides ==
  ASSUME NEW v \in Nat, NEW w \in Nat, v <= w
  PROVE  /\ 2 ^ (w - v) \in Nat \ {0} /\ 2 ^ v \in Nat \ {0} /\ 2 ^ w = 2 ^ v * 2 ^ (w - v)
         /\ 2 ^ v <= 2 ^ w
<1>1. \A k \in Nat : 2 ^ k \in Nat \ {0}
  <2> TAKE k \in Nat
  <2>1. k + 1 \in Nat \ {0} /\ (k + 1) - 1 = k
    OBVIOUS
  <2> QED
    BY <2>1, HalfOf
<1> DEFINE u == w - v
<1>2. u \in Nat /\ v + u = w
  OBVIOUS
<1> HIDE DEF u
<1>3. 2 ^ w = 2 ^ v * 2 ^ u
  BY <1>2, PowersAdd
<1>4. \A a, b \in Nat \ {0} : a <= a * b
  OBVIOUS
<1> QED
  BY <1>1, <1>2, <1>3, <1>4 DEF u

(* Numbers that differ by a multiple of 2^w are the same integer of width w. *)
LEMMA WrapCongruent ==
  ASSUME NEW w \in Nat \ {0}, NEW x \in Int, NEW q \in Int
  PROVE  Wrap(x + 2 ^ w * q, w) = Wrap(x, w) /\ Signed(x + 2 ^ w * q, w) = Signed(x, w)
<1> DEFINE M == 2 ^ w
<1>1. M \in Nat \ {0}
  BY HalfOf
<1> HIDE DEF M
<1>2. x % M \in 0 .. M - 1 /\ x \div M \in Int /\ x = M * (x \div M) + (x % M)
  BY <1>1, Division
<1>3. \A p \in Int, r \in 0 .. M - 1 : (M * p + r) % M = r
  BY <1>1, Division
<1>4. (x + M * q) % M = x % M
  <2> DEFINE p == x \div M
             r == x % M
  <2>1. p \in Int /\ r \in 0 .. M - 1 /\ x = M * p + r /\ p + q \in Int
    BY <1>2
  <2> HIDE DEF p, r
  <2>2. x + M * q = M * (p + q) + r
    BY <1>1, <2>1
  <2>3. (M * (p + q) + r) % M = r
    BY <1>3, <2>1
  <2> QED
    BY <2>2, <2>3 DEF r
<1>5. Wrap(x + M * q, w) = Wrap(x, w)
  BY <1>4 DEF Wrap, M
<1> QED
  BY <1>5 DEF Signed, M

(* Wrap gives the pattern, Signed the signed integer, and neither changes one it *)
(* would give.                                                                  *)
LEMMA WrapIs ==
  ASSUME NEW w \in Nat \ {0}, NEW x \in Int
  PROVE  /\ Wrap(x, w) \in 0 .. 2 ^ w - 1
         /\ Fits(Signed(x, w), w)
         /\ \E q \in Int : Wrap(x, w) = x + 2 ^ w * q
         /\ \E q \in Int : Signed(x, w) = x + 2 ^ w * q
         /\ x \in 0 .. 2 ^ w - 1 => Wrap(x, w) = x
         /\ Fits(x, w) => Signed(x, w) = x
<1> DEFINE M == 2 ^ w
           H == 2 ^ (w - 1)
           q == x \div M
<1>1. M \in Nat \ {0} /\ H \in Nat \ {0} /\ M = 2 * H
  BY HalfOf
<1> HIDE DEF M, H
<1>2. x % M \in 0 .. M - 1 /\ q \in Int /\ x = M * q + (x % M)
  BY <1>1, Division
<1>3. Wrap(x, w) = x % M
  BY DEF Wrap, M
<1>4. Signed(x, w) = IF x % M >= H THEN (x % M) - M ELSE x % M
  BY <1>3 DEF Signed, M, H
<1> HIDE DEF q
<1>5. x % M = x + M * (-q) /\ (x % M) - M = x + M * (-q - 1) /\ -q \in Int /\ -q - 1 \in Int
  BY <1>1, <1>2
<1>6. x \in 0 .. M - 1 => x % M = x
  <2>1. 0 \in Int /\ M * 0 + x = x
    BY <1>1
  <2> QED
    BY <1>1, <2>1, Division
<1>7. x \in -H .. H - 1 => (IF x % M >= H THEN (x % M) - M ELSE x % M) = x
  <2>1. CASE x \in 0 .. H - 1
    BY <1>1, <1>6, <2>1
  <2>2. CASE x \in -H .. -1
    <3>1. x + M \in 0 .. M - 1 /\ M * (-1) + (x + M) = x /\ -1 \in Int
      BY <1>1, <2>2
    <3>2. \A p \in Int, r \in 0 .. M - 1 : (M * p + r) % M = r
      BY <1>1, Division
    <3>3. (M * (-1) + (x + M)) % M = x + M
      BY <3>1, <3>2
    <3>4. x % M = x + M
      BY <3>1, <3>3
    <3> QED
      BY <1>1, <2>2, <3>4
  <2> QED
    BY <1>1, <2>1, <2>2
<1>8. Signed(x, w) \in -H .. H - 1
  BY <1>1, <1>2, <1>4
<1>9. Signed(x, w) = x + M * (-q) \/ Signed(x, w) = x + M * (-q - 1)
  BY <1>4, <1>5
<1> QED
  BY <1>2, <1>3, <1>4, <1>5, <1>6, <1>7, <1>8, <1>9 DEF Fits, M, H

(* Two numbers with one pattern are one signed integer; the pattern of a signed *)
(* integer is that of the number.                                              *)
LEMMA SamePattern ==
  ASSUME NEW w \in Nat \ {0}, NEW x \in Int, NEW y \in Int
  PROVE  /\ Wrap(x, w) = Wrap(y, w) <=> Signed(x, w) = Signed(y, w)
         /\ Wrap(Signed(x, w), w) = Wrap(x, w) /\ Wrap(Wrap(x, w), w) = Wrap(x, w)
         /\ Signed(Signed(x, w), w) = Signed(x, w) /\ Signed(Wrap(x, w), w) = Signed(x, w)
<1>1. \A z \in Int : Wrap(z, w) \in Int /\ Signed(z, w) \in Int
  <2> TAKE z \in Int
  <2>1. 2 ^ (w - 1) \in Nat /\ 2 ^ w \in Nat
    BY HalfOf
  <2>2. Wrap(z, w) \in 0 .. 2 ^ w - 1 /\ Fits(Signed(z, w), w)
    BY WrapIs
  <2> QED
    BY <2>1, <2>2 DEF Fits
<1>2. \A z \in Int : Wrap(Signed(z, w), w) = Wrap(z, w) /\ Signed(Signed(z, w), w) = Signed(z, w)
  <2> TAKE z \in Int
  <2>1. PICK q \in Int : Signed(z, w) = z + 2 ^ w * q
    BY WrapIs
  <2> QED
    BY <2>1, WrapCongruent
<1>3. \A z \in Int : Wrap(Wrap(z, w), w) = Wrap(z, w) /\ Signed(Wrap(z, w), w) = Signed(z, w)
  <2> TAKE z \in Int
  <2>1. PICK q \in Int : Wrap(z, w) = z + 2 ^ w * q
    BY WrapIs
  <2> QED
    BY <2>1, WrapCongruent
<1>4. Wrap(x, w) = Wrap(y, w) => Signed(x, w) = Signed(y, w)
  BY DEF Signed
<1>5. Signed(x, w) = Signed(y, w) => Wrap(x, w) = Wrap(y, w)
  BY <1>2
<1> QED
  BY <1>2, <1>3, <1>4, <1>5

(* What is done to an integer of a greater width does not show in a smaller one. *)
LEMMA Narrower ==
  ASSUME NEW w \in Nat \ {0}, NEW v \in Nat, w <= v, NEW x \in Int
  PROVE  /\ Wrap(Wrap(x, v), w) = Wrap(x, w) /\ Signed(Wrap(x, v), w) = Signed(x, w)
         /\ Wrap(Signed(x, v), w) = Wrap(x, w) /\ Signed(Signed(x, v), w) = Signed(x, w)
         /\ Fits(x, w) => Fits(x, v) /\ Signed(x, v) = x
         /\ x \in 0 .. 2 ^ w - 1 => x \in 0 .. 2 ^ v - 1 /\ Wrap(x, v) = x
<1>1. 2 ^ v = 2 ^ w * 2 ^ (v - w) /\ 2 ^ (v - w) \in Nat /\ 2 ^ w \in Nat /\ 2 ^ w <= 2 ^ v
  BY PowerDivides
<1>2. \A q \in Int : 2 ^ v * q = 2 ^ w * (2 ^ (v - w) * q) /\ 2 ^ (v - w) * q \in Int
  <2>1. \A a, b, q \in Int : (a * b) * q = a * (b * q) /\ b * q \in Int
    OBVIOUS
  <2> QED
    BY <1>1, <2>1
<1>3. \A q \in Int : Wrap(x + 2 ^ v * q, w) = Wrap(x, w) /\ Signed(x + 2 ^ v * q, w) = Signed(x, w)
  BY <1>2, WrapCongruent
<1>4. v \in Nat \ {0}
  OBVIOUS
<1>5. (\E q \in Int : Wrap(x, v) = x + 2 ^ v * q) /\ (\E q \in Int : Signed(x, v) = x + 2 ^ v * q)
  BY <1>4, WrapIs
<1>6. Fits(x, w) => Fits(x, v)
  <2>1. w - 1 \in Nat /\ v - 1 \in Nat /\ w - 1 <= v - 1
    OBVIOUS
  <2>2. 2 ^ (w - 1) <= 2 ^ (v - 1) /\ 2 ^ (w - 1) \in Nat /\ 2 ^ (v - 1) \in Nat
    <3>1. 2 ^ (w - 1) <= 2 ^ (v - 1)
      BY <2>1, PowerDivides
    <3> QED
      BY <2>1, <3>1, Powers
  <2> QED
    BY <2>2 DEF Fits
<1>7. x \in 0 .. 2 ^ w - 1 => x \in 0 .. 2 ^ v - 1
  <2>1. 2 ^ v \in Nat
    BY Powers
  <2> QED
    BY <1>1, <2>1
<1>8. PICK p \in Int, q \in Int : Wrap(x, v) = x + 2 ^ v * p /\ Signed(x, v) = x + 2 ^ v * q
  BY <1>5
<1>9. /\ Wrap(Wrap(x, v), w) = Wrap(x, w) /\ Signed(Wrap(x, v), w) = Signed(x, w)
      /\ Wrap(Signed(x, v), w) = Wrap(x, w) /\ Signed(Signed(x, v), w) = Signed(x, w)
  BY <1>3, <1>8
<1> QED
  BY <1>4, <1>6, <1>7, <1>9, WrapIs

-----------------------------------------------------------------------------
(* Operations bit by bit *)

Tables == [0 .. 1 -> [0 .. 1 -> 0 .. 1]]

(* The low bits of a result, more and more of them: as BitByBit computes them, and what *)
(* that comes to.                                                                       *)
IsLow(low, table, x, y) ==
  low = [n \in 0 .. LongBits + 1 |->
           IF n = 0 THEN 0 ELSE low[n - 1] + 2 ^ (n - 1) * table[Bit(x, n - 1)][Bit(y, n - 1)]]
LowBits(low, table, x, y) ==
  /\ low \in [0 .. LongBits + 1 -> Nat]
  /\ low[0] = 0
  /\ \A n \in 1 .. LongBits + 1 :
       low[n] = low[n - 1] + 2 ^ (n - 1) * table[Bit(x, n - 1)][Bit(y, n - 1)]

(* A bit is 0 or 1. *)
LEMMA BitType ==
  ASSUME NEW x \in Int, NEW k \in Nat
  PROVE  Bit(x, k) \in 0 .. 1
<1>1. 2 ^ k \in Nat \ {0}
  BY PowerDivides
<1>2. x \div 2 ^ k \in Int
  BY <1>1, Division
<1>3. \A y \in Int : y % 2 \in 0 .. 1
  OBVIOUS
<1> QED
  BY <1>2, <1>3 DEF Bit

(* A bit of the result is worth its power of two. *)
LEMMA BitWorth ==
  ASSUME NEW table \in Tables, NEW x \in Int, NEW y \in Int, NEW k \in Nat
  PROVE  2 ^ k * table[Bit(x, k)][Bit(y, k)] \in {0, 2 ^ k}
<1>1. Bit(x, k) \in 0 .. 1 /\ Bit(y, k) \in 0 .. 1 /\ 2 ^ k \in Nat
  BY BitType, Powers
<1>2. table[Bit(x, k)][Bit(y, k)] \in 0 .. 1
  BY <1>1 DEF Tables
<1>3. \A p \in Nat, q \in 0 .. 1 : p * q \in {0, p}
  OBVIOUS
<1> QED
  BY <1>1, <1>2, <1>3

(* The operation adds up bit after bit. *)
LEMMA BitByBitIs ==
  ASSUME NEW table \in Tables, NEW x \in Int, NEW y \in Int
  PROVE  \E low : /\ LowBits(low, table, x, y)
                  /\ BitByBit(table, x, y) = Signed(low[LongBits + 1], LongBits + 1)
<1> DEFINE N == LongBits + 1
           b == [n \in 1 .. N |-> 2 ^ (n - 1) * table[Bit(x, n - 1)][Bit(y, n - 1)]]
           H == [n \in 1 .. N |-> [l \in Nat |-> l + b[n]]]
           g == CHOOSE h : IsLow(h, table, x, y)
<1>1. N \in Nat
  BY WidthAssumption
<1>2. BitByBit(table, x, y) = Signed(g[N], N)
  BY DEF BitByBit, IsLow
<1> HIDE DEF N
<1>3. \A n \in 1 .. N : b[n] \in Nat /\ b[n] = 2 ^ (n - 1) * table[Bit(x, n - 1)][Bit(y, n - 1)]
  <2> TAKE n \in 1 .. N
  <2>1. n - 1 \in Nat
    BY <1>1
  <2>2. b[n] \in {0, 2 ^ (n - 1)} /\ 2 ^ (n - 1) \in Nat
    BY <2>1, BitWorth, Powers
  <2> QED
    BY <2>2
<1> HIDE DEF b
<1>4. H \in [1 .. N -> [Nat -> Nat]] /\ \A n \in 1 .. N, l \in Nat : H[n][l] = l + b[n]
  BY <1>3
<1> HIDE DEF H
<1>5. PICK h : IsIteration(h, N, 0, H)
  BY <1>1, <1>4, IterationExists
<1>6. h \in [0 .. N -> Nat] /\ h[0] = 0 /\ \A n \in 1 .. N : h[n] = H[n][h[n - 1]]
  <2> DEFINE T == Nat
  <2>1. 0 \in T /\ H \in [1 .. N -> [T -> T]]
    BY <1>4
  <2> HIDE DEF T
  <2>2. h \in [0 .. N -> T] /\ h[0] = 0 /\ \A n \in 1 .. N : h[n] = H[n][h[n - 1]]
    BY <1>1, <1>5, <2>1, IterationIs
  <2> QED
    BY <2>2 DEF T
<1>7. \A n \in 1 .. N : h[n] = h[n - 1] + 2 ^ (n - 1) * table[Bit(x, n - 1)][Bit(y, n - 1)]
  <2> TAKE n \in 1 .. N
  <2>1. h[n - 1] \in Nat
    BY <1>1, <1>6
  <2> QED
    BY <1>3, <1>4, <1>6, <2>1
<1>8. IsLow(h, table, x, y)
  <2>1. h = [n \in 0 .. N |-> h[n]]
    BY <1>6
  <2>2. [n \in 0 .. N |-> h[n]] =
          [n \in 0 .. N |-> IF n = 0 THEN 0
                            ELSE h[n - 1] + 2 ^ (n - 1) * table[Bit(x, n - 1)][Bit(y, n - 1)]]
    BY <1>6, <1>7
  <2> QED
    BY <2>1, <2>2 DEF IsLow, N
<1>9. IsLow(g, table, x, y)
  BY <1>8
<1> HIDE DEF g
<1>10. /\ DOMAIN g = 0 .. N /\ g[0] = 0
       /\ \A n \in 1 .. N : g[n] = g[n - 1] + 2 ^ (n - 1) * table[Bit(x, n - 1)][Bit(y, n - 1)]
  BY <1>1, <1>9 DEF IsLow, N
<1> DEFINE P == {n \in 0 .. N : g[n] \in Nat}
<1>11. 0 \in P
  BY <1>1, <1>10
<1>12. ASSUME NEW n \in 1 .. N, n - 1 \in P PROVE n \in P
  BY <1>3, <1>10, <1>12
<1> HIDE DEF P
<1>13. \A n \in 0 .. N : n \in P
  BY <1>1, <1>11, <1>12, UpTo
<1>14. g \in [0 .. N -> Nat]
  <2>1. g = [n \in 0 .. N |-> g[n]]
    BY <1>9 DEF IsLow, N
  <2> QED
    BY <1>13, <2>1 DEF P
<1>15. LowBits(g, table, x, y)
  BY <1>10, <1>14 DEF LowBits, N
<1> QED
  BY <1>2, <1>15 DEF N

(* The low n bits are a number below 2^n and the rest of any more bits. *)
LEMMA LowIsRest ==
  ASSUME NEW table \in Tables, NEW x \in Int, NEW y \in Int,
         NEW low, LowBits(low, table, x, y),
         NEW w \in 1 .. LongBits + 1, NEW n \in w .. LongBits + 1
  PROVE  low[w] \in 0 .. 2 ^ w - 1 /\ Wrap(low[n], w) = low[w]
<1> DEFINE N == LongBits + 1
           b(k) == 2 ^ k * table[Bit(x, k)][Bit(y, k)]
<1>1. /\ N \in Nat /\ low \in [0 .. N -> Nat] /\ low[0] = 0
      /\ \A k \in 1 .. N : low[k] = low[k - 1] + b(k - 1)
  BY WidthAssumption DEF LowBits
<1>2. w \in 1 .. N /\ n \in w .. N
  OBVIOUS
<1> HIDE DEF N
<1>3. \A k \in Nat : b(k) \in {0, 2 ^ k} /\ 2 ^ k \in Nat
  BY BitWorth, Powers
<1> HIDE DEF b
<1> DEFINE P == {k \in 0 .. N : low[k] \in 0 .. 2 ^ k - 1}
<1>4. 0 \in P
  <2>1. 2 ^ 0 = 1
    OBVIOUS
  <2> QED
    BY <1>1, <2>1
<1>5. ASSUME NEW k \in 1 .. N, k - 1 \in P PROVE k \in P
  <2>1. 2 ^ k = 2 * 2 ^ (k - 1) /\ 2 ^ (k - 1) \in Nat
    BY HalfOf
  <2>2. b(k - 1) \in {0, 2 ^ (k - 1)} /\ low[k] = low[k - 1] + b(k - 1)
    BY <1>1, <1>3
  <2>3. low[k - 1] \in 0 .. 2 ^ (k - 1) - 1
    BY <1>5
  <2>4. low[k] \in 0 .. 2 ^ k - 1
    BY <2>1, <2>2, <2>3
  <2> QED
    BY <2>4
<1>6. low[w] \in 0 .. 2 ^ w - 1
  <2> HIDE DEF P
  <2>1. \A k \in 0 .. N : k \in P
    BY <1>1, <1>4, <1>5, UpTo
  <2>2. w \in P
    BY <1>1, <1>2, <2>1
  <2> QED
    BY <2>2 DEF P
<1> DEFINE Q == {k \in 0 .. N : k >= w => Wrap(low[k], w) = low[w]}
<1>7. 0 \in Q
  BY <1>1, <1>2
<1>8. ASSUME NEW k \in 1 .. N, k - 1 \in Q PROVE k \in Q
  <2> SUFFICES ASSUME k >= w PROVE Wrap(low[k], w) = low[w]
    OBVIOUS
  <2>1. CASE k = w
    <3>1. w \in Nat \ {0} /\ low[w] \in Int
      BY <1>1, <1>2
    <3>2. Wrap(low[w], w) = low[w]
      BY <1>6, <3>1, WrapIs
    <3> QED
      BY <2>1, <3>2
  <2>2. CASE k > w
    <3>1. k - 1 \in Nat /\ w \in Nat \ {0} /\ w <= k - 1 /\ k - 1 >= w
      BY <1>2, <2>2
    <3>2. 2 ^ (k - 1) = 2 ^ w * 2 ^ (k - 1 - w) /\ 2 ^ (k - 1 - w) \in Nat /\ 2 ^ w \in Nat
      BY <3>1, PowerDivides
    <3>3. \E q \in Int : b(k - 1) = 2 ^ w * q
      <4>1. 2 ^ w * 0 = 0 /\ 0 \in Int
        BY <3>2
      <4>2. b(k - 1) = 0 \/ b(k - 1) = 2 ^ w * 2 ^ (k - 1 - w)
        BY <1>3, <3>1, <3>2
      <4>3. 2 ^ (k - 1 - w) \in Int
        BY <3>2
      <4> QED
        BY <4>1, <4>2, <4>3
    <3>4. PICK q \in Int : b(k - 1) = 2 ^ w * q
      BY <3>3
    <3>5. low[k - 1] \in Int /\ low[k] = low[k - 1] + 2 ^ w * q
      BY <1>1, <3>1, <3>4
    <3>6. Wrap(low[k], w) = Wrap(low[k - 1], w)
      BY <3>1, <3>5, WrapCongruent
    <3> QED
      BY <1>8, <3>1, <3>6
  <2> QED
    BY <1>2, <2>1, <2>2
<1>9. n \in Q
  <2> HIDE DEF Q
  <2>1. \A k \in 0 .. N : k \in Q
    BY <1>1, <1>7, <1>8, UpTo
  <2> QED
    BY <1>1, <1>2, <2>1
<1> QED
  BY <1>2, <1>6, <1>9

(* The low bits are those of the pattern ... *)
LEMMA BitSame ==
  ASSUME NEW w \in Nat, NEW k \in Nat, k < w, NEW x \in Int, NEW y \in Int, Wrap(x, w) = Wrap(y, w)
  PROVE  Bit(x, k) = Bit(y, k)
<1> DEFINE K == 2 ^ k
           U == 2 ^ (w - k - 1)
           M == 2 ^ w
<1>1. K \in Nat \ {0} /\ U \in Nat \ {0} /\ M \in Nat \ {0} /\ M = K * (2 * U)
  <2>1. k + 1 \in Nat /\ k + 1 <= w /\ w - (k + 1) = w - k - 1 /\ w \in Nat \ {0} /\ w - k - 1 \in Nat
    OBVIOUS
  <2>2. U \in Nat \ {0} /\ 2 ^ (k + 1) \in Nat \ {0} /\ M = 2 ^ (k + 1) * U
    BY <2>1, PowerDivides
  <2>3. 2 ^ (k + 1) = 2 * K /\ K \in Nat \ {0}
    BY PowerDoubles, PowerDivides
  <2>4. M \in Nat \ {0}
    BY <2>1, HalfOf
  <2> HIDE DEF K, U, M
  <2> QED
    BY <2>2, <2>3, <2>4
<1>2. x % M = y % M
  BY DEF Wrap
<1> HIDE DEF K, U, M
<1>3. PICK q \in Int : x = y + M * q
  <2>1. x = M * (x \div M) + (x % M) /\ y = M * (y \div M) + (y % M)
    BY <1>1, Division
  <2>2. x \div M \in Int /\ y \div M \in Int /\ y % M \in Int
    BY <1>1, Division
  <2>3. \A a, b, c \in Int : M * a + c = (M * b + c) + M * (a - b) /\ a - b \in Int
    BY <1>1
  <2> QED
    BY <1>2, <2>1, <2>2, <2>3
<1>4. PICK p \in Int, r \in 0 .. K - 1 : y = K * p + r /\ y \div K = p
  <2>1. y = K * (y \div K) + (y % K) /\ y \div K \in Int /\ y % K \in 0 .. K - 1
    BY <1>1, Division
  <2> QED
    BY <2>1
<1>5. x \div K = p + 2 * (U * q)
  <2>1. \A a, b, c, d \in Int : (a * (2 * b)) * c = a * (2 * (b * c)) /\ b * c \in Int
    OBVIOUS
  <2>2. M * q = K * (2 * (U * q)) /\ U * q \in Int
    BY <1>1, <2>1
  <2> DEFINE v == U * q
  <2>3. x = K * (p + 2 * v) + r
    <3> HIDE DEF v
    <3>1. x = K * p + r + K * (2 * v)
      BY <1>3, <1>4, <2>2 DEF v
    <3>2. v \in Int
      BY <2>2 DEF v
    <3> QED
      BY <1>1, <3>1, <3>2
  <2>4. \A z \in Int, s \in 0 .. K - 1 : (K * z + s) \div K = z
    BY <1>1, Division
  <2>5. p + 2 * v \in Int
    BY <2>2
  <2> HIDE DEF v
  <2>6. x \div K = p + 2 * v
    BY <2>3, <2>4, <2>5
  <2> QED
    BY <2>6 DEF v
<1>6. U * q \in Int
  BY <1>1
<1>7. \A a, b \in Int : (a + 2 * b) % 2 = a % 2
  OBVIOUS
<1>8. (x \div K) % 2 = (y \div K) % 2
  BY <1>4, <1>5, <1>6, <1>7
<1> QED
  BY <1>8 DEF Bit, K

(* ... and those above the sign are like it. *)
LEMMA SignBit ==
  ASSUME NEW w \in Nat \ {0}, NEW k \in Nat, w - 1 <= k, NEW x \in Int, Fits(x, w)
  PROVE  Bit(x, k) = IF x < 0 THEN 1 ELSE 0
<1> DEFINE K == 2 ^ k
           H == 2 ^ (w - 1)
<1>1. K \in Nat \ {0} /\ H \in Nat /\ H <= K
  <2>1. w - 1 \in Nat
    OBVIOUS
  <2> QED
    BY <2>1, PowerDivides
<1>2. x \in -H .. H - 1
  BY DEF Fits
<1> HIDE DEF K, H
<1>3. \A p \in Int, r \in 0 .. K - 1 : (K * p + r) \div K = p
  BY <1>1, Division
<1>4. CASE x < 0
  <2>1. x + K \in 0 .. K - 1 /\ x = K * (-1) + (x + K) /\ -1 \in Int
    BY <1>1, <1>2, <1>4
  <2>2. (K * (-1) + (x + K)) \div K = -1
    BY <1>3, <2>1
  <2>3. x \div K = -1
    BY <2>1, <2>2
  <2>4. \A z \in Int : z + 1 = 0 => z % 2 = 1
    OBVIOUS
  <2>5. x \div K \in Int /\ x \div K + 1 = 0
    BY <2>3
  <2>6. (x \div K) % 2 = 1
    BY <2>4, <2>5
  <2> QED
    BY <1>4, <2>6 DEF Bit, K
<1>5. CASE ~(x < 0)
  <2>1. x \in 0 .. K - 1 /\ x = K * 0 + x
    BY <1>1, <1>2, <1>5
  <2>2. (K * 0 + x) \div K = 0
    BY <1>3, <2>1
  <2>3. x \div K = 0
    BY <2>1, <2>2
  <2>4. 0 % 2 = 0
    OBVIOUS
  <2> QED
    BY <1>5, <2>3, <2>4 DEF Bit, K
<1> QED
  BY <1>4, <1>5

(* Two pairs of numbers with the same patterns have the same low bits. *)
LEMMA LowSame ==
  ASSUME NEW table \in Tables, NEW x \in Int, NEW y \in Int, NEW X \in Int, NEW Y \in Int,
         NEW w \in 0 .. LongBits + 1, Wrap(x, w) = Wrap(X, w), Wrap(y, w) = Wrap(Y, w),
         NEW low, LowBits(low, table, x, y), NEW Low, LowBits(Low, table, X, Y)
  PROVE  low[w] = Low[w]
<1> DEFINE P == {k \in 0 .. w : low[k] = Low[k]}
<1>1. 0 \in P
  BY DEF LowBits
<1>2. ASSUME NEW k \in 1 .. w, k - 1 \in P PROVE k \in P
  <2>1. k - 1 \in Nat /\ k - 1 < w /\ w \in Nat /\ k \in 1 .. LongBits + 1
    BY WidthAssumption
  <2>2. Bit(x, k - 1) = Bit(X, k - 1) /\ Bit(y, k - 1) = Bit(Y, k - 1)
    BY <2>1, BitSame
  <2>3. low[k - 1] = Low[k - 1]
    BY <1>2
  <2>4. /\ low[k] = low[k - 1] + 2 ^ (k - 1) * table[Bit(x, k - 1)][Bit(y, k - 1)]
        /\ Low[k] = Low[k - 1] + 2 ^ (k - 1) * table[Bit(X, k - 1)][Bit(Y, k - 1)]
    BY <2>1 DEF LowBits
  <2>5. low[k] = Low[k]
    BY <2>2, <2>3, <2>4
  <2> QED
    BY <2>5
<1> HIDE DEF P
<1>3. w \in Nat
  BY WidthAssumption
<1>4. w \in P
  BY <1>1, <1>2, <1>3, UpTo
<1> QED
  BY <1>4 DEF P

(* On signed integers the result is one of their width, with the pattern that the *)
(* operation has on patterns.                                                    *)
LEMMA BitByBitFits ==
  ASSUME NEW table \in Tables, NEW w \in 1 .. LongBits,
         NEW x \in Int, NEW y \in Int, Fits(x, w), Fits(y, w)
  PROVE  Fits(BitByBit(table, x, y), w)
<1> DEFINE N == LongBits + 1
           H == 2 ^ (w - 1)
           t == table[IF x < 0 THEN 1 ELSE 0][IF y < 0 THEN 1 ELSE 0]
<1>1. N \in Nat \ {0} /\ w \in 1 .. N /\ w <= N /\ w \in Nat \ {0} /\ w - 1 \in Nat
  BY WidthAssumption
<1>2. PICK low : LowBits(low, table, x, y) /\ BitByBit(table, x, y) = Signed(low[N], N)
  BY BitByBitIs
<1>3. H \in Nat \ {0} /\ t \in 0 .. 1
  BY HalfOf DEF Tables
<1>4. low[w - 1] \in 0 .. H - 1
  <2>1. CASE w = 1
    <3>1. low[w - 1] = 0
      BY <1>2, <2>1 DEF LowBits
    <3> QED
      BY <1>3, <3>1
  <2>2. CASE w # 1
    <3>1. w - 1 \in 1 .. LongBits + 1 /\ w - 1 \in w - 1 .. LongBits + 1
      BY <1>1, <2>2
    <3> QED
      BY <1>2, <3>1, LowIsRest
  <2> QED
    BY <2>1, <2>2
<1> DEFINE P == {n \in 0 .. N : n >= w - 1 => low[n] = low[w - 1] + (2 ^ n - H) * t}
<1>5. 0 \in P
  <2>1. CASE w = 1
    <3>1. 2 ^ 0 = 1 /\ w - 1 = 0
      BY <2>1
    <3>2. H = 1 /\ 2 ^ 0 - H = 0
      BY <3>1
    <3>3. low[0] = low[w - 1] + 0 * t
      BY <1>3, <1>4, <3>1
    <3> QED
      BY <1>1, <3>2, <3>3
  <2> QED
    BY <1>1, <2>1
<1>6. ASSUME NEW n \in 1 .. N, n - 1 \in P PROVE n \in P
  <2> SUFFICES ASSUME n >= w - 1 PROVE low[n] = low[w - 1] + (2 ^ n - H) * t
    BY <1>1
  <2>1. CASE n = w - 1
    <3>1. 2 ^ n = H
      BY <2>1
    <3>2. 0 * t = 0 /\ H - H = 0 /\ low[w - 1] + 0 = low[w - 1]
      BY <1>3, <1>4
    <3> QED
      BY <2>1, <3>1, <3>2
  <2>2. CASE n > w - 1
    <3> DEFINE K == 2 ^ (n - 1)
    <3>1. n \in Nat \ {0} /\ n - 1 >= w - 1 /\ w - 1 <= n - 1 /\ n - 1 \in Nat /\ n \in 1 .. LongBits + 1
      BY <1>1, <2>2
    <3>2. 2 ^ n = 2 * K /\ K \in Nat
      BY <3>1, HalfOf
    <3>3. Bit(x, n - 1) = (IF x < 0 THEN 1 ELSE 0) /\ Bit(y, n - 1) = (IF y < 0 THEN 1 ELSE 0)
      BY <1>1, <3>1, SignBit
    <3>4. low[n] = low[n - 1] + K * t
      BY <1>2, <3>1, <3>3 DEF LowBits
    <3>5. low[n - 1] = low[w - 1] + (K - H) * t
      BY <1>6, <3>1
    <3> HIDE DEF K, H, t
    <3>6. low[w - 1] + (K - H) * t + K * t = low[w - 1] + (2 * K - H) * t
      BY <1>3, <1>4, <3>2
    <3> QED
      BY <3>2, <3>4, <3>5, <3>6
  <2> QED
    BY <1>1, <2>1, <2>2
<1>7. low[N] = low[w - 1] + (2 ^ N - H) * t
  <2> HIDE DEF P
  <2>1. N \in P
    BY <1>1, <1>5, <1>6, UpTo
  <2> QED
    BY <1>1, <2>1 DEF P
<1> DEFINE z == low[w - 1] - H * t
           M == 2 ^ N
<1>8. z \in -H .. H - 1
  <2> HIDE DEF H, t
  <2>1. H * t = 0 \/ H * t = H
    BY <1>3
  <2> QED
    BY <1>3, <1>4, <2>1
<1>9. low[N] = z + M * t
  <2>1. M \in Nat
    BY <1>1, HalfOf
  <2>2. low[N] = low[w - 1] + (M - H) * t
    BY <1>7
  <2> HIDE DEF H, t, M
  <2> QED
    BY <1>3, <1>4, <2>1, <2>2
<1>10. Fits(z, w) /\ z \in Int /\ t \in Int
  <2> HIDE DEF z, t
  <2> QED
    BY <1>3, <1>8 DEF Fits
<1> HIDE DEF z, t
<1>11. Signed(low[N], N) = z
  <2>1. Signed(z + 2 ^ N * t, N) = Signed(z, N)
    BY <1>1, <1>10, WrapCongruent
  <2>2. Signed(z, N) = z
    BY <1>1, <1>10, Narrower
  <2> QED
    BY <1>9, <2>1, <2>2
<1> QED
  BY <1>2, <1>10, <1>11

(* The low bits of the result depend on those of the operands only. *)
LEMMA BitByBitPattern ==
  ASSUME NEW table \in Tables, NEW w \in 1 .. LongBits,
         NEW x \in Int, NEW y \in Int, NEW X \in Int, NEW Y \in Int,
         Wrap(x, w) = Wrap(X, w), Wrap(y, w) = Wrap(Y, w)
  PROVE  /\ BitByBit(table, x, y) \in Int
         /\ Wrap(BitByBit(table, x, y), w) = Wrap(BitByBit(table, X, Y), w)
<1> DEFINE N == LongBits + 1
<1>1. N \in Nat \ {0} /\ w \in 1 .. LongBits + 1 /\ N \in w .. LongBits + 1 /\ w \in Nat \ {0}
      /\ w \in 0 .. LongBits + 1 /\ w <= N
  BY WidthAssumption
<1>2. PICK low : LowBits(low, table, x, y) /\ BitByBit(table, x, y) = Signed(low[N], N)
  BY BitByBitIs
<1>3. PICK Low : LowBits(Low, table, X, Y) /\ BitByBit(table, X, Y) = Signed(Low[N], N)
  BY BitByBitIs
<1>4. Wrap(low[N], w) = low[w] /\ Wrap(Low[N], w) = Low[w]
  BY <1>1, <1>2, <1>3, LowIsRest
<1>5. low[w] = Low[w]
  BY <1>1, <1>2, <1>3, LowSame
<1>6. low[N] \in Int /\ Low[N] \in Int
  BY <1>1, <1>2, <1>3 DEF LowBits
<1>7. Wrap(Signed(low[N], N), w) = Wrap(low[N], w) /\ Wrap(Signed(Low[N], N), w) = Wrap(Low[N], w)
  BY <1>1, <1>6, Narrower
<1>8. Signed(low[N], N) \in Int
  <2>1. Fits(Signed(low[N], N), N)
    BY <1>1, <1>6, WrapIs
  <2> QED
    BY <1>1, <2>1, HalfOf DEF Fits
<1> QED
  BY <1>2, <1>3, <1>4, <1>5, <1>7, <1>8

(* On truth values the result is one if two zeros yield zero. *)
LEMMA BitByBitTruth ==
  ASSUME NEW table \in Tables, table[0][0] = 0, NEW x \in 0 .. 1, NEW y \in 0 .. 1
  PROVE  BitByBit(table, x, y) \in 0 .. 1
<1> DEFINE N == LongBits + 1
<1>1. N \in Nat /\ 2 <= N /\ N \in 1 .. LongBits + 1 /\ N \in Nat \ {0} /\ 1 \in 1 .. LongBits + 1
  BY WidthAssumption
<1>2. PICK low : LowBits(low, table, x, y) /\ BitByBit(table, x, y) = Signed(low[N], N)
  BY BitByBitIs
<1>3. 2 ^ 1 = 2 /\ 2 ^ (2 - 1) = 2
  OBVIOUS
<1>4. low[1] \in 0 .. 1
  <2>1. ASSUME NEW w \in 1 .. LongBits + 1 PROVE low[w] \in 0 .. 2 ^ w - 1
    <3>1. w \in w .. LongBits + 1
      BY <1>1
    <3> QED
      BY <1>2, <3>1, LowIsRest
  <2>2. low[1] \in 0 .. 2 ^ 1 - 1
    BY <1>1, <2>1
  <2> QED
    BY <1>3, <2>2
<1>5. Fits(x, 2) /\ Fits(y, 2) /\ Fits(low[1], 2)
  BY <1>3, <1>4 DEF Fits
<1> DEFINE P == {n \in 0 .. N : n >= 1 => low[n] = low[1]}
<1>6. 0 \in P
  BY <1>1
<1>7. ASSUME NEW n \in 1 .. N, n - 1 \in P PROVE n \in P
  <2>1. CASE n = 1
    BY <2>1
  <2>2. CASE n # 1
    <3>1. n - 1 \in Nat /\ 2 - 1 <= n - 1 /\ n \in 1 .. LongBits + 1 /\ n - 1 >= 1
      BY <2>2
    <3>2. Bit(x, n - 1) = 0 /\ Bit(y, n - 1) = 0
      <4>1. x \in Int /\ y \in Int /\ ~(x < 0) /\ ~(y < 0) /\ 2 \in Nat \ {0}
        OBVIOUS
      <4> QED
        BY <1>5, <3>1, <4>1, SignBit
    <3>3. low[n] = low[n - 1] + 2 ^ (n - 1) * 0
      BY <1>2, <3>1, <3>2 DEF LowBits
    <3>4. low[n - 1] = low[1] /\ 2 ^ (n - 1) \in Nat
      BY <1>7, <3>1, Powers
    <3>5. low[n] = low[1]
      BY <1>4, <3>3, <3>4
    <3> QED
      BY <3>5
  <2> QED
    BY <2>1, <2>2
<1>8. low[N] = low[1]
  <2> HIDE DEF P
  <2>1. N \in P
    BY <1>1, <1>6, <1>7, UpTo
  <2> QED
    BY <1>1, <2>1 DEF P
<1>9. Signed(low[1], N) = low[1]
  <2>1. 2 \in Nat \ {0} /\ low[1] \in Int
    BY <1>4
  <2> QED
    BY <1>1, <1>5, <2>1, Narrower
<1> QED
  BY <1>2, <1>4, <1>8, <1>9

-----------------------------------------------------------------------------
(* Instructions *)

Targets == {"CPU", "HLS"}

(* The type a value gets has room for it. *)
LEMMA TypeBitsIs ==
  ASSUME NEW t \in Targets, NEW w \in 1 .. LongBits
  PROVE  /\ TypeBits(t, w) \in Nat \ {0} /\ w <= TypeBits(t, w)
         /\ t = "HLS" => TypeBits(t, w) = w
         /\ t = "CPU" => 2 <= TypeBits(t, w)
  BY WidthAssumption DEF Targets, TypeBits

(* The integer that stands for a value tells the value and fits its type. *)
LEMMA RepIs ==
  ASSUME NEW t \in Targets, NEW w \in 1 .. LongBits, NEW X \in 0 .. 2 ^ w - 1
  PROVE  /\ Rep(t, X, w) \in Int /\ X \in Int /\ Wrap(X, w) = X
         /\ Wrap(Rep(t, X, w), w) = X
         /\ Fits(Rep(t, X, w), TypeBits(t, w))
         /\ Signed(Rep(t, X, w), TypeBits(t, w)) = Rep(t, X, w)
         /\ t = "HLS" \/ w > 1 => Rep(t, X, w) = Signed(X, w) /\ Fits(Rep(t, X, w), w)
         /\ t = "CPU" /\ w = 1 => Rep(t, X, w) = X /\ X \in 0 .. 1
<1> DEFINE T == TypeBits(t, w)
<1>1. w \in Nat \ {0} /\ T \in Nat \ {0} /\ w <= T /\ (t = "CPU" => 2 <= T)
  BY TypeBitsIs
<1>2. 2 ^ w \in Nat /\ X \in Int
  BY <1>1, HalfOf
<1>3. Wrap(X, w) = X /\ Fits(Signed(X, w), w) /\ Wrap(Signed(X, w), w) = X
  BY <1>1, <1>2, WrapIs, SamePattern
<1>4. Signed(X, w) \in Int
  BY <1>1, <1>3, HalfOf DEF Fits
<1>5. Fits(Signed(X, w), T) /\ Signed(Signed(X, w), T) = Signed(X, w)
  <2> HIDE DEF T
  <2> QED
    BY <1>1, <1>3, <1>4, Narrower
<1>6. CASE t = "HLS" \/ w > 1
  <2>1. Rep(t, X, w) = Signed(X, w)
    BY <1>1, <1>6 DEF Rep
  <2> QED
    BY <1>1, <1>2, <1>3, <1>4, <1>5, <1>6, <2>1
<1>7. CASE t = "CPU" /\ w = 1
  <2>1. Rep(t, X, w) = X /\ X \in 0 .. 1
    <3>1. 2 ^ 1 = 2
      OBVIOUS
    <3> QED
      BY <1>7, <3>1 DEF Rep
  <2>2. Fits(X, 2)
    <3>1. 2 ^ (2 - 1) = 2
      OBVIOUS
    <3> QED
      BY <2>1, <3>1 DEF Fits
  <2>3. Fits(X, T) /\ Signed(X, T) = X
    <3>1. 2 \in Nat \ {0} /\ T \in Nat /\ 2 <= T
      BY <1>1, <1>7
    <3> HIDE DEF T
    <3> QED
      BY <1>2, <2>2, <3>1, Narrower
  <2> QED
    BY <1>1, <1>2, <1>3, <1>7, <2>1, <2>3
<1> QED
  BY <1>1, <1>6, <1>7 DEF Targets

(* When an assigned integer stands for a value. *)
LEMMA Represented ==
  ASSUME NEW t \in Targets, NEW w \in 1 .. LongBits, NEW x \in Int,
         \/ TypeBits(t, w) = w /\ (t = "HLS" \/ w > 1)
         \/ w > 1 /\ Fits(x, w)
         \/ w = 1 /\ x \in 0 .. 1
  PROVE  Signed(x, TypeBits(t, w)) = Rep(t, Wrap(x, w), w)
<1> DEFINE T == TypeBits(t, w)
<1>1. w \in Nat \ {0} /\ T \in Nat \ {0} /\ w <= T /\ (t = "CPU" => 2 <= T) /\ (t = "HLS" => T = w)
  BY TypeBitsIs
<1>2. t = "HLS" \/ w > 1 => Rep(t, Wrap(x, w), w) = Signed(x, w)
  <2>1. Signed(Wrap(x, w), w) = Signed(x, w)
    BY <1>1, SamePattern
  <2> QED
    BY <1>1, <2>1 DEF Rep
<1>3. CASE T = w /\ (t = "HLS" \/ w > 1)
  BY <1>2, <1>3
<1>4. CASE w > 1 /\ Fits(x, w)
  <2>1. Signed(x, T) = x /\ Signed(x, w) = x
    <3> HIDE DEF T
    <3> QED
      BY <1>1, <1>4, Narrower, WrapIs
  <2> QED
    BY <1>2, <1>4, <2>1
<1>5. CASE t = "CPU" /\ w = 1 /\ x \in 0 .. 1
  <2>1. 2 ^ 1 = 2 /\ 2 ^ (2 - 1) = 2
    OBVIOUS
  <2>2. Fits(x, 2)
    BY <1>5, <2>1 DEF Fits
  <2>3. Signed(x, T) = x
    <3>1. 2 \in Nat \ {0} /\ T \in Nat /\ 2 <= T
      BY <1>1, <1>5
    <3> HIDE DEF T
    <3> QED
      BY <2>2, <3>1, Narrower
  <2>4. Wrap(x, w) = x
    <3>1. x \in 0 .. 2 ^ w - 1
      BY <1>5, <2>1
    <3> QED
      BY <1>1, <3>1, WrapIs
  <2> QED
    BY <1>5, <2>3, <2>4 DEF Rep
<1> QED
  BY <1>1, <1>3, <1>4, <1>5 DEF Targets

(* Powers grow faster than their exponents. *)
LEMMA PowerGrows ==
  ASSUME NEW n \in Nat
  PROVE  n + 1 <= 2 ^ n
<1> DEFINE P == {k \in 0 .. n : k + 1 <= 2 ^ k}
<1>1. 0 \in P
  <2>1. 2 ^ 0 = 1
    OBVIOUS
  <2> QED
    BY <2>1
<1>2. ASSUME NEW k \in 1 .. n, k - 1 \in P PROVE k \in P
  <2>1. k \in Nat \ {0} /\ (k - 1) + 1 <= 2 ^ (k - 1)
    BY <1>2
  <2>2. 2 ^ (k - 1) \in Nat \ {0} /\ 2 ^ k = 2 * 2 ^ (k - 1)
    BY <2>1, HalfOf
  <2>3. k + 1 <= 2 ^ k
    BY <2>1, <2>2
  <2> QED
    BY <2>3
<1> HIDE DEF P
<1>3. n \in P
  BY <1>1, <1>2, UpTo
<1> QED
  BY <1>3 DEF P

(* Integer y stands for the value x of width w. *)
StandsFor(t, w, x, y) ==
  /\ w \in Nat \ {0} /\ x \in 0 .. 2 ^ w - 1 /\ x \in Int /\ y \in Int
  /\ Wrap(x, w) = x /\ Wrap(y, w) = x
  /\ t = "HLS" \/ w > 1 => y = Signed(x, w) /\ Fits(y, w)
  /\ t = "CPU" /\ w = 1 => y = x /\ x \in 0 .. 1
  /\ \E q \in Int : y = x + 2 ^ w * q

(* The representation of a value stands for it. *)
LEMMA RepStands ==
  ASSUME NEW t \in Targets, NEW w \in 1 .. LongBits, NEW x \in 0 .. 2 ^ w - 1
  PROVE  StandsFor(t, w, x, Rep(t, x, w))
<1> DEFINE y == Rep(t, x, w)
<1>1. w \in Nat \ {0}
  OBVIOUS
<1>2. /\ y \in Int /\ x \in Int /\ Wrap(x, w) = x /\ Wrap(y, w) = x
      /\ t = "HLS" \/ w > 1 => y = Signed(x, w) /\ Fits(y, w)
      /\ t = "CPU" /\ w = 1 => y = x /\ x \in 0 .. 1
  BY RepIs
<1> HIDE DEF y
<1>3. 2 ^ w \in Nat
  BY Powers
<1>4. PICK q \in Int : Wrap(y, w) = y + 2 ^ w * q
  BY <1>1, <1>2, WrapIs
<1>5. -q \in Int /\ y = x + 2 ^ w * (-q)
  BY <1>2, <1>3, <1>4
<1>6. StandsFor(t, w, x, y)
  BY <1>1, <1>2, <1>5 DEF StandsFor
<1> QED
  BY <1>6 DEF y

(* The operands of an instruction, as LLVM has them and as the printed program has them. *)
OperandsFor(t, ins, X, Y) ==
  \A n \in 1 .. Arity(ins) : StandsFor(t, ArgWidth(ins, n), X[n], Y[n]) /\ Y[n] = Rep(t, X[n], ArgWidth(ins, n))

(* What the printed expression of an instruction has to satisfy. *)
Computes(t, ins, X, Y) ==
  Signed(Expression(ins.kind, Y), TypeBits(t, ins.w)) = Rep(t, Value(ins, X), ins.w)

Sized(ins) == ins.w \in 1 .. LongBits /\ ins.aw \in 1 .. LongBits /\ WidthsFit(ins)

(* Sums *)
LEMMA SumComputes ==
  ASSUME NEW t \in Targets, NEW ins, Sized(ins), NEW X, NEW Y, OperandsFor(t, ins, X, Y),
         ins.kind \in {"add", "nswadd"}, ins.kind = "add" => t = "HLS", ~Poison(ins, X)
  PROVE  Computes(t, ins, X, Y)
<1> DEFINE w == ins.w
           x1 == X[1]
           x2 == X[2]
           y1 == Y[1]
           y2 == Y[2]
<1>1. w \in 1 .. LongBits /\ ins.aw = w /\ Arity(ins) = 2 /\ ArgWidth(ins, 1) = w /\ ArgWidth(ins, 2) = w
  BY DEF Sized, WidthsFit, Arity, ArgWidth
<1>2. StandsFor(t, w, x1, y1) /\ StandsFor(t, w, x2, y2)
  BY <1>1 DEF OperandsFor
<1>3. Expression(ins.kind, Y) = y1 + y2 /\ Value(ins, X) = Wrap(x1 + x2, w)
  BY DEF Expression, Operator, Value
<1>4. ins.kind = "nswadd" => Signed(x1, w) + Signed(x2, w) = Signed(x1 + x2, w)
  BY DEF Poison
<1> HIDE DEF w, x1, x2, y1, y2
<1>5. /\ x1 \in Int /\ x2 \in Int /\ y1 \in Int /\ y2 \in Int /\ w \in Nat \ {0}
      /\ t = "HLS" \/ w > 1 => y1 = Signed(x1, w) /\ y2 = Signed(x2, w)
      /\ t = "CPU" /\ w = 1 => y1 = x1 /\ x1 \in 0 .. 1 /\ y2 = x2 /\ x2 \in 0 .. 1
  BY <1>2 DEF StandsFor
<1>6. y1 + y2 \in Int /\ x1 + x2 \in Int
  BY <1>5
<1>7. Wrap(y1 + y2, w) = Wrap(x1 + x2, w)
  <2>1. PICK p \in Int : y1 = x1 + 2 ^ w * p
    BY <1>2 DEF StandsFor
  <2>2. PICK q \in Int : y2 = x2 + 2 ^ w * q
    BY <1>2 DEF StandsFor
  <2>3. 2 ^ w \in Int
    BY <1>5, HalfOf
  <2>4. y1 + y2 = (x1 + x2) + 2 ^ w * (p + q)
    BY <1>5, <2>1, <2>2, <2>3
  <2> DEFINE z == x1 + x2
             r == p + q
  <2>5. z \in Int /\ r \in Int
    BY <1>5
  <2> HIDE DEF z, r
  <2>6. Wrap(z + 2 ^ w * r, w) = Wrap(z, w)
    BY <1>5, <2>5, WrapCongruent
  <2> QED
    BY <2>4, <2>6 DEF z, r
<1>8. Signed(y1 + y2, TypeBits(t, w)) = Rep(t, Wrap(y1 + y2, w), w)
  <2>1. CASE t = "HLS"
    <3>1. TypeBits(t, w) = w
      BY <2>1 DEF TypeBits
    <3> QED
      BY <1>1, <1>6, <2>1, <3>1, Represented
  <2>2. CASE t = "CPU" /\ w > 1
    <3>1. ins.kind = "nswadd"
      BY <2>2
    <3>2. y1 + y2 = Signed(x1 + x2, w)
      BY <1>4, <1>5, <2>2, <3>1
    <3>3. Fits(y1 + y2, w)
      BY <1>5, <1>6, <3>2, WrapIs
    <3> QED
      BY <1>1, <1>6, <2>2, <3>3, Represented
  <2>3. CASE t = "CPU" /\ w = 1
    <3>1. Signed(1, 1) \in Int /\ Signed(1, 1) + 1 = 0 /\ Signed(2, 1) = 0
      BY DEF Signed, Wrap
    <3>2. x1 = 0 \/ x2 = 0
      <4> SUFFICES ASSUME x1 = 1, x2 = 1 PROVE FALSE
        BY <1>5, <2>3
      <4>1. Signed(1, 1) + Signed(1, 1) = Signed(1 + 1, 1) /\ 1 + 1 = 2
        BY <1>4, <2>3
      <4>2. \A z \in Int : z + 1 = 0 => z + z # 0
        OBVIOUS
      <4> QED
        BY <3>1, <4>1, <4>2
    <3>3. y1 + y2 \in 0 .. 1
      BY <1>5, <2>3, <3>2
    <3> QED
      BY <1>1, <1>6, <2>3, <3>3, Represented
  <2> QED
    BY <1>1, <2>1, <2>2, <2>3 DEF Targets
<1> QED
  BY <1>3, <1>7, <1>8 DEF Computes, w

(* Bit operations *)
AndTable == [p \in 0 .. 1 |-> [q \in 0 .. 1 |-> Truth(p = 1 /\ q = 1)]]
XorTable == [p \in 0 .. 1 |-> [q \in 0 .. 1 |-> Truth(p # q)]]

LEMMA BitsCompute ==
  ASSUME NEW t \in Targets, NEW ins, Sized(ins), NEW X, NEW Y, OperandsFor(t, ins, X, Y),
         ins.kind \in {"and", "xor"}
  PROVE  Computes(t, ins, X, Y)
<1> DEFINE w == ins.w
           x1 == X[1]
           x2 == X[2]
           y1 == Y[1]
           y2 == Y[2]
<1>1. w \in 1 .. LongBits /\ ins.aw = w /\ Arity(ins) = 2 /\ ArgWidth(ins, 1) = w /\ ArgWidth(ins, 2) = w
  BY DEF Sized, WidthsFit, Arity, ArgWidth
<1>2. StandsFor(t, w, x1, y1) /\ StandsFor(t, w, x2, y2)
  BY <1>1 DEF OperandsFor
<1>3. PICK table \in Tables : /\ table[0][0] = 0
                              /\ Expression(ins.kind, Y) = BitByBit(table, y1, y2)
                              /\ Value(ins, X) = Wrap(BitByBit(table, x1, x2), w)
  <2>1. AndTable \in Tables /\ XorTable \in Tables /\ AndTable[0][0] = 0 /\ XorTable[0][0] = 0
    BY DEF AndTable, XorTable, Tables, Truth
  <2>2. BitAnd(y1, y2) = BitByBit(AndTable, y1, y2) /\ BitAnd(x1, x2) = BitByBit(AndTable, x1, x2)
    BY DEF BitAnd, AndTable
  <2>3. BitXor(y1, y2) = BitByBit(XorTable, y1, y2) /\ BitXor(x1, x2) = BitByBit(XorTable, x1, x2)
    BY DEF BitXor, XorTable
  <2>4. CASE ins.kind = "and"
    <3>1. Expression(ins.kind, Y) = BitAnd(y1, y2) /\ Value(ins, X) = Wrap(BitAnd(x1, x2), w)
      BY <2>4 DEF Expression, Operator, Value
    <3> QED
      BY <2>1, <2>2, <3>1
  <2>5. CASE ins.kind = "xor"
    <3>1. Expression(ins.kind, Y) = BitXor(y1, y2) /\ Value(ins, X) = Wrap(BitXor(x1, x2), w)
      BY <2>5 DEF Expression, Operator, Value
    <3> QED
      BY <2>1, <2>3, <3>1
  <2> QED
    BY <2>4, <2>5
<1> HIDE DEF w, x1, x2, y1, y2
<1>4. /\ x1 \in Int /\ x2 \in Int /\ y1 \in Int /\ y2 \in Int /\ w \in Nat \ {0}
      /\ Wrap(x1, w) = Wrap(y1, w) /\ Wrap(x2, w) = Wrap(y2, w)
      /\ t = "HLS" \/ w > 1 => Fits(y1, w) /\ Fits(y2, w)
      /\ t = "CPU" /\ w = 1 => y1 \in 0 .. 1 /\ y2 \in 0 .. 1
  BY <1>2 DEF StandsFor
<1> DEFINE e == BitByBit(table, y1, y2)
<1>5. e \in Int /\ Wrap(e, w) = Wrap(BitByBit(table, x1, x2), w)
  BY <1>1, <1>4, BitByBitPattern
<1>6. Signed(e, TypeBits(t, w)) = Rep(t, Wrap(e, w), w)
  <2>1. CASE t = "HLS"
    <3>1. TypeBits(t, w) = w
      BY <2>1 DEF TypeBits
    <3> HIDE DEF e
    <3> QED
      BY <1>1, <1>5, <2>1, <3>1, Represented
  <2>2. CASE t = "CPU" /\ w > 1
    <3>1. Fits(e, w)
      BY <1>1, <1>4, <2>2, BitByBitFits
    <3> HIDE DEF e
    <3> QED
      BY <1>1, <1>5, <2>2, <3>1, Represented
  <2>3. CASE t = "CPU" /\ w = 1
    <3>1. e \in 0 .. 1
      BY <1>3, <1>4, <2>3, BitByBitTruth
    <3> HIDE DEF e
    <3> QED
      BY <1>1, <1>5, <2>3, <3>1, Represented
  <2> QED
    BY <1>1, <2>1, <2>2, <2>3 DEF Targets
<1> QED
  BY <1>3, <1>5, <1>6 DEF Computes, w

(* Right shifts *)
LEMMA ShiftComputes ==
  ASSUME NEW t \in Targets, NEW ins, Sized(ins), NEW X, NEW Y, OperandsFor(t, ins, X, Y),
         ins.kind = "ashr", ~Poison(ins, X)
  PROVE  Computes(t, ins, X, Y)
<1> DEFINE w == ins.w
           x1 == X[1]
           x2 == X[2]
           y1 == Y[1]
           y2 == Y[2]
           s == Signed(x1, w)
<1>1. w \in 1 .. LongBits /\ ins.aw = w /\ Arity(ins) = 2 /\ ArgWidth(ins, 1) = w /\ ArgWidth(ins, 2) = w
  BY DEF Sized, WidthsFit, Arity, ArgWidth
<1>2. StandsFor(t, w, x1, y1) /\ StandsFor(t, w, x2, y2)
  BY <1>1 DEF OperandsFor
<1>3. /\ Expression(ins.kind, Y) = IF y2 < 0 THEN 0 ELSE y1 \div 2 ^ y2
      /\ Value(ins, X) = Wrap(s \div 2 ^ x2, w)
  BY <1>1 DEF Expression, Operator, Value
<1>4. ~ (x2 >= w)
  BY DEF Poison
<1> HIDE DEF w, x1, x2, y1, y2
<1>5. /\ x1 \in Int /\ x2 \in Nat /\ y1 \in Int /\ y2 \in Int /\ w \in Nat \ {0} /\ x2 < w
      /\ x1 \in 0 .. 2 ^ w - 1 /\ Wrap(x1, w) = x1
      /\ t = "HLS" \/ w > 1 => y1 = s /\ y2 = Signed(x2, w) /\ Fits(y1, w)
      /\ t = "CPU" /\ w = 1 => y1 = x1 /\ x1 \in 0 .. 1 /\ y2 = x2 /\ x2 \in 0 .. 1
  BY <1>2, <1>4 DEF StandsFor
<1>6. y2 = x2
  <2>1. w - 1 \in Nat /\ x2 <= w - 1
    BY <1>5
  <2>2. (w - 1) + 1 <= 2 ^ (w - 1) /\ 2 ^ (w - 1) \in Nat
    BY <2>1, PowerGrows, Powers
  <2>3. Fits(x2, w)
    BY <1>5, <2>1, <2>2 DEF Fits
  <2>4. Signed(x2, w) = x2
    BY <1>5, <2>3, WrapIs
  <2> QED
    BY <1>1, <1>5, <2>4 DEF Targets
<1> DEFINE e == y1 \div 2 ^ x2
<1>7. 2 ^ x2 \in Nat \ {0}
  BY <1>5, PowerDivides
<1>8. e \in Int /\ Expression(ins.kind, Y) = e
  BY <1>3, <1>5, <1>6, <1>7, Division
<1>9. Signed(e, TypeBits(t, w)) = Rep(t, Value(ins, X), w)
  <2>1. CASE t = "HLS" \/ w > 1
    <3>1. Value(ins, X) = Wrap(e, w)
      BY <1>3, <1>5, <2>1
    <3>2. Fits(e, w)
      <4> DEFINE H == 2 ^ (w - 1)
                 d == 2 ^ x2
      <4>1. H \in Nat /\ y1 \in -H .. H - 1 /\ d \in Nat \ {0} /\ e = y1 \div d
        <5>1. H \in Nat
          BY <1>5, HalfOf
        <5> QED
          BY <1>5, <1>7, <2>1, <5>1 DEF Fits
      <4> HIDE DEF H, d, e
      <4>2. e \in Int /\ y1 % d \in 0 .. d - 1 /\ y1 = d * e + (y1 % d)
        BY <4>1, Division
      <4>3. e <= H - 1
        <5> SUFFICES ASSUME e >= H PROVE FALSE
          BY <4>1, <4>2
        <5>1. d * e >= H
          <6>1. \A p \in Nat \ {0}, q \in Nat : p * q >= q
            OBVIOUS
          <6>2. e \in Nat
            BY <4>1, <4>2
          <6>3. d * e >= e
            BY <4>1, <6>1, <6>2
          <6> QED
            BY <4>1, <4>2, <6>3
        <5> QED
          BY <4>1, <4>2, <5>1
      <4>4. e >= -H
        <5> SUFFICES ASSUME e + H + 1 <= 0 PROVE FALSE
          BY <4>1, <4>2
        <5>1. d * (e + H + 1) <= 0 /\ d * (e + H + 1) = d * e + d * H + d /\ d * H >= H
          <6>1. \A p \in Nat \ {0}, q \in Int : q <= 0 => p * q <= 0
            OBVIOUS
          <6>2. \A p, q, r \in Int : p * (q + r + 1) = p * q + p * r + p
            OBVIOUS
          <6>3. \A p \in Nat \ {0}, q \in Nat : p * q >= q
            OBVIOUS
          <6>4. e + H + 1 \in Int
            BY <4>1, <4>2
          <6> QED
            BY <4>1, <4>2, <6>1, <6>2, <6>3, <6>4
        <5>2. d * e \in Int /\ d * H \in Int
          BY <4>1, <4>2
        <5> QED
          BY <4>1, <4>2, <5>1, <5>2
      <4> QED
        BY <4>1, <4>2, <4>3, <4>4 DEF Fits, H
    <3>3. t = "HLS" => TypeBits(t, w) = w
      BY DEF TypeBits
    <3> HIDE DEF e
    <3> QED
      BY <1>1, <1>8, <2>1, <3>1, <3>2, <3>3, Represented
  <2>2. CASE t = "CPU" /\ w = 1
    <3>1. x2 = 0 /\ 2 ^ 0 = 1 /\ y1 = x1 /\ x1 \in 0 .. 1
      BY <1>5, <2>2
    <3>2. s \in Int
      <4>1. Signed(0, 1) \in Int /\ Signed(1, 1) \in Int
        BY DEF Signed, Wrap
      <4> QED
        BY <2>2, <3>1, <4>1
    <3>3. \A z \in Int : z \div 1 = z
      OBVIOUS
    <3>4. e = x1 /\ Value(ins, X) = Wrap(s, w)
      BY <1>3, <3>1, <3>2, <3>3
    <3>5. Wrap(s, w) = x1
      BY <1>5, SamePattern
    <3> HIDE DEF e
    <3> QED
      BY <1>1, <1>5, <1>8, <2>2, <3>1, <3>4, <3>5, Represented
  <2> QED
    BY <1>1, <2>1, <2>2 DEF Targets
<1> QED
  BY <1>8, <1>9 DEF Computes, w

(* Comparisons *)
LEMMA ComparisonComputes ==
  ASSUME NEW t \in Targets, NEW ins, Sized(ins), NEW X, NEW Y, OperandsFor(t, ins, X, Y),
         ins.kind \in {"eq", "slt"}, ins.kind = "slt" => t = "HLS" \/ ins.aw > 1
  PROVE  Computes(t, ins, X, Y)
<1> DEFINE w == ins.aw
           x1 == X[1]
           x2 == X[2]
           y1 == Y[1]
           y2 == Y[2]
<1>1. w \in 1 .. LongBits /\ ins.w = 1 /\ Arity(ins) = 2 /\ ArgWidth(ins, 1) = w /\ ArgWidth(ins, 2) = w
  BY DEF Sized, WidthsFit, Arity, ArgWidth
<1>2. StandsFor(t, w, x1, y1) /\ StandsFor(t, w, x2, y2)
      /\ y1 = Rep(t, x1, w) /\ y2 = Rep(t, x2, w)
  BY <1>1 DEF OperandsFor
<1>3. x1 = x2 <=> y1 = y2
  <2>1. Wrap(y1, w) = x1 /\ Wrap(y2, w) = x2
    BY <1>2 DEF StandsFor
  <2> QED
    BY <1>2, <2>1
<1>4. ins.kind = "slt" => (Signed(x1, w) < Signed(x2, w) <=> y1 < y2)
  <2> SUFFICES ASSUME ins.kind = "slt" PROVE Signed(x1, w) < Signed(x2, w) <=> y1 < y2
    OBVIOUS
  <2>1. y1 = Signed(x1, w) /\ y2 = Signed(x2, w)
    BY <1>2 DEF StandsFor
  <2> QED
    BY <2>1
<1>5. PICK p \in BOOLEAN : Expression(ins.kind, Y) = Truth(p) /\ Value(ins, X) = Wrap(Truth(p), 1)
  <2>1. CASE ins.kind = "eq"
    <3>1. Expression(ins.kind, Y) = Truth(y1 = y2) /\ Value(ins, X) = Wrap(Truth(x1 = x2), 1)
      BY <1>1, <2>1 DEF Expression, Operator, Value
    <3>2. Truth(x1 = x2) = Truth(y1 = y2)
      BY <1>3 DEF Truth
    <3> QED
      BY <3>1, <3>2
  <2>2. CASE ins.kind = "slt"
    <3>1. Expression(ins.kind, Y) = Truth(y1 < y2) /\ Value(ins, X) = Wrap(Truth(Signed(x1, w) < Signed(x2, w)), 1)
      BY <1>1, <2>2 DEF Expression, Operator, Value
    <3>2. Truth(Signed(x1, w) < Signed(x2, w)) = Truth(y1 < y2)
      BY <1>4, <2>2 DEF Truth
    <3> DEFINE q == y1 < y2
    <3>3. q \in BOOLEAN /\ Expression(ins.kind, Y) = Truth(q) /\ Value(ins, X) = Wrap(Truth(q), 1)
      BY <3>1, <3>2
    <3> HIDE DEF q
    <3> QED
      BY <3>3
  <2> QED
    BY <2>1, <2>2
<1>6. Truth(p) \in 0 .. 1
  BY DEF Truth
<1>7. Signed(Truth(p), TypeBits(t, 1)) = Rep(t, Wrap(Truth(p), 1), 1)
  <2>1. 1 \in 1 .. LongBits
    BY WidthAssumption
  <2> QED
    BY <1>6, <2>1, Represented
<1> QED
  BY <1>1, <1>5, <1>7 DEF Computes

(* Casts *)
LEMMA CastComputes ==
  ASSUME NEW t \in Targets, NEW ins, Sized(ins), NEW X, NEW Y, OperandsFor(t, ins, X, Y),
         ins.kind \in {"sext", "zext", "trunc"}, Faithful(t, ins)
  PROVE  Computes(t, ins, X, Y)
<1> DEFINE w == ins.w
           v == ins.aw
           x == X[1]
           y == Y[1]
<1>1. /\ w \in 1 .. LongBits /\ v \in 1 .. LongBits /\ Arity(ins) = 1 /\ ArgWidth(ins, 1) = v
      /\ ins.kind \in {"sext", "zext"} => w > v
      /\ ins.kind = "trunc" => w < v
  BY DEF Sized, WidthsFit, Arity, ArgWidth
<1>2. StandsFor(t, v, x, y)
  BY <1>1 DEF OperandsFor
<1>3. /\ Expression(ins.kind, Y) = y
      /\ ins.kind = "sext" => Value(ins, X) = Wrap(Signed(x, v), w)
      /\ ins.kind # "sext" => Value(ins, X) = Wrap(x, w)
  BY DEF Expression, Operator, Value
<1>4. /\ ins.kind = "sext" => t = "HLS" \/ v > 1
      /\ ins.kind = "zext" => t = "CPU" /\ v = 1
      /\ ins.kind = "trunc" => t = "HLS" \/ (w = IntBits /\ v = LongBits)
  BY DEF Faithful
<1> HIDE DEF w, v, x, y
<1>5. /\ x \in Int /\ y \in Int /\ v \in Nat \ {0}
      /\ t = "HLS" \/ v > 1 => y = Signed(x, v) /\ Fits(y, v)
      /\ t = "CPU" /\ v = 1 => y = x /\ x \in 0 .. 1
  BY <1>2 DEF StandsFor
<1>6. /\ TypeBits("HLS", w) = w /\ TypeBits("CPU", IntBits) = IntBits
      /\ w \in Nat \ {0} /\ IntBits > 1 /\ 1 <= v
  BY <1>1, WidthAssumption DEF TypeBits
<1>7. CASE ins.kind = "sext"
  <2>1. y = Signed(x, v) /\ Fits(y, v) /\ w > v /\ w > 1
    BY <1>1, <1>4, <1>5, <1>6, <1>7
  <2>2. Fits(y, w)
    BY <1>5, <1>6, <2>1, Narrower
  <2>3. Signed(y, TypeBits(t, w)) = Rep(t, Wrap(y, w), w)
    BY <1>1, <1>5, <2>1, <2>2, Represented
  <2> QED
    BY <1>3, <1>7, <2>1, <2>3 DEF Computes, w
<1>8. CASE ins.kind = "zext"
  <2>1. y = x /\ y \in 0 .. 1 /\ w > 1 /\ w >= 2
    BY <1>1, <1>4, <1>5, <1>6, <1>8
  <2>2. Fits(y, w)
    <3>1. 2 ^ (2 - 1) = 2 /\ 2 \in Nat \ {0}
      OBVIOUS
    <3>2. Fits(y, 2)
      BY <2>1, <3>1 DEF Fits
    <3> QED
      BY <1>5, <1>6, <2>1, <3>1, <3>2, Narrower
  <2>3. Signed(y, TypeBits(t, w)) = Rep(t, Wrap(y, w), w)
    BY <1>1, <1>5, <2>1, <2>2, Represented
  <2> QED
    BY <1>3, <1>8, <2>1, <2>3 DEF Computes, w
<1>9. CASE ins.kind = "trunc"
  <2>1. (t = "HLS" \/ v > 1) /\ w <= v /\ v \in Nat
    BY <1>1, <1>4, <1>5, <1>6, <1>9
  <2>2. y = Signed(x, v)
    BY <1>5, <2>1
  <2>3. Wrap(y, w) = Wrap(x, w)
    BY <1>5, <1>6, <2>1, <2>2, Narrower
  <2>4. TypeBits(t, w) = w /\ (t = "HLS" \/ w > 1)
    BY <1>4, <1>6, <1>9 DEF Targets
  <2>5. Signed(y, TypeBits(t, w)) = Rep(t, Wrap(y, w), w)
    BY <1>1, <1>5, <2>4, Represented
  <2> QED
    BY <1>3, <1>9, <2>3, <2>5 DEF Computes, w
<1> QED
  BY <1>7, <1>8, <1>9

(* Choices *)
LEMMA ChoiceComputes ==
  ASSUME NEW t \in Targets, NEW ins, Sized(ins), NEW X, NEW Y, OperandsFor(t, ins, X, Y),
         ins.kind = "select"
  PROVE  Computes(t, ins, X, Y)
<1> DEFINE w == ins.w
<1>1. /\ w \in 1 .. LongBits /\ Arity(ins) = 3 /\ ArgWidth(ins, 1) = 1
      /\ ArgWidth(ins, 2) = w /\ ArgWidth(ins, 3) = w
  BY DEF Sized, WidthsFit, Arity, ArgWidth
<1>2. /\ StandsFor(t, 1, X[1], Y[1]) /\ StandsFor(t, w, X[2], Y[2]) /\ StandsFor(t, w, X[3], Y[3])
      /\ Y[1] = Rep(t, X[1], 1) /\ Y[2] = Rep(t, X[2], w) /\ Y[3] = Rep(t, X[3], w)
  BY <1>1 DEF OperandsFor
<1>3. X[1] = 1 <=> Y[1] # 0
  <2>1. X[1] \in 0 .. 2 ^ 1 - 1 /\ 2 ^ 1 = 2
    BY <1>2 DEF StandsFor
  <2>2. X[1] \in {0, 1}
    BY <2>1
  <2>3. Signed(0, 1) = 0 /\ Signed(1, 1) # 0
    BY DEF Signed, Wrap
  <2> QED
    BY <1>2, <2>2, <2>3 DEF Rep
<1>4. PICK n \in {2, 3} : Expression(ins.kind, Y) = Y[n] /\ Value(ins, X) = Wrap(X[n], w)
  BY <1>3 DEF Expression, Operator, Value
<1>5. X[n] \in 0 .. 2 ^ w - 1 /\ Wrap(X[n], w) = X[n] /\ Y[n] = Rep(t, X[n], w)
  BY <1>2 DEF StandsFor
<1>6. Signed(Rep(t, X[n], w), TypeBits(t, w)) = Rep(t, X[n], w)
  BY <1>1, <1>5, RepIs
<1> QED
  BY <1>4, <1>5, <1>6 DEF Computes

(* Every faithful instruction: its printed expression computes its value. *)
LEMMA ExpressionComputes ==
  ASSUME NEW t \in Targets, NEW ins, ins.kind \in Kinds, Sized(ins), Faithful(t, ins),
         NEW X, NEW Y, OperandsFor(t, ins, X, Y), ~Poison(ins, X)
  PROVE  Computes(t, ins, X, Y)
<1>1. ins.kind \in {"add", "nswadd", "and", "xor", "ashr", "eq", "slt", "sext", "zext", "trunc", "select"}
  BY DEF Faithful, Kinds
<1>2. /\ ins.kind = "add" => t = "HLS"
      /\ ins.kind = "slt" => t = "HLS" \/ ins.aw > 1
  BY DEF Faithful
<1>3. CASE ins.kind \in {"add", "nswadd"}
  BY <1>2, <1>3, SumComputes
<1>4. CASE ins.kind \in {"and", "xor"}
  BY <1>4, BitsCompute
<1>5. CASE ins.kind = "ashr"
  BY <1>5, ShiftComputes
<1>6. CASE ins.kind \in {"eq", "slt"}
  BY <1>2, <1>6, ComparisonComputes
<1>7. CASE ins.kind \in {"sext", "zext", "trunc"}
  BY <1>7, CastComputes
<1>8. CASE ins.kind = "select"
  BY <1>8, ChoiceComputes
<1> QED
  BY <1>1, <1>3, <1>4, <1>5, <1>6, <1>7, <1>8

(* The types of values and expressions. *)
LEMMA BitwiseType ==
  ASSUME NEW x \in Int, NEW y \in Int
  PROVE  BitAnd(x, y) \in Int /\ BitXor(x, y) \in Int
<1>1. AndTable \in Tables /\ XorTable \in Tables
  BY DEF AndTable, XorTable, Tables, Truth
<1>2. 1 \in 1 .. LongBits
  BY WidthAssumption
<1>3. BitByBit(AndTable, x, y) \in Int /\ BitByBit(XorTable, x, y) \in Int
  BY <1>1, <1>2, BitByBitPattern
<1> QED
  BY <1>3 DEF BitAnd, BitXor, AndTable, XorTable

LEMMA ValueType ==
  ASSUME NEW ins, ins.kind \in Kinds, Sized(ins), NEW X,
         \A n \in 1 .. Arity(ins) : X[n] \in 0 .. 2 ^ ArgWidth(ins, n) - 1
  PROVE  Value(ins, X) \in 0 .. 2 ^ ins.w - 1
<1> DEFINE w == ins.w
           s(n) == Signed(X[n], ins.aw)
<1>1. w \in Nat \ {0} /\ ins.aw \in Nat \ {0}
  BY DEF Sized
<1>2. \A n \in 1 .. Arity(ins) : X[n] \in Nat /\ X[n] \in Int
  <2> TAKE n \in 1 .. Arity(ins)
  <2>1. ArgWidth(ins, n) \in Nat
    BY <1>1 DEF ArgWidth
  <2>2. 2 ^ ArgWidth(ins, n) \in Nat
    BY <2>1, Powers
  <2> QED
    BY <2>2
<1>3. \A n \in 1 .. Arity(ins) : s(n) \in Int
  <2> TAKE n \in 1 .. Arity(ins)
  <2>1. X[n] \in Int
    BY <1>2
  <2>2. Fits(s(n), ins.aw) /\ 2 ^ (ins.aw - 1) \in Nat
    BY <1>1, <2>1, WrapIs, HalfOf
  <2> QED
    BY <2>2 DEF Fits
<1> HIDE DEF s
<1>4. PICK z \in Int : Value(ins, X) = Wrap(z, w)
  <2>1. CASE ins.kind \in {"add", "nswadd", "and", "xor", "ashr", "lshr", "eq", "slt", "ult"}
    <3>1. Arity(ins) = 2
      BY <2>1 DEF Arity
    <3>2. /\ X[1] \in Nat /\ X[2] \in Nat /\ X[1] \in Int /\ X[2] \in Int
          /\ s(1) \in Int /\ s(2) \in Int
      BY <1>2, <1>3, <3>1
    <3> DEFINE d == 2 ^ X[2]
               q == s(1) \div d
               r == X[1] \div d
    <3>3. BitAnd(X[1], X[2]) \in Int /\ BitXor(X[1], X[2]) \in Int
      <4> HIDE DEF d, q, r, w
      <4> QED
        BY <3>2, BitwiseType
    <3>4. q \in Int /\ r \in Int
      <4>1. d \in Nat \ {0}
        BY <3>2, PowerDivides
      <4> HIDE DEF d
      <4>2. \A x \in Int : x \div d \in Int
        BY <4>1, Division
      <4> QED
        BY <3>2, <4>2
    <3>5. Truth(X[1] = X[2]) \in Int /\ Truth(s(1) < s(2)) \in Int /\ Truth(X[1] < X[2]) \in Int
      BY DEF Truth
    <3>6. X[1] + X[2] \in Int
      BY <3>2
    <3>7. /\ ins.kind \in {"add", "nswadd"} => Value(ins, X) = Wrap(X[1] + X[2], w)
          /\ ins.kind = "and" => Value(ins, X) = Wrap(BitAnd(X[1], X[2]), w)
          /\ ins.kind = "xor" => Value(ins, X) = Wrap(BitXor(X[1], X[2]), w)
          /\ ins.kind = "ashr" => Value(ins, X) = Wrap(q, w)
          /\ ins.kind = "lshr" => Value(ins, X) = Wrap(r, w)
          /\ ins.kind = "eq" => Value(ins, X) = Wrap(Truth(X[1] = X[2]), w)
          /\ ins.kind = "slt" => Value(ins, X) = Wrap(Truth(s(1) < s(2)), w)
          /\ ins.kind = "ult" => Value(ins, X) = Wrap(Truth(X[1] < X[2]), w)
      BY DEF Value, s
    <3> HIDE DEF q, r, d, w
    <3> QED
      BY <2>1, <3>3, <3>4, <3>5, <3>6, <3>7
  <2>2. CASE ins.kind \in {"sext", "zext", "trunc"}
    <3>1. Arity(ins) = 1
      BY <2>2 DEF Arity
    <3>2. X[1] \in Int /\ s(1) \in Int
      BY <1>2, <1>3, <3>1
    <3>3. Value(ins, X) = Wrap(IF ins.kind = "sext" THEN s(1) ELSE X[1], w)
      BY <2>2 DEF Value, s
    <3> QED
      BY <3>2, <3>3
  <2>3. CASE ins.kind = "select"
    <3>1. Arity(ins) = 3
      BY <2>3 DEF Arity
    <3>2. X[2] \in Int /\ X[3] \in Int
      BY <1>2, <3>1
    <3>3. Value(ins, X) = Wrap(IF X[1] = 1 THEN X[2] ELSE X[3], w)
      BY <2>3 DEF Value
    <3> QED
      BY <3>2, <3>3
  <2> QED
    BY <2>1, <2>2, <2>3 DEF Kinds
<1>5. Wrap(z, w) \in 0 .. 2 ^ w - 1
  <2> HIDE DEF w
  <2> QED
    BY <1>1, WrapIs
<1> QED
  BY <1>4, <1>5

LEMMA ExpressionType ==
  ASSUME NEW ins, ins.kind \in Kinds, NEW Y, \A n \in 1 .. Arity(ins) : Y[n] \in Int
  PROVE  Expression(ins.kind, Y) \in Int
<1>1. CASE ins.kind \in {"add", "nswadd", "and", "xor", "ashr", "lshr", "eq", "slt", "ult"}
  <2>1. Arity(ins) = 2
    BY <1>1 DEF Arity
  <2>2. Y[1] \in Int /\ Y[2] \in Int
    BY <2>1
  <2> DEFINE q == IF Y[2] < 0 THEN 0 ELSE Y[1] \div 2 ^ Y[2]
  <2>3. BitAnd(Y[1], Y[2]) \in Int /\ BitXor(Y[1], Y[2]) \in Int
    BY <2>2, BitwiseType
  <2>4. q \in Int
    <3>1. CASE Y[2] < 0
      BY <3>1
    <3>2. CASE ~(Y[2] < 0)
      <4>1. Y[2] \in Nat
        BY <2>2, <3>2
      <4>2. 2 ^ Y[2] \in Nat \ {0}
        BY <4>1, PowerDivides
      <4> QED
        BY <2>2, <3>2, <4>2, Division
    <3> QED
      BY <3>1, <3>2
  <2>5. Truth(Y[1] = Y[2]) \in Int /\ Truth(Y[1] < Y[2]) \in Int /\ Y[1] + Y[2] \in Int
    BY <2>2 DEF Truth
  <2>6. /\ ins.kind \in {"add", "nswadd"} => Expression(ins.kind, Y) = Y[1] + Y[2]
        /\ ins.kind = "and" => Expression(ins.kind, Y) = BitAnd(Y[1], Y[2])
        /\ ins.kind = "xor" => Expression(ins.kind, Y) = BitXor(Y[1], Y[2])
        /\ ins.kind \in {"ashr", "lshr"} => Expression(ins.kind, Y) = q
        /\ ins.kind = "eq" => Expression(ins.kind, Y) = Truth(Y[1] = Y[2])
        /\ ins.kind \in {"slt", "ult"} => Expression(ins.kind, Y) = Truth(Y[1] < Y[2])
    BY DEF Expression, Operator
  <2> HIDE DEF q
  <2> QED
    BY <1>1, <2>3, <2>4, <2>5, <2>6
<1>2. CASE ins.kind \in {"sext", "zext", "trunc"}
  <2>1. Arity(ins) = 1
    BY <1>2 DEF Arity
  <2>2. Expression(ins.kind, Y) = Y[1] /\ Y[1] \in Int
    BY <1>2, <2>1 DEF Expression, Operator
  <2> QED
    BY <2>2
<1>3. CASE ins.kind = "select"
  <2>1. Arity(ins) = 3
    BY <1>3 DEF Arity
  <2>2. Expression(ins.kind, Y) \in {Y[2], Y[3]} /\ Y[2] \in Int /\ Y[3] \in Int
    BY <1>3, <2>1 DEF Expression, Operator
  <2> QED
    BY <2>2
<1> QED
  BY <1>1, <1>2, <1>3 DEF Kinds

-----------------------------------------------------------------------------
(* Assignments one after another *)

(* From base, for every n of J in turn, E[n] of what is there is assigned to n. *)
Passes(g, N, J, base, E) ==
  /\ g[0] = base
  /\ \A n \in 1 .. N : g[n] = IF n \notin J THEN g[n - 1] ELSE [g[n - 1] EXCEPT ![n] = E[n][g[n - 1]]]

(* It can be done, if all of them keep the type. *)
LEMMA PassExists ==
  ASSUME NEW N \in Nat, NEW J \in SUBSET (1 .. N), NEW T, NEW base \in T, NEW E,
         \A n \in J : \A w \in T : [w EXCEPT ![n] = E[n][w]] \in T
  PROVE  \E g \in [0 .. N -> T] : Passes(g, N, J, base, E)
<1> DEFINE H == [n \in 1 .. N |-> [w \in T |-> IF n \notin J THEN w ELSE [w EXCEPT ![n] = E[n][w]]]]
<1>1. /\ H \in [1 .. N -> [T -> T]]
      /\ \A n \in 1 .. N : \A w \in T : H[n][w] = IF n \notin J THEN w ELSE [w EXCEPT ![n] = E[n][w]]
  OBVIOUS
<1> HIDE DEF H
<1>2. PICK g : IsIteration(g, N, base, H)
  BY <1>1, IterationExists
<1>3. g \in [0 .. N -> T] /\ g[0] = base /\ \A n \in 1 .. N : g[n] = H[n][g[n - 1]]
  BY <1>1, <1>2, IterationIs
<1>4. ASSUME NEW n \in 1 .. N
      PROVE  g[n] = IF n \notin J THEN g[n - 1] ELSE [g[n - 1] EXCEPT ![n] = E[n][g[n - 1]]]
  <2>1. n - 1 \in 0 .. N
    OBVIOUS
  <2>2. g[n - 1] \in T
    BY <1>3, <2>1
  <2> QED
    BY <1>1, <1>3, <2>2
<1>5. Passes(g, N, J, base, E)
  BY <1>3, <1>4 DEF Passes
<1> QED
  BY <1>3, <1>5

(* Each is assigned once, and keeps that. *)
LEMMA PassLeaves ==
  ASSUME NEW N \in Nat, NEW J \in SUBSET (1 .. N), NEW T, \A w \in T : DOMAIN w = 1 .. N,
         NEW base \in T, NEW E, NEW g \in [0 .. N -> T], Passes(g, N, J, base, E),
         NEW k \in 0 .. N, NEW j \in 1 .. N
  PROVE  g[k][j] = IF j \in J /\ j <= k THEN E[j][g[j - 1]] ELSE base[j]
<1> DEFINE P == {l \in 0 .. N : g[l][j] = IF j \in J /\ j <= l THEN E[j][g[j - 1]] ELSE base[j]}
<1>1. 0 \in P
  BY DEF Passes
<1>2. ASSUME NEW l \in 1 .. N, l - 1 \in P PROVE l \in P
  <2>1. /\ g[l] = IF l \notin J THEN g[l - 1] ELSE [g[l - 1] EXCEPT ![l] = E[l][g[l - 1]]]
        /\ l - 1 \in 0 .. N
    BY DEF Passes
  <2>2. DOMAIN g[l - 1] = 1 .. N
    BY <2>1
  <2>3. g[l - 1][j] = IF j \in J /\ j <= l - 1 THEN E[j][g[j - 1]] ELSE base[j]
    BY <1>2
  <2>4. CASE l = j
    BY <2>1, <2>2, <2>3, <2>4
  <2>5. CASE l # j
    <3>1. g[l][j] = g[l - 1][j]
      BY <2>1, <2>2, <2>5
    <3>2. j <= l <=> j <= l - 1
      BY <2>5
    <3> QED
      BY <2>3, <3>1, <3>2
  <2> QED
    BY <2>4, <2>5
<1> HIDE DEF P
<1>3. k \in P
  BY <1>1, <1>2, UpTo
<1> QED
  BY <1>3 DEF P

-----------------------------------------------------------------------------
(* The instructions of a function *)

Patterns(f)     == {v \in [Instrs(f) -> Int] : \A i \in Instrs(f) : v[i] \in 0 .. 2 ^ f.code[i].w - 1}
Variables(f, t) == {c \in [Instrs(f) -> Int] : \A i \in Instrs(f) : Fits(c[i], TypeBits(t, f.code[i].w))}

(* What is known of an instruction of a well-formed function ... *)
LEMMA InstrIs ==
  ASSUME NEW f, WellFormed(f), NEW i \in Instrs(f)
  PROVE  /\ Instrs(f) = 1 .. Len(f.code) /\ Len(f.code) \in Nat
         /\ Sized(f.code[i]) /\ Typed(f, f.code[i])
         /\ f.code[i].w \in 1 .. LongBits /\ f.code[i].aw \in 1 .. LongBits
         /\ f.code[i].bb \in DOMAIN f.succ
         /\ f.code[i].kind \in Kinds \cup Terminators \cup {"in", "phi"}
         /\ DOMAIN f.code[i].args = 1 .. Arity(f.code[i])
<1>1. f.code \in Seq(Range(f.code))
  BY DEF WellFormed
<1>2. DOMAIN f.code = 1 .. Len(f.code) /\ Len(f.code) \in Nat
  <2> DEFINE T == Range(f.code)
  <2>1. f.code \in Seq(T)
    BY <1>1
  <2> HIDE DEF T
  <2> QED
    BY <2>1
<1>3. /\ f.code[i].bb \in DOMAIN f.succ
      /\ f.code[i].kind \in Kinds \cup Terminators \cup {"in", "phi"} /\ Typed(f, f.code[i])
  BY DEF WellFormed
<1> QED
  BY <1>2, <1>3 DEF Instrs, Typed, Sized

(* ... and of its operands. *)
Arg(f, a, w) ==
  IF a.var = 0 THEN a.bits \in 0 .. 2 ^ w - 1
  ELSE a.var \in Instrs(f) /\ f.code[a.var].kind \notin Terminators /\ f.code[a.var].w = w

LEMMA ArgIs ==
  ASSUME NEW f, WellFormed(f), NEW i \in Instrs(f), NEW n \in DOMAIN f.code[i].args
  PROVE  /\ ArgWidth(f.code[i], n) \in 1 .. LongBits
         /\ Arg(f, f.code[i].args[n], ArgWidth(f.code[i], n))
<1>1. Typed(f, f.code[i]) /\ f.code[i].aw \in 1 .. LongBits
  BY InstrIs
<1>2. ArgWidth(f.code[i], n) \in 1 .. LongBits
  BY <1>1, WidthAssumption DEF ArgWidth
<1>3. Arg(f, f.code[i].args[n], ArgWidth(f.code[i], n))
  BY <1>1 DEF Typed, Arg
<1> QED
  BY <1>2, <1>3

(* The values of an operand have its type. *)
LEMMA OperandType ==
  ASSUME NEW f, NEW w \in 1 .. LongBits, NEW a, Arg(f, a, w), NEW v \in Patterns(f)
  PROVE  Operand(v, a) \in 0 .. 2 ^ w - 1
BY DEF Arg, Operand, Patterns

LEMMA OperandCType ==
  ASSUME NEW f, NEW t \in Targets, NEW w \in 1 .. LongBits, NEW a, Arg(f, a, w), NEW c \in Variables(f, t)
  PROVE  OperandC(c, a, w) \in Int /\ Fits(OperandC(c, a, w), TypeBits(t, w))
<1>1. CASE a.var = 0
  <2> DEFINE T == TypeBits(t, w)
             z == Signed(a.bits, w)
  <2>1. w \in Nat \ {0} /\ T \in Nat \ {0} /\ w <= T
    BY TypeBitsIs
  <2>2. 2 ^ w \in Nat /\ 2 ^ (w - 1) \in Nat
    BY <2>1, HalfOf
  <2>3. a.bits \in Int
    BY <1>1, <2>2 DEF Arg
  <2>4. Fits(z, w)
    BY <2>1, <2>3, WrapIs
  <2>5. z \in Int
    BY <2>2, <2>4 DEF Fits
  <2>6. Fits(z, T)
    <3> HIDE DEF z, T
    <3> QED
      BY <2>1, <2>4, <2>5, Narrower
  <2> QED
    BY <1>1, <2>5, <2>6 DEF OperandC, ConstantStr
<1>2. CASE a.var # 0
  BY <1>2 DEF Arg, OperandC, Variables
<1> QED
  BY <1>1, <1>2

(* A phi has an argument for every block before its own. *)
LEMMA IncomingIs ==
  ASSUME NEW f, WellFormed(f), NEW b, NEW i \in PhisOf(f, b), NEW p \in PredsIn(f.succ, b)
  PROVE  /\ i \in Instrs(f) /\ f.code[i].kind = "phi" /\ f.code[i].bb = b
         /\ f.code[i].w \in 1 .. LongBits
         /\ \E n \in DOMAIN f.code[i].args :
              Incoming(f, i, p) = f.code[i].args[n] /\ ArgWidth(f.code[i], n) = f.code[i].w
         /\ Arg(f, Incoming(f, i, p), f.code[i].w)
<1>1. i \in Instrs(f) /\ f.code[i].kind = "phi" /\ f.code[i].bb = b
  BY DEF PhisOf, InBlock
<1> DEFINE ins == f.code[i]
           n == CHOOSE m \in DOMAIN ins.from : ins.from[m] = p
<1>2. /\ ins.from \in Seq(DOMAIN f.succ) /\ Range(ins.from) = PredsIn(f.succ, b)
      /\ DOMAIN ins.args = 1 .. Arity(ins)
  BY <1>1, InstrIs DEF WellFormed
<1>3. n \in DOMAIN ins.from
  <2>1. \E m \in DOMAIN ins.from : ins.from[m] = p
    BY <1>2 DEF Range
  <2> QED
    BY <2>1
<1>4. DOMAIN ins.from = DOMAIN ins.args
  <2>1. Arity(ins) = Len(ins.from)
    BY <1>1 DEF Arity
  <2> QED
    BY <1>2, <2>1
<1>5. Incoming(f, i, p) = ins.args[n] /\ ArgWidth(ins, n) = ins.w
  <2>1. Sized(ins)
    BY <1>1, InstrIs
  <2>2. ins.w = ins.aw
    BY <1>1, <2>1 DEF Sized, WidthsFit
  <2> QED
    BY <1>1, <2>2 DEF Incoming, ArgWidth
<1> HIDE DEF n
<1>6. Arg(f, ins.args[n], ArgWidth(ins, n)) /\ ins.w \in 1 .. LongBits
  BY <1>1, <1>3, <1>4, ArgIs, InstrIs
<1> QED
  BY <1>1, <1>3, <1>4, <1>5, <1>6

(* A plain instruction *)
LEMMA PlainIs ==
  ASSUME NEW f, WellFormed(f), NEW b, NEW i \in Plain(f, b)
  PROVE  /\ i \in Instrs(f) /\ f.code[i].bb = b /\ f.code[i].kind \in Kinds \cup {"in"}
         /\ f.code[i].kind # "phi" /\ f.code[i].kind \notin Terminators
BY InstrIs DEF Plain, InBlock

-----------------------------------------------------------------------------
(* A block *)

(* The inputs a block reads, and the block it is entered from. *)
InputsFit(f, b, inp) ==
  \A i \in Plain(f, b) : f.code[i].kind = "in" => inp[i] \in 0 .. 2 ^ f.code[i].w - 1
Entered(f, b, p) == PhisOf(f, b) # {} => p \in PredsIn(f.succ, b)

(* The value of an instruction of a block, given those before it. *)
Computed(f, v, i, inp) == IF f.code[i].kind = "in" THEN inp[i] ELSE Value(f.code[i], Operands(v, f.code[i]))

LEMMA ComputedType ==
  ASSUME NEW f, WellFormed(f), NEW b, NEW inp, InputsFit(f, b, inp),
         NEW i \in Plain(f, b), NEW v \in Patterns(f)
  PROVE  Computed(f, v, i, inp) \in 0 .. 2 ^ f.code[i].w - 1
<1>1. CASE f.code[i].kind = "in"
  BY <1>1 DEF Computed, InputsFit
<1>2. CASE f.code[i].kind # "in"
  <2> DEFINE ins == f.code[i]
             X == Operands(v, ins)
  <2>1. i \in Instrs(f) /\ ins.kind \in Kinds
    BY <1>2, PlainIs
  <2>2. Sized(ins) /\ DOMAIN ins.args = 1 .. Arity(ins)
    BY <2>1, InstrIs
  <2>3. ASSUME NEW n \in 1 .. Arity(ins) PROVE X[n] \in 0 .. 2 ^ ArgWidth(ins, n) - 1
    <3>1. X[n] = Operand(v, ins.args[n])
      BY <2>2 DEF Operands
    <3>2. ArgWidth(ins, n) \in 1 .. LongBits /\ Arg(f, ins.args[n], ArgWidth(ins, n))
      BY <2>1, <2>2, ArgIs
    <3> QED
      BY <3>1, <3>2, OperandType
  <2> HIDE DEF X
  <2>4. Value(ins, X) \in 0 .. 2 ^ ins.w - 1
    BY <2>1, <2>2, <2>3, ValueType
  <2> QED
    BY <1>2, <2>4 DEF Computed, X
<1> QED
  BY <1>1, <1>2

(* LLVM: a block gives its phis what comes from the block before, and each instruction *)
(* the value its operands have afterwards.                                             *)
AfterIs(f, v, p, b, inp, a) ==
  /\ a \in Patterns(f)
  /\ \A i \in Instrs(f) :
       /\ i \in PhisOf(f, b) => a[i] = Operand(v, Incoming(f, i, p))
       /\ i \in Plain(f, b)  => a[i] = Computed(f, a, i, inp)
       /\ i \notin PhisOf(f, b) \cup Plain(f, b) => a[i] = v[i]

LEMMA AfterBlockIs ==
  ASSUME NEW f, WellFormed(f), NEW v \in Patterns(f), NEW b, NEW p, Entered(f, b, p),
         NEW inp, InputsFit(f, b, inp)
  PROVE  AfterIs(f, v, p, b, inp, AfterBlock(f, v, p, b, inp))
<1> DEFINE N == Len(f.code)
           T == Patterns(f)
           J == Plain(f, b)
           base == [i \in Instrs(f) |-> IF i \in PhisOf(f, b) THEN Operand(v, Incoming(f, i, p)) ELSE v[i]]
           E == [n \in J |-> [w \in T |-> Computed(f, w, n, inp)]]
           Is(g) == g = [n \in 0 .. N |->
                      IF n = 0 THEN base
                      ELSE IF n \notin J THEN g[n - 1]
                           ELSE [g[n - 1] EXCEPT ![n] = IF f.code[n].kind = "in" THEN inp[n]
                                                        ELSE Value(f.code[n], Operands(g[n - 1], f.code[n]))]]
           h == CHOOSE g : Is(g)
<1>1. N \in Nat /\ Instrs(f) = 1 .. N /\ J \in SUBSET (1 .. N)
  <2>1. f.code \in Seq(Range(f.code))
    BY DEF WellFormed
  <2>2. N \in Nat /\ DOMAIN f.code = 1 .. N
    <3> DEFINE R == Range(f.code)
    <3>1. f.code \in Seq(R)
      BY <2>1
    <3> HIDE DEF R
    <3> QED
      BY <3>1
  <2> QED
    BY <2>2 DEF Plain, InBlock, Instrs
<1>2. AfterBlock(f, v, p, b, inp) = h[N]
  BY DEF AfterBlock
<1>3. base \in T
  <2>1. ASSUME NEW i \in Instrs(f) PROVE base[i] \in 0 .. 2 ^ f.code[i].w - 1 /\ base[i] \in Int
    <3>1. f.code[i].w \in 1 .. LongBits
      BY InstrIs
    <3>2. 2 ^ f.code[i].w \in Nat
      BY <3>1, Powers
    <3>3. CASE i \in PhisOf(f, b)
      <4>1. p \in PredsIn(f.succ, b)
        BY <3>3 DEF Entered
      <4>2. Arg(f, Incoming(f, i, p), f.code[i].w)
        BY <3>3, <4>1, IncomingIs
      <4>3. Operand(v, Incoming(f, i, p)) \in 0 .. 2 ^ f.code[i].w - 1
        BY <3>1, <4>2, OperandType
      <4> QED
        BY <3>2, <3>3, <4>3
    <3>4. CASE i \notin PhisOf(f, b)
      BY <3>4 DEF Patterns
    <3> QED
      BY <3>3, <3>4
  <2> HIDE DEF base
  <2>2. base = [i \in Instrs(f) |-> base[i]]
    BY DEF base
  <2> QED
    BY <2>1, <2>2 DEF Patterns
<1>4. ASSUME NEW n \in J, NEW w \in T
      PROVE  [w EXCEPT ![n] = E[n][w]] \in T
  <2>1. E[n][w] \in 0 .. 2 ^ f.code[n].w - 1
    BY ComputedType
  <2>2. 2 ^ f.code[n].w \in Nat /\ n \in Instrs(f)
    <3>1. n \in Instrs(f)
      BY PlainIs
    <3>2. f.code[n].w \in Nat
      BY <3>1, InstrIs
    <3> QED
      BY <3>1, <3>2, Powers
  <2>3. E[n][w] \in Int
    BY <2>1, <2>2
  <2> HIDE DEF E, J
  <2> QED
    BY <2>1, <2>2, <2>3 DEF Patterns
<1>5. PICK g \in [0 .. N -> T] : Passes(g, N, J, base, E)
  <2> HIDE DEF N, T, J, base, E
  <2> QED
    BY <1>1, <1>3, <1>4, PassExists
<1>6. Is(g)
  <2>1. g = [n \in 0 .. N |-> g[n]]
    OBVIOUS
  <2>2. ASSUME NEW n \in 0 .. N
        PROVE  g[n] = IF n = 0 THEN base
                      ELSE IF n \notin J THEN g[n - 1]
                           ELSE [g[n - 1] EXCEPT ![n] = IF f.code[n].kind = "in" THEN inp[n]
                                                        ELSE Value(f.code[n], Operands(g[n - 1], f.code[n]))]
    <3>1. CASE n = 0
      BY <3>1, <1>5 DEF Passes
    <3>2. CASE n # 0
      <4>1. n \in 1 .. N /\ n - 1 \in 0 .. N
        BY <1>1, <3>2
      <4>2. g[n] = IF n \notin J THEN g[n - 1] ELSE [g[n - 1] EXCEPT ![n] = E[n][g[n - 1]]]
        BY <1>5, <4>1 DEF Passes
      <4>3. n \in J => E[n][g[n - 1]] = Computed(f, g[n - 1], n, inp)
        BY <4>1
      <4> HIDE DEF E, J, base
      <4> QED
        BY <3>2, <4>2, <4>3 DEF Computed
    <3> QED
      BY <3>1, <3>2
  <2> HIDE DEF base, J, E
  <2> QED
    BY <2>1, <2>2
<1>7. Is(h)
  <2> HIDE DEF Is
  <2> QED
    BY <1>6
<1>8. h[N] = g[N]
  <2> DEFINE P == {k \in 0 .. N : h[k] = g[k]}
  <2> HIDE DEF h, base, J, E
  <2>1. 0 \in P
    BY <1>1, <1>6, <1>7
  <2>2. ASSUME NEW k \in 1 .. N, k - 1 \in P PROVE k \in P
    <3>1. h[k - 1] = g[k - 1] /\ k \in 0 .. N /\ k # 0
      BY <2>2
    <3>2. /\ h[k] = IF k \notin J THEN h[k - 1]
                    ELSE [h[k - 1] EXCEPT ![k] = IF f.code[k].kind = "in" THEN inp[k]
                                                 ELSE Value(f.code[k], Operands(h[k - 1], f.code[k]))]
          /\ g[k] = IF k \notin J THEN g[k - 1]
                    ELSE [g[k - 1] EXCEPT ![k] = IF f.code[k].kind = "in" THEN inp[k]
                                                 ELSE Value(f.code[k], Operands(g[k - 1], f.code[k]))]
      BY <1>6, <1>7, <3>1
    <3> QED
      BY <3>1, <3>2
  <2> HIDE DEF P, N
  <2>3. N \in P
    BY <1>1, <2>1, <2>2, UpTo
  <2> QED
    BY <2>3 DEF P
<1> DEFINE a == g[N]
<1>9. N \in 0 .. N
  BY <1>1
<1>10. \A w \in T : DOMAIN w = 1 .. N
  BY <1>1 DEF Patterns
<1>11. \A k \in 0 .. N, j \in 1 .. N : g[k][j] = IF j \in J /\ j <= k THEN E[j][g[j - 1]] ELSE base[j]
  <2> HIDE DEF N, T, J, base, E
  <2> QED
    BY <1>1, <1>3, <1>5, <1>10, PassLeaves
<1>12. a \in Patterns(f)
  BY <1>5, <1>9
<1>13. ASSUME NEW i \in Instrs(f), i \notin J PROVE a[i] = base[i]
  <2> HIDE DEF J, base, E
  <2> QED
    BY <1>1, <1>9, <1>11, <1>13
<1>14. ASSUME NEW i \in Instrs(f), i \in J PROVE a[i] = Computed(f, a, i, inp)
  <2>1. i \in 1 .. N /\ i - 1 \in 0 .. N /\ i <= N
    BY <1>1
  <2>2. a[i] = E[i][g[i - 1]] /\ g[i - 1] \in T
    <3> HIDE DEF J, base, E
    <3> QED
      BY <1>5, <1>9, <1>11, <1>14, <2>1
  <2>3. a[i] = Computed(f, g[i - 1], i, inp)
    BY <1>14, <2>2
  <2>4. CASE f.code[i].kind = "in"
    BY <2>3, <2>4 DEF Computed
  <2>5. CASE f.code[i].kind # "in"
    <3>1. f.code[i].kind # "phi" /\ f.code[i].bb = b /\ f.code[i].kind \notin Terminators
      BY <1>14, PlainIs
    <3>2. ASSUME NEW n \in DOMAIN f.code[i].args
          PROVE  Operand(g[i - 1], f.code[i].args[n]) = Operand(a, f.code[i].args[n])
      <4> DEFINE j == f.code[i].args[n].var
      <4>1. CASE j = 0
        BY <4>1 DEF Operand
      <4>2. CASE j # 0
        <5>1. j \in Instrs(f)
          BY <4>2, ArgIs DEF Arg
        <5>2. j \in InBlock(f, b) => j < i \/ f.code[j].kind = "phi"
          <6>1. f.code[i].args[n] \in Range(f.code[i].args)
            BY DEF Range
          <6> QED
            BY <3>1, <6>1 DEF WellFormed
        <5>3. ~ (j \in J) \/ j <= i - 1
          <6> SUFFICES ASSUME j \in J PROVE j <= i - 1
            OBVIOUS
          <6>1. j \in InBlock(f, b) /\ f.code[j].kind # "phi"
            BY DEF Plain
          <6>2. j < i
            BY <5>2, <6>1
          <6> QED
            BY <1>1, <2>1, <5>1, <6>2
        <5>4. g[i - 1][j] = g[N][j]
          <6>1. j \in 1 .. N
            BY <1>1, <5>1
          <6> HIDE DEF J, base, E, j
          <6>2. /\ g[i - 1][j] = IF j \in J /\ j <= i - 1 THEN E[j][g[j - 1]] ELSE base[j]
                /\ g[N][j] = IF j \in J /\ j <= N THEN E[j][g[j - 1]] ELSE base[j]
            BY <1>9, <1>11, <2>1, <6>1
          <6> QED
            BY <5>3, <6>1, <6>2
        <5> QED
          BY <4>2, <5>4 DEF Operand
      <4> QED
        BY <4>1, <4>2
    <3>3. Operands(g[i - 1], f.code[i]) = Operands(a, f.code[i])
      BY <3>2 DEF Operands
    <3> QED
      BY <2>3, <2>5, <3>3 DEF Computed
  <2> QED
    BY <2>4, <2>5
<1>15. PhisOf(f, b) \cap J = {}
  BY DEF PhisOf, Plain
<1>16. AfterIs(f, v, p, b, inp, a)
  <2> HIDE DEF a
  <2> QED
    BY <1>12, <1>13, <1>14, <1>15 DEF AfterIs
<1> QED
  BY <1>2, <1>8, <1>16

(* C: an assignment keeps the types of the variables. *)
LEMMA AssignedType ==
  ASSUME NEW f, WellFormed(f), NEW t \in Targets, NEW b, NEW inp, InputsFit(f, b, inp),
         NEW i \in Plain(f, b) \cup phiPreAssign(f, b), NEW d \in Variables(f, t)
  PROVE  /\ Assigned(f, t, d, b, i, inp) \in Int
         /\ Fits(Assigned(f, t, d, b, i, inp), TypeBits(t, f.code[i].w))
<1> DEFINE ins == f.code[i]
           T == TypeBits(t, ins.w)
<1>1. i \in Instrs(f)
  BY DEF Plain, InBlock, phiPreAssign
<1>2. /\ Sized(ins) /\ DOMAIN ins.args = 1 .. Arity(ins) /\ ins.w \in 1 .. LongBits
      /\ ins.kind \in Kinds \cup Terminators \cup {"in", "phi"}
  BY <1>1, InstrIs
<1>3. T \in Nat \ {0}
  BY <1>2, TypeBitsIs
<1>4. CASE ins.kind = "in"
  <2>1. i \in Plain(f, b)
    BY <1>4 DEF phiPreAssign
  <2>2. inp[i] \in 0 .. 2 ^ ins.w - 1
    BY <1>4, <2>1 DEF InputsFit
  <2>3. Rep(t, inp[i], ins.w) \in Int /\ Fits(Rep(t, inp[i], ins.w), T)
    BY <1>2, <2>2, RepIs
  <2> QED
    BY <1>4, <2>3 DEF Assigned
<1>5. CASE ins.kind = "phi"
  <2>1. i \in phiPreAssign(f, b)
    BY <1>5 DEF Plain
  <2>2. i \in PhisOf(f, ins.bb) /\ b \in PredsIn(f.succ, ins.bb)
    BY <1>1, <1>5, <2>1 DEF phiPreAssign, PhisOf, InBlock, WellFormed
  <2>3. Arg(f, Incoming(f, i, b), ins.w)
    BY <2>2, IncomingIs
  <2>4. OperandC(d, Incoming(f, i, b), ins.w) \in Int /\ Fits(OperandC(d, Incoming(f, i, b), ins.w), T)
    BY <1>2, <2>3, OperandCType
  <2> QED
    BY <1>5, <2>4 DEF Assigned
<1>6. CASE ins.kind \notin {"in", "phi"}
  <2> DEFINE Y == OperandsC(d, ins)
             z == Expression(ins.kind, Y)
  <2>1. ins.kind \in Kinds
    <3>1. i \in Plain(f, b)
      BY <1>6 DEF phiPreAssign
    <3> QED
      BY <1>6, <3>1, PlainIs
  <2>2. ASSUME NEW n \in 1 .. Arity(ins) PROVE Y[n] \in Int
    <3>1. Y[n] = OperandC(d, ins.args[n], ArgWidth(ins, n))
      BY <1>2 DEF OperandsC
    <3>2. ArgWidth(ins, n) \in 1 .. LongBits /\ Arg(f, ins.args[n], ArgWidth(ins, n))
      BY <1>1, <1>2, ArgIs
    <3> QED
      BY <3>1, <3>2, OperandCType
  <2>3. z \in Int
    <3> HIDE DEF Y
    <3> QED
      BY <2>1, <2>2, ExpressionType
  <2>4. Assigned(f, t, d, b, i, inp) = Signed(z, T)
    BY <1>6 DEF Assigned
  <2> HIDE DEF z, T
  <2>5. Fits(Signed(z, T), T)
    BY <1>3, <2>3, WrapIs
  <2>6. Signed(z, T) \in Int
    BY <1>3, <2>5, HalfOf DEF Fits
  <2> QED
    BY <2>4, <2>5, <2>6 DEF T
<1> QED
  BY <1>4, <1>5, <1>6

(* C: of the assignments to I each is made once, from what the variables hold when it  *)
(* is its turn: the variables in I before it are assigned already, the others are not. *)
AssignIs(f, t, c, b, inp, I, g) ==
  /\ g \in [0 .. Len(f.code) -> Variables(f, t)]
  /\ \A k \in 0 .. Len(f.code) : \A j \in Instrs(f) :
       g[k][j] = IF j \in I /\ j <= k THEN Assigned(f, t, g[j - 1], b, j, inp) ELSE c[j]

LEMMA AssignsInTurn ==
  ASSUME NEW f, WellFormed(f), NEW t \in Targets, NEW c \in Variables(f, t), NEW b, NEW inp,
         InputsFit(f, b, inp), NEW I \in SUBSET (Plain(f, b) \cup phiPreAssign(f, b))
  PROVE  \E g : AssignIs(f, t, c, b, inp, I, g) /\ Assign(f, t, c, b, inp, I) = g[Len(f.code)]
<1> DEFINE N == Len(f.code)
           T == Variables(f, t)
           E == [n \in I |-> [d \in T |-> Assigned(f, t, d, b, n, inp)]]
           Is(g) == g = [n \in 0 .. N |->
                      IF n = 0 THEN c
                      ELSE IF n \notin I THEN g[n - 1]
                           ELSE [g[n - 1] EXCEPT ![n] = Assigned(f, t, g[n - 1], b, n, inp)]]
           h == CHOOSE g : Is(g)
<1>1. N \in Nat /\ Instrs(f) = 1 .. N /\ I \in SUBSET (1 .. N)
  <2>1. f.code \in Seq(Range(f.code))
    BY DEF WellFormed
  <2>2. N \in Nat /\ DOMAIN f.code = 1 .. N
    <3> DEFINE R == Range(f.code)
    <3>1. f.code \in Seq(R)
      BY <2>1
    <3> HIDE DEF R
    <3> QED
      BY <3>1
  <2> QED
    BY <2>2 DEF Plain, InBlock, Instrs, phiPreAssign
<1>2. Assign(f, t, c, b, inp, I) = h[N]
  BY DEF Assign
<1>3. ASSUME NEW n \in I, NEW d \in T PROVE [d EXCEPT ![n] = E[n][d]] \in T
  <2>1. E[n][d] \in Int /\ Fits(E[n][d], TypeBits(t, f.code[n].w))
    BY AssignedType
  <2>2. n \in Instrs(f)
    BY <1>1
  <2> HIDE DEF E
  <2> QED
    BY <2>1, <2>2 DEF Variables
<1>4. PICK g \in [0 .. N -> T] : Passes(g, N, I, c, E)
  <2> HIDE DEF N, T, E
  <2>1. c \in T
    BY DEF T
  <2> QED
    BY <1>1, <1>3, <2>1, PassExists
<1>5. Is(g)
  <2>1. g = [n \in 0 .. N |-> g[n]]
    OBVIOUS
  <2>2. ASSUME NEW n \in 0 .. N
        PROVE  g[n] = IF n = 0 THEN c
                      ELSE IF n \notin I THEN g[n - 1]
                           ELSE [g[n - 1] EXCEPT ![n] = Assigned(f, t, g[n - 1], b, n, inp)]
    <3>1. CASE n = 0
      BY <3>1, <1>4 DEF Passes
    <3>2. CASE n # 0
      <4>1. n \in 1 .. N /\ n - 1 \in 0 .. N
        BY <1>1, <3>2
      <4>2. g[n] = IF n \notin I THEN g[n - 1] ELSE [g[n - 1] EXCEPT ![n] = E[n][g[n - 1]]]
        BY <1>4, <4>1 DEF Passes
      <4>3. n \in I => E[n][g[n - 1]] = Assigned(f, t, g[n - 1], b, n, inp)
        BY <4>1
      <4> HIDE DEF E
      <4> QED
        BY <3>2, <4>2, <4>3
    <3> QED
      BY <3>1, <3>2
  <2> HIDE DEF E
  <2> QED
    BY <2>1, <2>2
<1>6. Is(h)
  <2> HIDE DEF Is
  <2> QED
    BY <1>5
<1>7. h[N] = g[N]
  <2> DEFINE P == {k \in 0 .. N : h[k] = g[k]}
  <2> HIDE DEF h, E
  <2>1. 0 \in P
    BY <1>1, <1>5, <1>6
  <2>2. ASSUME NEW k \in 1 .. N, k - 1 \in P PROVE k \in P
    <3>1. h[k - 1] = g[k - 1] /\ k \in 0 .. N /\ k # 0
      BY <2>2
    <3>2. /\ h[k] = IF k \notin I THEN h[k - 1]
                    ELSE [h[k - 1] EXCEPT ![k] = Assigned(f, t, h[k - 1], b, k, inp)]
          /\ g[k] = IF k \notin I THEN g[k - 1]
                    ELSE [g[k - 1] EXCEPT ![k] = Assigned(f, t, g[k - 1], b, k, inp)]
      BY <1>5, <1>6, <3>1
    <3> QED
      BY <3>1, <3>2
  <2> HIDE DEF P, N
  <2>3. N \in P
    BY <1>1, <2>1, <2>2, UpTo
  <2> QED
    BY <2>3 DEF P
<1>8. \A w \in T : DOMAIN w = 1 .. N
  BY <1>1 DEF Variables
<1>9. \A k \in 0 .. N, j \in 1 .. N : g[k][j] = IF j \in I /\ j <= k THEN E[j][g[j - 1]] ELSE c[j]
  <2> HIDE DEF N, E
  <2>1. c \in T
    OBVIOUS
  <2> HIDE DEF T
  <2> QED
    BY <1>1, <1>4, <1>8, <2>1, PassLeaves
<1>10. \A j \in I : E[j][g[j - 1]] = Assigned(f, t, g[j - 1], b, j, inp)
  <2> TAKE j \in I
  <2>1. j - 1 \in 0 .. N
    BY <1>1
  <2>2. g[j - 1] \in T
    BY <1>4, <2>1
  <2> QED
    BY <2>2
<1>11. AssignIs(f, t, c, b, inp, I, g)
  <2> HIDE DEF E
  <2> QED
    BY <1>1, <1>4, <1>9, <1>10 DEF AssignIs
<1> QED
  BY <1>2, <1>7, <1>11

-----------------------------------------------------------------------------
(* What is live *)

(* The blocks reached without entering Avoid. *)
Reaches(f, b, Avoid, F) ==
  /\ F \in SUBSET (DOMAIN f.succ) /\ {b} \ Avoid \subseteq F
  /\ \A x \in F : SuccsIn(f.succ, x) \ Avoid \subseteq F
  /\ \A T : {b} \ Avoid \subseteq T /\ (\A x \in T : x \in DOMAIN f.succ /\ SuccsIn(f.succ, x) \ Avoid \subseteq T)
              => F \subseteq T

LEMMA FloodIs ==
  ASSUME NEW f, WellFormed(f), NEW b \in DOMAIN f.succ, NEW Avoid
  PROVE  Reaches(f, b, Avoid, FloodIn(f.succ, {b}, Avoid))
<1> DEFINE D == DOMAIN f.succ
           next == [x \in D |-> SuccsIn(f.succ, x) \ Avoid]
           S == {b} \ Avoid
<1>1. IsGraph(next, D) /\ S \in SUBSET D
  <2>1. f.succ \in Seq(Seq(D))
    BY DEF WellFormed
  <2>2. IsFiniteSet(D)
    <3>1. D = 1 .. Len(f.succ) /\ Len(f.succ) \in Nat
      <4> DEFINE R == Seq(D)
      <4>1. f.succ \in Seq(R)
        BY <2>1
      <4> HIDE DEF R
      <4> QED
        BY <4>1
    <3> QED
      BY <3>1, FS_Interval
  <2>3. ASSUME NEW x \in D PROVE SuccsIn(f.succ, x) \subseteq D
    <3>1. f.succ[x] \in Seq(D)
      <4> DEFINE R == Seq(D)
      <4>1. f.succ \in Seq(R)
        BY <2>1
      <4> HIDE DEF R
      <4>2. f.succ[x] \in R
        BY <4>1
      <4> QED
        BY <4>2 DEF R
    <3> QED
      BY <3>1 DEF SuccsIn, Range
  <2> HIDE DEF D
  <2>4. next \in [D -> SUBSET D]
    BY <2>3
  <2> HIDE DEF next
  <2> QED
    BY <2>2, <2>4 DEF IsGraph, D
<1>2. FloodIn(f.succ, {b}, Avoid) = Closure(next, S)
  BY DEF FloodIn
<1>3. /\ Closure(next, S) \in SUBSET D /\ S \subseteq Closure(next, S)
      /\ IsClosed(next, Closure(next, S))
  <2> HIDE DEF D, next, S
  <2> QED
    BY <1>1, ClosureClosed
<1>4. \A x \in Closure(next, S) : SuccsIn(f.succ, x) \ Avoid \subseteq Closure(next, S)
  BY <1>3 DEF IsClosed
<1>5. ASSUME NEW T, S \subseteq T, \A x \in T : x \in D /\ SuccsIn(f.succ, x) \ Avoid \subseteq T
      PROVE  Closure(next, S) \subseteq T
  <2>1. IsClosed(next, T)
    BY <1>5 DEF IsClosed
  <2> HIDE DEF D, next, S
  <2> QED
    BY <1>1, <1>5, <2>1, ClosureLeast
<1> QED
  BY <1>2, <1>3, <1>4, <1>5 DEF Reaches

(* What a block uses and does not compute is needed where it starts. *)
LEMMA UsedIsLive ==
  ASSUME NEW f, WellFormed(f), NEW b \in DOMAIN f.succ, NEW i \in UsesAt(f, b), f.code[i].bb # b
  PROVE  LiveAt(f, b, i)
<1> DEFINE F == FloodIn(f.succ, {b}, {f.code[i].bb})
<1>1. Reaches(f, b, {f.code[i].bb}, F)
  BY FloodIs
<1>2. b \in F
  BY <1>1 DEF Reaches
<1> QED
  BY <1>2 DEF LiveAt

(* What is needed behind a block that does not compute it is needed in front of it. *)
LEMMA LiveBefore ==
  ASSUME NEW f, WellFormed(f), NEW b \in DOMAIN f.succ, NEW s \in SuccsIn(f.succ, b), s \in DOMAIN f.succ,
         NEW i, LiveAt(f, s, i), f.code[i].bb # b
  PROVE  LiveAt(f, b, i)
<1> DEFINE A == {f.code[i].bb}
<1>1. PICK x \in FloodIn(f.succ, {s}, A) : i \in UsesAt(f, x)
  BY DEF LiveAt
<1>2. s \notin A
  <2> SUFFICES ASSUME s \in A PROVE FALSE
    OBVIOUS
  <2> DEFINE G == FloodIn(f.succ, {s}, A)
  <2>1. Reaches(f, s, A, G)
    BY FloodIs
  <2>2. G \subseteq {}
    <3> HIDE DEF G
    <3> QED
      BY <2>1 DEF Reaches
  <2> QED
    BY <1>1, <2>2
<1> DEFINE F == FloodIn(f.succ, {b}, A)
<1>3. /\ b \in F /\ F \in SUBSET (DOMAIN f.succ)
      /\ \A y \in F : SuccsIn(f.succ, y) \ A \subseteq F
  <2>1. Reaches(f, b, A, F)
    BY FloodIs
  <2> QED
    BY <2>1 DEF Reaches
<1>4. s \in F
  BY <1>2, <1>3
<1>5. FloodIn(f.succ, {s}, A) \subseteq F
  <2> DEFINE G == FloodIn(f.succ, {s}, A)
  <2>1. {s} \ A \subseteq F /\ \A y \in F : y \in DOMAIN f.succ /\ SuccsIn(f.succ, y) \ A \subseteq F
    BY <1>3, <1>4
  <2>2. Reaches(f, s, A, G)
    BY FloodIs
  <2> HIDE DEF F, G
  <2>3. G \subseteq F
    BY <2>1, <2>2 DEF Reaches
  <2> QED
    BY <2>3 DEF G
<1>6. x \in F
  BY <1>1, <1>5
<1> QED
  BY <1>1, <1>6 DEF LiveAt

(* A block assigns to the phis of the blocks behind it. *)
LEMMA PreAssignIs ==
  ASSUME NEW f, WellFormed(f), NEW b, NEW i \in phiPreAssign(f, b)
  PROVE  /\ i \in Instrs(f) /\ f.code[i].kind = "phi" /\ f.code[i].bb \in DOMAIN f.succ
         /\ i \in PhisOf(f, f.code[i].bb) /\ b \in PredsIn(f.succ, f.code[i].bb)
         /\ b \in DOMAIN f.succ
<1>1. i \in Instrs(f) /\ f.code[i].kind = "phi" /\ b \in Range(f.code[i].from)
  BY DEF phiPreAssign
<1>2. f.code[i].bb \in DOMAIN f.succ /\ Range(f.code[i].from) = PredsIn(f.succ, f.code[i].bb)
  BY <1>1 DEF WellFormed
<1> QED
  BY <1>1, <1>2 DEF PhisOf, InBlock, PredsIn

(* Only values are needed. *)
LEMMA LiveIsValue ==
  ASSUME NEW f, WellFormed(f), NEW b \in DOMAIN f.succ, NEW i, LiveAt(f, b, i)
  PROVE  i \in Instrs(f) /\ f.code[i].kind \notin Terminators /\ f.code[i].bb # b
<1>1. PICK x \in FloodIn(f.succ, {b}, {f.code[i].bb}) : i \in UsesAt(f, x)
  BY DEF LiveAt
<1>2. f.code[i].bb # b
  <2> SUFFICES ASSUME f.code[i].bb = b PROVE FALSE
    OBVIOUS
  <2> DEFINE G == FloodIn(f.succ, {b}, {f.code[i].bb})
  <2>1. Reaches(f, b, {f.code[i].bb}, G)
    BY FloodIs
  <2>2. G \subseteq {}
    <3> HIDE DEF G
    <3> QED
      BY <2>1 DEF Reaches
  <2> QED
    BY <1>1, <2>2
<1>3. \E k \in Instrs(f) : i # 0 /\ \E n \in DOMAIN f.code[k].args : i = f.code[k].args[n].var
  <2>1. CASE \E m \in InBlock(f, x) \ PhisOf(f, x) : i \in Used(f.code[m].args)
    <3>1. PICK m \in InBlock(f, x) \ PhisOf(f, x) : i \in Used(f.code[m].args)
      BY <2>1
    <3>2. m \in Instrs(f) /\ i # 0 /\ \E a \in Range(f.code[m].args) : i = a.var
      BY <3>1 DEF Used, InBlock
    <3> QED
      BY <3>2 DEF Range
  <2>2. CASE i \in ({Incoming(f, m, x).var : m \in phiPreAssign(f, x)} \ {0})
    <3>1. PICK m \in phiPreAssign(f, x) : i = Incoming(f, m, x).var /\ i # 0
      BY <2>2
    <3>2. m \in PhisOf(f, f.code[m].bb) /\ x \in PredsIn(f.succ, f.code[m].bb) /\ m \in Instrs(f)
      BY <3>1, PreAssignIs
    <3>3. \E n \in DOMAIN f.code[m].args : Incoming(f, m, x) = f.code[m].args[n]
      BY <3>2, IncomingIs
    <3> QED
      BY <3>1, <3>2, <3>3
  <2> QED
    BY <1>1, <2>1, <2>2 DEF UsesAt
<1>4. PICK k \in Instrs(f) : i # 0 /\ \E n \in DOMAIN f.code[k].args : i = f.code[k].args[n].var
  BY <1>3
<1>5. PICK n \in DOMAIN f.code[k].args : i = f.code[k].args[n].var
  BY <1>4
<1>6. Arg(f, f.code[k].args[n], ArgWidth(f.code[k], n))
  BY ArgIs
<1> QED
  BY <1>2, <1>4, <1>5, <1>6 DEF Arg

(* An operand that is a constant the printer gets right or a variable that stands for *)
(* its value.                                                                         *)
LEMMA OperandAgrees ==
  ASSUME NEW f, NEW t \in Targets, NEW w \in 1 .. LongBits, NEW a, Arg(f, a, w),
         t = "CPU" /\ w = 1 => a.var # 0 \/ a.bits = 0,
         NEW v \in Patterns(f), NEW c, a.var # 0 => c[a.var] = Rep(t, v[a.var], w)
  PROVE  OperandC(c, a, w) = Rep(t, Operand(v, a), w)
<1>1. CASE a.var # 0
  BY <1>1 DEF OperandC, Operand
<1>2. CASE a.var = 0 /\ ~(t = "CPU" /\ w = 1)
  BY <1>2 DEF OperandC, Operand, ConstantStr, Rep
<1>3. CASE a.var = 0 /\ t = "CPU" /\ w = 1
  <2>1. Signed(0, 1) = 0
    BY DEF Signed, Wrap
  <2> QED
    BY <1>3, <2>1 DEF OperandC, Operand, ConstantStr, Rep
<1> QED
  BY <1>1, <1>2, <1>3

-----------------------------------------------------------------------------
(* Where a block ends *)

Terminates(f, b, i) ==
  /\ TermOf(f, b) = f.code[i] /\ i \in Instrs(f) /\ f.code[i].bb = b /\ f.code[i].kind \in Terminators
  /\ f.code[i].kind # "phi" /\ f.code[i].aw \in 1 .. LongBits
  /\ DOMAIN f.code[i].args = 1 .. Arity(f.code[i])
  /\ f.succ[b] \in Seq(DOMAIN f.succ) /\ Len(f.succ[b]) = Successors(f.code[i])
  /\ f.code[i].kind = "switch" =>
       /\ f.code[i].cases \in Seq(0 .. 2 ^ f.code[i].aw - 1)
       /\ \A m, n \in DOMAIN f.code[i].cases : f.code[i].cases[m] = f.code[i].cases[n] => m = n

(* A block ends in one terminator. *)
LEMMA TermIs ==
  ASSUME NEW f, WellFormed(f), NEW b \in DOMAIN f.succ
  PROVE  \E i : Terminates(f, b, i)
<1> DEFINE T == {j \in InBlock(f, b) : f.code[j].kind \in Terminators}
           Single(i) == /\ T = {i}
                        /\ Len(f.succ[b]) = Successors(f.code[i])
                        /\ f.code[i].kind = "switch" =>
                             /\ f.code[i].cases \in Seq(0 .. 2 ^ f.code[i].aw - 1)
                             /\ \A m, n \in DOMAIN f.code[i].cases : f.code[i].cases[m] = f.code[i].cases[n] => m = n
<1>1. \E i \in InBlock(f, b) : Single(i)
  BY DEF WellFormed
<1>2. PICK i \in InBlock(f, b) : Single(i)
  BY <1>1
<1>3. i \in Instrs(f) /\ f.code[i].bb = b /\ f.code[i].kind \in Terminators /\ f.code[i].kind # "phi"
  BY <1>2 DEF InBlock, Terminators
<1>4. TermOf(f, b) = f.code[i]
  <2> DEFINE j == CHOOSE k \in InBlock(f, b) : f.code[k].kind \in Terminators
  <2>1. j \in T
    BY <1>2, <1>3
  <2>2. j = i
    BY <2>1, <1>2
  <2> QED
    BY <2>2 DEF TermOf
<1>5. f.succ[b] \in Seq(DOMAIN f.succ)
  <2> DEFINE R == Seq(DOMAIN f.succ)
  <2>1. f.succ \in Seq(R)
    BY DEF WellFormed
  <2> HIDE DEF R
  <2>2. f.succ[b] \in R
    BY <2>1
  <2> QED
    BY <2>2 DEF R
<1>6. f.code[i].aw \in 1 .. LongBits /\ DOMAIN f.code[i].args = 1 .. Arity(f.code[i])
  BY <1>3, InstrIs
<1> QED
  BY <1>2, <1>3, <1>4, <1>5, <1>6 DEF Terminates

(* The successor at a position the terminator may choose. *)
Goes(f, b, s) == s \in 0 .. Len(f.succ) /\ (s # 0 => s \in SuccsIn(f.succ, b) /\ s \in DOMAIN f.succ)

LEMMA GoesTo ==
  ASSUME NEW f, WellFormed(f), NEW b \in DOMAIN f.succ, NEW i, Terminates(f, b, i),
         NEW n \in 1 .. Successors(f.code[i])
  PROVE  Goes(f, b, f.succ[b][n])
<1>1. f.succ[b] \in Seq(DOMAIN f.succ) /\ Len(f.succ[b]) = Successors(f.code[i])
  BY DEF Terminates
<1>2. DOMAIN f.succ = 1 .. Len(f.succ) /\ Len(f.succ) \in Nat
  <2> DEFINE R == Seq(DOMAIN f.succ)
  <2>1. f.succ \in Seq(R)
    BY DEF WellFormed
  <2> HIDE DEF R
  <2> QED
    BY <2>1
<1>3. DOMAIN f.succ[b] = 1 .. Successors(f.code[i])
  BY <1>1
<1>4. f.succ[b][n] \in DOMAIN f.succ /\ f.succ[b][n] \in SuccsIn(f.succ, b)
  BY <1>1, <1>3 DEF SuccsIn, Range
<1> QED
  BY <1>2, <1>4 DEF Goes

(* LLVM and the printed block go to a successor, or end. *)
LEMMA NextIs ==
  ASSUME NEW f, WellFormed(f), NEW b \in DOMAIN f.succ, NEW v, NEW c
  PROVE  Goes(f, b, NextBlock(f, v, b)) /\ Goes(f, b, NextBlockC(f, c, b))
<1>1. PICK i : Terminates(f, b, i)
  BY TermIs
<1> DEFINE t == f.code[i]
<1>2. TermOf(f, b) = t /\ t.kind \in Terminators
  BY <1>1 DEF Terminates
<1>3. ASSUME NEW n \in 1 .. Successors(t) PROVE Goes(f, b, f.succ[b][n])
  BY <1>1, <1>3, GoesTo
<1>4. CASE t.kind = "ret"
  <2>1. NextBlock(f, v, b) = 0 /\ NextBlockC(f, c, b) = 0
    BY <1>2, <1>4 DEF NextBlock, NextBlockC
  <2>2. Len(f.succ) \in Nat
    <3> DEFINE R == Seq(DOMAIN f.succ)
    <3>1. f.succ \in Seq(R)
      BY DEF WellFormed
    <3> HIDE DEF R
    <3> QED
      BY <3>1
  <2> QED
    BY <2>1, <2>2 DEF Goes
<1>5. CASE t.kind = "jump"
  <2>1. Successors(t) = 1
    BY <1>5 DEF Successors
  <2>2. NextBlock(f, v, b) = f.succ[b][1] /\ NextBlockC(f, c, b) = f.succ[b][1]
    BY <1>2, <1>5 DEF NextBlock, NextBlockC
  <2> QED
    BY <2>1, <2>2, <1>3
<1>6. CASE t.kind = "br"
  <2>1. Successors(t) = 2
    BY <1>6 DEF Successors
  <2>2. NextBlock(f, v, b) \in {f.succ[b][1], f.succ[b][2]} /\ NextBlockC(f, c, b) \in {f.succ[b][1], f.succ[b][2]}
    BY <1>2, <1>6 DEF NextBlock, NextBlockC
  <2>3. Goes(f, b, f.succ[b][1]) /\ Goes(f, b, f.succ[b][2])
    BY <2>1, <1>3
  <2> QED
    BY <2>2, <2>3
<1>7. CASE t.kind = "switch"
  <2>1. Successors(t) = 1 + Len(t.cases)
    BY <1>7 DEF Successors
  <2>2. DOMAIN t.cases = 1 .. Len(t.cases) /\ Len(t.cases) \in Nat
    BY <1>1, <1>7 DEF Terminates
  <2> DEFINE H == {n \in DOMAIN t.cases : t.cases[n] = Operand(v, t.args[1])}
             K == {n \in DOMAIN t.cases : /\ HasCaseDest(f, b, n)
                                          /\ ConstantStr(t.cases[n], t.aw) = OperandC(c, t.args[1], t.aw)}
             Pick(S) == IF S = {} THEN 1 ELSE 1 + CHOOSE n \in S : TRUE
  <2>3. NextBlock(f, v, b) = f.succ[b][Pick(H)] /\ NextBlockC(f, c, b) = f.succ[b][Pick(K)]
    BY <1>2, <1>7 DEF NextBlock, NextBlockC
  <2>4. ASSUME NEW S \in SUBSET (DOMAIN t.cases) PROVE Pick(S) \in 1 .. Successors(t)
    <3>1. CASE S = {}
      BY <3>1, <2>1, <2>2
    <3>2. CASE S # {}
      <4>1. (CHOOSE n \in S : TRUE) \in 1 .. Len(t.cases)
        BY <3>2, <2>2
      <4> QED
        BY <3>2, <4>1, <2>1, <2>2
    <3> QED
      BY <3>1, <3>2
  <2> HIDE DEF Pick
  <2>5. Pick(H) \in 1 .. Successors(t) /\ Pick(K) \in 1 .. Successors(t)
    BY <2>4
  <2> QED
    BY <2>3, <2>5, <1>3
<1> QED
  BY <1>2, <1>4, <1>5, <1>6, <1>7 DEF Terminators

-----------------------------------------------------------------------------
(* A block keeps the agreement *)

(* What holds where a block is entered; the printed variables that hold the LLVM *)
(* values of their instructions after those up to k.                             *)
AgreesAt(f, t, b, p, v, c) ==
  \A i \in Instrs(f) :
    IF i \in PhisOf(f, b) THEN c[i] = Rep(t, Operand(v, Incoming(f, i, p)), f.code[i].w)
    ELSE LiveAt(f, b, i) => c[i] = Rep(t, v[i], f.code[i].w)

Known(f, t, b, a, d, k) ==
  \A m \in Instrs(f) : m \in PhisOf(f, b) \/ (m \in Plain(f, b) /\ m <= k) \/ LiveAt(f, b, m)
                         => d[m] = Rep(t, a[m], f.code[m].w)

(* That is all an instruction reads. *)
LEMMA ArgHolds ==
  ASSUME NEW f, WellFormed(f), NEW t \in Targets, NEW b \in DOMAIN f.succ, NEW a, NEW d,
         NEW i \in InBlock(f, b) \ PhisOf(f, b), Known(f, t, b, a, d, i - 1), NEW n \in DOMAIN f.code[i].args,
         f.code[i].args[n].var # 0
  PROVE  /\ d[f.code[i].args[n].var] = Rep(t, a[f.code[i].args[n].var], ArgWidth(f.code[i], n))
         /\ f.code[i].args[n].var \in Instrs(f)
<1> DEFINE ins == f.code[i]
           m == ins.args[n].var
<1>1. i \in Instrs(f) /\ ins.bb = b /\ ins.kind # "phi"
  BY DEF InBlock, PhisOf
<1>2. m \in Instrs(f) /\ f.code[m].kind \notin Terminators /\ f.code[m].w = ArgWidth(ins, n)
  <2>1. Arg(f, ins.args[n], ArgWidth(ins, n))
    BY <1>1, ArgIs
  <2> QED
    BY <2>1 DEF Arg
<1>3. ins.args[n] \in Range(ins.args)
  BY DEF Range
<1>4. Instrs(f) = 1 .. Len(f.code) /\ Len(f.code) \in Nat
  BY <1>1, InstrIs
<1>5. CASE m \in InBlock(f, b)
  <2>1. m < i \/ f.code[m].kind = "phi"
    BY <1>1, <1>3, <1>5 DEF WellFormed
  <2>2. m \in PhisOf(f, b) \/ (m \in Plain(f, b) /\ m <= i - 1)
    BY <1>1, <1>2, <1>4, <1>5, <2>1 DEF PhisOf, Plain
  <2> QED
    BY <1>2, <2>2 DEF Known
<1>6. CASE m \notin InBlock(f, b)
  <2>1. m \in Used(ins.args)
    BY <1>3 DEF Used
  <2>2. m \in UsesAt(f, b)
    BY <2>1 DEF UsesAt
  <2>3. f.code[m].bb # b
    BY <1>2, <1>6 DEF InBlock
  <2>4. LiveAt(f, b, m)
    BY <2>2, <2>3, UsedIsLive
  <2> QED
    BY <1>2, <2>4 DEF Known
<1> QED
  BY <1>5, <1>6, <1>2

(* Its operands agree, also after variables it does not read have changed. *)
Unchanged(ins, n, d, e) == ins.args[n].var # 0 => e[ins.args[n].var] = d[ins.args[n].var]
OperandFits(t, ins, n, a, e) ==
  OperandC(e, ins.args[n], ArgWidth(ins, n)) = Rep(t, Operand(a, ins.args[n]), ArgWidth(ins, n))

LEMMA OperandHolds ==
  ASSUME NEW f, WellFormed(f), NEW t \in Targets, Printable(f, t), NEW b \in DOMAIN f.succ,
         NEW a \in Patterns(f), NEW d, NEW e,
         NEW i \in InBlock(f, b) \ PhisOf(f, b), Known(f, t, b, a, d, i - 1), NEW n \in DOMAIN f.code[i].args,
         Unchanged(f.code[i], n, d, e)
  PROVE  OperandFits(t, f.code[i], n, a, e)
<1> DEFINE ins == f.code[i]
           w == ArgWidth(ins, n)
           x == ins.args[n]
<1>1. i \in Instrs(f)
  BY DEF InBlock
<1>2. w \in 1 .. LongBits /\ Arg(f, x, w)
  BY <1>1, ArgIs
<1>3. ConstantsAgree(t, ins)
  BY <1>1 DEF Printable
<1>4. t = "CPU" /\ w = 1 => x.var # 0 \/ x.bits = 0
  BY <1>3 DEF ConstantsAgree
<1>5. x.var # 0 => e[x.var] = Rep(t, a[x.var], w)
  BY ArgHolds DEF Unchanged
<1> HIDE DEF ins, w, x
<1>6. OperandC(e, x, w) = Rep(t, Operand(a, x), w)
  BY <1>2, <1>4, <1>5, OperandAgrees
<1> QED
  BY <1>6 DEF ins, w, x, OperandFits

(* What is assigned to its variable is its value. *)
LEMMA StepAgrees ==
  ASSUME NEW f, WellFormed(f), NEW t \in Targets, Printable(f, t), NEW b \in DOMAIN f.succ,
         NEW a \in Patterns(f), NEW d, NEW inp, NEW i \in Plain(f, b), a[i] = Computed(f, a, i, inp),
         ~Poison(f.code[i], Operands(a, f.code[i])), Known(f, t, b, a, d, i - 1)
  PROVE  Assigned(f, t, d, b, i, inp) = Rep(t, a[i], f.code[i].w)
<1> DEFINE ins == f.code[i]
           X == Operands(a, ins)
           Y == OperandsC(d, ins)
<1>1. i \in Instrs(f) /\ ins.kind \in Kinds \cup {"in"} /\ ins.kind # "phi" /\ ins.kind \notin Terminators
  BY PlainIs
<1>2. CASE ins.kind = "in"
  BY <1>2 DEF Computed, Assigned
<1>3. CASE ins.kind # "in"
  <2>1. ins.kind \in Kinds
    BY <1>1, <1>3
  <2>2. Sized(ins) /\ DOMAIN ins.args = 1 .. Arity(ins)
    BY <1>1, InstrIs
  <2>3. Faithful(t, ins)
    BY <1>1 DEF Printable
  <2>4. i \in InBlock(f, b) \ PhisOf(f, b)
    BY <1>1 DEF Plain, PhisOf
  <2>5. ASSUME NEW n \in 1 .. Arity(ins)
        PROVE  StandsFor(t, ArgWidth(ins, n), X[n], Y[n]) /\ Y[n] = Rep(t, X[n], ArgWidth(ins, n))
    <3> DEFINE w == ArgWidth(ins, n)
    <3>1. X[n] = Operand(a, ins.args[n]) /\ Y[n] = OperandC(d, ins.args[n], w)
      BY <2>2 DEF Operands, OperandsC
    <3>2. Y[n] = Rep(t, X[n], w)
      <4>1. n \in DOMAIN f.code[i].args
        BY <2>2
      <4>2. OperandFits(t, f.code[i], n, a, d)
        <5>1. Unchanged(f.code[i], n, d, d)
          BY DEF Unchanged
        <5> QED
          BY <2>4, <4>1, <5>1, OperandHolds
      <4> QED
        BY <3>1, <4>2 DEF OperandFits
    <3>3. w \in 1 .. LongBits /\ Arg(f, ins.args[n], w)
      BY <1>1, <2>2, ArgIs
    <3>4. X[n] \in 0 .. 2 ^ w - 1
      <4> HIDE DEF w, X
      <4> QED
        BY <3>1, <3>3, OperandType
    <3>5. StandsFor(t, w, X[n], Rep(t, X[n], w))
      <4> HIDE DEF w, X
      <4> QED
        BY <3>3, <3>4, RepStands
    <3> QED
      BY <3>2, <3>5
  <2> HIDE DEF X, Y
  <2>6. OperandsFor(t, ins, X, Y)
    BY <2>5 DEF OperandsFor
  <2>7. ~Poison(ins, X)
    BY DEF X
  <2>8. Computes(t, ins, X, Y)
    <3> HIDE DEF ins
    <3> QED
      BY <2>1, <2>2, <2>3, <2>6, <2>7, ExpressionComputes
  <2>9. Assigned(f, t, d, b, i, inp) = Signed(Expression(ins.kind, Y), TypeBits(t, ins.w))
    BY <1>1, <1>3 DEF Assigned, Y
  <2>10. a[i] = Value(ins, X)
    BY <1>3 DEF Computed, X
  <2> QED
    BY <2>8, <2>9, <2>10 DEF Computes
<1> QED
  BY <1>2, <1>3

(* The instructions of a block. *)
LEMMA PlainAgrees ==
  ASSUME NEW f, WellFormed(f), NEW t \in Targets, Printable(f, t), NEW b \in DOMAIN f.succ, NEW p,
         NEW v \in Patterns(f), NEW c, AgreesAt(f, t, b, p, v, c), NEW inp,
         NEW a, AfterIs(f, v, p, b, inp, a), ~Undefined(f, a, b),
         NEW g, AssignIs(f, t, c, b, inp, Plain(f, b), g), Len(f.code) \in Nat, Instrs(f) = 1 .. Len(f.code)
  PROVE  Known(f, t, b, a, g[Len(f.code)], Len(f.code))
<1> DEFINE N == Len(f.code)
           P == {k \in 0 .. N : Known(f, t, b, a, g[k], k)}
<1>1. \A k \in 0 .. N : \A j \in Instrs(f) :
        g[k][j] = IF j \in Plain(f, b) /\ j <= k THEN Assigned(f, t, g[j - 1], b, j, inp) ELSE c[j]
  BY DEF AssignIs
<1>2. a \in Patterns(f)
  BY DEF AfterIs
<1>3. 0 \in P
  <2>1. ASSUME NEW m \in Instrs(f), m \in PhisOf(f, b) \/ (m \in Plain(f, b) /\ m <= 0) \/ LiveAt(f, b, m)
        PROVE  g[0][m] = Rep(t, a[m], f.code[m].w)
    <3>1. m \in 1 .. N /\ ~(m <= 0)
      OBVIOUS
    <3>2. g[0][m] = c[m]
      BY <1>1, <3>1
    <3>3. CASE m \in PhisOf(f, b)
      <4>1. a[m] = Operand(v, Incoming(f, m, p))
        BY <3>3 DEF AfterIs
      <4> QED
        BY <3>2, <3>3, <4>1 DEF AgreesAt
    <3>4. CASE m \notin PhisOf(f, b)
      <4>1. LiveAt(f, b, m)
        BY <2>1, <3>1, <3>4
      <4>2. f.code[m].bb # b
        BY <4>1, LiveIsValue
      <4>3. m \notin PhisOf(f, b) \cup Plain(f, b)
        BY <4>2 DEF PhisOf, Plain, InBlock
      <4>4. a[m] = v[m]
        BY <4>3 DEF AfterIs
      <4> QED
        BY <3>2, <3>4, <4>1, <4>4 DEF AgreesAt
    <3> QED
      BY <3>3, <3>4
  <2> QED
    BY <2>1 DEF Known
<1>4. ASSUME NEW k \in 1 .. N, k - 1 \in P PROVE k \in P
  <2>1. Known(f, t, b, a, g[k - 1], k - 1) /\ k - 1 \in 0 .. N /\ k \in 0 .. N
    BY <1>4
  <2>2. ASSUME NEW m \in Instrs(f), m \in PhisOf(f, b) \/ (m \in Plain(f, b) /\ m <= k) \/ LiveAt(f, b, m)
        PROVE  g[k][m] = Rep(t, a[m], f.code[m].w)
    <3>1. CASE m = k /\ m \in Plain(f, b)
      <4>1. g[k][m] = Assigned(f, t, g[m - 1], b, m, inp)
        BY <1>1, <2>1, <3>1
      <4>2. a[m] = Computed(f, a, m, inp)
        BY <3>1 DEF AfterIs
      <4>3. ~Poison(f.code[m], Operands(a, f.code[m]))
        BY <3>1 DEF Undefined
      <4>4. Known(f, t, b, a, g[m - 1], m - 1)
        BY <2>1, <3>1
      <4>5. Assigned(f, t, g[m - 1], b, m, inp) = Rep(t, a[m], f.code[m].w)
        BY <1>2, <3>1, <4>2, <4>3, <4>4, StepAgrees
      <4> QED
        BY <4>1, <4>5
    <3>2. CASE ~(m = k /\ m \in Plain(f, b))
      <4>1. m \in Plain(f, b) /\ m <= k <=> m \in Plain(f, b) /\ m <= k - 1
        BY <3>2
      <4>2. g[k][m] = g[k - 1][m]
        BY <1>1, <2>1, <4>1
      <4>3. g[k - 1][m] = Rep(t, a[m], f.code[m].w)
        BY <2>1, <2>2, <4>1 DEF Known
      <4> QED
        BY <4>2, <4>3
    <3> QED
      BY <3>1, <3>2
  <2>3. Known(f, t, b, a, g[k], k)
    BY <2>2 DEF Known
  <2> QED
    BY <2>1, <2>3
<1>5. \A k \in 0 .. N : k \in P
  <2>1. \A k \in 1 .. N : k - 1 \in P => k \in P
    BY <1>4
  <2>2. N \in Nat
    OBVIOUS
  <2> HIDE DEF P, N
  <2> QED
    BY <1>3, <2>1, <2>2, UpTo
<1> QED
  BY <1>5

(* The assignments to the phis behind the block. *)
LEMMA PhisAgree ==
  ASSUME NEW f, WellFormed(f), NEW t \in Targets, Printable(f, t), NEW b \in DOMAIN f.succ, NEW inp,
         NEW a \in Patterns(f), NEW d, Known(f, t, b, a, d, Len(f.code)),
         NEW h, AssignIs(f, t, d, b, inp, phiPreAssign(f, b), h), Len(f.code) \in Nat, Instrs(f) = 1 .. Len(f.code),
         NEW i \in phiPreAssign(f, b)
  PROVE  h[Len(f.code)][i] = Rep(t, Operand(a, Incoming(f, i, b)), f.code[i].w)
<1> DEFINE N == Len(f.code)
           x == Incoming(f, i, b)
           w == f.code[i].w
<1>1. \A k \in 0 .. N : \A j \in Instrs(f) :
        h[k][j] = IF j \in phiPreAssign(f, b) /\ j <= k THEN Assigned(f, t, h[j - 1], b, j, inp) ELSE d[j]
  BY DEF AssignIs
<1>2. /\ i \in Instrs(f) /\ f.code[i].kind = "phi" /\ i \in PhisOf(f, f.code[i].bb)
      /\ b \in PredsIn(f.succ, f.code[i].bb)
  BY PreAssignIs
<1>3. w \in 1 .. LongBits /\ Arg(f, x, w)
  BY <1>2, IncomingIs
<1>4. h[N][i] = OperandC(h[i - 1], x, w)
  <2>1. N \in 0 .. N /\ i <= N
    BY <1>2
  <2>2. h[N][i] = Assigned(f, t, h[i - 1], b, i, inp)
    BY <1>1, <1>2, <2>1
  <2> QED
    BY <1>2, <2>2 DEF Assigned
<1>5. x.var # 0 => h[i - 1][x.var] = Rep(t, a[x.var], w)
  <2> SUFFICES ASSUME x.var # 0 PROVE h[i - 1][x.var] = Rep(t, a[x.var], w)
    OBVIOUS
  <2> DEFINE m == x.var
  <2>1. m \in Instrs(f) /\ f.code[m].kind \notin Terminators /\ f.code[m].w = w
    BY <1>3 DEF Arg
  <2>2. ~(m \in phiPreAssign(f, b) /\ m <= i - 1)
    <3>1. PhisInOrder(f, b)
      BY DEF Printable
    <3>2. m \in phiPreAssign(f, b) => ~(m < i)
      BY <3>1 DEF PhisInOrder
    <3> QED
      BY <1>2, <2>1, <3>2
  <2>3. h[i - 1][m] = d[m]
    <3>1. i - 1 \in 0 .. N
      BY <1>2
    <3> HIDE DEF m
    <3> QED
      BY <1>1, <2>1, <2>2, <3>1
  <2>4. m \in PhisOf(f, b) \/ m \in Plain(f, b) \/ LiveAt(f, b, m)
    <3>1. CASE f.code[m].bb = b
      BY <2>1, <3>1 DEF PhisOf, Plain, InBlock
    <3>2. CASE f.code[m].bb # b
      <4>1. m \in UsesAt(f, b)
        BY DEF UsesAt
      <4> QED
        BY <3>2, <4>1, UsedIsLive
    <3> QED
      BY <3>1, <3>2
  <2>5. d[m] = Rep(t, a[m], w)
    <3>1. m <= N
      BY <2>1
    <3> QED
      BY <2>1, <2>4, <3>1 DEF Known
  <2> QED
    BY <2>3, <2>5
<1>6. t = "CPU" /\ w = 1 => x.var # 0 \/ x.bits = 0
  <2>1. \E n \in DOMAIN f.code[i].args : x = f.code[i].args[n] /\ ArgWidth(f.code[i], n) = w
    <3>1. PICK s : i \in PhisOf(f, s) /\ b \in PredsIn(f.succ, s)
      BY <1>2
    <3>2. \E n \in DOMAIN f.code[i].args : Incoming(f, i, b) = f.code[i].args[n]
      BY <3>1, IncomingIs
    <3>3. f.code[i].w = f.code[i].aw
      <4>1. WidthsFit(f.code[i])
        BY <1>2, InstrIs DEF Sized
      <4> QED
        BY <1>2, <4>1 DEF WidthsFit
    <3>4. \A n \in DOMAIN f.code[i].args : ArgWidth(f.code[i], n) = w
      BY <1>2, <3>3 DEF ArgWidth
    <3> QED
      BY <3>2, <3>4
  <2>2. ConstantsAgree(t, f.code[i])
    BY <1>2 DEF Printable
  <2> QED
    BY <2>1, <2>2 DEF ConstantsAgree
<1> HIDE DEF x, w
<1>7. OperandC(h[i - 1], x, w) = Rep(t, Operand(a, x), w)
  BY <1>3, <1>5, <1>6, OperandAgrees
<1> QED
  BY <1>4, <1>7 DEF x, w, N

(* The block's end: c is what the printed block leaves, after d and the assignments to *)
(* phis.                                                                               *)
Ends(f, t, b, a, d, c) ==
  /\ a \in Patterns(f) /\ Known(f, t, b, a, d, Len(f.code))
  /\ \A i \in phiPreAssign(f, b) : c[i] = Rep(t, Operand(a, Incoming(f, i, b)), f.code[i].w)
  /\ \A i \in Instrs(f) \ phiPreAssign(f, b) : c[i] = d[i]

(* The terminator's operands agree. *)
EndsAlike(t, ins, a, c) ==
  /\ OperandC(c, ins.args[1], ins.aw) = Rep(t, Operand(a, ins.args[1]), ins.aw)
  /\ Operand(a, ins.args[1]) \in 0 .. 2 ^ ins.aw - 1

LEMMA EndOperands ==
  ASSUME NEW f, WellFormed(f), NEW t \in Targets, Printable(f, t), NEW b \in DOMAIN f.succ,
         NEW a, NEW d, NEW c, Ends(f, t, b, a, d, c), NEW i, Terminates(f, b, i), f.code[i].kind # "jump"
  PROVE  EndsAlike(t, f.code[i], a, c)
<1> DEFINE ins == f.code[i]
           x == ins.args[1]
<1>1. i \in Instrs(f) /\ ins.bb = b /\ ins.kind \in Terminators /\ TermOf(f, b) = ins
  BY DEF Terminates
<1>2. 1 \in DOMAIN ins.args /\ ArgWidth(ins, 1) = ins.aw
  BY <1>1 DEF Terminates, Terminators, Arity, ArgWidth
<1>3. i \in InBlock(f, b) \ PhisOf(f, b)
  BY <1>1 DEF Terminators, InBlock, PhisOf
<1>4. Known(f, t, b, a, d, i - 1)
  <2>1. Instrs(f) = 1 .. Len(f.code) /\ Len(f.code) \in Nat
    BY <1>1, InstrIs
  <2>2. \A m \in Instrs(f) : m <= i - 1 => m <= Len(f.code)
    BY <1>1, <2>1
  <2> QED
    BY <2>2 DEF Ends, Known
<1>5. ins.aw \in 1 .. LongBits /\ Arg(f, x, ins.aw)
  BY <1>1, <1>2, ArgIs
<1>6. x.var # 0 => c[x.var] = d[x.var]
  <2> SUFFICES ASSUME x.var # 0 PROVE c[x.var] = d[x.var]
    OBVIOUS
  <2>1. x.var \in Instrs(f)
    BY <1>5 DEF Arg
  <2>2. x.var \in Used(ins.args)
    BY <1>2 DEF Used, Range
  <2>3. EdgesSplit(f, b)
    BY DEF Printable
  <2>4. x.var \notin phiPreAssign(f, b)
    BY <1>1, <2>2, <2>3 DEF EdgesSplit
  <2> QED
    BY <2>1, <2>4 DEF Ends
<1>7. a \in Patterns(f)
  BY DEF Ends
<1>8. OperandC(c, f.code[i].args[1], ArgWidth(f.code[i], 1))
        = Rep(t, Operand(a, f.code[i].args[1]), ArgWidth(f.code[i], 1))
  <2>1. PICK n \in DOMAIN f.code[i].args : n = 1
    BY <1>2
  <2>2. Unchanged(f.code[i], n, d, c)
    BY <1>6, <2>1 DEF Unchanged
  <2>3. OperandFits(t, f.code[i], n, a, c)
    <3> HIDE DEF ins, x
    <3> QED
      BY <1>3, <1>4, <1>7, <2>2, OperandHolds
  <2> QED
    BY <2>1, <2>3 DEF OperandFits
<1>9. Operand(a, x) \in 0 .. 2 ^ ins.aw - 1
  <2> HIDE DEF ins, x
  <2> QED
    BY <1>5, <1>7, OperandType
<1> QED
  BY <1>2, <1>8, <1>9 DEF EndsAlike

(* Signed numbers are equal when the bits are. *)
LEMMA SignedApart ==
  ASSUME NEW w \in 1 .. LongBits, NEW x \in 0 .. 2 ^ w - 1, NEW y \in 0 .. 2 ^ w - 1, Signed(x, w) = Signed(y, w)
  PROVE  x = y
<1>1. "HLS" \in Targets
  BY DEF Targets
<1>2. StandsFor("HLS", w, x, Rep("HLS", x, w)) /\ StandsFor("HLS", w, y, Rep("HLS", y, w))
  BY <1>1, RepStands
<1>3. Rep("HLS", x, w) = Rep("HLS", y, w)
  BY DEF Rep
<1> QED
  BY <1>2, <1>3 DEF StandsFor

(* Both leave the block for the same one. *)
LEMMA SameNext ==
  ASSUME NEW f, WellFormed(f), NEW t \in Targets, Printable(f, t), NEW b \in DOMAIN f.succ,
         NEW a, NEW d, NEW c, Ends(f, t, b, a, d, c)
  PROVE  NextBlockC(f, c, b) = NextBlock(f, a, b)
<1>1. PICK i : Terminates(f, b, i)
  BY TermIs
<1> DEFINE ins == f.code[i]
           w == ins.aw
           x == Operand(a, ins.args[1])
           y == OperandC(c, ins.args[1], w)
<1>2. TermOf(f, b) = ins /\ ins.kind \in Terminators /\ w \in 1 .. LongBits /\ i \in Instrs(f)
  BY <1>1 DEF Terminates
<1>3. ins.kind # "jump" => y = Rep(t, x, w) /\ x \in 0 .. 2 ^ w - 1
  BY <1>1, EndOperands DEF EndsAlike
<1>4. CASE ins.kind = "ret"
  BY <1>2, <1>4 DEF NextBlock, NextBlockC
<1>5. CASE ins.kind = "jump"
  BY <1>2, <1>5 DEF NextBlock, NextBlockC
<1>6. CASE ins.kind = "br"
  <2>1. w = 1
    <3>1. WidthsFit(ins)
      BY <1>2, InstrIs DEF Sized
    <3> QED
      BY <1>6, <3>1 DEF WidthsFit
  <2>2. x \in 0 .. 1
    <3>1. 2 ^ 1 = 2
      OBVIOUS
    <3> HIDE DEF x, y, ins
    <3> QED
      BY <1>3, <1>6, <2>1, <3>1
  <2>3. y # 0 <=> x = 1
    <3>1. 2 ^ 1 = 2 /\ 2 ^ (1 - 1) = 1
      OBVIOUS
    <3>2. y = Rep(t, x, 1)
      BY <1>3, <1>6, <2>1
    <3> HIDE DEF x, y
    <3>3. Wrap(x, 1) = x
      BY <2>2, <3>1 DEF Wrap
    <3>4. Signed(x, 1) = IF x = 1 THEN x - 2 ELSE x
      BY <2>2, <3>1, <3>3 DEF Signed
    <3> QED
      BY <2>2, <3>2, <3>4 DEF Rep
  <2>4. NextBlock(f, a, b) = f.succ[b][IF x = 1 THEN 1 ELSE 2]
    BY <1>2, <1>6 DEF NextBlock
  <2>5. NextBlockC(f, c, b) = f.succ[b][IF y # 0 THEN 1 ELSE 2]
    BY <1>2, <1>6, <2>1 DEF NextBlockC
  <2> QED
    BY <2>3, <2>4, <2>5
<1>7. CASE ins.kind = "switch"
  <2> DEFINE D == DOMAIN ins.cases
             H == {n \in D : ins.cases[n] = x}
             K == {n \in D : HasCaseDest(f, b, n) /\ ConstantStr(ins.cases[n], w) = y}
             At(S) == IF S = {} THEN 1 ELSE 1 + CHOOSE n \in S : TRUE
  <2>1. NextBlock(f, a, b) = f.succ[b][At(H)] /\ NextBlockC(f, c, b) = f.succ[b][At(K)]
    BY <1>2, <1>7 DEF NextBlock, NextBlockC
  <2>2. /\ ins.cases \in Seq(0 .. 2 ^ w - 1) /\ \A m, n \in D : ins.cases[m] = ins.cases[n] => m = n
        /\ f.succ[b] \in Seq(DOMAIN f.succ) /\ Len(f.succ[b]) = Successors(ins)
    BY <1>1, <1>7 DEF Terminates
  <2>3. y = Signed(x, w)
    <3>1. ConstantsAgree(t, ins)
      BY <1>2 DEF Printable
    <3>2. ~(t = "CPU" /\ w = 1)
      BY <1>7, <3>1 DEF ConstantsAgree
    <3> QED
      BY <1>3, <1>7, <3>2 DEF Rep
  <2>4. D = 1 .. Len(ins.cases) /\ Len(ins.cases) \in Nat /\ \A n \in D : ins.cases[n] \in 0 .. 2 ^ w - 1
    <3> DEFINE R == 0 .. 2 ^ w - 1
    <3>1. ins.cases \in Seq(R)
      BY <2>2
    <3> HIDE DEF R
    <3>2. D = 1 .. Len(ins.cases) /\ Len(ins.cases) \in Nat /\ \A n \in D : ins.cases[n] \in R
      BY <3>1
    <3> QED
      BY <3>2 DEF R
  <2>5. K = {n \in H : HasCaseDest(f, b, n)}
    <3>1. ASSUME NEW n \in D PROVE Signed(ins.cases[n], w) = Signed(x, w) <=> ins.cases[n] = x
      <4> DEFINE z == ins.cases[n]
      <4>1. z \in 0 .. 2 ^ w - 1 /\ x \in 0 .. 2 ^ w - 1
        BY <1>3, <1>7, <2>4
      <4> HIDE DEF z, x, w
      <4>2. Signed(z, w) = Signed(x, w) => z = x
        BY <1>2, <4>1, SignedApart
      <4> QED
        BY <4>2 DEF z
    <3>2. \A n \in D : ConstantStr(ins.cases[n], w) = y <=> ins.cases[n] = x
      BY <2>3, <3>1 DEF ConstantStr
    <3> QED
      BY <3>2
  <2>6. CASE H = {}
    BY <2>1, <2>5, <2>6
  <2>7. CASE H # {}
    <3>1. PICK n \in D : H = {n}
      BY <2>2, <2>7
    <3>2. At(H) = 1 + n
      BY <3>1
    <3>3. CASE HasCaseDest(f, b, n)
      <4>1. K = H
        BY <2>5, <3>1, <3>3
      <4> HIDE DEF K, H, At
      <4> QED
        BY <2>1, <4>1
    <3>4. CASE ~HasCaseDest(f, b, n)
      <4>1. K = {}
        BY <2>5, <3>1, <3>4
      <4>2. f.succ[b][n + 1] = f.succ[b][1]
        <5> SUFFICES ASSUME f.succ[b][n + 1] # f.succ[b][1] PROVE FALSE
          OBVIOUS
        <5>1. PICK m \in DOMAIN f.succ[b] : f.succ[b][m] = f.succ[b][n + 1] /\ m # n + 1
          BY <3>4 DEF HasCaseDest
        <5>2. DOMAIN f.succ[b] = 1 .. 1 + Len(ins.cases) /\ D = 1 .. Len(ins.cases) /\ Len(ins.cases) \in Nat
          <6>1. Successors(ins) = 1 + Len(ins.cases)
            BY <1>7 DEF Successors
          <6>2. DOMAIN f.succ[b] = 1 .. Len(f.succ[b])
            BY <2>2
          <6> QED
            BY <2>2, <2>4, <6>1, <6>2
        <5>3. n + 1 \in DOMAIN f.succ[b] /\ m \in Int /\ n \in Int
          BY <3>1, <5>1, <5>2
        <5>4. CasesApart(f, b)
          BY DEF Printable
        <5>5. \A q, r \in DOMAIN f.succ[b] : q < r /\ f.succ[b][q] = f.succ[b][r] => f.succ[b][q] = f.succ[b][1]
          BY <1>2, <1>7, <5>4 DEF CasesApart
        <5>6. m < n + 1 \/ n + 1 < m
          BY <5>1, <5>3
        <5> QED
          BY <5>1, <5>3, <5>5, <5>6
      <4>3. At(K) = 1
        BY <4>1
      <4>4. 1 + n = n + 1
        BY <3>1, <2>2
      <4> HIDE DEF At
      <4> QED
        BY <2>1, <3>2, <4>2, <4>3, <4>4
    <3> QED
      BY <3>3, <3>4
  <2> QED
    BY <2>6, <2>7
<1> QED
  BY <1>2, <1>4, <1>5, <1>6, <1>7 DEF Terminators

(* Where the next block is entered they agree again. *)
LEMMA AgreesNext ==
  ASSUME NEW f, WellFormed(f), NEW t \in Targets, Printable(f, t), NEW b \in DOMAIN f.succ,
         NEW a, NEW d, NEW c, Ends(f, t, b, a, d, c), NEW s \in DOMAIN f.succ, s \in SuccsIn(f.succ, b)
  PROVE  AgreesAt(f, t, s, b, a, c)
<1>1. ASSUME NEW i \in PhisOf(f, s) PROVE c[i] = Rep(t, Operand(a, Incoming(f, i, b)), f.code[i].w)
  <2>1. i \in Instrs(f) /\ f.code[i].bb = s /\ f.code[i].kind = "phi"
    BY DEF PhisOf, InBlock
  <2>2. b \in PredsIn(f.succ, s)
    BY DEF PredsIn
  <2>3. Range(f.code[i].from) = PredsIn(f.succ, s)
    BY <2>1 DEF WellFormed
  <2>4. i \in phiPreAssign(f, b)
    BY <2>1, <2>2, <2>3 DEF phiPreAssign
  <2> QED
    BY <2>4 DEF Ends
<1>2. ASSUME NEW i \in Instrs(f), i \notin PhisOf(f, s), LiveAt(f, s, i)
      PROVE  c[i] = Rep(t, a[i], f.code[i].w)
  <2>1. f.code[i].kind \notin Terminators /\ f.code[i].bb # s
    BY <1>2, LiveIsValue
  <2>2. EdgesSplit(f, b)
    BY DEF Printable
  <2>3. i \notin phiPreAssign(f, b)
    BY <1>2, <2>1, <2>2 DEF EdgesSplit
  <2>4. c[i] = d[i]
    BY <2>3 DEF Ends
  <2>5. i \in PhisOf(f, b) \/ i \in Plain(f, b) \/ LiveAt(f, b, i)
    <3>1. CASE f.code[i].bb = b
      BY <2>1, <3>1 DEF PhisOf, Plain, InBlock
    <3>2. CASE f.code[i].bb # b
      BY <1>2, <3>2, LiveBefore
    <3> QED
      BY <3>1, <3>2
  <2>6. i <= Len(f.code)
    BY InstrIs
  <2>7. d[i] = Rep(t, a[i], f.code[i].w)
    BY <2>5, <2>6 DEF Ends, Known
  <2> QED
    BY <2>4, <2>7
<1> QED
  BY <1>1, <1>2 DEF AgreesAt

(* A block leaves values of their types. *)
LEMMA BlockTypes ==
  ASSUME NEW f, WellFormed(f), NEW t \in Targets, NEW b \in DOMAIN f.succ, NEW p, Entered(f, b, p),
         NEW inp, InputsFit(f, b, inp), NEW v \in Patterns(f), NEW c \in Variables(f, t)
  PROVE  /\ AfterBlock(f, v, p, b, inp) \in Patterns(f)
         /\ AfterBlockC(f, t, c, b, inp) \in Variables(f, t)
<1> DEFINE N == Len(f.code)
           d == Assign(f, t, c, b, inp, Plain(f, b))
           e == Assign(f, t, d, b, inp, phiPreAssign(f, b))
<1>1. AfterIs(f, v, p, b, inp, AfterBlock(f, v, p, b, inp))
  BY AfterBlockIs
<1>2. N \in Nat
  BY DEF WellFormed
<1>3. d \in Variables(f, t)
  <2>1. PICK g : AssignIs(f, t, c, b, inp, Plain(f, b), g) /\ d = g[N]
    BY AssignsInTurn
  <2>2. g[N] \in Variables(f, t)
    BY <1>2, <2>1 DEF AssignIs
  <2> QED
    BY <2>1, <2>2
<1> HIDE DEF d
<1>4. e \in Variables(f, t)
  <2>1. PICK h : AssignIs(f, t, d, b, inp, phiPreAssign(f, b), h) /\ e = h[N]
    BY <1>3, AssignsInTurn
  <2>2. h[N] \in Variables(f, t)
    BY <1>2, <2>1 DEF AssignIs
  <2> QED
    BY <2>1, <2>2
<1> QED
  BY <1>1, <1>4 DEF AfterIs, AfterBlockC, d

(* A printed block that starts in agreement ends in agreement. *)
LEMMA BlockAgrees ==
  ASSUME NEW f, WellFormed(f), NEW t \in Targets, Printable(f, t), NEW b \in DOMAIN f.succ, NEW p,
         Entered(f, b, p), NEW inp, InputsFit(f, b, inp), NEW v \in Patterns(f), NEW c \in Variables(f, t),
         AgreesAt(f, t, b, p, v, c), ~Undefined(f, AfterBlock(f, v, p, b, inp), b)
  PROVE  \E d : Ends(f, t, b, AfterBlock(f, v, p, b, inp), d, AfterBlockC(f, t, c, b, inp))
<1> DEFINE N == Len(f.code)
           a == AfterBlock(f, v, p, b, inp)
           d == Assign(f, t, c, b, inp, Plain(f, b))
           e == Assign(f, t, d, b, inp, phiPreAssign(f, b))
<1>1. AfterIs(f, v, p, b, inp, a)
  BY AfterBlockIs
<1>2. N \in Nat /\ Instrs(f) = 1 .. N
  BY DEF WellFormed, Instrs
<1>3. a \in Patterns(f) /\ ~Undefined(f, a, b)
  BY <1>1 DEF AfterIs
<1> HIDE DEF a
<1>4. PICK g : AssignIs(f, t, c, b, inp, Plain(f, b), g) /\ d = g[N]
  BY AssignsInTurn
<1>5. d \in Variables(f, t)
  BY <1>2, <1>4 DEF AssignIs
<1>6. Known(f, t, b, a, d, N)
  <2>1. Known(f, t, b, a, g[N], N)
    BY <1>1, <1>2, <1>3, <1>4, PlainAgrees
  <2> QED
    BY <1>4, <2>1
<1> HIDE DEF d
<1>7. PICK h : AssignIs(f, t, d, b, inp, phiPreAssign(f, b), h) /\ e = h[N]
  BY <1>5, AssignsInTurn
<1>8. ASSUME NEW i \in phiPreAssign(f, b)
      PROVE  e[i] = Rep(t, Operand(a, Incoming(f, i, b)), f.code[i].w)
  <2>1. h[N][i] = Rep(t, Operand(a, Incoming(f, i, b)), f.code[i].w)
    BY <1>2, <1>3, <1>6, <1>7, PhisAgree
  <2> QED
    BY <1>7, <2>1
<1>9. ASSUME NEW i \in Instrs(f) \ phiPreAssign(f, b) PROVE e[i] = d[i]
  <2>1. N \in 0 .. N
    BY <1>2
  <2>2. h[N][i] = d[i]
    BY <1>7, <2>1 DEF AssignIs
  <2> QED
    BY <1>7, <2>2
<1>10. AfterBlockC(f, t, c, b, inp) = e
  BY DEF AfterBlockC, d
<1> HIDE DEF e
<1>11. Ends(f, t, b, a, d, e)
  BY <1>3, <1>6, <1>8, <1>9 DEF Ends
<1> QED
  BY <1>10, <1>11 DEF a

-----------------------------------------------------------------------------
(* Both functions, side by side *)

(* A block with phis was entered from a block before it, and the printed function of a *)
(* printable one is at the same block with the same values.                            *)
Inv == /\ WellFormed(fn) /\ target \in Targets
       /\ vals \in Patterns(fn) /\ vars \in Variables(fn, target)
       /\ bb \in 0 .. Len(fn.succ) /\ prev \in 0 .. Len(fn.succ) /\ cbb \in 0 .. Len(fn.succ)
       /\ bb # 0 => Entered(fn, bb, prev)
       /\ Printable(fn, target) => /\ cbb = bb /\ result.llvm = result.c
                                   /\ bb # 0 => AgreesAt(fn, target, bb, prev, vals, vars)

(* Blocks are numbered. *)
LEMMA BlocksAre ==
  ASSUME NEW f, WellFormed(f)
  PROVE  DOMAIN f.succ = 1 .. Len(f.succ) /\ Len(f.succ) \in Nat \ {0}
<1> DEFINE R == Seq(DOMAIN f.succ)
<1>1. f.succ \in Seq(R) /\ f.succ # <<>>
  BY DEF WellFormed
<1> HIDE DEF R
<1> QED
  BY <1>1

(* Zero is the value and the variable everything starts with. *)
LEMMA ZeroIs ==
  ASSUME NEW t \in Targets, NEW w \in 1 .. LongBits
  PROVE  0 \in 0 .. 2 ^ w - 1 /\ Rep(t, 0, w) = 0 /\ Fits(0, TypeBits(t, w))
<1>1. w \in Nat \ {0} /\ TypeBits(t, w) \in Nat \ {0}
  BY TypeBitsIs
<1>2. 2 ^ w \in Nat \ {0} /\ 2 ^ (w - 1) \in Nat \ {0}
  BY <1>1, HalfOf
<1>3. Wrap(0, w) = 0
  BY <1>2 DEF Wrap
<1>4. Signed(0, w) = 0
  BY <1>2, <1>3 DEF Signed
<1>5. Rep(t, 0, w) = 0
  BY <1>4 DEF Rep
<1>6. Fits(0, TypeBits(t, w))
  <2> DEFINE T == TypeBits(t, w)
  <2>1. 2 ^ (T - 1) \in Nat \ {0}
    BY <1>1, HalfOf
  <2> QED
    BY <2>1 DEF Fits
<1> QED
  BY <1>2, <1>5, <1>6

(* Both start at the entry block, with nothing computed. *)
LEMMA InitInv ==
  ASSUME Init
  PROVE  Inv
<1>1. WellFormed(fn) /\ target \in Targets
  BY ProgramsAssumption DEF Init, Targets
<1>2. 1 \in DOMAIN fn.succ /\ Len(fn.succ) \in Nat /\ DOMAIN fn.succ = 1 .. Len(fn.succ)
  BY <1>1, BlocksAre
<1>3. bb = 1 /\ prev = 0 /\ cbb = 1 /\ result = None
      /\ vals = [i \in Instrs(fn) |-> 0] /\ vars = [i \in Instrs(fn) |-> 0]
  BY DEF Init, Instrs
<1>4. PhisOf(fn, 1) = {}
  <2> SUFFICES ASSUME NEW i \in PhisOf(fn, 1) PROVE FALSE
    OBVIOUS
  <2>1. i \in Instrs(fn) /\ fn.code[i].kind = "phi" /\ fn.code[i].bb = 1
    BY DEF PhisOf, InBlock
  <2>2. /\ fn.code[i].from \in Seq(DOMAIN fn.succ) \ {<<>>} /\ Range(fn.code[i].from) = PredsIn(fn.succ, 1)
        /\ PredsIn(fn.succ, 1) = {}
    BY <1>1, <2>1 DEF WellFormed
  <2>3. 1 \in DOMAIN fn.code[i].from
    <3> DEFINE R == DOMAIN fn.succ
    <3> HIDE DEF R
    <3>1. fn.code[i].from \in Seq(R) \ {<<>>}
      BY <2>2 DEF R
    <3> QED
      BY <3>1
  <2> QED
    BY <2>2, <2>3 DEF Range
<1>5. \A i \in Instrs(fn) : /\ 0 \in 0 .. 2 ^ fn.code[i].w - 1 /\ Rep(target, 0, fn.code[i].w) = 0
                            /\ Fits(0, TypeBits(target, fn.code[i].w))
  <2> SUFFICES ASSUME NEW i \in Instrs(fn)
               PROVE  /\ 0 \in 0 .. 2 ^ fn.code[i].w - 1 /\ Rep(target, 0, fn.code[i].w) = 0
                      /\ Fits(0, TypeBits(target, fn.code[i].w))
    OBVIOUS
  <2> DEFINE w == fn.code[i].w
  <2>1. w \in 1 .. LongBits
    BY <1>1, InstrIs
  <2> HIDE DEF w
  <2>2. 0 \in 0 .. 2 ^ w - 1 /\ Rep(target, 0, w) = 0 /\ Fits(0, TypeBits(target, w))
    BY <1>1, <2>1, ZeroIs
  <2> QED
    BY <2>2 DEF w
<1>6. vals \in Patterns(fn) /\ vars \in Variables(fn, target)
  <2>1. \A i \in Instrs(fn) : vals[i] = 0 /\ vars[i] = 0
    BY <1>3
  <2> QED
    BY <1>3, <1>5, <2>1 DEF Patterns, Variables
<1>7. AgreesAt(fn, target, bb, prev, vals, vars)
  <2>1. \A i \in Instrs(fn) : i \notin PhisOf(fn, bb) /\ vals[i] = 0 /\ vars[i] = 0
    BY <1>3, <1>4
  <2> QED
    BY <1>5, <2>1 DEF AgreesAt
<1>8. Entered(fn, bb, prev)
  BY <1>3, <1>4 DEF Entered
<1>9. bb \in 0 .. Len(fn.succ) /\ prev \in 0 .. Len(fn.succ) /\ cbb \in 0 .. Len(fn.succ)
  BY <1>2, <1>3
<1>10. result.llvm = result.c
  BY <1>3 DEF None
<1> QED
  BY <1>1, <1>3, <1>6, <1>7, <1>8, <1>9, <1>10 DEF Inv

(* Running a block keeps them together. *)
LEMMA RunBlockInv ==
  ASSUME Inv, RunBlock
  PROVE  Inv'
<1>1. bb # 0 /\ cbb = bb /\ UNCHANGED <<fn, target>>
  BY DEF RunBlock
<1> DEFINE v(inp) == AfterBlock(fn, vals, prev, bb, inp)
           c(inp) == AfterBlockC(fn, target, vars, bb, inp)
           t == TermOf(fn, bb)
           Stopped == bb' = 0 /\ cbb' = 0 /\ UNCHANGED <<prev, vals, vars, result>>
           Ran(inp) == /\ vals' = v(inp) /\ vars' = c(inp) /\ prev' = bb
                       /\ bb' = NextBlock(fn, v(inp), bb) /\ cbb' = NextBlockC(fn, c(inp), bb)
                       /\ result' = IF t.kind = "ret"
                                    THEN [llvm |-> Rep(target, Operand(v(inp), t.args[1]), t.aw),
                                          c    |-> OperandC(c(inp), t.args[1], t.aw)]
                                    ELSE None
<1>2. PICK inp \in [Inputs -> 0 .. 2 ^ LongBits - 1] :
        /\ \A i \in Inputs : inp[i] < 2 ^ fn.code[i].w
        /\ IF Undefined(fn, v(inp), bb) THEN Stopped ELSE Ran(inp)
  BY DEF RunBlock
<1>3. WellFormed(fn) /\ target \in Targets /\ vals \in Patterns(fn) /\ vars \in Variables(fn, target)
  BY DEF Inv
<1>4. bb \in DOMAIN fn.succ /\ DOMAIN fn.succ = 1 .. Len(fn.succ) /\ Len(fn.succ) \in Nat
  <2>1. DOMAIN fn.succ = 1 .. Len(fn.succ) /\ Len(fn.succ) \in Nat
    BY <1>3, BlocksAre
  <2> QED
    BY <1>1, <2>1 DEF Inv
<1>5. Entered(fn, bb, prev)
  BY <1>1 DEF Inv
<1>6. InputsFit(fn, bb, inp)
  <2>1. 2 ^ LongBits \in Int
    BY WidthAssumption
  <2>2. ASSUME NEW i \in Plain(fn, bb), fn.code[i].kind = "in" PROVE inp[i] \in 0 .. 2 ^ fn.code[i].w - 1
    <3>1. i \in Inputs
      BY <2>2 DEF Inputs
    <3>2. inp[i] \in 0 .. 2 ^ LongBits - 1 /\ inp[i] < 2 ^ fn.code[i].w
      BY <1>2, <3>1
    <3>3. fn.code[i].w \in 1 .. LongBits
      BY <1>3, PlainIs, InstrIs
    <3>4. 2 ^ fn.code[i].w \in Nat
      <4> DEFINE w == fn.code[i].w
      <4>1. w \in Nat \ {0}
        BY <3>3
      <4> HIDE DEF w
      <4>2. 2 ^ w \in Nat
        BY <4>1, HalfOf
      <4> QED
        BY <4>2 DEF w
    <3> QED
      BY <2>1, <3>2, <3>4
  <2> QED
    BY <2>2 DEF InputsFit
<1> DEFINE a == v(inp)
           d == c(inp)
<1>7. a \in Patterns(fn) /\ d \in Variables(fn, target)
  BY <1>3, <1>4, <1>5, <1>6, BlockTypes
<1>8. CASE Undefined(fn, a, bb)
  <2>1. Stopped
    BY <1>2, <1>8
  <2>2. 0 \in 0 .. Len(fn.succ)
    BY <1>4
  <2> QED
    BY <1>1, <2>1, <2>2 DEF Inv
<1>9. CASE ~Undefined(fn, a, bb)
  <2>1. Ran(inp)
    BY <1>2, <1>9
  <2>2. Printable(fn, target) => \E e : Ends(fn, target, bb, a, e, d)
    <3> SUFFICES ASSUME Printable(fn, target) PROVE \E e : Ends(fn, target, bb, a, e, d)
      OBVIOUS
    <3>1. AgreesAt(fn, target, bb, prev, vals, vars)
      BY <1>1 DEF Inv
    <3> QED
      BY <1>3, <1>4, <1>5, <1>6, <1>9, <3>1, BlockAgrees
  <2> HIDE DEF v, c
  <2>3. Goes(fn, bb, bb') /\ Goes(fn, bb, cbb')
    BY <1>3, <1>4, <2>1, NextIs
  <2>4. bb' \in 0 .. Len(fn.succ) /\ cbb' \in 0 .. Len(fn.succ) /\ prev' \in 0 .. Len(fn.succ)
    BY <1>4, <2>1, <2>3 DEF Goes
  <2>5. bb' # 0 => Entered(fn, bb', prev')
    BY <1>4, <2>1, <2>3 DEF Goes, Entered, PredsIn
  <2>6. ASSUME Printable(fn, target)
        PROVE  /\ cbb' = bb' /\ result'.llvm = result'.c
               /\ bb' # 0 => AgreesAt(fn, target, bb', prev', vals', vars')
    <3>1. PICK e : Ends(fn, target, bb, a, e, d)
      BY <2>2, <2>6
    <3>2. cbb' = bb'
      BY <1>3, <1>4, <2>1, <2>6, <3>1, SameNext
    <3>3. bb' # 0 => AgreesAt(fn, target, bb', prev', vals', vars')
      BY <1>3, <1>4, <2>1, <2>3, <2>6, <3>1, AgreesNext DEF Goes
    <3>4. result'.llvm = result'.c
      <4>1. CASE t.kind # "ret"
        BY <2>1, <4>1 DEF None
      <4>2. CASE t.kind = "ret"
        <5>1. PICK i : Terminates(fn, bb, i)
          BY <1>3, <1>4, TermIs
        <5>2. t = fn.code[i]
          BY <5>1 DEF Terminates
        <5>3. OperandC(d, t.args[1], t.aw) = Rep(target, Operand(a, t.args[1]), t.aw)
          <6>1. fn.code[i].kind # "jump"
            BY <4>2, <5>2
          <6>2. EndsAlike(target, fn.code[i], a, d)
            <7> HIDE DEF a, d
            <7> QED
              BY <1>3, <1>4, <2>6, <3>1, <5>1, <6>1, EndOperands
          <6> QED
            BY <5>2, <6>2 DEF EndsAlike
        <5> QED
          BY <2>1, <4>2, <5>3
      <4> QED
        BY <4>1, <4>2
    <3> QED
      BY <3>2, <3>3, <3>4
  <2> QED
    BY <1>1, <1>3, <1>7, <2>1, <2>4, <2>5, <2>6 DEF Inv
<1> QED
  BY <1>8, <1>9

(* The invariant holds. *)
THEOREM Invariant == Spec => []Inv
<1>1. Init => Inv
  BY InitInv
<1>2. Inv /\ [Next]_state => Inv'
  <2>1. ASSUME Inv, UNCHANGED state PROVE Inv'
    BY <2>1 DEF Inv, state
  <2> QED
    BY <2>1, RunBlockInv DEF Next
<1> QED
  BY <1>1, <1>2, PTL DEF Spec

(* LLVM values are bit patterns of their width, and every C variable fits the type *)
(* getLLVMTypeStr declares it with.                                                *)
THEOREM TypeCorrect == Spec => []TypeOK
<1>1. Inv => TypeOK
  BY DEF Inv, TypeOK, Patterns, Variables, Fits, Instrs
<1> QED
  BY <1>1, Invariant, PTL

(* The printed function of a printable one takes the branches the LLVM function takes: *)
(* gotos, the tests of a br, the cases of a switch.                                    *)
THEOREM BranchesAreTaken == Spec => [](Printable(fn, target) => SamePath)
<1>1. Inv => (Printable(fn, target) => SamePath)
  BY DEF Inv, SamePath
<1> QED
  BY <1>1, Invariant, PTL

(* ... and returns what the LLVM function returns. *)
THEOREM ResultsAreEqual == Spec => [](Printable(fn, target) => SameResult)
<1>1. Inv => (Printable(fn, target) => SameResult)
  BY DEF Inv, SameResult
<1> QED
  BY <1>1, Invariant, PTL

(* Where it enters a block, the variables of the block's phis hold what came along the *)
(* edge taken, as assigned by generatePhiNode in the block before, and every other     *)
(* variable that is still needed holds its instruction's value.                        *)
THEOREM PhisAreAssigned == Spec => [](Printable(fn, target) => VariablesAgree)
<1>1. Inv => (Printable(fn, target) => VariablesAgree)
  BY DEF Inv, VariablesAgree, AgreesAt, Instrs
<1> QED
  BY <1>1, Invariant, PTL
=============================================================================
