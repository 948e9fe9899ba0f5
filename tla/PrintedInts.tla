---------------------------- MODULE PrintedInts ----------------------------
(***************************************************************************)
(* One LLVM instruction and the C expression printed for it.  An LLVM value*)
(* of width w is a bit pattern, 0 .. 2^w - 1.  A C variable is signed: an  *)
(* int or a long on the CPU, an ap_int of the LLVM width on the FPGA.      *)
(***************************************************************************)
EXTENDS Integers

CONSTANTS IntBits,  \* the width of a C int  (32)
          LongBits  \* the width of a C long (64)

ASSUME WidthAssumption == IntBits \in Nat \ {0, 1} /\ LongBits \in Nat /\ LongBits > IntBits

Wrap(x, w)   == x % 2 ^ w
Signed(x, w) == IF Wrap(x, w) >= 2 ^ (w - 1) THEN Wrap(x, w) - 2 ^ w ELSE Wrap(x, w)
Truth(p)     == IF p THEN 1 ELSE 0

\* Operations bit by bit, on the wide two's complement integers of C expressions;
\* table has the resulting bit for each pair of bits.
Bit(x, k) == (x \div 2 ^ k) % 2
BitByBit(table, x, y) ==
  LET low[n \in 0 .. LongBits + 1] ==
        IF n = 0 THEN 0 ELSE low[n - 1] + 2 ^ (n - 1) * table[Bit(x, n - 1)][Bit(y, n - 1)]
  IN  Signed(low[LongBits + 1], LongBits + 1)

BitAnd(x, y) == BitByBit([p \in 0 .. 1 |-> [q \in 0 .. 1 |-> Truth(p = 1 /\ q = 1)]], x, y)
BitXor(x, y) == BitByBit([p \in 0 .. 1 |-> [q \in 0 .. 1 |-> Truth(p # q)]], x, y)

Kinds == {"add", "nswadd", "and", "xor", "ashr", "lshr", "eq", "slt", "ult",
          "sext", "zext", "trunc", "select"}

\* LLVM: the value of an instruction of width ins.w on bit patterns x of width ins.aw.
Value(ins, x) ==
  LET s(n) == Signed(x[n], ins.aw)
  IN  Wrap(CASE ins.kind \in {"add", "nswadd"} -> x[1] + x[2]
             [] ins.kind = "and"    -> BitAnd(x[1], x[2])
             [] ins.kind = "xor"    -> BitXor(x[1], x[2])
             [] ins.kind = "ashr"   -> s(1) \div 2 ^ x[2]
             [] ins.kind = "lshr"   -> x[1] \div 2 ^ x[2]
             [] ins.kind = "eq"     -> Truth(x[1] = x[2])
             [] ins.kind = "slt"    -> Truth(s(1) < s(2))
             [] ins.kind = "ult"    -> Truth(x[1] < x[2])
             [] ins.kind = "sext"   -> s(1)
             [] ins.kind \in {"zext", "trunc"} -> x[1]
             [] ins.kind = "select" -> IF x[1] = 1 THEN x[2] ELSE x[3],
           ins.w)

\* What LLVM leaves undefined: an overflow excluded by nsw, a shift out of range.
Poison(ins, x) ==
  \/ ins.kind = "nswadd" /\ Signed(x[1], ins.w) + Signed(x[2], ins.w) # Signed(x[1] + x[2], ins.w)
  \/ ins.kind \in {"ashr", "lshr"} /\ x[2] >= ins.w

\* The operator generateBinaryOperator, generateCmpOperation, generateCastOperation
\* and generateSelectOperation print; "=" is a plain assignment.
Operator(kind) == CASE kind \in {"add", "nswadd"} -> "+"  [] kind = "and" -> "&"
                    [] kind = "xor" -> "^"                [] kind = "eq"  -> "=="
                    [] kind \in {"lshr", "ashr"} -> ">>"  [] kind = "select" -> "?:"
                    [] kind \in {"slt", "ult"} -> "<"
                    [] kind \in {"zext", "sext", "trunc"} -> "="

\* C: the value of the printed expression on signed integers x.
Expression(kind, x) ==
  LET op == Operator(kind)
  IN  CASE op = "+"  -> x[1] + x[2]
        [] op = "&"  -> BitAnd(x[1], x[2])
        [] op = "^"  -> BitXor(x[1], x[2])
        [] op = ">>" -> IF x[2] < 0 THEN 0 ELSE x[1] \div 2 ^ x[2]  \* not reached: poison
        [] op = "==" -> Truth(x[1] = x[2])
        [] op = "<"  -> Truth(x[1] < x[2])
        [] op = "?:" -> IF x[1] # 0 THEN x[2] ELSE x[3]
        [] op = "="  -> x[1]

\* Mutation: a 32-bit value gets a long.
IntBelow32(target, w) == IF target = "HLS" THEN w ELSE IF w < IntBits THEN IntBits ELSE LongBits

\* getLLVMTypeStr: the bits of the variable declared for a value of width w.
TypeBits(target, w) == IF target = "HLS" THEN w ELSE IF w <= IntBits THEN IntBits ELSE LongBits

\* generateConstantStr prints constants signed, also a true of type i1.
ConstantStr(bits, w) == Signed(bits, w)

\* The integer a printed program uses for an LLVM value; a C comparison yields 0 or 1.
Rep(target, bits, w) == IF target = "CPU" /\ w = 1 THEN bits ELSE Signed(bits, w)

\* The instructions whose printed expression computes what LLVM computes.
Faithful(target, ins) ==
  \/ ins.kind \in {"in", "phi", "nswadd", "and", "xor", "ashr", "eq", "select"}
  \/ ins.kind \in {"sext", "slt"} /\ (target = "HLS" \/ ins.aw > 1)
  \/ ins.kind = "zext" /\ target = "CPU" /\ ins.aw = 1
  \/ ins.kind = "trunc" /\ (target = "HLS" \/ (ins.w = IntBits /\ ins.aw = LongBits))
  \/ ins.kind = "add" /\ target = "HLS"
=============================================================================
