------------------------------ MODULE PrintedC ------------------------------
(***************************************************************************)
(* The C printer (FuncGenerator, InstructionGenerator): the C function     *)
(* printed for an LLVM function, executed next to it, block by block and   *)
(* on the same inputs.  A printed block is a list of assignments, one per  *)
(* instruction, then the assignments to the phis of its successors, then a *)
(* goto, switch or return.                                                 *)
(*                                                                         *)
(* A function is [succ, code]: succ[b] are the successors of block b (of a *)
(* switch the default first), and an instruction has its block bb, kind,   *)
(* width w, arguments args of width aw and, for a phi, the blocks from     *)
(* that they come from, for a switch its case values.  An argument is      *)
(* [var, bits]: the value of instruction var or, if var is 0, a constant.  *)
(* Function arguments, loads and pops are instructions of kind "in".       *)
(***************************************************************************)
EXTENDS PrintedInts, Cfg

CONSTANT Programs  \* what is printed: pairs <<function, target>>

VARIABLES fn, target,  \* the function and the back end, "CPU" or "HLS" (fixed)
          bb, prev,    \* LLVM: the block about to run (0: done) and the one before
          vals,        \* LLVM: the value of every instruction
          cbb,         \* C: the block control is at (0: done)
          vars,        \* C: the variable of every instruction
          result       \* what both return

state == <<fn, target, bb, prev, vals, cbb, vars, result>>

Terminators == {"br", "jump", "switch", "ret"}
Instrs(f)   == DOMAIN f.code

InBlock(f, b) == {i \in Instrs(f) : f.code[i].bb = b}
PhisOf(f, b)  == {i \in InBlock(f, b) : f.code[i].kind = "phi"}
Plain(f, b)   == {i \in InBlock(f, b) : f.code[i].kind \notin Terminators \cup {"phi"}}
TermOf(f, b)  == f.code[CHOOSE i \in InBlock(f, b) : f.code[i].kind \in Terminators]

\* A phi's argument for the edge from block b.
Incoming(f, i, b) == f.code[i].args[CHOOSE n \in DOMAIN f.code[i].from : f.code[i].from[n] = b]

ArgWidth(ins, n) == IF ins.kind = "select" /\ n = 1 THEN 1 ELSE ins.aw

\* What LLVM's verifier guarantees of an instruction: operands of its type, ...
Arity(ins) ==
  CASE ins.kind \in {"in", "jump"}                            -> 0
    [] ins.kind \in {"zext", "sext", "trunc", "br", "switch", "ret"} -> 1
    [] ins.kind = "select"                                    -> 3
    [] ins.kind = "phi"                                       -> Len(ins.from)
    [] OTHER                                                  -> 2
WidthsFit(ins) ==
  CASE ins.kind \in {"eq", "slt", "ult"} -> ins.w = 1
    [] ins.kind \in {"zext", "sext"}     -> ins.w > ins.aw
    [] ins.kind = "trunc"                -> ins.w < ins.aw
    [] ins.kind = "br"                   -> ins.aw = 1
    [] OTHER                             -> ins.w = ins.aw
Typed(f, ins) ==
  /\ ins.w \in 1 .. LongBits /\ ins.aw \in 1 .. LongBits /\ WidthsFit(ins)
  /\ DOMAIN ins.args = 1 .. Arity(ins)
  /\ \A n \in DOMAIN ins.args :
       IF ins.args[n].var = 0 THEN ins.args[n].bits \in 0 .. 2 ^ ArgWidth(ins, n) - 1
       ELSE /\ ins.args[n].var \in Instrs(f)
            /\ f.code[ins.args[n].var].kind \notin Terminators
            /\ f.code[ins.args[n].var].w = ArgWidth(ins, n)

Successors(t) == CASE t.kind = "ret" -> 0 [] t.kind = "jump" -> 1 [] t.kind = "br" -> 2
                   [] t.kind = "switch" -> 1 + Len(t.cases)

\* ... one terminator per block, with a successor for each of its cases, phis for the
\* blocks before, and in a block no use of what comes later.
WellFormed(f) ==
  /\ f.code \in Seq(Range(f.code))
  /\ f.succ \in Seq(Seq(DOMAIN f.succ)) /\ f.succ # <<>> /\ PredsIn(f.succ, 1) = {}
  /\ \A i \in Instrs(f) :
       /\ f.code[i].bb \in DOMAIN f.succ /\ f.code[i].kind \in Kinds \cup Terminators \cup {"in", "phi"}
       /\ Typed(f, f.code[i])
       /\ f.code[i].kind = "phi" =>
            /\ f.code[i].from \in Seq(DOMAIN f.succ) \ {<<>>}
            /\ Range(f.code[i].from) = PredsIn(f.succ, f.code[i].bb)
       /\ f.code[i].kind # "phi" => \A a \in Range(f.code[i].args) :
            a.var \in InBlock(f, f.code[i].bb) => a.var < i \/ f.code[a.var].kind = "phi"
  /\ \A b \in DOMAIN f.succ : \E i \in InBlock(f, b) :
       /\ {j \in InBlock(f, b) : f.code[j].kind \in Terminators} = {i}
       /\ Len(f.succ[b]) = Successors(f.code[i])
       /\ f.code[i].kind = "switch" =>
            /\ f.code[i].cases \in Seq(0 .. 2 ^ f.code[i].aw - 1)
            /\ \A m, n \in DOMAIN f.code[i].cases : f.code[i].cases[m] = f.code[i].cases[n] => m = n

-----------------------------------------------------------------------------
(* LLVM *)

Operand(v, a)    == IF a.var = 0 THEN a.bits ELSE v[a.var]
Operands(v, ins) == [n \in DOMAIN ins.args |-> Operand(v, ins.args[n])]

\* The values after block b, entered from p with values v: its phis all at once,
\* then instruction after instruction, those that read the outside given by inp.
AfterBlock(f, v, p, b, inp) ==
  LET after[n \in 0 .. Len(f.code)] ==
        IF n = 0 THEN [i \in Instrs(f) |-> IF i \in PhisOf(f, b) THEN Operand(v, Incoming(f, i, p)) ELSE v[i]]
        ELSE LET w == after[n - 1]
             IN  IF n \notin Plain(f, b) THEN w
                 ELSE [w EXCEPT ![n] = IF f.code[n].kind = "in" THEN inp[n]
                                       ELSE Value(f.code[n], Operands(w, f.code[n]))]
  IN  after[Len(f.code)]

Undefined(f, v, b) == \E i \in Plain(f, b) : Poison(f.code[i], Operands(v, f.code[i]))

NextBlock(f, v, b) ==
  LET t == TermOf(f, b)
  IN  CASE t.kind = "ret"  -> 0
        [] t.kind = "jump" -> f.succ[b][1]
        [] t.kind = "br"   -> f.succ[b][IF Operand(v, t.args[1]) = 1 THEN 1 ELSE 2]
        [] t.kind = "switch" ->
             LET hit == {n \in DOMAIN t.cases : t.cases[n] = Operand(v, t.args[1])}
             IN  f.succ[b][IF hit = {} THEN 1 ELSE 1 + CHOOSE n \in hit : TRUE]

-----------------------------------------------------------------------------
(* The printed function *)

\* generateOperandStr
OperandC(c, a, w)    == IF a.var = 0 THEN ConstantStr(a.bits, w) ELSE c[a.var]
OperandsC(c, ins) == [n \in DOMAIN ins.args |-> OperandC(c, ins.args[n], ArgWidth(ins, n))]

\* generatePhiNode: the assignments a block makes to phis of its successors.
phiPreAssign(f, b) == {i \in Instrs(f) : f.code[i].kind = "phi" /\ b \in Range(f.code[i].from)}

\* Mutation: the variable keeps what does not fit its type.
AssignedUncut(f, t, c, b, i, inp) ==
  LET ins == f.code[i]
  IN  CASE ins.kind = "in"  -> Rep(t, inp[i], ins.w)
        [] ins.kind = "phi" -> OperandC(c, Incoming(f, i, b), ins.w)
        [] OTHER -> Expression(ins.kind, OperandsC(c, ins))

\* One assignment of block b: to the variable of instruction i.
Assigned(f, t, c, b, i, inp) ==
  LET ins == f.code[i]
  IN  CASE ins.kind = "in"  -> Rep(t, inp[i], ins.w)
        [] ins.kind = "phi" -> OperandC(c, Incoming(f, i, b), ins.w)
        [] OTHER -> Signed(Expression(ins.kind, OperandsC(c, ins)), TypeBits(t, ins.w))

\* The assignments of block b to the variables in I, in the order of the function.
Assign(f, t, c, b, inp, I) ==
  LET after[n \in 0 .. Len(f.code)] ==
        IF n = 0 THEN c
        ELSE LET d == after[n - 1]
             IN  IF n \notin I THEN d ELSE [d EXCEPT ![n] = Assigned(f, t, d, b, n, inp)]
  IN  after[Len(f.code)]

\* Mutation: the assignments to phis are printed first.
PhisFirst(f, t, c, b, inp) ==
  Assign(f, t, Assign(f, t, c, b, inp, phiPreAssign(f, b)), b, inp, Plain(f, b))

\* generateFunctionBody: the instructions in order, the assignments to phis before
\* the last string, which is the terminator's.
AfterBlockC(f, t, c, b, inp) ==
  Assign(f, t, Assign(f, t, c, b, inp, Plain(f, b)), b, inp, phiPreAssign(f, b))

\* Mutation: the loop over the successors starts behind the first case.
FirstCaseSkipped(f, b, n) == /\ n # 1
                             /\ f.succ[b][n + 1] # f.succ[b][1]
                             /\ \A m \in DOMAIN f.succ[b] : f.succ[b][m] = f.succ[b][n + 1] => m = n + 1

\* findCaseDest answers for a block that is not the default's and has one case.
HasCaseDest(f, b, n) ==
  /\ f.succ[b][n + 1] # f.succ[b][1]
  /\ \A m \in DOMAIN f.succ[b] : f.succ[b][m] = f.succ[b][n + 1] => m = n + 1

\* generateBranch, generateSwitch, generateReturn
NextBlockC(f, c, b) ==
  LET t == TermOf(f, b)
  IN  CASE t.kind = "ret"  -> 0
        [] t.kind = "jump" -> f.succ[b][1]
        [] t.kind = "br"   -> f.succ[b][IF OperandC(c, t.args[1], 1) # 0 THEN 1 ELSE 2]
        [] t.kind = "switch" ->
             LET hit == {n \in DOMAIN t.cases :
                           /\ HasCaseDest(f, b, n)
                           /\ ConstantStr(t.cases[n], t.aw) = OperandC(c, t.args[1], t.aw)}
             IN  f.succ[b][IF hit = {} THEN 1 ELSE 1 + CHOOSE n \in hit : TRUE]

-----------------------------------------------------------------------------
(* Side by side *)

ASSUME ProgramsAssumption == \A p \in Programs : WellFormed(p[1]) /\ p[2] \in {"CPU", "HLS"}

None == [llvm |-> 0, c |-> 0]

Init == /\ \E p \in Programs : fn = p[1] /\ target = p[2]
        /\ bb = 1 /\ prev = 0 /\ cbb = 1
        /\ vals = [i \in DOMAIN fn.code |-> 0]
        /\ vars = [i \in DOMAIN fn.code |-> 0]
        /\ result = None

Inputs == {i \in Plain(fn, bb) : fn.code[i].kind = "in"}

\* Both run the block they are at; the comparison ends where they part.
RunBlock ==
  /\ bb # 0 /\ cbb = bb
  /\ \E inp \in [Inputs -> 0 .. 2 ^ LongBits - 1] :
       /\ \A i \in Inputs : inp[i] < 2 ^ fn.code[i].w
       /\ LET v == AfterBlock(fn, vals, prev, bb, inp)
              c == AfterBlockC(fn, target, vars, bb, inp)
              t == TermOf(fn, bb)
          IN  IF Undefined(fn, v, bb)
              THEN /\ bb' = 0 /\ cbb' = 0
                   /\ UNCHANGED <<prev, vals, vars, result>>
              ELSE /\ vals' = v /\ vars' = c /\ prev' = bb
                   /\ bb' = NextBlock(fn, v, bb) /\ cbb' = NextBlockC(fn, c, bb)
                   /\ result' = IF t.kind = "ret"
                                THEN [llvm |-> Rep(target, Operand(v, t.args[1]), t.aw),
                                      c    |-> OperandC(c, t.args[1], t.aw)]
                                ELSE None
  /\ UNCHANGED <<fn, target>>

Next == RunBlock
Spec == Init /\ [][Next]_state

-----------------------------------------------------------------------------
(* What the printer asks of a function *)

Used(args)   == {a.var : a \in Range(args)} \ {0}
UsesAt(f, b) == (UNION {Used(f.code[i].args) : i \in InBlock(f, b) \ PhisOf(f, b)})
                \cup ({Incoming(f, i, b).var : i \in phiPreAssign(f, b)} \ {0})

\* Some use of instruction i is reached from the start of block b before i is
\* computed again.
LiveAt(f, b, i) == \E x \in FloodIn(f.succ, {b}, {f.code[i].bb}) : i \in UsesAt(f, x)

\* An assignment to a phi reads no phi the same block has just assigned.
PhisInOrder(f, b) ==
  \A m, n \in phiPreAssign(f, b) : m < n => Incoming(f, n, b).var # m

\* The terminator reads none of them either, and the other successors do not need
\* the phis' earlier values.
EdgesSplit(f, b) ==
  \A i \in phiPreAssign(f, b) :
    /\ i \notin Used(TermOf(f, b).args)
    /\ \A s \in SuccsIn(f.succ, b) : f.code[i].bb # s => ~LiveAt(f, s, i)

\* A switch goes to each block but the default's for one value.
CasesApart(f, b) ==
  TermOf(f, b).kind = "switch" =>
    \A m, n \in DOMAIN f.succ[b] : m < n /\ f.succ[b][m] = f.succ[b][n] => f.succ[b][m] = f.succ[b][1]

\* On the CPU a true i1 constant is printed -1, as operand or as case.
ConstantsAgree(t, ins) ==
  t = "CPU" => /\ \A n \in DOMAIN ins.args : ArgWidth(ins, n) = 1 => ins.args[n].var # 0 \/ ins.args[n].bits = 0
               /\ ins.kind = "switch" => ins.aw # 1

Printable(f, t) ==
  /\ \A b \in DOMAIN f.succ : PhisInOrder(f, b) /\ EdgesSplit(f, b) /\ CasesApart(f, b)
  /\ \A i \in Instrs(f) : /\ f.code[i].kind \in Terminators \/ Faithful(t, f.code[i])
                          /\ ConstantsAgree(t, f.code[i])

-----------------------------------------------------------------------------
(* Properties *)

\* LLVM values are bit patterns, C variables fit their types.
TypeOK == /\ bb \in 0 .. Len(fn.succ) /\ prev \in 0 .. Len(fn.succ) /\ cbb \in 0 .. Len(fn.succ)
          /\ \A i \in DOMAIN fn.code :
               /\ vals[i] \in 0 .. 2 ^ fn.code[i].w - 1
               /\ vars[i] \in -(2 ^ (TypeBits(target, fn.code[i].w) - 1))
                                .. 2 ^ (TypeBits(target, fn.code[i].w) - 1) - 1

\* The printed function takes the branches the LLVM function takes.
SamePath == cbb = bb

\* It returns the same value.
SameResult == result.llvm = result.c

\* When a block is entered, the variable of each of its phis holds the value that
\* came along the edge taken, and every other variable still needed its value.
VariablesAgree ==
  bb # 0 /\ cbb = bb =>
    \A i \in DOMAIN fn.code :
      IF i \in PhisOf(fn, bb)
      THEN vars[i] = Rep(target, Operand(vals, Incoming(fn, i, prev)), fn.code[i].w)
      ELSE LiveAt(fn, bb, i) => vars[i] = Rep(target, vals[i], fn.code[i].w)

\* A cast leaves in its variable the value LLVM's cast yields.
CastsConvert ==
  bb # 0 /\ prev # 0 =>
    \A i \in DOMAIN fn.code :
      fn.code[i].bb = prev /\ fn.code[i].kind \in {"trunc", "zext", "sext"}
        => vars[i] = Rep(target, vals[i], fn.code[i].w)
=============================================================================
