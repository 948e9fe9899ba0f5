----------------------------- MODULE MCPrintedC -----------------------------
(***************************************************************************)
(* PrintedC for TLC: an int has 3 bits, a long 4, and there are narrower   *)
(* LLVM types below both.  Three families of functions: a loop with two    *)
(* phis that may feed each other, the branch and the code after the loop   *)
(* in every way; a switch with every choice of blocks for its cases; and   *)
(* every instruction on every combination of widths, branched on or        *)
(* returned.                                                               *)
(***************************************************************************)
EXTENDS PrintedC

V(i) == [var |-> i, bits |-> 0]
K(n) == [var |-> 0, bits |-> n]

Ins(b, kind, w, aw, args) == [bb |-> b, kind |-> kind, w |-> w, aw |-> aw, args |-> args,
                              from |-> <<>>, cases |-> <<>>]
In(b, w)           == Ins(b, "in", w, w, <<>>)
Phi(b, w, args, bs) == [Ins(b, "phi", w, w, args) EXCEPT !.from = bs]
Ret(b, w, a)       == Ins(b, "ret", w, w, <<a>>)
Jump(b)            == Ins(b, "jump", 1, 1, <<>>)
Br(b, a)           == Ins(b, "br", 1, 1, <<a>>)
Switch(b, w, a, ks) == [Ins(b, "switch", w, w, <<a>>) EXCEPT !.cases = ks]

\* p = a; q = b; d = false; do { n = in(); c = in(); (p, q, d) = (x, y, c) } while (z); return r;
Loop(x, y, z, r) ==
  [succ |-> << <<2>>, <<2, 3>>, <<>> >>,
   code |-> << Jump(1),
               Phi(2, 2, <<K(1), V(x)>>, <<1, 2>>), Phi(2, 2, <<K(2), V(y)>>, <<1, 2>>),
               Phi(2, 1, <<K(0), V(6)>>, <<1, 2>>),
               In(2, 2), In(2, 1), Br(2, V(z)), Ret(3, 2, V(r)) >>]
Loops == {Loop(x, y, z, r) : x \in {2, 3, 5}, y \in {2, 3, 5}, z \in {4, 6}, r \in {2, 3, 5}}

\* switch (in()) { case k1: goto d1; case k2: goto d2; default: goto d0; }
Switched(w, d, ks) ==
  [succ |-> << d, <<>>, <<>>, <<>> >>,
   code |-> << In(1, w), Switch(1, w, V(1), ks), Ret(2, 2, K(0)), Ret(3, 2, K(1)), Ret(4, 2, K(2)) >>]
Switches == {Switched(2, d, ks) : d \in [1 .. 3 -> {2, 3, 4}], ks \in {<<0, 1>>, <<2, 3>>, <<3, 1>>}}
            \cup {Switched(1, d, <<1, 0>>) : d \in [1 .. 3 -> {2, 3, 4}]}

\* x = in(); y = in(); return x op y;
Computed(kind, w, aw, x, y) ==
  [succ |-> << <<>> >>,
   code |-> << In(1, aw), In(1, aw), Ins(1, kind, w, aw, <<x, y>>), Ret(1, w, V(3)) >>]
\* ... and, for a truth value, if (x op y) return 1; else return 0;
Tested(kind, aw, x, y) ==
  [succ |-> << <<2, 3>>, <<>>, <<>> >>,
   code |-> << In(1, aw), In(1, aw), Ins(1, kind, 1, aw, <<x, y>>), Br(1, V(3)),
               Ret(2, 2, K(1)), Ret(3, 2, K(0)) >>]
Cast(kind, w, aw) ==
  [succ |-> << <<>> >>, code |-> << In(1, aw), Ins(1, kind, w, aw, <<V(1)>>), Ret(1, w, V(2)) >>]
Select(w) ==
  [succ |-> << <<>> >>,
   code |-> << In(1, 1), In(1, w), Ins(1, "select", w, w, <<V(1), V(2), K(1)>>), Ret(1, w, V(3)) >>]

Widths == 1 .. LongBits
Seconds(w) == {V(2)} \cup {K(n) : n \in 0 .. 2 ^ w - 1}
Ops == UNION {{Computed(k, w, w, V(1), y) : k \in {"add", "nswadd", "and", "xor", "ashr", "lshr"},
                                            y \in Seconds(w)} : w \in Widths}
       \cup UNION {{Tested(k, w, V(1), y) : k \in {"eq", "slt", "ult"}, y \in Seconds(w)} : w \in Widths}
       \cup {Tested(k, 1, V(1), y) : k \in {"and", "xor"}, y \in Seconds(1)}
       \cup UNION {{Cast(k, w, aw) : k \in {"zext", "sext"}, aw \in 1 .. w - 1} : w \in Widths}
       \cup UNION {{Cast("trunc", w, aw) : w \in 1 .. aw - 1} : aw \in Widths}
       \cup {Select(w) : w \in Widths}

MCPrograms == {p \in (Loops \cup Switches \cup Ops) \X {"CPU", "HLS"} : Printable(p[1], p[2])}

\* x = in(); y = in(); return (int)(x < y);
LessAsInt ==
  [succ |-> << <<2>>, <<>> >>,
   code |-> << In(1, 2), In(1, 2), Ins(1, "slt", 1, 2, <<V(1), V(2)>>),
               Ins(1, "zext", 3, 1, <<V(3)>>), Jump(1), Ret(2, 3, V(4)) >>]
MCLessAsInt == {<<LessAsInt, "HLS">>}

\* Both functions have ended, or have parted.
MCNext == Next \/ ((bb = 0 \/ cbb # bb) /\ UNCHANGED state)
MCSpec == Init /\ [][MCNext]_state
=============================================================================
