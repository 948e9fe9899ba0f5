------------------------------ MODULE MCSamples ------------------------------
(***************************************************************************)
(* A few functions for DecoupleInsScc, each of them a shape its author     *)
(* had in mind.  Where no other return is shown they end in "return 0;".   *)
(***************************************************************************)
EXTENDS DecoupleInsScc

I(b, kind, args)        == [bb |-> b, kind |-> kind, args |-> args, ptr |-> 0]
Access(b, args, ptr)    == [bb |-> b, kind |-> "mem", args |-> args, ptr |-> ptr]
Function(succ, code)    == [cfg |-> Analysed(succ), code |-> code]

\* int a = *p; *q = 1; return a;
StraightLine == Function(<< <<>> >>,
  << I(1, "mem", <<>>), I(1, "mem", <<>>), I(1, "term", <<1>>) >>)

\* a = *p; *q = a; return;
CopyOnly == Function(<< <<>> >>,
  << I(1, "mem", <<>>), I(1, "mem", <<1>>), I(1, "void", <<>>) >>)

\* if (c) { *p = 1; *q = 2; }
TwoStores == Function(<< <<2, 3>>, <<3>>, <<>> >>,
  << I(1, "term", <<>>), I(2, "mem", <<>>), I(2, "mem", <<>>), I(2, "term", <<>>), I(3, "term", <<>>) >>)

\* if (c) q[i] = *p;
GuardedCopy == Function(<< <<2, 3>>, <<3>>, <<>> >>,
  << I(1, "term", <<>>), I(2, "mem", <<>>), I(2, "op", <<>>), Access(2, <<2, 3>>, 3),
     I(2, "term", <<>>), I(3, "term", <<>>) >>)

\* int a = *p; if (a > 0) *q = 1;
LoadThenBranch == Function(<< <<2, 3>>, <<3>>, <<>> >>,
  << I(1, "mem", <<>>), I(1, "op", <<1>>), I(1, "term", <<2>>),
     I(2, "mem", <<>>), I(2, "term", <<>>), I(3, "term", <<>>) >>)

\* *p = 1; do ... while (c);
StoreBeforeLoop == Function(<< <<2>>, <<2, 3>>, <<>> >>,
  << I(1, "mem", <<>>), I(1, "term", <<>>), I(2, "mem", <<>>), I(2, "term", <<3>>), I(3, "term", <<>>) >>)

\* do { if (c) a = *p; *q = 1; } while (d);
StoreInLatch == Function(<< <<2>>, <<3, 4>>, <<4>>, <<2, 5>>, <<>> >>,
  << I(1, "term", <<>>), I(2, "term", <<>>), I(3, "mem", <<>>), I(3, "term", <<>>),
     I(4, "mem", <<>>), I(4, "term", <<>>), I(5, "term", <<>>) >>)

\* for (...) for (...) { a = *p; b = *q; } return b;
ReturnFromNest == Function(<< <<2>>, <<3>>, <<3, 4>>, <<2, 5>>, <<>> >>,
  << I(1, "term", <<>>), I(2, "term", <<>>), I(3, "mem", <<>>), I(3, "mem", <<>>),
     I(3, "term", <<>>), I(4, "term", <<>>), I(5, "term", <<4>>) >>)

\* for (k) y = y * (int)val[k]; *out = y; return y;
Accumulate == Function(<< <<2>>, <<2, 3>>, <<>> >>,
  << I(1, "term", <<>>),
     I(2, "phi", <<8>>), I(2, "phi", <<7>>), I(2, "op", <<2>>), Access(2, <<4>>, 4),
     I(2, "cast", <<5>>), I(2, "mul", <<3, 6>>), I(2, "op", <<2>>), I(2, "op", <<8>>),
     I(2, "term", <<9>>),
     I(3, "mem", <<7>>), I(3, "term", <<7>>) >>)

\* x = n + 1; a = *p; switch (k) { default: case 3: *q = x; break; case 1: break; case 2: ; }
SwitchStore == Function(<< <<2, 3, 4, 2>>, <<4>>, <<4>>, <<>> >>,
  << I(1, "op", <<>>), I(1, "mem", <<>>), I(1, "term", <<>>), I(2, "mem", <<1>>), I(2, "term", <<>>),
     I(3, "term", <<>>), I(4, "term", <<>>) >>)

OnlyGuardedCopy  == {GuardedCopy}
OnlyTwoStores    == {TwoStores}
OnlySwitchStore  == {SwitchStore}
Asserted == {LoadThenBranch, StoreBeforeLoop, StoreInLatch, ReturnFromNest}
Samples  == {StraightLine, CopyOnly, TwoStores, GuardedCopy, LoadThenBranch, StoreBeforeLoop,
             StoreInLatch, ReturnFromNest, SwitchStore, Accumulate}
=============================================================================
