----------------------------- MODULE LoopSplit -----------------------------
(***************************************************************************)
(* What the Genpar pass makes of an outermost loop that exits on           *)
(* "i > upper": the loop is cloned, the exit edge of the original is sent  *)
(* to the header of the clone, the original stops at half = upper LShr 1   *)
(* and the clone runs from half + 1 to upper.                              *)
(***************************************************************************)
EXTENDS MachineInts

VARIABLES lower, upper, i,
          copy      \* where control is: loop 1, its clone 2, or behind both (3)

vars == <<lower, upper, i, copy>>

\* builder.CreateLShr(x, 1): a logical shift of the two's complement bits.
LShr1(x) == IF x >= 0 THEN x \div 2 ELSE (x + Modulus) \div 2

half == LShr1(upper)

\* Mutation: the clone starts at the bound of the first copy, not behind it.
CloneStartAtHalf == half

\* The incoming value of the clone's induction phi.
CloneStart == Inc(half)

\* The bounds for which the split is an equivalence: the shift is a division,
\* the clone does not start before the loop would, and the loop terminates.
\* The pass does not check them; the benchmarks start at 1 and end at nx > 0.
Splittable == upper >= 0 /\ upper < MaxInt /\ lower <= half + 1

Init == /\ lower \in Ints /\ upper \in Ints /\ Splittable
        /\ i = lower /\ copy = 1

\* The exit comparison of each copy.
Bound(c) == IF c = 1 THEN half ELSE upper

\* Mutation: the operands of the clone are not mapped to it, its increment
\* still reads the phi of the original.
IterateUnmapped == /\ copy \in {1, 2} /\ ~(i > Bound(copy))
                   /\ i' = IF copy = 1 THEN Inc(i) ELSE Inc(Inc(half))
                   /\ UNCHANGED <<lower, upper, copy>>

Iterate == /\ copy \in {1, 2} /\ ~(i > Bound(copy))
           /\ i' = Inc(i)
           /\ UNCHANGED <<lower, upper, copy>>

\* Mutation: the exit edge of the original is not redirected.
EnterCloneSkipped == /\ copy = 1 /\ i > half
                     /\ copy' = 3
                     /\ UNCHANGED <<lower, upper, i>>

\* The redirected exit edge of the original loop enters the clone's header.
EnterClone == /\ copy = 1 /\ i > half
              /\ copy' = 2 /\ i' = CloneStart
              /\ UNCHANGED <<lower, upper>>

Leave == /\ copy = 2 /\ i > upper
         /\ copy' = 3
         /\ UNCHANGED <<lower, upper, i>>

Next == Iterate \/ EnterClone \/ Leave

Spec == Init /\ [][Next]_vars

\* A sequential program: a step that is possible is taken.
FairSpec == Spec /\ WF_vars(Next)

-----------------------------------------------------------------------------
(* Properties *)

\* Every variable has its type: the increments of both copies stay in the
\* width of the induction variable.
TypeOK == /\ lower \in Ints /\ upper \in Ints /\ i \in Ints
          /\ copy \in {1, 2, 3}

\* The two index ranges meet without gap or overlap: the first copy is left at
\* the very index the clone starts with, and the clone behind the last one.
RangesMeet == /\ TypeOK /\ Splittable
              /\ copy = 1 => i <= half + 1
              /\ copy = 2 => half < i /\ i <= upper + 1
              /\ copy = 3 => i = upper + 1

\* The split loop runs the body for the same values of i, in the same order, as
\* the original loop: the jump into the clone is invisible.
Original == INSTANCE CountedLoop WITH exited <- copy = 3
SameIterations == Original!Spec

\* It also leaves the loop.
Terminates == <>(copy = 3)
=============================================================================
