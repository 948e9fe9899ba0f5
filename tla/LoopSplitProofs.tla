-------------------------- MODULE LoopSplitProofs --------------------------
(***************************************************************************)
(* The split of LoopSplit is an equivalence for integers of every width.   *)
(* RangesMeet is inductive as it stands; the refinement maps the jump into *)
(* the clone to a stutter, because at that point i already is the clone's  *)
(* first index, and every other step to the step of the same name.         *)
(***************************************************************************)
EXTENDS LoopSplit, TLAPS

-----------------------------------------------------------------------------
\* The bound the pass computes (Genpar.cpp, builder.CreateLShr): for a bound
\* that is not negative the logical shift lands in its lower half.
LEMMA HalfBounds ==
  ASSUME upper \in Ints, upper >= 0
  PROVE  /\ half \in Ints
         /\ 0 <= half
         /\ 2 * half <= upper /\ upper <= 2 * half + 1
BY MaxIntAssumption DEF half, LShr1, Ints

\* Loops that satisfy the precondition start between the two ranges' ends.
LEMMA InitRangesMeet == Init => RangesMeet
<1> SUFFICES ASSUME Init PROVE RangesMeet
  OBVIOUS
<1>1. half \in Ints /\ 0 <= half
  BY HalfBounds DEF Init, Splittable
<1>2. QED
  BY <1>1 DEF Init, RangesMeet, TypeOK, Splittable

\* Every step of the split loop keeps the ranges adjacent.
LEMMA NextRangesMeet == RangesMeet /\ [Next]_vars => RangesMeet'
<1> SUFFICES ASSUME RangesMeet, [Next]_vars PROVE RangesMeet'
  OBVIOUS
<1>1. /\ half \in Ints /\ 0 <= half
      /\ 2 * half <= upper /\ upper <= 2 * half + 1
  BY HalfBounds DEF RangesMeet, TypeOK, Splittable
<1>2. upper \in Ints /\ upper < MaxInt /\ i \in Ints
  BY DEF RangesMeet, TypeOK, Splittable
<1>3. half < MaxInt
  BY <1>1, <1>2, MaxIntAssumption DEF Ints
<1>4. CASE Iterate
  <2>1. UNCHANGED <<lower, upper, half, copy>>
    BY <1>4 DEF Iterate, half
  <2>2. i < MaxInt /\ i' = i + 1
    BY <1>1, <1>2, <1>3, <1>4, MaxIntAssumption DEF Iterate, Bound, Inc, Ints
  <2>3. i' \in Ints
    BY <1>2, <2>2, MaxIntAssumption DEF Ints
  <2>4. copy = 1 => i' <= half + 1
    BY <1>1, <1>2, <1>4, <2>2 DEF Iterate, Bound, Ints
  <2>5. copy = 2 => half < i' /\ i' <= upper + 1
    BY <1>1, <1>2, <1>4, <2>2 DEF Iterate, Bound, RangesMeet, Ints
  <2>6. QED
    BY <1>4, <2>1, <2>3, <2>4, <2>5 DEF RangesMeet, TypeOK, Splittable, Iterate
<1>5. CASE EnterClone
  <2>1. UNCHANGED <<lower, upper, half>> /\ copy' = 2
    BY <1>5 DEF EnterClone, half
  <2>2. i' = half + 1
    BY <1>1, <1>3, <1>5 DEF EnterClone, CloneStart, Inc, Ints
  <2>3. i' \in Ints /\ half < i' /\ i' <= upper + 1
    BY <1>1, <1>2, <1>3, <2>2, MaxIntAssumption DEF Ints
  <2>4. QED
    BY <2>1, <2>3 DEF RangesMeet, TypeOK, Splittable
<1>6. CASE Leave
  <2>1. UNCHANGED <<lower, upper, half, i>> /\ copy' = 3
    BY <1>6 DEF Leave, half
  <2>2. i = upper + 1
    BY <1>2, <1>6 DEF Leave, RangesMeet, Ints
  <2>3. QED
    BY <2>1, <2>2 DEF RangesMeet, TypeOK, Splittable
<1>7. CASE UNCHANGED vars
  BY <1>7 DEF vars, RangesMeet, TypeOK, Splittable, half
<1>8. QED
  BY <1>4, <1>5, <1>6, <1>7 DEF Next

\* The index ranges of the two copies meet in every execution of the split loop,
\* for integers of every width (Genpar.cpp, runOnFunction).
THEOREM SplitRangesMeet == Spec => []RangesMeet
BY InitRangesMeet, NextRangesMeet, PTL DEF Spec

-----------------------------------------------------------------------------
\* The split loop starts where the original loop does.
LEMMA InitIsOriginal == Init => Original!Init
BY DEF Init, Original!Init, Ints, Original!Ints

\* Each step of the split loop is a step of the original loop, or invisible.
LEMMA NextIsOriginal ==
  RangesMeet /\ [Next]_vars => [Original!Next]_(Original!vars)
<1> SUFFICES ASSUME RangesMeet, [Next]_vars
             PROVE  [Original!Next]_(Original!vars)
  OBVIOUS
<1>1. /\ half \in Ints /\ 0 <= half
      /\ 2 * half <= upper /\ upper <= 2 * half + 1
  BY HalfBounds DEF RangesMeet, TypeOK, Splittable
<1>2. upper \in Ints /\ upper < MaxInt /\ i \in Ints
  BY DEF RangesMeet, TypeOK, Splittable
<1>3. half < MaxInt
  BY <1>1, <1>2, MaxIntAssumption DEF Ints
<1>4. CASE Iterate
  <2>1. ~(i > upper)
    BY <1>1, <1>2, <1>4 DEF Iterate, Bound, Ints
  <2>2. Original!Iterate
    BY <1>4, <2>1 DEF Iterate, Original!Iterate, Inc, Original!Inc
  <2>3. QED
    BY <2>2 DEF Original!Next
<1>5. CASE EnterClone
  <2>1. i = half + 1
    BY <1>1, <1>2, <1>5 DEF EnterClone, RangesMeet, Ints
  <2>2. i' = half + 1
    BY <1>1, <1>3, <1>5 DEF EnterClone, CloneStart, Inc, Ints
  <2>3. QED
    BY <1>5, <2>1, <2>2 DEF EnterClone, Original!vars
<1>6. CASE Leave
  <2>1. Original!Exit
    BY <1>6 DEF Leave, Original!Exit
  <2>2. QED
    BY <2>1 DEF Original!Next
<1>7. CASE UNCHANGED vars
  BY <1>7 DEF vars, Original!vars
<1>8. QED
  BY <1>4, <1>5, <1>6, <1>7 DEF Next

\* The transformation Genpar.cpp performs keeps the iterations of the loop and
\* their order, for integers of every width.
THEOREM SplitIsOriginal == Spec => SameIterations
<1>1. Init => Original!Init
  BY InitIsOriginal
<1>2. RangesMeet /\ [Next]_vars => [Original!Next]_(Original!vars)
  BY NextIsOriginal
<1>3. Spec => []RangesMeet
  BY SplitRangesMeet
<1>4. QED
  BY <1>1, <1>2, <1>3, PTL DEF Spec, SameIterations, Original!Spec
=============================================================================
