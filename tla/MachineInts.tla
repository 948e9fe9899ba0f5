---------------------------- MODULE MachineInts ----------------------------
(***************************************************************************)
(* Two's complement integers of one width, as LLVM's i<n> values: additions*)
(* wrap around.                                                            *)
(***************************************************************************)
EXTENDS Integers

CONSTANT MaxInt  \* the largest value of the type

ASSUME MaxIntAssumption == MaxInt \in Nat

Modulus == 2 * (MaxInt + 1)
Ints    == -MaxInt - 1 .. MaxInt
Inc(x)  == IF x = MaxInt THEN -MaxInt - 1 ELSE x + 1
=============================================================================
