---------------------------- MODULE MCPassObject ----------------------------
(***************************************************************************)
(* PassObject for TLC: modules of two functions, the first of which is cut *)
(* into two partitions, with one to three nodes each.                      *)
(***************************************************************************)
EXTENDS PassObject

MCModules == {<<Original(first, 2), Original(second, parts)>> :
                first \in 2 .. 3, second \in 1 .. 3, parts \in 1 .. 2}
=============================================================================
