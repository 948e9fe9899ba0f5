-------------------------------- MODULE Data --------------------------------
(***************************************************************************)
(* Two notions that several models share: what is reached in a graph, and  *)
(* a queue that lists a set in order.                                      *)
(***************************************************************************)
EXTENDS Naturals, Sequences, FiniteSets

\* S and all that is reached from it, next[x] being what comes after x.
Closure(next, S) ==
  LET reached[k \in 0 .. Cardinality(DOMAIN next)] ==
        IF k = 0 THEN S
        ELSE LET r == reached[k - 1] IN r \cup UNION {next[x] : x \in r}
  IN  reached[Cardinality(DOMAIN next)]

\* The sequence lists the numbers in S, each of them once and the smaller first.
Lists(seq, S) == /\ {seq[n] : n \in DOMAIN seq} = S
                 /\ \A m, n \in DOMAIN seq : m < n => seq[m] < seq[n]
=============================================================================
