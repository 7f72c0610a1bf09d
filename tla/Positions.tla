------------------------------ MODULE Positions ------------------------------
(***************************************************************************)
(* What stands where in a sequence: the words the specifications of the    *)
(* parsers are written in.  Nothing here goes through a sequence.          *)
(***************************************************************************)
EXTENDS Integers, Sequences, FiniteSets

\* How often ch stands in s from i to j.
Count(s, ch, i, j) == Cardinality({m \in i..j : s[m] = ch})

\* The n-th number in P.
Nth(P, n) == CHOOSE p \in P : Cardinality({q \in P : q <= p}) = n

\* The elements of s at the positions P, in order.
Pick(s, P) == [n \in 1..Cardinality(P) |-> s[Nth(P, n)]]

FirstOf(s, n) == SubSeq(s, 1, IF Len(s) < n THEN Len(s) ELSE n)
=============================================================================
