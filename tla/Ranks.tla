--------------------------------- MODULE Ranks ---------------------------------
(* Elements of a finite set by their rank: numbers in increasing order, or any *)
(* elements in an order that is given.                                         *)
EXTENDS Naturals, FiniteSets

\* The element of S that n elements do not exceed.
Nth(S, n) == CHOOSE k \in S : Cardinality({h \in S : h <= k}) = n

\* What is left of a sequence when only the places in S are kept.
Picked(seq, S) == [n \in 1..Cardinality(S) |-> seq[Nth(S, n)]]

\* The elements of S that the order R, a set of pairs, puts ahead of d.
Preceding(S, R, d) == {e \in S : <<e, d>> \in R}

\* The elements of S in the order R.
Ranked(S, R) == [n \in 1..Cardinality(S) |-> CHOOSE d \in S : Cardinality(Preceding(S, R, d)) = n - 1]
================================================================================
