----------------------------- MODULE Subsequence -----------------------------
(***************************************************************************)
(* The elements of a sequence at some of its positions, in their order:    *)
(* what a loop appends that goes through a list and passes over some of    *)
(* its elements.  Without recursion, so that it can be reasoned about.     *)
(***************************************************************************)
EXTENDS Integers, FiniteSets

\* Position k is the how-manieth of the positions S, and which is the n-th.
Place(S, k)    == Cardinality({j \in S : j <= k})
Position(S, n) == CHOOSE k \in S : Place(S, k) = n

Subsequence(seq, S) == [n \in 1 .. Cardinality(S) |-> seq[Position(S, n)]]
=============================================================================
