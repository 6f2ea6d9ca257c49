------------------------------ MODULE Sublists ------------------------------
(***************************************************************************)
(* What a loop keeps of an array: the elements at some of its indexes, in  *)
(* their order.                                                            *)
(***************************************************************************)
EXTENDS Integers, Sequences, FiniteSets

\* The index of I with k of them up to it.
Nth(I, k) == CHOOSE i \in I : Cardinality({j \in I : j <= i}) = k

Sublist(s, I) == [k \in 1..Cardinality(I) |-> s[Nth(I, k)]]
=============================================================================
