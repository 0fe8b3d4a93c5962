------------------------------ MODULE Picking -------------------------------
(***************************************************************************)
(* The elements of a sequence at some of its indices: what a loop over an  *)
(* array leaves that skips the others.                                     *)
(***************************************************************************)
EXTENDS Integers, FiniteSets

\* How many of the indices are at most i.
Rank(at, i) == Cardinality({j \in at : j <= i})

\* The elements at the indices, in order.
Picked(s, at) == [n \in 1 .. Cardinality(at) |-> s[CHOOSE i \in at : Rank(at, i) = n]]
=============================================================================
