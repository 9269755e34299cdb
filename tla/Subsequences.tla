---------------------------- MODULE Subsequences ----------------------------
(***************************************************************************)
(* The elements of a sequence at some of its positions, in their order:    *)
(* what a WHERE clause keeps of the rows of an ordered query, and          *)
(* Array.filter of a list.                                                 *)
(***************************************************************************)
EXTENDS Naturals, Sequences, FiniteSets

\* The k-th of a finite set of positions.
Nth(S, k) == CHOOSE i \in S : Cardinality({j \in S : j <= i}) = k

At(s, S) == [k \in 1 .. Cardinality(S) |-> s[Nth(S, k)]]
=============================================================================
