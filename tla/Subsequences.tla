------------------------------ MODULE Subsequences ------------------------------
(***************************************************************************)
(* The part of a sequence at some of its positions, in the sequence's own  *)
(* order: what Vec::retain and Iterator::filter leave.  It is counted out  *)
(* with Cardinality rather than recursively, which is what lets the proofs *)
(* reason about it (DataLemmas).                                           *)
(***************************************************************************)
EXTENDS Integers, FiniteSets

Below(I, i) == {j \in I : j < i}

\* The k-th smallest of a finite set of positions.
Nth(I, k) == CHOOSE i \in I : Cardinality(Below(I, i)) = k - 1

Subsequence(seq, I) == [k \in 1 .. Cardinality(I) |-> seq[Nth(I, k)]]
=============================================================================
