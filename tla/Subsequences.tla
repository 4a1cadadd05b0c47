---------------------------- MODULE Subsequences ----------------------------
(***************************************************************************)
(* The elements of a sequence at some of its indices, in their order: what *)
(* a loop leaves that deletes from an array.  Subsequence(s, K) agrees     *)
(* with SelectSeq, but is defined by the places of the elements, so that   *)
(* the lemmas about it need no induction.                                  *)
(***************************************************************************)
EXTENDS Integers, Sequences, FiniteSets

\* The place of k in K, and what is at the n-th place.
Place(K, k) == Cardinality({l \in K : l <= k})
Nth(K, n)   == CHOOSE k \in K : Place(K, k) = n

Subsequence(s, K) == [n \in 1 .. Cardinality(K) |-> s[Nth(K, n)]]
=============================================================================
