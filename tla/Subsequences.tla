----------------------------- MODULE Subsequences -----------------------------
(***************************************************************************)
(* The part of a sequence at some of its positions, in their order.  It is  *)
(* what SelectSeq makes of the positions that pass its test; said this way  *)
(* it can be reasoned about, which SelectSeq cannot.                        *)
(***************************************************************************)
EXTENDS Naturals, Sequences, FiniteSets

(* The positions of S up to i.                                              *)
Upto(S, i) == {j \in S : j <= i}

(* The k-th position of S.                                                  *)
Nth(S, k) == CHOOSE i \in S : Cardinality(Upto(S, i)) = k

Kept(s, S) == [k \in 1..Cardinality(S) |-> s[Nth(S, k)]]
=============================================================================
