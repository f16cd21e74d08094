---------------------------- MODULE Subsequences ----------------------------
(***************************************************************************)
(* The members of a sequence at given places, in their order.  (SelectSeq  *)
(* and SetToSortSeq mean the same, but the provers know nothing of them.)  *)
(***************************************************************************)
EXTENDS Naturals, Sequences, FiniteSets

\* The place of i among the members of I.
Rank(I, i) == Cardinality({j \in I : j <= i})

At(s, I) == [k \in 1..Cardinality(I) |-> s[CHOOSE i \in I : Rank(I, i) = k]]
=============================================================================
