---------------------------- MODULE Subsequences ----------------------------
(***************************************************************************)
(* The part of a sequence at some of its positions, in order: what         *)
(* Vec::retain leaves.  SelectSeq says the same of a predicate on elements *)
(* but is a recursion, which the provers cannot unfold.                    *)
(***************************************************************************)
EXTENDS Integers, Sequences, FiniteSets

\* The k-th position of I is the one with k positions of I up to it.
Place(I, k) == CHOOSE i \in I : Cardinality({j \in I : j <= i}) = k

Pick(s, I) == [k \in 1..Cardinality(I) |-> s[Place(I, k)]]
=============================================================================
