------------------------------ MODULE Selection ------------------------------
(* What is selected from a sequence, in its order: SelectSeq, told by the      *)
(* places that are kept and not by recursion, so that it can be proved about.  *)
EXTENDS Naturals, FiniteSets

(* The elements of a sequence at the places K. *)
Selected(q, K) == [n \in 1..Cardinality(K) |-> q[CHOOSE i \in K : Cardinality({j \in K : j < i}) + 1 = n]]
=============================================================================
