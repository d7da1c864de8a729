------------------------------ MODULE Selections ------------------------------
(***************************************************************************)
(* A list comprehension with a condition, as the code writes it in many    *)
(* places: [x for x in s if ...].                                          *)
(***************************************************************************)
EXTENDS Naturals, FiniteSets

\* The elements at the positions I, in their order.  By positions, and not SelectSeq,
\* because proofs can unfold it.
Picked(s, I) ==
  [k \in 1 .. Cardinality(I) |-> s[CHOOSE i \in I : Cardinality({j \in I : j <= i}) = k]]
=============================================================================
