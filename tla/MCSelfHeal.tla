----------------------------- MODULE MCSelfHeal -----------------------------
(* The self-heal on two capability rows; rows are interchangeable.         *)
EXTENDS SelfHeal, TLC

Symmetry == Permutations(Cap)
=============================================================================
