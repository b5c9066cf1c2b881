----------------------------- MODULE MCCatalog -----------------------------
(* Catalog with small sets.  Bodies that pass are interchangeable, and so  *)
(* are the bodies that do not.                                             *)
EXTENDS Catalog, TLC

Symmetry == Permutations(Good) \cup Permutations(Content \ Good)
                \cup Permutations(Target) \cup Permutations(Ingester)
============================================================================
