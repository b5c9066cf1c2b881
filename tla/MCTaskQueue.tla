---------------------------- MODULE MCTaskQueue ----------------------------
(* TaskQueue with small sets of interchangeable tasks and calls. *)
EXTENDS TaskQueue, TLC

Symmetry == Permutations(Task) \cup Permutations(Server) \cup Permutations(Cli)
============================================================================
