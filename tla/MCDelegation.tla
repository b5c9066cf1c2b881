---------------------------- MODULE MCDelegation ----------------------------
(***************************************************************************)
(* Two principals and two workers: room for a root task, a stage of it and *)
(* one more, while a file changes or an entitlement is lost.               *)
(***************************************************************************)
EXTENDS Delegation, TLC

CONSTANTS alice, bob, w1, w2, t1, t2, k1, k2

Symmetry == Permutations({alice, bob}) \cup Permutations({w1, w2})
              \cup Permutations({t1, t2}) \cup Permutations({k1, k2})
=============================================================================
