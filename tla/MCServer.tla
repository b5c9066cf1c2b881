------------------------------ MODULE MCServer ------------------------------
(* Small instances of Server: a tailnet user with the service token, one     *)
(* without, and another process.                                             *)
EXTENDS Server, TLC

CONSTANTS t1, t2

\* A hash is determined by what it is computed from.
MCHash(seq, event, prev) == <<seq, event, prev>>
MCCaller == t1 :> [identity |-> TRUE, token |-> TRUE] @@ t2 :> [identity |-> TRUE, token |-> FALSE]
=============================================================================
