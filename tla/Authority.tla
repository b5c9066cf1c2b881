----------------------------- MODULE Authority ------------------------------
(***************************************************************************)
(* What the authority promises who holds its receipts: it publishes one    *)
(* key and keeps it, every delegation is signed with that key, and a task  *)
(* that was delegated is answered for at most once, to the principal it    *)
(* was delegated to and under the same key.  Which worker does what, where *)
(* one dies and what the catalog does meanwhile is left open.              *)
(***************************************************************************)
EXTENDS Naturals, Sequences

CONSTANTS Principal, None
VARIABLES key, given, answers

book == <<key, given, answers>>

AuthorityInit == key = None /\ given = << >> /\ answers = << >>

Publish ==
  /\ key = None /\ key' # None
  /\ UNCHANGED <<given, answers>>

Attest(who) ==
  /\ key # None
  /\ given' = Append(given, [who |-> who, key |-> key])
  /\ UNCHANGED <<key, answers>>

Answer(t) ==
  /\ \A i \in 1..Len(answers) : answers[i].task # t
  /\ answers' = Append(answers, [task |-> t, who |-> given[t].who, key |-> key])
  /\ UNCHANGED <<key, given>>

AuthorityNext ==
  \/ Publish
  \/ \E who \in Principal : Attest(who)
  \/ \E t \in 1..Len(given) : Answer(t)

AuthoritySpec == AuthorityInit /\ [][AuthorityNext]_book
=============================================================================
