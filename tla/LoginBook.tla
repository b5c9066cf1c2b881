----------------------------- MODULE LoginBook ------------------------------
(***************************************************************************)
(* What sign-in promises its clients.  A login is issued one token, ever.  *)
(* The token may be laid out for collection until it is handed out, and is *)
(* never laid out again afterwards; a client keeps only a token that was   *)
(* handed out for its own login; a revoked token stays revoked.  Who reads *)
(* and writes which row when, and where a worker dies, is left open.       *)
(***************************************************************************)
EXTENDS Naturals, Sequences

CONSTANTS Login, None
VARIABLES
  owner,     \* the login of each token, in order of issue
  revoked,   \* tokens that are revoked
  laidOut,   \* the token each login has ready for collection
  given,     \* tokens handed out
  kept       \* the token the client of each login keeps

book == <<owner, revoked, laidOut, given, kept>>

Issued == 1..Len(owner)

LoginInit ==
  /\ owner = << >> /\ revoked = {} /\ given = {}
  /\ laidOut = [l \in Login |-> None]
  /\ kept = [l \in Login |-> None]

Issue(l) ==
  /\ \A s \in Issued : owner[s] # l
  /\ owner' = Append(owner, l)
  /\ UNCHANGED <<revoked, laidOut, given, kept>>

LayOut(s) ==
  /\ s \notin given
  /\ laidOut' = [laidOut EXCEPT ![owner[s]] = s]
  /\ UNCHANGED <<owner, revoked, given, kept>>

TakeBack(l) ==
  /\ laidOut' = [laidOut EXCEPT ![l] = None]
  /\ UNCHANGED <<owner, revoked, given, kept>>

Give(s) ==
  /\ given' = given \cup {s}
  /\ laidOut' = [laidOut EXCEPT ![owner[s]] = None]
  /\ UNCHANGED <<owner, revoked, kept>>

Keep(s) ==
  /\ s \in given
  /\ kept' = [kept EXCEPT ![owner[s]] = s]
  /\ UNCHANGED <<owner, revoked, laidOut, given>>

Withdraw(S) ==
  /\ revoked' = revoked \cup S
  /\ UNCHANGED <<owner, laidOut, given, kept>>

LoginNext ==
  \/ \E l \in Login : Issue(l) \/ TakeBack(l)
  \/ \E s \in Issued : LayOut(s) \/ Give(s) \/ Keep(s)
  \/ \E S \in SUBSET Issued : Withdraw(S)

LoginSpec == LoginInit /\ [][LoginNext]_book
=============================================================================
