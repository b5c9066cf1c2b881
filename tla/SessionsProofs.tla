--------------------------- MODULE SessionsProofs ---------------------------
(* Theorems about Sessions, for any number of logins and handlers.          *)
EXTENDS Sessions, SequenceTheorems, TLAPS

-----------------------------------------------------------------------------
(* Shapes of rows and handlers. *)

Maybe == Nat \cup {None}
Meta == [verifier : BOOLEAN, device : BOOLEAN, bearer : Maybe, deliverBy : Maybe]
Row == [status : {"none", "pending", "callback_received", "failed", "expired", "completed"},
        meta : Meta, expires : Maybe]
Sess == [login : Login, revoked : BOOLEAN, expires : Nat]

Asker == {"client", "other"}
Then == {Idle} \cup [at : {"status"}, login : Login, by : Asker]
Plain == [at : {"device", "exchange"}, login : Login]
Validating == [at : {"validate"}, login : Login, meta : Meta,
               to : {"expired", "failed", "callback_received"}]
Claiming == [at : {"claims"}, login : Login, then : Then]
Minting == [at : {"mint"}, login : Login, meta : Meta, then : Then]
Finishing == [at : {"finish"}, login : Login, meta : Meta, token : Nat, then : Then]
Asking == [at : {"redeem", "status"}, login : Login, by : Asker]
Delivering == [at : {"deliver"}, login : Login, by : Asker, meta : Meta]
Replying == [at : {"reply"}, login : Login, by : Asker,
             status : {"none", "pending", "callback_received", "failed", "expired",
                       "completed", "error"},
             token : Maybe]
Place == {Idle} \cup Plain \cup Validating \cup Claiming \cup Minting \cup Finishing
           \cup Asking \cup Delivering \cup Replying

Shapes ==
  /\ row \in [Login -> Row]
  /\ session \in Seq(Sess)
  /\ idp \in [Login -> {"asked", "denied", "granted", "redeemed"}]
  /\ handler \in [Handler -> Place]
  /\ env \in [Login -> Maybe]
  /\ handed \in Seq(Nat) /\ Len(handed) = Len(session)
  /\ now \in Nat

\* The position of a handler gives its locals.
LEMMA Locals ==
  ASSUME NEW c \in Place
  PROVE  /\ c.at = "idle" => c = Idle
         /\ c.at \in {"device", "exchange"} => c \in Plain
         /\ c.at = "validate" => c \in Validating
         /\ c.at = "claims" => c \in Claiming
         /\ c.at = "mint" => c \in Minting
         /\ c.at = "finish" => c \in Finishing
         /\ c.at \in {"redeem", "status"} => c \in Asking
         /\ c.at = "deliver" => c \in Delivering
         /\ c.at = "reply" => c \in Replying
BY DEF Place, Plain, Validating, Claiming, Minting, Finishing, Asking, Delivering, Replying, Idle

\* The poll goes on to the delivery of a completed row, or answers no token.
LEMMA StatusPlace ==
  ASSUME NEW h \in Handler, Status(h)
  PROVE  \E place :
           /\ Goto(h, place)
           /\ \/ /\ place.at = "deliver" /\ place.login = handler[h].login
                 /\ place.meta = row[handler[h].login].meta
                 /\ row[handler[h].login].status = "completed"
              \/ place.at = "reply" /\ place.token = None
<1> DEFINE c == handler[h]
           r == row[c.login]
<1>1. CASE r.status = "completed"
  <2> DEFINE place == [at |-> "deliver", login |-> c.login, by |-> c.by, meta |-> r.meta]
  <2>1. Goto(h, place)
    BY <1>1 DEF Status
  <2>2. place.at = "deliver" /\ place.login = c.login /\ place.meta = r.meta
    OBVIOUS
  <2> HIDE DEF place
  <2>3. QED
    BY <1>1, <2>1, <2>2
<1>2. CASE r.status # "completed"
  <2> DEFINE place == Reply(c, r.status, None)
  <2>1. Goto(h, place)
    BY <1>2 DEF Status
  <2>2. place.at = "reply" /\ place.token = None
    BY DEF Reply
  <2> HIDE DEF place
  <2>3. QED
    BY <2>1, <2>2
<1>3. QED
  BY ONLY <1>1, <1>2

\* Appending a session or a count leaves the earlier ones.
LEMMA Appended ==
  ASSUME NEW S, NEW s \in Seq(S), NEW e \in S
  PROVE  /\ Append(s, e) \in Seq(S)
         /\ Len(s) \in Nat /\ Len(Append(s, e)) = Len(s) + 1
         /\ \A i \in 1..Len(s) : Append(s, e)[i] = s[i]
         /\ Append(s, e)[Len(s) + 1] = e
BY AppendProperties, LenProperties

\* A function on the indices of a sequence is one of the same length.
LEMMA Rewritten ==
  ASSUME NEW S, NEW s \in Seq(S), NEW f \in [1..Len(s) -> S]
  PROVE  f \in Seq(S) /\ Len(f) = Len(s)
<1>1. Len(s) \in Nat
  BY LenProperties
<1>2. f \in Seq(S)
  BY <1>1, SeqDef
<1>3. DOMAIN f = 1..Len(f) /\ Len(f) \in Nat
  BY <1>2, LenProperties
<1>4. QED
  BY <1>1, <1>3

\* A handler goes from place to place, the others stay.
LEMMA Went ==
  ASSUME Shapes, NEW h \in Handler, NEW place \in Place, Goto(h, place)
  PROVE  handler' \in [Handler -> Place]
BY DEF Shapes, Goto

\* An answer, and a refusal, are places of a handler.
LEMMA Answers ==
  /\ Idle \in Place /\ Then \subseteq Place
  /\ \A c \in Asking \cup Delivering, token \in Maybe,
        status \in {"none", "pending", "callback_received", "failed", "expired",
                    "completed", "error"} :
       Reply(c, status, token) \in Replying
  /\ \A c \in Claiming : Refused(c) \in Place
<1>1. Idle \in Place /\ Then \subseteq Place
  BY DEF Place, Then, Asking
<1>2. ASSUME NEW c \in Asking \cup Delivering, NEW token \in Maybe,
             NEW status \in {"none", "pending", "callback_received", "failed", "expired",
                             "completed", "error"}
      PROVE  Reply(c, status, token) \in Replying
  BY <1>2 DEF Reply, Replying, Asking, Delivering
<1>3. ASSUME NEW c \in Claiming PROVE Refused(c) \in Place
  <2>1. c.then = Idle \/ c.then \in Asking
    BY DEF Claiming, Then, Asking
  <2>2. None \in Maybe
    BY DEF Maybe
  <2>3. QED
    BY <2>1, <2>2, <1>1, <1>2 DEF Refused, Place
<1>4. QED
  BY <1>1, <1>2, <1>3

\* The metadata a completion and a delivery write.
LEMMA MetaWrites ==
  ASSUME NEW meta \in Meta, NEW token \in Maybe, NEW by \in Nat
  PROVE  /\ [meta EXCEPT !.verifier = FALSE, !.bearer = token, !.deliverBy = by] \in Meta
         /\ [meta EXCEPT !.verifier = FALSE, !.bearer = token, !.deliverBy = by].bearer = token
         /\ ~[meta EXCEPT !.verifier = FALSE, !.bearer = token, !.deliverBy = by].verifier
         /\ [meta EXCEPT !.bearer = None] \in Meta
         /\ [meta EXCEPT !.bearer = None].bearer = None
         /\ [meta EXCEPT !.bearer = None].verifier = meta.verifier
<1>1. by \in Maybe /\ None \in Maybe
  BY DEF Maybe
<1>2. QED
  BY <1>1 DEF Meta

\* Writing the metadata, or the status and the metadata, of one login.
LEMMA RowWrites ==
  ASSUME Shapes, NEW l \in Login, NEW meta \in Meta,
         NEW status \in {"none", "pending", "callback_received", "failed", "expired",
                         "completed"}
  PROVE  /\ [row EXCEPT ![l].meta = meta] \in [Login -> Row]
         /\ [row EXCEPT ![l].meta = meta][l].meta = meta
         /\ [row EXCEPT ![l].meta = meta][l].status = row[l].status
         /\ [row EXCEPT ![l].status = status, ![l].meta = meta] \in [Login -> Row]
         /\ [row EXCEPT ![l].status = status, ![l].meta = meta][l].meta = meta
         /\ [row EXCEPT ![l].status = status, ![l].meta = meta][l].status = status
<1>1. row \in [Login -> Row] /\ row[l] \in Row
  BY DEF Shapes
<1>2. [row[l] EXCEPT !.meta = meta] \in Row
  BY <1>1 DEF Row
<1>3. [row[l] EXCEPT !.status = status, !.meta = meta] \in Row
  BY <1>1 DEF Row
<1>4. QED
  BY <1>1, <1>2, <1>3 DEF Row

\* Steps of handlers keep every shape.
LEMMA HandlerShapes ==
  ASSUME Shapes, NEW h \in Handler, HandlerStep(h)
  PROVE  Shapes'
<1> USE SessionsAssumption
<1> DEFINE c == handler[h]
<1>0. c \in Place /\ \A l \in Login : row[l] \in Row /\ row[l].meta \in Meta
  BY DEF Shapes, Row
<1>n. NoMeta \in Meta /\ None \in Maybe /\ Nat \subseteq Maybe
  BY DEF NoMeta, Meta, Maybe
<1>1. CASE DeviceCode(h)
  <2>1. c \in Plain
    BY <1>0, <1>1, Locals DEF DeviceCode
  <2>2. [NoMeta EXCEPT !.device = TRUE] \in Meta
    BY <1>n DEF Meta
  <2>3. row' \in [Login -> Row]
    <3>1. c.login \in Login /\ row \in [Login -> Row]
      BY <2>1 DEF Plain, Shapes
    <3>m. PICK meta \in Meta : meta = [NoMeta EXCEPT !.device = TRUE]
      BY <2>2
    <3>2. [row EXCEPT ![c.login].meta = meta] \in [Login -> Row]
      BY ONLY Shapes, <3>1, meta \in Meta, RowWrites
    <3>3. row' = row \/ row' = [row EXCEPT ![c.login].meta = meta]
      BY <1>1, <3>m DEF DeviceCode
    <3>4. QED
      BY ONLY <3>1, <3>2, <3>3
  <2>4. handler' \in [Handler -> Place]
    BY <1>1, Went, Answers DEF DeviceCode, Done
  <2>5. QED
    BY <1>1, <2>3, <2>4 DEF DeviceCode, Shapes, host
<1>2. CASE Validate(h)
  <2>1. c \in Validating
    BY <1>0, <1>2, Locals DEF Validate
  <2>3. row' \in [Login -> Row]
    BY <1>2, <2>1 DEF Validate, Shapes, Row, Validating
  <2>4. handler' \in [Handler -> Place]
    BY <1>2, Went, Answers DEF Validate, Done
  <2>5. QED
    BY <1>2, <2>3, <2>4 DEF Validate, Shapes, clients
<1>3. CASE Exchange(h)
  <2>1. c \in Plain
    BY <1>0, <1>3, Locals DEF Exchange
  <2>2. [at |-> "claims", login |-> c.login, then |-> Idle] \in Place
    BY <2>1 DEF Plain, Claiming, Then, Place
  <2>3. handler' \in [Handler -> Place]
    BY <1>3, <2>2, Went, Answers DEF Exchange, Done
  <2>4. idp' \in [Login -> {"asked", "denied", "granted", "redeemed"}]
    BY <1>3 DEF Exchange, Shapes
  <2>5. QED
    BY <1>3, <2>3, <2>4 DEF Exchange, Shapes, clients, tables
<1>4. CASE Claims(h) \/ GoogleClaims(h)
  <2>1. c \in Claiming
    BY <1>0, <1>4, Locals DEF Claims, GoogleClaims
  <2>2. [at |-> "mint", login |-> c.login, meta |-> row[c.login].meta, then |-> c.then] \in Place
    BY <2>1, <1>0 DEF Claiming, Minting, Place
  <2>3. handler' \in [Handler -> Place]
    BY <1>4, <2>1, <2>2, Went, Answers DEF Claims, GoogleClaims, ToMint, Done
  <2>5. QED
    BY <1>4, <2>3 DEF Claims, GoogleClaims, Shapes, clients, tables
<1>5. CASE Mint(h)
  <2>1. c \in Minting
    BY <1>0, <1>5, Locals DEF Mint
  <2>2. [login |-> c.login, revoked |-> FALSE, expires |-> now + SessionTTL] \in Sess
    BY <2>1 DEF Sess, Minting, Shapes
  <2>3. /\ session' \in Seq(Sess) /\ handed' \in Seq(Nat)
        /\ Len(session') = Len(session) + 1 /\ Len(handed') = Len(handed) + 1
        /\ Len(session) \in Nat
    BY <1>5, <2>2, Appended DEF Mint, Shapes
  <2>4. [at |-> "finish", login |-> c.login, meta |-> c.meta,
         token |-> Len(session) + 1, then |-> c.then] \in Place
    BY <2>1, <2>3 DEF Minting, Finishing, Place
  <2>5. handler' \in [Handler -> Place]
    BY <1>5, <2>4, Went DEF Mint
  <2>6. QED
    BY <1>5, <2>3, <2>5 DEF Mint, Shapes, clients
<1>6. CASE Finish(h)
  <2>1. c \in Finishing
    BY <1>0, <1>6, Locals DEF Finish
  <2>2. [c.meta EXCEPT !.verifier = FALSE, !.bearer = c.token,
                       !.deliverBy = now + DeliveryTTL] \in Meta
    <3>1. c.meta \in Meta /\ c.token \in Maybe /\ now + DeliveryTTL \in Nat
      BY <2>1, <1>n DEF Finishing, Shapes
    <3>2. QED
      BY <3>1, MetaWrites
  <2>3. row' \in [Login -> Row]
    <3>1. c.login \in Login
      BY <2>1 DEF Finishing
    <3>m. PICK meta \in Meta : meta = [c.meta EXCEPT !.verifier = FALSE, !.bearer = c.token,
                                                    !.deliverBy = now + DeliveryTTL]
      BY <2>2
    <3>2. [row EXCEPT ![c.login].status = "completed", ![c.login].meta = meta] \in [Login -> Row]
      BY ONLY Shapes, <3>1, meta \in Meta, RowWrites
    <3>3. row' = [row EXCEPT ![c.login].status = "completed", ![c.login].meta = meta]
      BY <1>6, <3>m DEF Finish, Completed
    <3>4. QED
      BY ONLY <3>2, <3>3
  <2>4. handler' \in [Handler -> Place]
    BY <1>6, <2>1, Went, Answers DEF Finish, Finishing
  <2>5. QED
    BY <1>6, <2>3, <2>4 DEF Finish, Shapes, clients
<1>7. CASE Redeem(h)
  <2>1. c \in Asking
    BY <1>0, <1>7, Locals DEF Redeem
  <2>2. [at |-> "claims", login |-> c.login, then |-> [c EXCEPT !.at = "status"]] \in Place
    BY <2>1 DEF Asking, Claiming, Then, Place
  <2>3. Reply(c, "pending", None) \in Place /\ Reply(c, "error", None) \in Place
    BY <2>1, <1>n, Answers DEF Place
  <2>4. handler' \in [Handler -> Place]
    BY <1>7, <2>2, <2>3, Went DEF Redeem
  <2>5. idp' \in [Login -> {"asked", "denied", "granted", "redeemed"}]
    BY <1>7 DEF Redeem, Shapes
  <2>6. QED
    BY <1>7, <2>4, <2>5 DEF Redeem, Shapes, clients, tables
<1>8. CASE Status(h)
  <2>1. c \in Asking
    BY <1>0, <1>8, Locals DEF Status
  <2>2. [at |-> "deliver", login |-> c.login, by |-> c.by, meta |-> row[c.login].meta] \in Place
    BY <2>1, <1>0 DEF Asking, Delivering, Place
  <2>3. Reply(c, row[c.login].status, None) \in Place
    BY <2>1, <1>0, <1>n, Answers DEF Place, Row, Asking
  <2>4. handler' \in [Handler -> Place]
    BY <1>8, <2>2, <2>3, Went DEF Status
  <2>5. QED
    BY <1>8, <2>4 DEF Status, Shapes, clients, tables
<1>9. CASE Deliver(h)
  <2>1. c \in Delivering
    BY <1>0, <1>9, Locals DEF Deliver
  <2>2. Offered(c.meta) \in Maybe /\ [c.meta EXCEPT !.bearer = None] \in Meta
    BY <2>1 DEF Offered, Delivering, Meta, Maybe
  <2>3. row' \in [Login -> Row]
    <3>1. c.login \in Login
      BY <2>1 DEF Delivering
    <3>m. PICK meta \in Meta : meta = [c.meta EXCEPT !.bearer = None]
      BY <2>2
    <3>2. [row EXCEPT ![c.login].meta = meta] \in [Login -> Row]
      BY ONLY Shapes, <3>1, meta \in Meta, RowWrites
    <3>3. row' = [row EXCEPT ![c.login].meta = meta]
      BY <1>9, <3>m DEF Deliver
    <3>4. QED
      BY ONLY <3>2, <3>3
  <2>4. handler' \in [Handler -> Place]
    BY <1>9, <2>1, <2>2, Went, Answers DEF Deliver, Place
  <2>5. handed' \in Seq(Nat) /\ Len(handed') = Len(handed)
    <3>1. handed \in [1..Len(handed) -> Nat] /\ \A i \in 1..Len(handed) : handed[i] + 1 \in Nat
      BY LenProperties DEF Shapes
    <3>2. handed' \in [1..Len(handed) -> Nat]
      BY <1>9, <3>1 DEF Deliver, HandOut
    <3>3. QED
      BY <3>2, Rewritten DEF Shapes
  <2>6. QED
    BY <1>9, <2>3, <2>4, <2>5 DEF Deliver, Shapes, clients
<1>10. CASE ReceiveAnswer(h)
  <2>1. c \in Replying
    BY <1>0, <1>10, Locals DEF ReceiveAnswer
  <2>2. env' \in [Login -> Maybe]
    BY <1>10, <2>1 DEF ReceiveAnswer, Shapes, Replying
  <2>3. handler' \in [Handler -> Place]
    BY <1>10, Went, Answers DEF ReceiveAnswer, Done
  <2>4. QED
    BY <1>10, <2>2, <2>3 DEF ReceiveAnswer, Shapes, tables
<1>11. QED
  BY <1>1, <1>2, <1>3, <1>4, <1>5, <1>6, <1>7, <1>8, <1>9, <1>10 DEF HandlerStep

\* What a step outside the handlers' own steps may do: start a login, answer
\* for a person, accept a request, revoke, end a handler.
Quiet ==
  /\ Len(session') = Len(session)
  /\ \A s \in Token : session'[s].login = session[s].login
  /\ handed' = handed /\ env' = env
  /\ \A l \in Login : idp[l] = "redeemed" => idp'[l] = "redeemed"
  /\ \A l \in Login : \/ row'[l] = row[l]
                      \/ row'[l].status = "pending" /\ row'[l].meta.bearer = None
  /\ \A h \in Handler :
       \/ handler'[h] = handler[h]
       \/ handler'[h].at \in {"idle", "device", "exchange", "redeem", "status"}
       \/ /\ handler'[h].at = "validate"
          /\ \E l \in Login : row[l].status = "pending" /\ handler'[h].meta = row[l].meta

\* A login that starts has a row of the right shape.
LEMMA Created ==
  ASSUME Shapes, NEW l \in Login, CreateSession(l)
  PROVE  /\ row' \in [Login -> Row]
         /\ row'[l].status = "pending" /\ row'[l].meta.bearer = None
         /\ \A k \in Login : k # l => row'[k] = row[k]
<1> DEFINE new == [status |-> "pending", expires |-> now + LoginTTL,
                   meta |-> [NoMeta EXCEPT !.verifier = TRUE]]
<1>1. NoMeta \in Meta /\ NoMeta.bearer = None
  BY DEF NoMeta, Meta, Maybe
<1>2. [NoMeta EXCEPT !.verifier = TRUE] \in Meta /\ [NoMeta EXCEPT !.verifier = TRUE].bearer = None
  BY <1>1 DEF Meta
<1>3. now + LoginTTL \in Maybe
  BY SessionsAssumption DEF Shapes, Maybe
<1>4. new \in Row /\ new.status = "pending" /\ new.meta.bearer = None
  BY <1>2, <1>3 DEF Row
<1>5. row \in [Login -> Row] /\ row' = [row EXCEPT ![l] = new]
  BY DEF Shapes, CreateSession
<1> HIDE DEF new
<1>6. QED
  BY <1>4, <1>5

\* Accepting a request puts its handler at a place of the right shape.
LEMMA Accepted ==
  ASSUME Shapes, NEW h \in Handler, NEW l \in Login,
         \/ Goto(h, [at |-> "device", login |-> l])
         \/ Goto(h, [at |-> "exchange", login |-> l])
         \/ \E to \in {"failed", "callback_received"} : ReadPending(h, l, to)
         \/ \E by \in Asker : PollRead(h, l, by)
         \/ Done(h)
  PROVE  /\ handler' \in [Handler -> Place]
         /\ \A g \in Handler :
              \/ handler'[g] = handler[g]
              \/ handler'[g].at \in {"idle", "device", "exchange", "redeem", "status"}
              \/ /\ handler'[g].at = "validate"
                 /\ row[l].status = "pending" /\ handler'[g].meta = row[l].meta
<1>0. handler \in [Handler -> Place] /\ row[l].meta \in Meta
  BY DEF Shapes, Row
<1>1. \A place \in Plain : place \in Place /\ place.at \in {"device", "exchange"}
  BY DEF Place, Plain
<1>2. [at |-> "device", login |-> l] \in Plain /\ [at |-> "exchange", login |-> l] \in Plain
  BY DEF Plain
<1>3. CASE \/ Goto(h, [at |-> "device", login |-> l])
           \/ Goto(h, [at |-> "exchange", login |-> l])
  BY <1>0, <1>1, <1>2, <1>3 DEF Goto
<1>4. ASSUME NEW to \in {"failed", "callback_received"}, ReadPending(h, l, to)
      PROVE  /\ handler' \in [Handler -> Place]
             /\ \A g \in Handler :
                  \/ handler'[g] = handler[g]
                  \/ /\ handler'[g].at = "validate"
                     /\ row[l].status = "pending" /\ handler'[g].meta = row[l].meta
  <2> DEFINE place == [at |-> "validate", login |-> l, meta |-> row[l].meta,
                       to |-> IF row[l].expires <= now THEN "expired" ELSE to]
  <2>1. place \in Validating /\ place.at = "validate" /\ place.meta = row[l].meta
    BY <1>0 DEF Validating
  <2>2. place \in Place
    BY <2>1 DEF Place
  <2>3. row[l].status = "pending" /\ handler' = [handler EXCEPT ![h] = place]
    BY <1>4 DEF ReadPending, Goto
  <2> HIDE DEF place
  <2>4. QED
    BY <1>0, <2>1, <2>2, <2>3
<1>5. ASSUME NEW by \in Asker, PollRead(h, l, by)
      PROVE  /\ handler' \in [Handler -> Place]
             /\ \A g \in Handler : \/ handler'[g] = handler[g]
                                   \/ handler'[g].at \in {"redeem", "status"}
  <2>1. PICK at \in {"redeem", "status"} : Goto(h, [at |-> at, login |-> l, by |-> by])
    BY <1>5 DEF PollRead
  <2>2. [at |-> at, login |-> l, by |-> by] \in Place
    BY <1>5 DEF Place, Asking
  <2>3. QED
    BY <1>0, <2>1, <2>2 DEF Goto
<1>6. CASE Done(h)
  BY <1>0, <1>6, Answers DEF Done, Goto, Idle
<1>7. QED
  BY <1>3, <1>4, <1>5, <1>6

\* Revocation only marks sessions.
LEMMA Revoked ==
  ASSUME Shapes, NEW t \in DOMAIN session, Revoke(t)
  PROVE  /\ session' \in Seq(Sess) /\ Len(session') = Len(session)
         /\ \A s \in Token : session'[s].login = session[s].login
<1>1. session \in [Token -> Sess] /\ DOMAIN session = Token
  BY LenProperties DEF Shapes, Token
<1>2. \A s \in Token : /\ [session[s] EXCEPT !.revoked = TRUE] \in Sess
                       /\ [session[s] EXCEPT !.revoked = TRUE].login = session[s].login
  BY <1>1 DEF Sess
<1>3. session' \in [Token -> Sess] /\ \A s \in Token : session'[s].login = session[s].login
  <2>1. CASE \E s \in DOMAIN session : session' = [session EXCEPT ![s].revoked = TRUE]
    <3>1. PICK r \in Token : session' = [session EXCEPT ![r] = [session[r] EXCEPT !.revoked = TRUE]]
      BY <1>1, <2>1
    <3>2. QED
      BY <1>1, <1>2, <3>1
  <2>2. CASE session' = [s \in DOMAIN session |->
                           IF Subject[session[s].login] = Subject[session[t].login]
                           THEN [session[s] EXCEPT !.revoked = TRUE] ELSE session[s]]
    BY <1>1, <1>2, <2>2
  <2>3. QED
    BY <2>1, <2>2 DEF Revoke
<1>4. session' \in [1..Len(session) -> Sess] /\ session \in Seq(Sess)
  BY <1>3 DEF Token, Shapes
<1>5. session' \in Seq(Sess) /\ Len(session') = Len(session)
  BY <1>4, Rewritten
<1>6. QED
  BY <1>3, <1>5

\* Every step but a handler's own is quiet, and keeps the shapes.
LEMMA OtherSteps ==
  ASSUME Shapes, [Next]_vars, ~\E h \in Handler : HandlerStep(h)
  PROVE  Shapes' /\ Quiet
<1>1. ASSUME NEW l \in Login, StartBrowser(l) \/ StartGoogle(l)
      PROVE  Shapes' /\ Quiet
  <2>1. CreateSession(l) /\ UNCHANGED <<session, idp, handler, env, handed, now>>
    BY <1>1 DEF StartBrowser, StartGoogle, clients
  <2>2. QED
    BY <2>1, Created DEF Shapes, Quiet
<1>2. ASSUME NEW l \in Login, Answer(l)
      PROVE  Shapes' /\ Quiet
  <2>1. /\ idp' \in [Login -> {"asked", "denied", "granted", "redeemed"}]
        /\ \A k \in Login : idp[k] = "redeemed" => idp'[k] = "redeemed"
    BY <1>2 DEF Answer, Shapes
  <2>2. UNCHANGED <<row, session, handler, env, handed, now>>
    BY <1>2 DEF Answer, tables, clients
  <2>3. QED
    BY <2>1, <2>2 DEF Shapes, Quiet
<1>3. ASSUME NEW l \in Login, LoseAnswer(l) \/ TimeOut(l)
      PROVE  Shapes' /\ Quiet
  BY <1>3 DEF LoseAnswer, TimeOut, tables, Shapes, Quiet
<1>4. ASSUME NEW h \in Handler, NEW l \in Login, StartDevice(h, l)
      PROVE  Shapes' /\ Quiet
  <2>1. /\ CreateSession(l) /\ Goto(h, [at |-> "device", login |-> l])
        /\ UNCHANGED <<session, idp, env, handed, now>>
    BY <1>4 DEF StartDevice
  <2>2. QED
    BY Zenon, <2>1, Created, Accepted DEF Shapes, Quiet
<1>5. ASSUME NEW h \in Handler, NEW l \in Login,
             OAuthCallback(h, l) \/ ErrorCallback(h, l) \/ GoogleCallback(h, l)
               \/ Poll(h, l) \/ PollElsewhere(h, l)
      PROVE  Shapes' /\ Quiet
  <2>1. UNCHANGED <<row, session, idp, env, handed, now>>
    BY <1>5 DEF OAuthCallback, ErrorCallback, GoogleCallback, Poll, PollElsewhere, tables, clients
  <2>2. \/ Goto(h, [at |-> "exchange", login |-> l])
        \/ \E to \in {"failed", "callback_received"} : ReadPending(h, l, to)
        \/ \E by \in Asker : PollRead(h, l, by)
    BY <1>5 DEF OAuthCallback, ErrorCallback, GoogleCallback, Poll, PollElsewhere, Asker
  <2>3. QED
    BY <2>1, <2>2, Accepted DEF Shapes, Quiet
<1>6. ASSUME NEW h \in Handler, Crash(h)
      PROVE  Shapes' /\ Quiet
  <2>1. UNCHANGED <<row, session, idp, env, handed, now>> /\ handler' = [handler EXCEPT ![h] = Idle]
    BY <1>6 DEF Crash, tables, clients, Done, Goto
  <2>2. QED
    BY <2>1, Answers DEF Shapes, Quiet, Idle
<1>7. ASSUME NEW t \in DOMAIN session, Revoke(t)
      PROVE  Shapes' /\ Quiet
  <2>1. UNCHANGED <<row, idp, handler, env, handed, now>>
    BY <1>7 DEF Revoke, clients
  <2>2. QED
    BY <1>7, <2>1, Revoked DEF Shapes, Quiet
<1>8. CASE Tick
  BY <1>8 DEF Tick, tables, clients, Shapes, Quiet
<1>9. CASE UNCHANGED vars
  BY <1>9 DEF vars, Shapes, Quiet
<1>10. QED
  BY <1>1, <1>2, <1>3, <1>4, <1>5, <1>6, <1>7, <1>8, <1>9 DEF Next

-----------------------------------------------------------------------------
(* One session per login. *)

\* A handler that holds the provider's answer for a login and has not yet
\* committed its session.
Redeeming(h) == handler[h].at \in {"claims", "mint"}

\* A code is redeemed before anything is minted for it, one handler at most
\* holds the answer, and it holds it only until the session is there.
OnceInv ==
  /\ \A h \in Handler : Redeeming(h) =>
       /\ idp[handler[h].login] = "redeemed"
       /\ \A s \in Token : session[s].login # handler[h].login
       /\ \A g \in Handler : Redeeming(g) /\ handler[g].login = handler[h].login => g = h
  /\ \A s \in Token : idp[session[s].login] = "redeemed"
  /\ OneSessionPerLogin

\* Every token stands for a session of a login.
LEMMA SessionRows ==
  ASSUME Shapes
  PROVE  \A s \in Token : session[s].login \in Login
<1>1. session \in [1..Len(session) -> Sess]
  BY LenProperties DEF Shapes
<1>2. \A s \in Token : session[s] \in Sess
  BY <1>1 DEF Token
<1>3. QED
  BY <1>2 DEF Sess

\* Quiet steps start no completion.
LEMMA OnceQuiet ==
  ASSUME Shapes, OnceInv, Quiet
  PROVE  OnceInv'
<1>1. Token' = Token /\ \A s \in Token : session'[s].login = session[s].login
  BY DEF Quiet, Token
<1>2. \A h \in Handler : Redeeming(h)' => Redeeming(h) /\ handler'[h] = handler[h]
  BY DEF Quiet, Redeeming
<1>3. \A s \in Token : session[s].login \in Login
  BY SessionRows
<1>4. \A h \in Handler : Redeeming(h) => handler[h].login \in Login
  BY Locals DEF Shapes, Redeeming, Claiming, Minting
<1>5. \A l \in Login : idp[l] = "redeemed" => idp'[l] = "redeemed"
  BY DEF Quiet
<1>6. QED
  BY <1>1, <1>2, <1>3, <1>4, <1>5 DEF OnceInv, OneSessionPerLogin

\* No two handlers complete one login, whatever callbacks and polls overlap.
LEMMA OnceStep ==
  ASSUME Shapes, OnceInv, NEW h \in Handler, HandlerStep(h)
  PROVE  OnceInv'
<1> DEFINE c == handler[h]
<1>0. /\ c \in Place /\ handler \in [Handler -> Place]
      /\ idp \in [Login -> {"asked", "denied", "granted", "redeemed"}]
  BY DEF Shapes
<1>1. ASSUME UNCHANGED <<session, idp>>, NEW place, Goto(h, place),
             place.at \in {"claims", "mint"} => Redeeming(h) /\ place.login = c.login
      PROVE  OnceInv'
  <2>1. \A g \in Handler : g # h => handler'[g] = handler[g]
    BY <1>0, <1>1 DEF Goto
  <2>2. handler'[h] = place
    BY <1>0, <1>1 DEF Goto
  <2>3. \A g \in Handler : Redeeming(g)' => Redeeming(g) /\ handler'[g].login = handler[g].login
    BY <2>1, <2>2, <1>1 DEF Redeeming
  <2>4. Token' = Token /\ session' = session /\ idp' = idp
    BY <1>1 DEF Token
  <2>5. QED
    BY <2>3, <2>4 DEF OnceInv, OneSessionPerLogin
<1>2. ASSUME idp[c.login] = "granted", c.login \in Login,
             idp' = [idp EXCEPT ![c.login] = "redeemed"], UNCHANGED session,
             NEW place, Goto(h, place), place.at = "claims" => place.login = c.login,
             place.at # "mint", c.at \notin {"claims", "mint"}
      PROVE  OnceInv'
  <2>1. \A g \in Handler : g # h => handler'[g] = handler[g]
    BY <1>0, <1>2 DEF Goto
  <2>2. handler'[h] = place
    BY <1>0, <1>2 DEF Goto
  <2>3. \A s \in Token : session[s].login # c.login
    BY <1>2 DEF OnceInv
  <2>4. \A g \in Handler : Redeeming(g) => handler[g].login # c.login
    BY <1>2 DEF OnceInv
  <2>5. Token' = Token /\ session' = session
    BY <1>2 DEF Token
  <2>6. \A l \in Login : idp'[l] = IF l = c.login THEN "redeemed" ELSE idp[l]
    BY <1>0, <1>2
  <2>7. \A g \in Handler : Redeeming(g)' =>
          \/ g = h /\ handler'[g].login = c.login
          \/ g # h /\ Redeeming(g) /\ handler'[g] = handler[g]
    BY <2>1, <2>2, <1>2 DEF Redeeming
  <2>8. \A g \in Handler : Redeeming(g) => handler[g].login \in Login
    BY Locals DEF Shapes, Redeeming, Claiming, Minting
  <2>9. \A s \in Token : session[s].login \in Login
    BY SessionRows
  <2>10. \A g \in Handler : Redeeming(g)' =>
           /\ idp'[handler'[g].login] = "redeemed"
           /\ \A s \in Token : session'[s].login # handler'[g].login
    BY <1>2, <2>3, <2>5, <2>6, <2>7, <2>8 DEF OnceInv
  <2>11. \A f, g \in Handler :
           Redeeming(f)' /\ Redeeming(g)' /\ handler'[f].login = handler'[g].login => f = g
    BY <2>4, <2>7 DEF OnceInv
  <2>12. \A s \in Token : idp'[session'[s].login] = "redeemed"
    BY <2>5, <2>6, <2>9 DEF OnceInv
  <2>13. QED
    BY <2>5, <2>10, <2>11, <2>12 DEF OnceInv, OneSessionPerLogin
<1>3. CASE Mint(h)
  <2>0. Redeeming(h) /\ c \in Minting
    BY <1>0, <1>3, Locals DEF Mint, Redeeming
  <2> DEFINE new == [login |-> c.login, revoked |-> FALSE, expires |-> now + SessionTTL]
  <2>1. session \in Seq(Sess) /\ new \in Sess /\ new.login = c.login
    <3>1. session \in Seq(Sess) /\ now \in Nat
      BY DEF Shapes
    <3>2. c.login \in Login
      BY ONLY <2>0 DEF Minting
    <3>3. now + SessionTTL \in Nat
      BY ONLY <3>1, SessionsAssumption
    <3>4. QED
      BY ONLY <3>1, <3>2, <3>3 DEF Sess
  <2>2. session' = Append(session, new)
    BY <1>3 DEF Mint
  <2> HIDE DEF new
  <2>3. /\ Len(session') = Len(session) + 1 /\ Len(session) \in Nat
        /\ \A i \in 1..Len(session) : session'[i] = session[i]
        /\ session'[Len(session) + 1] = new
    BY <2>1, <2>2, Appended
  <2>4. \A s \in Token' : \/ s \in Token /\ session'[s] = session[s]
                          \/ s = Len(session) + 1 /\ session'[s].login = c.login
    BY <2>1, <2>3 DEF Token
  <2>5. handler'[h].at = "finish" /\ \A g \in Handler : g # h => handler'[g] = handler[g]
    BY <1>0, <1>3 DEF Mint, Goto
  <2>6. \A g \in Handler : Redeeming(g)' =>
          Redeeming(g) /\ handler'[g] = handler[g] /\ handler[g].login # c.login
    BY <2>0, <2>5 DEF Redeeming, OnceInv
  <2>7. idp' = idp /\ idp[c.login] = "redeemed" /\ \A s \in Token : session[s].login # c.login
    BY <1>3, <2>0 DEF Mint, OnceInv
  <2>8. QED
    BY <2>4, <2>6, <2>7 DEF OnceInv, OneSessionPerLogin
<1>4. CASE DeviceCode(h) \/ Validate(h) \/ ReceiveAnswer(h)
  <2>1. UNCHANGED <<session, idp>> /\ Goto(h, Idle)
    BY <1>4 DEF DeviceCode, Validate, ReceiveAnswer, tables, Done
  <2>2. QED
    BY <1>1, <2>1 DEF Idle
<1>5. CASE Status(h)
  <2>1. UNCHANGED <<session, idp>>
    BY <1>5 DEF Status, tables
  <2>2. PICK place : Goto(h, place) /\ place.at \in {"deliver", "reply"}
    BY <1>5 DEF Status, Reply
  <2>3. QED
    BY <1>1, <2>1, <2>2
<1>6. CASE Deliver(h)
  BY <1>1, <1>6 DEF Deliver, Reply
<1>7. CASE Finish(h)
  <2>1. c.then.at \in {"idle", "status"}
    BY <1>0, <1>7, Locals DEF Finish, Finishing, Then, Idle
  <2>2. QED
    BY <1>1, <1>7, <2>1 DEF Finish
<1>8. CASE Claims(h) \/ GoogleClaims(h)
  <2>1. UNCHANGED <<session, idp>> /\ c.at = "claims"
    BY <1>8 DEF Claims, GoogleClaims, tables
  <2>2. CASE ToMint(h)
    BY <1>1, <2>1, <2>2 DEF ToMint, Redeeming
  <2>3. CASE Goto(h, Refused(c)) \/ Done(h)
    BY <1>1, <2>1, <2>3 DEF Refused, Reply, Done, Idle
  <2>4. QED
    BY <1>8, <2>2, <2>3 DEF Claims, GoogleClaims
<1>9. CASE Exchange(h)
  <2>1. c.login \in Login /\ c.at = "exchange" /\ UNCHANGED session
    BY <1>0, <1>9, Locals DEF Exchange, Plain, tables
  <2>2. PICK place : /\ Goto(h, place) /\ place.at # "mint"
                     /\ place.at = "claims" => place.login = c.login
                     /\ \/ idp[c.login] = "granted" /\ idp' = [idp EXCEPT ![c.login] = "redeemed"]
                        \/ idp' = idp /\ place.at = "idle"
    BY <1>9 DEF Exchange, Done, Idle
  <2>3. QED
    BY <1>1, <1>2, <2>1, <2>2
<1>10. CASE Redeem(h)
  <2>1. c.login \in Login /\ c.at = "redeem" /\ UNCHANGED session
    BY <1>0, <1>10, Locals DEF Redeem, Asking, tables
  <2>2. PICK place : /\ Goto(h, place) /\ place.at # "mint"
                     /\ place.at = "claims" => place.login = c.login
                     /\ \/ idp[c.login] = "granted" /\ idp' = [idp EXCEPT ![c.login] = "redeemed"]
                        \/ idp' = idp /\ place.at = "reply"
    BY <1>10 DEF Redeem, Reply
  <2>3. QED
    BY <1>1, <1>2, <2>1, <2>2
<1>11. QED
  BY <1>3, <1>4, <1>5, <1>6, <1>7, <1>8, <1>9, <1>10 DEF HandlerStep

-----------------------------------------------------------------------------
(* Tokens stay with their login. *)

\* A token, if there is one, belongs to a committed session of the login.
Owned(s, l) == s # None => s \in Token /\ session[s].login = l

RowOwns(l) ==
  /\ Owned(row[l].meta.bearer, l) /\ Owned(env[l], l)
  /\ row[l].status = "completed" =>
       ~row[l].meta.verifier /\ \E s \in Token : session[s].login = l
  /\ row[l].status = "pending" => row[l].meta.bearer = None

\* What a handler has read or made is of its login too, and what it will write
\* back takes no token away from a row.
HandlerOwns(h) ==
  LET c == handler[h] IN
  /\ c.at = "finish" => c.token \in Token /\ session[c.token].login = c.login
  /\ c.at = "reply" => Owned(c.token, c.login)
  /\ c.at = "deliver" => ~c.meta.verifier /\ Owned(c.meta.bearer, c.login)
  /\ c.at = "validate" => c.meta.bearer = None

OwnInv == (\A l \in Login : RowOwns(l)) /\ (\A h \in Handler : HandlerOwns(h))

\* Sessions are only ever added.
Grows == Token \subseteq Token' /\ \A s \in Token : session'[s].login = session[s].login

\* What a step leaves alone keeps its owner.
LEMMA OwnersStay ==
  ASSUME Grows
  PROVE  /\ \A s, l : Owned(s, l) => Owned(s, l)'
         /\ \A l \in Login : RowOwns(l) /\ row'[l] = row[l] /\ env'[l] = env[l] => RowOwns(l)'
         /\ \A h \in Handler : HandlerOwns(h) /\ handler'[h] = handler[h] => HandlerOwns(h)'
<1>1. ASSUME NEW s, NEW l, Owned(s, l) PROVE Owned(s, l)'
  BY <1>1 DEF Owned, Grows
<1>2. ASSUME NEW l \in Login, RowOwns(l), row'[l] = row[l], env'[l] = env[l]
      PROVE  RowOwns(l)'
  BY <1>2 DEF RowOwns, Owned, Grows
<1>3. ASSUME NEW h \in Handler, HandlerOwns(h), handler'[h] = handler[h]
      PROVE  HandlerOwns(h)'
  BY <1>3 DEF HandlerOwns, Owned, Grows
<1>4. QED
  BY <1>1, <1>2, <1>3

\* Quiet steps hand no token over.
LEMMA OwnQuiet ==
  ASSUME OwnInv, Quiet
  PROVE  OwnInv'
<1>1. Grows
  BY DEF Grows, Quiet, Token
<1>2. ASSUME NEW l \in Login PROVE RowOwns(l)'
  <2>1. RowOwns(l) /\ env'[l] = env[l]
    BY DEF OwnInv, Quiet
  <2>2. CASE row'[l] = row[l]
    BY <1>1, <2>1, <2>2, OwnersStay
  <2>3. CASE row'[l].status = "pending" /\ row'[l].meta.bearer = None
    BY <1>1, <2>1, <2>3 DEF RowOwns, Owned, Grows
  <2>4. QED
    BY <2>2, <2>3 DEF Quiet
<1>3. ASSUME NEW h \in Handler PROVE HandlerOwns(h)'
  <2>1. HandlerOwns(h)
    BY DEF OwnInv
  <2>2. CASE handler'[h] = handler[h]
    BY <1>1, <2>1, <2>2, OwnersStay
  <2>3. CASE handler'[h].at \in {"idle", "device", "exchange", "redeem", "status"}
    BY <2>3 DEF HandlerOwns
  <2>4. CASE /\ handler'[h].at = "validate"
             /\ \E l \in Login : row[l].status = "pending" /\ handler'[h].meta = row[l].meta
    BY <2>4 DEF HandlerOwns, OwnInv, RowOwns
  <2>5. QED
    BY <2>2, <2>3, <2>4 DEF Quiet
<1>4. QED
  BY <1>2, <1>3 DEF OwnInv

\* Neither does a step of a handler, whatever it read before.
LEMMA OwnStep ==
  ASSUME Shapes, OwnInv, NEW h \in Handler, HandlerStep(h)
  PROVE  OwnInv'
<1> DEFINE c == handler[h]
<1>0. /\ c \in Place /\ handler \in [Handler -> Place]
      /\ row \in [Login -> Row] /\ env \in [Login -> Maybe]
      /\ HandlerOwns(h) /\ \A l \in Login : RowOwns(l) /\ row[l].meta \in Meta
  BY DEF Shapes, OwnInv, Row
<1>1. ASSUME Grows, NEW l \in Login, NEW place, Goto(h, place), HandlerOwns(h)', RowOwns(l)',
             \A k \in Login : k # l => row'[k] = row[k] /\ env'[k] = env[k]
      PROVE  OwnInv'
  <2>1. \A g \in Handler : g # h => handler'[g] = handler[g]
    BY <1>0, <1>1 DEF Goto
  <2>2. QED
    BY <1>1, <2>1, OwnersStay DEF OwnInv
<1>2. ASSUME UNCHANGED <<row, session, env>>, NEW place, Goto(h, place), HandlerOwns(h)'
      PROVE  OwnInv'
  <2>1. Grows
    BY <1>2 DEF Grows, Token
  <2>2. \A g \in Handler : g # h => handler'[g] = handler[g]
    BY <1>0, <1>2 DEF Goto
  <2>3. QED
    BY <1>2, <2>1, <2>2, OwnersStay DEF OwnInv
<1>3. CASE DeviceCode(h)
  <2>1. c.login \in Login /\ UNCHANGED <<session, env>> /\ Goto(h, Idle)
    BY <1>0, <1>3, Locals DEF DeviceCode, Plain, Done
  <2>l. PICK l \in Login : l = c.login
    BY <2>1
  <2>2. HandlerOwns(h)'
    BY <1>0, <2>1 DEF HandlerOwns, Goto, Idle
  <2>3. Grows
    BY <2>1 DEF Grows, Token
  <2>4. RowOwns(l)'
    <3>1. CASE row' = row
      BY <2>l, <1>0, <2>1, <2>3, <3>1, OwnersStay
    <3>2. CASE row' = [row EXCEPT ![c.login].meta = [NoMeta EXCEPT !.device = TRUE]]
      <4>1. /\ row'[c.login].meta = [NoMeta EXCEPT !.device = TRUE]
            /\ row'[c.login].status = row[c.login].status
        BY <2>l, <1>0, <2>1, <3>2 DEF Row
      <4>2. row'[c.login].meta.bearer = None /\ ~row'[c.login].meta.verifier
        BY <2>l, <4>1 DEF NoMeta
      <4>3. RowOwns(c.login)
        BY <2>l, <1>0, <2>1
      <4>4. QED
        BY <2>l, <2>1, <2>3, <4>1, <4>2, <4>3 DEF RowOwns, Owned, Grows
    <3>3. QED
      BY <2>l, <1>3, <3>1, <3>2 DEF DeviceCode
  <2>5. \A k \in Login : k # l => row'[k] = row[k] /\ env'[k] = env[k]
    BY <2>l, <1>0, <1>3, <2>1 DEF DeviceCode
  <2>6. QED
    BY <2>l, <1>1, <2>1, <2>2, <2>3, <2>4, <2>5
<1>4. CASE Validate(h)
  <2>1. c.login \in Login /\ UNCHANGED <<session, env>> /\ Goto(h, Idle)
    BY <1>0, <1>4, Locals DEF Validate, Validating, Done, clients
  <2>l. PICK l \in Login : l = c.login
    BY <2>1
  <2>2. HandlerOwns(h)'
    BY <1>0, <2>1 DEF HandlerOwns, Goto, Idle
  <2>3. Grows
    BY <2>1 DEF Grows, Token
  <2>4. c.to \in {"expired", "failed", "callback_received"} /\ c.meta.bearer = None
    BY <1>0, <1>4, Locals DEF Validate, Validating, HandlerOwns
  <2>5. /\ row'[c.login].status = c.to
        /\ row'[c.login].meta = IF c.to = "expired" THEN row[c.login].meta ELSE c.meta
    BY <1>0, <1>4, <2>1 DEF Validate, Row
  <2>6. RowOwns(c.login)
    BY <1>0, <2>1
  <2>7. RowOwns(l)'
    BY <2>l, <2>1, <2>3, <2>4, <2>5, <2>6 DEF RowOwns, Owned, Grows
  <2>8. \A k \in Login : k # l => row'[k] = row[k] /\ env'[k] = env[k]
    BY <2>l, <1>0, <1>4, <2>1 DEF Validate
  <2>9. QED
    BY <2>l, <1>1, <2>1, <2>2, <2>3, <2>7, <2>8
<1>5. CASE Exchange(h) \/ Claims(h) \/ GoogleClaims(h) \/ Redeem(h)
  <2>1. UNCHANGED <<row, session, env>>
    BY <1>5 DEF Exchange, Claims, GoogleClaims, Redeem, tables, clients
  <2>2. PICK place : /\ Goto(h, place)
                     /\ \/ place.at \in {"claims", "mint", "idle"}
                        \/ place.at = "reply" /\ place.token = None
    BY <1>5 DEF Exchange, Claims, GoogleClaims, Redeem, ToMint, Refused, Reply, Done, Idle
  <2>3. HandlerOwns(h)'
    BY <1>0, <2>2 DEF HandlerOwns, Goto, Owned
  <2>4. QED
    BY <1>2, <2>1, <2>2, <2>3
<1>6. CASE Status(h)
  <2>1. UNCHANGED <<row, session, env>> /\ c.login \in Login
    BY <1>0, <1>6, Locals DEF Status, tables, clients, Asking
  <2>2. PICK place : /\ Goto(h, place)
                     /\ \/ /\ place.at = "deliver" /\ place.login = c.login
                           /\ place.meta = row[c.login].meta /\ row[c.login].status = "completed"
                        \/ place.at = "reply" /\ place.token = None
    BY ONLY h \in Handler, <1>6, StatusPlace
  <2>3. RowOwns(c.login) /\ handler'[h] = place
    BY <1>0, <2>1, <2>2 DEF Goto
  <2>4. HandlerOwns(h)'
    BY <2>1, <2>2, <2>3 DEF HandlerOwns, Owned, RowOwns, Token
  <2>5. QED
    BY <1>2, <2>1, <2>2, <2>4
<1>7. CASE Mint(h)
  <2>1. c \in Minting /\ c.login \in Login /\ UNCHANGED <<row, env>>
    BY <1>0, <1>7, Locals DEF Mint, Minting, clients
  <2>l. PICK l \in Login : l = c.login
    BY <2>1
  <2> DEFINE new == [login |-> c.login, revoked |-> FALSE, expires |-> now + SessionTTL]
  <2>2. session \in Seq(Sess) /\ new \in Sess /\ new.login = c.login
    BY <2>1, SessionsAssumption DEF Shapes, Sess
  <2>3. session' = Append(session, new)
    BY <1>7 DEF Mint
  <2> HIDE DEF new
  <2>4. /\ Len(session') = Len(session) + 1 /\ Len(session) \in Nat
        /\ \A i \in 1..Len(session) : session'[i] = session[i]
        /\ session'[Len(session) + 1] = new
    BY <2>2, <2>3, Appended
  <2>5. Grows
    BY <2>4 DEF Grows, Token
  <2>6. PICK place : /\ Goto(h, place) /\ place.at = "finish"
                     /\ place.token = Len(session) + 1 /\ place.login = c.login
    BY <1>7 DEF Mint
  <2>7. handler'[h] = place /\ Len(session) + 1 \in Token'
    BY <1>0, <2>4, <2>6 DEF Goto, Token
  <2>8. HandlerOwns(h)'
    BY <2>2, <2>4, <2>6, <2>7 DEF HandlerOwns
  <2>9. RowOwns(l)'
    BY <2>l, <1>0, <2>1, <2>5, OwnersStay
  <2>10. QED
    BY <2>l, <1>1, <2>1, <2>5, <2>6, <2>8, <2>9
<1>8. CASE Finish(h)
  <2>1. c \in Finishing /\ c.login \in Login /\ UNCHANGED <<session, env>> /\ Goto(h, c.then)
    BY <1>0, <1>8, Locals DEF Finish, Finishing, clients
  <2>l. PICK l \in Login : l = c.login
    BY <2>1
  <2>2. HandlerOwns(h)'
    <3>1. c.then.at \in {"idle", "status"}
      <4>1. c.then \in Then
        BY ONLY <2>1 DEF Finishing
      <4>2. QED
        BY ONLY <4>1 DEF Then, Idle
    <3>2. QED
      BY <1>0, <2>1, <3>1 DEF HandlerOwns, Goto
  <2>3. Grows
    BY <2>1 DEF Grows, Token
  <2> DEFINE meta == [c.meta EXCEPT !.verifier = FALSE, !.bearer = c.token,
                                    !.deliverBy = now + DeliveryTTL]
  <2>4. meta.bearer = c.token /\ ~meta.verifier
    BY <2>1 DEF Finishing, Meta
  <2>5. row' = [row EXCEPT ![c.login].status = "completed", ![c.login].meta = meta]
    BY <1>8 DEF Finish, Completed
  <2> HIDE DEF meta
  <2>6. row'[c.login].status = "completed" /\ row'[c.login].meta = meta
    BY <1>0, <2>1, <2>5 DEF Row
  <2>7. c.token \in Token /\ session[c.token].login = c.login /\ RowOwns(c.login)
    BY <1>0, <1>8, <2>1 DEF Finish, HandlerOwns
  <2>8. RowOwns(l)'
    BY <2>l, <2>1, <2>3, <2>4, <2>6, <2>7 DEF RowOwns, Owned, Grows
  <2>9. \A k \in Login : k # l => row'[k] = row[k] /\ env'[k] = env[k]
    BY <2>l, <1>0, <2>1, <2>5
  <2>10. QED
    BY <2>l, <1>1, <2>1, <2>2, <2>3, <2>8, <2>9
<1>9. CASE Deliver(h)
  <2>1. c \in Delivering /\ c.login \in Login /\ UNCHANGED <<session, env>>
    BY <1>0, <1>9, Locals DEF Deliver, Delivering, clients
  <2>l. PICK l \in Login : l = c.login
    BY <2>1
  <2>2. ~c.meta.verifier /\ Owned(c.meta.bearer, c.login)
    BY <1>0, <1>9 DEF Deliver, HandlerOwns
  <2>3. PICK place : /\ Goto(h, place) /\ place.at = "reply" /\ place.login = c.login
                     /\ place.token \in {None, c.meta.bearer}
    BY <1>9 DEF Deliver, Reply, Offered
  <2>4. Grows
    BY <2>1 DEF Grows, Token
  <2>5. HandlerOwns(h)'
    BY <1>0, <2>1, <2>2, <2>3 DEF HandlerOwns, Goto, Owned, Token
  <2> DEFINE meta == [c.meta EXCEPT !.bearer = None]
  <2>6. meta.bearer = None /\ ~meta.verifier
    BY <2>1, <2>2 DEF Delivering, Meta
  <2>7. row' = [row EXCEPT ![c.login].meta = meta]
    BY <1>9 DEF Deliver
  <2> HIDE DEF meta
  <2>8. row'[c.login].status = row[c.login].status /\ row'[c.login].meta = meta
    BY <1>0, <2>1, <2>7 DEF Row
  <2>9. RowOwns(c.login)
    BY <1>0, <2>1
  <2>10. RowOwns(l)'
    BY <2>l, <2>1, <2>4, <2>6, <2>8, <2>9 DEF RowOwns, Owned, Grows
  <2>11. \A k \in Login : k # l => row'[k] = row[k] /\ env'[k] = env[k]
    BY <2>l, <1>0, <2>1, <2>7
  <2>12. QED
    BY <2>l, <1>1, <2>1, <2>3, <2>4, <2>5, <2>10, <2>11
<1>10. CASE ReceiveAnswer(h)
  <2>1. c.login \in Login /\ UNCHANGED <<row, session>> /\ Goto(h, Idle)
    BY <1>0, <1>10, Locals DEF ReceiveAnswer, Replying, tables, Done
  <2>l. PICK l \in Login : l = c.login
    BY <2>1
  <2>2. HandlerOwns(h)'
    BY <1>0, <2>1 DEF HandlerOwns, Goto, Idle
  <2>3. Grows
    BY <2>1 DEF Grows, Token
  <2>4. Owned(c.token, c.login) /\ RowOwns(c.login)
    BY <1>0, <1>10, <2>1 DEF ReceiveAnswer, HandlerOwns
  <2>5. env' \in {env, [env EXCEPT ![c.login] = c.token]}
    BY <1>10 DEF ReceiveAnswer
  <2>6. RowOwns(l)'
    BY <2>l, <1>0, <2>1, <2>3, <2>4, <2>5 DEF RowOwns, Owned, Grows
  <2>7. \A k \in Login : k # l => row'[k] = row[k] /\ env'[k] = env[k]
    BY <2>l, <1>0, <2>1, <2>5
  <2>8. QED
    BY <2>l, <1>1, <2>1, <2>2, <2>3, <2>6, <2>7
<1>11. QED
  BY <1>3, <1>4, <1>5, <1>6, <1>7, <1>8, <1>9, <1>10 DEF HandlerStep

-----------------------------------------------------------------------------
(* A token handed out never comes back. *)

Bearer(l) == row[l].meta.bearer
At(h, at) == handler[h].at = at

\* The token a completion is about to write is nowhere else yet.
PurgeInv ==
  /\ \A h \in Handler : At(h, "finish") /\ handler[h].token # None =>
       /\ handed[handler[h].token] = 0
       /\ \A l \in Login : Bearer(l) # handler[h].token
       /\ \A g \in Handler : At(g, "deliver") => handler[g].meta.bearer # handler[h].token
       /\ \A g \in Handler : At(g, "finish") /\ g # h => handler[g].token # handler[h].token
  /\ PurgedOnceHandedOut

\* A step that at most empties rows and that starts no completion or delivery.
LEMMA PurgeCalm ==
  ASSUME PurgeInv, handed' = handed,
         \A l \in Login : Bearer(l)' \in {Bearer(l), None},
         \A g \in Handler : \/ handler'[g] = handler[g]
                            \/ handler'[g].at \notin {"finish", "deliver"}
  PROVE  PurgeInv'
<1>1. \A g \in Handler : At(g, "finish")' => At(g, "finish") /\ handler'[g] = handler[g]
  BY DEF At
<1>2. \A g \in Handler : At(g, "deliver")' => At(g, "deliver") /\ handler'[g] = handler[g]
  BY DEF At
<1>3. PurgedOnceHandedOut'
  BY DEF PurgeInv, PurgedOnceHandedOut, Bearer
<1>4. ASSUME NEW f \in Handler, At(f, "finish")', handler'[f].token # None
      PROVE  /\ handed'[handler'[f].token] = 0
             /\ \A k \in Login : Bearer(k)' # handler'[f].token
             /\ \A g \in Handler : At(g, "deliver")' =>
                  handler'[g].meta.bearer # handler'[f].token
             /\ \A g \in Handler : At(g, "finish")' /\ g # f =>
                  handler'[g].token # handler'[f].token
  <2>1. At(f, "finish") /\ handler'[f] = handler[f]
    BY ONLY f \in Handler, <1>1, <1>4
  <2>2. /\ handed[handler[f].token] = 0
        /\ \A k \in Login : Bearer(k) # handler[f].token
        /\ \A g \in Handler : At(g, "deliver") => handler[g].meta.bearer # handler[f].token
        /\ \A g \in Handler : At(g, "finish") /\ g # f => handler[g].token # handler[f].token
    BY ONLY PurgeInv, f \in Handler, <1>4, <2>1 DEF PurgeInv
  <2>3. \A k \in Login : Bearer(k)' # handler'[f].token
    BY <1>4, <2>1, <2>2
  <2>4. QED
    BY ONLY handed' = handed, <1>1, <1>2, <2>1, <2>2, <2>3
<1>5. QED
  BY ONLY <1>3, <1>4 DEF PurgeInv

\* Quiet steps are calm.
LEMMA PurgeQuiet ==
  ASSUME PurgeInv, Quiet
  PROVE  PurgeInv'
<1>1. \A l \in Login : Bearer(l)' \in {Bearer(l), None}
  BY DEF Quiet, Bearer
<1>2. \A g \in Handler : \/ handler'[g] = handler[g]
                         \/ handler'[g].at \notin {"finish", "deliver"}
  BY DEF Quiet
<1>3. QED
  BY <1>1, <1>2, PurgeCalm DEF Quiet

\* A new token is in no row, in no delivery and in no other completion, and it
\* was never handed out.
LEMMA PurgeMint ==
  ASSUME Shapes, OwnInv, PurgeInv, NEW h \in Handler, Mint(h)
  PROVE  PurgeInv'
<1>0. PICK new : new = Len(session) + 1
  OBVIOUS
<1>1. handler \in [Handler -> Place] /\ Len(session) \in Nat /\ handed \in Seq(Nat)
  BY LenProperties DEF Shapes
<1>2. new \notin Token
  BY <1>0, <1>1 DEF Token
<1>3. /\ \A i \in Token : handed'[i] = handed[i]
      /\ handed'[new] = 0
  <2>1. handed' = Append(handed, 0) /\ Len(handed) = Len(session) /\ 0 \in Nat
    BY DEF Mint, Shapes
  <2>2. QED
    BY <1>0, <1>1, <2>1, Appended DEF Token
<1>4. /\ handler'[h].at = "finish" /\ handler'[h].token = new
      /\ \A g \in Handler : g # h => handler'[g] = handler[g]
  BY <1>0, <1>1 DEF Mint, Goto
<1>5. row' = row
  BY DEF Mint
<1>6. /\ \A l \in Login : Bearer(l) # None => Bearer(l) \in Token
      /\ \A g \in Handler : At(g, "finish") => handler[g].token \in Token
      /\ \A g \in Handler : At(g, "deliver") /\ handler[g].meta.bearer # None =>
                              handler[g].meta.bearer \in Token
  BY DEF OwnInv, RowOwns, HandlerOwns, Owned, Bearer, At
<1>7. PurgedOnceHandedOut'
  BY <1>3, <1>5, <1>6 DEF PurgeInv, PurgedOnceHandedOut, Bearer
<1>8. \A g \in Handler : At(g, "deliver")' => At(g, "deliver") /\ handler'[g] = handler[g]
  BY <1>4 DEF At
<1>9. \A g \in Handler : At(g, "finish")' =>
        \/ g = h /\ handler'[g].token = new
        \/ g # h /\ At(g, "finish") /\ handler'[g] = handler[g] /\ handler[g].token \in Token
  BY <1>4, <1>6 DEF At
<1>10. \A l \in Login : Bearer(l)' = Bearer(l)
  BY <1>5 DEF Bearer
<1>11. ASSUME NEW g \in Handler, At(g, "finish")', handler'[g].token # None
       PROVE  /\ handed'[handler'[g].token] = 0
              /\ \A l \in Login : Bearer(l)' # handler'[g].token
              /\ \A f \in Handler : At(f, "deliver")' => handler'[f].meta.bearer # handler'[g].token
              /\ \A f \in Handler : At(f, "finish")' /\ f # g =>
                                      handler'[f].token # handler'[g].token
  <2>1. CASE g = h
    BY <1>2, <1>3, <1>4, <1>6, <1>8, <1>9, <1>10, <1>11, <2>1
  <2>2. CASE g # h
    <3>1. At(g, "finish") /\ handler'[g] = handler[g] /\ handler[g].token \in Token
      BY <1>9, <1>11, <2>2
    <3>2. /\ handed[handler[g].token] = 0
          /\ \A l \in Login : Bearer(l) # handler[g].token
          /\ \A f \in Handler : At(f, "deliver") => handler[f].meta.bearer # handler[g].token
          /\ \A f \in Handler : At(f, "finish") /\ f # g => handler[f].token # handler[g].token
      BY <1>11, <3>1 DEF PurgeInv
    <3>3. QED
      BY <1>2, <1>3, <1>8, <1>9, <1>10, <3>1, <3>2
  <2>3. QED
    BY <2>1, <2>2
<1>12. QED
  BY <1>7, <1>11 DEF PurgeInv

\* The completion puts its token in the row: the first time it can be read.
LEMMA PurgeFinish ==
  ASSUME Shapes, PurgeInv, NEW h \in Handler, Finish(h)
  PROVE  PurgeInv'
<1> DEFINE c == handler[h]
<1>1. /\ handler \in [Handler -> Place] /\ row \in [Login -> Row] /\ handed' = handed
      /\ c \in Finishing /\ c.login \in Login /\ At(h, "finish")
  BY Locals DEF Shapes, Finish, Finishing, At
<1>2. PICK l, token : l \in Login /\ l = c.login /\ token = c.token
  BY <1>1
<1>3. \A k \in Login : Bearer(k)' = IF k = l THEN token ELSE Bearer(k)
  <2> DEFINE meta == [c.meta EXCEPT !.verifier = FALSE, !.bearer = c.token,
                                    !.deliverBy = now + DeliveryTTL]
  <2>1. meta.bearer = token
    BY <1>1, <1>2 DEF Finishing, Meta
  <2>2. row' = [row EXCEPT ![l].status = "completed", ![l].meta = meta]
    BY <1>2 DEF Finish, Completed
  <2> HIDE DEF meta
  <2>3. QED
    BY <1>1, <1>2, <2>1, <2>2 DEF Bearer, Row
<1>4. c.then.at \in {"idle", "status"}
  BY <1>1 DEF Finishing, Then, Idle
<1>5. /\ handler'[h].at \in {"idle", "status"}
      /\ \A g \in Handler : g # h => handler'[g] = handler[g]
  BY <1>1, <1>4 DEF Finish, Goto
<1>6. \A g \in Handler : \A at \in {"finish", "deliver"} :
        At(g, at)' => g # h /\ At(g, at) /\ handler'[g] = handler[g]
  BY <1>5 DEF At
<1>7. token # None => handed[token] = 0
  BY <1>1, <1>2 DEF PurgeInv
<1>8. PurgedOnceHandedOut'
  <2>1. \A k \in Login : Bearer(k)' # None => handed[Bearer(k)'] = 0
    BY <1>3, <1>7 DEF PurgeInv, PurgedOnceHandedOut, Bearer
  <2>2. QED
    BY <1>1, <2>1 DEF PurgedOnceHandedOut, Bearer
<1>9. \A g \in Handler : At(g, "finish") /\ g # h /\ handler[g].token # None => handler[g].token # token
  BY <1>1, <1>2 DEF PurgeInv
<1>10. ASSUME NEW f \in Handler, At(f, "finish")', handler'[f].token # None
       PROVE  /\ handed'[handler'[f].token] = 0
              /\ \A k \in Login : Bearer(k)' # handler'[f].token
              /\ \A g \in Handler : At(g, "deliver")' =>
                   handler'[g].meta.bearer # handler'[f].token
              /\ \A g \in Handler : At(g, "finish")' /\ g # f =>
                   handler'[g].token # handler'[f].token
  <2>1. f # h /\ At(f, "finish") /\ handler'[f] = handler[f]
    BY ONLY f \in Handler, <1>6, <1>10
  <2>2. /\ handed[handler[f].token] = 0
        /\ \A k \in Login : Bearer(k) # handler[f].token
        /\ \A g \in Handler : At(g, "deliver") => handler[g].meta.bearer # handler[f].token
        /\ \A g \in Handler : At(g, "finish") /\ g # f => handler[g].token # handler[f].token
    BY ONLY PurgeInv, f \in Handler, <1>10, <2>1 DEF PurgeInv
  <2>3. handler[f].token # token
    BY ONLY f \in Handler, <1>9, <1>10, <2>1
  <2>4. handed'[handler[f].token] = 0
    BY ONLY <1>1, <2>2, <2>3
  <2>5. \A k \in Login : Bearer(k)' # handler[f].token
    BY ONLY <1>3, <1>10, <2>1, <2>2, <2>3
  <2>6. QED
    BY ONLY <1>6, <2>1, <2>2, <2>4, <2>5
<1>11. QED
  BY ONLY <1>8, <1>10 DEF PurgeInv

\* A delivery takes the token it hands out from the row, whoever read it too.
LEMMA PurgeDeliver ==
  ASSUME Shapes, OwnInv, PurgeInv, NEW h \in Handler, Deliver(h)
  PROVE  PurgeInv'
<1> DEFINE c == handler[h]
<1>1. /\ handler \in [Handler -> Place] /\ row \in [Login -> Row]
      /\ c \in Delivering /\ c.login \in Login /\ At(h, "deliver")
  BY Locals DEF Shapes, Deliver, Delivering, At
<1>2. PICK l, token : l \in Login /\ l = c.login /\ token = Offered(c.meta)
  BY <1>1
<1>3. \A k \in Login : Bearer(k)' = IF k = l THEN None ELSE Bearer(k)
  <2> DEFINE meta == [c.meta EXCEPT !.bearer = None]
  <2>1. meta.bearer = None
    BY <1>1 DEF Delivering, Meta
  <2>2. row' = [row EXCEPT ![l].meta = meta]
    BY <1>2 DEF Deliver
  <2> HIDE DEF meta
  <2>3. QED
    BY <1>1, <1>2, <2>1, <2>2 DEF Bearer, Row
<1>4. /\ handler'[h].at = "reply"
      /\ \A g \in Handler : g # h => handler'[g] = handler[g]
  BY <1>1 DEF Deliver, Goto, Reply
<1>5. \A g \in Handler : \A at \in {"finish", "deliver"} :
        At(g, at)' => g # h /\ At(g, at) /\ handler'[g] = handler[g]
  BY <1>4 DEF At
<1>6. token = None \/ token = c.meta.bearer
  BY <1>2 DEF Offered
<1>7. token # None => token \in Token /\ session[token].login = l
  BY <1>1, <1>2, <1>6 DEF OwnInv, HandlerOwns, Owned, At
<1>8. \A k \in Login : k # l /\ Bearer(k) # None => Bearer(k) # token
  BY <1>7 DEF OwnInv, RowOwns, Owned, Bearer
<1>9. \A g \in Handler : At(g, "finish") /\ handler[g].token # None => handler[g].token # token
  BY <1>1, <1>6 DEF PurgeInv
<1>10. \A s : s # token => handed'[s] = handed[s]
  BY <1>2 DEF Deliver, HandOut
<1>11. PurgedOnceHandedOut'
  <2>1. \A k \in Login : Bearer(k)' # None => k # l /\ Bearer(k)' = Bearer(k) /\ Bearer(k) # token
    BY <1>3, <1>8
  <2>2. \A k \in Login : Bearer(k)' # None => handed'[Bearer(k)'] = 0
    BY <1>10, <2>1 DEF PurgeInv, PurgedOnceHandedOut, Bearer
  <2>3. QED
    BY <2>2 DEF PurgedOnceHandedOut, Bearer
<1>12. ASSUME NEW f \in Handler, At(f, "finish")', handler'[f].token # None
       PROVE  /\ handed'[handler'[f].token] = 0
              /\ \A k \in Login : Bearer(k)' # handler'[f].token
              /\ \A g \in Handler : At(g, "deliver")' =>
                   handler'[g].meta.bearer # handler'[f].token
              /\ \A g \in Handler : At(g, "finish")' /\ g # f =>
                   handler'[g].token # handler'[f].token
  <2>1. f # h /\ At(f, "finish") /\ handler'[f] = handler[f]
    BY ONLY f \in Handler, <1>5, <1>12
  <2>2. /\ handed[handler[f].token] = 0
        /\ \A k \in Login : Bearer(k) # handler[f].token
        /\ \A g \in Handler : At(g, "deliver") => handler[g].meta.bearer # handler[f].token
        /\ \A g \in Handler : At(g, "finish") /\ g # f => handler[g].token # handler[f].token
    BY ONLY PurgeInv, f \in Handler, <1>12, <2>1 DEF PurgeInv
  <2>3. handler[f].token # token
    BY ONLY f \in Handler, <1>9, <1>12, <2>1
  <2>4. handed'[handler[f].token] = 0
    BY ONLY <1>10, <2>2, <2>3
  <2>5. \A k \in Login : Bearer(k)' # handler[f].token
    BY ONLY <1>3, <1>12, <2>1, <2>2, <2>3
  <2>6. QED
    BY ONLY <1>5, <2>1, <2>2, <2>4, <2>5
<1>13. QED
  BY ONLY <1>11, <1>12 DEF PurgeInv

\* No step of a handler brings a token back.
LEMMA PurgeStep ==
  ASSUME Shapes, OwnInv, PurgeInv, NEW h \in Handler, HandlerStep(h)
  PROVE  PurgeInv'
<1> DEFINE c == handler[h]
<1>0. handler \in [Handler -> Place] /\ row \in [Login -> Row] /\ c \in Place
  BY DEF Shapes
<1>1. ASSUME handed' = handed, \A l \in Login : Bearer(l)' \in {Bearer(l), None},
             NEW place, Goto(h, place), place.at \notin {"finish", "deliver"}
      PROVE  PurgeInv'
  BY <1>0, <1>1, PurgeCalm DEF Goto
<1>2. CASE DeviceCode(h)
  <2>1. c.login \in Login /\ handed' = handed /\ Goto(h, Idle)
    BY <1>0, <1>2, Locals DEF DeviceCode, Plain, Done
  <2>2. PICK meta : /\ meta.bearer = None
                    /\ row' = row \/ row' = [row EXCEPT ![c.login].meta = meta]
    <3>1. [NoMeta EXCEPT !.device = TRUE].bearer = None
      BY DEF NoMeta
    <3>2. row' = row \/ row' = [row EXCEPT ![c.login].meta = [NoMeta EXCEPT !.device = TRUE]]
      BY <1>2 DEF DeviceCode
    <3>3. QED
      BY <3>1, <3>2
  <2>3. \A l \in Login : Bearer(l)' \in {Bearer(l), None}
    BY <1>0, <2>1, <2>2 DEF Bearer, Row
  <2>4. QED
    BY <1>1, <2>1, <2>3 DEF Idle
<1>3. CASE Validate(h)
  <2>1. c.login \in Login /\ handed' = handed /\ Goto(h, Idle)
    BY <1>0, <1>3, Locals DEF Validate, Validating, Done
  <2>2. c.meta.bearer = None
    BY <1>3 DEF Validate, OwnInv, HandlerOwns
  <2>3. \A l \in Login : Bearer(l)' \in {Bearer(l), None}
    <3>1. PICK l \in Login : l = c.login
      BY <2>1
    <3>2. row'[l].meta \in {row[l].meta, c.meta}
      BY <1>0, <1>3, <3>1 DEF Validate, Row
    <3>3. \A k \in Login : k # l => row'[k] = row[k]
      BY <1>0, <1>3, <3>1 DEF Validate
    <3>4. QED
      BY <2>2, <3>2, <3>3 DEF Bearer
  <2>4. QED
    BY <1>1, <2>1, <2>3 DEF Idle
<1>4. CASE Exchange(h) \/ Claims(h) \/ GoogleClaims(h) \/ Redeem(h) \/ ReceiveAnswer(h)
  <2>1. row' = row /\ handed' = handed
    BY <1>4 DEF Exchange, Claims, GoogleClaims, Redeem, ReceiveAnswer, tables
  <2>2. PICK place : Goto(h, place) /\ place.at \in {"claims", "mint", "idle", "reply"}
    BY <1>4 DEF Exchange, Claims, GoogleClaims, Redeem, ReceiveAnswer, ToMint, Refused, Reply,
       Done, Idle
  <2>3. QED
    BY <1>1, <2>1, <2>2 DEF Bearer
<1>5. CASE Status(h)
  <2>1. row' = row /\ handed' = handed /\ c.login \in Login
    BY <1>0, <1>5, Locals DEF Status, tables, Asking
  <2>2. PICK place : /\ Goto(h, place)
                     /\ \/ place.at = "deliver" /\ place.meta = row[c.login].meta
                        \/ place.at = "reply"
    BY ONLY h \in Handler, <1>5, StatusPlace
  <2>3. handler'[h] = place /\ \A g \in Handler : g # h => handler'[g] = handler[g]
    BY <1>0, <2>2 DEF Goto
  <2>4. \A g \in Handler : At(g, "finish")' => At(g, "finish") /\ handler'[g] = handler[g]
    BY <2>2, <2>3 DEF At
  <2>5. \A g \in Handler : At(g, "deliver")' =>
          \/ At(g, "deliver") /\ handler'[g] = handler[g]
          \/ \E l \in Login : handler'[g].meta.bearer = Bearer(l)
    BY <2>1, <2>2, <2>3 DEF At, Bearer
  <2>6. PurgedOnceHandedOut' /\ \A l \in Login : Bearer(l)' = Bearer(l)
    BY <2>1 DEF PurgeInv, PurgedOnceHandedOut, Bearer
  <2>7. ASSUME NEW f \in Handler, At(f, "finish")', handler'[f].token # None
        PROVE  /\ handed'[handler'[f].token] = 0
               /\ \A k \in Login : Bearer(k)' # handler'[f].token
               /\ \A g \in Handler : At(g, "deliver")' =>
                    handler'[g].meta.bearer # handler'[f].token
               /\ \A g \in Handler : At(g, "finish")' /\ g # f =>
                    handler'[g].token # handler'[f].token
    <3>1. At(f, "finish") /\ handler'[f] = handler[f]
      BY ONLY f \in Handler, <2>4, <2>7
    <3>2. /\ handed[handler[f].token] = 0
          /\ \A k \in Login : Bearer(k) # handler[f].token
          /\ \A g \in Handler : At(g, "deliver") => handler[g].meta.bearer # handler[f].token
          /\ \A g \in Handler : At(g, "finish") /\ g # f => handler[g].token # handler[f].token
      BY ONLY PurgeInv, f \in Handler, <2>7, <3>1 DEF PurgeInv
    <3>3. \A g \in Handler : At(g, "deliver")' => handler'[g].meta.bearer # handler[f].token
      BY ONLY <2>5, <3>2
    <3>4. QED
      BY ONLY <2>1, <2>4, <2>6, <3>1, <3>2, <3>3
  <2>8. QED
    BY ONLY <2>6, <2>7 DEF PurgeInv
<1>6. CASE Mint(h)
  BY <1>6, PurgeMint
<1>7. CASE Finish(h)
  BY <1>7, PurgeFinish
<1>8. CASE Deliver(h)
  BY <1>8, PurgeDeliver
<1>9. QED
  BY <1>2, <1>3, <1>4, <1>5, <1>6, <1>7, <1>8 DEF HandlerStep

-----------------------------------------------------------------------------
(* The theorems. *)

SessionsInv == Shapes /\ OnceInv /\ OwnInv /\ PurgeInv

\* Before any login nothing is redeemed, issued or handed out.
LEMMA SessionsInit == Init => SessionsInv
<1> SUFFICES ASSUME Init PROVE SessionsInv
  OBVIOUS
<1>1. NoMeta \in Meta /\ NoMeta.bearer = None /\ None \in Maybe
  BY DEF NoMeta, Meta, Maybe
<1>2. NoRow \in Row /\ NoRow.meta.bearer = None /\ NoRow.status = "none"
  BY <1>1 DEF NoRow, Row
<1>3. Len(session) = 0 /\ session \in Seq(Sess) /\ handed \in Seq(Nat) /\ Len(handed) = 0
  BY EmptySeq DEF Init
<1>4. Shapes
  BY <1>1, <1>2, <1>3, Answers DEF Init, Shapes
<1>5. Token = {}
  BY <1>3 DEF Token
<1>6. \A h \in Handler : handler[h].at = "idle"
  BY DEF Init, Idle
<1>7. OnceInv
  BY <1>5, <1>6 DEF OnceInv, Redeeming, OneSessionPerLogin
<1>8. \A l \in Login : row[l].meta.bearer = None /\ row[l].status = "none" /\ env[l] = None
  BY <1>2 DEF Init
<1>9. OwnInv
  BY <1>6, <1>8 DEF OwnInv, RowOwns, HandlerOwns, Owned
<1>10. PurgeInv
  BY <1>6, <1>8 DEF PurgeInv, PurgedOnceHandedOut, At, Bearer
<1>11. QED
  BY <1>4, <1>7, <1>9, <1>10 DEF SessionsInv

\* Every step keeps the four parts of the invariant.
LEMMA SessionsStep == SessionsInv /\ [Next]_vars => SessionsInv'
<1> SUFFICES ASSUME SessionsInv, [Next]_vars PROVE SessionsInv'
  OBVIOUS
<1>1. CASE \E h \in Handler : HandlerStep(h)
  <2>1. PICK h \in Handler : HandlerStep(h)
    BY <1>1
  <2>2. QED
    BY <2>1, HandlerShapes, OnceStep, OwnStep, PurgeStep DEF SessionsInv
<1>2. CASE ~\E h \in Handler : HandlerStep(h)
  BY <1>2, OtherSteps, OnceQuiet, OwnQuiet, PurgeQuiet DEF SessionsInv
<1>3. QED
  BY <1>1, <1>2

\* One sign-in yields at most one session, for any number of logins, handlers
\* and repeated callbacks, although no completion looks at the row's status
\* (complete_oauth_session): a redeemed code is held by one handler, which
\* loses it when it commits the session.
THEOREM LoginYieldsOneSession == Spec => []OneSessionPerLogin
<1>1. SessionsInv => OneSessionPerLogin
  BY DEF SessionsInv, OnceInv
<1>2. QED
  BY <1>1, SessionsInit, SessionsStep, PTL DEF Spec

\* A completed row has a committed session and no verifier, and the token in a
\* row or in a client's env file is a session of that very login: neither a
\* kill between the two transactions of complete_oauth_session nor metadata
\* written back from an earlier read breaks it.
THEOREM CompletedAlwaysHasSession == Spec => []CompletedHasSession
<1>1. SessionsInv => CompletedHasSession
  BY DEF SessionsInv, OwnInv, RowOwns, Owned, CompletedHasSession
<1>2. QED
  BY <1>1, SessionsInit, SessionsStep, PTL DEF Spec

\* Once oauth_session_status has handed a token out, no row holds it: no
\* completion, validation or second delivery that is still in flight can write
\* it back.
THEOREM HandedOutStaysPurged == Spec => []PurgedOnceHandedOut
<1>1. SessionsInv => PurgedOnceHandedOut
  BY DEF SessionsInv, PurgeInv
<1>2. QED
  BY <1>1, SessionsInit, SessionsStep, PTL DEF Spec

-----------------------------------------------------------------------------
(* The polling clients, which the properties above do not look at. *)

ClientAtSet == {"idle", "starting", "polling", "waiting", "installed", "empty", "failed",
                "timedOut"}
Waiting == [at : ClientAtSet] \cup [at : ClientAtSet, until : Nat]
ClientInv == client \in [Login -> Waiting] /\ calls \in 0..MaxCalls

\* poll_remote_login moves from one position to the next, and keeps its
\* deadline.
LEMMA ClientMoves ==
  ASSUME ClientInv, NEW l \in Login, NEW to \in ClientAtSet,
         client' = [client EXCEPT ![l].at = to]
  PROVE  client' \in [Login -> Waiting]
<1>1. client[l] \in Waiting
  BY DEF ClientInv
<1>2. [client[l] EXCEPT !.at = to] \in Waiting
  BY <1>1 DEF Waiting
<1>3. client' = [client EXCEPT ![l] = [client[l] EXCEPT !.at = to]]
  OBVIOUS
<1> HIDE DEF Waiting
<1>4. QED
  BY <1>2, <1>3 DEF ClientInv

\* The client that starts, and the one that has its device code, has a
\* deadline or none yet.
LEMMA ClientStarts ==
  ASSUME Shapes, ClientInv, NEW l \in Login, NEW c \in {Polling, [at |-> "starting"]},
         client' = [client EXCEPT ![l] = c]
  PROVE  client' \in [Login -> Waiting]
<1>1. now + PollTimeout \in Nat
  BY SessionsAssumption DEF Shapes
<1>2. c \in Waiting
  BY <1>1 DEF Waiting, ClientAtSet, Polling
<1> HIDE DEF Waiting
<1>3. QED
  BY <1>2 DEF ClientInv

\* A step of a handler that reaches a client moves that client.
LEMMA ClientHandlers ==
  ASSUME Shapes, ClientInv, NEW h \in Handler, HandlerStep(h)
  PROVE  ClientInv'
<1>1. CASE DeviceCode(h)
  <2> DEFINE l == handler[h].login
  <2>1. l \in Login
    BY <1>1, Locals DEF DeviceCode, Shapes, Plain
  <2>2. \/ client' = client
        \/ client' = [client EXCEPT ![l] = Polling]
        \/ client' = [client EXCEPT ![l].at = "failed"]
    BY <1>1 DEF DeviceCode
  <2>3. calls' = calls
    BY <1>1 DEF DeviceCode
  <2> HIDE DEF l
  <2>4. QED
    BY <2>1, <2>2, <2>3, ClientMoves, ClientStarts DEF ClientInv, ClientAtSet
<1>2. CASE ReceiveAnswer(h)
  <2> DEFINE c == handler[h]
             to == CASE c.status = "completed" /\ c.token # None -> "installed"
                     [] c.status = "completed" /\ c.token = None -> "empty"
                     [] c.status = "error" -> "failed"
                     [] OTHER -> "polling"
  <2>1. c.login \in Login
    BY <1>2, Locals DEF ReceiveAnswer, Shapes, Replying
  <2>2. to \in ClientAtSet
    BY DEF ClientAtSet
  <2>3. calls' = calls /\ (client' = client \/ client' = [client EXCEPT ![c.login].at = to])
    BY <1>2 DEF ReceiveAnswer
  <2> HIDE DEF to, c
  <2>4. QED
    BY <2>1, <2>2, <2>3, ClientMoves DEF ClientInv
<1>3. CASE \/ Validate(h) \/ Exchange(h) \/ Claims(h) \/ GoogleClaims(h) \/ Mint(h) \/ Finish(h)
           \/ Redeem(h) \/ Status(h) \/ Deliver(h)
  <2>1. client' = client /\ calls' = calls
    BY <1>3 DEF Validate, Exchange, Claims, GoogleClaims, Mint, Finish, Redeem, Status, Deliver,
                clients
  <2>2. QED
    BY <2>1 DEF ClientInv
<1>4. QED
  BY <1>1, <1>2, <1>3 DEF HandlerStep

\* Every other step starts a client, moves one, or leaves them alone.
LEMMA ClientOthers ==
  ASSUME Shapes, ClientInv, [Next]_vars, ~\E h \in Handler : HandlerStep(h)
  PROVE  ClientInv'
<1>0. Called => calls' \in 0..MaxCalls
  BY SessionsAssumption DEF Called, ClientInv
<1>1. ASSUME NEW l \in Login, StartBrowser(l) PROVE ClientInv'
  BY <1>1, ClientStarts DEF StartBrowser, InteractiveLogin, ClientInv
<1>2. ASSUME NEW h \in Handler, NEW l \in Login, StartDevice(h, l) PROVE ClientInv'
  BY <1>2, ClientStarts DEF StartDevice, InteractiveLogin, ClientInv
<1>3. ASSUME NEW l \in Login, LoseAnswer(l) \/ TimeOut(l) PROVE ClientInv'
  <2>1. /\ calls' = calls
        /\ \E to \in ClientAtSet : client' = [client EXCEPT ![l].at = to]
    BY <1>3 DEF LoseAnswer, TimeOut, ClientAt, ClientAtSet
  <2>2. QED
    BY <2>1, ClientMoves DEF ClientInv
<1>4. ASSUME NEW h \in Handler, NEW l \in Login, Poll(h, l) PROVE ClientInv'
  <2>1. calls' = calls /\ client' = [client EXCEPT ![l].at = "waiting"]
    BY <1>4 DEF Poll, ClientAt
  <2>2. QED
    BY <2>1, ClientMoves DEF ClientInv, ClientAtSet
<1>5. ASSUME NEW h \in Handler, NEW l \in Login,
             OAuthCallback(h, l) \/ ErrorCallback(h, l) \/ GoogleCallback(h, l)
               \/ PollElsewhere(h, l)
      PROVE  ClientInv'
  <2>1. client' = client /\ Called
    BY <1>5 DEF OAuthCallback, ErrorCallback, GoogleCallback, PollElsewhere, clients
  <2>2. QED
    BY <1>0, <2>1 DEF ClientInv
<1>6. ASSUME Called, client' = client PROVE ClientInv'
  BY <1>0, <1>6 DEF ClientInv
<1>7. ASSUME NEW h \in Handler, Crash(h) PROVE ClientInv'
  BY <1>6, <1>7 DEF Crash, clients
<1>8. ASSUME NEW t \in DOMAIN session, Revoke(t) PROVE ClientInv'
  BY <1>6, <1>8 DEF Revoke, clients
<1>9. ASSUME NEW l \in Login, StartGoogle(l) \/ Answer(l) PROVE ClientInv'
  BY <1>9 DEF StartGoogle, Answer, clients, ClientInv
<1>10. CASE Tick \/ UNCHANGED vars
  BY <1>10 DEF Tick, vars, clients, ClientInv
<1>11. QED
  BY <1>1, <1>2, <1>3, <1>4, <1>5, <1>7, <1>8, <1>9, <1>10 DEF Next

\* The tables and the clients of a sign-in stay well formed: a row and an env
\* file name only tokens that were issued, and every session is of a login.
THEOREM SessionsType == Spec => []TypeOK
<1>1. Init => ClientInv
  <2> SUFFICES ASSUME Init PROVE ClientInv
    OBVIOUS
  <2>1. Idle \in Waiting
    BY DEF Waiting, ClientAtSet, Idle
  <2>2. client \in [Login -> Waiting]
    BY <2>1 DEF Init
  <2>3. calls \in 0..MaxCalls
    BY SessionsAssumption DEF Init
  <2>4. QED
    BY ONLY <2>2, <2>3 DEF ClientInv
<1>2. SessionsInv /\ ClientInv /\ [Next]_vars => ClientInv'
  BY ClientHandlers, ClientOthers DEF SessionsInv
<1>3. SessionsInv /\ ClientInv => TypeOK
  <2> SUFFICES ASSUME SessionsInv, ClientInv PROVE TypeOK
    OBVIOUS
  <2>1. \A l \in Login : row[l] \in Row /\ client[l] \in Waiting
    BY DEF SessionsInv, Shapes, ClientInv
  <2>2. \A l \in Login : /\ row[l].meta.bearer \in Token \cup {None}
                         /\ env[l] \in Token \cup {None}
    BY DEF SessionsInv, OwnInv, RowOwns, Owned
  <2>3. \A l \in Login : client[l].at \in ClientAtSet
    BY <2>1 DEF Waiting
  <2>4. Len(session) \in Nat /\ session \in [1..Len(session) -> Sess]
    BY LenProperties DEF SessionsInv, Shapes
  <2>5. \A s \in Token : session[s].login \in Login /\ session[s].revoked \in BOOLEAN
    BY <2>4 DEF Token, Sess
  <2>6. DOMAIN handed = Token
    BY LenProperties DEF SessionsInv, Shapes, Token
  <2>7. QED
    BY <2>1, <2>2, <2>3, <2>5, <2>6 DEF TypeOK, Row, ClientAtSet, SessionsInv, Shapes, ClientInv
<1>4. QED
  BY <1>1, <1>2, <1>3, SessionsInit, SessionsStep, PTL DEF Spec


-----------------------------------------------------------------------------
(* Sign-in implements LoginBook. *)

\* An answer that carries a token is one whose token was counted as handed out.
GivenInv ==
  \A h \in Handler : At(h, "reply") /\ handler[h].token # None => handed[handler[h].token] > 0

\* A step that hands nothing out and makes no answer with a token.
LEMMA GivenCalm ==
  ASSUME GivenInv, handed' = handed,
         \A g \in Handler : \/ handler'[g] = handler[g]
                            \/ handler'[g].at # "reply"
                            \/ handler'[g].token = None
  PROVE  GivenInv'
BY DEF GivenInv, At

\* Only oauth_session_status answers with a token, and it counts it.
LEMMA GivenStep ==
  ASSUME Shapes, OwnInv, GivenInv, [Next]_vars
  PROVE  GivenInv'
<1>0. handler \in [Handler -> Place] /\ Len(session) \in Nat /\ Len(handed) = Len(session)
  BY LenProperties DEF Shapes
<1>1. ASSUME NEW h \in Handler, NEW place, Goto(h, place), handed' = handed,
             place.at # "reply" \/ place.token = None
      PROVE  GivenInv'
  BY <1>0, <1>1, GivenCalm DEF Goto
<1>2. CASE ~\E h \in Handler : HandlerStep(h)
  <2>1. Quiet
    BY <1>2, OtherSteps
  <2>2. \A g \in Handler : handler'[g] = handler[g] \/ handler'[g].at # "reply"
    BY <2>1 DEF Quiet
  <2>3. QED
    BY <2>1, <2>2, GivenCalm DEF Quiet
<1>3. ASSUME NEW h \in Handler, HandlerStep(h)
      PROVE  GivenInv'
  <2> DEFINE c == handler[h]
  <2>1. CASE DeviceCode(h) \/ Validate(h) \/ ReceiveAnswer(h)
    <3>1. handed' = handed /\ Goto(h, Idle)
      BY <2>1 DEF DeviceCode, Validate, ReceiveAnswer, Done
    <3>2. QED
      BY <1>1, <3>1 DEF Idle
  <2>2. CASE Exchange(h) \/ Claims(h) \/ GoogleClaims(h) \/ Redeem(h)
    <3>1. handed' = handed
      BY <2>2 DEF Exchange, Claims, GoogleClaims, Redeem
    <3>2. PICK place : /\ Goto(h, place)
                       /\ \/ place.at \in {"claims", "mint", "idle"}
                          \/ place.at = "reply" /\ place.token = None
      BY <2>2 DEF Exchange, Claims, GoogleClaims, Redeem, ToMint, Refused, Reply, Done, Idle
    <3>3. QED
      BY <1>1, <3>1, <3>2
  <2>3. CASE Status(h)
    <3>1. handed' = handed
      BY <2>3 DEF Status
    <3>2. PICK place : /\ Goto(h, place)
                       /\ \/ place.at = "deliver"
                          \/ place.at = "reply" /\ place.token = None
      BY ONLY h \in Handler, <2>3, StatusPlace
    <3>3. QED
      BY <1>1, <3>1, <3>2
  <2>4. CASE Mint(h)
    <3>1. handed \in Seq(Nat) /\ handed' = Append(handed, 0) /\ 0 \in Nat
      BY <2>4 DEF Mint, Shapes
    <3>2. \A s \in Token : handed'[s] = handed[s]
      BY <1>0, <3>1, Appended DEF Token
    <3>3. handler'[h].at = "finish" /\ \A g \in Handler : g # h => handler'[g] = handler[g]
      BY <1>0, <2>4 DEF Mint, Goto
    <3>4. \A g \in Handler : At(g, "reply") /\ handler[g].token # None => handler[g].token \in Token
      BY DEF OwnInv, HandlerOwns, Owned, At
    <3>5. \A g \in Handler : At(g, "reply")' => At(g, "reply") /\ handler'[g] = handler[g]
      BY <3>3 DEF At
    <3>6. QED
      BY <3>2, <3>4, <3>5 DEF GivenInv
  <2>5. CASE Finish(h)
    <3>1. c \in Finishing
      BY <1>0, <2>5, Locals DEF Finish
    <3>2. c.then \in Then
      BY ONLY <3>1 DEF Finishing
    <3>3. c.then.at \in {"idle", "status"}
      BY ONLY <3>2 DEF Then, Idle
    <3>4. QED
      BY <1>1, <2>5, <3>3 DEF Finish
  <2>6. CASE Deliver(h)
    <3>1. PICK token : token = Offered(c.meta)
      OBVIOUS
    <3>2. /\ handler'[h].at = "reply" /\ handler'[h].token = token
          /\ \A g \in Handler : g # h => handler'[g] = handler[g]
      BY <1>0, <2>6, <3>1 DEF Deliver, Goto, Reply
    <3>3. handed' = HandOut(token) /\ token \in {None, c.meta.bearer}
      BY <2>6, <3>1 DEF Deliver, Offered
    <3>4. token # None => token \in Token
      BY <2>6, <3>3 DEF Deliver, OwnInv, HandlerOwns, Owned
    <3>5. \A s \in Token : handed[s] \in Nat
      BY LenProperties DEF Shapes, Token
    <3>6. DOMAIN handed = Token
      BY LenProperties DEF Shapes, Token
    <3>7. /\ token # None => handed'[token] > 0
          /\ \A s \in Token : handed[s] > 0 => handed'[s] > 0
      BY <3>3, <3>4, <3>5, <3>6 DEF HandOut
    <3>8. \A g \in Handler : At(g, "reply") /\ handler[g].token # None => handler[g].token \in Token
      BY DEF OwnInv, HandlerOwns, Owned, At
    <3>9. QED
      BY <3>2, <3>7, <3>8 DEF GivenInv, At
  <2>7. QED
    BY <1>3, <2>1, <2>2, <2>3, <2>4, <2>5, <2>6 DEF HandlerStep
<1>4. QED
  BY <1>2, <1>3


\* The tokens of the book are the rows of capmesh_sessions, in the same order.
LEMMA BookTokens ==
  ASSUME Shapes
  PROVE  /\ Len(session) \in Nat /\ DOMAIN session = Token /\ DOMAIN handed = Token
         /\ Owners \in Seq(Login) /\ Len(Owners) = Len(session) /\ Book!Issued = Token
         /\ \A s \in Token : Owners[s] = session[s].login /\ session[s].login \in Login
         /\ \A s \in Token : handed[s] \in Nat
         /\ InRows \in [Login -> Maybe]
<1>1. Len(session) \in Nat /\ DOMAIN session = Token /\ DOMAIN handed = Token
  BY LenProperties DEF Shapes, Token
<1>2. \A s \in Token : session[s].login \in Login
  BY SessionRows
<1>3. Owners \in [1..Len(session) -> Login]
  BY <1>2 DEF Owners, Token
<1>4. Owners \in Seq(Login)
  BY <1>1, <1>3, SeqDef
<1>5. Len(Owners) = Len(session)
  BY <1>1, <1>3, <1>4, LenProperties
<1>6. \A s \in Token : Owners[s] = session[s].login
  BY DEF Owners
<1>7. \A s \in Token : handed[s] \in Nat
  BY LenProperties DEF Shapes, Token
<1>8. InRows \in [Login -> Maybe]
  BY DEF InRows, Shapes, Row, Meta
<1>9. QED
  BY <1>1, <1>2, <1>4, <1>5, <1>6, <1>7, <1>8 DEF Book!Issued, Token

\* What a step leaves alone in the tables it leaves alone in the book.
LEMMA BookParts ==
  /\ session' = session => Token' = Token /\ Owners' = Owners /\ RevokedTokens' = RevokedTokens
  /\ session' = session /\ handed' = handed => HandedOut' = HandedOut
  /\ (\A l \in Login : Bearer(l)' = Bearer(l)) => InRows' = InRows
<1>1. ASSUME session' = session
      PROVE  Token' = Token /\ Owners' = Owners /\ RevokedTokens' = RevokedTokens
  BY <1>1 DEF Token, Owners, RevokedTokens
<1>2. ASSUME session' = session, handed' = handed PROVE HandedOut' = HandedOut
  BY <1>2 DEF HandedOut, Token
<1>3. ASSUME \A l \in Login : Bearer(l)' = Bearer(l) PROVE InRows' = InRows
  BY <1>3 DEF InRows, Bearer
<1>4. QED
  BY <1>1, <1>2, <1>3

\* Writing or emptying the bearer of one row.
LEMMA BookRow ==
  ASSUME NEW l \in Login, NEW token, Bearer(l)' = token,
         \A k \in Login : k # l => Bearer(k)' = Bearer(k)
  PROVE  InRows' = [InRows EXCEPT ![l] = token]
BY DEF InRows, Bearer

\* A write that leaves or empties the token of one row: validate_oauth_callback
\* and start_device_code_login write metadata without one.
LEMMA BookEmpties ==
  ASSUME NEW l \in Login, Bearer(l)' \in {Bearer(l), None},
         \A k \in Login : k # l => Bearer(k)' = Bearer(k),
         session' = session, handed' = handed, env' = env
  PROVE  Book!LoginNext \/ (Book!book)' = Book!book
<1>1. /\ Owners' = Owners /\ RevokedTokens' = RevokedTokens /\ HandedOut' = HandedOut
  BY BookParts
<1>2. CASE Bearer(l)' = Bearer(l)
  <2>1. InRows' = InRows
    BY <1>2, BookParts
  <2>2. QED
    BY <1>1, <2>1 DEF Book!book
<1>3. CASE Bearer(l)' = None
  <2>1. InRows' = [InRows EXCEPT ![l] = None]
    BY <1>3, BookRow
  <2>2. Book!TakeBack(l)
    BY <1>1, <2>1 DEF Book!TakeBack
  <2>3. QED
    BY <2>2 DEF Book!LoginNext
<1>4. QED
  BY <1>2, <1>3

\* mint_capmesh_token issues the login's one token.
LEMMA MintIssues ==
  ASSUME Shapes, OnceInv, NEW h \in Handler, Mint(h)
  PROVE  \E l \in Login : Book!Issue(l)
<1> DEFINE c == handler[h]
<1>1. c \in Minting /\ Redeeming(h)
  BY Locals DEF Shapes, Mint, Redeeming
<1>2. PICK l \in Login : l = c.login
  BY <1>1 DEF Minting
<1>3. \A s \in Token : session[s].login # l
  BY <1>1, <1>2 DEF OnceInv
<1>4. PICK new : new = [login |-> l, revoked |-> FALSE, expires |-> now + SessionTTL]
  OBVIOUS
<1>5. new \in Sess /\ new.login = l /\ new.revoked = FALSE
  BY <1>4, SessionsAssumption DEF Sess, Shapes
<1>6. session' = Append(session, new) /\ session \in Seq(Sess)
  BY <1>2, <1>4 DEF Mint, Shapes
<1>7. /\ Len(session') = Len(session) + 1 /\ Len(session) \in Nat
      /\ \A i \in Token : session'[i] = session[i]
      /\ session'[Len(session) + 1] = new
  BY <1>5, <1>6, Appended DEF Token
<1>8. handed' = Append(handed, 0) /\ handed \in Seq(Nat) /\ Len(handed) = Len(session)
  BY DEF Mint, Shapes
<1>9. /\ \A i \in Token : handed'[i] = handed[i]
      /\ handed'[Len(session) + 1] = 0
  BY <1>8, Appended DEF Token
<1>10. Token' = Token \cup {Len(session) + 1}
  BY <1>7 DEF Token
<1>11. Owners' = Append(Owners, l)
  <2>1. Owners \in Seq(Login) /\ Len(Owners) = Len(session) /\ \A s \in Token : Owners[s] = session[s].login
    BY BookTokens
  <2>2. /\ Append(Owners, l) \in Seq(Login) /\ Len(Append(Owners, l)) = Len(session) + 1
        /\ \A i \in Token : Append(Owners, l)[i] = Owners[i]
        /\ Append(Owners, l)[Len(session) + 1] = l
    BY <2>1, Appended DEF Token
  <2>3. PICK o : o = Append(Owners, l)
    OBVIOUS
  <2>4. DOMAIN o = 1..Len(session) + 1 /\ o = [i \in DOMAIN o |-> o[i]]
    BY <2>2, <2>3, LenProperties
  <2>5. Owners' = [s \in Token' |-> session'[s].login] /\ Token' = 1..Len(session) + 1
    BY <1>7 DEF Owners, Token
  <2>6. \A s \in Token' : o[s] = session'[s].login
    BY <1>5, <1>7, <1>10, <2>1, <2>2, <2>3
  <2>7. QED
    BY <2>3, <2>4, <2>5, <2>6
<1>12. RevokedTokens' = RevokedTokens
  BY <1>5, <1>7, <1>10 DEF RevokedTokens
<1>13. HandedOut' = HandedOut
  BY <1>9, <1>10 DEF HandedOut
<1>14. InRows' = InRows /\ env' = env
  BY DEF InRows, Mint, clients
<1>15. \A s \in Book!Issued : Owners[s] # l
  BY <1>3, BookTokens
<1>16. QED
  BY <1>11, <1>12, <1>13, <1>14, <1>15 DEF Book!Issue


\* The second transaction of a completion lays the token out, which nobody was
\* given yet.
LEMMA FinishLaysOut ==
  ASSUME Shapes, OwnInv, PurgeInv, NEW h \in Handler, Finish(h)
  PROVE  \E s \in Book!Issued : Book!LayOut(s)
<1> DEFINE c == handler[h]
<1>1. /\ row \in [Login -> Row] /\ c \in Finishing /\ At(h, "finish")
      /\ session' = session /\ handed' = handed /\ env' = env
  BY Locals DEF Shapes, Finish, At, clients
<1>2. PICK l, s : l \in Login /\ l = c.login /\ s = c.token /\ s \in Nat
  BY <1>1 DEF Finishing
<1>3. s \in Token /\ session[s].login = l
  BY <1>1, <1>2 DEF OwnInv, HandlerOwns, At
<1>4. handed[s] = 0
  BY <1>1, <1>2, SessionsAssumption DEF PurgeInv
<1>5. Bearer(l)' = s /\ \A k \in Login : k # l => Bearer(k)' = Bearer(k)
  <2> DEFINE meta == [c.meta EXCEPT !.verifier = FALSE, !.bearer = c.token,
                                    !.deliverBy = now + DeliveryTTL]
  <2>1. meta.bearer = s
    BY <1>1, <1>2 DEF Finishing, Meta
  <2>2. row' = [row EXCEPT ![l].status = "completed", ![l].meta = meta]
    BY <1>2 DEF Finish, Completed
  <2> HIDE DEF meta
  <2>3. QED
    BY <1>1, <1>2, <2>1, <2>2 DEF Bearer, Row
<1>6. InRows' = [InRows EXCEPT ![l] = s]
  BY <1>2, <1>5, BookRow
<1>7. Owners[s] = l /\ s \in Book!Issued
  BY <1>3, BookTokens
<1>8. s \notin HandedOut
  BY <1>4 DEF HandedOut
<1>9. Owners' = Owners /\ RevokedTokens' = RevokedTokens /\ HandedOut' = HandedOut
  BY <1>1, BookParts
<1>10. Book!LayOut(s)
  BY <1>1, <1>6, <1>7, <1>8, <1>9 DEF Book!LayOut
<1>11. QED
  BY <1>7, <1>10

\* oauth_session_status gives the token to the poll, or finds its delivery
\* window closed, and empties the row.
LEMMA DeliverGives ==
  ASSUME Shapes, OwnInv, NEW h \in Handler, Deliver(h)
  PROVE  Book!LoginNext
<1> DEFINE c == handler[h]
<1>1. /\ row \in [Login -> Row] /\ c \in Delivering
      /\ session' = session /\ env' = env
  BY Locals DEF Shapes, Deliver, clients
<1>2. PICK l, s : l \in Login /\ l = c.login /\ s = Offered(c.meta)
  BY <1>1 DEF Delivering
<1>3. Bearer(l)' = None /\ \A k \in Login : k # l => Bearer(k)' = Bearer(k)
  <2> DEFINE meta == [c.meta EXCEPT !.bearer = None]
  <2>1. meta.bearer = None
    BY <1>1 DEF Delivering, Meta
  <2>2. row' = [row EXCEPT ![l].meta = meta]
    BY <1>2 DEF Deliver
  <2> HIDE DEF meta
  <2>3. QED
    BY <1>1, <1>2, <2>1, <2>2 DEF Bearer, Row
<1>4. InRows' = [InRows EXCEPT ![l] = None]
  BY <1>2, <1>3, BookRow
<1>5. Token' = Token /\ Owners' = Owners /\ RevokedTokens' = RevokedTokens
  BY <1>1, BookParts
<1>6. handed' = HandOut(s) /\ s \in {None, c.meta.bearer}
  BY <1>2 DEF Deliver, Offered
<1>7. CASE s = None
  <2>1. HandedOut' = HandedOut
    BY <1>1, <1>6, <1>7, BookParts DEF HandOut
  <2>2. Book!TakeBack(l)
    BY <1>1, <1>4, <1>5, <2>1 DEF Book!TakeBack
  <2>3. QED
    BY <1>2, <2>2 DEF Book!LoginNext
<1>8. CASE s # None
  <2>1. s \in Token /\ session[s].login = l
    BY <1>2, <1>6, <1>8 DEF Deliver, OwnInv, HandlerOwns, Owned
  <2>2. DOMAIN handed = Token /\ \A t \in Token : handed[t] \in Nat
    BY BookTokens
  <2>3. \A t \in Token : handed'[t] > 0 <=> t = s \/ handed[t] > 0
    BY <1>6, <1>8, <2>1, <2>2 DEF HandOut
  <2>4. HandedOut' = HandedOut \cup {s}
    BY <1>5, <2>1, <2>3 DEF HandedOut
  <2>5. Owners[s] = l /\ s \in Book!Issued
    BY <2>1, BookTokens
  <2>6. Book!Give(s)
    BY <1>1, <1>4, <1>5, <2>4, <2>5 DEF Book!Give
  <2>7. QED
    BY <2>5, <2>6 DEF Book!LoginNext
<1>9. QED
  BY <1>7, <1>8

\* poll_remote_login keeps a token it was given, for its own login.
LEMMA ReceiveKeeps ==
  ASSUME Shapes, OwnInv, GivenInv, NEW h \in Handler, ReceiveAnswer(h)
  PROVE  Book!LoginNext \/ (Book!book)' = Book!book
<1> DEFINE c == handler[h]
<1>1. /\ c.at = "reply" /\ row' = row /\ session' = session /\ handed' = handed
  BY DEF ReceiveAnswer, tables
<1>2. /\ Owners' = Owners /\ RevokedTokens' = RevokedTokens /\ HandedOut' = HandedOut
      /\ InRows' = InRows
  BY <1>1, BookParts DEF Bearer
<1>3. CASE env' = env
  BY <1>2, <1>3 DEF Book!book
<1>4. CASE env' # env
  <2>1. c.token # None /\ env' = [env EXCEPT ![c.login] = c.token]
    BY <1>4 DEF ReceiveAnswer
  <2>2. c.token \in Token /\ session[c.token].login = c.login
    BY <1>1, <2>1 DEF OwnInv, HandlerOwns, Owned
  <2>3. handed[c.token] > 0
    BY <1>1, <2>1 DEF GivenInv, At
  <2>4. c.token \in HandedOut /\ Owners[c.token] = c.login /\ c.token \in Book!Issued
    BY <2>2, <2>3, BookTokens DEF HandedOut
  <2>5. Book!Keep(c.token)
    BY <1>2, <2>1, <2>4 DEF Book!Keep
  <2>6. QED
    BY <2>4, <2>5 DEF Book!LoginNext
<1>5. QED
  BY <1>3, <1>4

\* revoke_capmesh_session only adds to what is revoked.
LEMMA RevokeWithdraws ==
  ASSUME Shapes, NEW t \in DOMAIN session, Revoke(t)
  PROVE  \E S \in SUBSET Book!Issued : Book!Withdraw(S)
<1>1. /\ Len(session') = Len(session)
      /\ \A s \in Token : session'[s].login = session[s].login
  BY Revoked
<1>2. Token' = Token
  BY <1>1 DEF Token
<1>3. Owners' = Owners
  BY <1>1, <1>2 DEF Owners
<1>4. handed' = handed /\ row' = row /\ env' = env
  BY DEF Revoke, clients
<1>5. HandedOut' = HandedOut /\ InRows' = InRows
  BY <1>2, <1>4 DEF HandedOut, InRows
<1>6. session \in [Token -> Sess] /\ DOMAIN session = Token
  BY LenProperties DEF Shapes, Token
<1>7. \A s \in Token : session[s].revoked => session'[s].revoked
  <2>1. \A s \in Token : [session[s] EXCEPT !.revoked = TRUE].revoked = TRUE
    BY <1>6 DEF Sess
  <2>2. CASE \E s \in DOMAIN session : session' = [session EXCEPT ![s].revoked = TRUE]
    <3>1. PICK r \in Token : session' = [session EXCEPT ![r] = [session[r] EXCEPT !.revoked = TRUE]]
      BY <1>6, <2>2
    <3>2. QED
      BY <1>6, <2>1, <3>1
  <2>3. CASE session' = [s \in DOMAIN session |->
                           IF Subject[session[s].login] = Subject[session[t].login]
                           THEN [session[s] EXCEPT !.revoked = TRUE] ELSE session[s]]
    BY <1>6, <2>1, <2>3
  <2>4. QED
    BY <2>2, <2>3 DEF Revoke
<1>8. RevokedTokens' = RevokedTokens \cup RevokedTokens'
  BY <1>2, <1>7 DEF RevokedTokens
<1>9. RevokedTokens' \in SUBSET Book!Issued
  BY <1>2, BookTokens DEF RevokedTokens
<1>10. Book!Withdraw(RevokedTokens')
  BY <1>3, <1>4, <1>5, <1>8 DEF Book!Withdraw
<1>11. QED
  BY <1>9, <1>10


\* Every step of sign-in is a step of the book or leaves the book alone.
LEMMA BookStep ==
  ASSUME SessionsInv, GivenInv, [Next]_vars
  PROVE  Book!LoginNext \/ (Book!book)' = Book!book
<1>0. /\ Shapes /\ OnceInv /\ OwnInv /\ PurgeInv
      /\ row \in [Login -> Row] /\ handler \in [Handler -> Place]
  BY DEF SessionsInv, Shapes
<1>1. ASSUME row' = row, session' = session, handed' = handed, env' = env
      PROVE  (Book!book)' = Book!book
  <2>1. /\ Owners' = Owners /\ RevokedTokens' = RevokedTokens /\ HandedOut' = HandedOut
        /\ InRows' = InRows
    BY <1>1, BookParts DEF Bearer
  <2>2. QED
    BY <1>1, <2>1 DEF Book!book
<1>2. ASSUME NEW l \in Login, CreateSession(l), session' = session, handed' = handed, env' = env
      PROVE  Book!LoginNext \/ (Book!book)' = Book!book
  <2>1. row'[l].meta.bearer = None /\ \A k \in Login : k # l => row'[k] = row[k]
    BY <1>0, <1>2, Created
  <2>2. QED
    BY <1>2, <2>1, BookEmpties DEF Bearer
<1>3. ASSUME NEW l \in Login, StartBrowser(l) \/ StartGoogle(l)
      PROVE  Book!LoginNext \/ (Book!book)' = Book!book
  <2>1. CreateSession(l) /\ session' = session /\ handed' = handed /\ env' = env
    BY <1>3 DEF StartBrowser, StartGoogle, clients
  <2>2. QED
    BY <1>2, <2>1
<1>4. ASSUME NEW l \in Login, Answer(l) \/ LoseAnswer(l) \/ TimeOut(l)
      PROVE  Book!LoginNext \/ (Book!book)' = Book!book
  BY <1>1, <1>4 DEF Answer, LoseAnswer, TimeOut, tables, clients
<1>5. ASSUME NEW h \in Handler, NEW l \in Login, StartDevice(h, l)
      PROVE  Book!LoginNext \/ (Book!book)' = Book!book
  <2>1. CreateSession(l) /\ session' = session /\ handed' = handed /\ env' = env
    BY <1>5 DEF StartDevice
  <2>2. QED
    BY <1>2, <2>1
<1>6. ASSUME NEW h \in Handler, NEW l \in Login,
             OAuthCallback(h, l) \/ ErrorCallback(h, l) \/ GoogleCallback(h, l)
               \/ Poll(h, l) \/ PollElsewhere(h, l)
      PROVE  Book!LoginNext \/ (Book!book)' = Book!book
  <2>1. row' = row /\ session' = session /\ handed' = handed /\ env' = env
    BY <1>6 DEF OAuthCallback, ErrorCallback, GoogleCallback, Poll, PollElsewhere, tables, clients
  <2>2. QED
    BY <1>1, <2>1
<1>7. ASSUME NEW h \in Handler, HandlerStep(h)
      PROVE  Book!LoginNext \/ (Book!book)' = Book!book
  <2> DEFINE c == handler[h]
  <2>1. CASE DeviceCode(h)
    <3>1. PICK l \in Login : l = c.login
      BY <1>0, <2>1, Locals DEF DeviceCode, Plain
    <3>2. PICK meta : /\ meta.bearer = None
                      /\ row' = row \/ row' = [row EXCEPT ![l].meta = meta]
      <4>1. [NoMeta EXCEPT !.device = TRUE].bearer = None
        BY DEF NoMeta
      <4>2. row' = row \/ row' = [row EXCEPT ![l].meta = [NoMeta EXCEPT !.device = TRUE]]
        BY <2>1, <3>1 DEF DeviceCode
      <4>3. QED
        BY <4>1, <4>2
    <3>3. Bearer(l)' \in {Bearer(l), None} /\ \A k \in Login : k # l => Bearer(k)' = Bearer(k)
      BY <1>0, <3>2 DEF Bearer, Row
    <3>4. session' = session /\ handed' = handed /\ env' = env
      BY <2>1 DEF DeviceCode
    <3>5. QED
      BY <3>3, <3>4, BookEmpties
  <2>2. CASE Validate(h)
    <3>1. PICK l \in Login : l = c.login
      BY <1>0, <2>2, Locals DEF Validate, Validating
    <3>2. c.meta.bearer = None
      BY <1>0, <2>2 DEF Validate, OwnInv, HandlerOwns
    <3>3. row'[l].meta \in {row[l].meta, c.meta} /\ \A k \in Login : k # l => row'[k] = row[k]
      BY <1>0, <2>2, <3>1 DEF Validate, Row
    <3>4. session' = session /\ handed' = handed /\ env' = env
      BY <2>2 DEF Validate, clients
    <3>5. QED
      BY <3>2, <3>3, <3>4, BookEmpties DEF Bearer
  <2>3. CASE Exchange(h) \/ Claims(h) \/ GoogleClaims(h) \/ Redeem(h) \/ Status(h)
    <3>1. row' = row /\ session' = session /\ handed' = handed /\ env' = env
      BY <2>3 DEF Exchange, Claims, GoogleClaims, Redeem, Status, tables, clients
    <3>2. QED
      BY <1>1, <3>1
  <2>4. CASE Mint(h)
    BY <1>0, <2>4, MintIssues DEF Book!LoginNext
  <2>5. CASE Finish(h)
    BY <1>0, <2>5, FinishLaysOut DEF Book!LoginNext
  <2>6. CASE Deliver(h)
    BY <1>0, <2>6, DeliverGives
  <2>7. CASE ReceiveAnswer(h)
    BY <1>0, <2>7, ReceiveKeeps
  <2>8. QED
    BY <1>7, <2>1, <2>2, <2>3, <2>4, <2>5, <2>6, <2>7 DEF HandlerStep
<1>8. ASSUME NEW h \in Handler, Crash(h)
      PROVE  Book!LoginNext \/ (Book!book)' = Book!book
  BY <1>1, <1>8 DEF Crash, tables, clients
<1>9. ASSUME NEW t \in DOMAIN session, Revoke(t)
      PROVE  Book!LoginNext \/ (Book!book)' = Book!book
  BY <1>0, <1>9, RevokeWithdraws DEF Book!LoginNext
<1>10. CASE Tick
  BY <1>1, <1>10 DEF Tick, tables, clients
<1>11. CASE UNCHANGED vars
  BY <1>1, <1>11 DEF vars
<1>12. QED
  BY <1>3, <1>4, <1>5, <1>6, <1>7, <1>8, <1>9, <1>10, <1>11 DEF Next

\* Sign-in keeps its book, for any number of logins and of handlers in flight:
\* whatever transactions of complete_oauth_session, validate_oauth_callback and
\* oauth_session_status overlap and wherever a worker is killed, a login gets
\* one token, no row offers it once a poll was answered with it, a client's env
\* file holds only a token handed out for its own login, and a revocation is
\* never undone.
THEOREM SignInImplementsBook == Spec => SignInKeepsBook
<1>1. Init => SessionsInv /\ GivenInv /\ Book!LoginInit
  <2> SUFFICES ASSUME Init PROVE GivenInv /\ Book!LoginInit
    BY SessionsInit
  <2>1. \A h \in Handler : handler[h].at = "idle"
    BY DEF Init, Idle
  <2>2. GivenInv
    BY <2>1 DEF GivenInv, At
  <2>3. Token = {}
    <3>1. Len(session) = 0
      BY EmptySeq DEF Init
    <3>2. QED
      BY <3>1 DEF Token
  <2>4. RevokedTokens = {} /\ HandedOut = {}
    BY <2>3 DEF RevokedTokens, HandedOut
  <2>5. Owners = << >>
    BY <2>3 DEF Owners
  <2>6. NoRow.meta.bearer = None
    BY DEF NoRow, NoMeta
  <2>7. InRows = [l \in Login |-> None]
    BY <2>6 DEF Init, InRows
  <2>8. env = [l \in Login |-> None]
    BY DEF Init
  <2>9. QED
    BY <2>2, <2>4, <2>5, <2>7, <2>8 DEF Book!LoginInit
<1>2. SessionsInv /\ GivenInv /\ [Next]_vars => (SessionsInv /\ GivenInv)'
  BY SessionsStep, GivenStep DEF SessionsInv
<1>3. SessionsInv /\ GivenInv /\ [Next]_vars => [Book!LoginNext]_(Book!book)
  BY BookStep
<1>4. QED
  BY <1>1, <1>2, <1>3, PTL DEF Spec, SignInKeepsBook, Book!LoginSpec

=============================================================================
