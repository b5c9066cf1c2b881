------------------------------ MODULE Sessions ------------------------------
(***************************************************************************)
(* Sign-in: the OAuth login rows and the bearer sessions of tokens.py, the *)
(* HTTP handlers that drive them (server.py: start, callback, device-code  *)
(* and poll), and the polling client (cli.py).  A handler reads a row,     *)
(* talks to the identity provider without a lock, and writes the row back  *)
(* in a later transaction; handlers of several worker processes overlap.   *)
(* The provider is external: it redeems a code at most once.               *)
(***************************************************************************)
EXTENDS Integers, Sequences, FiniteSets

CONSTANTS
  Login,        \* rows of oauth_sessions
  Subject,      \* who signs in with each
  Flow,         \* the flows the logins may have: "browser", "device" or "google"
  Handler,      \* HTTP handlers that may be in flight together
  Configured,   \* values CAPMESH_M365_CLIENT_ID has on the workers: set / unset
  LoginTTL,     \* expires_in(600)
  DeliveryTTL,  \* _OAUTH_TOKEN_DELIVERY_TTL
  SessionTTL,   \* _CAPMESH_SESSION_TTL
  PollTimeout,  \* timeout_seconds of poll_remote_login
  MaxTime,      \* bound on the clock
  MaxCalls,     \* bound on callbacks and on polls of other clients
  None

ASSUME SessionsAssumption ==
  /\ Flow \subseteq [Login -> {"browser", "device", "google"}]
  /\ Configured \subseteq BOOLEAN
  /\ {LoginTTL, DeliveryTTL, SessionTTL, PollTimeout, MaxTime, MaxCalls} \subseteq Nat
  /\ None \notin Nat

VARIABLES
  row,       \* oauth_sessions: status, expiry and metadata_json of each login
  session,   \* capmesh_sessions in order of issue; the index stands for the token
  idp,       \* the provider's grant for each login
  handler,   \* position and locals of each handler in flight
  client,    \* what poll_remote_login of each login is doing
  env,       \* token in the capmesh.env file of each client
  flow,      \* the flow of each login, given when it starts
  configured,\* CAPMESH_M365_CLIENT_ID is set on the service host
  handed,    \* history: how often each token was handed out to a poll
  now, calls

vars == <<row, session, idp, handler, client, env, flow, configured, handed, now, calls>>

tables == <<row, session>>
host == <<flow, configured>>
clients == <<client, env, host>>

\* metadata_json: is the PKCE verifier there, a device code, the token kept for
\* delivery and the end of its delivery window.
NoMeta == [verifier |-> FALSE, device |-> FALSE, bearer |-> None, deliverBy |-> None]
NoRow == [status |-> "none", meta |-> NoMeta, expires |-> None]
Idle == [at |-> "idle"]

Init ==
  /\ row = [l \in Login |-> NoRow]
  /\ session = <<>>
  /\ idp = [l \in Login |-> "asked"]
  /\ handler = [h \in Handler |-> Idle]
  /\ client = [l \in Login |-> Idle]
  /\ env = [l \in Login |-> None]
  /\ flow \in Flow /\ configured \in Configured
  /\ handed = <<>>
  /\ now = 0 /\ calls = 0

\* principal_from_bearer: the token resolves to its session's principal.
Authenticates(s) == ~session[s].revoked /\ now < session[s].expires

Goto(h, place) == handler' = [handler EXCEPT ![h] = place]
Done(h) == Goto(h, Idle)

-----------------------------------------------------------------------------
(* Starting a login. *)

\* create_oauth_session commits a pending row that expires.
CreateSession(l) ==
  /\ row[l] = NoRow
  /\ row' = [row EXCEPT ![l] = [status |-> "pending", expires |-> now + LoginTTL,
                                meta |-> [NoMeta EXCEPT !.verifier = TRUE]]]

\* interactive_login on a host without a token: it asks for a login and, once
\* it has the login's id, polls it.
Polling == [at |-> "polling", until |-> now + PollTimeout]
InteractiveLogin(l, at) ==
  /\ env[l] = None /\ client[l] = Idle
  /\ client' = [client EXCEPT ![l] = at]

StartBrowser(l) ==
  /\ flow[l] = "browser"
  /\ CreateSession(l) /\ InteractiveLogin(l, Polling)
  /\ UNCHANGED <<session, idp, handler, env, host, handed, now, calls>>

\* A Google login starts and ends in the browser.
StartGoogle(l) ==
  /\ flow[l] = "google"
  /\ CreateSession(l)
  /\ UNCHANGED <<session, idp, handler, clients, handed, now, calls>>

\* A device login, refused without a client id, goes on to ask for its code.
StartDevice(h, l) ==
  /\ handler[h] = Idle /\ flow[l] = "device" /\ configured
  /\ CreateSession(l) /\ InteractiveLogin(l, [at |-> "starting"])
  /\ Goto(h, [at |-> "device", login |-> l])
  /\ UNCHANGED <<session, idp, env, host, handed, now, calls>>

\* start_device_code_login replaces the metadata by one that has the device
\* code and no verifier; or the provider fails and the client gives up.
DeviceCode(h) ==
  LET l == handler[h].login IN
  /\ handler[h].at = "device"
  /\ \/ /\ row' = [row EXCEPT ![l].meta = [NoMeta EXCEPT !.device = TRUE]]
        /\ client' = IF client[l].at = "starting" THEN [client EXCEPT ![l] = Polling]
                     ELSE client
     \/ /\ client' = [client EXCEPT ![l].at = "failed"]
        /\ UNCHANGED row
  /\ Done(h)
  /\ UNCHANGED <<session, idp, env, host, handed, now, calls>>

\* The person answers the provider; who declined may go back and accept.
Answer(l) ==
  /\ row[l].status # "none"
  /\ \/ idp[l] = "asked" /\ idp' = [idp EXCEPT ![l] = "denied"]
     \/ idp[l] \in {"asked", "denied"} /\ idp' = [idp EXCEPT ![l] = "granted"]
  /\ UNCHANGED <<tables, handler, clients, handed, now, calls>>

-----------------------------------------------------------------------------
(* Callbacks. *)

Called == calls < MaxCalls /\ calls' = calls + 1

\* validate_oauth_callback reads a pending row and decides its next status.
ReadPending(h, l, to) ==
  /\ row[l].status = "pending"
  /\ Goto(h, [at |-> "validate", login |-> l, meta |-> row[l].meta,
              to |-> IF row[l].expires <= now THEN "expired" ELSE to])

\* The browser comes to /oauth/callback with a code, possibly more than once.
\* complete_oauth_callback asks only that the row still has its verifier;
\* without a client id it leaves the row to validate_oauth_callback.
OAuthCallback(h, l) ==
  /\ handler[h] = Idle /\ Called
  /\ flow[l] = "browser" /\ idp[l] \in {"granted", "redeemed"}
  /\ \/ /\ configured /\ row[l].meta.verifier
        /\ Goto(h, [at |-> "exchange", login |-> l])
     \/ /\ ~configured
        /\ ReadPending(h, l, "callback_received")
  /\ UNCHANGED <<tables, idp, clients, handed, now>>

\* The browser comes back with an error.
ErrorCallback(h, l) ==
  /\ handler[h] = Idle /\ Called
  /\ flow[l] = "browser" /\ idp[l] # "asked"
  /\ ReadPending(h, l, "failed")
  /\ UNCHANGED <<tables, idp, clients, handed, now>>

\* The UPDATE of validate_oauth_callback: the status, and unless it expired
\* the metadata read before.
Validate(h) ==
  LET c == handler[h] IN
  /\ c.at = "validate"
  /\ row' = [row EXCEPT ![c.login].status = c.to,
                        ![c.login].meta = IF c.to = "expired" THEN @ ELSE c.meta]
  /\ Done(h)
  /\ UNCHANGED <<session, idp, clients, handed, now, calls>>

\* handle_google_callback goes on only while the row is pending.
GoogleCallback(h, l) ==
  /\ handler[h] = Idle /\ Called
  /\ flow[l] = "google" /\ idp[l] \in {"granted", "redeemed"}
  /\ row[l].status = "pending"
  /\ Goto(h, [at |-> "exchange", login |-> l])
  /\ UNCHANGED <<tables, idp, clients, handed, now>>

-----------------------------------------------------------------------------
(* Completing a login.  "then" is what the handler goes on to do. *)

\* Mutant: the token request is retried with a code already redeemed, and the
\* first answer is used again.
ExchangeRetried(h) ==
  LET l == handler[h].login IN
  /\ handler[h].at = "exchange"
  /\ \/ /\ idp[l] \in {"granted", "redeemed"}
        /\ idp' = [idp EXCEPT ![l] = "redeemed"]
        /\ \/ Goto(h, [at |-> "claims", login |-> l, then |-> Idle])
           \/ Done(h)
     \/ Done(h) /\ UNCHANGED idp
  /\ UNCHANGED <<tables, clients, handed, now, calls>>

\* The token request.  The provider redeems a code once; the answer may be an
\* error, or lost after the code was redeemed.
Exchange(h) ==
  LET l == handler[h].login IN
  /\ handler[h].at = "exchange"
  /\ \/ /\ idp[l] = "granted"
        /\ idp' = [idp EXCEPT ![l] = "redeemed"]
        /\ \/ Goto(h, [at |-> "claims", login |-> l, then |-> Idle])
           \/ Done(h)
     \/ Done(h) /\ UNCHANGED idp
  /\ UNCHANGED <<tables, clients, handed, now, calls>>

\* The answer of a poll, and what a refused completion amounts to: an error
\* page, or an error answer to the poll that asked for it.
Reply(c, status, token) ==
  [at |-> "reply", login |-> c.login, by |-> c.by, status |-> status, token |-> token]
Refused(c) == IF c.then = Idle THEN Idle ELSE Reply(c.then, "error", None)

ToMint(h) == Goto(h, [at |-> "mint", login |-> handler[h].login,
                      meta |-> row[handler[h].login].meta, then |-> handler[h].then])

\* complete_oauth_session reads the row again and checks the claims.  Neither
\* the status nor the expiry of the row is looked at.
Claims(h) ==
  /\ handler[h].at = "claims" /\ flow[handler[h].login] # "google"
  /\ ToMint(h) \/ Goto(h, Refused(handler[h]))
  /\ UNCHANGED <<tables, idp, clients, handed, now, calls>>

\* The allowlist of handle_google_callback, then complete_google_session.
GoogleClaims(h) ==
  /\ handler[h].at = "claims" /\ flow[handler[h].login] = "google"
  /\ ToMint(h) \/ Done(h)
  /\ UNCHANGED <<tables, idp, clients, handed, now, calls>>

\* The UPDATE that ends a completion: status and metadata, the verifier
\* dropped, the token kept for its delivery.
Completed(l, meta, token) ==
  row' = [row EXCEPT ![l].status = "completed",
                     ![l].meta = [meta EXCEPT !.verifier = FALSE, !.bearer = token,
                                              !.deliverBy = now + DeliveryTTL]]

\* Mutant: the row is completed in a first transaction, the session is
\* inserted in a second one.
MintLast(h) ==
  LET c == handler[h] IN
  /\ c.at = "mint"
  /\ Completed(c.login, c.meta, None)
  /\ Goto(h, [at |-> "finish", login |-> c.login, meta |-> c.meta,
              token |-> Len(session) + 1, then |-> c.then])
  /\ UNCHANGED <<session, handed, idp, clients, now, calls>>

\* mint_capmesh_token inserts the session and commits.
Mint(h) ==
  LET c == handler[h] IN
  /\ c.at = "mint"
  /\ session' = Append(session, [login |-> c.login, revoked |-> FALSE,
                                 expires |-> now + SessionTTL])
  /\ handed' = Append(handed, 0)
  /\ Goto(h, [at |-> "finish", login |-> c.login, meta |-> c.meta,
              token |-> Len(session) + 1, then |-> c.then])
  /\ UNCHANGED <<row, idp, clients, now, calls>>

\* The second transaction, with the metadata read before the first.
Finish(h) ==
  LET c == handler[h] IN
  /\ c.at = "finish"
  /\ Completed(c.login, c.meta, c.token)
  /\ Goto(h, c.then)
  /\ UNCHANGED <<session, idp, clients, handed, now, calls>>

-----------------------------------------------------------------------------
(* Polling. *)

\* poll_oauth_session reads the row; a pending device login asks the provider
\* before its status is reported.
PollRead(h, l, by) ==
  /\ handler[h] = Idle /\ row[l].status # "none"
  /\ Goto(h, [at |-> IF /\ flow[l] = "device"
                        /\ row[l].status = "pending" /\ row[l].meta.device
                     THEN "redeem" ELSE "status",
              login |-> l, by |-> by])

\* The device-code grant: not answered yet, redeemed, or an error.
Redeem(h) ==
  LET c == handler[h] IN
  /\ c.at = "redeem"
  /\ \/ /\ idp[c.login] = "asked"
        /\ Goto(h, Reply(c, "pending", None)) /\ UNCHANGED idp
     \/ /\ idp[c.login] = "granted"
        /\ idp' = [idp EXCEPT ![c.login] = "redeemed"]
        /\ Goto(h, [at |-> "claims", login |-> c.login, then |-> [c EXCEPT !.at = "status"]])
     \/ Goto(h, Reply(c, "error", None)) /\ UNCHANGED idp
  /\ UNCHANGED <<tables, clients, handed, now, calls>>

\* Mutant: the answer carries the token of the row, which is left as it is.
StatusAnswers(h) ==
  LET c == handler[h] IN
  /\ c.at = "status"
  /\ Goto(h, Reply(c, row[c.login].status, row[c.login].meta.bearer))
  /\ UNCHANGED <<tables, idp, clients, handed, now, calls>>

\* oauth_session_status reads the row again; tokens are asked for.
Status(h) ==
  LET c == handler[h]
      r == row[c.login]
  IN
  /\ c.at = "status"
  /\ Goto(h, IF r.status = "completed"
             THEN [at |-> "deliver", login |-> c.login, by |-> c.by, meta |-> r.meta]
             ELSE Reply(c, r.status, None))
  /\ UNCHANGED <<tables, idp, clients, handed, now, calls>>

\* The token a completed row still offers.
Offered(meta) == IF meta.deliverBy <= now THEN None ELSE meta.bearer
HandOut(token) == IF token = None THEN handed ELSE [handed EXCEPT ![token] = @ + 1]

\* Mutant: the row is written only when the delivery window has closed.
DeliverKeeps(h) ==
  LET c == handler[h] IN
  /\ c.at = "deliver"
  /\ handed' = HandOut(Offered(c.meta))
  /\ row' = IF Offered(c.meta) = None
            THEN [row EXCEPT ![c.login].meta = [c.meta EXCEPT !.bearer = None]] ELSE row
  /\ Goto(h, Reply(c, "completed", Offered(c.meta)))
  /\ UNCHANGED <<session, idp, clients, now, calls>>

\* Within the delivery window the token is handed out; in any case the
\* metadata is written back without it.
Deliver(h) ==
  LET c == handler[h] IN
  /\ c.at = "deliver"
  /\ handed' = HandOut(Offered(c.meta))
  /\ row' = [row EXCEPT ![c.login].meta = [c.meta EXCEPT !.bearer = None]]
  /\ Goto(h, Reply(c, "completed", Offered(c.meta)))
  /\ UNCHANGED <<session, idp, clients, now, calls>>

-----------------------------------------------------------------------------
(* The client: poll_remote_login. *)

ClientAt(l, from, to) == client[l].at = from /\ client' = [client EXCEPT ![l].at = to]

\* One request of the loop, before the deadline.
Poll(h, l) ==
  /\ ClientAt(l, "polling", "waiting") /\ now < client[l].until
  /\ PollRead(h, l, "client")
  /\ UNCHANGED <<tables, idp, env, host, handed, now, calls>>

\* Another holder of the login's id polls it: a second terminal.
PollElsewhere(h, l) ==
  /\ Called /\ client[l].at # "starting"
  /\ PollRead(h, l, "other")
  /\ UNCHANGED <<tables, idp, clients, handed, now>>

\* The answer of a poll reaches who asked, if they still wait: the client
\* writes the token to its env file, ends without one when there is none,
\* fails on an HTTP error, or sleeps until the next round.
ReceiveAnswer(h) ==
  LET c == handler[h]
      waiting == c.by = "client" /\ client[c.login].at = "waiting"
  IN
  /\ c.at = "reply" /\ Done(h)
  /\ client' = IF ~waiting THEN client
               ELSE [client EXCEPT ![c.login].at =
                       CASE c.status = "completed" /\ c.token # None -> "installed"
                         [] c.status = "completed" /\ c.token = None -> "empty"
                         [] c.status = "error" -> "failed"
                         [] OTHER -> "polling"]
  /\ env' = IF waiting /\ c.token # None THEN [env EXCEPT ![c.login] = c.token] ELSE env
  /\ UNCHANGED <<tables, idp, host, handed, now, calls>>

\* The connection fails or times out: http_json raises.
LoseAnswer(l) ==
  /\ \E at \in {"starting", "waiting"} : ClientAt(l, at, "failed")
  /\ UNCHANGED <<tables, idp, handler, env, host, handed, now, calls>>

\* Mutant: the deadline is looked at only while the login is pending.
TimeOutPending(l) ==
  /\ ClientAt(l, "polling", "timedOut") /\ now >= client[l].until
  /\ row[l].status = "pending"
  /\ UNCHANGED <<tables, idp, handler, env, host, handed, now, calls>>

\* The deadline of the loop.
TimeOut(l) ==
  /\ ClientAt(l, "polling", "timedOut") /\ now >= client[l].until
  /\ UNCHANGED <<tables, idp, handler, env, host, handed, now, calls>>

-----------------------------------------------------------------------------
(* Revocation, restarts and time. *)

\* revoke_capmesh_session, asked for with a token t that authenticates: one
\* session by id or token, or all that t's subject has.
Revoke(t) ==
  /\ Called /\ Authenticates(t)
  /\ \/ \E s \in DOMAIN session : session' = [session EXCEPT ![s].revoked = TRUE]
     \/ session' = [s \in DOMAIN session |->
                      IF Subject[session[s].login] = Subject[session[t].login]
                      THEN [session[s] EXCEPT !.revoked = TRUE] ELSE session[s]]
  /\ UNCHANGED <<row, idp, handler, clients, handed, now>>

\* The worker is killed; what it had not committed is rolled back.
Crash(h) ==
  /\ handler[h] # Idle /\ Called
  /\ Done(h)
  /\ UNCHANGED <<tables, idp, clients, handed, now>>

\* Time passes up to MaxTime, and on while a client's loop runs.
Tick ==
  /\ \/ now < MaxTime
     \/ \E l \in Login : client[l].at \in {"polling", "waiting"} /\ now < client[l].until
  /\ now' = now + 1
  /\ UNCHANGED <<tables, idp, handler, clients, handed, calls>>

HandlerStep(h) ==
  \/ DeviceCode(h) \/ Validate(h) \/ Exchange(h) \/ Claims(h) \/ GoogleClaims(h)
  \/ Mint(h) \/ Finish(h)
  \/ Redeem(h) \/ Status(h) \/ Deliver(h) \/ ReceiveAnswer(h)

Next ==
  \/ \E l \in Login : StartBrowser(l) \/ StartGoogle(l) \/ Answer(l) \/ LoseAnswer(l)
                       \/ TimeOut(l)
  \/ \E h \in Handler, l \in Login :
       \/ StartDevice(h, l)
       \/ OAuthCallback(h, l) \/ ErrorCallback(h, l) \/ GoogleCallback(h, l)
       \/ Poll(h, l) \/ PollElsewhere(h, l)
  \/ \E h \in Handler : HandlerStep(h) \/ Crash(h)
  \/ \E t \in DOMAIN session : Revoke(t)
  \/ Tick

Spec == Init /\ [][Next]_vars

\* The server goes on with a request it accepted, the client gives up at the
\* timeout of a request or of its loop, and time passes.
Fairness ==
  /\ WF_vars(Tick)
  /\ \A h \in Handler : WF_vars(HandlerStep(h))
  /\ \A l \in Login : WF_vars(TimeOut(l)) /\ WF_vars(LoseAnswer(l))
FairSpec == Spec /\ Fairness

-----------------------------------------------------------------------------
Token == 1..Len(session)

TypeOK ==
  /\ \A l \in Login :
       /\ row[l].status \in {"none", "pending", "callback_received", "failed",
                            "expired", "completed"}
       /\ row[l].meta.bearer \in Token \cup {None}
       /\ env[l] \in Token \cup {None}
       /\ idp[l] \in {"asked", "denied", "granted", "redeemed"}
       /\ client[l].at \in {"idle", "starting", "polling", "waiting", "installed",
                            "empty", "failed", "timedOut"}
  /\ \A s \in Token : session[s].login \in Login /\ session[s].revoked \in BOOLEAN
  /\ DOMAIN handed = Token /\ now \in Nat /\ calls \in 0..MaxCalls

\* A login is completed only once its session is committed, and the token in
\* its row or in its client's env file is a token of that login: whatever
\* handlers overlap and wherever a worker dies between the two transactions of
\* complete_oauth_session.  A completed row has lost its PKCE verifier (F-04).
CompletedHasSession ==
  \A l \in Login :
    /\ row[l].status = "completed" =>
         /\ ~row[l].meta.verifier
         /\ \E s \in Token : session[s].login = l
    /\ \A s \in {row[l].meta.bearer, env[l]} \ {None} :
         s \in Token /\ session[s].login = l

\* One sign-in yields at most one session, although neither completion looks
\* at the status of the row: it rests on the provider redeeming a code once.
OneSessionPerLogin ==
  \A s, t \in Token : session[s].login = session[t].login => s = t

\* A token handed out by a poll is no longer in the row, and no write with
\* metadata read earlier brings it back (F-05: "then nulled").
PurgedOnceHandedOut ==
  \A l \in Login : LET s == row[l].meta.bearer IN s # None => handed[s] = 0

\* The tables and the env files, seen as the book sign-in keeps for its clients.
Owners == [s \in Token |-> session[s].login]
RevokedTokens == {s \in Token : session[s].revoked}
InRows == [l \in Login |-> row[l].meta.bearer]
HandedOut == {s \in Token : handed[s] > 0}
Book == INSTANCE LoginBook WITH
  owner <- Owners, revoked <- RevokedTokens, laidOut <- InRows, given <- HandedOut, kept <- env

\* Whatever handlers overlap and wherever workers die, every step of sign-in is
\* one the book allows: a login gets one session, its row offers that
\* session's token only until a poll was answered with it, the client writes
\* to its env file only what a poll handed out for its own login
\* (poll_remote_login), and revoke_capmesh_session is never undone.
SignInKeepsBook == Book!LoginSpec

\* Every client that starts a login ends: with a token, without one, with an
\* error or at its deadline (poll_remote_login).
LoginEnds ==
  \A l \in Login :
    client[l].at # "idle" ~> client[l].at \in {"installed", "empty", "failed", "timedOut"}

\* "tokens are delivered exactly once to the polling client and then nulled"
\* (tokens.py, complete_oauth_session).
DeliveredOnce == \A s \in Token : handed[s] <= 1
=============================================================================
