------------------------------- MODULE Server -------------------------------
(***************************************************************************)
(* One HTTP worker (serve_http of server.py): handler threads that keep    *)
(* their client's connection open between requests, the worker's           *)
(* state_lock, and the SQLite connection each thread owns.  What a request *)
(* writes and does not commit stays open, with the database's write lock,  *)
(* until something commits, rolls back or closes that connection.  Other   *)
(* processes write the same database without the state_lock.               *)
(***************************************************************************)
EXTENDS RegistryLog

CONSTANTS
  Thread,      \* handler threads, each with its SQLite connection
  Caller,      \* who calls on each: a tailnet identity, the service token
  Threshold,   \* consecutive embedding failures that open the breaker
  MaxRequests  \* bound on the requests received

ASSUME ServerAssumption ==
  /\ Thread \subseteq Conn
  /\ Caller \in [Thread -> [identity : BOOLEAN, token : BOOLEAN]]
  /\ MaxRequests \in Nat /\ Threshold \in Nat \ {0}

VARIABLES
  thread,    \* position and route of each thread, and whether its last answer
             \* was one that frees the write lock
  lock,      \* holder of state_lock
  rows,      \* uncommitted identity and policy_decisions rows of each thread
  breaker,   \* the worker's embedding breaker: failures counted, and if open
  known,     \* threads whose caller's identity and stores are committed
  requests

vars == <<logVars, thread, lock, rows, breaker, known, requests>>

-----------------------------------------------------------------------------
(* The routes: who may call, under the lock or not, what the handler does  *)
(* and whether an open transaction is rolled back when it is done.         *)

RouteOf(gate, locked, does, rollback) ==
  [gate |-> gate, locked |-> locked, does |-> does, rollback |-> rollback]

\* do_GET before its authorization check: probes, metadata and pages read;
\* /api/v1/whoami provisions its caller.
PublicGet == {RouteOf("none", FALSE, "read", FALSE),
              RouteOf("identity", TRUE, "settle", FALSE)}

\* do_GET after it: SCIM and API lists decide under the lock, the console and
\* the tool list only read, /cap/search rolls back what it may have opened.
GatedGet == {RouteOf("read", TRUE, "list", FALSE),
             RouteOf("read", FALSE, "read", FALSE),
             RouteOf("read", FALSE, "search", TRUE)}

\* do_POST: public sign-in without the lock; SCIM, REST and webhooks under it.
PostRoutes == {RouteOf("none", FALSE, "mutate", FALSE),
               RouteOf("mutating", TRUE, "decide", FALSE),
               RouteOf("mutating", TRUE, "read", FALSE)}

\* /mcp, /tools/call and /cap/call: reads without the lock, the rest under it,
\* and a rollback after either.
ToolRoutes == {RouteOf("read", FALSE, "read", TRUE),
               RouteOf("mutating", TRUE, "decide", TRUE)}

\* do_PATCH, do_PUT and do_DELETE.
ChangeRoutes == {RouteOf("mutating", TRUE, "decide", FALSE)}

Route == PublicGet \cup GatedGet \cup PostRoutes \cup ToolRoutes \cup ChangeRoutes

\* principal() makes a tailnet-guest of a caller with neither.  authorized()
\* lets anyone else in; mutating_route_authorized asks for the service token.
Admits(gate, caller) ==
  CASE gate = "none" -> TRUE
    [] gate \in {"identity", "read"} -> caller.identity \/ caller.token
    [] gate = "mutating" -> caller.token

-----------------------------------------------------------------------------
NoRoute == RouteOf("none", FALSE, "read", FALSE)
Idle(freed) == [at |-> "idle", route |-> NoRoute, freed |-> freed]

Closed == [failures |-> 0, open |-> FALSE]

Init ==
  /\ LogInit
  /\ thread = [t \in Thread |-> Idle(FALSE)]
  /\ lock = None
  /\ rows = [t \in Thread |-> {}]
  /\ breaker = Closed /\ known = {} /\ requests = 0

At(t, from) == thread[t].at = from
Goto(t, to) == thread' = [thread EXCEPT ![t].at = to]
InTransaction(t) == writer = t

\* The thread's rows are committed with its transaction, or dropped with it.
RowsCommitted(t) ==
  /\ rows' = [rows EXCEPT ![t] = {}]
  /\ known' = IF "identity" \in rows[t] THEN known \cup {t} ELSE known
RowsDropped(t) == rows' = [rows EXCEPT ![t] = {}] /\ UNCHANGED known
RowsKept == UNCHANGED <<rows, known>>
Wrote(t, row) == rows' = [rows EXCEPT ![t] = @ \cup {row}] /\ UNCHANGED known

-----------------------------------------------------------------------------
(* One request. *)

\* read_json: the body is read and parsed, or answered with an error at once.
Receive(t, r) ==
  /\ At(t, "idle") /\ requests < MaxRequests
  /\ requests' = requests + 1
  /\ thread' = [thread EXCEPT ![t] = [at |-> "gate", route |-> r, freed |-> FALSE]]
  /\ UNCHANGED <<logVars, lock, breaker>> /\ RowsKept

\* principal(): a caller with a tailnet identity is provisioned, under the
\* lock; then the gate admits the request or answers 401.
Gate(t) ==
  LET r == thread[t].route IN
  /\ At(t, "gate")
  /\ IF r.gate # "none" /\ Caller[t].identity
     THEN lock = None /\ lock' = t /\ Goto(t, "provision")
     ELSE /\ Goto(t, IF Admits(r.gate, Caller[t]) THEN "enter" ELSE "end")
          /\ UNCHANGED lock
  /\ UNCHANGED <<logVars, requests>> /\ RowsKept

Provisioned(t) ==
  /\ Goto(t, IF Admits(thread[t].route.gate, Caller[t]) THEN "enter" ELSE "end")
  /\ lock' = None /\ UNCHANGED requests

\* ensure_identity_for_principal: a settled identity is only read; a new one is
\* written, not committed; a database error is swallowed.
Provision(t) ==
  /\ At(t, "provision") /\ Provisioned(t)
  /\ \/ /\ t \in known \/ "identity" \in rows[t]
        /\ UNCHANGED logVars /\ RowsKept
     \/ /\ t \notin known /\ "identity" \notin rows[t]
        /\ Write(t) /\ Wrote(t, "identity")

\* The handler of the route, under state_lock where the route takes it.  One
\* that only reads, on the thread's own connection, is done with that.
Enter(t) ==
  LET r == thread[t].route IN
  /\ At(t, "enter")
  /\ IF r.locked THEN lock = None /\ lock' = t ELSE UNCHANGED lock
  /\ Goto(t, IF r.does = "read" THEN "end" ELSE r.does)
  /\ UNCHANGED <<logVars, requests>> /\ RowsKept

\* cap.search has its exact and full-text matches; for the vector it embeds the
\* query, unless the breaker is open: then it answers from the text alone.
Search(t) ==
  /\ At(t, "search") /\ Goto(t, IF breaker.open THEN "end" ELSE "embed")
  /\ UNCHANGED <<logVars, lock, requests, breaker>> /\ RowsKept

RecordFailure(deadline) ==
  LET failures == IF breaker.failures < Threshold THEN breaker.failures + 1 ELSE Threshold
  IN  breaker' = [failures |-> failures,
                  open |-> breaker.open \/ deadline \/ failures >= Threshold]

\* embed_text: the endpoint answers, refuses, or trickles until the hard
\* deadline; any failure leaves the search with its text matches.
Embed(t) ==
  /\ At(t, "embed") /\ Goto(t, "end")
  /\ \/ breaker' = Closed
     \/ \E deadline \in BOOLEAN : RecordFailure(deadline)
  /\ UNCHANGED <<logVars, lock, requests>> /\ RowsKept

\* The cool-down is over; the count of failures stays.
CoolDown ==
  /\ breaker.open
  /\ breaker' = [breaker EXCEPT !.open = FALSE]
  /\ UNCHANGED <<logVars, thread, lock, rows, known, requests>>

\* Mutant: the provisioning of the caller is left to a later commit.
SettleLater(t) ==
  /\ At(t, "settle") /\ Goto(t, "end")
  /\ UNCHANGED <<logVars, lock, requests>> /\ RowsKept

\* current_user provisions again what an error kept from being written, and
\* commits if, and only if, a transaction is open.
Settle(t) ==
  LET missing == Caller[t].identity /\ t \notin known /\ "identity" \notin rows[t] IN
  /\ At(t, "settle") /\ Goto(t, "end")
  /\ IF missing \/ InTransaction(t)
     THEN /\ writer \in {None, t} /\ Commit(t)
          /\ rows' = [rows EXCEPT ![t] = {}]
          /\ known' = IF Caller[t].identity THEN known \cup {t} ELSE known
     ELSE UNCHANGED logVars /\ RowsKept
  /\ UNCHANGED <<lock, requests>>

\* A list asks evaluate_access, which writes the decision; nothing commits it.
List(t) ==
  /\ At(t, "list") /\ Goto(t, "end")
  /\ Write(t) /\ Wrote(t, "decision")
  /\ UNCHANGED <<lock, requests>>

\* A mutation asks first; a refusal leaves the handler with the row written.
Decide(t) ==
  /\ At(t, "decide")
  /\ \E to \in {"mutate", "end"} : Goto(t, to)
  /\ Write(t) /\ Wrote(t, "decision")
  /\ UNCHANGED <<lock, requests>>

\* Then it writes its rows and their audit event, and commits.
Mutate(t, e) ==
  /\ At(t, "mutate") /\ Goto(t, "commit")
  /\ AuditEvent(t, e)
  /\ UNCHANGED <<lock, requests>> /\ RowsKept

\* Or it finds its input wrong, and the row of the decision stays written.
Refuse(t) ==
  /\ At(t, "mutate") /\ Goto(t, "end")
  /\ UNCHANGED <<logVars, lock, requests>> /\ RowsKept

CommitRequest(t) ==
  /\ At(t, "commit") /\ Goto(t, "end")
  /\ Commit(t) /\ RowsCommitted(t)
  /\ UNCHANGED <<lock, requests>>

\* Mutant: a write waits for the write lock as long as it takes.
NeverBusy(t) ==
  /\ At(t, "provision") /\ writer \notin {None, t}
  /\ Provisioned(t)
  /\ UNCHANGED logVars /\ RowsKept

\* busy_timeout: the write lock is not free in time.  Provisioning goes on
\* without its row, a tool call answers INTERNAL_ERROR, and the exception
\* leaves a REST handler, which frees state_lock and ends the thread.
Busy(t) ==
  /\ writer \notin {None, t}
  /\ \/ At(t, "provision") /\ Provisioned(t)
     \/ /\ At(t, "settle") \/ At(t, "list") \/ At(t, "decide") \/ At(t, "mutate")
        /\ Goto(t, IF thread[t].route.rollback THEN "end" ELSE "closing")
        /\ lock' = IF lock = t /\ ~thread[t].route.rollback THEN None ELSE lock
        /\ UNCHANGED requests
  /\ UNCHANGED logVars /\ RowsKept

\* The answers after which the connection must hold no write lock.
Frees(t) ==
  \/ thread[t].route.rollback
  \/ thread[t].route.does = "settle" /\ Admits("identity", Caller[t])

\* The answer: state_lock is freed, and the routes that say so roll back.
End(t) ==
  /\ At(t, "end")
  /\ thread' = [thread EXCEPT ![t] = Idle(Frees(t))]
  /\ lock' = IF lock = t THEN None ELSE lock
  /\ IF thread[t].route.rollback /\ InTransaction(t)
     THEN Rollback(t) /\ RowsDropped(t)
     ELSE UNCHANGED logVars /\ RowsKept
  /\ UNCHANGED requests

\* finish: the client or the server closes the connection, and close_current
\* the thread's database connection.  The next client starts afresh.
Finish(t) ==
  /\ At(t, "idle") \/ At(t, "closing")
  /\ thread' = [thread EXCEPT ![t] = Idle(FALSE)]
  /\ Rollback(t) /\ RowsDropped(t)
  /\ UNCHANGED <<lock, requests>>

\* The worker stops, or dies, and is started again: every connection is closed.
Restart ==
  /\ requests < MaxRequests /\ requests' = requests + 1
  /\ thread' = [t \in Thread |-> Idle(FALSE)]
  /\ lock' = None /\ breaker' = Closed
  /\ rows' = [t \in Thread |-> {}]
  /\ pend' = [c \in Conn |-> IF c \in Thread THEN NoRows ELSE pend[c]]
  /\ writer' = IF writer \in Thread THEN None ELSE writer
  /\ UNCHANGED <<log, audit, read, known>>

\* The steps of a request that neither ask nor change the breaker.
Serve(t) ==
  \/ Gate(t) \/ Provision(t) \/ Enter(t) \/ Settle(t) \/ List(t) \/ Decide(t)
  \/ \E e \in Event : Mutate(t, e)
  \/ Refuse(t) \/ CommitRequest(t) \/ Busy(t) \/ End(t)
  \/ At(t, "closing") /\ Finish(t)

ThreadStep(t) ==
  \/ Search(t) \/ Embed(t)
  \/ Serve(t) /\ UNCHANGED breaker

\* Another process on the database: a CLI command, a second worker.
Process(c) ==
  /\ \/ AppendInsert(c)
     \/ \E e \in Event : AuditEvent(c, e)
     \/ \E e \in Direct : AppendRead(c, e)
     \/ writer = c /\ (Commit(c) \/ Rollback(c))
  /\ UNCHANGED <<thread, lock, requests, breaker>> /\ RowsKept

Next ==
  \/ \E t \in Thread : ThreadStep(t)
  \/ \E t \in Thread : At(t, "idle") /\ Finish(t) /\ UNCHANGED breaker
  \/ \E t \in Thread, r \in Route : Receive(t, r)
  \/ \E c \in Conn \ Thread : Process(c)
  \/ CoolDown \/ Restart

Spec == Init /\ [][Next]_vars

\* A handler goes on with its request: it gets the lock or the busy timeout
\* ends its wait.  Clients need not close their connections.
FairSpec == Spec /\ \A t \in Thread : WF_vars(ThreadStep(t))

-----------------------------------------------------------------------------
TypeOK ==
  /\ \A t \in Thread :
       /\ thread[t].at \in {"idle", "gate", "provision", "enter", "search", "embed",
                           "settle", "list", "decide", "mutate", "commit", "end", "closing"}
       /\ rows[t] \subseteq {"identity", "decision"}
       /\ rows[t] # {} => writer = t
  /\ lock \in Thread \cup {None} /\ writer \in Conn \cup {None}
  /\ breaker \in [failures : 0..Threshold, open : BOOLEAN]
  /\ known \subseteq Thread /\ requests \in 0..MaxRequests

\* A thread that has answered a search, a tool call or a whoami holds no write
\* lock while its client keeps the connection open, whatever its earlier
\* requests left behind: "an open transaction would hold the write lock across
\* the response" (tests/test_identity_provisioning.py).
AnsweredFreesWriteLock ==
  \A t \in Thread : thread[t].freed => writer # t

\* Every request is answered or its connection is closed, even when an idle
\* connection or another process sits on the write lock.
RequestsEnd == \A t \in Thread : thread[t].at # "idle" ~> thread[t].at = "idle"

\* "Log every access decision (granted/denied, principal, capabilityUri, scope,
\* reason)" (docs/design/asg-capmesh-spec.md, L.9): the row of a decision that
\* was answered is not rolled back.
DecisionsLogged ==
  [][\A t \in Thread : "decision" \in rows[t] \ rows'[t] => At(t, "commit") \/ At(t, "settle")]_vars
=============================================================================
