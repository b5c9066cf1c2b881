----------------------------- MODULE Delegation -----------------------------
(***************************************************************************)
(* Delegation under the authority's signature: cap.delegate attests a      *)
(* bundle of capabilities for a root task or for a stage of it, cap.report *)
(* accepts the outcome of a delegated task once and answers a signed       *)
(* receipt, and the signing key is created by whichever call needs it      *)
(* first.  A bundle is the texts it was proposed with and the time it was  *)
(* made; its hash is the bundle itself.  What TaskQueue does with the task *)
(* afterwards is not repeated here.                                        *)
(***************************************************************************)
EXTENDS Naturals, Sequences, FiniteSets

CONSTANTS
  Principal, Worker,
  Agent, Skill,    \* the capabilities every bundle names
  Text,            \* texts a capability may have
  Key,             \* keys that may be generated
  MaxAge,          \* ticks a bundle is accepted for (30 minutes)
  Ttl,             \* ticks a receipt is valid for (1800 seconds)
  MaxClock, MaxTasks, MaxChanges, \* bounds: time, tasks, catalog changes
  None

ASSUME DelegationAssumption ==
  None \notin Worker /\ None \notin Key /\ Agent # Skill

VARIABLES
  clock,
  catalog,   \* per capability: indexed text, and whether it is published,
             \* approved, verified and reviewed
  files,     \* per capability: the text of its entrypoint
  may,       \* per principal: the capabilities it is entitled to
  keys,      \* the private key, public key and trust record files
  lock,      \* the holder of the key directory's flock, or None
  tasks,     \* the task envelopes under state_dir()/tasks
  reports,   \* authoritative_router_reports: tasks with a row
  receipts,  \* history: the report receipts answered
  worker,    \* per worker: the request it serves
  changes    \* catalog changes so far

vars == <<clock, catalog, files, may, keys, lock, tasks, reports, receipts,
          worker, changes>>

Cap == {Agent, Skill}

Idle == [at |-> "idle"]

Init ==
  /\ clock = 0
  /\ files \in {[c \in Cap |-> t] : t \in Text}
  /\ catalog = [c \in Cap |-> [text |-> files[c], approved |-> TRUE]]
  /\ may = [p \in Principal |-> Cap]
  /\ keys = [private |-> None, public |-> None, record |-> None]
  /\ lock = None
  /\ tasks = << >>
  /\ reports = {}
  /\ receipts = << >>
  /\ worker = [w \in Worker |-> Idle]
  /\ changes = 0

-----------------------------------------------------------------------------
(* Validation against the catalog *)

Fresh(bundle) == clock - bundle.made <= MaxAge

\* Every proposed text is the one in the catalog and on disk, every capability
\* is approved, and the principal is entitled to all of them.
RootBundleValid(bundle, who) ==
  /\ Fresh(bundle)
  /\ \A c \in Cap :
       /\ catalog[c] = [text |-> bundle.texts[c], approved |-> TRUE]
       /\ files[c] = catalog[c].text
       /\ c \in may[who]

StageBundleValid(bundle, who) ==
  /\ Fresh(bundle)
  /\ \A c \in Cap :
       /\ files[c] = catalog[c].text
       /\ catalog[c] = [text |-> bundle.texts[c], approved |-> TRUE]
       /\ c \in may[who]

\* Signatures are made and verified with the key that is on disk.
Signer == keys.private

\* The receipt of cap.delegate binds a task to its bundle until it expires.
BundleReceipt(id, bundle) ==
  [task |-> id, bundle |-> bundle, expires |-> clock + Ttl, key |-> Signer]

ReceiptVerifies(receipt, id, bundle) ==
  /\ receipt.task = id
  /\ receipt.bundle = bundle
  /\ clock < receipt.expires
  /\ receipt.key = Signer

\* Mutant: the upstream task may be anyone's.
AnyUpstream(ctx, who) ==
  /\ RootBundleValid(ctx.root, who)
  /\ ctx.stage # None =>
       /\ ctx.upstream \in DOMAIN tasks
       /\ ReceiptVerifies(ctx.receipt, ctx.upstream, ctx.root)
       /\ tasks[ctx.upstream].ctx.root = ctx.root
       /\ StageBundleValid(ctx.stage, who)

\* The whole context of a request: a root bundle, and for a stage also the
\* upstream task, its receipt and the stage's own bundle.
ContextValid(ctx, who) ==
  /\ RootBundleValid(ctx.root, who)
  /\ ctx.stage # None =>
       /\ ctx.upstream \in DOMAIN tasks
       /\ ReceiptVerifies(ctx.receipt, ctx.upstream, ctx.root)
       /\ tasks[ctx.upstream].who = who
       /\ tasks[ctx.upstream].ctx.root = ctx.root
       /\ StageBundleValid(ctx.stage, who)

\* The bundle a receipt of the task binds: its stage's, or its own.
Bound(ctx) == IF ctx.stage = None THEN ctx.root ELSE ctx.stage

-----------------------------------------------------------------------------
(* What changes under the requests *)

Tick ==
  /\ clock < MaxClock
  /\ clock' = clock + 1
  /\ UNCHANGED <<catalog, files, may, keys, lock, tasks, reports, receipts,
                 worker, changes>>

EditFile(c, text) ==
  /\ changes < MaxChanges
  /\ text # files[c]
  /\ files' = [files EXCEPT ![c] = text]
  /\ changes' = changes + 1
  /\ UNCHANGED <<clock, catalog, may, keys, lock, tasks, reports, receipts, worker>>

\* A re-ingest of changed content, with its approval reset; then a review.
Reindex(c) ==
  /\ catalog[c].text # files[c]
  /\ catalog' = [catalog EXCEPT ![c] = [text |-> files[c], approved |-> FALSE]]
  /\ UNCHANGED <<clock, files, may, keys, lock, tasks, reports, receipts, worker, changes>>

Approve(c) ==
  /\ ~catalog[c].approved
  /\ catalog' = [catalog EXCEPT ![c].approved = TRUE]
  /\ UNCHANGED <<clock, files, may, keys, lock, tasks, reports, receipts, worker, changes>>

Revoke(p, c) ==
  /\ changes < MaxChanges
  /\ c \in may[p]
  /\ may' = [may EXCEPT ![p] = @ \ {c}]
  /\ changes' = changes + 1
  /\ UNCHANGED <<clock, catalog, files, keys, lock, tasks, reports, receipts, worker>>

-----------------------------------------------------------------------------
(* The first half of a request: everything is read and checked again *)

\* Contexts a caller may propose: any bundle of this age or older, and for a
\* stage a receipt some delegation answered, with the task it names or another.
Proposals ==
  LET bundles == [texts : {[c \in Cap |-> catalog[c].text]}, made : 0..clock]
  IN  [root : bundles, stage : {None}, upstream : {None}, receipt : {None}]
        \cup [root : bundles, stage : bundles, upstream : DOMAIN tasks,
              receipt : {tasks[i].receipt : i \in DOMAIN tasks}]

Delegate(w, who, ctx) ==
  /\ worker[w].at = "idle"
  /\ Len(tasks) + Cardinality({v \in Worker : worker[v].at # "idle"}) < MaxTasks
  /\ ContextValid(ctx, who)
  /\ worker' = [worker EXCEPT ![w] = [at |-> "keys", job |-> "delegate",
                                      who |-> who, ctx |-> ctx]]
  /\ UNCHANGED <<clock, catalog, files, may, keys, lock, tasks, reports, receipts, changes>>

\* A titration report names the root bundle of its task and a workflow report
\* the stage bundle; either must be the bundle validation computes again.
EventOf(ctx, event) ==
  CASE event = "titration" -> Bound(ctx) = ctx.root
    [] event = "workflow"  -> ctx.stage # None

Report(w, who, id, event) ==
  /\ worker[w].at = "idle"
  /\ tasks[id].who = who
  /\ EventOf(tasks[id].ctx, event)
  /\ ContextValid(tasks[id].ctx, who)
  /\ worker' = [worker EXCEPT ![w] = [at |-> "keys", job |-> "report",
                  who |-> who, task |-> id, event |-> event,
                  seen |-> [c \in Cap |-> catalog[c].text]]]
  /\ UNCHANGED <<clock, catalog, files, may, keys, lock, tasks, reports, receipts, changes>>

-----------------------------------------------------------------------------
(* The signing key: private key, public key, trust record, in that order *)

\* Mutant: the key directory is entered without the flock.
TakeKeyShared(w, fresh) ==
  /\ worker[w].at = "keys"
  /\ lock' = w
  /\ worker' = [worker EXCEPT ![w] = [at |-> "private", req |-> @,
                  mine |-> IF keys.private = None THEN fresh ELSE keys.private]]
  /\ UNCHANGED <<clock, catalog, files, may, keys, tasks, reports, receipts, changes>>

\* flock, and the private key that is there or a fresh one.
TakeKey(w, fresh) ==
  /\ worker[w].at = "keys"
  /\ lock = None
  /\ lock' = w
  /\ worker' = [worker EXCEPT ![w] = [at |-> "private", req |-> @,
                  mine |-> IF keys.private = None THEN fresh ELSE keys.private]]
  /\ UNCHANGED <<clock, catalog, files, may, keys, tasks, reports, receipts, changes>>

WritePrivate(w) ==
  /\ worker[w].at = "private"
  /\ keys' = [keys EXCEPT !.private = worker[w].mine]
  /\ worker' = [worker EXCEPT ![w].at = "public"]
  /\ UNCHANGED <<clock, catalog, files, may, lock, tasks, reports, receipts, changes>>

\* An existing file must already be this key's: it is never rotated.
WritePublic(w) ==
  /\ worker[w].at = "public"
  /\ keys.public \in {None, worker[w].mine}
  /\ keys' = [keys EXCEPT !.public = worker[w].mine]
  /\ worker' = [worker EXCEPT ![w].at = "record"]
  /\ UNCHANGED <<clock, catalog, files, may, lock, tasks, reports, receipts, changes>>

WriteRecord(w) ==
  /\ worker[w].at = "record"
  /\ keys.record \in {None, worker[w].mine}
  /\ keys' = [keys EXCEPT !.record = worker[w].mine]
  /\ lock' = None
  /\ worker' = [worker EXCEPT ![w] = [@.req EXCEPT !.at = "sign"]]
  /\ UNCHANGED <<clock, catalog, files, may, tasks, reports, receipts, changes>>

-----------------------------------------------------------------------------
(* The second half: sign with the key on disk, store, answer *)

WriteTask(w) ==
  LET id == Len(tasks) + 1
      req == worker[w]
  IN
  /\ req.at = "sign" /\ req.job = "delegate"
  /\ tasks' = Append(tasks, [who |-> req.who, ctx |-> req.ctx,
                             receipt |-> BundleReceipt(id, Bound(req.ctx))])
  /\ worker' = [worker EXCEPT ![w] = Idle]
  /\ UNCHANGED <<clock, catalog, files, may, keys, lock, reports, receipts, changes>>

Inserted(w) ==
  worker' = [worker EXCEPT ![w] = [at |-> "answer", receipt |->
    [task |-> @.task, event |-> @.event, who |-> @.who, seen |-> @.seen,
     key |-> Signer]]]

\* Mutant: the row of an earlier report is replaced.
InsertAgain(w) ==
  /\ worker[w].at = "sign" /\ worker[w].job = "report"
  /\ reports' = reports \cup {worker[w].task}
  /\ Inserted(w)
  /\ UNCHANGED <<clock, catalog, files, may, keys, lock, tasks, receipts, changes>>

\* The row is unique per task: a second report of it is denied as a replay.
InsertReport(w) ==
  /\ worker[w].at = "sign" /\ worker[w].job = "report"
  /\ reports' = reports \cup {worker[w].task}
  /\ IF worker[w].task \in reports THEN worker' = [worker EXCEPT ![w] = Idle]
                                   ELSE Inserted(w)
  /\ UNCHANGED <<clock, catalog, files, may, keys, lock, tasks, receipts, changes>>

AnswerReport(w) ==
  /\ worker[w].at = "answer"
  /\ receipts' = Append(receipts, worker[w].receipt)
  /\ worker' = [worker EXCEPT ![w] = Idle]
  /\ UNCHANGED <<clock, catalog, files, may, keys, lock, tasks, reports, changes>>

\* Mutant: a killed worker's files in the key directory are taken back.
CrashTakesKeyBack(w) ==
  /\ worker[w].at # "idle"
  /\ worker' = [worker EXCEPT ![w] = Idle]
  /\ lock' = IF lock = w THEN None ELSE lock
  /\ keys' = IF lock = w THEN [private |-> None, public |-> None, record |-> None] ELSE keys
  /\ UNCHANGED <<clock, catalog, files, may, tasks, reports, receipts, changes>>

\* The process dies; the kernel drops its flock.
Crash(w) ==
  /\ worker[w].at # "idle"
  /\ worker' = [worker EXCEPT ![w] = Idle]
  /\ lock' = IF lock = w THEN None ELSE lock
  /\ UNCHANGED <<clock, catalog, files, may, keys, tasks, reports, receipts, changes>>

-----------------------------------------------------------------------------
Next ==
  \/ Tick
  \/ \E c \in Cap : \/ \E text \in Text : EditFile(c, text)
                    \/ Reindex(c) \/ Approve(c)
                    \/ \E p \in Principal : Revoke(p, c)
  \/ \E w \in Worker :
       \/ \E who \in Principal :
            \/ \E ctx \in Proposals : Delegate(w, who, ctx)
            \/ \E id \in DOMAIN tasks, event \in {"titration", "workflow"} :
                 Report(w, who, id, event)
       \/ \E fresh \in Key : TakeKey(w, fresh)
       \/ WritePrivate(w) \/ WritePublic(w) \/ WriteRecord(w)
       \/ WriteTask(w) \/ InsertReport(w) \/ AnswerReport(w) \/ Crash(w)

Spec == Init /\ [][Next]_vars

-----------------------------------------------------------------------------
\* However reports of a task race, are repeated or are cut off by a crash, the
\* authority answers at most one receipt for it ("this delegated stage already
\* has an authoritative report", cap_report).
OneReceipt ==
  \A i, j \in DOMAIN receipts : receipts[i].task = receipts[j].task => i = j

\* A receipt answers the principal the task was delegated to, for exactly the
\* texts that were in the catalog when the report was validated; and the task
\* of a workflow receipt hangs, through upstream tasks of the same principal
\* bound to the same root bundle, on a root delegation
\* (_validate_authoritative_bundle, at delegation and again at the report).
ReceiptRooted ==
  \A i \in DOMAIN receipts :
    LET receipt == receipts[i]
        task    == tasks[receipt.task]
        up      == tasks[task.ctx.upstream]
    IN  /\ task.who = receipt.who
        /\ Bound(task.ctx).texts = receipt.seen /\ task.ctx.root.texts = receipt.seen
        /\ receipt.event = "workflow" =>
             /\ task.ctx.upstream < receipt.task
             /\ up.who = receipt.who
             /\ up.ctx.root = task.ctx.root
             /\ up.receipt.bundle = task.ctx.root

\* Every receipt the authority signed verifies under the public key it
\* publishes, however many workers create the key at once and wherever one of
\* them is killed (ensure_authority_keypair: "existing keys are verified and
\* never rotated").
SignedByPublished ==
  /\ \A i \in DOMAIN tasks : tasks[i].receipt.key = keys.public
  /\ \A i \in DOMAIN receipts : receipts[i].key = keys.public

\* What the holders of receipts have seen: who a task was delegated to and
\* under which key, and the same of the task each answer is about.
Given == [i \in DOMAIN tasks |-> [who |-> tasks[i].who, key |-> tasks[i].receipt.key]]
Answers == [i \in DOMAIN receipts |-> [task |-> receipts[i].task, who |-> receipts[i].who,
                                      key |-> receipts[i].key]]

Promise == INSTANCE Authority WITH key <- keys.public, given <- Given, answers <- Answers

\* Racing workers, interrupted key creation, stages, replays and crashes look
\* from outside like one authority that publishes its key once, signs each
\* delegation with it and answers each delegated task at most once, to its
\* own principal: every step of cap_delegate, cap_report and
\* ensure_authority_keypair is one step of Authority or none.
AuthorityKeepsPromise == Promise!AuthoritySpec
=============================================================================
