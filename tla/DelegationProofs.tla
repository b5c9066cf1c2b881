-------------------------- MODULE DelegationProofs --------------------------
(* Theorems about Delegation, for any number of workers, tasks, reports,    *)
(* keys and changes to the catalog.                                         *)
EXTENDS Delegation, SequenceTheorems, TLAPS

\* A sequence of whatever it holds.
IsList(s) == s \in Seq({s[i] : i \in 1..Len(s)})

InLock == {"private", "public", "record"}

\* What a worker holds: a record with a position, around the request while it
\* is in the key directory.
ShapeOK(r) == /\ "at" \in DOMAIN r
              /\ r.at \in InLock => {"req", "mine"} \subseteq DOMAIN r /\ "at" \in DOMAIN r.req

Shapes ==
  /\ worker = [w \in Worker |-> worker[w]]
  /\ \A w \in Worker : ShapeOK(worker[w])
  /\ IsList(tasks) /\ IsList(receipts)

\* Behind OneReceipt: an answer under way is for a task whose row is in the
\* table, that no receipt names and no other worker is about to answer.
OnceInv ==
  /\ \A i \in 1..Len(receipts) : receipts[i].task \in reports
  /\ \A w \in Worker : worker[w].at = "answer" =>
       /\ worker[w].receipt.task \in reports
       /\ \A i \in 1..Len(receipts) : receipts[i].task # worker[w].receipt.task
       /\ \A v \in Worker :
            (worker[v].at = "answer" /\ worker[v].receipt.task = worker[w].receipt.task) => v = w
  /\ \A i, j \in 1..Len(receipts) : receipts[i].task = receipts[j].task => i = j

\* Behind SignedByPublished: the flock is held through the three writes, the
\* public key is the private one's, and who signs has seen both written.
Published == keys.public # None /\ keys.public = keys.private

WorkerKey(w, r) ==
  /\ r.at \in InLock => lock = w /\ r.mine # None
  /\ r.at = "private" => keys.private \in {None, r.mine}
  /\ r.at = "public" => keys.private = r.mine
  /\ r.at = "record" => Published /\ keys.private = r.mine
  /\ r.at = "sign" => Published
  /\ r.at = "answer" => Published /\ r.receipt.key = keys.public

KeyInv ==
  /\ keys = [private |-> keys.private, public |-> keys.public, record |-> keys.record]
  /\ keys.public # None => Published
  /\ \A w \in Worker : WorkerKey(w, worker[w])
  /\ \A i \in 1..Len(tasks) : Published /\ tasks[i].receipt.key = keys.public
  /\ \A i \in 1..Len(receipts) : Published /\ receipts[i].key = keys.public

-----------------------------------------------------------------------------
\* Appending to a list, element by element.
LEMMA ListAppend ==
  ASSUME NEW s, NEW x, IsList(s)
  PROVE  /\ IsList(Append(s, x)) /\ Len(Append(s, x)) = Len(s) + 1
         /\ Len(s) \in Nat /\ DOMAIN s = 1..Len(s)
         /\ \A i \in 1..Len(s) : Append(s, x)[i] = s[i]
         /\ Append(s, x)[Len(s) + 1] = x
<1> DEFINE S == {s[i] : i \in 1..Len(s)} \cup {x}
           a == Append(s, x)
<1>1. s \in Seq(S) /\ x \in S
  BY SeqMonotonic DEF IsList
<1> HIDE DEF S
<1>2. /\ a \in Seq(S) /\ Len(a) = Len(s) + 1
      /\ \A i \in 1..Len(s) : a[i] = s[i]
      /\ a[Len(s) + 1] = x
  BY <1>1, AppendProperties
<1>3. Len(s) \in Nat /\ DOMAIN s = 1..Len(s) /\ Len(a) \in Nat /\ a \in [1..Len(a) -> S]
  BY <1>1, <1>2, LenProperties
<1> HIDE DEF a
<1>4. a \in [1..Len(a) -> {a[i] : i \in 1..Len(a)}]
  BY <1>3
<1>5. IsList(a)
  BY <1>3, <1>4, SeqDef DEF IsList
<1>6. QED
  BY <1>2, <1>3, <1>5 DEF a

\* The domain of a list.
LEMMA ListDomain ==
  ASSUME NEW s, IsList(s)
  PROVE  DOMAIN s = 1..Len(s) /\ Len(s) \in Nat
BY LenProperties DEF IsList

\* The steps of a request, by what they do to the worker that takes them.
Request(w) ==
  \/ \E who \in Principal :
       \/ \E ctx \in Proposals : Delegate(w, who, ctx)
       \/ \E id \in DOMAIN tasks, event \in {"titration", "workflow"} :
            Report(w, who, id, event)
Locked(w) == (\E fresh \in Key : TakeKey(w, fresh)) \/ WritePrivate(w) \/ WritePublic(w)
             \/ WriteRecord(w)
Elsewhere ==
  \/ Tick
  \/ \E c \in Cap : \/ \E text \in Text : EditFile(c, text)
                    \/ Reindex(c) \/ Approve(c)
                    \/ \E p \in Principal : Revoke(p, c)

\* Every step is of the rest of the system or of one worker.
LEMMA Steps ==
  ASSUME [Next]_vars
  PROVE  \/ Elsewhere \/ UNCHANGED vars
         \/ \E w \in Worker : \/ Request(w) \/ Locked(w) \/ WriteTask(w)
                              \/ InsertReport(w) \/ AnswerReport(w) \/ Crash(w)
BY DEF Next, Elsewhere, Request, Locked

\* The rest of the system writes neither tasks, reports nor keys.
LEMMA ElsewhereChanges ==
  ASSUME Elsewhere \/ UNCHANGED vars
  PROVE  UNCHANGED <<keys, lock, tasks, reports, receipts, worker>>
BY DEF Elsewhere, Tick, EditFile, Reindex, Approve, Revoke, vars

\* A request that arrives puts its worker before the key lock.
LEMMA RequestChanges ==
  ASSUME NEW w \in Worker, Request(w)
  PROVE  /\ UNCHANGED <<keys, lock, tasks, reports, receipts>>
         /\ \E r : worker' = [worker EXCEPT ![w] = r] /\ r.at = "keys" /\ "at" \in DOMAIN r
<1>1. ASSUME NEW who \in Principal, NEW ctx \in Proposals, Delegate(w, who, ctx)
      PROVE  \E r : worker' = [worker EXCEPT ![w] = r] /\ r.at = "keys" /\ "at" \in DOMAIN r
  <2> DEFINE r == [at |-> "keys", job |-> "delegate", who |-> who, ctx |-> ctx]
  <2>1. worker' = [worker EXCEPT ![w] = r]
    BY <1>1 DEF Delegate
  <2>2. r.at = "keys" /\ "at" \in DOMAIN r
    OBVIOUS
  <2> HIDE DEF r
  <2>3. QED
    BY <2>1, <2>2
<1>2. ASSUME NEW who \in Principal, NEW id \in DOMAIN tasks,
             NEW event \in {"titration", "workflow"}, Report(w, who, id, event)
      PROVE  \E r : worker' = [worker EXCEPT ![w] = r] /\ r.at = "keys" /\ "at" \in DOMAIN r
  <2> DEFINE r == [at |-> "keys", job |-> "report", who |-> who, task |-> id, event |-> event,
                   seen |-> [c \in Cap |-> catalog[c].text]]
  <2>1. worker' = [worker EXCEPT ![w] = r]
    BY <1>2 DEF Report
  <2>2. r.at = "keys" /\ "at" \in DOMAIN r
    OBVIOUS
  <2> HIDE DEF r
  <2>3. QED
    BY <2>1, <2>2
<1>3. UNCHANGED <<keys, lock, tasks, reports, receipts>>
  BY DEF Request, Delegate, Report
<1>4. QED
  BY <1>1, <1>2, <1>3 DEF Request

\* What a worker holds after each of its steps in the key directory.
LockedTo(w, r) ==
  /\ worker' = [worker EXCEPT ![w] = r] /\ ShapeOK(r)
  /\ r.at \in InLock \cup {"sign"}
  /\ r.at \in {"public", "record"} => r.mine = worker[w].mine

\* What a worker does about the signing key touches no task or receipt.
LEMMA LockedChanges ==
  ASSUME Shapes, NEW w \in Worker, Locked(w)
  PROVE  UNCHANGED <<tasks, reports, receipts>> /\ \E r : LockedTo(w, r)
<1>s. ShapeOK(worker[w])
  BY DEF Shapes
<1>u. UNCHANGED <<tasks, reports, receipts>>
  BY DEF Locked, TakeKey, WritePrivate, WritePublic, WriteRecord
<1>1. ASSUME NEW fresh \in Key, TakeKey(w, fresh)
      PROVE  \E r : worker' = [worker EXCEPT ![w] = r] /\ ShapeOK(r) /\ r.at = "private"
  <2> DEFINE r == [at |-> "private", req |-> worker[w],
                   mine |-> IF keys.private = None THEN fresh ELSE keys.private]
  <2>1. worker' = [worker EXCEPT ![w] = r]
    BY <1>1 DEF TakeKey
  <2>2. r.at = "private" /\ ShapeOK(r)
    BY <1>s DEF ShapeOK, InLock
  <2> HIDE DEF r
  <2>3. QED
    BY <2>1, <2>2
<1>2. ASSUME NEW to \in {"public", "record"}, worker[w].at \in InLock,
             worker' = [worker EXCEPT ![w].at = to]
      PROVE  \E r : /\ worker' = [worker EXCEPT ![w] = r] /\ ShapeOK(r) /\ r.at = to
                   /\ r.mine = worker[w].mine
  <2> DEFINE r == [worker[w] EXCEPT !.at = to]
  <2>1. worker' = [worker EXCEPT ![w] = r]
    BY <1>2
  <2>2. {"at", "req", "mine"} \subseteq DOMAIN worker[w]
    BY <1>2, <1>s DEF ShapeOK
  <2>3. DOMAIN r = DOMAIN worker[w] /\ r.at = to /\ r.mine = worker[w].mine
        /\ r.req = worker[w].req
    BY <2>2
  <2>4. ShapeOK(r)
    BY <1>2, <1>s, <2>2, <2>3 DEF ShapeOK
  <2> HIDE DEF r
  <2>5. QED
    BY <2>1, <2>3, <2>4
<1>3. CASE WriteRecord(w)
  <2> DEFINE r == [worker[w].req EXCEPT !.at = "sign"]
  <2>1. worker' = [worker EXCEPT ![w] = r]
    BY <1>3 DEF WriteRecord
  <2>2. "at" \in DOMAIN worker[w].req
    BY <1>3, <1>s DEF WriteRecord, ShapeOK, InLock
  <2>3. r.at = "sign" /\ "at" \in DOMAIN r
    BY <2>2
  <2> HIDE DEF r
  <2>4. ShapeOK(r)
    BY <2>3 DEF ShapeOK, InLock
  <2>5. QED
    BY <1>u, <2>1, <2>3, <2>4 DEF LockedTo
<1>4. CASE WritePrivate(w)
  <2>1. worker[w].at \in InLock /\ worker' = [worker EXCEPT ![w].at = "public"]
    BY <1>4 DEF WritePrivate, InLock
  <2>2. QED
    BY <1>2, <1>u, <2>1 DEF LockedTo, InLock
<1>5. CASE WritePublic(w)
  <2>1. worker[w].at \in InLock /\ worker' = [worker EXCEPT ![w].at = "record"]
    BY <1>5 DEF WritePublic, InLock
  <2>2. QED
    BY <1>2, <1>u, <2>1 DEF LockedTo, InLock
<1>7. QED
  BY <1>1, <1>3, <1>4, <1>5, <1>u DEF Locked, InLock, LockedTo

\* InsertReport leaves the worker idle or with a receipt to answer.
LEMMA InsertChanges ==
  ASSUME NEW w \in Worker, InsertReport(w)
  PROVE  \/ worker[w].task \in reports /\ worker' = [worker EXCEPT ![w] = Idle]
         \/ /\ worker[w].task \notin reports
            /\ \E r : /\ worker' = [worker EXCEPT ![w] = r] /\ r.at = "answer" /\ "at" \in DOMAIN r
                     /\ r.receipt.task = worker[w].task /\ r.receipt.key = keys.private
<1>1. CASE worker[w].task \in reports
  BY <1>1 DEF InsertReport
<1>2. CASE worker[w].task \notin reports
  <2> DEFINE q == [task |-> worker[w].task, event |-> worker[w].event, who |-> worker[w].who,
                   seen |-> worker[w].seen, key |-> Signer]
             r == [at |-> "answer", receipt |-> q]
  <2>1. worker' = [worker EXCEPT ![w] = r]
    BY <1>2 DEF InsertReport, Inserted
  <2>2. /\ r.at = "answer" /\ "at" \in DOMAIN r /\ r.receipt.task = worker[w].task
        /\ r.receipt.key = keys.private
    BY DEF Signer
  <2> HIDE DEF r
  <2>3. QED
    BY <1>2, <2>1, <2>2
<1>3. QED
  BY <1>1, <1>2

\* Assigning one worker.
LEMMA Assigned ==
  ASSUME Shapes, NEW w \in Worker, NEW r, worker' = [worker EXCEPT ![w] = r]
  PROVE  /\ worker' = [v \in Worker |-> worker'[v]]
         /\ worker'[w] = r /\ \A v \in Worker : v # w => worker'[v] = worker[v]
BY DEF Shapes

\* Every step keeps the tables lists, and the locals of a worker in shape.
LEMMA ShapesStep ==
  ASSUME Shapes, [Next]_vars
  PROVE  Shapes'
<1>0. ShapeOK(Idle)
  BY DEF ShapeOK, Idle, InLock
<1>1. ASSUME NEW w \in Worker, NEW r, worker' = [worker EXCEPT ![w] = r], ShapeOK(r),
             IsList(tasks'), IsList(receipts')
      PROVE  Shapes'
  <2>1. \A v \in Worker : ShapeOK(worker'[v])
    BY <1>1, Assigned DEF Shapes
  <2>2. worker' = [v \in Worker |-> worker'[v]]
    BY <1>1, Assigned
  <2>3. QED
    BY <1>1, <2>1, <2>2 DEF Shapes
<1>2. CASE Elsewhere \/ UNCHANGED vars
  BY <1>2, ElsewhereChanges DEF Shapes
<1>3. ASSUME NEW w \in Worker, Request(w) PROVE Shapes'
  BY <1>1, <1>3, RequestChanges DEF Shapes, ShapeOK, InLock
<1>4. ASSUME NEW w \in Worker, Locked(w) PROVE Shapes'
  <2>1. PICK r : LockedTo(w, r)
    BY <1>4, LockedChanges
  <2>2. tasks' = tasks /\ receipts' = receipts
    BY <1>4, LockedChanges
  <2>3. QED
    BY <1>1, <2>1, <2>2 DEF Shapes, LockedTo
<1>5. ASSUME NEW w \in Worker, WriteTask(w) PROVE Shapes'
  <2>1. IsList(tasks') /\ receipts' = receipts /\ worker' = [worker EXCEPT ![w] = Idle]
    BY <1>5, ListAppend DEF WriteTask, Shapes
  <2>2. QED
    BY <1>0, <1>1, <2>1 DEF Shapes
<1>6. ASSUME NEW w \in Worker, InsertReport(w) PROVE Shapes'
  <2>1. tasks' = tasks /\ receipts' = receipts
    BY <1>6 DEF InsertReport
  <2>2. QED
    BY <1>0, <1>1, <1>6, <2>1, InsertChanges DEF Shapes, ShapeOK, InLock
<1>7. ASSUME NEW w \in Worker, AnswerReport(w) PROVE Shapes'
  <2>1. IsList(receipts') /\ tasks' = tasks /\ worker' = [worker EXCEPT ![w] = Idle]
    BY <1>7, ListAppend DEF AnswerReport, Shapes
  <2>2. QED
    BY <1>0, <1>1, <2>1 DEF Shapes
<1>8. ASSUME NEW w \in Worker, Crash(w) PROVE Shapes'
  BY <1>0, <1>1, <1>8 DEF Crash, Shapes
<1>9. QED
  BY <1>2, <1>3, <1>4, <1>5, <1>6, <1>7, <1>8, Steps

-----------------------------------------------------------------------------
\* A worker that is not about to answer has no part in OnceInv.
LEMMA OnceQuiet ==
  ASSUME Shapes, OnceInv, NEW w \in Worker, NEW r, worker' = [worker EXCEPT ![w] = r],
         r.at # "answer", UNCHANGED <<reports, receipts>>
  PROVE  OnceInv'
<1>1. worker'[w] = r /\ \A v \in Worker : v # w => worker'[v] = worker[v]
  BY Assigned
<1>2. \A v \in Worker : worker'[v].at = "answer" => worker'[v] = worker[v] /\ v # w
  BY <1>1
<1>3. QED
  BY <1>2 DEF OnceInv

\* Every step keeps at most one receipt, and at most one on its way, per task.
LEMMA OnceStep ==
  ASSUME Shapes, OnceInv, [Next]_vars
  PROVE  OnceInv'
<1>0. Idle.at # "answer"
  BY DEF Idle
<1>1. CASE Elsewhere \/ UNCHANGED vars
  BY <1>1, ElsewhereChanges DEF OnceInv
<1>2. ASSUME NEW w \in Worker, Request(w) PROVE OnceInv'
  <2>1. PICK r : worker' = [worker EXCEPT ![w] = r] /\ r.at = "keys"
    BY <1>2, RequestChanges
  <2>2. UNCHANGED <<reports, receipts>>
    BY <1>2, RequestChanges
  <2>3. QED
    BY <2>1, <2>2, OnceQuiet
<1>3. ASSUME NEW w \in Worker, Locked(w) PROVE OnceInv'
  <2>1. PICK r : LockedTo(w, r)
    BY <1>3, LockedChanges
  <2>2. UNCHANGED <<reports, receipts>> /\ r.at # "answer"
    BY <1>3, <2>1, LockedChanges DEF InLock, LockedTo
  <2>3. QED
    BY <2>1, <2>2, OnceQuiet DEF LockedTo
<1>4. ASSUME NEW w \in Worker, WriteTask(w) \/ Crash(w) PROVE OnceInv'
  BY <1>0, <1>4, OnceQuiet DEF WriteTask, Crash
<1>5. ASSUME NEW w \in Worker, InsertReport(w) PROVE OnceInv'
  <2>0. receipts' = receipts /\ reports' = reports \cup {worker[w].task}
    BY <1>5 DEF InsertReport
  <2>1. CASE worker[w].task \in reports
    <3>1. worker' = [worker EXCEPT ![w] = Idle] /\ reports' = reports
      BY <1>5, <2>0, <2>1 DEF InsertReport
    <3>2. QED
      BY <1>0, <2>0, <3>1, OnceQuiet
  <2>2. CASE worker[w].task \notin reports
    <3>1. PICK r : /\ worker' = [worker EXCEPT ![w] = r] /\ r.at = "answer"
                   /\ r.receipt.task = worker[w].task
      BY <1>5, <2>2, InsertChanges
    <3>2. worker'[w] = r /\ \A v \in Worker : v # w => worker'[v] = worker[v]
      BY <3>1, Assigned
    <3>3. /\ \A i \in 1..Len(receipts) : receipts[i].task # r.receipt.task
          /\ \A v \in Worker : (v # w /\ worker[v].at = "answer")
               => worker[v].receipt.task \in reports /\ worker[v].receipt.task # r.receipt.task
      BY <2>2, <3>1 DEF OnceInv
    <3>4. ASSUME NEW v \in Worker, worker'[v].at = "answer"
          PROVE  /\ worker'[v].receipt.task \in reports'
                 /\ \A i \in 1..Len(receipts) : receipts[i].task # worker'[v].receipt.task
                 /\ \A u \in Worker :
                      (worker'[u].at = "answer" /\ worker'[u].receipt.task = worker'[v].receipt.task)
                      => u = v
      <4>1. CASE v = w
        BY <2>0, <3>1, <3>2, <3>3, <4>1
      <4>2. CASE v # w
        BY <2>0, <3>2, <3>3, <3>4, <4>2 DEF OnceInv
      <4>3. QED
        BY <4>1, <4>2
    <3>5. QED
      BY <2>0, <3>4 DEF OnceInv
  <2>3. QED
    BY <2>1, <2>2
<1>6. ASSUME NEW w \in Worker, AnswerReport(w) PROVE OnceInv'
  <2> DEFINE q == worker[w].receipt
  <2>1. /\ worker[w].at = "answer" /\ reports' = reports
        /\ receipts' = Append(receipts, q) /\ worker' = [worker EXCEPT ![w] = Idle]
    BY <1>6 DEF AnswerReport
  <2>2. worker'[w] = Idle /\ \A v \in Worker : v # w => worker'[v] = worker[v]
    BY <2>1, Assigned
  <2>3. /\ Len(receipts) \in Nat /\ Len(receipts') = Len(receipts) + 1
        /\ \A i \in 1..Len(receipts) : receipts'[i] = receipts[i]
        /\ receipts'[Len(receipts) + 1] = q
    BY <2>1, ListAppend DEF Shapes
  <2>4. q.task \in reports /\ \A i \in 1..Len(receipts) : receipts[i].task # q.task
    BY <2>1 DEF OnceInv
  <2>5. \A i \in 1..Len(receipts') : i \in 1..Len(receipts) \/ i = Len(receipts) + 1
    BY <2>3
  <2>6. \A i \in 1..Len(receipts') : receipts'[i].task \in reports'
    BY <2>1, <2>3, <2>4, <2>5 DEF OnceInv
  <2>7. \A i, j \in 1..Len(receipts') : receipts'[i].task = receipts'[j].task => i = j
    BY <2>3, <2>4, <2>5 DEF OnceInv
  <2>8. ASSUME NEW v \in Worker, worker'[v].at = "answer"
        PROVE  /\ worker'[v].receipt.task \in reports'
               /\ \A i \in 1..Len(receipts') : receipts'[i].task # worker'[v].receipt.task
               /\ \A u \in Worker :
                    (worker'[u].at = "answer" /\ worker'[u].receipt.task = worker'[v].receipt.task)
                    => u = v
    <3>1. v # w /\ worker'[v] = worker[v] /\ worker[v].at = "answer"
      BY <1>0, <2>2, <2>8
    <3>2. worker[v].receipt.task # q.task
      BY <2>1, <3>1 DEF OnceInv
    <3>3. \A i \in 1..Len(receipts') : receipts'[i].task # worker'[v].receipt.task
      BY <2>3, <2>5, <3>1, <3>2 DEF OnceInv
    <3>4. QED
      BY <1>0, <2>1, <2>2, <3>1, <3>3 DEF OnceInv
  <2>9. QED
    BY <2>6, <2>7, <2>8 DEF OnceInv
<1>7. QED
  BY <1>1, <1>2, <1>3, <1>4, <1>5, <1>6, Steps

-----------------------------------------------------------------------------
\* Steps of worker w that write no key file.
LEMMA KeyFrame ==
  ASSUME Shapes, KeyInv, NEW w \in Worker, NEW r, worker' = [worker EXCEPT ![w] = r],
         keys' = keys, \A v \in Worker : (v # w /\ lock = v) => lock' = v,
         WorkerKey(w, r)', UNCHANGED <<tasks, receipts>>
  PROVE  KeyInv'
<1>1. worker'[w] = r /\ \A v \in Worker : v # w => worker'[v] = worker[v]
  BY Assigned
<1>2. ASSUME NEW v \in Worker, v # w PROVE WorkerKey(v, worker[v])'
  <2>1. worker'[v] = worker[v] /\ WorkerKey(v, worker[v])
    BY <1>1, <1>2 DEF KeyInv
  <2>2. QED
    BY <1>2, <2>1 DEF WorkerKey, Published
<1>3. \A v \in Worker : WorkerKey(v, worker[v])'
  BY <1>1, <1>2
<1>4. QED
  BY <1>3 DEF KeyInv, Published

\* No other worker is in the key directory.
LEMMA Alone ==
  ASSUME KeyInv, NEW w \in Worker, worker[w].at \in InLock,
         NEW v \in Worker, v # w
  PROVE  worker[v].at \notin InLock
BY DEF KeyInv, WorkerKey

\* Every step keeps what a worker knows of the key in line with the files.
LEMMA KeyStep ==
  ASSUME Shapes, KeyInv, [Next]_vars
  PROVE  KeyInv'
<1>0. /\ None \notin Worker /\ None \notin Key
      /\ Idle.at = "idle"
  BY DelegationAssumption DEF Idle
<1>i. ASSUME NEW w \in Worker PROVE WorkerKey(w, Idle)'
  BY <1>0 DEF WorkerKey, InLock
<1>1. CASE Elsewhere \/ UNCHANGED vars
  BY <1>1, ElsewhereChanges DEF KeyInv, WorkerKey, Published
<1>2. ASSUME NEW w \in Worker, Request(w) PROVE KeyInv'
  <2>1. PICK r : worker' = [worker EXCEPT ![w] = r] /\ r.at = "keys"
    BY <1>2, RequestChanges
  <2>2. UNCHANGED <<keys, lock, tasks, receipts>>
    BY <1>2, RequestChanges
  <2>3. WorkerKey(w, r)'
    BY <2>1 DEF WorkerKey, InLock
  <2>4. QED
    BY <2>1, <2>2, <2>3, KeyFrame
<1>3. ASSUME NEW w \in Worker, NEW fresh \in Key, TakeKey(w, fresh) PROVE KeyInv'
  <2>0. PICK mine, r : /\ mine = IF keys.private = None THEN fresh ELSE keys.private
                       /\ r = [at |-> "private", req |-> worker[w], mine |-> mine]
    OBVIOUS
  <2>1. /\ lock = None /\ lock' = w /\ worker' = [worker EXCEPT ![w] = r]
        /\ UNCHANGED <<keys, tasks, receipts>>
    BY <1>3, <2>0 DEF TakeKey
  <2>2. mine # None /\ keys.private \in {None, mine} /\ r.at = "private" /\ r.mine = mine
    BY <1>0, <2>0
  <2>3. WorkerKey(w, r)'
    BY <2>1, <2>2 DEF WorkerKey
  <2>4. QED
    BY <1>0, <2>1, <2>3, KeyFrame
<1>4. ASSUME NEW w \in Worker, WritePrivate(w) PROVE KeyInv'
  <2> DEFINE mine == worker[w].mine
  <2>1. PICK r : LockedTo(w, r)
    BY <1>4, LockedChanges DEF Locked
  <2>2. /\ worker[w].at = "private" /\ keys' = [keys EXCEPT !.private = mine]
        /\ UNCHANGED <<lock, tasks, receipts>> /\ worker' = [worker EXCEPT ![w].at = "public"]
    BY <1>4 DEF WritePrivate
  <2>3. mine # None /\ lock = w /\ keys.private \in {None, mine}
    BY <2>2 DEF KeyInv, WorkerKey, InLock
  <2>4. worker'[w] = r /\ \A v \in Worker : v # w => worker'[v] = worker[v]
    BY <2>1, Assigned DEF LockedTo
  <2>5. worker'[w].at = "public"
    BY <2>2 DEF Shapes, ShapeOK
  <2>6. r.at = "public" /\ r.mine = mine
    BY <2>1, <2>4, <2>5 DEF LockedTo
  <2>7. /\ keys' = [private |-> mine, public |-> keys.public, record |-> keys.record]
        /\ keys'.private = mine /\ keys'.public = keys.public
    BY <2>2 DEF KeyInv
  <2>8. Published => Published' /\ keys'.public = keys.public
    BY <2>3, <2>7 DEF Published
  <2>9. ASSUME NEW v \in Worker PROVE WorkerKey(v, worker[v])'
    <3>1. CASE v = w
      BY <2>2, <2>3, <2>4, <2>6, <2>7, <3>1 DEF WorkerKey, InLock
    <3>2. CASE v # w
      <4>1. worker'[v] = worker[v] /\ worker[v].at \notin InLock /\ WorkerKey(v, worker[v])
        BY <2>2, <2>4, <3>2, Alone DEF KeyInv, InLock
      <4>2. QED
        BY <2>8, <4>1 DEF WorkerKey, InLock
    <3>3. QED
      BY <3>1, <3>2
  <2>10. QED
    BY <2>2, <2>7, <2>8, <2>9 DEF KeyInv
<1>5. ASSUME NEW w \in Worker, WritePublic(w) PROVE KeyInv'
  <2> DEFINE mine == worker[w].mine
  <2>1. PICK r : LockedTo(w, r)
    BY <1>5, LockedChanges DEF Locked
  <2>2. /\ worker[w].at = "public" /\ keys' = [keys EXCEPT !.public = mine]
        /\ UNCHANGED <<lock, tasks, receipts>> /\ worker' = [worker EXCEPT ![w].at = "record"]
    BY <1>5 DEF WritePublic
  <2>3. mine # None /\ lock = w /\ keys.private = mine
    BY <2>2 DEF KeyInv, WorkerKey, InLock
  <2>4. worker'[w] = r /\ \A v \in Worker : v # w => worker'[v] = worker[v]
    BY <2>1, Assigned DEF LockedTo
  <2>5. worker'[w].at = "record"
    BY <2>2 DEF Shapes, ShapeOK
  <2>6. r.at = "record" /\ r.mine = mine
    BY <2>1, <2>4, <2>5 DEF LockedTo
  <2>7. /\ keys' = [private |-> keys.private, public |-> mine, record |-> keys.record]
        /\ keys'.private = mine /\ keys'.public = mine
    BY <2>2, <2>3 DEF KeyInv
  <2>8. Published' /\ (Published => keys'.public = keys.public)
    BY <2>3, <2>7 DEF Published
  <2>9. ASSUME NEW v \in Worker PROVE WorkerKey(v, worker[v])'
    <3>1. CASE v = w
      BY <2>2, <2>3, <2>4, <2>6, <2>7, <2>8, <3>1 DEF WorkerKey, InLock
    <3>2. CASE v # w
      <4>1. worker'[v] = worker[v] /\ worker[v].at \notin InLock /\ WorkerKey(v, worker[v])
        BY <2>2, <2>4, <3>2, Alone DEF KeyInv, InLock
      <4>2. QED
        BY <2>8, <4>1 DEF WorkerKey, InLock
    <3>3. QED
      BY <3>1, <3>2
  <2>10. QED
    BY <2>2, <2>7, <2>8, <2>9 DEF KeyInv
<1>6. ASSUME NEW w \in Worker, WriteRecord(w) PROVE KeyInv'
  <2>1. PICK r : LockedTo(w, r)
    BY <1>6, LockedChanges DEF Locked
  <2>2. /\ worker[w].at = "record" /\ keys' = [keys EXCEPT !.record = worker[w].mine]
        /\ lock' = None /\ UNCHANGED <<tasks, receipts>>
        /\ worker' = [worker EXCEPT ![w] = [worker[w].req EXCEPT !.at = "sign"]]
    BY <1>6 DEF WriteRecord
  <2>3. lock = w /\ Published
    BY <2>2 DEF KeyInv, WorkerKey, InLock
  <2>4. worker'[w] = r /\ \A v \in Worker : v # w => worker'[v] = worker[v]
    BY <2>1, Assigned DEF LockedTo
  <2>5. r.at = "sign"
    BY <2>2, <2>4 DEF Shapes, ShapeOK, InLock
  <2>6. /\ keys' = [private |-> keys'.private, public |-> keys'.public, record |-> keys'.record]
        /\ keys'.private = keys.private /\ keys'.public = keys.public
    BY <2>2 DEF KeyInv
  <2>7. Published'
    BY <2>3, <2>6 DEF Published
  <2>8. ASSUME NEW v \in Worker PROVE WorkerKey(v, worker[v])'
    <3>1. CASE v = w
      BY <2>4, <2>5, <2>7, <3>1 DEF WorkerKey, InLock
    <3>2. CASE v # w
      <4>1. worker'[v] = worker[v] /\ worker[v].at \notin InLock /\ WorkerKey(v, worker[v])
        BY <2>2, <2>4, <3>2, Alone DEF KeyInv, InLock
      <4>2. QED
        BY <2>6, <2>7, <4>1 DEF WorkerKey, InLock
    <3>3. QED
      BY <3>1, <3>2
  <2>9. QED
    BY <2>2, <2>6, <2>7, <2>8 DEF KeyInv
<1>7. ASSUME NEW w \in Worker, WriteTask(w) PROVE KeyInv'
  <2>1. /\ worker[w].at = "sign" /\ UNCHANGED <<keys, lock, receipts>>
        /\ worker' = [worker EXCEPT ![w] = Idle]
    BY <1>7 DEF WriteTask
  <2>2. PICK q : /\ tasks' = Append(tasks, q) /\ q.receipt.key = keys.private
    <3> DEFINE q == [who |-> worker[w].who, ctx |-> worker[w].ctx,
                     receipt |-> BundleReceipt(Len(tasks) + 1, Bound(worker[w].ctx))]
    <3>1. tasks' = Append(tasks, q)
      BY <1>7 DEF WriteTask
    <3>2. q.receipt.key = keys.private
      BY DEF BundleReceipt, Signer
    <3> HIDE DEF q
    <3>3. QED
      BY <3>1, <3>2
  <2>3. Published /\ q.receipt.key = keys.public
    BY <2>1, <2>2 DEF KeyInv, WorkerKey, Published
  <2>4. /\ Len(tasks) \in Nat /\ Len(tasks') = Len(tasks) + 1
        /\ \A i \in 1..Len(tasks) : tasks'[i] = tasks[i]
        /\ tasks'[Len(tasks) + 1] = q
    BY <2>2, ListAppend DEF Shapes
  <2>5. ASSUME NEW i \in 1..Len(tasks') PROVE tasks'[i].receipt.key = keys.public
    <3>1. i \in 1..Len(tasks) \/ i = Len(tasks) + 1
      BY <2>4
    <3>2. QED
      BY <2>3, <2>4, <3>1 DEF KeyInv
  <2>6. /\ worker'[w] = Idle /\ \A v \in Worker : v # w => worker'[v] = worker[v]
    BY <2>1, Assigned
  <2>7. ASSUME NEW v \in Worker PROVE WorkerKey(v, worker[v])'
    <3>1. CASE v = w
      BY <1>0, <2>6, <3>1 DEF WorkerKey, InLock
    <3>2. CASE v # w
      BY <2>1, <2>6, <3>2 DEF KeyInv, WorkerKey, Published
    <3>3. QED
      BY <3>1, <3>2
  <2>8. Published' /\ keys' = keys
    BY <2>1, <2>3 DEF Published
  <2>9. QED
    BY <2>1, <2>5, <2>7, <2>8 DEF KeyInv
<1>8. ASSUME NEW w \in Worker, InsertReport(w) PROVE KeyInv'
  <2>1. worker[w].at = "sign" /\ UNCHANGED <<keys, lock, tasks, receipts>>
    BY <1>8 DEF InsertReport
  <2>2. Published
    BY <2>1 DEF KeyInv, WorkerKey
  <2>3. CASE worker' = [worker EXCEPT ![w] = Idle]
    BY <1>i, <1>0, <2>1, <2>3, KeyFrame DEF Idle
  <2>4. CASE \E r : /\ worker' = [worker EXCEPT ![w] = r] /\ r.at = "answer"
                   /\ r.receipt.key = keys.private
    <3>1. PICK r : /\ worker' = [worker EXCEPT ![w] = r] /\ r.at = "answer"
                   /\ r.receipt.key = keys.private
      BY <2>4
    <3>2. WorkerKey(w, r)'
      BY <2>1, <2>2, <3>1 DEF WorkerKey, InLock, Published
    <3>3. QED
      BY <2>1, <3>1, <3>2, KeyFrame
  <2>5. QED
    BY <1>8, <2>3, <2>4, InsertChanges
<1>9. ASSUME NEW w \in Worker, AnswerReport(w) PROVE KeyInv'
  <2>1. /\ worker[w].at = "answer" /\ UNCHANGED <<keys, lock, tasks>>
        /\ receipts' = Append(receipts, worker[w].receipt)
        /\ worker' = [worker EXCEPT ![w] = Idle]
    BY <1>9 DEF AnswerReport
  <2>2. Published /\ worker[w].receipt.key = keys.public
    BY <2>1 DEF KeyInv, WorkerKey
  <2>3. /\ Len(receipts) \in Nat /\ Len(receipts') = Len(receipts) + 1
        /\ \A i \in 1..Len(receipts) : receipts'[i] = receipts[i]
        /\ receipts'[Len(receipts) + 1] = worker[w].receipt
    BY <2>1, ListAppend DEF Shapes
  <2>4. ASSUME NEW i \in 1..Len(receipts') PROVE receipts'[i].key = keys.public
    <3>1. i \in 1..Len(receipts) \/ i = Len(receipts) + 1
      BY <2>3
    <3>2. QED
      BY <2>2, <2>3, <3>1 DEF KeyInv
  <2>5. /\ worker'[w] = Idle /\ \A v \in Worker : v # w => worker'[v] = worker[v]
    BY <2>1, Assigned
  <2>6. ASSUME NEW v \in Worker PROVE WorkerKey(v, worker[v])'
    <3>1. CASE v = w
      BY <1>0, <2>5, <3>1 DEF WorkerKey, InLock
    <3>2. CASE v # w
      BY <2>1, <2>5, <3>2 DEF KeyInv, WorkerKey, Published
    <3>3. QED
      BY <3>1, <3>2
  <2>7. Published' /\ keys' = keys
    BY <2>1, <2>2 DEF Published
  <2>8. QED
    BY <2>1, <2>4, <2>6, <2>7 DEF KeyInv
<1>10. ASSUME NEW w \in Worker, Crash(w) PROVE KeyInv'
  <2>1. /\ worker' = [worker EXCEPT ![w] = Idle] /\ UNCHANGED <<keys, tasks, receipts>>
        /\ \A v \in Worker : (v # w /\ lock = v) => lock' = v
    BY <1>10 DEF Crash
  <2>2. QED
    BY <1>i, <2>1, KeyFrame DEF Idle
<1>11. QED
  BY <1>1, <1>2, <1>3, <1>4, <1>5, <1>6, <1>7, <1>8, <1>9, <1>10, Steps DEF Locked

\* Nothing is delegated, reported or signed in the beginning.
LEMMA InvInit == Init => Shapes /\ OnceInv /\ KeyInv
<1> SUFFICES ASSUME Init PROVE Shapes /\ OnceInv /\ KeyInv
  OBVIOUS
<1>1. <<>> \in Seq({<<>>[i] : i \in 1..Len(<<>>)}) /\ Len(<<>>) = 0
  BY EmptySeq
<1>2. IsList(tasks) /\ IsList(receipts) /\ Len(tasks) = 0 /\ Len(receipts) = 0
  BY <1>1 DEF Init, IsList
<1>3. \A w \in Worker : worker[w] = Idle /\ worker[w].at = "idle" /\ "at" \in DOMAIN worker[w]
  BY DEF Init, Idle
<1>4. Shapes
  BY <1>2, <1>3 DEF Init, Shapes, ShapeOK, InLock
<1>5. keys = [private |-> None, public |-> None, record |-> None]
      /\ keys.private = None /\ keys.public = None /\ keys.record = None
  BY DEF Init
<1>6. KeyInv
  BY <1>2, <1>3, <1>5 DEF KeyInv, WorkerKey, InLock
<1>7. QED
  BY <1>2, <1>3, <1>4, <1>6 DEF OnceInv

\* However reports race and crash, a task has at most one receipt, for any
\* number of workers, tasks and reports.
THEOREM ReceiptOnce == Spec => []OneReceipt
<1>1. Shapes /\ OnceInv /\ [Next]_vars => Shapes' /\ OnceInv'
  BY ShapesStep, OnceStep
<1>2. Shapes /\ OnceInv => OneReceipt
  BY ListDomain DEF Shapes, OnceInv, OneReceipt
<1>3. QED
  BY <1>1, <1>2, InvInit, PTL DEF Spec

\* Whatever signs, signs with the key that is published, wherever a worker was
\* killed while the key was created, for any number of workers and keys.
THEOREM PublishedKeySigns == Spec => []SignedByPublished
<1>1. Shapes /\ KeyInv /\ [Next]_vars => Shapes' /\ KeyInv'
  BY ShapesStep, KeyStep
<1>2. Shapes /\ KeyInv => SignedByPublished
  BY ListDomain DEF Shapes, KeyInv, SignedByPublished
<1>3. QED
  BY <1>1, <1>2, InvInit, PTL DEF Spec

-----------------------------------------------------------------------------
\* Behind ReceiptRooted: what was validated at the first half of a request
\* still holds of the tasks at its second half, since tasks are only added.
TextsOf(bundle) == bundle.texts = [c \in Cap |-> bundle.texts[c]]

Rooted(ctx, who) ==
  /\ who \in Principal /\ TextsOf(ctx.root)
  /\ ctx.stage # None =>
       /\ TextsOf(ctx.stage)
       /\ ctx.upstream \in 1..Len(tasks)
       /\ tasks[ctx.upstream].who = who
       /\ tasks[ctx.upstream].ctx.root = ctx.root
       /\ tasks[ctx.upstream].receipt.bundle = ctx.root

ReportOK(q) ==
  /\ q.task \in 1..Len(tasks)
  /\ tasks[q.task].who = q.who
  /\ Bound(tasks[q.task].ctx).texts = q.seen /\ tasks[q.task].ctx.root.texts = q.seen
  /\ q.event = "workflow" => tasks[q.task].ctx.stage # None

RequestOK(r) ==
  /\ {"at", "job", "who"} \subseteq DOMAIN r
  /\ r.job = "delegate" => "ctx" \in DOMAIN r /\ Rooted(r.ctx, r.who)
  /\ r.job = "report" => {"task", "event", "seen"} \subseteq DOMAIN r /\ ReportOK(r)

WorkerRoot(r) ==
  /\ r.at \in {"keys", "sign"} => RequestOK(r)
  /\ r.at \in InLock => RequestOK(r.req)
  /\ r.at = "answer" => ReportOK(r.receipt)

TaskOK(i, q) ==
  /\ q.receipt.task = i
  /\ Rooted(q.ctx, q.who)
  /\ q.ctx.stage # None => q.ctx.upstream < i

RootInv ==
  /\ \A i \in 1..Len(tasks) : TaskOK(i, tasks[i])
  /\ \A w \in Worker : WorkerRoot(worker[w])
  /\ \A i \in 1..Len(receipts) : ReportOK(receipts[i])

\* More tasks root what fewer did.
Grown == /\ Len(tasks) \in Nat /\ Len(tasks') \in Nat /\ Len(tasks) <= Len(tasks')
         /\ \A i \in 1..Len(tasks) : tasks'[i] = tasks[i]

\* A delegation stays rooted, and a report stays of its task, when tasks are only added.
LEMMA StillRooted ==
  ASSUME Grown
  PROVE  /\ \A ctx, who : Rooted(ctx, who) => Rooted(ctx, who)'
         /\ \A q : ReportOK(q) => ReportOK(q)'
<1>1. \A i : i \in 1..Len(tasks) => i \in 1..Len(tasks') /\ tasks'[i] = tasks[i]
  BY DEF Grown
<1>2. ASSUME NEW ctx, NEW who, Rooted(ctx, who) PROVE Rooted(ctx, who)'
  BY <1>1, <1>2 DEF Rooted, TextsOf, Cap
<1>3. ASSUME NEW q, ReportOK(q) PROVE ReportOK(q)'
  BY <1>1, <1>3 DEF ReportOK, Bound
<1>4. QED
  BY <1>2, <1>3

\* So do what a worker is about to write and what a task was made from.
LEMMA StillOK ==
  ASSUME Grown
  PROVE  /\ \A r : WorkerRoot(r) => WorkerRoot(r)'
         /\ \A i, q : TaskOK(i, q) => TaskOK(i, q)'
<1>1. ASSUME NEW r, RequestOK(r) PROVE RequestOK(r)'
  BY <1>1, StillRooted DEF RequestOK
<1>2. QED
  BY <1>1, StillRooted DEF WorkerRoot, TaskOK

\* Steps of worker w that add neither a task nor a receipt.
LEMMA RootFrame ==
  ASSUME Shapes, RootInv, NEW w \in Worker, NEW r, worker' = [worker EXCEPT ![w] = r],
         WorkerRoot(r), UNCHANGED <<tasks, receipts>>
  PROVE  RootInv'
<1>1. worker'[w] = r /\ \A v \in Worker : v # w => worker'[v] = worker[v]
  BY Assigned
<1>2. Grown
  BY ListDomain DEF Shapes, Grown
<1>3. \A v \in Worker : WorkerRoot(worker'[v])
  BY <1>1 DEF RootInv
<1>4. \A v \in Worker : WorkerRoot(worker[v])'
  BY <1>2, <1>3, StillOK
<1>5. QED
  BY <1>2, <1>4, StillOK, StillRooted DEF RootInv

\* The first half of cap.delegate: the context it validated is rooted.
LEMMA DelegateRoots ==
  ASSUME Shapes, RootInv, NEW w \in Worker, NEW who \in Principal, NEW ctx \in Proposals,
         Delegate(w, who, ctx)
  PROVE  RootInv'
<1>0. DOMAIN tasks = 1..Len(tasks)
  BY ListDomain DEF Shapes
<1>1. PICK r : /\ r = [at |-> "keys", job |-> "delegate", who |-> who, ctx |-> ctx]
  OBVIOUS
<1>2. worker' = [worker EXCEPT ![w] = r] /\ UNCHANGED <<tasks, receipts>>
  BY <1>1 DEF Delegate
<1>3. TextsOf(ctx.root) /\ (ctx.stage # None => TextsOf(ctx.stage))
  <2>1. \A b \in [texts : {[c \in Cap |-> catalog[c].text]}, made : 0..clock] : TextsOf(b)
    BY DEF TextsOf
  <2>2. QED
    BY <2>1 DEF Proposals
<1>4. ASSUME ctx.stage # None
      PROVE  /\ ctx.upstream \in 1..Len(tasks) /\ tasks[ctx.upstream].who = who
             /\ tasks[ctx.upstream].ctx.root = ctx.root
             /\ tasks[ctx.upstream].receipt.bundle = ctx.root
  <2>1. /\ ctx.upstream \in DOMAIN tasks /\ tasks[ctx.upstream].who = who
        /\ tasks[ctx.upstream].ctx.root = ctx.root
        /\ ctx.receipt.task = ctx.upstream /\ ctx.receipt.bundle = ctx.root
    BY <1>4 DEF Delegate, ContextValid, ReceiptVerifies
  <2>2. PICK i \in DOMAIN tasks : ctx.receipt = tasks[i].receipt
    BY <1>4 DEF Proposals
  <2>3. tasks[i].receipt.task = i
    BY <1>0 DEF RootInv, TaskOK
  <2>4. QED
    BY <1>0, <2>1, <2>2, <2>3
<1>5. Rooted(ctx, who)
  BY <1>3, <1>4 DEF Rooted
<1>6. WorkerRoot(r)
  <2>1. /\ r.at = "keys" /\ r.job = "delegate" /\ r.who = who /\ r.ctx = ctx
        /\ DOMAIN r = {"at", "job", "who", "ctx"}
    BY <1>1
  <2>2. RequestOK(r)
    BY <1>5, <2>1 DEF RequestOK
  <2>3. QED
    BY <2>1, <2>2 DEF WorkerRoot, InLock
<1>7. QED
  BY <1>2, <1>6, RootFrame

\* The first half of cap.report: the texts it saw are those of the bundles of
\* its task.
LEMMA ReportRoots ==
  ASSUME Shapes, RootInv, NEW w \in Worker, NEW who \in Principal, NEW id \in DOMAIN tasks,
         NEW event \in {"titration", "workflow"}, Report(w, who, id, event)
  PROVE  RootInv'
<1> DEFINE ctx == tasks[id].ctx
           seen == [c \in Cap |-> catalog[c].text]
<1>0. id \in 1..Len(tasks)
  BY ListDomain DEF Shapes
<1>1. PICK r : r = [at |-> "keys", job |-> "report", who |-> who, task |-> id, event |-> event,
                    seen |-> seen]
  OBVIOUS
<1>2. worker' = [worker EXCEPT ![w] = r] /\ UNCHANGED <<tasks, receipts>>
  BY <1>1 DEF Report
<1>3. TextsOf(ctx.root) /\ (ctx.stage # None => TextsOf(ctx.stage))
  BY <1>0 DEF RootInv, TaskOK, Rooted
<1>4. /\ tasks[id].who = who /\ EventOf(ctx, event)
      /\ \A c \in Cap : catalog[c] = [text |-> ctx.root.texts[c], approved |-> TRUE]
      /\ ctx.stage # None =>
           \A c \in Cap : catalog[c] = [text |-> ctx.stage.texts[c], approved |-> TRUE]
  BY DEF Report, ContextValid, RootBundleValid, StageBundleValid
<1>5. /\ \A c \in Cap : catalog[c].text = ctx.root.texts[c]
      /\ ctx.stage # None => \A c \in Cap : catalog[c].text = ctx.stage.texts[c]
  <2>1. \A x : [text |-> x, approved |-> TRUE].text = x
    OBVIOUS
  <2> HIDE DEF ctx
  <2>2. \A c \in Cap : catalog[c].text = ctx.root.texts[c]
    BY <1>4, <2>1
  <2>3. ASSUME ctx.stage # None, NEW c \in Cap PROVE catalog[c].text = ctx.stage.texts[c]
    BY <1>4, <2>1, <2>3
  <2>4. QED
    BY <2>2, <2>3
<1>6. ctx.root.texts = seen /\ (ctx.stage # None => ctx.stage.texts = seen)
  BY <1>3, <1>5 DEF TextsOf
<1>7. Bound(ctx).texts = seen /\ (event = "workflow" => ctx.stage # None)
  <2>1. Bound(ctx).texts = seen
    BY <1>6 DEF Bound
  <2>2. event = "workflow" => ctx.stage # None
    BY <1>4 DEF EventOf
  <2>3. QED
    BY <2>1, <2>2
<1>8. WorkerRoot(r)
  <2>1. /\ r.at = "keys" /\ r.job = "report" /\ r.who = who /\ r.task = id /\ r.event = event
        /\ r.seen = seen /\ DOMAIN r = {"at", "job", "who", "task", "event", "seen"}
    BY <1>1
  <2> HIDE DEF seen
  <2>2. ReportOK(r)
    BY <1>0, <1>4, <1>6, <1>7, <2>1 DEF ReportOK
  <2>3. RequestOK(r)
    BY <2>1, <2>2 DEF RequestOK
  <2>4. QED
    BY <2>1, <2>3 DEF WorkerRoot, InLock
<1>9. QED
  BY <1>2, <1>8, RootFrame

\* In the key directory the request is carried along.
LEMMA LockedRoots ==
  ASSUME Shapes, RootInv, NEW w \in Worker, Locked(w)
  PROVE  RootInv'
<1>0. WorkerRoot(worker[w]) /\ ShapeOK(worker[w])
  BY DEF RootInv, Shapes
<1>1. UNCHANGED <<tasks, receipts>>
  BY LockedChanges
<1>2. ASSUME NEW fresh \in Key, TakeKey(w, fresh) PROVE RootInv'
  <2>1. PICK r : r = [at |-> "private", req |-> worker[w],
                      mine |-> IF keys.private = None THEN fresh ELSE keys.private]
    OBVIOUS
  <2>2. worker' = [worker EXCEPT ![w] = r] /\ worker[w].at = "keys"
    BY <1>2, <2>1 DEF TakeKey
  <2>3. r.at = "private" /\ r.req = worker[w]
    BY <2>1
  <2>4. WorkerRoot(r)
    BY <1>0, <2>2, <2>3 DEF WorkerRoot, InLock
  <2>5. QED
    BY <1>1, <2>2, <2>4, RootFrame
<1>3. ASSUME NEW to \in {"public", "record"}, worker[w].at \in InLock,
             worker' = [worker EXCEPT ![w].at = to]
      PROVE  RootInv'
  <2>1. PICK r : r = [worker[w] EXCEPT !.at = to]
    OBVIOUS
  <2>2. worker' = [worker EXCEPT ![w] = r]
    BY <1>3, <2>1
  <2>3. {"at", "req"} \subseteq DOMAIN worker[w]
    BY <1>0, <1>3 DEF ShapeOK
  <2>4. r.at = to /\ r.req = worker[w].req
    BY <2>1, <2>3
  <2>5. WorkerRoot(r)
    BY <1>0, <1>3, <2>4 DEF WorkerRoot, InLock
  <2>6. QED
    BY <1>1, <2>2, <2>5, RootFrame
<1>4. CASE WriteRecord(w)
  <2> DEFINE q == worker[w].req
  <2>1. PICK r : r = [q EXCEPT !.at = "sign"]
    OBVIOUS
  <2>2. worker' = [worker EXCEPT ![w] = r] /\ worker[w].at \in InLock
    BY <1>4, <2>1 DEF WriteRecord, InLock
  <2>3. RequestOK(q)
    BY <1>0, <2>2 DEF WorkerRoot
  <2> HIDE DEF q
  <2>4. /\ DOMAIN r = DOMAIN q /\ {"at", "job", "who"} \subseteq DOMAIN q
        /\ r.at = "sign" /\ r.job = q.job /\ r.who = q.who
    BY <2>1, <2>3 DEF RequestOK
  <2>5. q.job = "delegate" => r.ctx = q.ctx
    BY <2>1, <2>3 DEF RequestOK
  <2>6. q.job = "report" => r.task = q.task /\ r.event = q.event /\ r.seen = q.seen
    BY <2>1, <2>3 DEF RequestOK
  <2>7. RequestOK(r)
    BY <2>3, <2>4, <2>5, <2>6 DEF RequestOK, ReportOK
  <2>8. WorkerRoot(r)
    BY <2>4, <2>7 DEF WorkerRoot, InLock
  <2>9. QED
    BY <1>1, <2>2, <2>8, RootFrame
<1>5. CASE WritePrivate(w) \/ WritePublic(w)
  BY <1>3, <1>5 DEF WritePrivate, WritePublic, InLock
<1>6. QED
  BY <1>2, <1>4, <1>5 DEF Locked

\* Every step keeps delegations and receipts rooted.
LEMMA RootStep ==
  ASSUME Shapes, RootInv, [Next]_vars
  PROVE  RootInv'
<1>0. WorkerRoot(Idle)
  BY DEF WorkerRoot, Idle, InLock
<1>1. CASE Elsewhere \/ UNCHANGED vars
  <2>1. UNCHANGED <<tasks, receipts, worker>> /\ Grown
    BY <1>1, ElsewhereChanges, ListDomain DEF Shapes, Grown
  <2>2. QED
    BY <2>1, StillOK, StillRooted DEF RootInv
<1>2. ASSUME NEW w \in Worker, WriteTask(w) PROVE RootInv'
  <2> DEFINE req == worker[w]  id == Len(tasks) + 1
  <2>1. PICK q : q = [who |-> req.who, ctx |-> req.ctx,
                      receipt |-> BundleReceipt(id, Bound(req.ctx))]
    OBVIOUS
  <2>2. /\ req.at = "sign" /\ req.job = "delegate" /\ receipts' = receipts
        /\ tasks' = Append(tasks, q) /\ worker' = [worker EXCEPT ![w] = Idle]
    BY <1>2, <2>1 DEF WriteTask
  <2>3. Rooted(req.ctx, req.who)
    BY <2>2 DEF RootInv, WorkerRoot, RequestOK
  <2>4. q.who = req.who /\ q.ctx = req.ctx /\ q.receipt.task = id
    BY <2>1 DEF BundleReceipt
  <2>5. /\ Len(tasks) \in Nat /\ Len(tasks') = Len(tasks) + 1
        /\ \A i \in 1..Len(tasks) : tasks'[i] = tasks[i]
        /\ tasks'[Len(tasks) + 1] = q
    BY <2>2, ListAppend DEF Shapes
  <2>6. Grown
    BY <2>5 DEF Grown
  <2>7. TaskOK(id, q)
    BY SMTT(30), <2>3, <2>4, <2>5 DEF TaskOK, Rooted
  <2>8. ASSUME NEW i \in 1..Len(tasks') PROVE TaskOK(i, tasks[i])'
    <3>1. TaskOK(i, tasks'[i])
      <4>1. i \in 1..Len(tasks) \/ i = Len(tasks) + 1
        BY <2>5
      <4>2. QED
        BY <2>5, <2>7, <4>1 DEF RootInv
    <3>2. QED
      BY <2>6, <3>1, StillOK
  <2>9. worker'[w] = Idle /\ \A v \in Worker : v # w => worker'[v] = worker[v]
    BY <2>2, Assigned
  <2>10. \A v \in Worker : WorkerRoot(worker'[v])
    BY <1>0, <2>9 DEF RootInv
  <2>11. QED
    BY <2>2, <2>6, <2>8, <2>10, StillOK, StillRooted DEF RootInv
<1>3. ASSUME NEW w \in Worker, InsertReport(w) PROVE RootInv'
  <2>1. /\ worker[w].at = "sign" /\ worker[w].job = "report" /\ UNCHANGED <<tasks, receipts>>
    BY <1>3 DEF InsertReport
  <2>2. ReportOK(worker[w])
    BY <2>1 DEF RootInv, WorkerRoot, RequestOK
  <2>3. PICK q, r : /\ q = [task |-> worker[w].task, event |-> worker[w].event,
                            who |-> worker[w].who, seen |-> worker[w].seen, key |-> Signer]
                    /\ r = [at |-> "answer", receipt |-> q]
    OBVIOUS
  <2>4. worker' = [worker EXCEPT ![w] = Idle] \/ worker' = [worker EXCEPT ![w] = r]
    BY <1>3, <2>3 DEF InsertReport, Inserted
  <2>5. /\ q.task = worker[w].task /\ q.event = worker[w].event /\ q.who = worker[w].who
        /\ q.seen = worker[w].seen /\ r.at = "answer" /\ r.receipt = q
    BY <2>3
  <2>6. WorkerRoot(r)
    BY <2>2, <2>5 DEF WorkerRoot, ReportOK, InLock
  <2>7. QED
    BY <1>0, <2>1, <2>4, <2>6, RootFrame
<1>4. ASSUME NEW w \in Worker, AnswerReport(w) PROVE RootInv'
  <2>1. /\ worker[w].at = "answer" /\ tasks' = tasks
        /\ receipts' = Append(receipts, worker[w].receipt)
        /\ worker' = [worker EXCEPT ![w] = Idle]
    BY <1>4 DEF AnswerReport
  <2>2. ReportOK(worker[w].receipt)
    BY <2>1 DEF RootInv, WorkerRoot
  <2>3. /\ Len(receipts) \in Nat /\ Len(receipts') = Len(receipts) + 1
        /\ \A i \in 1..Len(receipts) : receipts'[i] = receipts[i]
        /\ receipts'[Len(receipts) + 1] = worker[w].receipt
    BY <2>1, ListAppend DEF Shapes
  <2>4. Grown
    BY <2>1, ListDomain DEF Shapes, Grown
  <2>5. ASSUME NEW i \in 1..Len(receipts') PROVE ReportOK(receipts[i])'
    <3>1. ReportOK(receipts'[i])
      <4>1. i \in 1..Len(receipts) \/ i = Len(receipts) + 1
        BY <2>3
      <4>2. QED
        BY <2>2, <2>3, <4>1 DEF RootInv
    <3>2. QED
      BY <2>4, <3>1, StillRooted
  <2>6. worker'[w] = Idle /\ \A v \in Worker : v # w => worker'[v] = worker[v]
    BY <2>1, Assigned
  <2>7. \A v \in Worker : WorkerRoot(worker'[v])
    BY <1>0, <2>6 DEF RootInv
  <2>8. QED
    BY <2>1, <2>4, <2>5, <2>7, StillOK DEF RootInv
<1>5. ASSUME NEW w \in Worker, Crash(w) PROVE RootInv'
  BY <1>0, <1>5, RootFrame DEF Crash
<1>6. ASSUME NEW w \in Worker, Request(w) PROVE RootInv'
  BY <1>6, DelegateRoots, ReportRoots DEF Request
<1>7. QED
  BY <1>1, <1>2, <1>3, <1>4, <1>5, <1>6, LockedRoots, Steps

\* A receipt is for the principal and the texts of its task, and a workflow's
\* hangs on a task of the same principal and the same root bundle, for any
\* number of workers, tasks and changes to the catalog, files and grants.
THEOREM ReceiptsAreRooted == Spec => []ReceiptRooted
<1>1. Init => Shapes /\ RootInv
  <2> SUFFICES ASSUME Init PROVE RootInv
    BY InvInit
  <2>1. Len(tasks) = 0 /\ Len(receipts) = 0
    BY EmptySeq DEF Init
  <2>2. \A w \in Worker : worker[w].at = "idle"
    BY DEF Init, Idle
  <2>3. QED
    BY <2>1, <2>2 DEF RootInv, WorkerRoot, InLock
<1>2. Shapes /\ RootInv /\ [Next]_vars => Shapes' /\ RootInv'
  BY ShapesStep, RootStep
<1>3. Shapes /\ RootInv => ReceiptRooted
  <2> SUFFICES ASSUME Shapes, RootInv PROVE ReceiptRooted
    OBVIOUS
  <2>1. DOMAIN receipts = 1..Len(receipts)
    BY ListDomain DEF Shapes
  <2>2. ASSUME NEW i \in 1..Len(receipts)
        PROVE  ReportOK(receipts[i]) /\ TaskOK(receipts[i].task, tasks[receipts[i].task])
    BY DEF RootInv, ReportOK
  <2>3. QED
    BY <2>1, <2>2 DEF ReceiptRooted, ReportOK, TaskOK, Rooted
<1>4. QED
  BY <1>1, <1>2, <1>3, PTL DEF Spec


-----------------------------------------------------------------------------
\* One element more at the end is an Append.
LEMMA AppendIs ==
  ASSUME NEW s, NEW x, NEW t, IsList(s), t = [i \in 1..(Len(s) + 1) |-> t[i]],
         \A i \in 1..Len(s) : t[i] = s[i], t[Len(s) + 1] = x
  PROVE  t = Append(s, x)
<1>1. PICK a : a = Append(s, x)
  OBVIOUS
<1>2. /\ IsList(a) /\ Len(a) = Len(s) + 1 /\ Len(s) \in Nat
      /\ \A i \in 1..Len(s) : a[i] = s[i]
      /\ a[Len(s) + 1] = x
  BY <1>1, ListAppend
<1>3. DOMAIN a = 1..(Len(s) + 1) /\ a = [i \in DOMAIN a |-> a[i]]
  BY <1>2, LenProperties DEF IsList
<1>4. \A i \in 1..(Len(s) + 1) : i \in 1..Len(s) \/ i = Len(s) + 1
  BY <1>2
<1>5. \A i \in 1..(Len(s) + 1) : t[i] = a[i]
  BY <1>2, <1>4
<1>6. QED
  BY <1>1, <1>3, <1>5

\* A function over the positions of a list is a list of the same length.
LEMMA MappedList ==
  ASSUME NEW s, NEW f, IsList(s), f = [i \in DOMAIN s |-> f[i]]
  PROVE  IsList(f) /\ Len(f) = Len(s) /\ DOMAIN f = 1..Len(s)
<1>1. DOMAIN s = 1..Len(s) /\ Len(s) \in Nat
  BY ListDomain
<1>2. DOMAIN f = 1..Len(s)
  BY <1>1
<1>3. f \in [1..Len(s) -> {f[i] : i \in 1..Len(s)}]
  BY <1>1, <1>2
<1>4. f \in Seq({f[i] : i \in 1..Len(s)})
  BY <1>1, <1>3, SeqDef
<1>5. Len(f) = Len(s)
  BY <1>1, <1>2, <1>4, LenProperties
<1>6. QED
  BY <1>2, <1>4, <1>5 DEF IsList

\* WriteTask is a delegation of the authority: the key it signs with is the
\* published one.
LEMMA TaskAttests ==
  ASSUME Shapes, KeyInv, RootInv, NEW w \in Worker, WriteTask(w)
  PROVE  \E who \in Principal : Promise!Attest(who)
<1>1. /\ worker[w].at = "sign" /\ worker[w].job = "delegate"
      /\ UNCHANGED <<keys, receipts>>
  BY DEF WriteTask
<1>2. PICK task : /\ task = [who |-> worker[w].who, ctx |-> worker[w].ctx,
                             receipt |-> BundleReceipt(Len(tasks) + 1, Bound(worker[w].ctx))]
                  /\ tasks' = Append(tasks, task)
  BY DEF WriteTask
<1>3. task.who = worker[w].who /\ task.receipt.key = keys.private
  BY <1>2 DEF BundleReceipt, Signer
<1>4. task.who \in Principal
  BY <1>1, <1>3 DEF RootInv, WorkerRoot, RequestOK, Rooted
<1>5. keys.public # None /\ keys.private = keys.public
  BY <1>1 DEF KeyInv, WorkerKey, Published
<1>6. /\ IsList(tasks') /\ Len(tasks') = Len(tasks) + 1 /\ Len(tasks) \in Nat
      /\ \A i \in 1..Len(tasks) : tasks'[i] = tasks[i]
      /\ tasks'[Len(tasks) + 1] = task
  BY <1>2, ListAppend DEF Shapes
<1>7. DOMAIN tasks = 1..Len(tasks) /\ DOMAIN tasks' = 1..(Len(tasks) + 1)
  BY <1>6, ListDomain DEF Shapes
<1>8. /\ Given' = [i \in 1..(Len(tasks) + 1) |-> Given'[i]]
      /\ \A i \in 1..Len(tasks) : Given'[i] = Given[i]
      /\ Given'[Len(tasks) + 1] = [who |-> task.who, key |-> keys.public]
  <2>1. \A i \in 1..(Len(tasks) + 1) :
          Given'[i] = [who |-> tasks'[i].who, key |-> tasks'[i].receipt.key]
    BY <1>7 DEF Given
  <2>2. \A i \in 1..Len(tasks) : Given[i] = [who |-> tasks[i].who, key |-> tasks[i].receipt.key]
    BY <1>7 DEF Given
  <2>3. Given' = [i \in 1..(Len(tasks) + 1) |-> Given'[i]]
    BY <1>7 DEF Given
  <2>4. \A i \in 1..Len(tasks) : i \in 1..(Len(tasks) + 1)
    BY <1>6
  <2>5. \A i \in 1..Len(tasks) : Given'[i] = Given[i]
    BY <1>6, <2>1, <2>2, <2>4
  <2>6. Len(tasks) + 1 \in 1..(Len(tasks) + 1)
    BY <1>6
  <2>7. QED
    BY <1>3, <1>5, <1>6, <2>1, <2>3, <2>5, <2>6
<1>9. IsList(Given) /\ Len(Given) = Len(tasks)
  <2>1. Given = [i \in DOMAIN tasks |-> Given[i]]
    BY DEF Given
  <2>2. QED
    BY <2>1, MappedList DEF Shapes
<1>10. Given' = Append(Given, [who |-> task.who, key |-> keys.public])
  BY <1>8, <1>9, AppendIs
<1>11. Answers' = Answers /\ keys'.public = keys.public
  BY <1>1 DEF Answers
<1>12. Promise!Attest(task.who)
  BY <1>5, <1>10, <1>11 DEF Promise!Attest
<1>13. QED
  BY <1>4, <1>12

\* AnswerReport is an answer of the authority: to the principal of a task that
\* was delegated and that no answer names.
LEMMA ReportAnswers ==
  ASSUME Shapes, OnceInv, KeyInv, RootInv, NEW w \in Worker, AnswerReport(w)
  PROVE  \E t \in 1..Len(Given) : Promise!Answer(t)
<1>1. /\ worker[w].at = "answer" /\ UNCHANGED <<keys, tasks>>
      /\ receipts' = Append(receipts, worker[w].receipt)
  BY DEF AnswerReport
<1>2. PICK q : q = worker[w].receipt
  OBVIOUS
<1>3. q.task \in 1..Len(tasks) /\ tasks[q.task].who = q.who /\ q.key = keys.public
  BY <1>1, <1>2 DEF RootInv, WorkerRoot, ReportOK, KeyInv, WorkerKey
<1>4. \A i \in 1..Len(receipts) : receipts[i].task # q.task
  BY <1>1, <1>2 DEF OnceInv
<1>5. /\ IsList(receipts') /\ Len(receipts') = Len(receipts) + 1 /\ Len(receipts) \in Nat
      /\ \A i \in 1..Len(receipts) : receipts'[i] = receipts[i]
      /\ receipts'[Len(receipts) + 1] = q
  BY <1>1, <1>2, ListAppend DEF Shapes
<1>6. /\ DOMAIN receipts = 1..Len(receipts) /\ DOMAIN receipts' = 1..(Len(receipts) + 1)
      /\ DOMAIN tasks = 1..Len(tasks)
  BY <1>5, ListDomain DEF Shapes
<1>7. IsList(Given) /\ Len(Given) = Len(tasks) /\ Given' = Given /\ keys'.public = keys.public
  <2>1. Given = [i \in DOMAIN tasks |-> Given[i]]
    BY DEF Given
  <2>2. tasks' = tasks /\ keys' = keys
    BY <1>1
  <2>3. Given' = Given
    BY <2>2 DEF Given
  <2>4. QED
    BY <2>1, <2>2, <2>3, MappedList DEF Shapes
<1>8. Given[q.task].who = q.who
  BY <1>3, <1>6 DEF Given
<1>9. IsList(Answers) /\ Len(Answers) = Len(receipts)
  <2>1. Answers = [i \in DOMAIN receipts |-> Answers[i]]
    BY DEF Answers
  <2>2. QED
    BY <2>1, MappedList DEF Shapes
<1>10. \A i \in 1..Len(receipts) :
         Answers[i] = [task |-> receipts[i].task, who |-> receipts[i].who, key |-> receipts[i].key]
  BY <1>6 DEF Answers
<1>11. \A i \in 1..Len(Answers) : Answers[i].task # q.task
  <2>1. ASSUME NEW i \in 1..Len(receipts) PROVE Answers[i].task = receipts[i].task
    <3>1. PICK r : r = receipts[i]
      OBVIOUS
    <3>2. Answers[i] = [task |-> r.task, who |-> r.who, key |-> r.key]
      BY <1>10, <3>1
    <3>3. Answers[i].task = r.task
      BY ONLY <3>2
    <3>4. QED
      BY ONLY <3>1, <3>3
  <2>2. QED
    BY Zenon, <1>4, <1>9, <2>1
<1>12. /\ Answers' = [i \in 1..(Len(receipts) + 1) |-> Answers'[i]]
       /\ \A i \in 1..Len(receipts) : Answers'[i] = Answers[i]
       /\ Answers'[Len(receipts) + 1] = [task |-> q.task, who |-> q.who, key |-> q.key]
  <2>1. \A i \in 1..(Len(receipts) + 1) :
          Answers'[i] = [task |-> receipts'[i].task, who |-> receipts'[i].who,
                         key |-> receipts'[i].key]
    BY <1>6 DEF Answers
  <2>2. Answers' = [i \in 1..(Len(receipts) + 1) |-> Answers'[i]]
    BY <1>6 DEF Answers
  <2>3. \A i \in 1..Len(receipts) : i \in 1..(Len(receipts) + 1)
    BY <1>5
  <2>4. \A i \in 1..Len(receipts) : Answers'[i] = Answers[i]
    BY <1>5, <1>10, <2>1, <2>3
  <2>5. Len(receipts) + 1 \in 1..(Len(receipts) + 1)
    BY <1>5
  <2>6. QED
    BY <1>5, <2>1, <2>2, <2>4, <2>5
<1>13. Answers' = Append(Answers, [task |-> q.task, who |-> q.who, key |-> q.key])
  BY <1>9, <1>12, AppendIs
<1>14. Promise!Answer(q.task)
  BY <1>3, <1>7, <1>8, <1>11, <1>13 DEF Promise!Answer
<1>15. QED
  BY <1>3, <1>7, <1>14

\* Every step is one of the authority's or leaves its book alone.
LEMMA PromiseStep ==
  ASSUME Shapes, OnceInv, KeyInv, RootInv, [Next]_vars
  PROVE  Promise!AuthorityNext \/ UNCHANGED <<keys.public, Given, Answers>>
<1> DEFINE Goal == Promise!AuthorityNext \/ UNCHANGED <<keys.public, Given, Answers>>
<1>0. ASSUME tasks' = tasks, receipts' = receipts, keys'.public = keys.public PROVE Goal
  BY <1>0 DEF Given, Answers
<1>k. keys = [private |-> keys.private, public |-> keys.public, record |-> keys.record]
  BY DEF KeyInv
<1>1. CASE Elsewhere \/ UNCHANGED vars
  <2>1. tasks' = tasks /\ receipts' = receipts /\ keys' = keys
    BY <1>1, ElsewhereChanges
  <2>2. QED
    BY <1>0, <2>1
<1>2. ASSUME NEW w \in Worker, Request(w) PROVE Goal
  <2>1. tasks' = tasks /\ receipts' = receipts /\ keys' = keys
    BY <1>2, RequestChanges
  <2>2. QED
    BY <1>0, <2>1
<1>3. ASSUME NEW w \in Worker, (\E fresh \in Key : TakeKey(w, fresh)) \/ InsertReport(w) \/ Crash(w)
      PROVE  Goal
  <2>1. tasks' = tasks /\ receipts' = receipts /\ keys' = keys
    BY <1>3 DEF TakeKey, InsertReport, Crash
  <2>2. QED
    BY <1>0, <2>1
<1>4. ASSUME NEW w \in Worker, WritePrivate(w) \/ WriteRecord(w) PROVE Goal
  <2>1. tasks' = tasks /\ receipts' = receipts
    BY <1>4 DEF WritePrivate, WriteRecord
  <2>2. \/ keys' = [keys EXCEPT !.private = worker[w].mine]
        \/ keys' = [keys EXCEPT !.record = worker[w].mine]
    BY <1>4 DEF WritePrivate, WriteRecord
  <2>3. keys'.public = keys.public
    BY <1>k, <2>2
  <2>4. QED
    BY <1>0, <2>1, <2>3
<1>5. ASSUME NEW w \in Worker, WritePublic(w) PROVE Goal
  <2>1. /\ tasks' = tasks /\ receipts' = receipts /\ worker[w].at = "public"
        /\ keys.public \in {None, worker[w].mine}
        /\ keys' = [keys EXCEPT !.public = worker[w].mine]
    BY <1>5 DEF WritePublic
  <2>2. keys'.public = worker[w].mine
    BY <1>k, <2>1
  <2>3. worker[w].mine # None
    BY <2>1 DEF KeyInv, WorkerKey, InLock
  <2>4. CASE keys.public = None
    <3>1. Given' = Given /\ Answers' = Answers
      BY <2>1 DEF Given, Answers
    <3>2. Promise!Publish
      BY <2>2, <2>3, <2>4, <3>1 DEF Promise!Publish
    <3>3. QED
      BY <3>2 DEF Promise!AuthorityNext
  <2>5. CASE keys.public = worker[w].mine
    BY <1>0, <2>1, <2>2, <2>5
  <2>6. QED
    BY <2>1, <2>4, <2>5
<1>6. ASSUME NEW w \in Worker, WriteTask(w) PROVE Goal
  BY <1>6, TaskAttests DEF Promise!AuthorityNext
<1>7. ASSUME NEW w \in Worker, AnswerReport(w) PROVE Goal
  BY <1>7, ReportAnswers DEF Promise!AuthorityNext
<1>8. QED
  BY <1>1, <1>2, <1>3, <1>4, <1>5, <1>6, <1>7, Steps DEF Locked

\* For any number of workers, tasks, reports and keys, and wherever workers
\* are killed, the delegation protocol implements the abstract authority: one
\* published key, every delegation signed with it, one answer per delegated
\* task, to its own principal.
THEOREM DelegationImplementsAuthority == Spec => AuthorityKeepsPromise
<1> DEFINE I == Shapes /\ OnceInv /\ KeyInv /\ RootInv
<1>1. Init => I /\ Promise!AuthorityInit
  <2> SUFFICES ASSUME Init PROVE RootInv /\ Promise!AuthorityInit
    BY InvInit
  <2>1. tasks = << >> /\ receipts = << >> /\ Len(tasks) = 0 /\ Len(receipts) = 0
    BY EmptySeq DEF Init
  <2>2. \A w \in Worker : worker[w].at = "idle"
    BY DEF Init, Idle
  <2>3. RootInv
    BY <2>1, <2>2 DEF RootInv, WorkerRoot, InLock
  <2>4. Given = << >> /\ Answers = << >>
    BY <2>1 DEF Given, Answers
  <2>5. keys.public = None
    BY DEF Init
  <2>6. QED
    BY <2>3, <2>4, <2>5 DEF Promise!AuthorityInit
<1>2. I /\ [Next]_vars => I'
  BY ShapesStep, OnceStep, KeyStep, RootStep
<1>3. I /\ [Next]_vars => [Promise!AuthorityNext]_(Promise!book)
  <2> SUFFICES ASSUME I, [Next]_vars
               PROVE  Promise!AuthorityNext \/ (Promise!book)' = Promise!book
    OBVIOUS
  <2>1. QED
    BY PromiseStep DEF Promise!book
<1>4. QED
  BY <1>1, <1>2, <1>3, PTL DEF Spec, AuthorityKeepsPromise, Promise!AuthoritySpec

=============================================================================
