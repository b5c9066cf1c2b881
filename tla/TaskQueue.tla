----------------------------- MODULE TaskQueue -----------------------------
(***************************************************************************)
(* Delegated tasks: cap.delegate writes a JSON file and a task_envelopes   *)
(* row (router.py), cap.process, the REST API and `capmesh task process`   *)
(* dispatch the row to the model gateway and record the outcome            *)
(* (task_dispatcher.py, task_runner.py), and cancel_task cancels it.       *)
(* Every call runs on a connection of its own; a status is read in one     *)
(* transaction and written in a later one.                                 *)
(***************************************************************************)
EXTENDS Naturals, FiniteSets

CONSTANTS
  Task,         \* task envelopes
  Server,       \* calls of dispatch_queued_task: dispatch, then process_task
  Cli,          \* calls of process_task whose handler dispatches
  MaxCalls,     \* bound on processing calls
  MaxCrashes,   \* bound on calls that die
  None

Caller == Server \cup Cli

ASSUME TaskAssumption ==
  /\ Server \cap Cli = {} /\ None \notin Task
  /\ MaxCalls \in Nat /\ MaxCrashes \in Nat

VARIABLES
  file,     \* tasks whose JSON file is on disk
  open,     \* rows inserted on the stdio connection and not committed
  status,   \* task_envelopes.status, "absent" without a row
  result,   \* outcome inside result_json
  outcomes, \* outcomes dispatch_task returned for the task, over all calls
  pc,       \* position of each call
  job,      \* its task
  got,      \* the outcome its dispatch returned
  cancel,   \* task of the cancel_task call in flight
  calls, crashes

vars == <<file, open, status, result, outcomes, pc, job, got, cancel, calls, crashes>>

Status == {"absent", "queued", "running", "completed", "failed", "cancelled"}
Outcome == {"completed", "failed"}

table == <<file, open, status, result>>
bounds == <<calls, crashes>>
callers == <<pc, job, got>>

Init ==
  /\ file = {} /\ open = {}
  /\ status = [t \in Task |-> "absent"]
  /\ result = [t \in Task |-> None]
  /\ outcomes = [t \in Task |-> {}]
  /\ pc = [w \in Caller |-> "idle"]
  /\ job = [w \in Caller |-> None]
  /\ got = [w \in Caller |-> None]
  /\ cancel = None
  /\ calls = 0 /\ crashes = 0

-----------------------------------------------------------------------------
(* cap.delegate leaves its INSERT uncommitted. *)

\* Mutant: the row is queued before the file is written.
DelegateStdioRowFirst(t) ==
  /\ t \notin file /\ status[t] = "absent" /\ t \notin open
  /\ open' = open \cup {t}
  /\ UNCHANGED <<file, status, result, outcomes, callers, cancel, bounds>>

\* Over stdio the transaction stays open on the connection of the process.
\* create_task_envelope commits what an earlier request left open.
DelegateStdio(t) ==
  /\ t \notin file
  /\ file' = file \cup {t}
  /\ status' = [u \in Task |-> IF u \in open THEN "queued" ELSE status[u]]
  /\ open' = {t}
  /\ UNCHANGED <<result, outcomes, callers, cancel, bounds>>

\* Over HTTP the server rolls the connection back when the request ends.
DelegateHttp(t) ==
  /\ t \notin file
  /\ file' = file \cup {t}
  /\ UNCHANGED <<open, status, result, outcomes, callers, cancel, bounds>>

\* The next request on the stdio connection commits (_commit_policy_audit).
StdioCommit ==
  /\ open # {}
  /\ status' = [t \in Task |-> IF t \in open THEN "queued" ELSE status[t]]
  /\ open' = {}
  /\ UNCHANGED <<file, result, outcomes, callers, cancel, bounds>>

\* The stdio client disconnects.
StdioExit ==
  /\ open # {}
  /\ open' = {}
  /\ UNCHANGED <<file, status, result, outcomes, callers, cancel, bounds>>

-----------------------------------------------------------------------------
(* Processing. *)

\* Mutant: only a running task is refused.
ProcessableUnlessRunning(t) == status[t] \notin {"absent", "running"}

Processable(t) == status[t] \in {"queued", "failed"}

At(w, from, to) == pc[w] = from /\ pc' = [pc EXCEPT ![w] = to]

\* dispatch_queued_task reads the status before it dispatches.
CheckStatus(w, t) ==
  /\ w \in Server /\ At(w, "idle", "dispatching")
  /\ Processable(t)
  /\ job' = [job EXCEPT ![w] = t]
  /\ calls < MaxCalls /\ calls' = calls + 1
  /\ UNCHANGED <<table, outcomes, got, cancel, crashes>>

\* process_task called by the CLI reads the row.
ReadTask(w, t) ==
  /\ w \in Cli /\ At(w, "idle", "claiming")
  /\ Processable(t)
  /\ job' = [job EXCEPT ![w] = t]
  /\ calls < MaxCalls /\ calls' = calls + 1
  /\ UNCHANGED <<table, outcomes, got, cancel, crashes>>

\* process_task called with the outcome in hand; it raises when the task is
\* no longer processable.
ReadAgain(w) ==
  /\ At(w, "dispatched", IF Processable(job[w]) THEN "claiming" ELSE "idle")
  /\ UNCHANGED <<table, outcomes, job, got, cancel, bounds>>

\* UPDATE ... SET status = 'running' WHERE id, committed.
Claim(w) ==
  /\ At(w, "claiming", IF w \in Server THEN "finishing" ELSE "dispatching")
  /\ status' = [status EXCEPT ![job[w]] = "running"]
  /\ UNCHANGED <<file, open, result, outcomes, job, got, cancel, bounds>>

\* dispatch_task returns an outcome and never raises; an answer that does not
\* arrive in time is a failure to it, whatever the gateway did.
Dispatch(w) ==
  /\ At(w, "dispatching", IF w \in Server THEN "dispatched" ELSE "finishing")
  /\ \E o \in Outcome :
       /\ got' = [got EXCEPT ![w] = o]
       /\ outcomes' = [outcomes EXCEPT ![job[w]] = @ \cup {o}]
  /\ UNCHANGED <<table, job, cancel, bounds>>

\* Mutant: the row's result does not come from the call that completes it.
FinishAssumesSuccess(w) ==
  /\ At(w, "finishing", "idle")
  /\ status' = [status EXCEPT ![job[w]] = "completed"]
  /\ result' = [result EXCEPT ![job[w]] = "completed"]
  /\ UNCHANGED <<file, open, outcomes, job, got, cancel, bounds>>

\* The handler returned: the row is completed with whatever it returned.
Finish(w) ==
  /\ At(w, "finishing", "idle")
  /\ status' = [status EXCEPT ![job[w]] = "completed"]
  /\ result' = [result EXCEPT ![job[w]] = got[w]]
  /\ UNCHANGED <<file, open, outcomes, job, got, cancel, bounds>>

\* Mutant: an error while the row is completed is only logged.
FinishLogsError(w) ==
  /\ At(w, "finishing", "idle")
  /\ UNCHANGED <<table, outcomes, job, got, cancel, bounds>>

\* The statement that completes the row raises (database locked).
FinishRaises(w) ==
  /\ At(w, "finishing", "idle")
  /\ status' = [status EXCEPT ![job[w]] = "failed"]
  /\ UNCHANGED <<file, open, result, outcomes, job, got, cancel, bounds>>

\* The process of a call dies; what it committed stays.
Crash(w) ==
  /\ pc[w] # "idle" /\ crashes < MaxCrashes
  /\ pc' = [pc EXCEPT ![w] = "idle"]
  /\ crashes' = crashes + 1
  /\ UNCHANGED <<table, outcomes, job, got, cancel, calls>>

-----------------------------------------------------------------------------
(* cancel_task. *)

CancelRead(t) ==
  /\ cancel = None
  /\ status[t] \in {"queued", "running"}
  /\ cancel' = t
  /\ UNCHANGED <<table, outcomes, callers, bounds>>

CancelWrite ==
  /\ cancel # None
  /\ status' = [status EXCEPT ![cancel] = "cancelled"]
  /\ cancel' = None
  /\ UNCHANGED <<file, open, result, outcomes, callers, bounds>>

-----------------------------------------------------------------------------
CallStep(w) == ReadAgain(w) \/ Claim(w) \/ Dispatch(w) \/ Finish(w) \/ FinishRaises(w)

Next ==
  \/ \E t \in Task : DelegateStdio(t) \/ DelegateHttp(t) \/ CancelRead(t)
  \/ \E w \in Caller, t \in Task : CheckStatus(w, t) \/ ReadTask(w, t)
  \/ \E w \in Caller : CallStep(w) \/ Crash(w)
  \/ StdioCommit
  \/ StdioExit
  \/ CancelWrite

Spec == Init /\ [][Next]_vars

\* A call that has begun goes on.
FairSpec == Spec /\ \A w \in Caller : WF_vars(CallStep(w))

-----------------------------------------------------------------------------
(* Properties. *)

\* Statuses, results and positions have their types, and a call that has begun
\* has its task.
TypeOK ==
  /\ file \subseteq Task /\ open \subseteq Task
  /\ status \in [Task -> Status]
  /\ result \in [Task -> Outcome \cup {None}]
  /\ outcomes \in [Task -> SUBSET Outcome]
  /\ pc \in [Caller -> {"idle", "dispatching", "dispatched", "claiming", "finishing"}]
  /\ job \in [Caller -> Task \cup {None}]
  /\ got \in [Caller -> Outcome \cup {None}]
  /\ \A w \in Caller : pc[w] # "idle" => job[w] \in Task
  /\ cancel \in Task \cup {None}
  /\ calls \in 0..MaxCalls /\ crashes \in 0..MaxCrashes

\* A row is an index of a JSON file that is already on disk, also when its
\* INSERT is committed by a later request, so no task is processed whose
\* authoritative copy could still be missing.
RowsHaveFiles == \A t \in Task : status[t] # "absent" \/ t \in open => t \in file

\* The result of a completed task is one the gateway reported for that task,
\* whichever of several calls that processed it at the same time wrote it.
ResultWasReported ==
  \A t \in Task : status[t] = "completed" => result[t] \in outcomes[t]

\* Nobody holds the task: no call has read it and not yet returned, no
\* cancel_task has read it and not yet written.
AtRest(t) == cancel # t /\ \A w \in Caller : pc[w] # "idle" => job[w] # t
Settled(t) == status[t] \in {"completed", "cancelled"} /\ AtRest(t)

\* The writes go by id and not by status, so a call that read a task before
\* its cancellation may still run and complete it.  But once nobody holds a
\* cancelled or completed task that is the end: it is never taken up, and
\* neither its status nor its result changes again, however many calls,
\* retries, cancellations and late commits of the stdio connection follow.
SettledStands ==
  [][\A t \in Task : Settled(t) =>
       status'[t] = status[t] /\ result'[t] = result[t] /\ Settled(t)']_vars

\* A task that is marked running does not stay so, unless a call that
\* processes tasks dies.
RunningEnds ==
  \A t \in Task : status[t] = "running" ~> status[t] # "running" \/ crashes > 0

\* task_runner.py 90: on failure the task is marked failed.
FailureIsMarked == \A t \in Task : status[t] = "completed" => result[t] = "completed"

====
