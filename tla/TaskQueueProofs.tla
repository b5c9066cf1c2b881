--------------------------- MODULE TaskQueueProofs ---------------------------
(* Theorems about TaskQueue, for any number of tasks and calls.  The       *)
(* properties fail to be inductive for the same reason: a call writes a     *)
(* status and a result by the id it read earlier, so what it read then has  *)
(* to be remembered.                                                        *)
EXTENDS TaskQueue, TLAPS

\* Where a call has the outcome of its dispatch in hand.
HasOutcome(w) ==
  \/ pc[w] \in {"dispatched", "finishing"}
  \/ pc[w] = "claiming" /\ w \in Server

\* A call in flight, and a cancel in flight, is about a row that exists.
CallsHaveRows ==
  /\ \A w \in Caller : pc[w] # "idle" => status[job[w]] # "absent"
  /\ cancel # None => status[cancel] # "absent"

\* The outcome in hand was reported for the task of the call.
InHand == \A w \in Caller : HasOutcome(w) => got[w] \in outcomes[job[w]]

\* A row that is not committed yet is in nobody's table.
OpenIsAbsent == \A t \in open : status[t] = "absent"

TaskInv == TypeOK /\ RowsHaveFiles /\ CallsHaveRows /\ InHand /\ ResultWasReported

\* Calls of one kind are not of the other.
LEMMA Kinds == \A w \in Caller : w \in Cli <=> w \notin Server
BY TaskAssumption DEF Caller

\* The inductive invariant holds initially.
LEMMA TaskInit ==
  ASSUME Init
  PROVE  TaskInv
BY TaskAssumption DEF Init, TaskInv, TypeOK, Status, RowsHaveFiles, CallsHaveRows, InHand,
   HasOutcome, ResultWasReported

\* Every variable keeps its type, and a call in flight its task.
LEMMA TypeStep ==
  ASSUME TypeOK, [Next]_vars
  PROVE  TypeOK'
<1> USE TaskAssumption DEF TypeOK, Status, Outcome, table, bounds, callers
<1>1. ASSUME NEW t \in Task, DelegateStdio(t) \/ DelegateHttp(t) \/ CancelRead(t) PROVE TypeOK'
  BY <1>1 DEF DelegateStdio, DelegateHttp, CancelRead
<1>2. ASSUME NEW w \in Caller, NEW t \in Task, CheckStatus(w, t) \/ ReadTask(w, t) PROVE TypeOK'
  BY <1>2 DEF CheckStatus, ReadTask, At
<1>3. ASSUME NEW w \in Caller, ReadAgain(w) PROVE TypeOK'
  BY <1>3 DEF ReadAgain, At
<1>4. ASSUME NEW w \in Caller, Claim(w) PROVE TypeOK'
  BY <1>4 DEF Claim, At
<1>5. ASSUME NEW w \in Caller, Dispatch(w) PROVE TypeOK'
  BY <1>5 DEF Dispatch, At
<1>6. ASSUME NEW w \in Caller, Finish(w) \/ FinishRaises(w) PROVE TypeOK'
  BY <1>6 DEF Finish, FinishRaises, At
<1>7. ASSUME NEW w \in Caller, Crash(w) PROVE TypeOK'
  BY <1>7 DEF Crash
<1>8. ASSUME StdioCommit \/ StdioExit \/ CancelWrite PROVE TypeOK'
  BY <1>8 DEF StdioCommit, StdioExit, CancelWrite
<1>9. ASSUME UNCHANGED vars PROVE TypeOK'
  BY <1>9 DEF vars
<1>10. QED
  BY <1>1, <1>2, <1>3, <1>4, <1>5, <1>6, <1>7, <1>8, <1>9 DEF Next, CallStep

\* Rows, files and outcomes: one step per group of actions.
LEMMA TaskStep ==
  ASSUME TaskInv, [Next]_vars
  PROVE  RowsHaveFiles' /\ CallsHaveRows' /\ InHand' /\ ResultWasReported'
<1> DEFINE Goal == RowsHaveFiles' /\ CallsHaveRows' /\ InHand' /\ ResultWasReported'
<1>i. TypeOK /\ RowsHaveFiles /\ CallsHaveRows /\ InHand /\ ResultWasReported
  BY DEF TaskInv
<1>t. TypeOK'
  BY <1>i, TypeStep
<1> USE TaskAssumption, Kinds, <1>i, <1>t
    DEF TypeOK, Status, Outcome, RowsHaveFiles, CallsHaveRows, InHand, HasOutcome,
        ResultWasReported, table, bounds, callers
<1>1. ASSUME NEW t \in Task, DelegateStdio(t) \/ DelegateHttp(t) \/ CancelRead(t) PROVE Goal
  BY <1>1 DEF DelegateStdio, DelegateHttp, CancelRead
<1>2. ASSUME NEW w \in Caller, NEW t \in Task, CheckStatus(w, t) \/ ReadTask(w, t) PROVE Goal
  BY <1>2 DEF CheckStatus, ReadTask, At, Processable
<1>3. ASSUME NEW w \in Caller, ReadAgain(w) PROVE Goal
  BY <1>3 DEF ReadAgain, At, Processable
<1>4. ASSUME NEW w \in Caller, Claim(w) PROVE Goal
  BY <1>4 DEF Claim, At
<1>5. ASSUME NEW w \in Caller, Dispatch(w) PROVE Goal
  BY <1>5 DEF Dispatch, At
<1>6. ASSUME NEW w \in Caller, Finish(w) \/ FinishRaises(w) PROVE Goal
  BY <1>6 DEF Finish, FinishRaises, At
<1>7. ASSUME NEW w \in Caller, Crash(w) PROVE Goal
  BY <1>7 DEF Crash
<1>8. ASSUME StdioCommit \/ StdioExit \/ CancelWrite PROVE Goal
  BY <1>8 DEF StdioCommit, StdioExit, CancelWrite
<1>9. ASSUME UNCHANGED vars PROVE Goal
  BY <1>9 DEF vars
<1>10. QED
  BY <1>1, <1>2, <1>3, <1>4, <1>5, <1>6, <1>7, <1>8, <1>9 DEF Next, CallStep

\* However calls overlap, die and are retried, a row of task_envelopes, and
\* one not committed yet, has its JSON file.
THEOREM RowsAlwaysHaveFiles == Spec => []RowsHaveFiles
<1>1. TaskInv /\ [Next]_vars => TaskInv'
  BY TypeStep, TaskStep DEF TaskInv
<1>2. TaskInv => RowsHaveFiles
  BY DEF TaskInv
<1>3. QED
  BY TaskInit, <1>1, <1>2, PTL DEF Spec

\* However many calls process a task at once, the result of a completed row
\* is an outcome the gateway reported for that task.
THEOREM ResultsWereReported == Spec => []ResultWasReported
<1>1. TaskInv /\ [Next]_vars => TaskInv'
  BY TypeStep, TaskStep DEF TaskInv
<1>2. TaskInv => ResultWasReported
  BY DEF TaskInv
<1>3. QED
  BY TaskInit, <1>1, <1>2, PTL DEF Spec

\* What the stdio connection commits late is a row nobody has seen before.
LEMMA OpenStep ==
  ASSUME TypeOK, RowsHaveFiles, CallsHaveRows, OpenIsAbsent, [Next]_vars
  PROVE  OpenIsAbsent'
<1> USE TaskAssumption DEF TypeOK, RowsHaveFiles, CallsHaveRows, OpenIsAbsent, table, bounds, callers
<1>1. ASSUME NEW t \in Task, DelegateStdio(t) \/ DelegateHttp(t) \/ CancelRead(t) PROVE OpenIsAbsent'
  BY <1>1 DEF DelegateStdio, DelegateHttp, CancelRead
<1>2. ASSUME NEW w \in Caller, NEW t \in Task, CheckStatus(w, t) \/ ReadTask(w, t) PROVE OpenIsAbsent'
  BY <1>2 DEF CheckStatus, ReadTask
<1>3. ASSUME NEW w \in Caller, ReadAgain(w) \/ Dispatch(w) \/ Crash(w) PROVE OpenIsAbsent'
  BY <1>3 DEF ReadAgain, Dispatch, Crash
<1>4. ASSUME NEW w \in Caller, Claim(w) \/ Finish(w) \/ FinishRaises(w) PROVE OpenIsAbsent'
  <2>1. pc[w] # "idle" /\ open' = open /\ \A t \in Task : t # job[w] => status'[t] = status[t]
    BY <1>4 DEF Claim, Finish, FinishRaises, At
  <2>2. QED
    BY <2>1
<1>5. ASSUME StdioCommit \/ StdioExit \/ CancelWrite PROVE OpenIsAbsent'
  BY <1>5 DEF StdioCommit, StdioExit, CancelWrite
<1>6. ASSUME UNCHANGED vars PROVE OpenIsAbsent'
  BY <1>6 DEF vars
<1>7. QED
  BY <1>1, <1>2, <1>3, <1>4, <1>5, <1>6 DEF Next, CallStep

\* One step leaves a settled task as it is: only who holds a task writes it,
\* and a settled task is not processable, not cancellable and not open.
LEMMA SettledStep ==
  ASSUME TypeOK, OpenIsAbsent, [Next]_vars, NEW t \in Task, Settled(t)
  PROVE  status'[t] = status[t] /\ result'[t] = result[t] /\ Settled(t)'
<1> DEFINE Goal == status'[t] = status[t] /\ result'[t] = result[t] /\ Settled(t)'
<1>o. t \notin open
  BY DEF OpenIsAbsent, Settled
<1> USE TaskAssumption, <1>o DEF TypeOK, Settled, AtRest, table, bounds, callers
<1>1. ASSUME NEW u \in Task, DelegateStdio(u) \/ DelegateHttp(u) \/ CancelRead(u) PROVE Goal
  BY <1>1 DEF DelegateStdio, DelegateHttp, CancelRead
<1>2. ASSUME NEW w \in Caller, NEW u \in Task, CheckStatus(w, u) \/ ReadTask(w, u) PROVE Goal
  BY <1>2 DEF CheckStatus, ReadTask, At, Processable
<1>3. ASSUME NEW w \in Caller, ReadAgain(w) \/ Dispatch(w) \/ Crash(w) PROVE Goal
  BY <1>3 DEF ReadAgain, Dispatch, Crash, At
<1>4. ASSUME NEW w \in Caller, Claim(w) \/ Finish(w) \/ FinishRaises(w) PROVE Goal
  <2>1. job[w] # t /\ pc[w] # "idle"
    BY <1>4 DEF Claim, Finish, FinishRaises, At
  <2>2. status'[t] = status[t] /\ result'[t] = result[t]
    BY <1>4, <2>1 DEF Claim, Finish, FinishRaises
  <2>3. cancel' = cancel /\ job' = job /\ \A v \in Caller : v # w => pc'[v] = pc[v]
    BY <1>4 DEF Claim, Finish, FinishRaises, At
  <2>4. QED
    BY <2>1, <2>2, <2>3
<1>5. ASSUME StdioCommit \/ StdioExit \/ CancelWrite PROVE Goal
  BY <1>5 DEF StdioCommit, StdioExit, CancelWrite
<1>6. ASSUME UNCHANGED vars PROVE Goal
  BY <1>6 DEF vars
<1>7. QED
  BY <1>1, <1>2, <1>3, <1>4, <1>5, <1>6 DEF Next, CallStep

\* For any number of tasks and overlapping calls: a cancelled or completed
\* task that nobody holds any more is never taken up and never changes.
THEOREM SettledTasksStand == Spec => SettledStands
<1> DEFINE I == TaskInv /\ OpenIsAbsent
<1>1. Init => I
  BY TaskInit DEF Init, OpenIsAbsent
<1>2. I /\ [Next]_vars => I'
  BY TypeStep, TaskStep, OpenStep DEF TaskInv
<1>3. I /\ [Next]_vars =>
        [\A t \in Task : Settled(t) =>
           status'[t] = status[t] /\ result'[t] = result[t] /\ Settled(t)']_vars
  BY SettledStep DEF TaskInv
<1>4. QED
  BY <1>1, <1>2, <1>3, PTL DEF Spec, SettledStands

\* Task rows, calls and their bounds stay well formed, whatever calls overlap,
\* die or are retried.
THEOREM TaskQueueType == Spec => []TypeOK
<1>1. TypeOK /\ [Next]_vars => TypeOK'
  BY TypeStep
<1>2. Init => TypeOK
  BY TaskInit DEF TaskInv
<1>3. QED
  BY <1>1, <1>2, PTL DEF Spec

=============================================================================
