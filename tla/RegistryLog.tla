---------------------------- MODULE RegistryLog -----------------------------
(***************************************************************************)
(* The hash-chained registry log (registry_log.py) and the audit table     *)
(* (audit_event of governance.py), written by several SQLite connections.  *)
(* A connection takes the database's one write lock with its first write   *)
(* and keeps it until it commits, rolls back or is closed; until then its  *)
(* rows are visible to itself alone.  audit_event reads the head of the    *)
(* chain after its first write, append_log_entry before it.                *)
(***************************************************************************)
EXTENDS Naturals, Sequences

CONSTANTS
  Conn,          \* SQLite connections
  Event,         \* kinds of audit event
  Mirrored,      \* the capability.* mutations, mirrored into the log
  Direct,        \* events appended to the log directly
  Hash(_, _, _), \* SHA-256 over sequence, event and previous hash
  MaxRows,       \* bound on the rows written
  None

ASSUME LogAssumption ==
  /\ Mirrored \subseteq Event /\ Direct \subseteq Event /\ Mirrored \cap Direct = {}
  /\ None \notin Conn
  /\ MaxRows \in Nat

VARIABLES
  log,     \* committed rows of registry_log
  audit,   \* committed rows of audit_events
  pend,    \* rows each connection wrote and has not committed
  writer,  \* who holds the write lock
  read     \* the head append_log_entry read and has not used yet

logVars == <<log, audit, pend, writer, read>>

NoRows == [log |-> <<>>, audit |-> <<>>]

LogInit ==
  /\ log = <<>> /\ audit = <<>>
  /\ pend = [c \in Conn |-> NoRows]
  /\ writer = None
  /\ read = [c \in Conn |-> None]

\* The registry_log table as connection c sees it.
View(c) == log \o pend[c].log

\* _compute_entry_hash.
EntryHash(seq, event, prev) == Hash(seq, event, prev)

\* ORDER BY sequence DESC LIMIT 1, and the row that follows it.
LastHash(rows) == IF rows = <<>> THEN None ELSE rows[Len(rows)].hash
EntryFor(rows, event) ==
  LET seq == IF rows = <<>> THEN 1 ELSE rows[Len(rows)].seq + 1
      prev == LastHash(rows)
  IN  [seq |-> seq, event |-> event, prev |-> prev, hash |-> EntryHash(seq, event, prev)]

Room == Len(audit) + Len(log) < MaxRows

\* The first write of a transaction takes the lock; a holder keeps it.  A
\* connection inside append_log_entry writes nothing else.
TakeWriteLock(c) == read[c] = None /\ writer \in {None, c} /\ writer' = c

\* Any other INSERT, UPDATE or DELETE.
Write(c) == TakeWriteLock(c) /\ UNCHANGED <<log, audit, pend, read>>

\* Mutant: the head is the last committed row, whatever this transaction
\* wrote already.
AuditEventStale(c, event) ==
  /\ Room /\ Len(pend[c].audit) < 2
  /\ TakeWriteLock(c)
  /\ pend' = [pend EXCEPT ![c] =
       [audit |-> Append(@.audit, event),
        log |-> IF event \in Mirrored THEN Append(@.log, EntryFor(log, event)) ELSE @.log]]
  /\ UNCHANGED <<log, audit, read>>

\* audit_event: the audit row and, for a capability mutation, the row chained
\* to the head this connection sees.
AuditEvent(c, event) ==
  /\ Room /\ Len(pend[c].audit) < 2
  /\ TakeWriteLock(c)
  /\ pend' = [pend EXCEPT ![c] =
       [audit |-> Append(@.audit, event),
        log |-> IF event \in Mirrored THEN Append(@.log, EntryFor(View(c), event)) ELSE @.log]]
  /\ UNCHANGED <<log, audit, read>>

\* Mutant: the mirrored rows are written by a transaction of their own.
CommitAudit(c) ==
  /\ audit' = audit \o pend[c].audit
  /\ pend' = [pend EXCEPT ![c].audit = <<>>]
  /\ writer' = IF writer = c THEN None ELSE writer
  /\ UNCHANGED <<log, read>>

Commit(c) ==
  /\ log' = log \o pend[c].log
  /\ audit' = audit \o pend[c].audit
  /\ pend' = [pend EXCEPT ![c] = NoRows]
  /\ writer' = IF writer = c THEN None ELSE writer
  /\ UNCHANGED read

\* Mutant: what was written since the process started is undone, as restoring
\* a copy of the file would.
RollbackAll(c) ==
  /\ pend' = [pend EXCEPT ![c] = NoRows]
  /\ writer' = IF writer = c THEN None ELSE writer
  /\ read' = [read EXCEPT ![c] = None]
  /\ log' = <<>> /\ audit' = <<>>

\* ROLLBACK, or the connection is closed, or its process dies.
Rollback(c) ==
  /\ pend' = [pend EXCEPT ![c] = NoRows]
  /\ writer' = IF writer = c THEN None ELSE writer
  /\ read' = [read EXCEPT ![c] = None]
  /\ UNCHANGED <<log, audit>>

\* append_log_entry.  Creating the table if it is missing runs a script,
\* which commits what was open; then the head is read, outside a transaction.
AppendRead(c, event) ==
  /\ read[c] = None
  /\ log' = log \o pend[c].log
  /\ audit' = audit \o pend[c].audit
  /\ pend' = [pend EXCEPT ![c] = NoRows]
  /\ writer' = IF writer = c THEN None ELSE writer
  /\ read' = [read EXCEPT ![c] = EntryFor(log', event)]

\* The INSERT takes the lock.  The sequence number may be taken by then: the
\* UNIQUE constraint refuses the row and the transaction stays open.
AppendInsert(c) ==
  /\ read[c] # None /\ Len(log) < MaxRows
  /\ writer = None
  /\ read' = [read EXCEPT ![c] = None]
  /\ UNCHANGED <<audit, pend>>
  /\ IF \E i \in 1..Len(log) : log[i].seq = read[c].seq
     THEN writer' = c /\ UNCHANGED log
     ELSE log' = Append(log, read[c]) /\ UNCHANGED writer

LogNext ==
  \E c \in Conn :
    \/ Write(c) \/ Commit(c) \/ Rollback(c) \/ AppendInsert(c)
    \/ \E e \in Event : AuditEvent(c, e)
    \/ \E e \in Direct : AppendRead(c, e)

LogSpec == LogInit /\ [][LogNext]_logVars

-----------------------------------------------------------------------------
\* verify_log_chain: the hashes of the rows, in the order of their sequence
\* numbers, chain from the first to the last.
VerifyLogChain(rows) ==
  \A i \in 1..Len(rows) :
    /\ rows[i].prev = IF i = 1 THEN None ELSE rows[i - 1].hash
    /\ rows[i].hash = EntryHash(rows[i].seq, rows[i].event, rows[i].prev)

\* The committed chain verifies, and so does what each connection sees of it,
\* with gapless sequence numbers: no two connections ever extend the same
\* head, although append_log_entry reads it without the lock.
ChainValid ==
  /\ VerifyLogChain(log)
  /\ \A i \in 1..Len(log) : log[i].seq = i
  /\ \A c \in Conn : VerifyLogChain(View(c))

EventsOf(rows) == [i \in 1..Len(rows) |-> rows[i].event]
Events == EventsOf(log)

\* The mirrored events of s are those of t, in the same order.
Mirror(s) == {i \in 1..Len(s) : s[i] \in Mirrored}
SameMirrored(s, t) ==
  \E f \in [Mirror(s) -> Mirror(t)] :
    /\ \A j \in Mirror(t) : \E i \in Mirror(s) : f[i] = j
    /\ \A i \in Mirror(s) : t[f[i]] = s[i]
    /\ \A i, k \in Mirror(s) : i < k => f[i] < f[k]

\* Every committed capability mutation has its row in the log, in the same
\* order, although audit_event swallows what goes wrong with the mirror.
AuditMirrored == SameMirrored(audit, Events)

\* The log as its readers see it implements the abstract one: a commit only
\* extends it.
Abstract == INSTANCE AppendOnlyLog WITH entries <- Events
LogIsAppendOnly == Abstract!AppendSpec
=============================================================================
