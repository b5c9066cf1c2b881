---------------------------- MODULE ServerProofs ----------------------------
(* Theorems about the registry log under the HTTP worker, for any number of *)
(* connections, threads, events and requests, and for any hash.             *)
EXTENDS Server, SequenceTheorems, TLAPS

\* Rows of a table: a sequence of whatever it holds, since a hash may be any
\* value.
Rows(s) == s \in Seq({s[i] : i \in 1..Len(s)})

\* Row i of a chain: its number, its event and its two hashes.
RowChained(s, i) ==
  /\ s[i].seq = i /\ s[i].event \in Event
  /\ s[i].prev = IF i = 1 THEN None ELSE s[i - 1].hash
  /\ s[i].hash = EntryHash(s[i].seq, s[i].event, s[i].prev)

Chained(s) == Rows(s) /\ \A i \in 1..Len(s) : RowChained(s, i)

\* What append_log_entry read extends some prefix of the committed log.
Extends(row, s) ==
  /\ row.seq \in 1..(Len(s) + 1) /\ row.event \in Event
  /\ row.prev = IF row.seq = 1 THEN None ELSE s[row.seq - 1].hash
  /\ row.hash = EntryHash(row.seq, row.event, row.prev)

\* The inductive invariant: only the holder of the write lock has rows that
\* are not committed, and a connection that has read the head has none.
LogInv ==
  /\ writer \in Conn \cup {None}
  /\ pend = [c \in Conn |-> [log |-> pend[c].log, audit |-> pend[c].audit]]
  /\ read = [c \in Conn |-> read[c]]
  /\ Chained(log)
  /\ \A c \in Conn :
       /\ Rows(pend[c].log) /\ Chained(View(c))
       /\ writer # c => pend[c] = NoRows
       /\ read[c] # None => writer # c /\ Extends(read[c], log)

-----------------------------------------------------------------------------
\* A sequence over any set is a sequence of its elements.
LEMMA RowsOf ==
  ASSUME NEW S, NEW s \in Seq(S)
  PROVE  Rows(s)
<1>1. Len(s) \in Nat /\ s \in [1..Len(s) -> {s[i] : i \in 1..Len(s)}]
  BY LenProperties
<1>2. QED
  BY <1>1, SeqDef DEF Rows

\* Concatenating tables, element by element.
LEMMA RowsConcat ==
  ASSUME NEW s, NEW t, Rows(s), Rows(t)
  PROVE  /\ Rows(s \o t) /\ Len(s \o t) = Len(s) + Len(t)
         /\ Len(s) \in Nat /\ Len(t) \in Nat
         /\ \A i \in 1..Len(s) : (s \o t)[i] = s[i]
         /\ \A i \in 1..Len(t) : (s \o t)[Len(s) + i] = t[i]
<1> DEFINE S == {s[i] : i \in 1..Len(s)} \cup {t[i] : i \in 1..Len(t)}
<1>1. s \in Seq(S) /\ t \in Seq(S)
  BY SeqMonotonic DEF Rows
<1> HIDE DEF S
<1>2. s \o t \in Seq(S) /\ Len(s) \in Nat /\ Len(t) \in Nat
  BY <1>1, LenProperties, ConcatProperties
<1>3. Rows(s \o t)
  BY <1>2, RowsOf
<1>4. /\ Len(s \o t) = Len(s) + Len(t)
      /\ \A i \in 1..Len(s) + Len(t) :
           (s \o t)[i] = IF i <= Len(s) THEN s[i] ELSE t[i - Len(s)]
  BY <1>1, ConcatProperties
<1>5. QED
  BY <1>2, <1>3, <1>4

\* Appending a row to a table.
LEMMA RowsAppend ==
  ASSUME NEW s, NEW row, Rows(s)
  PROVE  /\ Rows(Append(s, row)) /\ Len(Append(s, row)) = Len(s) + 1
         /\ Len(s) \in Nat
         /\ \A i \in 1..Len(s) : Append(s, row)[i] = s[i]
         /\ Append(s, row)[Len(s) + 1] = row
<1> DEFINE S == {s[i] : i \in 1..Len(s)} \cup {row}
<1>1. s \in Seq(S) /\ row \in S
  BY SeqMonotonic DEF Rows
<1> HIDE DEF S
<1>2. /\ Append(s, row) \in Seq(S) /\ Len(Append(s, row)) = Len(s) + 1
      /\ \A i \in 1..Len(s) : Append(s, row)[i] = s[i]
      /\ Append(s, row)[Len(s) + 1] = row
  BY <1>1, AppendProperties
<1>3. Rows(Append(s, row)) /\ Len(s) \in Nat
  BY <1>1, <1>2, RowsOf, LenProperties
<1>4. QED
  BY <1>2, <1>3

\* Concatenating nothing.
LEMMA NoRowsConcat ==
  ASSUME NEW s, Rows(s)
  PROVE  s \o <<>> = s /\ Rows(<<>>)
<1>1. <<>> \in Seq({})
  OBVIOUS
<1>2. QED
  BY <1>1, RowsOf, ConcatEmptySeq DEF Rows

\* A row appended to what is pending is appended to what is seen.
LEMMA AppendConcat ==
  ASSUME NEW s, NEW t, NEW row, Rows(s), Rows(t)
  PROVE  s \o Append(t, row) = Append(s \o t, row)
<1> DEFINE S == {s[i] : i \in 1..Len(s)} \cup {t[i] : i \in 1..Len(t)} \cup {row}
<1>1. s \in Seq(S) /\ t \in Seq(S) /\ row \in S
  BY SeqMonotonic DEF Rows
<1> HIDE DEF S
<1>2. <<row>> \in Seq(S) /\ s \o t \in Seq(S)
  BY <1>1, ConcatProperties
<1>3. \A u \in Seq(S) : Append(u, row) = u \o <<row>>
  BY <1>1, AppendIsConcat
<1>4. QED
  BY <1>1, <1>2, <1>3, ConcatAssociative

\* A row appended to the chain whose head it was computed from keeps it a
\* chain.
LEMMA ChainExtend ==
  ASSUME NEW s, NEW row, Chained(s), Extends(row, s), row.seq = Len(s) + 1
  PROVE  Chained(Append(s, row))
<1> DEFINE a == Append(s, row)
<1>1. /\ Rows(a) /\ Len(a) = Len(s) + 1 /\ Len(s) \in Nat
      /\ \A i \in 1..Len(s) : a[i] = s[i]
      /\ a[Len(s) + 1] = row
  BY RowsAppend DEF Chained
<1> HIDE DEF a
<1>2. ASSUME NEW i \in 1..Len(a) PROVE RowChained(a, i)
  <2>1. CASE i \in 1..Len(s)
    <3>1. a[i] = s[i] /\ (i # 1 => a[i - 1] = s[i - 1])
      BY <1>1, <2>1
    <3>2. QED
      BY <2>1, <3>1 DEF Chained, RowChained
  <2>2. CASE i = Len(s) + 1
    <3>1. a[i] = row /\ (i # 1 => a[i - 1] = s[i - 1])
      BY <1>1, <2>2
    <3>2. QED
      BY <2>2, <3>1 DEF Extends, RowChained
  <2>3. QED
    BY <1>1, <2>1, <2>2
<1>3. QED
  BY <1>1, <1>2 DEF a, Chained

\* The row EntryFor computes from a chain follows its last row.
LEMMA EntryFollows ==
  ASSUME NEW s, NEW e \in Event, Chained(s)
  PROVE  Extends(EntryFor(s, e), s) /\ EntryFor(s, e).seq = Len(s) + 1
<1> DEFINE S == {s[i] : i \in 1..Len(s)}
<1>0. s \in Seq(S)
  BY DEF Chained, Rows
<1> HIDE DEF S
<1>1. Len(s) \in Nat /\ (s = <<>> <=> Len(s) = 0)
  BY <1>0, LenProperties, EmptySeq
<1>2. s # <<>> => s[Len(s)].seq = Len(s)
  BY <1>1 DEF Chained, RowChained
<1>3. CASE s = <<>>
  <2>1. EntryFor(s, e) = [seq |-> 1, event |-> e, prev |-> None, hash |-> EntryHash(1, e, None)]
    BY <1>3 DEF EntryFor, LastHash
  <2>2. QED
    BY <1>1, <1>3, <2>1 DEF Extends
<1>4. CASE s # <<>>
  <2> DEFINE p == s[Len(s)].hash
  <2>1. EntryFor(s, e) = [seq |-> Len(s) + 1, event |-> e, prev |-> p,
                          hash |-> EntryHash(Len(s) + 1, e, p)]
    BY <1>2, <1>4 DEF EntryFor, LastHash
  <2>2. Len(s) + 1 # 1 /\ s[Len(s) + 1 - 1].hash = p
    BY <1>1, <1>4
  <2> HIDE DEF p
  <2>3. QED
    BY <1>1, <2>1, <2>2 DEF Extends
<1>5. QED
  BY <1>3, <1>4

\* A longer log still has the prefix a reader saw.
LEMMA ExtendsLonger ==
  ASSUME NEW s, NEW t, NEW row, Extends(row, s), Len(s) \in Nat, Len(t) \in Nat,
         Len(s) <= Len(t), \A i \in 1..Len(s) : t[i] = s[i]
  PROVE  Extends(row, t)
BY DEF Extends

-----------------------------------------------------------------------------
\* The committed log is only extended.
Longer == Len(log) <= Len(log') /\ \A i \in 1..Len(log) : log'[i] = log[i]

\* An empty log is a chain.
LEMMA LogInvInit == LogInit => LogInv
<1> SUFFICES ASSUME LogInit PROVE LogInv
  OBVIOUS
<1>1. <<>> \in Seq({}) /\ Len(<<>>) = 0
  BY EmptySeq
<1>2. Chained(<<>>) /\ Rows(<<>>) /\ <<>> \o <<>> = <<>>
  <2>1. Rows(<<>>)
    BY <1>1, RowsOf
  <2>2. Chained(<<>>)
    BY <1>1, <2>1 DEF Chained
  <2>3. <<>> \o <<>> = <<>>
    BY <1>1, ConcatEmptySeq
  <2>4. QED
    BY <2>1, <2>2, <2>3
<1>3. \A c \in Conn : pend[c] = NoRows /\ pend[c].log = <<>> /\ pend[c].audit = <<>>
                      /\ read[c] = None /\ View(c) = <<>>
  BY <1>2 DEF LogInit, NoRows, View
<1>4. pend = [c \in Conn |-> [log |-> pend[c].log, audit |-> pend[c].audit]]
  BY <1>3 DEF LogInit, NoRows
<1>5. read = [c \in Conn |-> read[c]]
  BY DEF LogInit
<1>6. QED
  BY <1>2, <1>3, <1>4, <1>5 DEF LogInv, LogInit

\* An empty sequence of rows pends nothing.
LEMMA ViewOfNone ==
  ASSUME LogInv, NEW c \in Conn, pend[c] = NoRows
  PROVE  View(c) = log
<1>1. Rows(log) /\ pend[c].log = <<>>
  BY DEF LogInv, Chained, NoRows
<1>2. log \o <<>> = log
  BY <1>1, NoRowsConcat
<1>3. QED
  BY <1>1, <1>2 DEF View

\* Committing what one connection wrote: the rows of its transaction become
\* part of the chain, and nobody else has any.
LEMMA Flush ==
  ASSUME LogInv, NEW c \in Conn,
         log' = log \o pend[c].log, pend' = [pend EXCEPT ![c] = NoRows],
         writer' = IF writer = c THEN None ELSE writer
  PROVE  /\ Longer /\ Chained(log') /\ Len(log) \in Nat /\ Len(log') \in Nat
         /\ writer' \in Conn \cup {None} /\ writer' # c
         /\ pend' = [d \in Conn |-> [log |-> pend'[d].log, audit |-> pend'[d].audit]]
         /\ \A d \in Conn : /\ Rows(pend'[d].log) /\ Chained(View(d)')
                            /\ writer' # d => pend'[d] = NoRows
                            /\ read[d] # None => writer' # d /\ Extends(read[d], log')
<1>0. None \notin Conn
  BY LogAssumption
<1>1. Rows(log) /\ Rows(pend[c].log) /\ log' = View(c) /\ Chained(View(c))
  BY DEF LogInv, Chained, View
<1>2. Longer /\ Chained(log') /\ Len(log) \in Nat /\ Len(log') \in Nat
  <2>1. /\ Len(log') = Len(log) + Len(pend[c].log)
        /\ Len(log) \in Nat /\ Len(pend[c].log) \in Nat
        /\ \A i \in 1..Len(log) : log'[i] = log[i]
    <3> DEFINE p == pend[c].log
    <3>1. Rows(log) /\ Rows(p) /\ log' = log \o p
      BY <1>1
    <3> HIDE DEF p
    <3>2. /\ Len(log \o p) = Len(log) + Len(p) /\ Len(log) \in Nat /\ Len(p) \in Nat
          /\ \A i \in 1..Len(log) : (log \o p)[i] = log[i]
      BY <3>1, RowsConcat
    <3>3. QED
      BY <3>1, <3>2 DEF p
  <2>2. QED
    BY <1>1, <2>1 DEF Longer
<1>3. writer' \in Conn \cup {None} /\ writer' # c
  BY <1>0 DEF LogInv
<1>4. \A d \in Conn : pend'[d] = IF d = c THEN NoRows ELSE pend[d]
  BY DEF LogInv
<1>5. pend' = [d \in Conn |-> [log |-> pend'[d].log, audit |-> pend'[d].audit]]
  BY DEF LogInv, NoRows
<1>6. ASSUME NEW d \in Conn
      PROVE  /\ Rows(pend'[d].log) /\ Chained(View(d)')
             /\ writer' # d => pend'[d] = NoRows
  <2>1. CASE d = c \/ pend[d] = NoRows
    <3>1. pend'[d] = NoRows /\ pend'[d].log = <<>>
      BY <1>4, <2>1 DEF NoRows
    <3>2. log' \o <<>> = log' /\ Rows(<<>>)
      BY <1>2, NoRowsConcat DEF Chained
    <3>3. QED
      BY <1>2, <3>1, <3>2 DEF View
  <2>2. CASE d # c /\ pend[d] # NoRows
    <3>1. writer = d /\ writer' = d /\ pend[c] = NoRows /\ pend'[d] = pend[d]
      BY ZenonT(30), <1>4, <2>2 DEF LogInv
    <3>2. log' = log
      BY <1>1, <3>1, ViewOfNone
    <3>3. QED
      BY <3>1, <3>2 DEF LogInv, View
  <2>3. QED
    BY <2>1, <2>2
<1>7. ASSUME NEW d \in Conn, read[d] # None
      PROVE  writer' # d /\ Extends(read[d], log')
  <2>1. writer # d /\ Extends(read[d], log) /\ d # None
    BY <1>7, <1>0 DEF LogInv
  <2>2. QED
    BY <1>2, <2>1, ExtendsLonger DEF Longer
<1>8. QED
  BY <1>2, <1>3, <1>5, <1>6, <1>7

\* COMMIT makes the rows of a transaction part of the chain.
LEMMA CommitStep ==
  ASSUME LogInv, NEW c \in Conn, Commit(c)
  PROVE  LogInv' /\ Longer
<1>1. /\ log' = log \o pend[c].log /\ pend' = [pend EXCEPT ![c] = NoRows]
      /\ writer' = (IF writer = c THEN None ELSE writer) /\ read' = read
  BY DEF Commit
<1>2. QED
  BY <1>1, Flush DEF LogInv

\* append_log_entry has read the head of what it committed.
LEMMA AppendReadStep ==
  ASSUME LogInv, NEW c \in Conn, NEW e \in Direct, AppendRead(c, e)
  PROVE  LogInv' /\ Longer
<1>1. /\ log' = log \o pend[c].log /\ pend' = [pend EXCEPT ![c] = NoRows]
      /\ writer' = (IF writer = c THEN None ELSE writer)
      /\ read' = [read EXCEPT ![c] = EntryFor(log', e)]
  BY DEF AppendRead
<1>2. /\ Longer /\ Chained(log')
      /\ writer' \in Conn \cup {None} /\ writer' # c
      /\ pend' = [d \in Conn |-> [log |-> pend'[d].log, audit |-> pend'[d].audit]]
      /\ \A d \in Conn : /\ Rows(pend'[d].log) /\ Chained(View(d)')
                         /\ writer' # d => pend'[d] = NoRows
                         /\ read[d] # None => writer' # d /\ Extends(read[d], log')
  BY <1>1, Flush
<1>3. Extends(EntryFor(log', e), log')
  BY <1>2, EntryFollows, LogAssumption
<1>4. /\ read' = [d \in Conn |-> read'[d]]
      /\ \A d \in Conn : read'[d] = IF d = c THEN EntryFor(log', e) ELSE read[d]
  BY <1>1 DEF LogInv
<1>5. \A d \in Conn : read'[d] # None => writer' # d /\ Extends(read'[d], log')
  BY <1>2, <1>3, <1>4
<1>6. QED
  BY <1>2, <1>4, <1>5 DEF LogInv

\* Nothing of the log changes: neither does what is seen of it.
LEMMA SameLog ==
  ASSUME LogInv, log' = log
  PROVE  Longer
<1>1. Len(log) \in Nat
  BY LenProperties DEF LogInv, Chained, Rows
<1>2. QED
  BY <1>1 DEF Longer

\* ROLLBACK, or a closed connection, drops rows nobody else saw.
LEMMA RollbackStep ==
  ASSUME LogInv, NEW c \in Conn, Rollback(c)
  PROVE  LogInv' /\ Longer
<1>0. None \notin Conn
  BY LogAssumption
<1>1. /\ log' = log
      /\ \A d \in Conn : /\ pend'[d] = IF d = c THEN NoRows ELSE pend[d]
                         /\ read'[d] = IF d = c THEN None ELSE read[d]
      /\ writer' = IF writer = c THEN None ELSE writer
  BY DEF Rollback, LogInv
<1>2. /\ pend' = [d \in Conn |-> [log |-> pend'[d].log, audit |-> pend'[d].audit]]
      /\ read' = [d \in Conn |-> read'[d]]
  BY DEF Rollback, LogInv, NoRows
<1>3. ASSUME NEW d \in Conn PROVE Rows(pend'[d].log) /\ Chained(View(d)')
  <2>1. CASE d = c
    <3>1. pend'[d].log = <<>> /\ Chained(log') /\ Rows(log')
      BY <1>1, <2>1 DEF NoRows, LogInv, Chained
    <3>2. Rows(<<>>) /\ log' \o <<>> = log'
      BY <3>1, NoRowsConcat
    <3>3. QED
      BY <3>1, <3>2 DEF View
  <2>2. CASE d # c
    BY <1>1, <2>2 DEF LogInv, View
  <2>3. QED
    BY <2>1, <2>2
<1>4. ASSUME NEW d \in Conn
      PROVE  /\ writer' # d => pend'[d] = NoRows
             /\ read'[d] # None => writer' # d /\ Extends(read'[d], log')
  BY <1>0, <1>1 DEF LogInv
<1>5. QED
  BY <1>0, <1>1, <1>2, <1>3, <1>4, SameLog DEF LogInv

\* Taking the write lock changes no row.
LEMMA WriteStep ==
  ASSUME LogInv, NEW c \in Conn, Write(c)
  PROVE  LogInv' /\ Longer
<1>1. /\ log' = log /\ pend' = pend /\ read' = read /\ read[c] = None
      /\ writer \in {None, c} /\ writer' = c
  BY DEF Write, TakeWriteLock
<1>2. \A d \in Conn : Chained(View(d)')
  BY <1>1 DEF LogInv, View
<1>3. None \notin Conn
  BY LogAssumption
<1>4. QED
  BY <1>1, <1>2, <1>3, SameLog DEF LogInv

\* audit_event reads the head after its first write took the lock: the row it
\* mirrors follows whatever this transaction wrote before.
LEMMA AuditStep ==
  ASSUME LogInv, NEW c \in Conn, NEW e \in Event, AuditEvent(c, e)
  PROVE  LogInv' /\ Longer
<1> DEFINE p == pend[c].log
           q == IF e \in Mirrored THEN Append(p, EntryFor(View(c), e)) ELSE p
<1>0. None \notin Conn
  BY LogAssumption
<1>1. /\ log' = log /\ read' = read /\ read[c] = None
      /\ writer \in {None, c} /\ writer' = c
  BY DEF AuditEvent, TakeWriteLock
<1>2. /\ pend' = [d \in Conn |-> [log |-> pend'[d].log, audit |-> pend'[d].audit]]
      /\ \A d \in Conn : pend'[d].log = IF d = c THEN q ELSE pend[d].log
      /\ \A d \in Conn : d # c => pend'[d] = pend[d]
  <2>1. pend' = [pend EXCEPT ![c] = [log |-> q, audit |-> Append(pend[c].audit, e)]]
    BY DEF AuditEvent, LogInv
  <2> HIDE DEF q
  <2>2. QED
    BY <2>1 DEF LogInv
<1>3. Rows(log) /\ Rows(p) /\ Chained(View(c)) /\ View(c) = log \o p
  BY DEF LogInv, Chained, View
<1>4. Rows(q) /\ Chained(log \o q)
  <2>1. CASE e \in Mirrored
    <3> DEFINE row == EntryFor(View(c), e)
    <3>1. Extends(row, View(c)) /\ row.seq = Len(View(c)) + 1
      BY <1>3, EntryFollows
    <3> HIDE DEF row
    <3>2. Chained(Append(View(c), row))
      BY <1>3, <3>1, ChainExtend
    <3>3. Rows(Append(p, row))
      BY <1>3, RowsAppend
    <3>4. log \o Append(p, row) = Append(log \o p, row)
      BY <1>3, AppendConcat
    <3>5. q = Append(p, row)
      BY <2>1 DEF row
    <3>6. QED
      BY <1>3, <3>2, <3>3, <3>4, <3>5
  <2>2. CASE e \notin Mirrored
    BY <1>3, <2>2
  <2>3. QED
    BY <2>1, <2>2
<1> HIDE DEF q
<1>5. ASSUME NEW d \in Conn PROVE Rows(pend'[d].log) /\ Chained(View(d)')
  <2>1. CASE d = c
    BY <1>1, <1>2, <1>4, <2>1 DEF View
  <2>2. CASE d # c
    BY <1>1, <1>2, <2>2 DEF LogInv, View
  <2>3. QED
    BY <2>1, <2>2
<1>6. ASSUME NEW d \in Conn
      PROVE  /\ writer' # d => pend'[d] = NoRows
             /\ read'[d] # None => writer' # d /\ Extends(read'[d], log')
  BY <1>0, <1>1, <1>2 DEF LogInv
<1>7. read' = [d \in Conn |-> read'[d]] /\ Chained(log') /\ writer' \in Conn \cup {None}
  BY <1>1 DEF LogInv
<1>8. QED
  BY <1>1, <1>2, <1>5, <1>6, <1>7, SameLog DEF LogInv

\* append_log_entry inserts what it computed from a head it read without the
\* lock: the UNIQUE sequence number admits the row only if that head is still
\* the last one.
LEMMA AppendInsertStep ==
  ASSUME LogInv, NEW c \in Conn, AppendInsert(c)
  PROVE  LogInv' /\ Longer
<1>0. None \notin Conn
  BY LogAssumption
<1>1. /\ read[c] # None /\ writer = None /\ pend' = pend
      /\ read' = [d \in Conn |-> read'[d]]
      /\ \A d \in Conn : read'[d] = IF d = c THEN None ELSE read[d]
  BY DEF AppendInsert, LogInv
<1>2. /\ Extends(read[c], log) /\ Chained(log) /\ Rows(log)
      /\ \A d \in Conn : pend[d] = NoRows /\ pend[d].log = <<>>
  <2>1. Extends(read[c], log) /\ Chained(log) /\ Rows(log)
    BY <1>1 DEF LogInv, Chained
  <2>2. \A d \in Conn : pend[d] = NoRows
    BY <1>0, <1>1 DEF LogInv
  <2>3. NoRows.log = <<>>
    BY DEF NoRows
  <2>4. QED
    BY <2>1, <2>2, <2>3
<1>3. Len(log) \in Nat
  BY <1>2, LenProperties DEF Rows
<1>4. CASE \E i \in 1..Len(log) : log[i].seq = read[c].seq
  <2>1. log' = log /\ writer' = c
    BY <1>4 DEF AppendInsert
  <2>2. \A d \in Conn : Rows(pend'[d].log) /\ Chained(View(d)')
    BY <1>1, <2>1 DEF LogInv, View
  <2>3. \A d \in Conn : read'[d] # None => writer' # d /\ Extends(read'[d], log')
    BY <1>1, <2>1 DEF LogInv
  <2>4. QED
    BY <1>1, <1>2, <2>1, <2>2, <2>3, SameLog DEF LogInv
<1>5. CASE ~ \E i \in 1..Len(log) : log[i].seq = read[c].seq
  <2>1. log' = Append(log, read[c]) /\ writer' = writer
    BY <1>5 DEF AppendInsert
  <2>2. \A i \in 1..Len(log) : log[i].seq = i
    BY <1>2 DEF Chained, RowChained
  <2>3. read[c].seq = Len(log) + 1
    BY <1>2, <1>3, <1>5, <2>2 DEF Extends
  <2>4. Chained(log') /\ Rows(log')
    BY <1>2, <2>1, <2>3, ChainExtend DEF Chained
  <2>5. Len(log') = Len(log) + 1 /\ \A i \in 1..Len(log) : log'[i] = log[i]
    BY <1>2, <2>1, RowsAppend
  <2>6. Rows(<<>>) /\ log' \o <<>> = log'
    BY <2>4, NoRowsConcat
  <2>7. \A d \in Conn : Rows(pend'[d].log) /\ Chained(View(d)')
    BY <1>1, <1>2, <2>4, <2>6 DEF View
  <2>8. ASSUME NEW d \in Conn, read'[d] # None
        PROVE  writer' # d /\ Extends(read'[d], log')
    <3>1. read'[d] = read[d] /\ read[d] # None
      BY <1>1, <2>8
    <3>2. Extends(read[d], log)
      BY <3>1 DEF LogInv
    <3>3. Len(log') \in Nat /\ Len(log) <= Len(log')
      BY <1>3, <2>5
    <3>4. Extends(read[d], log')
      BY <1>3, <2>5, <3>2, <3>3, ExtendsLonger
    <3>5. QED
      BY <1>0, <1>1, <2>1, <3>1, <3>4
  <2>9. QED
    BY <1>1, <1>2, <1>3, <2>1, <2>4, <2>5, <2>7, <2>8 DEF LogInv, Longer
<1>6. QED
  BY <1>4, <1>5

\* The worker restarts: what its threads wrote and did not commit is gone.
LEMMA RestartStep ==
  ASSUME LogInv, Restart
  PROVE  LogInv' /\ Longer
<1>0. None \notin Conn /\ Thread \subseteq Conn
  BY LogAssumption, ServerAssumption
<1>1. /\ log' = log /\ read' = read
      /\ \A d \in Conn : pend'[d] = IF d \in Thread THEN NoRows ELSE pend[d]
      /\ writer' = IF writer \in Thread THEN None ELSE writer
  BY DEF Restart
<1>2. pend' = [d \in Conn |-> [log |-> pend'[d].log, audit |-> pend'[d].audit]]
  BY DEF Restart, LogInv, NoRows
<1>3. ASSUME NEW d \in Conn PROVE Rows(pend'[d].log) /\ Chained(View(d)')
  <2>1. CASE d \in Thread
    <3>0. NoRows.log = <<>> /\ pend'[d] = NoRows
      BY <1>1, <2>1 DEF NoRows
    <3>1. pend'[d].log = <<>> /\ Chained(log') /\ Rows(log')
      BY <1>1, <3>0 DEF LogInv, Chained
    <3>2. Rows(<<>>) /\ log' \o <<>> = log'
      BY <3>1, NoRowsConcat
    <3>3. QED
      BY <3>1, <3>2 DEF View
  <2>2. CASE d \notin Thread
    BY <1>1, <2>2 DEF LogInv, View
  <2>3. QED
    BY <2>1, <2>2
<1>4. ASSUME NEW d \in Conn
      PROVE  /\ writer' # d => pend'[d] = NoRows
             /\ read'[d] # None => writer' # d /\ Extends(read'[d], log')
  BY <1>0, <1>1 DEF LogInv
<1>5. QED
  BY <1>1, <1>2, <1>3, <1>4, SameLog DEF LogInv

\* A step that does not touch the database.
LEMMA SameStep ==
  ASSUME LogInv, UNCHANGED logVars
  PROVE  LogInv' /\ Longer
<1>1. log' = log /\ pend' = pend /\ read' = read /\ writer' = writer
  BY DEF logVars
<1>2. \A c \in Conn : View(c)' = View(c)
  BY <1>1 DEF View
<1>3. QED
  BY <1>1, <1>2, SameLog DEF LogInv

\* What a step of the worker or of another process does to the log.
LogStep ==
  \/ UNCHANGED logVars \/ Restart
  \/ \E c \in Conn :
       \/ Write(c) \/ Commit(c) \/ Rollback(c) \/ AppendInsert(c)
       \/ \E e \in Event : AuditEvent(c, e)
       \/ \E e \in Direct : AppendRead(c, e)

\* Every step of the worker is one of those, as far as the log goes.
LEMMA LogSteps ==
  ASSUME [Next]_vars
  PROVE  LogStep
<1>0. Thread \subseteq Conn
  BY ServerAssumption
<1>1. ASSUME NEW t \in Thread, Serve(t) PROVE LogStep
  <2>1. CASE Gate(t) \/ Enter(t) \/ Refuse(t) \/ Busy(t)
    BY <2>1 DEF LogStep, Gate, Enter, Refuse, Busy
  <2>2. CASE Provision(t) \/ List(t) \/ Decide(t)
    BY <1>0, <2>2 DEF LogStep, Provision, List, Decide
  <2>3. CASE Settle(t) \/ CommitRequest(t)
    BY <1>0, <2>3 DEF LogStep, Settle, CommitRequest
  <2>4. CASE End(t) \/ (At(t, "closing") /\ Finish(t))
    BY <1>0, <2>4 DEF LogStep, End, Finish
  <2>5. CASE \E e \in Event : Mutate(t, e)
    BY <1>0, <2>5 DEF LogStep, Mutate
  <2>6. QED
    BY <1>1, <2>1, <2>2, <2>3, <2>4, <2>5 DEF Serve
<1>2. ASSUME NEW t \in Thread, ThreadStep(t) PROVE LogStep
  BY <1>1, <1>2 DEF ThreadStep, Search, Embed, LogStep
<1>3. ASSUME NEW t \in Thread, Finish(t) PROVE LogStep
  BY <1>0, <1>3 DEF Finish, LogStep
<1>4. ASSUME NEW t \in Thread, NEW r \in Route, Receive(t, r) PROVE LogStep
  BY <1>4 DEF Receive, LogStep
<1>5. ASSUME NEW c \in Conn \ Thread, Process(c) PROVE LogStep
  BY <1>5 DEF Process, LogStep
<1>6. CASE CoolDown \/ Restart \/ UNCHANGED vars
  BY <1>6 DEF CoolDown, LogStep, vars
<1>7. QED
  BY <1>2, <1>3, <1>4, <1>5, <1>6 DEF Next

\* Every step keeps the chain and only extends the committed log.
LEMMA LogInvStep ==
  ASSUME LogInv, [Next]_vars
  PROVE  LogInv' /\ Longer
<1>1. LogStep
  BY LogSteps
<1>2. QED
  BY <1>1, SameStep, RestartStep, WriteStep, CommitStep, RollbackStep,
     AppendInsertStep, AuditStep, AppendReadStep DEF LogStep

\* verify_log_chain accepts what the invariant describes.
LEMMA LogInvImplies == LogInv => ChainValid
<1> SUFFICES ASSUME LogInv PROVE ChainValid
  OBVIOUS
<1>1. ASSUME NEW s, Chained(s) PROVE VerifyLogChain(s) /\ \A i \in 1..Len(s) : s[i].seq = i
  BY <1>1 DEF Chained, RowChained, VerifyLogChain
<1>2. QED
  BY <1>1 DEF LogInv, ChainValid

\* Whatever the threads of the worker, its restarts and other processes write
\* at the same time, verify_log_chain accepts the log, for any hash function
\* and any number of connections and rows.
THEOREM ChainAlwaysValid == Spec => []ChainValid
<1>1. Init => LogInv
  BY LogInvInit DEF Init
<1>2. LogInv /\ [Next]_vars => LogInv'
  BY LogInvStep
<1>3. QED
  BY <1>1, <1>2, LogInvImplies, PTL DEF Spec

\* The log its readers see implements the abstract append-only log: a step
\* of anyone leaves it alone or extends it at the end.
THEOREM LogRefinesAppendOnly == Spec => LogIsAppendOnly
<1>1. Init => LogInv /\ Abstract!AppendInit
  <2>1. SUFFICES ASSUME Init PROVE Abstract!AppendInit
    BY LogInvInit DEF Init
  <2>2. log = <<>> /\ Len(log) = 0
    BY <2>1, EmptySeq DEF Init, LogInit
  <2>3. Events = <<>>
    BY <2>2 DEF Events, EventsOf
  <2>4. QED
    BY <2>3 DEF Abstract!AppendInit
<1>2. LogInv /\ [Next]_vars => LogInv' /\ [Abstract!Extend]_Events
  <2> SUFFICES ASSUME LogInv, [Next]_vars PROVE LogInv' /\ Abstract!Extend
    OBVIOUS
  <2>1. LogInv' /\ Longer
    BY LogInvStep
  <2>2. /\ Len(log) \in Nat /\ Len(log') \in Nat
        /\ \A i \in 1..Len(log') : log'[i].event \in Event
    BY <2>1, LenProperties DEF LogInv, Chained, Rows, RowChained
  <2>3. /\ Events' \in [1..Len(log') -> Event] /\ Events' \in Seq(Event)
        /\ Len(Events') = Len(log') /\ Len(Events) = Len(log)
    <3>1. Events' = [i \in 1..Len(log') |-> log'[i].event]
      BY DEF Events, EventsOf
    <3>2. Events' \in [1..Len(log') -> Event]
      BY <2>2, <3>1
    <3>3. Events' \in Seq(Event) /\ Len(Events') = Len(log')
      BY <2>2, <3>2, SeqDef, LenProperties
    <3>4. Events \in Seq({log[i].event : i \in 1..Len(log)}) /\ Len(Events) = Len(log)
      BY <2>2, SeqDef, LenProperties DEF Events, EventsOf
    <3>5. QED
      BY <3>2, <3>3, <3>4
  <2>4. Len(Events') >= Len(Events) /\ \A i \in 1..Len(Events) : Events'[i] = Events[i]
    BY <2>1, <2>2, <2>3 DEF Longer, Events, EventsOf
  <2>5. QED
    BY <2>1, <2>3, <2>4 DEF Abstract!Extend
<1>3. QED
  BY <1>1, <1>2, PTL DEF Spec, LogIsAppendOnly, Abstract!AppendSpec

-----------------------------------------------------------------------------
\* The inductive invariant behind the write lock: an answer that frees it
\* belongs to an idle thread that does not hold it, and a whoami whose caller
\* was admitted reaches its answer only through the commit.
Settled(t) ==
  LET at == thread[t].at  r == thread[t].route  freed == thread[t].freed IN
  /\ r \in Route
  /\ freed => at = "idle" /\ writer # t
  /\ at \in {"search", "embed", "list", "decide", "mutate", "commit"} => r.does # "settle"
  /\ (at = "end" /\ r.does = "settle" /\ Admits("identity", Caller[t])) => writer # t

FreeInv ==
  /\ thread = [t \in Thread |-> [at |-> thread[t].at, route |-> thread[t].route,
                                 freed |-> thread[t].freed]]
  /\ \A t \in Thread : Settled(t)

\* Only whoami settles, and its gate asks for an identity.
LEMMA SettleRoute ==
  ASSUME NEW r \in Route
  PROVE  /\ r = [gate |-> r.gate, locked |-> r.locked, does |-> r.does, rollback |-> r.rollback]
         /\ r.does = "settle" => r.gate = "identity"
BY DEF Route, PublicGet, GatedGet, PostRoutes, ToolRoutes, ChangeRoutes, RouteOf

\* Nobody has answered anything yet.
LEMMA FreeInvInit == Init => FreeInv
<1>1. NoRoute \in Route
  BY DEF NoRoute, Route, PublicGet
<1>2. ASSUME Init, NEW t \in Thread
      PROVE  thread[t] = [at |-> "idle", route |-> NoRoute, freed |-> FALSE]
  BY <1>2 DEF Init, Idle
<1>3. QED
  BY <1>1, <1>2 DEF Init, Idle, FreeInv, Settled

\* A step of thread t: the others keep their place, and the write lock passes
\* to t, to nobody, or stays.
Moved(t, at, route, freed) ==
  /\ thread' = [thread EXCEPT ![t] = [at |-> at, route |-> route, freed |-> freed]]
  /\ writer' \in {writer, None, t}

\* A step of one thread that frees the lock where it must keeps the invariant.
LEMMA MovedKeeps ==
  ASSUME FreeInv, NEW t \in Thread, NEW at, NEW route \in Route, NEW freed,
         Moved(t, at, route, freed),
         freed => at = "idle" /\ writer' # t,
         at \in {"search", "embed", "list", "decide", "mutate", "commit"} => route.does # "settle",
         (at = "end" /\ route.does = "settle" /\ Admits("identity", Caller[t])) => writer' # t
  PROVE  FreeInv'
<1>0. None \notin Thread
  BY LogAssumption, ServerAssumption
<1>1. /\ thread'[t] = [at |-> at, route |-> route, freed |-> freed]
      /\ \A u \in Thread : u # t => thread'[u] = thread[u]
      /\ thread' = [u \in Thread |-> thread'[u]]
  BY DEF FreeInv, Moved
<1>2. /\ thread'[t].at = at /\ thread'[t].route = route /\ thread'[t].freed = freed
  BY <1>1
<1>3. Settled(t)'
  BY <1>2 DEF Settled
<1>4. ASSUME NEW u \in Thread, u # t PROVE Settled(u)'
  <2>1. writer # u => writer' # u
    BY <1>0, <1>4 DEF Moved
  <2>2. Settled(u)
    BY DEF FreeInv
  <2>3. thread'[u] = thread[u]
    BY <1>1, <1>4
  <2>4. QED
    BY <2>1, <2>2, <2>3 DEF Settled
<1>5. \A u \in Thread : thread'[u] = [at |-> thread'[u].at, route |-> thread'[u].route,
                                      freed |-> thread'[u].freed]
  BY <1>1, <1>2 DEF FreeInv
<1>6. QED
  BY <1>1, <1>3, <1>4, <1>5 DEF FreeInv

\* A step within a request.
LEMMA GotoKeeps ==
  ASSUME FreeInv, NEW t \in Thread, NEW to, Goto(t, to),
         ~At(t, "idle"), writer' \in {writer, None, t},
         to \in {"search", "embed", "list", "decide", "mutate", "commit"}
           => thread[t].route.does # "settle",
         (to = "end" /\ thread[t].route.does = "settle" /\ Admits("identity", Caller[t]))
           => writer' # t
  PROVE  FreeInv'
<1> DEFINE r == thread[t].route  f == thread[t].freed
<1>1. r \in Route /\ ~f
  BY DEF FreeInv, Settled, At
<1>2. thread[t] = [at |-> thread[t].at, route |-> r, freed |-> f]
  BY DEF FreeInv
<1>3. [thread[t] EXCEPT !.at = to] = [at |-> to, route |-> r, freed |-> f]
  BY <1>2
<1>4. Moved(t, to, r, f)
  BY <1>3 DEF Goto, Moved, FreeInv
<1>5. QED
  BY <1>1, <1>4, MovedKeeps

\* What a step of a request does to the write lock.
LEMMA WriterMoves ==
  ASSUME NEW c \in Conn,
         \/ UNCHANGED logVars \/ Write(c) \/ Commit(c) \/ Rollback(c)
         \/ AppendInsert(c)
         \/ \E e \in Event : AuditEvent(c, e)
         \/ \E e \in Direct : AppendRead(c, e)
  PROVE  writer' \in {writer, None, c}
BY DEF logVars, Write, TakeWriteLock, Commit, Rollback, AppendInsert, AuditEvent, AppendRead

\* Every step of a request, one by one.
LEMMA ServeKeeps ==
  ASSUME FreeInv, NEW t \in Thread, Serve(t)
  PROVE  FreeInv'
<1> DEFINE r == thread[t].route
<1>0. t \in Conn /\ None \notin Conn /\ r \in Route /\ Settled(t)
  BY LogAssumption, ServerAssumption DEF FreeInv, Settled
<1>1. r.does = "settle" => r.gate = "identity"
  BY <1>0, SettleRoute
<1>2. CASE Gate(t)
  <2>1. PICK to : /\ Goto(t, to) /\ to \in {"provision", "enter", "end"}
                  /\ to = "end" => ~Admits(r.gate, Caller[t])
    BY <1>2 DEF Gate
  <2>2. writer' = writer /\ ~At(t, "idle")
    BY <1>2 DEF Gate, logVars, At
  <2>3. QED
    BY <1>1, <2>1, <2>2, GotoKeeps
<1>3. ASSUME At(t, "provision"), Provisioned(t), writer' \in {writer, None, t} PROVE FreeInv'
  <2>1. PICK to : /\ Goto(t, to) /\ to \in {"enter", "end"}
                  /\ to = "end" => ~Admits(r.gate, Caller[t])
    BY <1>3 DEF Provisioned
  <2>2. ~At(t, "idle")
    BY <1>3 DEF At
  <2>3. QED
    BY <1>1, <1>3, <2>1, <2>2, GotoKeeps
<1>4. CASE Provision(t)
  <2>1. writer' \in {writer, None, t}
    BY <1>0, <1>4, WriterMoves DEF Provision
  <2>2. QED
    BY <1>3, <1>4, <2>1 DEF Provision
<1>5. CASE Enter(t)
  <2>1. Goto(t, IF r.does = "read" THEN "end" ELSE r.does) /\ writer' = writer /\ ~At(t, "idle")
    BY <1>5 DEF Enter, logVars, At
  <2>2. QED
    BY <2>1, GotoKeeps
<1>6. CASE Settle(t)
  <2>1. Goto(t, "end") /\ ~At(t, "idle")
    BY <1>6 DEF Settle, At
  <2>2. writer' # t /\ writer' \in {writer, None, t}
    BY <1>0, <1>6 DEF Settle, Commit, InTransaction, logVars
  <2>3. QED
    BY <2>1, <2>2, GotoKeeps
<1>7. CASE List(t) \/ Decide(t)
  <2>1. PICK to \in {"mutate", "end"} : Goto(t, to)
    BY <1>7 DEF List, Decide
  <2>2. ~At(t, "idle") /\ r.does # "settle"
    BY <1>0, <1>7 DEF List, Decide, At, Settled
  <2>3. writer' \in {writer, None, t}
    BY <1>0, <1>7, WriterMoves DEF List, Decide
  <2>4. QED
    BY <2>1, <2>2, <2>3, GotoKeeps
<1>8. CASE (\E e \in Event : Mutate(t, e)) \/ Refuse(t) \/ CommitRequest(t)
  <2>1. PICK to \in {"commit", "end"} : Goto(t, to)
    BY <1>8 DEF Mutate, Refuse, CommitRequest
  <2>2. ~At(t, "idle") /\ r.does # "settle"
    BY <1>0, <1>8 DEF Mutate, Refuse, CommitRequest, At, Settled
  <2>3. writer' \in {writer, None, t}
    BY <1>0, <1>8, WriterMoves DEF Mutate, Refuse, CommitRequest
  <2>4. QED
    BY <2>1, <2>2, <2>3, GotoKeeps
<1>9. CASE Busy(t)
  <2>1. writer' = writer /\ writer # t
    BY <1>9 DEF Busy, logVars
  <2>2. CASE At(t, "provision") /\ Provisioned(t)
    BY <1>3, <2>1, <2>2
  <2>3. CASE ~(At(t, "provision") /\ Provisioned(t))
    <3>1. PICK to \in {"end", "closing"} : Goto(t, to)
      BY <1>9, <2>3 DEF Busy
    <3>2. ~At(t, "idle")
      BY <1>9, <2>3 DEF Busy, At
    <3>3. QED
      BY <2>1, <3>1, <3>2, GotoKeeps
  <2>4. QED
    BY <2>2, <2>3
<1>10. CASE End(t)
  <2>1. Moved(t, "idle", NoRoute, Frees(t)) /\ At(t, "end")
    BY <1>10 DEF End, Idle, Moved, Rollback, logVars
  <2>2. NoRoute \in Route
    BY DEF NoRoute, Route, PublicGet
  <2>3. Frees(t) => writer' # t
    <3>1. CASE r.rollback
      BY <1>0, <1>10, <3>1 DEF End, InTransaction, Rollback, logVars
    <3>2. CASE ~r.rollback
      BY <1>0, <1>10, <3>2 DEF End, Frees, Settled, At, logVars
    <3>3. QED
      BY <3>1, <3>2
  <2>4. QED
    BY <2>1, <2>2, <2>3, MovedKeeps
<1>11. CASE Finish(t)
  <2>1. Moved(t, "idle", NoRoute, FALSE)
    BY <1>11 DEF Finish, Idle, Moved, Rollback
  <2>2. NoRoute \in Route
    BY DEF NoRoute, Route, PublicGet
  <2>3. QED
    BY <2>1, <2>2, MovedKeeps
<1>12. QED
  BY <1>2, <1>4, <1>5, <1>6, <1>7, <1>8, <1>9, <1>10, <1>11 DEF Serve

\* Steps that move no thread, of another process or of the clock.
LEMMA OthersKeep ==
  ASSUME FreeInv, thread' = thread, \A t \in Thread : writer # t => writer' # t
  PROVE  FreeInv'
<1>1. ASSUME NEW t \in Thread PROVE Settled(t)'
  BY DEF FreeInv, Settled
<1>2. QED
  BY <1>1 DEF FreeInv

\* Every step keeps the write lock free behind an answer that freed it.
LEMMA FreeInvStep ==
  ASSUME FreeInv, [Next]_vars
  PROVE  FreeInv'
<1>0. Thread \subseteq Conn /\ None \notin Conn /\ NoRoute \in Route
  BY LogAssumption, ServerAssumption DEF NoRoute, Route, PublicGet
<1>1. ASSUME NEW t \in Thread, ThreadStep(t) PROVE FreeInv'
  <2>1. CASE Serve(t)
    BY <2>1, ServeKeeps
  <2>2. CASE Search(t) \/ Embed(t)
    <3>1. PICK to \in {"embed", "end"} : Goto(t, to)
      BY <2>2 DEF Search, Embed
    <3>2. ~At(t, "idle") /\ thread[t].route.does # "settle" /\ writer' = writer
      BY <2>2 DEF Search, Embed, At, FreeInv, Settled, logVars
    <3>3. QED
      BY <3>1, <3>2, GotoKeeps
  <2>3. QED
    BY <1>1, <2>1, <2>2 DEF ThreadStep
<1>2. ASSUME NEW t \in Thread, Finish(t) PROVE FreeInv'
  <2>1. Moved(t, "idle", NoRoute, FALSE)
    BY <1>2 DEF Finish, Idle, Moved, Rollback
  <2>2. QED
    BY <1>0, <2>1, MovedKeeps
<1>3. ASSUME NEW t \in Thread, NEW r \in Route, Receive(t, r) PROVE FreeInv'
  <2>1. Moved(t, "gate", r, FALSE)
    BY <1>3 DEF Receive, Moved, logVars
  <2>2. QED
    BY <2>1, MovedKeeps
<1>4. ASSUME NEW c \in Conn \ Thread, Process(c) PROVE FreeInv'
  <2>1. thread' = thread
    BY <1>4 DEF Process
  <2>2. writer' \in {writer, None, c}
    BY <1>4, WriterMoves DEF Process
  <2>3. QED
    BY <1>0, <2>1, <2>2, OthersKeep
<1>5. CASE CoolDown \/ UNCHANGED vars
  BY <1>5, OthersKeep DEF CoolDown, vars, logVars
<1>6. CASE Restart
  <2>1. \A t \in Thread : thread'[t] = [at |-> "idle", route |-> NoRoute, freed |-> FALSE]
    BY <1>6 DEF Restart, Idle
  <2>2. thread' = [t \in Thread |-> thread'[t]]
    BY <1>6 DEF Restart
  <2>3. QED
    BY <1>0, <2>1, <2>2 DEF FreeInv, Settled
<1>7. QED
  BY <1>1, <1>2, <1>3, <1>4, <1>5, <1>6 DEF Next

\* No thread that answered a search, a tool call or a whoami sits on the
\* database's write lock while its client keeps the connection, for any number
\* of threads and requests and however earlier requests on it ended.
THEOREM WriteLockFreed == Spec => []AnsweredFreesWriteLock
<1>1. FreeInv => AnsweredFreesWriteLock
  BY DEF FreeInv, Settled, AnsweredFreesWriteLock
<1>2. FreeInv /\ [Next]_vars => FreeInv'
  BY FreeInvStep
<1>3. QED
  BY <1>1, <1>2, FreeInvInit, PTL DEF Spec

-----------------------------------------------------------------------------
(* The audit table and its mirror in the log. *)

\* t is s and one element more.
Grown(s, t, e) ==
  /\ Len(s) \in Nat /\ Len(t) = Len(s) + 1
  /\ \A i \in 1..Len(s) : t[i] = s[i]
  /\ t[Len(s) + 1] = e

\* A mirrored event written to both sides.
LEMMA MirrorBoth ==
  ASSUME NEW s, NEW t, NEW s2, NEW t2, NEW e \in Mirrored,
         SameMirrored(s, t), Grown(s, s2, e), Grown(t, t2, e)
  PROVE  SameMirrored(s2, t2)
<1> DEFINE n == Len(s) + 1
           m == Len(t) + 1
<1>1. PICK f \in [Mirror(s) -> Mirror(t)] :
        /\ \A j \in Mirror(t) : \E i \in Mirror(s) : f[i] = j
        /\ \A i \in Mirror(s) : t[f[i]] = s[i]
        /\ \A i, k \in Mirror(s) : i < k => f[i] < f[k]
  BY DEF SameMirrored
<1>2. /\ Mirror(s2) = Mirror(s) \cup {n} /\ Mirror(t2) = Mirror(t) \cup {m}
      /\ n \notin Mirror(s) /\ m \notin Mirror(t)
      /\ \A i \in Mirror(s) : i \in Nat /\ i < n /\ s2[i] = s[i]
      /\ \A j \in Mirror(t) : j \in Nat /\ j < m /\ t2[j] = t[j]
      /\ s2[n] = e /\ t2[m] = e /\ n \in Nat /\ m \in Nat
  BY DEF Grown, Mirror
<1> HIDE DEF n, m
<1> DEFINE g == [i \in Mirror(s2) |-> IF i = n THEN m ELSE f[i]]
<1>3. g \in [Mirror(s2) -> Mirror(t2)] /\ g[n] = m /\ \A i \in Mirror(s) : g[i] = f[i]
  BY <1>1, <1>2
<1> HIDE DEF g
<1>4. \A j \in Mirror(t2) : \E i \in Mirror(s2) : g[i] = j
  BY <1>1, <1>2, <1>3
<1>5. \A i \in Mirror(s2) : t2[g[i]] = s2[i]
  BY <1>1, <1>2, <1>3
<1>6. \A i, k \in Mirror(s2) : i < k => g[i] < g[k]
  <2> SUFFICES ASSUME NEW i \in Mirror(s2), NEW k \in Mirror(s2), i < k PROVE g[i] < g[k]
    OBVIOUS
  <2>1. i \in Mirror(s)
    BY <1>2
  <2>2. CASE k = n
    BY <1>1, <1>2, <1>3, <2>1, <2>2
  <2>3. CASE k \in Mirror(s)
    BY <1>1, <1>3, <2>1, <2>3
  <2>4. QED
    BY <1>2, <2>2, <2>3
<1>7. QED
  BY <1>3, <1>4, <1>5, <1>6 DEF SameMirrored

\* An event that is not mirrored, written to either side.
LEMMA MirrorNeither ==
  ASSUME NEW s, NEW t, NEW s2, NEW t2, NEW e, e \notin Mirrored, SameMirrored(s, t),
         s2 = s \/ Grown(s, s2, e), t2 = t \/ Grown(t, t2, e)
  PROVE  SameMirrored(s2, t2)
<1>1. Mirror(s2) = Mirror(s) /\ \A i \in Mirror(s) : s2[i] = s[i]
  BY DEF Grown, Mirror
<1>2. Mirror(t2) = Mirror(t) /\ \A j \in Mirror(t) : t2[j] = t[j]
  BY DEF Grown, Mirror
<1>3. PICK f \in [Mirror(s) -> Mirror(t)] :
        /\ \A j \in Mirror(t) : \E i \in Mirror(s) : f[i] = j
        /\ \A i \in Mirror(s) : t[f[i]] = s[i]
        /\ \A i, k \in Mirror(s) : i < k => f[i] < f[k]
  BY DEF SameMirrored
<1>4. \A i \in Mirror(s2) : t2[f[i]] = s2[i]
  BY <1>1, <1>2, <1>3
<1>5. f \in [Mirror(s2) -> Mirror(t2)]
  BY <1>1, <1>2
<1>6. /\ \A j \in Mirror(t2) : \E i \in Mirror(s2) : f[i] = j
      /\ \A i, k \in Mirror(s2) : i < k => f[i] < f[k]
  BY <1>1, <1>2, <1>3
<1>7. QED
  BY <1>4, <1>5, <1>6 DEF SameMirrored

\* A row appended is an event appended.
LEMMA EventsGrow ==
  ASSUME NEW table, NEW row, Rows(table)
  PROVE  Grown(EventsOf(table), EventsOf(Append(table, row)), row.event)
<1> DEFINE a == Append(table, row)
<1>1. /\ Len(a) = Len(table) + 1 /\ Len(table) \in Nat
      /\ \A i \in 1..Len(table) : a[i] = table[i]
      /\ a[Len(table) + 1] = row
  BY RowsAppend
<1> HIDE DEF a
<1>2. \A s : Len(s) \in Nat => Len(EventsOf(s)) = Len(s)
  <2> SUFFICES ASSUME NEW s, Len(s) \in Nat PROVE Len(EventsOf(s)) = Len(s)
    OBVIOUS
  <2>1. EventsOf(s) \in Seq({s[i].event : i \in 1..Len(s)})
    BY SeqDef DEF EventsOf
  <2>2. DOMAIN EventsOf(s) = 1..Len(s)
    BY DEF EventsOf
  <2>3. QED
    BY <2>1, <2>2, LenProperties
<1>3. Len(EventsOf(table)) = Len(table) /\ Len(EventsOf(a)) = Len(table) + 1
  BY <1>1, <1>2
<1>4. /\ \A i \in 1..Len(table) : EventsOf(a)[i] = EventsOf(table)[i]
      /\ EventsOf(a)[Len(table) + 1] = row.event
  BY <1>1 DEF EventsOf
<1>5. QED
  BY <1>1, <1>3, <1>4 DEF Grown, a

\* What connection c sees of the two tables.
AuditView(c) == audit \o pend[c].audit

\* The mirror is complete in what is committed and in what each connection
\* sees, and what append_log_entry is about to insert is no mirrored event.
MirrorInv ==
  /\ Rows(audit) /\ SameMirrored(audit, EventsOf(log))
  /\ \A c \in Conn :
       /\ Rows(pend[c].audit)
       /\ SameMirrored(AuditView(c), EventsOf(View(c)))
       /\ read[c] # None => read[c].event \in Direct

\* A connection that has written nothing sees what is committed.
LEMMA ViewsOfNone ==
  ASSUME NEW c \in Conn, pend[c] = NoRows, Rows(log), Rows(audit)
  PROVE  View(c) = log /\ AuditView(c) = audit /\ Rows(pend[c].audit)
<1>1. pend[c].log = <<>> /\ pend[c].audit = <<>>
  BY DEF NoRows
<1>2. QED
  BY <1>1, NoRowsConcat DEF View, AuditView

\* The same after a step.
LEMMA ViewsOfNoneNext ==
  ASSUME NEW c \in Conn, pend'[c] = NoRows, Rows(log'), Rows(audit')
  PROVE  View(c)' = log' /\ AuditView(c)' = audit' /\ Rows(pend'[c].audit)
<1>1. pend'[c].log = <<>> /\ pend'[c].audit = <<>>
  BY DEF NoRows
<1>2. QED
  BY <1>1, NoRowsConcat DEF View, AuditView

\* COMMIT makes a connection's view of both tables the committed one.
LEMMA MirrorFlush ==
  ASSUME LogInv, LogInv', MirrorInv, NEW c \in Conn,
         log' = log \o pend[c].log, audit' = audit \o pend[c].audit,
         pend' = [pend EXCEPT ![c] = NoRows],
         \A d \in Conn : read'[d] # None => read'[d].event \in Direct
  PROVE  MirrorInv'
<1>1. log' = View(c) /\ audit' = AuditView(c)
  BY DEF View, AuditView
<1>2. Rows(audit) /\ Rows(pend[c].audit)
  BY DEF MirrorInv
<1>3. Rows(audit')
  BY <1>2, RowsConcat
<1>4. SameMirrored(audit', EventsOf(log'))
  BY <1>1 DEF MirrorInv
<1>5. Rows(log') /\ Rows(log)
  BY DEF LogInv, Chained
<1>6. ASSUME NEW d \in Conn
      PROVE  Rows(pend'[d].audit) /\ SameMirrored(AuditView(d)', EventsOf(View(d)'))
  <2>1. CASE pend'[d] = NoRows
    BY <1>3, <1>4, <1>5, <2>1, ViewsOfNoneNext
  <2>2. CASE pend'[d] # NoRows
    <3>1. d # c /\ pend'[d] = pend[d] /\ pend[d] # NoRows
      BY <2>2 DEF LogInv
    <3>2. pend[c] = NoRows
      BY <3>1 DEF LogInv
    <3>3. log' = log /\ audit' = audit
      BY <1>1, <1>2, <1>5, <3>2, ViewsOfNone
    <3>4. View(d)' = View(d) /\ AuditView(d)' = AuditView(d)
      BY <3>1, <3>3 DEF View, AuditView
    <3>5. QED
      BY <3>1, <3>4 DEF MirrorInv
  <2>3. QED
    BY <2>1, <2>2
<1>7. QED
  BY <1>3, <1>4, <1>6 DEF MirrorInv

\* Rows that are dropped were in nobody else's view.
LEMMA MirrorDropped ==
  ASSUME LogInv, MirrorInv, log' = log, audit' = audit,
         \A d \in Conn : pend'[d] \in {pend[d], NoRows} /\ read'[d] \in {read[d], None}
  PROVE  MirrorInv'
<1>1. Rows(log') /\ Rows(audit')
  BY DEF LogInv, Chained, MirrorInv
<1>2. SameMirrored(audit', EventsOf(log'))
  BY DEF MirrorInv
<1>3. ASSUME NEW d \in Conn
      PROVE  Rows(pend'[d].audit) /\ SameMirrored(AuditView(d)', EventsOf(View(d)'))
  <2>1. CASE pend'[d] = NoRows
    BY <1>1, <1>2, <2>1, ViewsOfNoneNext
  <2>2. CASE pend'[d] = pend[d]
    <3>1. View(d)' = View(d) /\ AuditView(d)' = AuditView(d)
      BY <2>2 DEF View, AuditView
    <3>2. QED
      BY <2>2, <3>1 DEF MirrorInv
  <2>3. QED
    BY <2>1, <2>2
<1>4. \A d \in Conn : read'[d] # None => read'[d].event \in Direct
  BY DEF MirrorInv
<1>5. QED
  BY <1>1, <1>2, <1>3, <1>4 DEF MirrorInv

\* audit_event writes a mutation to both tables, and anything else to one.
LEMMA MirrorAudit ==
  ASSUME LogInv, MirrorInv, NEW c \in Conn, NEW e \in Event, AuditEvent(c, e)
  PROVE  MirrorInv'
<1> DEFINE a == pend[c].audit
           p == pend[c].log
           row == EntryFor(View(c), e)
           q == IF e \in Mirrored THEN Append(p, row) ELSE p
<1>1. /\ log' = log /\ audit' = audit /\ read' = read
      /\ pend'[c] = [audit |-> Append(a, e), log |-> q]
      /\ \A d \in Conn : d # c => pend'[d] = pend[d]
  BY DEF AuditEvent, LogInv
<1>2. Rows(audit) /\ Rows(a) /\ Rows(log) /\ Rows(p) /\ Rows(View(c)) /\ View(c) = log \o p
  BY DEF MirrorInv, LogInv, Chained, View
<1>3. row.event = e
  BY DEF EntryFor
<1> HIDE DEF row, p
<1>4. pend'[c].audit = Append(a, e) /\ pend'[c].log = q
  BY <1>1
<1> HIDE DEF a
<1>5. AuditView(c)' = Append(AuditView(c), e) /\ Rows(AuditView(c)) /\ Rows(pend'[c].audit)
  <2>1. Rows(audit \o a) /\ Rows(Append(a, e))
    BY <1>2, RowsConcat, RowsAppend
  <2>2. audit \o Append(a, e) = Append(audit \o a, e)
    BY <1>2, AppendConcat
  <2>3. AuditView(c) = audit \o a /\ AuditView(c)' = audit \o Append(a, e)
    BY <1>1, <1>4 DEF AuditView, a
  <2>4. QED
    BY <1>4, <2>1, <2>2, <2>3
<1>6. Grown(AuditView(c), AuditView(c)', e)
  BY <1>5, RowsAppend DEF Grown
<1>7. SameMirrored(AuditView(c), EventsOf(View(c)))
  BY DEF MirrorInv
<1>8. SameMirrored(AuditView(c)', EventsOf(View(c)'))
  <2>1. CASE e \in Mirrored
    <3>1. View(c)' = Append(View(c), row)
      <4>1. View(c)' = log \o Append(p, row)
        BY <1>1, <1>4, <2>1 DEF View, q
      <4>2. log \o Append(p, row) = Append(log \o p, row)
        BY ONLY <1>2, AppendConcat
      <4>3. QED
        BY ONLY <1>2, <4>1, <4>2
    <3>2. Grown(EventsOf(View(c)), EventsOf(View(c)'), e)
      BY <1>2, <1>3, <3>1, EventsGrow
    <3>3. QED
      BY <1>6, <1>7, <2>1, <3>2, MirrorBoth
  <2>2. CASE e \notin Mirrored
    <3>1. View(c)' = View(c)
      BY <1>1, <1>2, <1>4, <2>2 DEF View
    <3>2. QED
      BY <1>6, <1>7, <2>2, <3>1, MirrorNeither
  <2>3. QED
    BY <2>1, <2>2
<1>9. ASSUME NEW d \in Conn, d # c
      PROVE  Rows(pend'[d].audit) /\ SameMirrored(AuditView(d)', EventsOf(View(d)'))
  <2>1. View(d)' = View(d) /\ AuditView(d)' = AuditView(d) /\ pend'[d] = pend[d]
    BY <1>1, <1>9 DEF View, AuditView
  <2>2. QED
    BY <2>1 DEF MirrorInv
<1>10. Rows(audit') /\ SameMirrored(audit', EventsOf(log'))
  BY <1>1 DEF MirrorInv
<1>11. \A d \in Conn : read'[d] # None => read'[d].event \in Direct
  BY <1>1 DEF MirrorInv
<1>12. QED
  BY <1>5, <1>8, <1>9, <1>10, <1>11 DEF MirrorInv

\* append_log_entry adds a row to the log alone, and it is not of a mirrored
\* event; nobody has uncommitted rows at that point.
LEMMA MirrorInsert ==
  ASSUME LogInv, LogInv', MirrorInv, NEW c \in Conn, AppendInsert(c)
  PROVE  MirrorInv'
<1>0. None \notin Conn /\ Mirrored \cap Direct = {}
  BY LogAssumption
<1>1. /\ read[c] # None /\ writer = None /\ pend' = pend /\ audit' = audit
      /\ \A d \in Conn : read'[d] \in {read[d], None}
  BY DEF AppendInsert, LogInv
<1>2. \A d \in Conn : pend[d] = NoRows
  BY <1>0, <1>1 DEF LogInv
<1>3. log' = log \/ log' = Append(log, read[c])
  BY DEF AppendInsert
<1>4. read[c].event \notin Mirrored
  BY <1>0, <1>1 DEF MirrorInv
<1>5. Rows(log) /\ Rows(log') /\ Rows(audit')
  BY <1>1 DEF LogInv, Chained, MirrorInv
<1>6. SameMirrored(audit', EventsOf(log'))
  <2>1. EventsOf(log') = EventsOf(log) \/ Grown(EventsOf(log), EventsOf(log'), read[c].event)
    BY <1>3, <1>5, EventsGrow
  <2>2. SameMirrored(audit, EventsOf(log))
    BY DEF MirrorInv
  <2>3. QED
    BY <1>1, <1>4, <2>1, <2>2, MirrorNeither
<1>7. \A d \in Conn : Rows(pend'[d].audit) /\ SameMirrored(AuditView(d)', EventsOf(View(d)'))
  BY <1>1, <1>2, <1>5, <1>6, ViewsOfNoneNext
<1>8. \A d \in Conn : read'[d] # None => read'[d].event \in Direct
  BY <1>1 DEF MirrorInv
<1>9. QED
  BY <1>5, <1>6, <1>7, <1>8 DEF MirrorInv

\* Every step keeps the mirror.
LEMMA MirrorStep ==
  ASSUME LogInv, MirrorInv, [Next]_vars
  PROVE  MirrorInv'
<1>0. LogInv' /\ LogStep
  BY LogInvStep, LogSteps
<1>1. CASE UNCHANGED logVars
  BY <1>1, MirrorDropped DEF logVars
<1>2. CASE Restart
  BY <1>2, MirrorDropped DEF Restart
<1>3. ASSUME NEW c \in Conn, Write(c) PROVE MirrorInv'
  BY <1>3, MirrorDropped DEF Write
<1>4. ASSUME NEW c \in Conn, Commit(c) PROVE MirrorInv'
  <2>1. \A d \in Conn : read'[d] # None => read'[d].event \in Direct
    BY <1>4 DEF Commit, MirrorInv
  <2>2. /\ log' = log \o pend[c].log /\ audit' = audit \o pend[c].audit
        /\ pend' = [pend EXCEPT ![c] = NoRows]
    BY <1>4 DEF Commit
  <2>3. QED
    BY <1>0, <2>1, <2>2, MirrorFlush
<1>5. ASSUME NEW c \in Conn, Rollback(c) PROVE MirrorInv'
  <2>1. \A d \in Conn : pend'[d] \in {pend[d], NoRows} /\ read'[d] \in {read[d], None}
    BY <1>5 DEF Rollback, LogInv
  <2>2. QED
    BY <1>5, <2>1, MirrorDropped DEF Rollback
<1>6. ASSUME NEW c \in Conn, AppendInsert(c) PROVE MirrorInv'
  BY <1>0, <1>6, MirrorInsert
<1>7. ASSUME NEW c \in Conn, NEW e \in Event, AuditEvent(c, e) PROVE MirrorInv'
  BY <1>7, MirrorAudit
<1>8. ASSUME NEW c \in Conn, NEW e \in Direct, AppendRead(c, e) PROVE MirrorInv'
  <2>1. /\ log' = log \o pend[c].log /\ audit' = audit \o pend[c].audit
        /\ pend' = [pend EXCEPT ![c] = NoRows]
        /\ \A d \in Conn : read'[d] = IF d = c THEN EntryFor(log', e) ELSE read[d]
    BY <1>8 DEF AppendRead, LogInv
  <2>2. EntryFor(log', e).event = e
    BY DEF EntryFor
  <2>3. \A d \in Conn : read'[d] # None => read'[d].event \in Direct
    BY <2>1, <2>2 DEF MirrorInv
  <2>4. QED
    BY <1>0, <2>1, <2>3, MirrorFlush
<1>9. QED
  BY <1>0, <1>1, <1>2, <1>3, <1>4, <1>5, <1>6, <1>7, <1>8 DEF LogStep

\* The committed capability mutations of the audit table and of the log are
\* the same, in the same order, for any number of connections: a transaction
\* takes both rows or neither, whether it is committed by its own request, by
\* the script of append_log_entry, or lost with its worker.
THEOREM AuditStaysMirrored == Spec => []AuditMirrored
<1>1. Init => LogInv /\ MirrorInv
  <2> SUFFICES ASSUME Init PROVE MirrorInv
    BY LogInvInit DEF Init
  <2>1. log = <<>> /\ audit = <<>> /\ Len(<<>>) = 0 /\ Rows(<<>>)
    BY EmptySeq, RowsOf DEF Init, LogInit
  <2>2. \A c \in Conn : pend[c] = NoRows /\ read[c] = None
    BY DEF Init, LogInit
  <2>3. EventsOf(<<>>) = <<>>
    BY <2>1 DEF EventsOf
  <2>4. Mirror(<<>>) = {}
    BY <2>1 DEF Mirror
  <2>5. SameMirrored(<<>>, <<>>)
    <3> DEFINE f == [i \in {} |-> i]
    <3>1. f \in [Mirror(<<>>) -> Mirror(<<>>)]
      BY <2>4
    <3>2. QED
      BY <2>4, <3>1 DEF SameMirrored
  <2>6. \A c \in Conn : View(c) = log /\ AuditView(c) = audit /\ Rows(pend[c].audit)
    BY <2>1, <2>2, ViewsOfNone
  <2>7. QED
    BY <2>1, <2>2, <2>3, <2>5, <2>6 DEF MirrorInv
<1>2. LogInv /\ MirrorInv /\ [Next]_vars => LogInv' /\ MirrorInv'
  BY LogInvStep, MirrorStep
<1>3. MirrorInv => AuditMirrored
  BY DEF MirrorInv, AuditMirrored, Events
<1>4. QED
  BY <1>1, <1>2, <1>3, PTL DEF Spec

-----------------------------------------------------------------------------
(* The worker: where its threads are, and the rows they have not committed. *)

Positions == {"idle", "gate", "provision", "enter", "search", "embed", "settle", "list",
              "decide", "mutate", "commit", "end", "closing"}
RowKind == {"identity", "decision"}

\* A thread with an uncommitted row holds the database's write lock.
HeldInv ==
  /\ rows \in [Thread -> SUBSET RowKind] /\ known \subseteq Thread
  /\ \A t \in Thread : rows[t] # {} => writer = t

PlacesInv ==
  /\ \A t \in Thread : thread[t].at \in Positions
  /\ lock \in Thread \cup {None} /\ requests \in 0..MaxRequests
  /\ breaker \in [failures : 0..Threshold, open : BOOLEAN]

\* Nobody takes the write lock from its holder.
LEMMA WriterStays ==
  ASSUME NEW c \in Conn,
         \/ UNCHANGED logVars \/ Write(c) \/ Commit(c) \/ Rollback(c)
         \/ AppendInsert(c)
         \/ \E e \in Event : AuditEvent(c, e)
         \/ \E e \in Direct : AppendRead(c, e)
  PROVE  \A d \in Conn : d # c /\ writer = d => writer' = d
<1>0. None \notin Conn
  BY LogAssumption
<1>1. QED
  BY <1>0 DEF logVars, Write, TakeWriteLock, Commit, Rollback, AppendInsert, AuditEvent, AppendRead

\* What a step of one thread makes of its own rows.
LEMMA HeldMoves ==
  ASSUME HeldInv, NEW t \in Thread, NEW S \in SUBSET RowKind,
         rows' = [rows EXCEPT ![t] = S], known' \subseteq Thread, S # {} => writer' = t,
         \A u \in Thread : u # t /\ writer = u => writer' = u
  PROVE  HeldInv'
BY DEF HeldInv

\* Steps that write no row of a thread.
LEMMA HeldKept ==
  ASSUME HeldInv, RowsKept, \A u \in Thread : writer = u => writer' = u
  PROVE  HeldInv'
BY DEF HeldInv, RowsKept

\* A row more, under the write lock that Write takes.
LEMMA HeldWrites ==
  ASSUME HeldInv, NEW t \in Thread, NEW row \in RowKind, Write(t), Wrote(t, row)
  PROVE  HeldInv'
<1>1. t \in Conn /\ Thread \subseteq Conn
  BY ServerAssumption
<1>2. \A u \in Thread : u # t /\ writer = u => writer' = u
  BY <1>1, WriterStays
<1>3. rows' = [rows EXCEPT ![t] = rows[t] \cup {row}] /\ known' = known /\ writer' = t
  BY DEF Wrote, Write, TakeWriteLock
<1>4. rows[t] \cup {row} \in SUBSET RowKind /\ known' \subseteq Thread
  BY <1>3 DEF HeldInv
<1>5. QED
  BY <1>2, <1>3, <1>4, HeldMoves

\* The rows of a thread leave with its transaction.
LEMMA HeldEnds ==
  ASSUME HeldInv, NEW t \in Thread, Commit(t) \/ Rollback(t),
         rows' = [rows EXCEPT ![t] = {}], known' \subseteq known \cup {t}
  PROVE  HeldInv'
<1>1. t \in Conn /\ Thread \subseteq Conn
  BY ServerAssumption
<1>2. \A u \in Thread : u # t /\ writer = u => writer' = u
  BY <1>1, WriterStays
<1>3. known' \subseteq Thread /\ {} \in SUBSET RowKind
  BY DEF HeldInv
<1>4. QED
  BY <1>2, <1>3, HeldMoves

\* Every step of a request.
LEMMA HeldServe ==
  ASSUME HeldInv, NEW t \in Thread, Serve(t)
  PROVE  HeldInv'
<1>0. t \in Conn /\ Thread \subseteq Conn
  BY ServerAssumption
<1>1. ASSUME UNCHANGED logVars, RowsKept PROVE HeldInv'
  BY <1>1, HeldKept DEF logVars
<1>2. CASE Gate(t) \/ Enter(t) \/ Refuse(t) \/ Busy(t)
  BY <1>1, <1>2 DEF Gate, Enter, Refuse, Busy
<1>3. CASE Provision(t)
  BY <1>1, <1>3, HeldWrites DEF Provision, RowKind
<1>4. CASE List(t) \/ Decide(t)
  BY <1>4, HeldWrites DEF List, Decide, RowKind
<1>5. CASE Settle(t)
  <2>1. CASE UNCHANGED logVars /\ RowsKept
    BY <1>1, <2>1
  <2>2. CASE Commit(t) /\ rows' = [rows EXCEPT ![t] = {}] /\ known' \subseteq known \cup {t}
    BY <2>2, HeldEnds
  <2>3. QED
    BY <1>5, <2>1, <2>2 DEF Settle
<1>6. ASSUME NEW e \in Event, Mutate(t, e) PROVE HeldInv'
  <2>1. AuditEvent(t, e) /\ RowsKept /\ writer' = t
    BY <1>6 DEF Mutate, AuditEvent, TakeWriteLock
  <2>2. \A u \in Thread : writer = u => writer' = u
    BY <1>0, <2>1, WriterStays
  <2>3. QED
    BY <2>1, <2>2, HeldKept
<1>7. CASE CommitRequest(t)
  <2>1. Commit(t) /\ rows' = [rows EXCEPT ![t] = {}] /\ known' \subseteq known \cup {t}
    BY <1>7 DEF CommitRequest, RowsCommitted
  <2>2. QED
    BY <2>1, HeldEnds
<1>8. CASE End(t)
  <2>1. CASE UNCHANGED logVars /\ RowsKept
    BY <1>1, <2>1
  <2>2. CASE Rollback(t) /\ RowsDropped(t)
    BY <2>2, HeldEnds DEF RowsDropped
  <2>3. QED
    BY <1>8, <2>1, <2>2 DEF End
<1>9. CASE Finish(t)
  BY <1>9, HeldEnds DEF Finish, RowsDropped
<1>10. QED
  BY <1>2, <1>3, <1>4, <1>5, <1>6, <1>7, <1>8, <1>9 DEF Serve

\* Every step keeps uncommitted rows under the write lock.
LEMMA HeldStep ==
  ASSUME HeldInv, [Next]_vars
  PROVE  HeldInv'
<1>0. Thread \subseteq Conn /\ None \notin Conn
  BY LogAssumption, ServerAssumption
<1>1. ASSUME UNCHANGED logVars, RowsKept PROVE HeldInv'
  BY <1>1, HeldKept DEF logVars
<1>2. ASSUME NEW t \in Thread, ThreadStep(t) PROVE HeldInv'
  BY <1>1, <1>2, HeldServe DEF ThreadStep, Search, Embed
<1>3. ASSUME NEW t \in Thread, Finish(t) PROVE HeldInv'
  BY <1>3, HeldEnds DEF Finish, RowsDropped
<1>4. ASSUME NEW t \in Thread, NEW r \in Route, Receive(t, r) PROVE HeldInv'
  BY <1>1, <1>4 DEF Receive
<1>5. ASSUME NEW c \in Conn \ Thread, Process(c) PROVE HeldInv'
  <2>1. RowsKept
    BY <1>5 DEF Process
  <2>2. \A u \in Thread : writer = u => writer' = u
    BY <1>0, <1>5, WriterStays DEF Process
  <2>3. QED
    BY <2>1, <2>2, HeldKept
<1>6. CASE CoolDown \/ UNCHANGED vars
  BY <1>1, <1>6 DEF CoolDown, vars, RowsKept
<1>7. CASE Restart
  BY <1>7 DEF Restart, HeldInv
<1>8. QED
  BY <1>2, <1>3, <1>4, <1>5, <1>6, <1>7 DEF Next

\* A thread moved to a position is at it, and the others stay.
LEMMA PlaceMoves ==
  ASSUME FreeInv, PlacesInv, NEW t \in Thread, NEW to \in Positions,
         \/ Goto(t, to)
         \/ \E r, f : thread' = [thread EXCEPT ![t] = [at |-> to, route |-> r, freed |-> f]]
  PROVE  \A u \in Thread : thread'[u].at \in Positions
<1>1. \A u \in Thread : u # t => thread'[u] = thread[u]
  BY DEF Goto, FreeInv
<1>2. thread'[t].at = to
  BY DEF Goto, FreeInv
<1>3. QED
  BY <1>1, <1>2 DEF PlacesInv

\* The handlers of the routes start at positions of their own.
LEMMA RouteDoes ==
  ASSUME NEW r \in Route
  PROVE  r.does # "read" => r.does \in Positions
BY DEF Route, PublicGet, GatedGet, PostRoutes, ToolRoutes, ChangeRoutes, RouteOf, Positions

\* Every step of a request.
LEMMA PlacesServe ==
  ASSUME FreeInv, PlacesInv, NEW t \in Thread, Serve(t)
  PROVE  /\ \A u \in Thread : thread'[u].at \in Positions
         /\ lock' \in Thread \cup {None} /\ requests' = requests
<1> DEFINE Places == \A u \in Thread : thread'[u].at \in Positions
           Rest == lock' \in {lock, None, t} /\ requests' = requests
<1>1. ASSUME NEW to, Goto(t, to), to \in Positions PROVE Places
  BY <1>1, PlaceMoves
<1>2. CASE Gate(t)
  <2>1. Rest
    BY <1>2 DEF Gate
  <2>2. \E to \in {"provision", "enter", "end"} : Goto(t, to)
    BY <1>2 DEF Gate
  <2>3. QED
    BY <1>1, <2>1, <2>2 DEF Positions, PlacesInv
<1>3. ASSUME Provisioned(t) PROVE Places /\ Rest
  <2>1. Rest
    BY <1>3 DEF Provisioned
  <2>2. \E to \in {"enter", "end"} : Goto(t, to)
    BY <1>3 DEF Provisioned
  <2>3. QED
    BY <1>1, <2>1, <2>2 DEF Positions
<1>4. CASE Enter(t)
  <2>1. Rest
    BY <1>4 DEF Enter
  <2>2. Goto(t, IF thread[t].route.does = "read" THEN "end" ELSE thread[t].route.does)
    BY <1>4 DEF Enter
  <2>3. thread[t].route \in Route
    BY DEF FreeInv, Settled
  <2>4. Places
    BY <1>1, <2>2, <2>3, RouteDoes DEF Positions
  <2>5. QED
    BY <2>1, <2>4 DEF PlacesInv
<1>5. CASE Settle(t) \/ List(t) \/ Refuse(t) \/ CommitRequest(t)
  <2>1. Rest /\ Goto(t, "end")
    BY <1>5 DEF Settle, List, Refuse, CommitRequest
  <2>2. QED
    BY <1>1, <2>1 DEF Positions, PlacesInv
<1>6. CASE Decide(t) \/ \E e \in Event : Mutate(t, e)
  <2>1. Rest /\ \E to \in {"mutate", "end", "commit"} : Goto(t, to)
    BY <1>6 DEF Decide, Mutate
  <2>2. QED
    BY <1>1, <2>1 DEF Positions, PlacesInv
<1>7. CASE Busy(t)
  <2>1. CASE Provisioned(t)
    BY <1>3, <2>1 DEF PlacesInv
  <2>2. CASE ~Provisioned(t)
    <3>1. Rest /\ \E to \in {"end", "closing"} : Goto(t, to)
      BY <1>7, <2>2 DEF Busy
    <3>2. QED
      BY <1>1, <3>1 DEF Positions, PlacesInv
  <2>3. QED
    BY <2>1, <2>2
<1>8. CASE Provision(t)
  BY <1>3, <1>8 DEF Provision, PlacesInv
<1>9. CASE End(t) \/ Finish(t)
  <2>1. Rest /\ \E f : thread' = [thread EXCEPT ![t] = Idle(f)]
    BY <1>9 DEF End, Finish
  <2>2. Places
    BY <2>1, PlaceMoves DEF Idle, Positions
  <2>3. QED
    BY <2>1, <2>2 DEF PlacesInv
<1>10. QED
  BY <1>2, <1>4, <1>5, <1>6, <1>7, <1>8, <1>9 DEF Serve

\* The embedding breaker counts up to its threshold.
LEMMA BreakerTyped ==
  ASSUME PlacesInv,
         \/ breaker' = Closed \/ breaker' = breaker
         \/ breaker' = [breaker EXCEPT !.open = FALSE]
         \/ \E deadline \in BOOLEAN : RecordFailure(deadline)
  PROVE  breaker' \in [failures : 0..Threshold, open : BOOLEAN]
<1>0. Threshold \in Nat \ {0} /\ breaker \in [failures : 0..Threshold, open : BOOLEAN]
  BY ServerAssumption DEF PlacesInv
<1>1. CASE breaker' = Closed
  BY <1>0, <1>1 DEF Closed
<1>2. CASE breaker' = [breaker EXCEPT !.open = FALSE]
  BY <1>0, <1>2
<1>3. ASSUME NEW deadline \in BOOLEAN, RecordFailure(deadline)
      PROVE  breaker' \in [failures : 0..Threshold, open : BOOLEAN]
  <2> DEFINE n == IF breaker.failures < Threshold THEN breaker.failures + 1 ELSE Threshold
             open == breaker.open \/ deadline \/ n >= Threshold
  <2>1. n \in 0..Threshold
    BY <1>0
  <2>2. open \in BOOLEAN
    BY Zenon
  <2>3. breaker' = [failures |-> n, open |-> open]
    BY <1>3 DEF RecordFailure
  <2> HIDE DEF n, open
  <2>4. QED
    BY <2>1, <2>2, <2>3
<1>4. QED
  BY <1>0, <1>1, <1>2, <1>3

\* Every step keeps the worker's own state well formed.
LEMMA PlacesStep ==
  ASSUME FreeInv, PlacesInv, [Next]_vars
  PROVE  PlacesInv'
<1>0. requests < MaxRequests /\ requests' = requests + 1 => requests' \in 0..MaxRequests
  BY ServerAssumption DEF PlacesInv
<1>1. ASSUME NEW t \in Thread, Serve(t), UNCHANGED breaker PROVE PlacesInv'
  <2>1. breaker' \in [failures : 0..Threshold, open : BOOLEAN] /\ requests \in 0..MaxRequests
    BY <1>1 DEF PlacesInv
  <2>2. QED
    BY <1>1, <2>1, PlacesServe DEF PlacesInv
<1>2. ASSUME NEW t \in Thread, Search(t) \/ Embed(t) PROVE PlacesInv'
  <2>1. \E to \in {"embed", "end"} : Goto(t, to)
    BY <1>2 DEF Search, Embed
  <2>2. lock' = lock /\ requests' = requests
    BY <1>2 DEF Search, Embed
  <2>3. breaker' \in [failures : 0..Threshold, open : BOOLEAN]
    BY <1>2, BreakerTyped DEF Search, Embed
  <2>4. \A u \in Thread : thread'[u].at \in Positions
    BY <2>1, PlaceMoves DEF Positions
  <2>5. QED
    BY <2>2, <2>3, <2>4 DEF PlacesInv
<1>3. ASSUME NEW t \in Thread, Finish(t), UNCHANGED breaker PROVE PlacesInv'
  <2>1. lock' = lock /\ requests' = requests /\ \E f : thread' = [thread EXCEPT ![t] = Idle(f)]
    BY <1>3 DEF Finish
  <2>2. \A u \in Thread : thread'[u].at \in Positions
    BY <2>1, PlaceMoves DEF Idle, Positions
  <2>3. QED
    BY <1>3, <2>1, <2>2 DEF PlacesInv
<1>4. ASSUME NEW t \in Thread, NEW r \in Route, Receive(t, r) PROVE PlacesInv'
  <2>1. \A u \in Thread : thread'[u].at \in Positions
    BY <1>4, PlaceMoves DEF Receive, Positions
  <2>2. lock' = lock /\ breaker' = breaker /\ requests' \in 0..MaxRequests
    BY <1>0, <1>4 DEF Receive
  <2>3. QED
    BY <2>1, <2>2 DEF PlacesInv
<1>5. ASSUME NEW c \in Conn \ Thread, Process(c) PROVE PlacesInv'
  BY <1>5 DEF Process, PlacesInv
<1>6. CASE CoolDown
  <2>1. thread' = thread /\ lock' = lock /\ requests' = requests
    BY <1>6 DEF CoolDown
  <2>2. breaker' \in [failures : 0..Threshold, open : BOOLEAN]
    BY <1>6, BreakerTyped DEF CoolDown
  <2>3. QED
    BY <2>1, <2>2 DEF PlacesInv
<1>7. CASE Restart
  <2>1. requests' \in 0..MaxRequests /\ lock' = None
    BY <1>0, <1>7 DEF Restart
  <2>2. breaker' \in [failures : 0..Threshold, open : BOOLEAN]
    BY <1>7, BreakerTyped DEF Restart
  <2>3. \A t \in Thread : thread'[t].at \in Positions
    BY <1>7 DEF Restart, Idle, Positions
  <2>4. QED
    BY <2>1, <2>2, <2>3 DEF PlacesInv
<1>8. CASE UNCHANGED vars
  BY <1>8 DEF vars, PlacesInv
<1>9. QED
  BY <1>1, <1>2, <1>3, <1>4, <1>5, <1>6, <1>7, <1>8 DEF Next, ThreadStep

\* The worker's state stays well formed, and a thread with a row it has not
\* committed is the one that holds the database's write lock, for any threads,
\* routes and restarts: what a request leaves open blocks every other writer.
THEOREM ServerType == Spec => []TypeOK
<1>1. Init => LogInv /\ FreeInv /\ HeldInv /\ PlacesInv
  <2> SUFFICES ASSUME Init PROVE HeldInv /\ PlacesInv
    BY LogInvInit, FreeInvInit DEF Init
  <2>1. HeldInv
    BY DEF Init, HeldInv
  <2>2. breaker \in [failures : 0..Threshold, open : BOOLEAN]
    BY ServerAssumption DEF Init, Closed
  <2>3. (\A t \in Thread : thread[t].at \in Positions) /\ lock = None /\ requests \in 0..MaxRequests
    BY ServerAssumption DEF Init, Idle, Positions
  <2>4. QED
    BY <2>1, <2>2, <2>3 DEF PlacesInv
<1>2. LogInv /\ FreeInv /\ HeldInv /\ PlacesInv /\ [Next]_vars
        => LogInv' /\ FreeInv' /\ HeldInv' /\ PlacesInv'
  BY LogInvStep, FreeInvStep, HeldStep, PlacesStep
<1>3. LogInv /\ HeldInv /\ PlacesInv => TypeOK
  BY DEF LogInv, HeldInv, PlacesInv, TypeOK, Positions, RowKind
<1>4. QED
  BY <1>1, <1>2, <1>3, PTL DEF Spec

=============================================================================
