--------------------------- MODULE SelfHealProofs ---------------------------
(* Theorems about SelfHeal, for any number of invocations, writes and      *)
(* capability rows.                                                        *)
EXTENDS SelfHeal, FiniteSetTheorems, SequenceTheorems, TLAPS

\* Counting audit events compares the sets of them when one set contains the
\* other: what makes a watermark of COUNT and MAX(id) a guard at all.
LEMMA WatermarkDecides ==
  ASSUME NEW A \in SUBSET Write, NEW B \in SUBSET A, Watermark(A) = Watermark(B)
  PROVE  A \cap Audited = B \cap Audited
<1>1. IsFiniteSet(A \cap Audited)
  BY HealAssumption, FS_Subset
<1>2. B \cap Audited \in SUBSET (A \cap Audited)
  OBVIOUS
<1>3. QED
  BY <1>1, <1>2, FS_Subset DEF Watermark

\* A watermark is a number.
LEMMA WatermarkType ==
  ASSUME NEW A \in SUBSET Write
  PROVE  Watermark(A) \in Nat
BY HealAssumption, FS_Subset, FS_CardinalityType DEF Watermark

\* The file moved aside becomes the first preswap file.
LEMMA PushedFirst ==
  ASSUME NEW d \in Database, NEW s \in Seq(Database)
  PROVE  /\ <<d>> \o s \in Seq(Database)
         /\ <<d>> \o s # << >>
         /\ Head(<<d>> \o s) = d
<1>1. <<d>> \in Seq(Database) /\ Len(<<d>>) = 1 /\ <<d>>[1] = d
  OBVIOUS
<1>2. /\ <<d>> \o s \in Seq(Database)
      /\ Len(<<d>> \o s) = 1 + Len(s)
      /\ (<<d>> \o s)[1] = d
  BY <1>1, ConcatProperties, LenProperties
<1>3. QED
  BY <1>2, LenProperties

\* Rotation keeps a sequence of databases.
LEMMA RotatedType ==
  ASSUME NEW s \in Seq(Database), NEW n \in Nat, n <= Len(s)
  PROVE  SubSeq(s, 1, n) \in Seq(Database)
<1>1. \A i \in 1 .. n : s[i] \in Database
  BY ElementOfSeq, LenProperties
<1>2. QED
  BY <1>1, SubSeqProperties

\* Every variable keeps its type.
LEMMA TypeStep ==
  ASSUME TypeOK, [Next]_vars
  PROVE  TypeOK'
<1> USE HealAssumption
<1>0. LiveWrites \in SUBSET Write /\ Blank \in Database /\ Cardinality(db.caps) \in Nat
  BY FS_Subset, FS_CardinalityType DEF TypeOK, Database, LiveWrites, Blank
<1>k. ASSUME NEW h \in Healer, Release(h)
      PROVE  /\ pc' \in [Healer -> Steps] /\ holder' \in Healer \cup {None}
             /\ live' \in [Healer -> Nat] /\ tmp' \in [Healer -> Database]
             /\ mark' \in [Healer -> Nat \cup {None}] /\ vouched' \in SUBSET Audited
             /\ unflushed' \in SUBSET Write /\ lost' \in SUBSET Write
  BY <1>k, <1>0 DEF TypeOK, Release, history, Steps, BeforeSwap
<1>1. ASSUME NEW h \in Healer, Lock(h) PROVE TypeOK'
  BY <1>1, <1>0 DEF TypeOK, Steps, BeforeSwap, Goto, files, scratch, history, bounds, Database, Lock
<1>2. ASSUME NEW h \in Healer, Snapshot(h) PROVE TypeOK'
  <2>1. [db EXCEPT !.writes = LiveWrites] \in Database
    BY <1>0 DEF TypeOK, Database
  <2>2. tmp' \in [Healer -> Database]
    BY <1>2, <2>1 DEF TypeOK, Snapshot
  <2>3. mark' \in [Healer -> Nat \cup {None}]
    BY <1>2, <1>0, WatermarkType DEF TypeOK, Snapshot
  <2>4. pc' \in [Healer -> Steps]
    BY <1>2 DEF TypeOK, Snapshot, Goto, Steps, BeforeSwap
  <2>5. QED
    BY <1>2, <2>2, <2>3, <2>4 DEF TypeOK, Snapshot, files, history, bounds
<1>3. ASSUME NEW h \in Healer, Ingest(h) PROVE TypeOK'
  <2>1. PICK r \in SUBSET Cap : tmp' = [tmp EXCEPT ![h].caps = r]
    BY <1>3 DEF Ingest, IngestResults, TypeOK, Database
  <2>2. tmp' \in [Healer -> Database]
    BY <2>1 DEF TypeOK, Database
  <2>3. pc' \in [Healer -> Steps]
    BY <1>3 DEF TypeOK, Ingest, Goto, Steps, BeforeSwap
  <2>4. QED
    BY <1>3, <2>2, <2>3 DEF TypeOK, Ingest, files, history, bounds
<1>4. ASSUME NEW h \in Healer, Verify(h) PROVE TypeOK'
  BY <1>4 DEF TypeOK, Steps, BeforeSwap, Goto, files, scratch, history, bounds, Database, Verify
<1>5. ASSUME NEW h \in Healer, Abort(h) PROVE TypeOK'
  BY <1>5, <1>k DEF TypeOK, Steps, BeforeSwap, Goto, files, scratch, history, bounds, Database, Abort
<1>6. ASSUME NEW h \in Healer, SkipUnchanged(h) PROVE TypeOK'
  BY <1>6, <1>k DEF TypeOK, Steps, BeforeSwap, Goto, files, scratch, history, bounds, Database, SkipUnchanged
<1>7. ASSUME NEW h \in Healer, Changed(h) PROVE TypeOK'
  BY <1>7 DEF TypeOK, Steps, BeforeSwap, Goto, files, scratch, history, bounds, Database, Changed
<1>8. ASSUME NEW h \in Healer, Guard(h) PROVE TypeOK'
  BY <1>8 DEF TypeOK, Steps, BeforeSwap, Goto, files, scratch, history, bounds, Database, Guard, LiveWrites
<1>8o. ASSUME NEW h \in Healer, GuardOff(h) PROVE TypeOK'
  BY <1>8o DEF TypeOK, Steps, BeforeSwap, Goto, files, scratch, history, bounds, Database, GuardOff
<1>9. ASSUME NEW h \in Healer, SkipAdvanced(h) PROVE TypeOK'
  BY <1>9, <1>k DEF TypeOK, Steps, BeforeSwap, Goto, files, scratch, history, bounds, Database, SkipAdvanced
<1>10. ASSUME NEW h \in Healer, Stop(h) PROVE TypeOK'
  BY <1>10 DEF TypeOK, Steps, BeforeSwap, Goto, files, scratch, history, bounds, Database, Stop
<1>11. ASSUME NEW h \in Healer, StopFails(h) PROVE TypeOK'
  BY <1>11, <1>k DEF TypeOK, Steps, BeforeSwap, Goto, files, scratch, history, bounds, Database, StopFails
<1>12. ASSUME NEW h \in Healer, Checkpoint(h) PROVE TypeOK'
  <2>1. [db EXCEPT !.writes = LiveWrites] \in Database
    BY <1>0 DEF TypeOK, Database
  <2>2. db' \in Database /\ wal' \in SUBSET Write /\ unflushed' \in SUBSET Write
    BY <1>12, <2>1 DEF TypeOK, Checkpoint
  <2>3. pc' \in [Healer -> Steps]
    BY <1>12 DEF TypeOK, Checkpoint, Goto, Steps
  <2>4. QED
    BY <1>12, <2>2, <2>3 DEF TypeOK, Checkpoint, bounds
<1>13. ASSUME NEW h \in Healer, MoveAside(h) PROVE TypeOK'
  BY <1>13, <1>0, PushedFirst DEF TypeOK, Steps, BeforeSwap, Goto, files, scratch, history, bounds, Database, MoveAside
<1>14. ASSUME NEW h \in Healer, Install(h) PROVE TypeOK'
  BY <1>14 DEF TypeOK, Steps, BeforeSwap, Goto, files, scratch, history, bounds, Database, Install
<1>15. ASSUME NEW h \in Healer, InstallFails(h) PROVE TypeOK'
  BY <1>15 DEF TypeOK, Steps, BeforeSwap, Goto, files, scratch, history, bounds, Database, InstallFails
<1>16. ASSUME NEW h \in Healer, Start(h) PROVE TypeOK'
  BY <1>16 DEF TypeOK, Steps, BeforeSwap, Goto, files, scratch, history, bounds, Database, Start
<1>17. ASSUME NEW h \in Healer, StartFails(h) PROVE TypeOK'
  BY <1>17 DEF TypeOK, Steps, BeforeSwap, Goto, files, scratch, history, bounds, Database, StartFails
<1>18. ASSUME NEW h \in Healer, Ready(h) PROVE TypeOK'
  <2>1. preswap' \in Seq(Database)
    BY <1>18, RotatedType, LenProperties DEF TypeOK, Ready
  <2>2. QED
    BY <1>18, <1>k, <2>1 DEF TypeOK, Ready, bounds
<1>19. ASSUME NEW h \in Healer, NotReady(h) PROVE TypeOK'
  BY <1>19 DEF TypeOK, Steps, BeforeSwap, Goto, files, scratch, history, bounds, Database, NotReady
<1>20. ASSUME NEW h \in Healer, RollbackStop(h) PROVE TypeOK'
  BY <1>20 DEF TypeOK, Steps, BeforeSwap, Goto, files, scratch, history, bounds, Database, RollbackStop
<1>21. ASSUME NEW h \in Healer, RollbackRemove(h) PROVE TypeOK'
  BY <1>21, <1>0 DEF TypeOK, Steps, BeforeSwap, Goto, files, scratch, history, bounds, Database, RollbackRemove
<1>22. ASSUME NEW h \in Healer, RollbackRestore(h) PROVE TypeOK'
  BY <1>22, HeadTailProperties DEF TypeOK, Steps, BeforeSwap, Goto, files, scratch, history, bounds, Database, RollbackRestore
<1>23. ASSUME NEW h \in Healer, RollbackStart(h) PROVE TypeOK'
  BY <1>23, <1>k DEF TypeOK, Steps, BeforeSwap, Goto, files, scratch, history, bounds, Database, RollbackStart
<1>24. ASSUME NEW h \in Healer, Kill(h) PROVE TypeOK'
  BY <1>24, <1>k DEF TypeOK, Steps, BeforeSwap, Goto, files, scratch, history, bounds, Database, Kill
<1>25. ASSUME NEW w \in Write, Commit(w) PROVE TypeOK'
  BY <1>25 DEF TypeOK, scratch, history, bounds, Commit
<1>26. ASSUME EditRoots PROVE TypeOK'
  BY <1>26 DEF TypeOK, files, scratch, history, bounds, Database, EditRoots
<1>27. ASSUME AutoCheckpoint PROVE TypeOK'
  BY <1>27, <1>0 DEF TypeOK, files, scratch, history, bounds, Database, AutoCheckpoint
<1>28. ASSUME WatchdogProbe PROVE TypeOK'
  BY <1>28 DEF TypeOK, files, scratch, history, bounds, Database, WatchdogProbe
<1>29. ASSUME WatchdogStart PROVE TypeOK'
  BY <1>29, <1>0 DEF TypeOK, files, scratch, history, bounds, Database, WatchdogStart
<1>30. ASSUME UNCHANGED vars PROVE TypeOK'
  BY <1>30 DEF TypeOK, vars, LiveWrites
<1>q. QED
  BY <1>1, <1>2, <1>3, <1>4, <1>5, <1>6, <1>7, <1>8, <1>8o, <1>9, <1>10, <1>11,
     <1>12, <1>13, <1>14, <1>15, <1>16, <1>17, <1>18, <1>19, <1>20,
     <1>21, <1>22, <1>23, <1>24, <1>25, <1>26, <1>27, <1>28, <1>29,
     <1>30
  DEF Next, Heal

\* The flock admits one heal at a time.
LEMMA OneHealStep ==
  ASSUME TypeOK, OneHeal, [Next]_vars
  PROVE  OneHeal'
<1> USE HealAssumption DEF TypeOK, OneHeal
<1>k. ASSUME NEW h \in Healer, pc[h] # "idle", Release(h) PROVE OneHeal'
  BY <1>k DEF Release
<1>1. ASSUME NEW h \in Healer, Lock(h) PROVE OneHeal'
  BY <1>1 DEF Lock, Goto
<1>2. ASSUME NEW h \in Healer, Snapshot(h) PROVE OneHeal'
  BY <1>2 DEF Snapshot, Goto
<1>3. ASSUME NEW h \in Healer, Ingest(h) PROVE OneHeal'
  BY <1>3 DEF Ingest, Goto
<1>4. ASSUME NEW h \in Healer, Verify(h) PROVE OneHeal'
  BY <1>4 DEF Verify, Goto
<1>5. ASSUME NEW h \in Healer, Abort(h) PROVE OneHeal'
  BY <1>5, <1>k DEF Abort
<1>6. ASSUME NEW h \in Healer, SkipUnchanged(h) PROVE OneHeal'
  BY <1>6, <1>k DEF SkipUnchanged
<1>7. ASSUME NEW h \in Healer, Changed(h) PROVE OneHeal'
  BY <1>7 DEF Changed, Goto
<1>8. ASSUME NEW h \in Healer, Guard(h) \/ GuardOff(h) PROVE OneHeal'
  BY <1>8 DEF Guard, GuardOff, Goto
<1>9. ASSUME NEW h \in Healer, SkipAdvanced(h) PROVE OneHeal'
  BY <1>9, <1>k DEF SkipAdvanced
<1>10. ASSUME NEW h \in Healer, Stop(h) PROVE OneHeal'
  BY <1>10 DEF Stop, Goto
<1>11. ASSUME NEW h \in Healer, StopFails(h) PROVE OneHeal'
  BY <1>11, <1>k DEF StopFails
<1>12. ASSUME NEW h \in Healer, Checkpoint(h) PROVE OneHeal'
  BY <1>12 DEF Checkpoint, Goto
<1>13. ASSUME NEW h \in Healer, MoveAside(h) PROVE OneHeal'
  BY <1>13 DEF MoveAside, Goto
<1>14. ASSUME NEW h \in Healer, Install(h) PROVE OneHeal'
  BY <1>14 DEF Install, Goto
<1>15. ASSUME NEW h \in Healer, InstallFails(h) PROVE OneHeal'
  BY <1>15 DEF InstallFails, Goto
<1>16. ASSUME NEW h \in Healer, Start(h) PROVE OneHeal'
  BY <1>16 DEF Start, Goto
<1>17. ASSUME NEW h \in Healer, StartFails(h) PROVE OneHeal'
  BY <1>17 DEF StartFails, Goto
<1>18. ASSUME NEW h \in Healer, Ready(h) PROVE OneHeal'
  BY <1>18, <1>k DEF Ready
<1>19. ASSUME NEW h \in Healer, NotReady(h) PROVE OneHeal'
  BY <1>19 DEF NotReady, Goto
<1>20. ASSUME NEW h \in Healer, RollbackStop(h) PROVE OneHeal'
  BY <1>20 DEF RollbackStop, Goto
<1>21. ASSUME NEW h \in Healer, RollbackRemove(h) PROVE OneHeal'
  BY <1>21 DEF RollbackRemove, Goto
<1>22. ASSUME NEW h \in Healer, RollbackRestore(h) PROVE OneHeal'
  BY <1>22 DEF RollbackRestore, Goto
<1>23. ASSUME NEW h \in Healer, RollbackStart(h) PROVE OneHeal'
  BY <1>23, <1>k DEF RollbackStart
<1>24. ASSUME NEW h \in Healer, Kill(h) PROVE OneHeal'
  BY <1>24, <1>k DEF Kill
<1>25. ASSUME NEW w \in Write, Commit(w) PROVE OneHeal'
  BY <1>25 DEF Commit
<1>26. ASSUME EditRoots PROVE OneHeal'
  BY <1>26 DEF EditRoots
<1>27. ASSUME AutoCheckpoint PROVE OneHeal'
  BY <1>27 DEF AutoCheckpoint
<1>28. ASSUME WatchdogProbe PROVE OneHeal'
  BY <1>28 DEF WatchdogProbe
<1>29. ASSUME WatchdogStart PROVE OneHeal'
  BY <1>29 DEF WatchdogStart
<1>30. ASSUME UNCHANGED vars PROVE OneHeal'
  BY <1>30 DEF vars
<1>q. QED
  BY <1>1, <1>2, <1>3, <1>4, <1>5, <1>6, <1>7, <1>8, <1>9, <1>10, <1>11,
     <1>12, <1>13, <1>14, <1>15, <1>16, <1>17, <1>18, <1>19, <1>20,
     <1>21, <1>22, <1>23, <1>24, <1>25, <1>26, <1>27, <1>28, <1>29,
     <1>30
  DEF Next, Heal

\* What the guard vouches for stays: one step per action.  With the lock
\* held, only the owner's own step can disturb a conjunct about the owner.
LEMMA VouchedStep ==
  ASSUME HealInv, [Next]_vars
  PROVE  CopyOfLive' /\ VouchedKept' /\ VouchedWritesSurvive'
<1> DEFINE Goal == CopyOfLive' /\ VouchedKept' /\ VouchedWritesSurvive'
<1>i. /\ TypeOK /\ OneHeal /\ VouchedWritesSurvive
      /\ \A h \in Healer : CopyOfLiveAt(h) /\ VouchedKeptAt(h)
  BY DEF HealInv, CopyOfLive, VouchedKept
<1>t. TypeOK' /\ OneHeal'
  BY <1>i, TypeStep, OneHealStep
<1>w. LiveWrites \in SUBSET Write /\ \A h \in Healer : tmp[h].writes \in SUBSET Write
  BY <1>i DEF TypeOK, Database, LiveWrites
<1>d. /\ db \in Database /\ pc \in [Healer -> Steps] /\ tmp \in [Healer -> Database]
      /\ mark \in [Healer -> Nat \cup {None}] /\ preswap \in Seq(Database)
      /\ \A h \in Healer : pc[h] # "idle" => holder = h
  BY ONLY <1>i DEF TypeOK, OneHeal
\* The others are idle, so what is left to show is about the owner.
<1>c. ASSUME NEW h \in Healer, holder' \in {h, None},
             CopyOfLiveAt(h)', VouchedKeptAt(h)', VouchedWritesSurvive'
      PROVE  Goal
  <2>1. \A k \in Healer : k # h => pc'[k] = "idle"
    BY ONLY <1>c, <1>t, HealAssumption DEF OneHeal
  <2>2. ASSUME NEW k \in Healer PROVE CopyOfLiveAt(k)' /\ VouchedKeptAt(k)'
    <3>1. CASE k = h
      BY ONLY <1>c, <3>1
    <3>2. CASE k # h
      BY ONLY <2>1, <3>2, k \in Healer DEF CopyOfLiveAt, VouchedKeptAt, BeforeSwap, Snapped, Aside
    <3>3. QED
      BY ONLY <3>1, <3>2
  <2>3. QED
    BY ONLY <1>c, <2>2 DEF CopyOfLive, VouchedKept
\* A script that ends leaves nothing to show but the database at $DB.
<1>k. ASSUME NEW h \in Healer, Release(h), UNCHANGED <<present, db, wal>>
      PROVE  Goal
  <2>1. pc'[h] = "idle" /\ holder' = None
    BY ONLY <1>k, <1>d DEF Release
  <2>2. CopyOfLiveAt(h)' /\ VouchedKeptAt(h)'
    BY ONLY <2>1 DEF CopyOfLiveAt, VouchedKeptAt, BeforeSwap, Snapped, Aside
  <2>3. VouchedWritesSurvive'
    BY ONLY <1>k, <1>i DEF VouchedWritesSurvive, LiveWrites, Release, history
  <2>4. QED
    BY ONLY <1>c, <2>1, <2>2, <2>3
\* Steps that change neither files nor copies.
<1>s. ASSUME NEW h \in Healer, UNCHANGED <<files, scratch, holder>>, pc[h] # "idle",
             \/ pc[h] \in Snapped /\ pc'[h] \in Snapped \cup {"guarded"}
             \/ pc[h] = "guarded" /\ pc'[h] = "stopped"
             \/ pc[h] \in Aside /\ pc'[h] \in Aside \ {"moved"}
      PROVE  Goal
  <2>1. CopyOfLiveAt(h) /\ VouchedKeptAt(h) /\ holder' = h
    BY ONLY <1>i, <1>d, <1>s
  <2>u. UNCHANGED <<present, db, wal, preswap, tmp, mark, vouched, unflushed, lost>>
    BY ONLY <1>s DEF files, scratch, history
  <2>2. CopyOfLiveAt(h)'
    BY ONLY <1>s, <2>1, <2>u DEF CopyOfLiveAt, LiveWrites, BeforeSwap, Snapped, Aside
  <2>3. VouchedKeptAt(h)'
    BY ONLY <1>s, <2>1, <2>u DEF VouchedKeptAt, Snapped, Aside
  <2>4. VouchedWritesSurvive'
    BY ONLY <1>i, <2>u DEF VouchedWritesSurvive, LiveWrites
  <2>5. QED
    BY ONLY <1>c, <2>1, <2>2, <2>3, <2>4
<1>1. ASSUME NEW h \in Healer, Lock(h) PROVE Goal
  <2>1. pc[h] = "idle" /\ pc'[h] = "locked" /\ holder' = h
    BY ONLY <1>1, <1>d, <1>t DEF Lock, Goto
  <2>2. CopyOfLiveAt(h) /\ VouchedKeptAt(h)
    BY ONLY <1>i
  <2>3. present /\ UNCHANGED <<present, db, wal, preswap, vouched, lost>>
    BY ONLY <1>1 DEF Lock, files, history
  <2>c. CopyOfLiveAt(h)'
    BY ONLY <2>1, <2>3 DEF CopyOfLiveAt, LiveWrites, BeforeSwap, Snapped
  <2>v. VouchedKeptAt(h)'
    BY ONLY <2>1 DEF VouchedKeptAt, Snapped, Aside
  <2>s. VouchedWritesSurvive'
    BY ONLY <1>i, <2>3 DEF VouchedWritesSurvive, LiveWrites
  <2>q. QED
    BY ONLY <1>c, <2>1, <2>c, <2>v, <2>s
<1>2. ASSUME NEW h \in Healer, Snapshot(h) PROVE Goal
  <2>1. pc[h] = "locked" /\ pc'[h] = "snapped" /\ holder' = h
    BY ONLY <1>2, <1>d DEF Snapshot, Goto
  <2>2. CopyOfLiveAt(h) /\ VouchedKeptAt(h)
    BY ONLY <1>i
  <2>3. UNCHANGED <<present, db, wal, preswap, vouched, unflushed, lost>>
    BY ONLY <1>2 DEF Snapshot, files, history
  <2>4. tmp'[h] = [db EXCEPT !.writes = LiveWrites]
    BY ONLY <1>2, <1>d DEF Snapshot
  <2>5. tmp'[h].writes = LiveWrites /\ tmp'[h].fresh = db.fresh
    BY ONLY <2>4, <1>d DEF Database
  <2>6. mark'[h] \in {None, Watermark(LiveWrites)}
    BY ONLY <1>2, <1>d DEF Snapshot
  <2>7. present
    BY ONLY <2>1, <2>2 DEF CopyOfLiveAt, BeforeSwap
  <2>c. CopyOfLiveAt(h)'
    BY ONLY <2>1, <2>3, <2>5, <2>6, <2>7 DEF CopyOfLiveAt, LiveWrites, BeforeSwap, Snapped
  <2>v. VouchedKeptAt(h)'
    BY ONLY <1>i, <2>1, <2>3, <2>5, <2>7 DEF VouchedKeptAt, Snapped, Aside, VouchedWritesSurvive
  <2>s. VouchedWritesSurvive'
    BY ONLY <1>i, <2>3 DEF VouchedWritesSurvive, LiveWrites
  <2>q. QED
    BY ONLY <1>c, <2>1, <2>c, <2>v, <2>s
<1>3. ASSUME NEW h \in Healer, Ingest(h) PROVE Goal
  <2>1. pc[h] = "snapped" /\ pc'[h] = "ingested" /\ holder' = h
    BY ONLY <1>3, <1>d DEF Ingest, Goto
  <2>2. CopyOfLiveAt(h) /\ VouchedKeptAt(h)
    BY ONLY <1>i
  <2>3. UNCHANGED <<present, db, wal, preswap, mark, vouched, unflushed, lost>>
    BY ONLY <1>3 DEF Ingest, files, history
  <2>4. PICK r : tmp' = [tmp EXCEPT ![h].caps = r]
    BY ONLY <1>3 DEF Ingest
  <2>5. tmp'[h].writes = tmp[h].writes /\ tmp'[h].fresh = tmp[h].fresh
    BY ONLY <2>4, <1>d, h \in Healer DEF Database
  <2>c. CopyOfLiveAt(h)'
    BY ONLY <2>1, <2>2, <2>3, <2>5 DEF CopyOfLiveAt, LiveWrites, BeforeSwap, Snapped
  <2>v. VouchedKeptAt(h)'
    BY ONLY <2>1, <2>2, <2>3, <2>5 DEF VouchedKeptAt, Snapped, Aside
  <2>s. VouchedWritesSurvive'
    BY ONLY <1>i, <2>3 DEF VouchedWritesSurvive, LiveWrites
  <2>q. QED
    BY ONLY <1>c, <2>1, <2>c, <2>v, <2>s
<1>4. ASSUME NEW h \in Healer, Verify(h) PROVE Goal
  <2>1. pc[h] = "ingested" /\ pc'[h] = "verified" /\ UNCHANGED <<files, scratch, holder>>
    BY ONLY <1>4, <1>d DEF Verify, Goto
  <2>2. QED
    BY ONLY <1>s, <2>1 DEF Snapped, Aside
<1>5. ASSUME NEW h \in Healer, Abort(h) PROVE Goal
  BY ONLY <1>k, <1>5 DEF Abort, files
<1>6. ASSUME NEW h \in Healer, SkipUnchanged(h) PROVE Goal
  BY ONLY <1>k, <1>6 DEF SkipUnchanged, files
<1>7. ASSUME NEW h \in Healer, Changed(h) PROVE Goal
  <2>1. pc[h] = "verified" /\ pc'[h] = "compared" /\ UNCHANGED <<files, scratch, holder>>
    BY ONLY <1>7, <1>d DEF Changed, Goto
  <2>2. QED
    BY ONLY <1>s, <2>1 DEF Snapped, Aside
<1>8. ASSUME NEW h \in Healer, Guard(h) PROVE Goal
  <2>1. pc[h] = "compared" /\ pc'[h] = "guarded" /\ holder' = h
    BY ONLY <1>8, <1>d DEF Guard, Goto
  <2>2. CopyOfLiveAt(h) /\ VouchedKeptAt(h)
    BY ONLY <1>i
  <2>3. UNCHANGED <<present, db, wal, preswap, tmp, unflushed, lost>>
    BY ONLY <1>8 DEF Guard, files
  <2>4. mark[h] = Watermark(LiveWrites) /\ Watermark(LiveWrites) # None
    BY <1>8, <1>w, HealAssumption, WatermarkType DEF Guard
  <2>5. tmp[h].writes \subseteq LiveWrites /\ mark[h] \in {None, Watermark(tmp[h].writes)}
    BY ONLY <2>1, <2>2 DEF CopyOfLiveAt, Snapped
  <2>6. Watermark(LiveWrites) = Watermark(tmp[h].writes)
    BY ONLY <2>4, <2>5
  <2>7. LiveWrites \cap Audited = tmp[h].writes \cap Audited
    BY ONLY <1>w, <2>5, <2>6, WatermarkDecides
  <2>8. vouched' = vouched \cup (LiveWrites \cap Audited)
    BY ONLY <1>8 DEF Guard
  <2>9. ~tmp[h].fresh => vouched' \ lost \subseteq tmp[h].writes
    BY ONLY <2>1, <2>2, <2>7, <2>8 DEF VouchedKeptAt, Snapped
  <2>c. CopyOfLiveAt(h)'
    BY ONLY <2>1, <2>2, <2>3 DEF CopyOfLiveAt, LiveWrites, BeforeSwap, Snapped
  <2>v. VouchedKeptAt(h)'
    BY ONLY <2>1, <2>3, <2>9 DEF VouchedKeptAt, Snapped, Aside
  <2>s. VouchedWritesSurvive'
    BY ONLY <1>i, <2>3, <2>8 DEF VouchedWritesSurvive, LiveWrites
  <2>q. QED
    BY ONLY <1>c, <2>1, <2>c, <2>v, <2>s
<1>8o. ASSUME NEW h \in Healer, GuardOff(h) PROVE Goal
  <2>1. pc[h] = "compared" /\ pc'[h] = "guarded" /\ UNCHANGED <<files, scratch, holder>>
    BY ONLY <1>8o, <1>d DEF GuardOff, Goto
  <2>2. QED
    BY ONLY <1>s, <2>1 DEF Snapped, Aside
<1>9. ASSUME NEW h \in Healer, SkipAdvanced(h) PROVE Goal
  BY ONLY <1>k, <1>9 DEF SkipAdvanced, files
<1>10. ASSUME NEW h \in Healer, Stop(h) PROVE Goal
  <2>1. pc[h] = "guarded" /\ pc'[h] = "stopped" /\ UNCHANGED <<files, scratch, holder>>
    BY ONLY <1>10, <1>d DEF Stop, Goto
  <2>2. QED
    BY ONLY <1>s, <2>1 DEF Snapped, Aside
<1>11. ASSUME NEW h \in Healer, StopFails(h) PROVE Goal
  BY ONLY <1>k, <1>11 DEF StopFails, files
<1>12. ASSUME NEW h \in Healer, Checkpoint(h) PROVE Goal
  <2>1. pc[h] = "stopped" /\ pc'[h] = "checkpointed" /\ holder' = h
    BY ONLY <1>12, <1>d DEF Checkpoint, Goto
  <2>2. CopyOfLiveAt(h) /\ VouchedKeptAt(h)
    BY ONLY <1>i
  <2>3. UNCHANGED <<present, preswap, tmp, vouched, lost>>
    BY ONLY <1>12 DEF Checkpoint
  <2>4. /\ db'.fresh = db.fresh /\ LiveWrites' = LiveWrites
        /\ LiveWrites \subseteq db'.writes \cup unflushed'
    BY ONLY <1>12, <1>d DEF Checkpoint, Database, LiveWrites
  <2>5. present
    BY ONLY <2>1, <2>2 DEF CopyOfLiveAt
  <2>c. CopyOfLiveAt(h)'
    BY ONLY <2>1, <2>3, <2>5 DEF CopyOfLiveAt, BeforeSwap, Snapped
  <2>v. VouchedKeptAt(h)'
    BY ONLY <1>i, <2>1, <2>2, <2>3, <2>4, <2>5 DEF VouchedKeptAt, Snapped, Aside, VouchedWritesSurvive
  <2>s. VouchedWritesSurvive'
    BY ONLY <1>i, <2>3, <2>4 DEF VouchedWritesSurvive
  <2>q. QED
    BY ONLY <1>c, <2>1, <2>c, <2>v, <2>s
<1>13. ASSUME NEW h \in Healer, MoveAside(h) PROVE Goal
  <2>1. pc[h] = "checkpointed" /\ pc'[h] = "moved" /\ holder' = h
    BY ONLY <1>13, <1>d DEF MoveAside, Goto
  <2>2. CopyOfLiveAt(h) /\ VouchedKeptAt(h)
    BY ONLY <1>i
  <2>3. /\ UNCHANGED <<tmp, vouched, unflushed, lost>>
        /\ preswap' = <<db>> \o preswap /\ ~present' /\ db' = Blank
    BY ONLY <1>13 DEF MoveAside, scratch, history
  <2>4. preswap' # << >> /\ Head(preswap') = db
    BY ONLY <2>3, <1>d, PushedFirst
  <2>5. db'.fresh
    BY ONLY <2>3 DEF Blank
  <2>c. CopyOfLiveAt(h)'
    BY ONLY <2>1 DEF CopyOfLiveAt, LiveWrites, BeforeSwap, Snapped
  <2>v. VouchedKeptAt(h)'
    BY ONLY <2>1, <2>2, <2>3, <2>4, <2>5 DEF VouchedKeptAt, Snapped, Aside
  <2>s. VouchedWritesSurvive'
    BY ONLY <2>3 DEF VouchedWritesSurvive
  <2>q. QED
    BY ONLY <1>c, <2>1, <2>c, <2>v, <2>s
<1>14. ASSUME NEW h \in Healer, Install(h) PROVE Goal
  <2>1. pc[h] = "moved" /\ pc'[h] = "installed" /\ holder' = h
    BY ONLY <1>14, <1>d DEF Install, Goto
  <2>2. CopyOfLiveAt(h) /\ VouchedKeptAt(h)
    BY ONLY <1>i
  <2>3. UNCHANGED <<preswap, vouched, unflushed, lost>> /\ db' = tmp[h]
    BY ONLY <1>14 DEF Install, scratch, history
  <2>c. CopyOfLiveAt(h)'
    BY ONLY <2>1 DEF CopyOfLiveAt, LiveWrites, BeforeSwap, Snapped
  <2>v. VouchedKeptAt(h)'
    BY ONLY <2>1, <2>2, <2>3 DEF VouchedKeptAt, Snapped, Aside
  <2>s. VouchedWritesSurvive'
    BY ONLY <2>1, <2>2, <2>3 DEF VouchedWritesSurvive, LiveWrites, VouchedKeptAt
  <2>q. QED
    BY ONLY <1>c, <2>1, <2>c, <2>v, <2>s
<1>15. ASSUME NEW h \in Healer, InstallFails(h) PROVE Goal
  <2>1. pc[h] = "moved" /\ pc'[h] = "rollback" /\ holder' = h
    BY ONLY <1>15, <1>d DEF InstallFails, Goto
  <2>2. CopyOfLiveAt(h) /\ VouchedKeptAt(h)
    BY ONLY <1>i
  <2>3. UNCHANGED <<preswap, db, vouched, unflushed, lost>>
    BY ONLY <1>15 DEF InstallFails, scratch, history
  <2>c. CopyOfLiveAt(h)'
    BY ONLY <2>1 DEF CopyOfLiveAt, LiveWrites, BeforeSwap, Snapped
  <2>v. VouchedKeptAt(h)'
    BY ONLY <2>1, <2>2, <2>3 DEF VouchedKeptAt, Snapped, Aside
  <2>s. VouchedWritesSurvive'
    BY ONLY <2>1, <2>2, <2>3 DEF VouchedWritesSurvive, VouchedKeptAt
  <2>q. QED
    BY ONLY <1>c, <2>1, <2>c, <2>v, <2>s
<1>16. ASSUME NEW h \in Healer, Start(h) PROVE Goal
  <2>1. pc[h] = "installed" /\ pc'[h] = "started" /\ UNCHANGED <<files, scratch, holder>>
    BY ONLY <1>16, <1>d DEF Start, Goto
  <2>2. QED
    BY ONLY <1>s, <2>1 DEF Snapped, Aside
<1>17. ASSUME NEW h \in Healer, StartFails(h) PROVE Goal
  <2>1. pc[h] = "installed" /\ pc'[h] = "rollback" /\ UNCHANGED <<files, scratch, holder>>
    BY ONLY <1>17, <1>d DEF StartFails, Goto
  <2>2. QED
    BY ONLY <1>s, <2>1 DEF Snapped, Aside
<1>18. ASSUME NEW h \in Healer, Ready(h) PROVE Goal
  BY ONLY <1>k, <1>18 DEF Ready
<1>19. ASSUME NEW h \in Healer, NotReady(h) PROVE Goal
  <2>1. pc[h] = "started" /\ pc'[h] = "rollback" /\ UNCHANGED <<files, scratch, holder>>
    BY ONLY <1>19, <1>d DEF NotReady, Goto
  <2>2. QED
    BY ONLY <1>s, <2>1 DEF Snapped, Aside
<1>20. ASSUME NEW h \in Healer, RollbackStop(h) PROVE Goal
  <2>1. pc[h] = "rollback" /\ pc'[h] = "rbstopped" /\ UNCHANGED <<files, scratch, holder>>
    BY ONLY <1>20, <1>d DEF RollbackStop, Goto
  <2>2. QED
    BY ONLY <1>s, <2>1 DEF Snapped, Aside
<1>21. ASSUME NEW h \in Healer, RollbackRemove(h) PROVE Goal
  <2>1. pc[h] = "rbstopped" /\ pc'[h] = "rbremoved" /\ holder' = h
    BY ONLY <1>21, <1>d DEF RollbackRemove, Goto
  <2>2. CopyOfLiveAt(h) /\ VouchedKeptAt(h)
    BY ONLY <1>i
  <2>3. UNCHANGED <<preswap, vouched, unflushed, lost>> /\ ~present'
    BY ONLY <1>21 DEF RollbackRemove, scratch, history
  <2>c. CopyOfLiveAt(h)'
    BY ONLY <2>1 DEF CopyOfLiveAt, LiveWrites, BeforeSwap, Snapped
  <2>v. VouchedKeptAt(h)'
    BY ONLY <2>1, <2>2, <2>3 DEF VouchedKeptAt, Snapped, Aside
  <2>s. VouchedWritesSurvive'
    BY ONLY <2>3 DEF VouchedWritesSurvive
  <2>q. QED
    BY ONLY <1>c, <2>1, <2>c, <2>v, <2>s
<1>22. ASSUME NEW h \in Healer, RollbackRestore(h) PROVE Goal
  <2>1. pc[h] = "rbremoved" /\ pc'[h] = "rbrestored" /\ holder' = h
    BY ONLY <1>22, <1>d DEF RollbackRestore, Goto
  <2>2. CopyOfLiveAt(h) /\ VouchedKeptAt(h)
    BY ONLY <1>i
  <2>3. db' = Head(preswap) /\ lost' = lost \cup unflushed /\ vouched' = vouched
    BY ONLY <1>22 DEF RollbackRestore
  <2>c. CopyOfLiveAt(h)'
    BY ONLY <2>1 DEF CopyOfLiveAt, LiveWrites, BeforeSwap, Snapped
  <2>v. VouchedKeptAt(h)'
    BY ONLY <2>1 DEF VouchedKeptAt, Snapped, Aside
  <2>s. VouchedWritesSurvive'
    BY ONLY <2>1, <2>2, <2>3 DEF VouchedWritesSurvive, LiveWrites, VouchedKeptAt, Aside
  <2>q. QED
    BY ONLY <1>c, <2>1, <2>c, <2>v, <2>s
<1>23. ASSUME NEW h \in Healer, RollbackStart(h) PROVE Goal
  BY ONLY <1>k, <1>23 DEF RollbackStart, files
<1>24. ASSUME NEW h \in Healer, Kill(h) PROVE Goal
  BY ONLY <1>k, <1>24 DEF Kill, files
<1>25. ASSUME NEW w \in Write, Commit(w) PROVE Goal
  <2>f. /\ UNCHANGED <<present, db, preswap, pc, tmp, mark, vouched, unflushed, lost>>
        /\ LiveWrites \subseteq LiveWrites'
    BY ONLY <1>25 DEF Commit, scratch, history, LiveWrites
  <2>1. ASSUME NEW h \in Healer PROVE CopyOfLiveAt(h)' /\ VouchedKeptAt(h)'
    <3>1. CopyOfLiveAt(h) /\ VouchedKeptAt(h)
      BY ONLY <1>i
    <3>2. CopyOfLiveAt(h)'
      BY ONLY <2>f, <3>1 DEF CopyOfLiveAt, BeforeSwap, Snapped
    <3>3. VouchedKeptAt(h)'
      BY ONLY <2>f, <3>1 DEF VouchedKeptAt, Snapped, Aside
    <3>4. QED
      BY ONLY <3>2, <3>3
  <2>2. VouchedWritesSurvive'
    BY ONLY <1>i, <2>f DEF VouchedWritesSurvive
  <2>3. QED
    BY ONLY <2>1, <2>2 DEF CopyOfLive, VouchedKept
<1>26. ASSUME EditRoots PROVE Goal
  <2>f. /\ UNCHANGED <<present, db, preswap, pc, tmp, mark, vouched, unflushed, lost>>
        /\ LiveWrites' = LiveWrites
    BY ONLY <1>26 DEF EditRoots, scratch, history, LiveWrites
  <2>1. ASSUME NEW h \in Healer PROVE CopyOfLiveAt(h)' /\ VouchedKeptAt(h)'
    <3>1. CopyOfLiveAt(h) /\ VouchedKeptAt(h)
      BY ONLY <1>i
    <3>2. CopyOfLiveAt(h)'
      BY ONLY <2>f, <3>1 DEF CopyOfLiveAt, BeforeSwap, Snapped
    <3>3. VouchedKeptAt(h)'
      BY ONLY <2>f, <3>1 DEF VouchedKeptAt, Snapped, Aside
    <3>4. QED
      BY ONLY <3>2, <3>3
  <2>2. VouchedWritesSurvive'
    BY ONLY <1>i, <2>f DEF VouchedWritesSurvive
  <2>3. QED
    BY ONLY <2>1, <2>2 DEF CopyOfLive, VouchedKept
<1>27. ASSUME AutoCheckpoint PROVE Goal
  <2>f. /\ UNCHANGED <<present, preswap, pc, tmp, mark, vouched, unflushed, lost>>
        /\ LiveWrites' = LiveWrites /\ db'.fresh = db.fresh /\ db.writes \subseteq db'.writes
    BY ONLY <1>27, <1>d DEF AutoCheckpoint, scratch, history, LiveWrites, Database
  <2>1. ASSUME NEW h \in Healer PROVE CopyOfLiveAt(h)' /\ VouchedKeptAt(h)'
    <3>1. CopyOfLiveAt(h) /\ VouchedKeptAt(h)
      BY ONLY <1>i
    <3>2. CopyOfLiveAt(h)'
      BY ONLY <2>f, <3>1 DEF CopyOfLiveAt, BeforeSwap, Snapped
    <3>3. VouchedKeptAt(h)'
      BY ONLY <2>f, <3>1 DEF VouchedKeptAt, Snapped, Aside
    <3>4. QED
      BY ONLY <3>2, <3>3
  <2>2. VouchedWritesSurvive'
    BY ONLY <1>i, <2>f DEF VouchedWritesSurvive
  <2>3. QED
    BY ONLY <2>1, <2>2 DEF CopyOfLive, VouchedKept
<1>28. ASSUME WatchdogProbe PROVE Goal
  <2>f. /\ UNCHANGED <<present, db, preswap, pc, tmp, mark, vouched, unflushed, lost>>
        /\ LiveWrites' = LiveWrites
    BY ONLY <1>28 DEF WatchdogProbe, files, scratch, history, LiveWrites
  <2>1. ASSUME NEW h \in Healer PROVE CopyOfLiveAt(h)' /\ VouchedKeptAt(h)'
    <3>1. CopyOfLiveAt(h) /\ VouchedKeptAt(h)
      BY ONLY <1>i
    <3>2. CopyOfLiveAt(h)'
      BY ONLY <2>f, <3>1 DEF CopyOfLiveAt, BeforeSwap, Snapped
    <3>3. VouchedKeptAt(h)'
      BY ONLY <2>f, <3>1 DEF VouchedKeptAt, Snapped, Aside
    <3>4. QED
      BY ONLY <3>2, <3>3
  <2>2. VouchedWritesSurvive'
    BY ONLY <1>i, <2>f DEF VouchedWritesSurvive
  <2>3. QED
    BY ONLY <2>1, <2>2 DEF CopyOfLive, VouchedKept
<1>29. ASSUME WatchdogStart PROVE Goal
  <2>f. /\ UNCHANGED <<preswap, pc, tmp, mark, vouched, unflushed, lost>> /\ present'
        /\ present => db' = db /\ LiveWrites' = LiveWrites
        /\ ~present => db'.fresh
    BY ONLY <1>29 DEF WatchdogStart, scratch, history, LiveWrites, Blank
  <2>1. ASSUME NEW h \in Healer PROVE CopyOfLiveAt(h)' /\ VouchedKeptAt(h)'
    <3>1. CopyOfLiveAt(h) /\ VouchedKeptAt(h)
      BY ONLY <1>i
    <3>2. CopyOfLiveAt(h)'
      BY ONLY <2>f, <3>1 DEF CopyOfLiveAt, BeforeSwap, Snapped
    <3>3. VouchedKeptAt(h)'
      BY ONLY <2>f, <3>1 DEF VouchedKeptAt, Snapped, Aside
    <3>4. QED
      BY ONLY <3>2, <3>3
  <2>2. VouchedWritesSurvive'
    BY ONLY <1>i, <2>f DEF VouchedWritesSurvive
  <2>3. QED
    BY ONLY <2>1, <2>2 DEF CopyOfLive, VouchedKept
<1>30. ASSUME UNCHANGED vars PROVE Goal
  <2>f. /\ UNCHANGED <<present, db, preswap, pc, tmp, mark, vouched, unflushed, lost>>
        /\ LiveWrites' = LiveWrites
    BY ONLY <1>30 DEF vars, LiveWrites
  <2>1. ASSUME NEW h \in Healer PROVE CopyOfLiveAt(h)' /\ VouchedKeptAt(h)'
    <3>1. CopyOfLiveAt(h) /\ VouchedKeptAt(h)
      BY ONLY <1>i
    <3>2. CopyOfLiveAt(h)'
      BY ONLY <2>f, <3>1 DEF CopyOfLiveAt, BeforeSwap, Snapped
    <3>3. VouchedKeptAt(h)'
      BY ONLY <2>f, <3>1 DEF VouchedKeptAt, Snapped, Aside
    <3>4. QED
      BY ONLY <3>2, <3>3
  <2>2. VouchedWritesSurvive'
    BY ONLY <1>i, <2>f DEF VouchedWritesSurvive
  <2>3. QED
    BY ONLY <2>1, <2>2 DEF CopyOfLive, VouchedKept
<1>q. QED
  BY <1>1, <1>2, <1>3, <1>4, <1>5, <1>6, <1>7, <1>8, <1>8o, <1>9, <1>10, <1>11,
     <1>12, <1>13, <1>14, <1>15, <1>16, <1>17, <1>18, <1>19, <1>20,
     <1>21, <1>22, <1>23, <1>24, <1>25, <1>26, <1>27, <1>28, <1>29,
     <1>30
  DEF Next, Heal

\* The inductive invariant holds initially.
LEMMA HealInit ==
  ASSUME Init
  PROVE  HealInv
<1>1. TypeOK
  <2>1. db \in Database /\ Blank \in Database
    BY DEF Init, Database, Blank
  <2>2. preswap \in Seq(Database)
    BY EmptySeq DEF Init
  <2>3. QED
    BY HealAssumption, <2>1, <2>2 DEF Init, TypeOK, Steps
<1>2. OneHeal /\ CopyOfLive /\ VouchedKept /\ VouchedWritesSurvive
  BY HealAssumption DEF Init, OneHeal, CopyOfLive, CopyOfLiveAt, VouchedKept, VouchedKeptAt,
     VouchedWritesSurvive, BeforeSwap, Snapped, Aside, LiveWrites
<1>3. QED
  BY <1>1, <1>2 DEF HealInv

\* Type correctness, whatever the constants.
THEOREM SelfHealType == Spec => []TypeOK
<1>1. Init => TypeOK
  BY HealInit DEF HealInv
<1>2. TypeOK /\ [Next]_vars => TypeOK'
  BY TypeStep
<1>3. QED
  BY <1>1, <1>2, PTL DEF Spec

\* The lost-write guard works for every number of healers, writers and rows,
\* and whichever reads and checkpoints fail: an audited write a guard that
\* compared has seen is in every kept database the service gets afterwards,
\* unless it was in the WAL of a failed checkpoint whose swap was rolled back.
THEOREM SelfHealKeepsVouched == Spec => []VouchedWritesSurvive
<1>1. Init => HealInv
  BY HealInit
<1>2. HealInv /\ [Next]_vars => HealInv'
  BY TypeStep, OneHealStep, VouchedStep DEF HealInv
<1>3. HealInv => VouchedWritesSurvive
  BY DEF HealInv
<1>4. QED
  BY <1>1, <1>2, <1>3, PTL DEF Spec

-----------------------------------------------------------------------------
(* The sizes of what is swapped, and the files kept.  Nothing is assumed of *)
(* reads and checkpoints here.                                              *)

Before == BeforeSwap \cup {"guarded", "stopped", "checkpointed"}
Gated == {"verified", "compared", "guarded", "stopped", "checkpointed", "moved"}

\* Until the move the live file keeps the size read at the start.
SizeReadAt(h) == pc[h] \in Before => present /\ live[h] = Cardinality(db.caps)
SizeRead == \A h \in Healer : SizeReadAt(h)

\* A candidate past the gates is large enough, and the file moved aside is
\* the one whose size was read.
WeighedAt(h) ==
  /\ pc[h] \in Gated =>
       /\ Cardinality(tmp[h].caps) >= MinHealthy
       /\ live[h] >= MinHealthy => Cardinality(tmp[h].caps) >= live[h]
  /\ pc[h] = "moved" => Cardinality(Head(preswap).caps) = live[h]
Weighed == \A h \in Healer : WeighedAt(h)

\* The file moved aside stays until a rollback takes it back, and is the one
\* that may be beyond Keep and the kills.
KeptAt(h) ==
  pc[h] \in Aside => preswap # << >> /\ Len(preswap) <= Keep + crashes + 1
Kept ==
  /\ \A h \in Healer : KeptAt(h)
  /\ (holder = None \/ pc[holder] \notin Aside) => Len(preswap) <= Keep + crashes

SwapInv == TypeOK /\ OneHeal /\ SizeRead /\ Weighed /\ Kept /\ CopyRemains

\* One file more and one file less, in numbers.
LEMMA KeptLengths ==
  ASSUME NEW s \in Seq(Database), NEW d \in Database
  PROVE  /\ Len(<<d>> \o s) = Len(s) + 1
         /\ s # << >> => Len(Tail(s)) = Len(s) - 1
<1>1. <<d>> \in Seq(Database) /\ Len(<<d>>) = 1
  OBVIOUS
<1>2. Len(<<d>> \o s) = Len(s) + 1
  BY <1>1, ConcatProperties, LenProperties
<1>3. QED
  BY <1>2, HeadTailProperties

\* Rotation leaves at most Keep files, and one if there was any.
LEMMA RotatedLength ==
  ASSUME NEW s \in Seq(Database)
  PROVE  LET r == SubSeq(s, 1, IF Len(s) < Keep THEN Len(s) ELSE Keep)
         IN  Len(r) <= Keep /\ (s # << >> => r # << >>)
<1> DEFINE n == IF Len(s) < Keep THEN Len(s) ELSE Keep
           r == SubSeq(s, 1, n)
<1>1. Len(s) \in Nat /\ (s # << >> => Len(s) > 0)
  BY LenProperties, EmptySeq
<1>2. n \in Nat /\ n <= Len(s) /\ n <= Keep /\ (Len(s) > 0 => n > 0)
  BY <1>1, HealAssumption
<1> HIDE DEF n
<1>3. \A i \in 1 .. n : s[i] \in Database
  BY <1>1, <1>2, ElementOfSeq
<1>4. Len(r) = n
  BY <1>1, <1>2, <1>3, SubSeqProperties
<1> HIDE DEF r
<1>5. n > 0 => r # << >>
  BY <1>2, <1>4
<1>6. Len(r) <= Keep /\ (s # << >> => r # << >>)
  BY <1>1, <1>2, <1>4, <1>5
<1>7. QED
  BY <1>6 DEF r, n

\* Sizes and kept files: one step per action.
LEMMA SwapStep ==
  ASSUME SwapInv, [Next]_vars
  PROVE  SizeRead' /\ Weighed' /\ Kept' /\ CopyRemains'
<1> DEFINE Goal == SizeRead' /\ Weighed' /\ Kept' /\ CopyRemains'
<1>i. TypeOK /\ OneHeal /\ SizeRead /\ Weighed /\ Kept /\ CopyRemains
  BY DEF SwapInv
<1>t. TypeOK' /\ OneHeal'
  BY <1>i, TypeStep, OneHealStep
<1>d. /\ db \in Database /\ pc \in [Healer -> Steps] /\ live \in [Healer -> Nat]
      /\ tmp \in [Healer -> Database] /\ preswap \in Seq(Database)
  BY ONLY <1>i DEF TypeOK
<1>m. crashes \in Nat /\ Keep \in Nat \ {0} /\ MinHealthy \in Nat /\ Len(preswap) \in Nat
  BY ONLY <1>i, <1>d, HealAssumption, LenProperties DEF TypeOK
<1>n. \A h \in Healer : Cardinality(tmp[h].caps) \in Nat /\ live[h] \in Nat
  BY <1>d, HealAssumption, FS_Subset, FS_CardinalityType DEF Database
\* What the invariant says of the owner of the flock.
<1>o. ASSUME NEW h \in Healer, pc[h] # "idle"
      PROVE  /\ holder = h /\ SizeReadAt(h) /\ WeighedAt(h) /\ KeptAt(h)
             /\ pc[h] \notin Aside => Len(preswap) <= Keep + crashes
  BY ONLY <1>i, <1>o DEF OneHeal, SizeRead, Weighed, Kept
\* The others are idle, so what is left to show is about the owner.
<1>c. ASSUME NEW h \in Healer, holder' \in {h, None}, SizeReadAt(h)', WeighedAt(h)', KeptAt(h)',
             pc'[h] \notin Aside => Len(preswap') <= Keep + crashes', CopyRemains'
      PROVE  Goal
  <2>1. \A k \in Healer : k # h => pc'[k] = "idle"
    BY ONLY <1>c, <1>t, HealAssumption DEF OneHeal
  <2>2. ASSUME NEW k \in Healer PROVE SizeReadAt(k)' /\ WeighedAt(k)' /\ KeptAt(k)'
    <3>1. CASE k = h
      BY ONLY <1>c, <3>1
    <3>2. CASE k # h
      BY ONLY <2>1, <3>2, k \in Healer
         DEF SizeReadAt, WeighedAt, KeptAt, Before, BeforeSwap, Gated, Aside
    <3>3. QED
      BY ONLY <3>1, <3>2
  <2>3. holder' = None => pc'[h] = "idle"
    BY ONLY <1>t, h \in Healer, HealAssumption DEF OneHeal
  <2>4. (holder' = None \/ pc'[holder'] \notin Aside) => Len(preswap') <= Keep + crashes'
    BY ONLY <1>c, <2>3 DEF Aside
  <2>5. QED
    BY ONLY <1>c, <2>2, <2>4 DEF SizeRead, Weighed, Kept
\* A script that ends leaves nothing to show but the files.
<1>k. ASSUME NEW h \in Healer, Release(h), UNCHANGED present,
             preswap # << >> => preswap' # << >>, Len(preswap') <= Keep + crashes'
      PROVE  Goal
  <2>1. pc'[h] = "idle" /\ holder' = None
    BY ONLY <1>k, <1>d DEF Release
  <2>2. SizeReadAt(h)' /\ WeighedAt(h)' /\ KeptAt(h)'
    BY ONLY <2>1 DEF SizeReadAt, WeighedAt, KeptAt, Before, BeforeSwap, Gated, Aside
  <2>3. CopyRemains'
    BY ONLY <1>i, <1>k DEF CopyRemains
  <2>4. QED
    BY ONLY <1>c, <1>k, <2>1, <2>2, <2>3
<1>l. ASSUME NEW h \in Healer, Release(h), UNCHANGED <<present, preswap, crashes>>,
             pc[h] # "idle", pc[h] \notin Aside
      PROVE  Goal
  BY ONLY <1>k, <1>l, <1>o
\* Steps that change neither files nor sizes and pass no gate.
<1>s. ASSUME NEW h \in Healer, UNCHANGED <<files, live, tmp, holder, crashes>>, pc[h] # "idle",
             \/ /\ pc[h] \in Before /\ pc'[h] \in Before
                /\ pc'[h] \in Gated => pc[h] \in Gated
             \/ pc[h] \in Aside /\ pc'[h] \in Aside \ {"moved"}
      PROVE  Goal
  <2>1. UNCHANGED <<present, db, preswap, live, tmp, crashes>> /\ holder' = holder
    BY ONLY <1>s DEF files
  <2>2. /\ holder = h /\ SizeReadAt(h) /\ WeighedAt(h) /\ KeptAt(h)
        /\ pc[h] \notin Aside => Len(preswap) <= Keep + crashes
    BY ONLY <1>o, <1>s
  <2>3. pc'[h] # "moved" /\ (pc'[h] \in Aside <=> pc[h] \in Aside)
        /\ (pc'[h] \in Before => pc[h] \in Before) /\ (pc'[h] \in Gated => pc[h] \in Gated)
    BY ONLY <1>s DEF Before, BeforeSwap, Gated, Aside
  <2>4. SizeReadAt(h)' /\ WeighedAt(h)'
    BY ONLY <2>1, <2>2, <2>3 DEF SizeReadAt, WeighedAt
  <2>5. KeptAt(h)' /\ (pc'[h] \notin Aside => Len(preswap') <= Keep + crashes')
    BY ONLY <2>1, <2>2, <2>3 DEF KeptAt
  <2>6. CopyRemains'
    BY ONLY <1>i, <2>1 DEF CopyRemains
  <2>7. QED
    BY ONLY <1>c, <2>1, <2>2, <2>4, <2>5, <2>6
\* Steps of the environment.
<1>e. ASSUME UNCHANGED <<pc, holder, live, tmp, preswap, crashes>>,
             present => present' /\ db'.caps = db.caps
      PROVE  Goal
  <2>1. ASSUME NEW h \in Healer PROVE SizeReadAt(h)' /\ WeighedAt(h)' /\ KeptAt(h)'
    <3>1. SizeReadAt(h) /\ WeighedAt(h) /\ KeptAt(h)
      BY ONLY <1>i DEF SizeRead, Weighed, Kept
    <3>2. QED
      BY ONLY <1>e, <3>1 DEF SizeReadAt, WeighedAt, KeptAt
  <2>2. (holder' = None \/ pc'[holder'] \notin Aside) => Len(preswap') <= Keep + crashes'
    BY ONLY <1>e, <1>i DEF Kept
  <2>3. CopyRemains'
    BY ONLY <1>e, <1>i DEF CopyRemains
  <2>4. QED
    BY ONLY <2>1, <2>2, <2>3 DEF SizeRead, Weighed, Kept
<1>1. ASSUME NEW h \in Healer, Lock(h) PROVE Goal
  <2>1. pc[h] = "idle" /\ pc'[h] = "locked"
    BY ONLY <1>1, <1>d DEF Lock, Goto
  <2>3. present /\ holder = None /\ holder' = h /\ UNCHANGED <<present, db, preswap, crashes>>
    BY ONLY <1>1 DEF Lock, files
  <2>4. live'[h] = Cardinality(db.caps)
    BY ONLY <1>1, <1>d DEF Lock
  <2>5. Len(preswap) <= Keep + crashes
    BY ONLY <1>i, <2>3 DEF Kept
  <2>s. SizeReadAt(h)'
    BY ONLY <2>3, <2>4 DEF SizeReadAt, Before, BeforeSwap
  <2>w. WeighedAt(h)'
    BY ONLY <2>1 DEF WeighedAt, Gated
  <2>k. KeptAt(h)' /\ (pc'[h] \notin Aside => Len(preswap') <= Keep + crashes')
    BY ONLY <2>1, <2>3, <2>5 DEF KeptAt, Aside
  <2>c. CopyRemains'
    BY ONLY <2>3 DEF CopyRemains
  <2>q. QED
    BY ONLY <1>c, <2>1, <2>3, <2>s, <2>w, <2>k, <2>c
<1>2. ASSUME NEW h \in Healer, Snapshot(h) PROVE Goal
  <2>1. pc[h] = "locked" /\ pc'[h] = "snapped"
    BY ONLY <1>2, <1>d DEF Snapshot, Goto
  <2>2. /\ holder = h /\ SizeReadAt(h) /\ WeighedAt(h) /\ KeptAt(h)
        /\ pc[h] \notin Aside => Len(preswap) <= Keep + crashes
    BY ONLY <1>o, <2>1
  <2>3. holder' = holder /\ UNCHANGED <<present, db, preswap, live, crashes>>
    BY ONLY <1>2 DEF Snapshot, files, bounds
  <2>s. SizeReadAt(h)'
    BY ONLY <2>1, <2>2, <2>3 DEF SizeReadAt, Before, BeforeSwap
  <2>w. WeighedAt(h)'
    BY ONLY <2>1 DEF WeighedAt, Gated
  <2>k. KeptAt(h)' /\ (pc'[h] \notin Aside => Len(preswap') <= Keep + crashes')
    BY ONLY <2>1, <2>2, <2>3 DEF KeptAt, Aside
  <2>c. CopyRemains'
    BY ONLY <1>i, <2>3 DEF CopyRemains
  <2>q. QED
    BY ONLY <1>c, <2>1, <2>2, <2>3, <2>s, <2>w, <2>k, <2>c
<1>3. ASSUME NEW h \in Healer, Ingest(h) PROVE Goal
  <2>1. pc[h] = "snapped" /\ pc'[h] = "ingested"
    BY ONLY <1>3, <1>d DEF Ingest, Goto
  <2>2. /\ holder = h /\ SizeReadAt(h) /\ WeighedAt(h) /\ KeptAt(h)
        /\ pc[h] \notin Aside => Len(preswap) <= Keep + crashes
    BY ONLY <1>o, <2>1
  <2>3. holder' = holder /\ UNCHANGED <<present, db, preswap, live, crashes>>
    BY ONLY <1>3 DEF Ingest, files, bounds
  <2>s. SizeReadAt(h)'
    BY ONLY <2>1, <2>2, <2>3 DEF SizeReadAt, Before, BeforeSwap
  <2>w. WeighedAt(h)'
    BY ONLY <2>1 DEF WeighedAt, Gated
  <2>k. KeptAt(h)' /\ (pc'[h] \notin Aside => Len(preswap') <= Keep + crashes')
    BY ONLY <2>1, <2>2, <2>3 DEF KeptAt, Aside
  <2>c. CopyRemains'
    BY ONLY <1>i, <2>3 DEF CopyRemains
  <2>q. QED
    BY ONLY <1>c, <2>1, <2>2, <2>3, <2>s, <2>w, <2>k, <2>c
<1>4. ASSUME NEW h \in Healer, Verify(h) PROVE Goal
  <2>1. pc[h] = "ingested" /\ pc'[h] = "verified"
    BY ONLY <1>4, <1>d DEF Verify, Goto
  <2>2. /\ holder = h /\ SizeReadAt(h) /\ WeighedAt(h) /\ KeptAt(h)
        /\ pc[h] \notin Aside => Len(preswap) <= Keep + crashes
    BY ONLY <1>o, <2>1
  <2>3. holder' = holder /\ UNCHANGED <<present, db, preswap, live, crashes>> /\ tmp' = tmp
    BY ONLY <1>4 DEF Verify, files, scratch, bounds
  <2>4. /\ Cardinality(tmp[h].caps) >= MinHealthy
        /\ ~(Cardinality(tmp[h].caps) < live[h] /\ live[h] >= MinHealthy)
    BY ONLY <1>4 DEF Verify
  <2>5. live[h] >= MinHealthy => Cardinality(tmp[h].caps) >= live[h]
    BY ONLY <1>n, <2>4, h \in Healer
  <2>s. SizeReadAt(h)'
    BY ONLY <2>1, <2>2, <2>3 DEF SizeReadAt, Before, BeforeSwap
  <2>w. WeighedAt(h)'
    BY ONLY <2>1, <2>3, <2>4, <2>5 DEF WeighedAt, Gated
  <2>k. KeptAt(h)' /\ (pc'[h] \notin Aside => Len(preswap') <= Keep + crashes')
    BY ONLY <2>1, <2>2, <2>3 DEF KeptAt, Aside
  <2>c. CopyRemains'
    BY ONLY <1>i, <2>3 DEF CopyRemains
  <2>q. QED
    BY ONLY <1>c, <2>1, <2>2, <2>3, <2>s, <2>w, <2>k, <2>c
<1>5. ASSUME NEW h \in Healer, Abort(h) PROVE Goal
  <2>1. pc[h] \in {"locked", "snapped", "ingested"} /\ Release(h) /\ UNCHANGED <<present, preswap, crashes>>
    BY ONLY <1>5 DEF Abort, files, bounds
  <2>2. QED
    BY ONLY <1>l, <2>1 DEF Aside
<1>6. ASSUME NEW h \in Healer, SkipUnchanged(h) PROVE Goal
  <2>1. pc[h] \in {"verified"} /\ Release(h) /\ UNCHANGED <<present, preswap, crashes>>
    BY ONLY <1>6 DEF SkipUnchanged, files, bounds
  <2>2. QED
    BY ONLY <1>l, <2>1 DEF Aside
<1>7. ASSUME NEW h \in Healer, Changed(h) PROVE Goal
  <2>1. pc[h] = "verified" /\ pc'[h] = "compared" /\ UNCHANGED <<files, live, tmp, holder, crashes>>
    BY ONLY <1>7, <1>d DEF Changed, Goto, scratch, bounds
  <2>2. QED
    BY ONLY <1>s, <2>1 DEF Before, BeforeSwap, Gated, Aside
<1>8. ASSUME NEW h \in Healer, Guard(h) PROVE Goal
  <2>1. pc[h] = "compared" /\ pc'[h] = "guarded" /\ UNCHANGED <<files, live, tmp, holder, crashes>>
    BY ONLY <1>8, <1>d DEF Guard, Goto, scratch, bounds
  <2>2. QED
    BY ONLY <1>s, <2>1 DEF Before, BeforeSwap, Gated, Aside
<1>8o. ASSUME NEW h \in Healer, GuardOff(h) PROVE Goal
  <2>1. pc[h] = "compared" /\ pc'[h] = "guarded" /\ UNCHANGED <<files, live, tmp, holder, crashes>>
    BY ONLY <1>8o, <1>d DEF GuardOff, Goto, scratch, bounds
  <2>2. QED
    BY ONLY <1>s, <2>1 DEF Before, BeforeSwap, Gated, Aside
<1>9. ASSUME NEW h \in Healer, SkipAdvanced(h) PROVE Goal
  <2>1. pc[h] \in {"compared"} /\ Release(h) /\ UNCHANGED <<present, preswap, crashes>>
    BY ONLY <1>9 DEF SkipAdvanced, files, bounds
  <2>2. QED
    BY ONLY <1>l, <2>1 DEF Aside
<1>10. ASSUME NEW h \in Healer, Stop(h) PROVE Goal
  <2>1. pc[h] = "guarded" /\ pc'[h] = "stopped" /\ UNCHANGED <<files, live, tmp, holder, crashes>>
    BY ONLY <1>10, <1>d DEF Stop, Goto, scratch, bounds
  <2>2. QED
    BY ONLY <1>s, <2>1 DEF Before, BeforeSwap, Gated, Aside
<1>11. ASSUME NEW h \in Healer, StopFails(h) PROVE Goal
  <2>1. pc[h] \in {"guarded"} /\ Release(h) /\ UNCHANGED <<present, preswap, crashes>>
    BY ONLY <1>11 DEF StopFails, files, bounds
  <2>2. QED
    BY ONLY <1>l, <2>1 DEF Aside
<1>12. ASSUME NEW h \in Healer, Checkpoint(h) PROVE Goal
  <2>1. pc[h] = "stopped" /\ pc'[h] = "checkpointed"
    BY ONLY <1>12, <1>d DEF Checkpoint, Goto
  <2>2. /\ holder = h /\ SizeReadAt(h) /\ WeighedAt(h) /\ KeptAt(h)
        /\ pc[h] \notin Aside => Len(preswap) <= Keep + crashes
    BY ONLY <1>o, <2>1
  <2>3. holder' = holder /\ UNCHANGED <<present, preswap, live, tmp, crashes>>
    BY ONLY <1>12 DEF Checkpoint, bounds
  <2>4. db'.caps = db.caps
    BY ONLY <1>12, <1>d DEF Checkpoint, Database
  <2>s. SizeReadAt(h)'
    BY ONLY <2>1, <2>2, <2>3, <2>4 DEF SizeReadAt, Before, BeforeSwap
  <2>w. WeighedAt(h)'
    BY ONLY <2>1, <2>2, <2>3 DEF WeighedAt, Gated
  <2>k. KeptAt(h)' /\ (pc'[h] \notin Aside => Len(preswap') <= Keep + crashes')
    BY ONLY <2>1, <2>2, <2>3 DEF KeptAt, Aside
  <2>c. CopyRemains'
    BY ONLY <1>i, <2>3 DEF CopyRemains
  <2>q. QED
    BY ONLY <1>c, <2>1, <2>2, <2>3, <2>s, <2>w, <2>k, <2>c
<1>13. ASSUME NEW h \in Healer, MoveAside(h) PROVE Goal
  <2>1. pc[h] = "checkpointed" /\ pc'[h] = "moved"
    BY ONLY <1>13, <1>d DEF MoveAside, Goto
  <2>2. /\ holder = h /\ SizeReadAt(h) /\ WeighedAt(h) /\ KeptAt(h)
        /\ pc[h] \notin Aside => Len(preswap) <= Keep + crashes
    BY ONLY <1>o, <2>1
  <2>3. /\ holder' = holder /\ UNCHANGED <<live, tmp, crashes>>
        /\ preswap' = <<db>> \o preswap
    BY ONLY <1>13 DEF MoveAside, scratch, bounds
  <2>4. preswap' # << >> /\ Head(preswap') = db
    BY ONLY <2>3, <1>d, PushedFirst
  <2>5. Len(preswap') = Len(preswap) + 1
    BY ONLY <2>3, <1>d, KeptLengths
  <2>6. Len(preswap) <= Keep + crashes
    BY ONLY <2>1, <2>2 DEF Aside
  <2>7. Len(preswap') <= Keep + crashes' + 1
    BY ONLY <1>m, <2>3, <2>5, <2>6
  <2>8. Cardinality(db.caps) = live[h]
    BY ONLY <2>1, <2>2 DEF SizeReadAt, Before
  <2>s. SizeReadAt(h)'
    BY ONLY <2>1 DEF SizeReadAt, Before, BeforeSwap
  <2>w. WeighedAt(h)'
    BY ONLY <2>1, <2>2, <2>3, <2>4, <2>8 DEF WeighedAt, Gated
  <2>k. KeptAt(h)' /\ (pc'[h] \notin Aside => Len(preswap') <= Keep + crashes')
    BY ONLY <2>1, <2>4, <2>7 DEF KeptAt, Aside
  <2>c. CopyRemains'
    BY ONLY <2>4 DEF CopyRemains
  <2>q. QED
    BY ONLY <1>c, <2>1, <2>2, <2>3, <2>s, <2>w, <2>k, <2>c
<1>14. ASSUME NEW h \in Healer, Install(h) PROVE Goal
  <2>1. pc[h] = "moved" /\ pc'[h] = "installed"
    BY ONLY <1>14, <1>d DEF Install, Goto
  <2>2. /\ holder = h /\ SizeReadAt(h) /\ WeighedAt(h) /\ KeptAt(h)
        /\ pc[h] \notin Aside => Len(preswap) <= Keep + crashes
    BY ONLY <1>o, <2>1
  <2>3. holder' = holder /\ UNCHANGED <<preswap, crashes>>
    BY ONLY <1>14 DEF Install, bounds
  <2>s. SizeReadAt(h)'
    BY ONLY <2>1 DEF SizeReadAt, Before, BeforeSwap
  <2>w. WeighedAt(h)'
    BY ONLY <2>1 DEF WeighedAt, Gated
  <2>k. KeptAt(h)' /\ (pc'[h] \notin Aside => Len(preswap') <= Keep + crashes')
    BY ONLY <2>1, <2>2, <2>3 DEF KeptAt, Aside
  <2>c. CopyRemains'
    BY ONLY <2>1, <2>2, <2>3 DEF CopyRemains, KeptAt, Aside
  <2>q. QED
    BY ONLY <1>c, <2>1, <2>2, <2>3, <2>s, <2>w, <2>k, <2>c
<1>15. ASSUME NEW h \in Healer, InstallFails(h) PROVE Goal
  <2>1. pc[h] = "moved" /\ pc'[h] = "rollback"
    BY ONLY <1>15, <1>d DEF InstallFails, Goto
  <2>2. /\ holder = h /\ SizeReadAt(h) /\ WeighedAt(h) /\ KeptAt(h)
        /\ pc[h] \notin Aside => Len(preswap) <= Keep + crashes
    BY ONLY <1>o, <2>1
  <2>3. holder' = holder /\ UNCHANGED <<preswap, crashes>>
    BY ONLY <1>15 DEF InstallFails, bounds
  <2>s. SizeReadAt(h)'
    BY ONLY <2>1 DEF SizeReadAt, Before, BeforeSwap
  <2>w. WeighedAt(h)'
    BY ONLY <2>1 DEF WeighedAt, Gated
  <2>k. KeptAt(h)' /\ (pc'[h] \notin Aside => Len(preswap') <= Keep + crashes')
    BY ONLY <2>1, <2>2, <2>3 DEF KeptAt, Aside
  <2>c. CopyRemains'
    BY ONLY <2>1, <2>2, <2>3 DEF CopyRemains, KeptAt, Aside
  <2>q. QED
    BY ONLY <1>c, <2>1, <2>2, <2>3, <2>s, <2>w, <2>k, <2>c
<1>16. ASSUME NEW h \in Healer, Start(h) PROVE Goal
  <2>1. pc[h] = "installed" /\ pc'[h] = "started" /\ UNCHANGED <<files, live, tmp, holder, crashes>>
    BY ONLY <1>16, <1>d DEF Start, Goto, scratch, bounds
  <2>2. QED
    BY ONLY <1>s, <2>1 DEF Before, BeforeSwap, Gated, Aside
<1>17. ASSUME NEW h \in Healer, StartFails(h) PROVE Goal
  <2>1. pc[h] = "installed" /\ pc'[h] = "rollback" /\ UNCHANGED <<files, live, tmp, holder, crashes>>
    BY ONLY <1>17, <1>d DEF StartFails, Goto, scratch, bounds
  <2>2. QED
    BY ONLY <1>s, <2>1 DEF Before, BeforeSwap, Gated, Aside
<1>18. ASSUME NEW h \in Healer, Ready(h) PROVE Goal
  <2>1. Len(preswap') <= Keep /\ (preswap # << >> => preswap' # << >>)
    BY ONLY <1>18, <1>d, RotatedLength DEF Ready
  <2>2. Release(h) /\ UNCHANGED <<present, crashes>>
    BY ONLY <1>18 DEF Ready, bounds
  <2>3. preswap' \in Seq(Database)
    BY ONLY <1>t DEF TypeOK
  <2>4. Len(preswap') \in Nat
    BY ONLY <2>3, LenProperties
  <2>5. Len(preswap') <= Keep + crashes'
    BY ONLY <1>m, <2>1, <2>2, <2>4
  <2>6. QED
    BY ONLY <1>k, <2>1, <2>2, <2>5
<1>19. ASSUME NEW h \in Healer, NotReady(h) PROVE Goal
  <2>1. pc[h] = "started" /\ pc'[h] = "rollback" /\ UNCHANGED <<files, live, tmp, holder, crashes>>
    BY ONLY <1>19, <1>d DEF NotReady, Goto, scratch, bounds
  <2>2. QED
    BY ONLY <1>s, <2>1 DEF Before, BeforeSwap, Gated, Aside
<1>20. ASSUME NEW h \in Healer, RollbackStop(h) PROVE Goal
  <2>1. pc[h] = "rollback" /\ pc'[h] = "rbstopped" /\ UNCHANGED <<files, live, tmp, holder, crashes>>
    BY ONLY <1>20, <1>d DEF RollbackStop, Goto, scratch, bounds
  <2>2. QED
    BY ONLY <1>s, <2>1 DEF Before, BeforeSwap, Gated, Aside
<1>21. ASSUME NEW h \in Healer, RollbackRemove(h) PROVE Goal
  <2>1. pc[h] = "rbstopped" /\ pc'[h] = "rbremoved"
    BY ONLY <1>21, <1>d DEF RollbackRemove, Goto
  <2>2. /\ holder = h /\ SizeReadAt(h) /\ WeighedAt(h) /\ KeptAt(h)
        /\ pc[h] \notin Aside => Len(preswap) <= Keep + crashes
    BY ONLY <1>o, <2>1
  <2>3. holder' = holder /\ UNCHANGED <<preswap, crashes>>
    BY ONLY <1>21 DEF RollbackRemove, bounds
  <2>s. SizeReadAt(h)'
    BY ONLY <2>1 DEF SizeReadAt, Before, BeforeSwap
  <2>w. WeighedAt(h)'
    BY ONLY <2>1 DEF WeighedAt, Gated
  <2>k. KeptAt(h)' /\ (pc'[h] \notin Aside => Len(preswap') <= Keep + crashes')
    BY ONLY <2>1, <2>2, <2>3 DEF KeptAt, Aside
  <2>c. CopyRemains'
    BY ONLY <2>1, <2>2, <2>3 DEF CopyRemains, KeptAt, Aside
  <2>q. QED
    BY ONLY <1>c, <2>1, <2>2, <2>3, <2>s, <2>w, <2>k, <2>c
<1>22. ASSUME NEW h \in Healer, RollbackRestore(h) PROVE Goal
  <2>1. pc[h] = "rbremoved" /\ pc'[h] = "rbrestored"
    BY ONLY <1>22, <1>d DEF RollbackRestore, Goto
  <2>2. /\ holder = h /\ SizeReadAt(h) /\ WeighedAt(h) /\ KeptAt(h)
        /\ pc[h] \notin Aside => Len(preswap) <= Keep + crashes
    BY ONLY <1>o, <2>1
  <2>3. /\ holder' = holder /\ UNCHANGED <<crashes>> /\ present'
        /\ preswap # << >> /\ preswap' = Tail(preswap)
    BY ONLY <1>22 DEF RollbackRestore, bounds
  <2>4. Len(preswap') = Len(preswap) - 1
    BY ONLY <2>3, <1>d, HeadTailProperties
  <2>5. Len(preswap) <= Keep + crashes + 1
    BY ONLY <2>1, <2>2 DEF KeptAt, Aside
  <2>6. Len(preswap') <= Keep + crashes'
    BY ONLY <1>m, <2>3, <2>4, <2>5
  <2>s. SizeReadAt(h)'
    BY ONLY <2>1 DEF SizeReadAt, Before, BeforeSwap
  <2>w. WeighedAt(h)'
    BY ONLY <2>1 DEF WeighedAt, Gated
  <2>k. KeptAt(h)' /\ (pc'[h] \notin Aside => Len(preswap') <= Keep + crashes')
    BY ONLY <2>1, <2>6 DEF KeptAt, Aside
  <2>c. CopyRemains'
    BY ONLY <2>3 DEF CopyRemains
  <2>q. QED
    BY ONLY <1>c, <2>1, <2>2, <2>3, <2>s, <2>w, <2>k, <2>c
<1>23. ASSUME NEW h \in Healer, RollbackStart(h) PROVE Goal
  <2>1. pc[h] \in {"rbrestored"} /\ Release(h) /\ UNCHANGED <<present, preswap, crashes>>
    BY ONLY <1>23 DEF RollbackStart, files, bounds
  <2>2. QED
    BY ONLY <1>l, <2>1 DEF Aside
<1>24. ASSUME NEW h \in Healer, Kill(h) PROVE Goal
  <2>1. /\ pc[h] # "idle" /\ crashes' = crashes + 1
        /\ Release(h) /\ UNCHANGED <<present, preswap>>
    BY ONLY <1>24 DEF Kill, files
  <2>2. \/ Len(preswap) <= Keep + crashes
        \/ Len(preswap) <= Keep + crashes + 1
    BY ONLY <1>o, <2>1 DEF KeptAt
  <2>3. Len(preswap') <= Keep + crashes'
    BY ONLY <1>m, <2>1, <2>2
  <2>4. QED
    BY ONLY <1>k, <2>1, <2>3
<1>25. ASSUME NEW w \in Write, Commit(w) PROVE Goal
  BY ONLY <1>e, <1>25 DEF Commit, scratch, bounds
<1>26. ASSUME EditRoots PROVE Goal
  BY ONLY <1>e, <1>26 DEF EditRoots, scratch, bounds
<1>27. ASSUME AutoCheckpoint PROVE Goal
  <2>1. db'.caps = db.caps
    BY ONLY <1>27, <1>d DEF AutoCheckpoint, Database
  <2>2. QED
    BY ONLY <1>e, <1>27, <2>1 DEF AutoCheckpoint, scratch, bounds
<1>28. ASSUME WatchdogProbe PROVE Goal
  BY ONLY <1>e, <1>28 DEF WatchdogProbe, files, scratch, bounds
<1>29. ASSUME WatchdogStart PROVE Goal
  BY ONLY <1>e, <1>29 DEF WatchdogStart, scratch, bounds
<1>30. ASSUME UNCHANGED vars PROVE Goal
  BY ONLY <1>e, <1>30 DEF vars
<1>q. QED
  BY <1>1, <1>2, <1>3, <1>4, <1>5, <1>6, <1>7, <1>8, <1>8o, <1>9, <1>10, <1>11,
     <1>12, <1>13, <1>14, <1>15, <1>16, <1>17, <1>18, <1>19, <1>20,
     <1>21, <1>22, <1>23, <1>24, <1>25, <1>26, <1>27, <1>28, <1>29,
     <1>30
  DEF Next, Heal

\* They hold initially.
LEMMA SwapInit ==
  ASSUME Init
  PROVE  SwapInv
<1>1. TypeOK /\ OneHeal
  BY HealInit DEF HealInv
<1>2. Len(preswap) = 0
  BY EmptySeq DEF Init
<1>3. SizeRead /\ Weighed /\ CopyRemains
  BY DEF Init, SizeRead, SizeReadAt, Weighed, WeighedAt, CopyRemains, Before, Gated,
     BeforeSwap
<1>4. Kept
  BY <1>2, HealAssumption DEF Init, Kept, KeptAt, Aside
<1>5. QED
  BY <1>1, <1>3, <1>4 DEF SwapInv

\* The preswap files stay bounded by Keep, one heal and the kills, for any
\* number of invocations: rotation takes away all that earlier rollbacks and
\* kills left.
THEOREM SelfHealPreswapsBounded == Spec => []PreswapsBounded
<1>1. Init => SwapInv
  BY SwapInit
<1>2. SwapInv /\ [Next]_vars => SwapInv'
  BY TypeStep, OneHealStep, SwapStep DEF SwapInv
<1>3. SwapInv => PreswapsBounded
  <2> SUFFICES ASSUME SwapInv PROVE PreswapsBounded
    OBVIOUS
  <2>1. crashes \in Nat /\ Keep \in Nat /\ Len(preswap) \in Nat
    BY HealAssumption, LenProperties DEF SwapInv, TypeOK
  <2>2. \/ Len(preswap) <= Keep + crashes
        \/ holder # None /\ Len(preswap) <= Keep + crashes + 1
    BY DEF SwapInv, TypeOK, Kept, KeptAt
  <2>3. QED
    BY ONLY <2>1, <2>2 DEF PreswapsBounded
<1>4. QED
  BY <1>1, <1>2, <1>3, PTL DEF Spec

\* The database is at $DB or moved aside, wherever scripts are killed and
\* whatever the watchdog starts in between.
THEOREM SelfHealCopyRemains == Spec => []CopyRemains
<1>1. Init => SwapInv
  BY SwapInit
<1>2. SwapInv /\ [Next]_vars => SwapInv'
  BY TypeStep, OneHealStep, SwapStep DEF SwapInv
<1>3. SwapInv => CopyRemains
  BY DEF SwapInv
<1>4. QED
  BY <1>1, <1>2, <1>3, PTL DEF Spec

\* No swap installs an index below the floor or smaller than the healthy one
\* it moved aside, although the size of the latter was read before the
\* rebuild: with the lock held, nothing changes it.
THEOREM SelfHealNeverDegrades == Spec => NoDegradingInstall
<1> DEFINE Fair ==
      \A h \in Healer : Install(h) =>
        /\ Cardinality(db'.caps) >= MinHealthy
        /\ Cardinality(Head(preswap).caps) >= MinHealthy =>
             Cardinality(db'.caps) >= Cardinality(Head(preswap).caps)
<1>1. Init => SwapInv
  BY SwapInit
<1>2. SwapInv /\ [Next]_vars => SwapInv'
  BY TypeStep, OneHealStep, SwapStep DEF SwapInv
<1>3. SwapInv /\ [Next]_vars => [Fair]_vars
  <2>1. ASSUME SwapInv, NEW h \in Healer, Install(h)
        PROVE  /\ Cardinality(db'.caps) >= MinHealthy
               /\ Cardinality(Head(preswap).caps) >= MinHealthy =>
                    Cardinality(db'.caps) >= Cardinality(Head(preswap).caps)
    BY <2>1 DEF Install, Goto, SwapInv, Weighed, WeighedAt, Gated
  <2>2. QED
    BY <2>1
<1>4. QED
  BY <1>1, <1>2, <1>3, PTL DEF Spec, NoDegradingInstall

=============================================================================
