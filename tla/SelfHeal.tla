------------------------------ MODULE SelfHeal ------------------------------
(***************************************************************************)
(* ops/selfheal-reingest.sh: rebuild the index into a copy of the live     *)
(* database, then replace the live file by the copy with the workers       *)
(* stopped.  The script runs beside                                        *)
(*   - the worker pool and the capmesh CLI, which keep committing to the   *)
(*     live file while the copy is being rebuilt,                          *)
(*   - the WAL checkpoint timer of the server,                             *)
(*   - ops/health-watchdog.sh, which starts the workers when the service   *)
(*     does not answer, and                                                *)
(*   - other invocations of the script itself (refresh timer, deploy).     *)
(*                                                                         *)
(* A database is the set of its capabilities (a capability stands for its  *)
(* (uri, name, version) row) and the set of the writes committed to it.    *)
(* A write in Audited adds an audit_events row; one in Promotion also      *)
(* changes a uri, so the projection the skip test compares.                *)
(***************************************************************************)
EXTENDS Naturals, Sequences, FiniteSets

CONSTANTS
  Healer,      \* invocations of the script that may run at the same time
  Watchdog,    \* the one health-watchdog.sh makes
  Cap,         \* capability rows the default roots may yield
  Write,       \* governance and bookkeeping writes
  Audited,     \* those that append an audit event
  Promotion,   \* those that also change a uri
  Cli,         \* those made by the CLI, which no systemctl stops
  MinHealthy,  \* CAPMESH_MIN_HEALTHY
  Keep,        \* CAPMESH_PRESWAP_KEEP
  MaxHeals,    \* bound on invocations
  MaxCrashes,  \* bound on kills of the script
  ReadsMayFail,       \* may reading a watermark fail (sqlite3 ... || true)
  CheckpointMayFail,  \* may the final checkpoint fail (sqlite3 ... || true)
  None

ASSUME HealAssumption ==
  /\ Watchdog \in Healer /\ None \notin Healer
  /\ IsFiniteSet(Cap) /\ IsFiniteSet(Write)
  /\ Promotion \subseteq Audited /\ Audited \subseteq Write /\ Cli \subseteq Write
  /\ MinHealthy \in Nat /\ Keep \in Nat \ {0}
  /\ MaxHeals \in Nat /\ MaxCrashes \in Nat
  /\ ReadsMayFail \in BOOLEAN /\ CheckpointMayFail \in BOOLEAN
  /\ None \notin Nat

VARIABLES
  roots,    \* what the default roots hold
  present,  \* does the file $DB exist
  db,       \* its main file
  wal,      \* writes committed to it and still in $DB-wal
  preswap,  \* the $DB.preswap-* files, newest first
  workers,  \* is the pool running
  holder,   \* owner of the flock
  pc,       \* the script's position, per invocation
  live,     \* $live: capability count read at the start
  tmp,      \* $TMPDB, later $CANDIDATE
  mark,     \* $SNAP_AUDIT_WATERMARK, None when it could not be read
  vouched,  \* history: the audited writes a guard that compared has found in live
  unflushed,\* history: what the WAL kept when the last final checkpoint failed
  lost,     \* history: what rollbacks after a failed checkpoint did not bring back
  wd,       \* the watchdog's position
  issued,   \* writes made so far
  heals, crashes

vars == <<roots, present, db, wal, preswap, workers, holder, pc, live, tmp,
          mark, vouched, unflushed, lost, wd, issued, heals, crashes>>

Database == [caps : SUBSET Cap, writes : SUBSET Write, fresh : BOOLEAN]
Blank == [caps |-> {}, writes |-> {}, fresh |-> TRUE]

\* What a reader of $DB sees: the main file and the WAL beside it.
LiveWrites == db.writes \cup wal
Watermark(writes) == Cardinality(writes \cap Audited)
Projection(caps, writes) == <<caps, writes \cap Promotion>>
\* Ingest adds what the roots hold; merging sources may drop rows they orphan.
IngestResults(caps) == {r \in SUBSET (caps \cup roots) : roots \subseteq r}

BeforeSwap == {"locked", "snapped", "ingested", "verified", "compared"}
Steps == BeforeSwap \cup
  {"idle", "guarded", "stopped", "checkpointed", "moved", "installed",
   "started", "rollback", "rbstopped", "rbremoved", "rbrestored"}

Init ==
  /\ roots \in SUBSET Cap
  /\ present = TRUE
  /\ db \in [caps : SUBSET Cap, writes : {{}}, fresh : {FALSE}]
  /\ wal = {}
  /\ preswap = << >>
  /\ workers = "up"
  /\ holder = None
  /\ pc = [h \in Healer |-> "idle"]
  /\ live = [h \in Healer |-> 0]
  /\ tmp = [h \in Healer |-> Blank]
  /\ mark = [h \in Healer |-> 0]
  /\ vouched = {} /\ unflushed = {} /\ lost = {}
  /\ wd = "idle"
  /\ issued = {}
  /\ heals = 0
  /\ crashes = 0

files == <<present, db, wal, preswap>>
history == <<vouched, unflushed, lost>>
scratch == <<live, tmp, mark, history>>
bounds == <<heals, crashes>>

Goto(h, from, to) == pc[h] = from /\ pc' = [pc EXCEPT ![h] = to]

\* The script ends: its flock goes with its file descriptor, its temporary
\* files are removed.
Release(h) ==
  /\ pc' = [pc EXCEPT ![h] = "idle"]
  /\ holder' = None
  /\ live' = [live EXCEPT ![h] = 0]
  /\ tmp' = [tmp EXCEPT ![h] = Blank]
  /\ mark' = [mark EXCEPT ![h] = 0]
  /\ UNCHANGED history

----------------------------------------------------------------------------
(* The rebuild: everything up to the first change of a live file. *)

\* flock -n, then the live count.  Without the lock the script exits 0;
\* without a database it exits 1; neither changes anything.
Lock(h) ==
  /\ Goto(h, "idle", "locked")
  /\ holder = None /\ present
  /\ heals < MaxHeals
  /\ h = Watchdog => wd = "failed"
  /\ wd' = IF h = Watchdog THEN "healing" ELSE wd
  /\ holder' = h
  /\ live' = [live EXCEPT ![h] = Cardinality(db.caps)]
  /\ heals' = heals + 1
  /\ UNCHANGED <<roots, files, workers, tmp, mark, history, issued, crashes>>

\* .backup of the live database and the watermark as the copy has it.
Snapshot(h) ==
  /\ Goto(h, "locked", "snapped")
  /\ tmp' = [tmp EXCEPT ![h] = [db EXCEPT !.writes = LiveWrites]]
  /\ \/ mark' = [mark EXCEPT ![h] = Watermark(LiveWrites)]
     \/ ReadsMayFail /\ mark' = [mark EXCEPT ![h] = None]
  /\ UNCHANGED <<roots, files, workers, holder, live, history, wd, issued, bounds>>

Ingest(h) ==
  /\ Goto(h, "snapped", "ingested")
  /\ \E r \in IngestResults(tmp[h].caps) : tmp' = [tmp EXCEPT ![h].caps = r]
  /\ UNCHANGED <<roots, files, workers, holder, live, mark, history, wd, issued, bounds>>

\* Mutant: no shrink gate.
VerifyFloorOnly(h) ==
  /\ Goto(h, "ingested", "verified")
  /\ Cardinality(tmp[h].caps) >= MinHealthy
  /\ UNCHANGED <<roots, files, workers, holder, scratch, wd, issued, bounds>>

\* Mutant: the baseline watermark is read from live, after the rebuild.
VerifyTakesBaseline(h) ==
  /\ Goto(h, "ingested", "verified")
  /\ LET rebuilt == Cardinality(tmp[h].caps) IN
       /\ rebuilt >= MinHealthy
       /\ ~(rebuilt < live[h] /\ live[h] >= MinHealthy)
  /\ mark' = [mark EXCEPT ![h] = Watermark(LiveWrites)]
  /\ UNCHANGED <<roots, files, workers, holder, live, tmp, history, wd, issued, bounds>>

\* The floor and the shrink gate.
Verify(h) ==
  /\ Goto(h, "ingested", "verified")
  /\ LET rebuilt == Cardinality(tmp[h].caps) IN
       /\ rebuilt >= MinHealthy
       /\ ~(rebuilt < live[h] /\ live[h] >= MinHealthy)
  /\ UNCHANGED <<roots, files, workers, holder, scratch, wd, issued, bounds>>

\* Every abort before the swap: snapshot, ingest or its timeout, expected
\* count, integrity check, FTS parity, floor, shrink.
Abort(h) ==
  /\ pc[h] \in {"locked", "snapped", "ingested"}
  /\ Release(h)
  /\ UNCHANGED <<roots, files, workers, wd, issued, bounds>>

\* Skip-when-unchanged: same count, same non-empty projection.
Unchanged(h) ==
  /\ live[h] = Cardinality(tmp[h].caps)
  /\ db.caps # {} /\ tmp[h].caps # {}
  /\ Projection(db.caps, LiveWrites) = Projection(tmp[h].caps, tmp[h].writes)

SkipUnchanged(h) ==
  /\ pc[h] = "verified" /\ Unchanged(h)
  /\ Release(h)
  /\ UNCHANGED <<roots, files, workers, wd, issued, bounds>>

Changed(h) ==
  /\ Goto(h, "verified", "compared")
  /\ ~Unchanged(h)
  /\ UNCHANGED <<roots, files, workers, holder, scratch, wd, issued, bounds>>

\* Lost-write guard: live's watermark against the snapshot's.
Guard(h) ==
  /\ Goto(h, "compared", "guarded")
  /\ mark[h] = Watermark(LiveWrites)
  /\ vouched' = vouched \cup (LiveWrites \cap Audited)
  /\ UNCHANGED <<roots, files, workers, holder, live, tmp, mark, unflushed, lost, wd, issued, bounds>>

\* An unreadable watermark on either side switches the guard off.
GuardOff(h) ==
  /\ Goto(h, "compared", "guarded")
  /\ mark[h] = None \/ ReadsMayFail
  /\ UNCHANGED <<roots, files, workers, holder, scratch, wd, issued, bounds>>

SkipAdvanced(h) ==
  /\ pc[h] = "compared" /\ mark[h] \notin {None, Watermark(LiveWrites)}
  /\ Release(h)
  /\ UNCHANGED <<roots, files, workers, wd, issued, bounds>>

----------------------------------------------------------------------------
(* The swap. *)

Stop(h) ==
  /\ Goto(h, "guarded", "stopped")
  /\ workers' = "down"
  /\ UNCHANGED <<roots, files, holder, scratch, wd, issued, bounds>>

\* systemctl stop fails: set -e ends the script with the pool as it is.
StopFails(h) ==
  /\ pc[h] = "guarded"
  /\ workers' \in {"up", "down"}
  /\ Release(h)
  /\ UNCHANGED <<roots, files, wd, issued, bounds>>

\* PRAGMA wal_checkpoint(TRUNCATE) || true
Checkpoint(h) ==
  /\ Goto(h, "stopped", "checkpointed")
  /\ \/ db' = [db EXCEPT !.writes = LiveWrites] /\ wal' = {} /\ unflushed' = {}
     \/ CheckpointMayFail /\ unflushed' = wal /\ UNCHANGED <<db, wal>>
  /\ UNCHANGED <<roots, present, preswap, workers, holder, live, tmp, mark, vouched, lost,
                 wd, issued, bounds>>

\* mv "$DB" "$PRESWAP": the main file only.
MoveAside(h) ==
  /\ Goto(h, "checkpointed", "moved")
  /\ preswap' = <<db>> \o preswap
  /\ present' = FALSE /\ db' = Blank
  /\ UNCHANGED <<roots, wal, workers, holder, scratch, wd, issued, bounds>>

\* rm the sidecars, mv "$CANDIDATE" "$DB": over whatever file is there.
Install(h) ==
  /\ Goto(h, "moved", "installed")
  /\ present' = TRUE /\ db' = tmp[h] /\ wal' = {}
  /\ UNCHANGED <<roots, preswap, workers, holder, scratch, wd, issued, bounds>>

InstallFails(h) ==
  /\ Goto(h, "moved", "rollback")
  /\ wal' = {}
  /\ UNCHANGED <<roots, present, db, preswap, workers, holder, scratch, wd, issued, bounds>>

Start(h) ==
  /\ Goto(h, "installed", "started")
  /\ workers' = "up"
  /\ UNCHANGED <<roots, files, holder, scratch, wd, issued, bounds>>

StartFails(h) ==
  /\ Goto(h, "installed", "rollback")
  /\ workers' \in {workers, "up"}
  /\ UNCHANGED <<roots, files, holder, scratch, wd, issued, bounds>>

\* Mutant: no rotation.
ReadyWithoutRotation(h) ==
  /\ pc[h] = "started"
  /\ Release(h)
  /\ UNCHANGED <<roots, files, workers, wd, issued, bounds>>

\* The service answers "ready": keep the newest Keep preswap files.
Ready(h) ==
  /\ pc[h] = "started"
  /\ preswap' = SubSeq(preswap, 1, IF Len(preswap) < Keep THEN Len(preswap) ELSE Keep)
  /\ Release(h)
  /\ UNCHANGED <<roots, present, db, wal, workers, wd, issued, bounds>>

NotReady(h) ==
  /\ Goto(h, "started", "rollback")
  /\ UNCHANGED <<roots, files, workers, holder, scratch, wd, issued, bounds>>

----------------------------------------------------------------------------
(* cleanup() with ROLLBACK_REQUIRED=1; its systemctl calls are "|| true".  *)

RollbackStop(h) ==
  /\ Goto(h, "rollback", "rbstopped")
  /\ workers' \in {workers, "down"}
  /\ UNCHANGED <<roots, files, holder, scratch, wd, issued, bounds>>

\* Mutant: rm -f "$DB"* also matches the preswap files.
RollbackRemoveGlob(h) ==
  /\ Goto(h, "rbstopped", "rbremoved")
  /\ present' = FALSE /\ db' = Blank /\ wal' = {} /\ preswap' = << >>
  /\ UNCHANGED <<roots, workers, holder, scratch, wd, issued, bounds>>

RollbackRemove(h) ==
  /\ Goto(h, "rbstopped", "rbremoved")
  /\ present' = FALSE /\ db' = Blank /\ wal' = {}
  /\ UNCHANGED <<roots, preswap, workers, holder, scratch, wd, issued, bounds>>

\* mv "$PRESWAP" "$DB"
RollbackRestore(h) ==
  /\ Goto(h, "rbremoved", "rbrestored")
  /\ preswap # << >>
  /\ present' = TRUE /\ db' = Head(preswap)
  /\ preswap' = Tail(preswap)
  /\ lost' = lost \cup unflushed
  /\ UNCHANGED <<roots, wal, workers, holder, live, tmp, mark, vouched, unflushed,
                 wd, issued, bounds>>

RollbackStart(h) ==
  /\ pc[h] = "rbrestored"
  /\ workers' \in {workers, "up"}
  /\ Release(h)
  /\ UNCHANGED <<roots, files, wd, issued, bounds>>

\* The script is killed: no trap runs, the kernel drops the flock, the
\* files and the pool stay as they are.
Kill(h) ==
  /\ pc[h] # "idle" /\ crashes < MaxCrashes
  /\ crashes' = crashes + 1
  /\ Release(h)
  /\ UNCHANGED <<roots, files, workers, wd, issued, heals>>

----------------------------------------------------------------------------
(* The script's environment. *)

EditRoots ==
  /\ roots' \in SUBSET Cap
  /\ UNCHANGED <<present, db, wal, preswap, workers, holder, pc, scratch, wd, issued, bounds>>

\* A worker request or a CLI command commits to the file at $DB.
Commit(w) ==
  /\ w \notin issued /\ present
  /\ w \notin Cli => workers = "up"
  /\ wal' = wal \cup {w}
  /\ issued' = issued \cup {w}
  /\ UNCHANGED <<roots, present, db, preswap, workers, holder, pc, scratch, wd, bounds>>

\* The server's checkpoint thread, or the last connection closing.
AutoCheckpoint ==
  /\ present /\ wal # {}
  /\ db' = [db EXCEPT !.writes = LiveWrites] /\ wal' = {}
  /\ UNCHANGED <<roots, present, preswap, workers, holder, pc, scratch, wd, issued, bounds>>

Healthy == workers = "up" /\ present /\ Cardinality(db.caps) >= MinHealthy

\* Both probes fail.  They also fail on a stale ingest audit file, a slow
\* answer or a failed quick_check, so a probe may fail at any time.
WatchdogProbe ==
  /\ wd = "idle"
  /\ wd' = "failed"
  /\ UNCHANGED <<roots, files, workers, holder, pc, scratch, issued, bounds>>

\* Mutant: without "|| true", a heal that could not run ends the watchdog.
WatchdogStartAfterHeal ==
  /\ pc[Watchdog] = "idle" /\ wd = "healing"
  /\ wd' = "idle" /\ workers' = "up" /\ present' = TRUE
  /\ db' = IF present THEN db ELSE Blank
  /\ wal' = IF present THEN wal ELSE {}
  /\ UNCHANGED <<roots, preswap, holder, pc, scratch, issued, bounds>>

\* selfheal-reingest.sh || true has returned, or returned at once because
\* another heal runs or there is no database (or it may not run any more:
\* MaxHeals); then systemctl start.  A server that finds no file creates one.
WatchdogStart ==
  /\ pc[Watchdog] = "idle"
  /\ \/ wd = "healing"
     \/ wd = "failed" /\ (holder # None \/ ~present \/ heals = MaxHeals)
  /\ wd' = "idle"
  /\ workers' = "up"
  /\ present' = TRUE
  /\ db' = IF present THEN db ELSE Blank
  /\ wal' = IF present THEN wal ELSE {}
  /\ UNCHANGED <<roots, preswap, holder, pc, scratch, issued, bounds>>

Heal(h) ==
  \/ Lock(h) \/ Snapshot(h) \/ Ingest(h) \/ Verify(h) \/ Abort(h)
  \/ SkipUnchanged(h) \/ Changed(h) \/ Guard(h) \/ GuardOff(h)
  \/ SkipAdvanced(h)
  \/ Stop(h) \/ StopFails(h) \/ Checkpoint(h) \/ MoveAside(h) \/ Install(h)
  \/ InstallFails(h) \/ Start(h) \/ StartFails(h) \/ Ready(h) \/ NotReady(h)
  \/ RollbackStop(h) \/ RollbackRemove(h) \/ RollbackRestore(h) \/ RollbackStart(h)

Next ==
  \/ \E h \in Healer : Heal(h) \/ Kill(h)
  \/ EditRoots
  \/ \E w \in Write : Commit(w)
  \/ AutoCheckpoint
  \/ WatchdogProbe \/ WatchdogStart

Spec == Init /\ [][Next]_vars

\* A running script goes on; the watchdog's timer fires again and again and
\* its probe fails on an unhealthy service, and the heal it asks for runs
\* when the lock is free.  Nothing is assumed of
\* the refresh timer, the writers, the checkpoints or the roots.
HealStep(h) == pc[h] # "idle" /\ Heal(h)

Fairness ==
  /\ \A h \in Healer : WF_vars(HealStep(h))
  /\ WF_vars(Lock(Watchdog))
  /\ WF_vars(~Healthy /\ WatchdogProbe)
  /\ WF_vars(WatchdogStart)

FairSpec == Spec /\ Fairness

----------------------------------------------------------------------------
(* Properties *)

\* The type of every variable.
TypeOK ==
  /\ roots \in SUBSET Cap
  /\ present \in BOOLEAN
  /\ db \in Database
  /\ wal \in SUBSET Write
  /\ preswap \in Seq(Database)
  /\ workers \in {"up", "down"}
  /\ holder \in Healer \cup {None}
  /\ pc \in [Healer -> Steps]
  /\ live \in [Healer -> Nat]
  /\ tmp \in [Healer -> Database]
  /\ mark \in [Healer -> Nat \cup {None}]
  /\ vouched \in SUBSET Audited /\ unflushed \in SUBSET Write /\ lost \in SUBSET Write
  /\ wd \in {"idle", "failed", "healing"}
  /\ issued \in SUBSET Write
  /\ heals \in Nat /\ crashes \in Nat

\* Once the lost-write guard has found an audited write in the live
\* database, every database the service is given afterwards has it: the
\* candidate, the one a rollback restores, whatever steps of writers,
\* checkpoints, watchdog and kills come in between, and also across swaps
\* whose own guard was switched off by an unreadable watermark.  What is lost
\* is only what was still in the WAL at a final checkpoint that failed (both
\* calls are "|| true"), and only when that very swap is rolled back.
\* (A file the server created from nothing after a kill, and what is rebuilt
\* from it, is the one exception: see RebuildsFromKeptDatabase.)
VouchedWritesSurvive == present /\ ~db.fresh => vouched \ lost \subseteq LiveWrites

\* A swap never installs an index below the floor, nor a smaller one than
\* the healthy index it moved aside ("never make things worse").
NoDegradingInstall ==
  [][\A h \in Healer : Install(h) =>
       /\ Cardinality(db'.caps) >= MinHealthy
       /\ Cardinality(Head(preswap).caps) >= MinHealthy =>
            Cardinality(db'.caps) >= Cardinality(Head(preswap).caps)]_vars

\* The preswap files cannot fill the disk: Keep of them between heals, one
\* more while a heal runs and one for every kill that left its file behind.
PreswapsBounded ==
  Len(preswap) <= Keep + crashes + (IF holder = None THEN 0 ELSE 1)

\* Wherever the script is killed, the database is at $DB or the file it was
\* moved to still exists.
CopyRemains == present \/ preswap # << >>

\* A stopped pool comes back: after a failed stop or start, a rollback whose
\* start failed, or a kill between the stop and the start.
WorkersComeBack == workers = "down" ~> workers = "up"

\* selfheal-reingest.sh:163-164: "the swap step re-reads live and refuses to
\* clobber it if it has advanced".
SwapLosesNoAuditedWrite ==
  [][\A h \in Healer : MoveAside(h) => LiveWrites \cap Audited \subseteq tmp[h].writes]_vars

\* selfheal-reingest.sh:19-20: "Build into a TEMP COPY of the live DB (not a
\* fresh file) so capmesh_draft rows and governance state survive".
RebuildsFromKeptDatabase == \A h \in Healer : pc[h] = "snapped" => ~tmp[h].fresh

----------------------------------------------------------------------------
(* What makes VouchedWritesSurvive inductive. *)

\* Only the owner of the flock is past Lock.
OneHeal == \A h \in Healer : pc[h] # "idle" <=> holder = h

Snapped == {"snapped", "ingested", "verified", "compared"}
Aside == {"moved", "installed", "started", "rollback", "rbstopped", "rbremoved"}

\* Until the database is moved aside it stays at $DB and only grows, so the
\* copy holds no write that live does not hold, the watermark is its own, and
\* what is vouched for is still what it was when the copy was made.
CopyOfLiveAt(h) ==
  /\ pc[h] \in BeforeSwap \cup {"guarded", "stopped", "checkpointed"} => present
  /\ pc[h] \in Snapped =>
       /\ tmp[h].writes \subseteq LiveWrites
       /\ tmp[h].fresh = db.fresh
       /\ mark[h] \in {None, Watermark(tmp[h].writes)}
CopyOfLive == \A h \in Healer : CopyOfLiveAt(h)

\* From the snapshot to the install the candidate has every vouched write; so
\* have, but for what a failed checkpoint left in the WAL, the main file once
\* checkpointed and then the file it was moved to.
VouchedKeptAt(h) ==
  /\ pc[h] \in Snapped \cup {"guarded", "stopped", "checkpointed", "moved"} /\ ~tmp[h].fresh
       => vouched \ lost \subseteq tmp[h].writes
  /\ pc[h] = "checkpointed" /\ ~db.fresh => vouched \ lost \subseteq db.writes \cup unflushed
  /\ pc[h] \in Aside =>
       /\ preswap # << >>
       /\ ~Head(preswap).fresh => vouched \ lost \subseteq Head(preswap).writes \cup unflushed
  /\ pc[h] = "moved" => db.fresh
VouchedKept == \A h \in Healer : VouchedKeptAt(h)

HealInv == TypeOK /\ OneHeal /\ CopyOfLive /\ VouchedKept /\ VouchedWritesSurvive
=============================================================================
