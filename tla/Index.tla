------------------------------- MODULE Index -------------------------------
(***************************************************************************)
(* The catalog database as a file: the merge ingest of the source roots,   *)
(* the staged rebuild of a full replacement beside it, and the promotion   *)
(* of that candidate over the live file.  Governance of a single row, its  *)
(* quarantine and its approval are in Catalog; here a row is the text it   *)
(* was read from, the source files that own it and its semantic vector.    *)
(***************************************************************************)
EXTENDS Naturals, FiniteSets, SequencesExt

CONSTANTS
  Path,          \* capability source files
  Content,       \* texts a file may hold
  UriOrder,      \* the URIs, sorted
  PathPos,       \* the position of each path in the sorted walk
  KeyOf, UriOf,  \* for each path, the key and URI each text it may hold declares
  NameOf, RootOf, RankOf, \* plugin/name, package root, authority of a path
  Draft,         \* drafts written by the service
  MaxMisses,     \* consecutive embedding failures that end a run's vectors
  MaxEdits, MaxMade, MaxRollbacks, \* bounds: edits of the roots, standing
                                   \* acknowledged writes, promotions
  InitDisks,     \* the roots as a deployment may first hold them
  None

VARIABLES
  disk,       \* the source roots
  live,       \* the database at the live path
  cand,       \* the staged candidate file, or None
  rollbacks,  \* the pre-rebuild copies promotions left
  ingest,     \* the command-line ingest process
  promoting,  \* how far the running promotion is
  up,         \* whether the worker pool runs
  made,       \* history: shares and drafts acknowledged and not withdrawn
  edits       \* edits of the roots so far

vars == <<disk, live, cand, rollbacks, ingest, promoting, up, made, edits>>

Uri == {UriOrder[i] : i \in DOMAIN UriOrder}

\* Walks and authorities order the files; what a file declares follows from its
\* text; and the embedding outage threshold is positive.
ASSUME IndexAssumption ==
  /\ IsFiniteSet(Path) /\ None \notin Content
  /\ PathPos \in [Path -> Nat] /\ RankOf \in [Path -> Nat]
  /\ \A p, q \in Path : PathPos[p] = PathPos[q] => p = q
  /\ \A p \in Path : /\ DOMAIN UriOf[p] \subseteq Content
                     /\ \A c \in DOMAIN UriOf[p] : UriOf[p][c] \in Uri
  /\ \A p, q \in Path : \A c \in DOMAIN UriOf[p], d \in DOMAIN UriOf[q] :
       KeyOf[p][c] = KeyOf[q][d] => UriOf[p][c] = UriOf[q][d]
  /\ \A files \in InitDisks :
       files = [p \in Path |-> files[p]] /\ \A p \in Path : files[p] \in DOMAIN UriOf[p] \cup {None}
  /\ MaxMisses \in Nat \ {0}

-----------------------------------------------------------------------------
(* Discovery and the two merges *)

Before(a, b) == \/ RankOf[a.src] > RankOf[b.src]
                \/ /\ RankOf[a.src] = RankOf[b.src]
                   /\ PathPos[a.src] < PathPos[b.src]

\* The highest authority of a group, owning every source of the group.
Winner(group) ==
  [(CHOOSE a \in group : \A b \in group \ {a} : Before(a, b))
     EXCEPT !.srcs = UNION {c.srcs : c \in group}]

ParseText(p, text) == [src |-> p, text |-> text, srcs |-> {p},
                       key |-> KeyOf[p][text], uri |-> UriOf[p][text]]

MergeDuplicates(caps) ==
  {Winner({c \in caps : c.key = k}) : k \in {c.key : c \in caps}}

Discover(files) ==
  MergeDuplicates({ParseText(p, files[p]) : p \in {q \in Path : files[q] # None}})

MergeByEffectiveUri(caps) ==
  {Winner({c \in caps : c.uri = u}) : u \in {c.uri : c \in caps}}

-----------------------------------------------------------------------------
(* Admission: one root per (plugin, name) *)

\* discover_capabilities returns the batch sorted by URI; the sort is stable,
\* and equal URIs keep the order their first files were walked in.
Earlier(a, b) ==
  LET at(u) == SelectInSeq(UriOrder, LAMBDA v : v = u)
  IN  \/ at(a.uri) < at(b.uri)
      \/ a.uri = b.uri /\ \E p \in a.srcs : \A q \in b.srcs : PathPos[p] < PathPos[q]

Rivals(p, srcs) == {q \in srcs : NameOf[q] = NameOf[p] /\ RootOf[q] # RootOf[p]}

\* A copy is admitted over rivals it all outranks, and dropped for a rival that
\* outranks it; otherwise a rival of its own rank aborts the run.
NotDuplicate(p, srcs) == \A q \in Rivals(p, srcs) : RankOf[p] > RankOf[q]

Superseded(p, srcs) == \E q \in Rivals(p, srcs) : RankOf[p] < RankOf[q]

\* `admitted` is a verdict _enforce_install_guards can return for the batch.
InstallGuards(db, batch, admitted) ==
  \A c \in batch :
    LET rows == {db.rows[u].src : u \in DOMAIN db.rows}
                  \cup {a.src : a \in {b \in admitted : Earlier(b, c)}}
    IN  IF c \in admitted THEN NotDuplicate(c.src, rows)
                          ELSE Superseded(c.src, rows)

-----------------------------------------------------------------------------
(* Writing a batch into a database *)

NoRow == [src |-> None, text |-> None, srcs |-> {}, vec |-> None]

RowAt(rows, u) == IF u \in DOMAIN rows THEN rows[u] ELSE NoRow

\* Mutant: a source stays with its earlier row when it moves to another.
UpsertBeside(rows, caps, vec) ==
  [u \in DOMAIN rows \cup {c.uri : c \in caps} |->
     IF \E c \in caps : c.uri = u
       THEN LET c == CHOOSE c \in caps : c.uri = u
            IN  [src |-> c.src, text |-> c.text, srcs |-> c.srcs, vec |-> vec[u]]
       ELSE rows[u]]

\* upsert_capability for each of caps: their sources are disjoint, and a path
\* belongs to one row, so writing them takes their sources from the others.
UpsertCapability(rows, caps, vec) ==
  [u \in DOMAIN rows \cup {c.uri : c \in caps} |->
     IF \E c \in caps : c.uri = u
       THEN LET c == CHOOSE c \in caps : c.uri = u
            IN  [src |-> c.src, text |-> c.text, srcs |-> c.srcs, vec |-> vec[u]]
       ELSE [rows[u] EXCEPT !.srcs = @ \ UNION {c.srcs : c \in caps}]]

\* Mutant: the earlier vector is deleted only when there is a new one.
UpsertVectorInPlace(row, c, answers) == IF answers THEN c.text ELSE row.vec

\* The vector after an attempt: kept when the text is the one it was made of,
\* deleted before the embedding call and written only when that answers.
UpsertVector(row, c, answers) ==
  IF row.text = c.text /\ row.vec # None THEN row.vec
  ELSE IF answers THEN c.text ELSE None

\* Where the loop of _upsert_discovered takes the embedding backend to be down:
\* MaxMisses capabilities in a row whose attempt leaves no vector.  embeds is
\* the set of URIs whose embedding call answers in this run.
Outages(rows, caps, embeds) ==
  {W \in SUBSET caps :
     /\ Cardinality(W) = MaxMisses
     /\ \A c \in W : UpsertVector(RowAt(rows, c.uri), c, c.uri \in embeds) = None
     /\ \A a, b \in W, c \in caps \ W : ~(Earlier(a, c) /\ Earlier(c, b))}

\* The loop: a capability is attempted unless the run gave up before it.
UpsertDiscovered(rows, batch, embeds) ==
  LET caps == MergeByEffectiveUri(batch)
      down == Outages(rows, caps, embeds)
      vec  == [u \in {c.uri : c \in caps} |->
                 LET c == CHOOSE c \in caps : c.uri = u IN
                 IF \E W \in down : \A a \in W : Earlier(a, c)
                   THEN RowAt(rows, u).vec
                   ELSE UpsertVector(RowAt(rows, u), c, u \in embeds)]
  IN  [rows |-> UpsertCapability(rows, caps, vec), aborted |-> down # {}]

Orphans(rows) == {u \in DOMAIN rows : rows[u].srcs = {}}

\* Mutant: rows without a source are left to a later cleanup.
DeleteOrphansLater(rows) == rows

DeleteOrphans(rows) == [u \in DOMAIN rows \ Orphans(rows) |-> rows[u]]

\* Shares, pending promotions and relationships naming an identity that is
\* about to be retired: the whole transaction fails.
Stranded(db, rows) == db.shares \cap Orphans(rows) # {}

Written(db, run) ==
  [db EXCEPT !.rows = DeleteOrphans(run.rows), !.aborted = @ \/ run.aborted]

-----------------------------------------------------------------------------
(* Sources, workers, and the merge ingest of the command line *)

NoIngest == [at |-> "idle", batch |-> {}, detached |-> FALSE]

Init ==
  /\ disk \in InitDisks
  /\ live = [rows |-> << >>, drafts |-> {}, shares |-> {}, aborted |-> FALSE]
  /\ cand = None
  /\ rollbacks = << >>
  /\ ingest = NoIngest
  /\ promoting = "idle"
  /\ up = TRUE
  /\ made = {}
  /\ edits = 0

\* A run reads the roots at one point, so an edit during a run is the same as
\* one before or after it.
EditSource(p, text) ==
  /\ edits < MaxEdits
  /\ ingest.at = "idle" /\ promoting = "idle"
  /\ disk[p] # text
  /\ disk' = [disk EXCEPT ![p] = text]
  /\ edits' = edits + 1
  /\ UNCHANGED <<live, cand, rollbacks, ingest, promoting, up, made>>

WriteDraft(d) ==
  /\ up
  /\ d \notin live.drafts
  /\ Cardinality(made) < MaxMade
  /\ live' = [live EXCEPT !.drafts = @ \cup {d}]
  /\ made' = made \cup {d}
  /\ UNCHANGED <<disk, cand, rollbacks, ingest, promoting, up, edits>>

Share(u) ==
  /\ up
  /\ u \in (DOMAIN live.rows \cup live.drafts) \ live.shares
  /\ Cardinality(made) < MaxMade
  /\ live' = [live EXCEPT !.shares = @ \cup {u}]
  /\ made' = made \cup {<<"share", u>>}
  /\ UNCHANGED <<disk, cand, rollbacks, ingest, promoting, up, edits>>

Unshare(u) ==
  /\ up
  /\ u \in live.shares
  /\ live' = [live EXCEPT !.shares = @ \ {u}]
  /\ made' = made \ {<<"share", u>>}
  /\ UNCHANGED <<disk, cand, rollbacks, ingest, promoting, up, edits>>

Drain ==
  /\ up
  /\ up' = FALSE
  /\ UNCHANGED <<disk, live, cand, rollbacks, ingest, promoting, made, edits>>

\* The operator starts the pool when no promotion is running: one that ended,
\* failed or was killed.
StartWorkers ==
  /\ ~up
  /\ promoting = "idle"
  /\ up' = TRUE
  /\ UNCHANGED <<disk, live, cand, rollbacks, ingest, promoting, made, edits>>

\* connect, discover, admission guards: the database stays open.
IngestOpen(admitted) ==
  /\ ingest.at = "idle"
  /\ admitted # {}
  /\ InstallGuards(live, Discover(disk), admitted)
  /\ ingest' = [at |-> "open", batch |-> admitted, detached |-> FALSE]
  /\ UNCHANGED <<disk, live, cand, rollbacks, promoting, up, made, edits>>

\* BEGIN IMMEDIATE .. commit.  What a process commits to a file that has been
\* replaced under it is gone with that file.
IngestCommit(embeds) ==
  LET run == UpsertDiscovered(live.rows, ingest.batch, embeds) IN
  /\ ingest.at = "open"
  /\ IF ingest.detached \/ Stranded(live, run.rows)
       THEN ingest' = NoIngest /\ UNCHANGED live
       ELSE ingest' = [ingest EXCEPT !.at = "written"] /\ live' = Written(live, run)
  /\ UNCHANGED <<disk, cand, rollbacks, promoting, up, made, edits>>

Healed(rows, embeds) ==
  [u \in DOMAIN rows |->
     IF rows[u].vec = None /\ u \in embeds
       THEN [rows[u] EXCEPT !.vec = rows[u].text] ELSE rows[u]]

\* The missing vectors are made again from the indexed text; then the close.
IngestHeal(embeds) ==
  /\ ingest.at = "written"
  /\ ingest' = NoIngest
  /\ live' = IF ingest.detached THEN live ELSE [live EXCEPT !.rows = Healed(@, embeds)]
  /\ UNCHANGED <<disk, cand, rollbacks, promoting, up, made, edits>>

IngestKilled ==
  /\ ingest.at # "idle"
  /\ ingest' = NoIngest
  /\ UNCHANGED <<disk, live, cand, rollbacks, promoting, up, made, edits>>

-----------------------------------------------------------------------------
(* The staged rebuild *)

\* The files of capabilities that the admission guards would drop for a higher
\* authority; the copies they would have admitted before are rows by then.
Excused(rows, files) ==
  {c.src : c \in {b \in Discover(files) :
                    Superseded(b.src, {rows[u].src : u \in DOMAIN rows})}}

\* Every other discovered file is indexed, and so the key of its capability is
\* a row's or was merged into one.
Covered(rows, files) ==
  {p \in Path : files[p] # None} \ Excused(rows, files)
    \subseteq UNION {rows[u].srcs : u \in DOMAIN rows}

\* validate_candidate_database: no row without a source, no governance
\* reference without a row, and the sources of the given roots all indexed.
Validated(db, files) ==
  /\ Orphans(db.rows) = {}
  /\ db.shares \subseteq DOMAIN db.rows \cup db.drafts
  /\ Covered(db.rows, files)

Rebuilt(embeds) == UpsertDiscovered(<< >>, Discover(disk), embeds)

\* The candidate starts as a copy of the live database, keeps its drafts and
\* governance tables, and has every other row written anew.  The manifest must
\* approve exactly the identities that disappear, so that is what a run that
\* does not fail was given.  Any failure unlinks the candidate.
\* One candidate at a time: the bound on staged files.
Stage(embeds) ==
  LET run == Rebuilt(embeds)
      db  == [live EXCEPT !.rows = DeleteOrphans(run.rows), !.aborted = FALSE]
  IN
  /\ cand = None
  /\ ~run.aborted
  /\ Validated(db, disk)
  /\ cand' = db
  /\ UNCHANGED <<disk, live, rollbacks, ingest, promoting, up, made, edits>>

-----------------------------------------------------------------------------
(* The promotion *)

NoFiles == [p \in Path |-> None]

\* The operator says the pool is drained and no other process has the file open.
NoHolders == ~up /\ ingest.at = "idle"

\* Mutant: nobody asks who has the live file open.
PromoteCheckLate ==
  /\ promoting = "idle"
  /\ cand # None
  /\ Len(rollbacks) < MaxRollbacks
  /\ Validated(cand, NoFiles)
  /\ promoting' = "checked"
  /\ UNCHANGED <<disk, live, cand, rollbacks, ingest, up, made, edits>>

\* Digest and directory of the candidate, the holders of the live file, and
\* the candidate's own validation without roots.
PromoteCheck ==
  /\ promoting = "idle"
  /\ cand # None
  /\ Len(rollbacks) < MaxRollbacks
  /\ NoHolders
  /\ Validated(cand, NoFiles)
  /\ promoting' = "checked"
  /\ UNCHANGED <<disk, live, cand, rollbacks, ingest, up, made, edits>>

\* Checkpoint the live file and copy it aside.
PromoteBackup ==
  /\ promoting = "checked"
  /\ promoting' = "copied"
  /\ rollbacks' = Append(rollbacks, live)
  /\ UNCHANGED <<disk, live, cand, ingest, up, made, edits>>

\* Unlink -wal and -shm: what was committed since the checkpoint goes with
\* them, and so does what a process still holding them commits later.
PromoteUnlink ==
  /\ promoting = "copied"
  /\ promoting' = "unlinked"
  /\ live' = Last(rollbacks)
  /\ ingest' = [ingest EXCEPT !.detached = ingest.at # "idle"]
  /\ UNCHANGED <<disk, cand, rollbacks, up, made, edits>>

\* os.replace of the live path by the candidate.
PromoteReplace ==
  /\ promoting = "unlinked"
  /\ promoting' = "idle"
  /\ live' = cand
  /\ cand' = None
  /\ ingest' = [ingest EXCEPT !.detached = ingest.at # "idle"]
  /\ UNCHANGED <<disk, rollbacks, up, made, edits>>

PromoteKilled ==
  /\ promoting # "idle"
  /\ promoting' = "idle"
  /\ UNCHANGED <<disk, live, cand, rollbacks, ingest, up, made, edits>>

-----------------------------------------------------------------------------
Next ==
  \/ \E p \in Path : \E text \in DOMAIN UriOf[p] \cup {None} : EditSource(p, text)
  \/ \E d \in Draft : WriteDraft(d)
  \/ \E u \in Uri \cup Draft : Share(u) \/ Unshare(u)
  \/ Drain \/ StartWorkers
  \/ ingest.at = "idle" /\ \E admitted \in SUBSET Discover(disk) : IngestOpen(admitted)
  \/ \E embeds \in SUBSET {c.uri : c \in ingest.batch} :
       IngestCommit(embeds)
  \/ \E embeds \in SUBSET {u \in DOMAIN live.rows : live.rows[u].vec = None} :
       IngestHeal(embeds)
  \/ cand = None /\ \E embeds \in SUBSET {c.uri : c \in Discover(disk)} : Stage(embeds)
  \/ IngestKilled
  \/ PromoteCheck \/ PromoteBackup \/ PromoteUnlink \/ PromoteReplace \/ PromoteKilled

Spec == Init /\ [][Next]_vars

-----------------------------------------------------------------------------
RowType == [src : Path, text : Content, srcs : SUBSET Path, vec : Content \cup {None}]

IsDb(db) ==
  /\ DOMAIN db = {"rows", "drafts", "shares", "aborted"}
  /\ DOMAIN db.rows \subseteq Uri
  /\ \A u \in DOMAIN db.rows : db.rows[u] \in RowType
  /\ db.drafts \subseteq Draft
  /\ db.shares \subseteq Uri \cup Draft
  /\ db.aborted \in BOOLEAN

\* Types; a file belongs to one row only (capability_sources.source_path is
\* the primary key), and only the URI its text declares is written to a row.
TypeOK ==
  /\ disk \in [Path -> Content \cup {None}]
  /\ IsDb(live)
  /\ cand # None => IsDb(cand)
  /\ \A i \in DOMAIN rollbacks : IsDb(rollbacks[i])
  /\ ingest.at \in {"idle", "open", "written"} /\ ingest.detached \in BOOLEAN
  /\ promoting \in {"idle", "checked", "copied", "unlinked"}
  /\ up \in BOOLEAN
  /\ \A u \in DOMAIN live.rows :
       LET row == live.rows[u] IN
       /\ UriOf[row.src][row.text] = u
       /\ \A v \in DOMAIN live.rows \ {u} : row.srcs \cap live.rows[v].srcs = {}

\* A ghost is a row no source file owns, and a dangling reference a share (or
\* pending promotion, or relationship) whose row is gone.  However files change
\* identity, ingests race and candidates are promoted, the live database has
\* neither (_delete_source_orphaned_capabilities, validate_candidate_database).
RefsResolve ==
  /\ Orphans(live.rows) = {}
  /\ live.shares \subseteq DOMAIN live.rows \cup live.drafts

\* Semantic search answers from a vector made of another text only when some
\* ingest since the last rebuild gave up on embeddings (vector_aborted): every
\* other failed embedding leaves the row without a vector (_upsert_vector).
StaleOnlyAfterAbort ==
  \A u \in DOMAIN live.rows :
    live.rows[u].vec \notin {None, live.rows[u].text} => live.aborted

\* What the service acknowledged (a draft, a share not withdrawn) is in the
\* live database or in a copy a promotion left, at every step of a promotion,
\* killed or not, with an ingest started meanwhile (promote_shadow_database).
AcknowledgedRemains ==
  \A m \in made :
    \/ m \in live.drafts \cup {<<"share", u>> : u \in live.shares}
    \/ \E i \in DOMAIN rollbacks :
         m \in rollbacks[i].drafts \cup {<<"share", u>> : u \in rollbacks[i].shares}

\* _upsert_vector says its delete must precede the embedding call "or semantic
\* search can retain a stale vector": no row is served from another text.
VectorsFresh ==
  \A u \in DOMAIN live.rows : live.rows[u].vec \in {None, live.rows[u].text}

\* assert_not_duplicate promises to "Refuse a second registration of
\* (plugin, name) from a different root": no two rows of one name come from
\* different roots of one rank.
TwinsRefused ==
  \A u, v \in DOMAIN live.rows :
    LET p == live.rows[u].src
        q == live.rows[v].src
    IN  q \in Rivals(p, {q}) => RankOf[p] # RankOf[q]
====
