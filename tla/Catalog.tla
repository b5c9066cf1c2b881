------------------------------ MODULE Catalog ------------------------------
(***************************************************************************)
(* The governed catalog: what happens to a capability between its source   *)
(* file and the row the mesh serves.  Ingest (index.py), CapGuard          *)
(* quarantine (capguard.py), lifecycle review (lifecycle.py), promotion    *)
(* (promotions.py) and explicit lifecycle changes all write the same row,  *)
(* each from its own process and its own database connection.              *)
(*                                                                         *)
(* A capability is named by its canonical key.  Its URI is a pair of the   *)
(* namespace it is filed under and the key: the owner's private namespace, *)
(* where discovery files it, or the namespace a promotion re-minted it     *)
(* into.  canonical_key is UNIQUE in the schema, so a key has one row.     *)
(* Content stands for the bytes of a source and for their hash.  The vault *)
(* placement index is empty, and the metadata surface (name, title,        *)
(* description, risk tier) passes its scans: contents differ in the body.  *)
(***************************************************************************)
EXTENDS Naturals, Sequences, FiniteSets

CONSTANTS
  Key,          \* authored capabilities (canonical keys)
  Content,      \* bodies a source may have
  Good,         \* those that pass the gates and the release scan
  Target,       \* namespaces a promotion may name (org, all_users)
  Ingester,     \* processes that may run `capmesh ingest` at the same time
  Production,   \* _production_environment()
  AutoApprove,  \* configured_superadmin_auto_approval()
  Change,       \* lifecycles an operator asks transition_capability for
  Verdict,      \* decisions on a request other than approval
  MaxEdits,     \* bound on edits of sources
  MaxRequests,  \* bound on promotion requests
  MaxDecisions, \* bound on release and reject calls
  MaxFailures,  \* bound on ingests that fail or are killed
  None

Lifecycle == {"draft", "active", "published", "deprecated", "retired",
              "disabled", "deleted", "recalled", "yanked"}

Private == "user"

ASSUME CatalogAssumption ==
  /\ IsFiniteSet(Key) /\ Good \subseteq Content
  /\ Private \notin Target
  /\ Production \in BOOLEAN /\ AutoApprove \in BOOLEAN
  /\ Change \subseteq Lifecycle
  /\ Verdict \subseteq {"rejected", "recalled", "demoted", "yanked"}
  /\ {MaxEdits, MaxRequests, MaxDecisions, MaxFailures} \subseteq Nat
  /\ None \notin Content /\ None \notin Nat
  /\ None \notin ({Private} \cup Target) \X Key

VARIABLES
  disk,      \* the source files
  caps,      \* table capabilities
  held,      \* table capguard_quarantine, in order of creation
  requests,  \* table promotion_requests, in order of creation
  reviews,   \* capability_reviews, and gate runs in which every gate passed
  gen,       \* meta.last_successful_ingest_generation
  ing,       \* what each ingest has read so far
  rel,       \* the release call in flight
  rej,       \* the reject call in flight
  rev,       \* the review or gate run in flight
  edits, decisions, failures

vars == <<disk, caps, held, requests, reviews, gen, ing, rel, rej, rev,
          edits, decisions, failures>>

Uri == ({Private} \cup Target) \X Key

KeyOf(u) == u[2]

Home(k) == <<Private, k>>

Row == [hash: Content, lifecycle: Lifecycle,
        approval: {"draft", "pending", "approved", "published", "rejected",
                   "recalled", "demoted", "yanked"},
        evidence: {"unchecked", "pending", "verified"},
        risk: {"pending", "approved"},
        promoted: BOOLEAN]

Item == [uri: Uri, hash: Content, status: {"quarantined", "released", "rejected"},
         scanned: Content \cup {None}]

Request == [uri: Uri, target: Target, gates: {"pending", "passed", "failed"},
            state: {"pending", "approved", "rejected", "recalled", "demoted", "yanked"}]

Idle == [at |-> "idle", found |-> [k \in Key |-> None],
         seen |-> [k \in Key |-> None], todo |-> {}]

Init ==
  /\ disk \in [Key -> Content]
  /\ caps = [u \in Uri |-> None]
  /\ held = <<>> /\ requests = <<>> /\ reviews = {}
  /\ gen = [u \in Uri |-> None]
  /\ ing = [i \in Ingester |-> Idle]
  /\ rel = None /\ rej = None /\ rev = None
  /\ edits = 0 /\ decisions = 0 /\ failures = 0

tables == <<caps, held, requests, reviews, gen>>
calls == <<rel, rej, rev>>
bounds == <<edits, decisions, failures>>

-----------------------------------------------------------------------------
(* What the handlers read. *)

\* An active quarantine item for exactly this URI and content.
IsHeld(u, h) ==
  \E i \in DOMAIN held : /\ held[i].uri = u /\ held[i].hash = h
                         /\ held[i].status = "quarantined"

\* get_capability: a held row is not found.
Visible(c, u) == c[u] # None /\ ~IsHeld(u, c[u].hash)

\* The states in which evaluate_access denies every right.
Blocked(r) == \/ r.approval \in {"rejected", "recalled", "demoted", "yanked"}
              \/ r.lifecycle \in {"disabled", "deleted", "retired", "recalled", "yanked"}

\* The gates: the source still has the row's content, and that content passes.
GatesPass(c, u) == disk[KeyOf(u)] = c[u].hash /\ c[u].hash \in Good

\* The digest of (uri, content_hash, approval_state).
Generation(c) == [u \in Uri |-> IF c[u] = None THEN None
                                ELSE <<c[u].hash, c[u].approval>>]

Transitions ==
  [l \in Lifecycle |->
     CASE l = "draft"      -> {"active", "deprecated", "retired", "published"}
       [] l = "active"     -> {"deprecated", "retired", "draft"}
       [] l = "published"  -> {"deprecated", "retired", "active"}
       [] l = "deprecated" -> {"active", "retired"}
       [] l = "retired"    -> {"active", "deprecated"}
       [] l = "disabled"   -> {"active", "deleted"}
       [] l = "recalled"   -> {"active", "draft"}
       [] l = "yanked"     -> {"active"}
       [] OTHER            -> {}]

is_valid_transition(from, to) == from = to \/ to \in Transitions[from]

-----------------------------------------------------------------------------
(* Review. *)

\* What a passing review writes to the row.
ReviewedRow(r) == [r EXCEPT !.approval = "approved", !.lifecycle = "published",
                            !.evidence = "verified", !.risk = "approved"]

\* The rows approve_catalog hands to review_batch.
ToReview(c) ==
  {u \in Uri : /\ c[u] # None
               /\ c[u].approval \in {"approved", "draft", "pending"}
               /\ c[u].approval # "approved" \/ c[u].evidence # "verified"
                                             \/ c[u].risk # "approved"}

Activated(c) == [u \in Uri |-> IF u \in ToReview(c) THEN ReviewedRow(c[u]) ELSE c[u]]

\* No review failed, and no row is left non-compliant.
CatalogApproved(c) ==
  /\ \A u \in ToReview(c) : Visible(c, u) /\ GatesPass(c, u)
  /\ \A r \in {Activated(c)[u] : u \in Uri} \ {None} : r = ReviewedRow(r)

AnyHeld == \E i \in DOMAIN held : held[i].status = "quarantined"

-----------------------------------------------------------------------------
(* Ingest: discover, quarantine what is new, then one write transaction. *)

\* Mutant: changed content leaves the verified evidence of the old content.
RefreshKeepsEvidence(old, new) ==
  IF old.hash = new.hash
    THEN [old EXCEPT !.lifecycle =
            IF old.approval = "approved" \/ ~is_valid_transition(@, new.lifecycle)
              THEN @ ELSE new.lifecycle]
    ELSE [new EXCEPT !.approval = IF old.approval = "approved" THEN "pending" ELSE @,
                     !.evidence = old.evidence, !.promoted = old.promoted]

\* Mutant: an unchanged refresh resets the row to what discovery says of it.
RefreshResets(old, new) ==
  IF old.hash = new.hash THEN [new EXCEPT !.promoted = old.promoted]
  ELSE [new EXCEPT !.approval = IF old.approval = "approved" THEN "pending" ELSE @,
                   !.evidence = IF old.evidence = "verified" THEN "pending" ELSE @,
                   !.promoted = old.promoted]

\* Mutant: an approved row is never refreshed.
RefreshSkipsApproved(old, new) ==
  IF old.hash = new.hash \/ old.approval = "approved"
    THEN old
    ELSE [new EXCEPT !.evidence = IF old.evidence = "verified" THEN "pending" ELSE @,
                     !.promoted = old.promoted]

\* upsert_capability on an existing row: governance survives a refresh of the
\* same content (a lifecycle step the table forbids is dropped) and falls
\* back when the content changes.
Refresh(old, new) ==
  IF old.hash = new.hash
    THEN [old EXCEPT !.lifecycle =
            IF old.approval = "approved" \/ ~is_valid_transition(@, new.lifecycle)
              THEN @ ELSE new.lifecycle]
    ELSE [new EXCEPT !.approval = IF old.approval = "approved" THEN "pending" ELSE @,
                     !.evidence = IF old.evidence = "verified" THEN "pending" ELSE @,
                     !.promoted = old.promoted]

\* The URI of the key's row: looked up by private URI, then by canonical key.
Previous(k) ==
  LET rows == {u \in Uri : KeyOf(u) = k /\ caps[u] # None} IN
  CASE Home(k) \in rows -> Home(k)
    [] Home(k) \notin rows /\ rows # {} -> CHOOSE u \in rows : TRUE
    [] OTHER -> None

\* Where ingest writes the key: an approved promotion keeps its address.
Address(k) ==
  LET p == Previous(k) IN
  IF p # None /\ caps[p].promoted /\ caps[p].approval = "approved" THEN p ELSE Home(k)

\* apply_default_user_namespace of a discovered source, under a hold or not.
Discovered(u, h) ==
  [hash |-> h, lifecycle |-> "draft",
   approval |-> IF IsHeld(u, h) THEN "pending" ELSE "draft",
   evidence |-> "unchecked", risk |-> "pending", promoted |-> FALSE]

\* Mutant: the row is written at its new address and left at the old one.
UpsertedLeavesCopy(found) ==
  [u \in Uri |->
     LET k == KeyOf(u)
         p == Previous(k)
         new == Discovered(u, found[k]) IN
     IF found[k] = None \/ u # Address(k) THEN caps[u]
     ELSE IF p = None THEN new ELSE Refresh(caps[p], new)]

\* The table once every found source is written: its row moved to the key's
\* address and refreshed, or inserted.
Upserted(found) ==
  [u \in Uri |->
     LET k == KeyOf(u)
         p == Previous(k)
         new == Discovered(u, found[k]) IN
     CASE found[k] = None -> caps[u]
       [] found[k] # None /\ u = Address(k) ->
            IF p = None THEN new ELSE Refresh(caps[p], new)
       [] found[k] # None /\ u # Address(k) -> IF u = p THEN None ELSE caps[u]]

\* Mutant: the promotion records stay behind when the row moves.
MigratedLeavesRequests(found) == requests

\* _migrate_canonical_uri carries every request of the moved row along.
Migrated(found) ==
  [r \in DOMAIN requests |->
     LET k == KeyOf(requests[r].uri) IN
     IF found[k] # None /\ requests[r].uri = Previous(k)
       THEN [requests[r] EXCEPT !.uri = Address(k)] ELSE requests[r]]

\* discover_capabilities and the admission guards.
Discover(i) ==
  /\ ing[i].at = "idle"
  /\ ing' = [ing EXCEPT ![i].at = "found", ![i].found = disk]
  /\ UNCHANGED <<disk, tables, calls, bounds>>

\* _existing_capability_identity, read once for the whole run.
ReadExisting(i) ==
  /\ ing[i].at = "found"
  /\ ing' = [ing EXCEPT ![i].at = "quarantine",
                        ![i].seen = [k \in Key |-> IF caps[Home(k)] = None THEN None
                                                   ELSE caps[Home(k)].hash],
                        ![i].todo = {k \in Key : ing[i].found[k] # None}]
  /\ UNCHANGED <<disk, tables, calls, bounds>>

\* Mutant: changed content of an indexed capability is not quarantined.
QuarantineUnknownOnly(i, k) ==
  LET h == ing[i].found[k] IN
  /\ ing[i].at = "quarantine" /\ k \in ing[i].todo
  /\ ing' = [ing EXCEPT ![i].todo = @ \ {k}]
  /\ held' = IF ing[i].seen[k] # None \/ IsHeld(Home(k), h) THEN held
             ELSE Append(held, [uri |-> Home(k), hash |-> h,
                                status |-> "quarantined", scanned |-> None])
  /\ UNCHANGED <<disk, caps, requests, reviews, gen, calls, bounds>>

\* quarantine_capability for one source; a no-op while its item is active.
Quarantine(i, k) ==
  LET h == ing[i].found[k] IN
  /\ ing[i].at = "quarantine" /\ k \in ing[i].todo
  /\ ing' = [ing EXCEPT ![i].todo = @ \ {k}]
  /\ held' = IF ing[i].seen[k] = h \/ IsHeld(Home(k), h) THEN held
             ELSE Append(held, [uri |-> Home(k), hash |-> h,
                                status |-> "quarantined", scanned |-> None])
  /\ UNCHANGED <<disk, caps, requests, reviews, gen, calls, bounds>>

\* The write transaction: every row, the post-ingest approval, the generation.
\* Approval waits while anything is in quarantine, and its failure rolls back.
IngestWrite(i) ==
  LET c == Upserted(ing[i].found)
      approve == AutoApprove /\ ~AnyHeld IN
  /\ ing[i].at = "quarantine" /\ ing[i].todo = {}
  /\ approve => CatalogApproved(c)
  /\ caps' = IF approve THEN Activated(c) ELSE c
  /\ reviews' = IF approve THEN reviews \cup {<<u, c[u].hash>> : u \in ToReview(c)}
                ELSE reviews
  /\ requests' = Migrated(ing[i].found)
  /\ gen' = Generation(caps')
  /\ ing' = [ing EXCEPT ![i] = Idle]
  /\ UNCHANGED <<disk, held, calls, bounds>>

\* apply_install_policy raises: nothing of the run but its quarantine is kept.
IngestRaises(i) ==
  /\ ing[i].at = "quarantine" /\ ing[i].todo = {}
  /\ AutoApprove /\ ~AnyHeld /\ ~CatalogApproved(Upserted(ing[i].found))
  /\ ing' = [ing EXCEPT ![i] = Idle]
  /\ UNCHANGED <<disk, tables, calls, bounds>>

\* A guard refuses, a statement fails or the process dies: rollback.
IngestFails(i) ==
  /\ ing[i].at # "idle" /\ failures < MaxFailures
  /\ failures' = failures + 1
  /\ ing' = [ing EXCEPT ![i] = Idle]
  /\ UNCHANGED <<disk, tables, calls, edits, decisions>>

Edit(k) ==
  /\ edits < MaxEdits
  /\ \E c \in (Content \cup {None}) \ {disk[k]} : disk' = [disk EXCEPT ![k] = c]
  /\ edits' = edits + 1
  /\ UNCHANGED <<tables, ing, calls, decisions, failures>>

-----------------------------------------------------------------------------
(* Review and gate runs read the row, evaluate the gates on its source, and *)
(* write in a transaction of their own.                                    *)

\* review_capability up to its first write; a failed review writes nothing.
ReviewRead(u) ==
  /\ rev = None
  /\ Visible(caps, u) /\ GatesPass(caps, u)
  /\ rev' = [request |-> None, uri |-> u, hash |-> caps[u].hash, passed |-> TRUE]
  /\ UNCHANGED <<disk, tables, ing, rel, rej, bounds>>

\* Mutant: the row is updated by URI alone.
ReviewWriteAnyContent ==
  /\ rev # None /\ rev.request = None
  /\ reviews' = reviews \cup {<<rev.uri, rev.hash>>}
  /\ caps' = [u \in Uri |-> IF u = rev.uri /\ caps[u] # None
                            THEN ReviewedRow(caps[u]) ELSE caps[u]]
  /\ rev' = None
  /\ UNCHANGED <<disk, held, requests, gen, ing, rel, rej, bounds>>

\* Its transaction: the review record, and the row if it still has the content.
ReviewWrite ==
  /\ rev # None /\ rev.request = None
  /\ reviews' = reviews \cup {<<rev.uri, rev.hash>>}
  /\ caps' = [u \in Uri |-> IF u = rev.uri /\ caps[u] # None /\ caps[u].hash = rev.hash
                            THEN ReviewedRow(caps[u]) ELSE caps[u]]
  /\ rev' = None
  /\ UNCHANGED <<disk, held, requests, gen, ing, rel, rej, bounds>>

\* run_promotion_gates up to its first write.
GateRead(r) ==
  LET u == requests[r].uri IN
  /\ rev = None
  /\ requests[r].state = "pending" /\ Visible(caps, u)
  /\ rev' = [request |-> r, uri |-> u, hash |-> caps[u].hash,
             passed |-> GatesPass(caps, u)]
  /\ UNCHANGED <<disk, tables, ing, rel, rej, bounds>>

\* Its transaction: the request's gates, and on a pass the row's evidence.
GateWrite ==
  /\ rev # None /\ rev.request # None
  /\ requests' = [requests EXCEPT ![rev.request].gates =
                    IF rev.passed THEN "passed" ELSE "failed"]
  /\ reviews' = IF rev.passed THEN reviews \cup {<<rev.uri, rev.hash>>} ELSE reviews
  /\ caps' = [u \in Uri |->
                IF rev.passed /\ u = rev.uri /\ caps[u] # None /\ caps[u].hash = rev.hash
                  THEN [caps[u] EXCEPT !.evidence = "verified", !.risk = "approved"]
                  ELSE caps[u]]
  /\ rev' = None
  /\ UNCHANGED <<disk, held, gen, ing, rel, rej, bounds>>

\* approve_catalog on its own: one transaction, all rows or none.
ApproveCatalog ==
  /\ CatalogApproved(caps)
  /\ caps' = Activated(caps)
  /\ reviews' = reviews \cup {<<u, caps[u].hash>> : u \in ToReview(caps)}
  /\ UNCHANGED <<disk, held, requests, gen, ing, calls, bounds>>

-----------------------------------------------------------------------------
(* CapGuard.  Each call commits its checks before it opens the transaction *)
(* that writes the decision.                                               *)

\* What a decision on an item writes to the row it was taken for.
Decided(q, lifecycle, approval) ==
  [u \in Uri |-> IF u = held[q].uri /\ caps[u] # None /\ caps[u].hash = held[q].hash
                 THEN [caps[u] EXCEPT !.lifecycle = lifecycle, !.approval = approval]
                 ELSE caps[u]]

\* release_capability_from_quarantine: scan the source file as it is now and
\* store the verdict as an attestation of the item.
ReleaseScan(q) ==
  /\ rel = None /\ decisions < MaxDecisions
  /\ held[q].status = "quarantined"
  /\ held' = [held EXCEPT ![q].scanned = disk[KeyOf(held[q].uri)]]
  /\ rel' = [at |-> "scanned", item |-> q]
  /\ decisions' = decisions + 1
  /\ UNCHANGED <<disk, caps, requests, reviews, gen, ing, rej, rev, edits, failures>>

\* Mutant: the attestation alone is checked.
ReleaseCheckScanOnly ==
  /\ rel # None /\ rel.at = "scanned"
  /\ held[rel.item].scanned \in Good
  /\ rel' = [rel EXCEPT !.at = "checked"]
  /\ UNCHANGED <<disk, tables, ing, rej, rev, bounds>>

\* release_from_quarantine: the status and the clean attestation.
ReleaseCheck ==
  /\ rel # None /\ rel.at = "scanned"
  /\ held[rel.item].status = "quarantined" /\ held[rel.item].scanned \in Good
  /\ rel' = [rel EXCEPT !.at = "checked"]
  /\ UNCHANGED <<disk, tables, ing, rej, rev, bounds>>

ReleaseWrite ==
  /\ rel # None /\ rel.at = "checked"
  /\ held' = [held EXCEPT ![rel.item].status = "released"]
  /\ caps' = Decided(rel.item, "active", "published")
  /\ rel' = None
  /\ UNCHANGED <<disk, requests, reviews, gen, ing, rej, rev, bounds>>

\* reject_from_quarantine up to its first write.
RejectCheck(q) ==
  /\ rej = None /\ decisions < MaxDecisions
  /\ held[q].status = "quarantined"
  /\ rej' = [item |-> q]
  /\ decisions' = decisions + 1
  /\ UNCHANGED <<disk, tables, ing, rel, rev, edits, failures>>

RejectWrite ==
  /\ rej # None
  /\ held' = [held EXCEPT ![rej.item].status = "rejected"]
  /\ caps' = Decided(rej.item, "disabled", "rejected")
  /\ rej' = None
  /\ UNCHANGED <<disk, requests, reviews, gen, ing, rel, rev, bounds>>

\* A check refuses, or the worker dies, between two transactions of a call.
CallEnds ==
  /\ \/ rel # None /\ rel' = None /\ UNCHANGED <<rej, rev>>
     \/ rej # None /\ rej' = None /\ UNCHANGED <<rel, rev>>
     \/ rev # None /\ rev' = None /\ UNCHANGED <<rel, rej>>
  /\ UNCHANGED <<disk, tables, ing, bounds>>

-----------------------------------------------------------------------------
(* Promotion and explicit changes.  Each handler records its policy        *)
(* decision first and so holds the write lock from there to its commit.    *)

submit_promotion(u, t) ==
  /\ Len(requests) < MaxRequests
  /\ caps[u] # None /\ ~Blocked(caps[u])
  /\ requests' = Append(requests, [uri |-> u, target |-> t, gates |-> "pending",
                                   state |-> "pending"])
  /\ caps' = [caps EXCEPT ![u].approval = "pending"]
  /\ gen' = Generation(caps')
  /\ UNCHANGED <<disk, held, reviews, ing, calls, bounds>>

\* What an approval writes to the row.
PromotedRow(r) ==
  [r EXCEPT !.approval = "approved", !.promoted = TRUE, !.risk = "approved",
            !.lifecycle = IF @ = "draft" THEN "published" ELSE @,
            !.evidence = IF @ = "unchecked" THEN "pending" ELSE @]

\* The gates an approval goes by: run now, or as stored when the runner does
\* not find the row.
GatesAtApproval(r) ==
  LET u == requests[r].uri IN
  CASE Visible(caps, u) /\ GatesPass(caps, u) -> "passed"
    [] Visible(caps, u) /\ ~GatesPass(caps, u) -> "failed"
    [] OTHER -> requests[r].gates

\* In production no gate can be overridden, and the row needs its evidence.
MayApprove(r, override) ==
  LET row == caps[requests[r].uri] IN
  /\ GatesAtApproval(r) = "passed" \/ (override /\ ~Production)
  /\ Production => row # None /\ row.evidence = "verified" /\ row.risk = "approved"

\* The row moves to the target namespace, unless that address is taken; of
\* the requests only the approved one follows it.
approve_request(r, override) ==
  LET u == requests[r].uri
      v == IF caps[u] = None THEN u ELSE <<requests[r].target, KeyOf(u)>> IN
  /\ MayApprove(r, override)
  /\ v = u \/ caps[v] = None
  /\ requests' = [requests EXCEPT ![r] = [@ EXCEPT !.uri = v, !.state = "approved",
                                                   !.gates = GatesAtApproval(r)]]
  /\ caps' = [w \in Uri |-> CASE w = v /\ caps[u] # None -> PromotedRow(caps[u])
                              [] w = u /\ w # v -> None
                              [] OTHER -> caps[w]]
  /\ gen' = Generation(caps')
  /\ UNCHANGED <<disk, held, reviews, ing, calls, bounds>>

\* reject, recall, demote, yank.
decide_request(r, state) ==
  LET u == requests[r].uri IN
  /\ requests' = [requests EXCEPT ![r].state = state]
  /\ caps' = IF caps[u] = None THEN caps ELSE [caps EXCEPT ![u].approval = state]
  /\ gen' = Generation(caps')
  /\ UNCHANGED <<disk, held, reviews, ing, calls, bounds>>

transition_capability(u, to) ==
  /\ caps[u] # None /\ is_valid_transition(caps[u].lifecycle, to)
  /\ caps' = [caps EXCEPT ![u].lifecycle = to]
  /\ UNCHANGED <<disk, held, requests, reviews, gen, ing, calls, bounds>>

publish_private_capability(u) ==
  /\ Visible(caps, u) /\ ~Blocked(caps[u])
  /\ caps' = [caps EXCEPT ![u].lifecycle = "published", ![u].approval = "draft"]
  /\ UNCHANGED <<disk, held, requests, reviews, gen, ing, calls, bounds>>

-----------------------------------------------------------------------------
IngestStep(i) ==
  \/ Discover(i)
  \/ ReadExisting(i)
  \/ \E k \in Key : Quarantine(i, k)
  \/ IngestWrite(i)
  \/ IngestRaises(i)

Next ==
  \/ \E i \in Ingester : IngestStep(i) \/ IngestFails(i)
  \/ \E k \in Key : Edit(k)
  \/ \E u \in Uri : ReviewRead(u) \/ publish_private_capability(u)
  \/ \E u \in Uri, l \in Change : transition_capability(u, l)
  \/ \E u \in Uri, t \in Target : submit_promotion(u, t)
  \/ \E r \in DOMAIN requests :
       \/ GateRead(r)
       \/ \E override \in BOOLEAN : approve_request(r, override)
       \/ \E s \in Verdict : decide_request(r, s)
  \/ \E q \in DOMAIN held : ReleaseScan(q) \/ RejectCheck(q)
  \/ ReviewWrite
  \/ GateWrite
  \/ ApproveCatalog
  \/ ReleaseCheck
  \/ ReleaseWrite
  \/ RejectWrite
  \/ CallEnds

Spec == Init /\ [][Next]_vars

\* The refresh timer runs ingest again and again, and a run makes progress.
FairSpec == Spec /\ \A i \in Ingester : WF_vars(IngestStep(i))

-----------------------------------------------------------------------------
(* Properties. *)

\* The row of a key, wherever it is filed.
RowsOf(c, k) == {c[u] : u \in {v \in Uri : KeyOf(v) = k /\ c[v] # None}}

\* Every table and every call in flight has its type, and a key has one row.
TypeOK ==
  /\ disk \in [Key -> Content \cup {None}]
  /\ caps \in [Uri -> Row \cup {None}]
  /\ \A k \in Key : \A u, v \in {w \in Uri : KeyOf(w) = k /\ caps[w] # None} : u = v
  /\ held \in Seq(Item) /\ requests \in Seq(Request)
  /\ reviews \subseteq Uri \X Content
  /\ gen \in [Uri -> {None} \cup (Content \X {"draft", "pending", "approved",
              "published", "rejected", "recalled", "demoted", "yanked"})]
  /\ ing \in [Ingester -> [at: {"idle", "found", "quarantine"},
                           found: [Key -> Content \cup {None}],
                           seen: [Key -> Content \cup {None}], todo: SUBSET Key]]
  /\ rel = None \/ rel \in [at: {"scanned", "checked"}, item: DOMAIN held]
  /\ rej = None \/ rej \in [item: DOMAIN held]
  /\ rev = None \/ rev \in [request: {None} \cup DOMAIN requests, uri: Uri,
                            hash: Content, passed: BOOLEAN]
  /\ edits \in 0..MaxEdits /\ decisions \in 0..MaxDecisions
  /\ failures \in 0..MaxFailures

\* Verified evidence, and in production an approval, always speak of the
\* content the row has now: some review or gate run of this capability passed
\* on exactly that content, however refreshes, reviews and promotions of the
\* row interleave.
ApprovalsAreReviewed ==
  \A u \in Uri :
    caps[u] # None /\ (caps[u].evidence = "verified"
                       \/ (Production /\ caps[u].approval = "approved"))
      => \E v \in Uri : KeyOf(v) = KeyOf(u) /\ <<v, caps[u].hash>> \in reviews

\* A promoted row always has a promotion request under its current URI, so
\* evaluate_access keeps finding the record by which it demands integrity in
\* production (has_formal_promotion_record), however often the row moves.
PromotedHasRecord ==
  \A u \in Uri : caps[u] # None /\ caps[u].promoted
                   => \E r \in DOMAIN requests : requests[r].uri = u

\* Ingest writes no content into the catalog that was not put into quarantine
\* first, although it decides what is new from a snapshot taken before other
\* ingests and promotions moved the rows.
IndexedWasQuarantined ==
  \A u \in Uri : caps[u] # None =>
    \E q \in DOMAIN held : /\ KeyOf(held[q].uri) = KeyOf(u)
                           /\ held[q].hash = caps[u].hash

\* A refresh that finds the content it knows never makes a blocked row usable
\* again: recalled, rejected, yanked, retired and disabled rows stay so, also
\* when the refresh moves the row.
RefreshKeepsBlocks ==
  [][ing' # ing =>
       \A k \in Key : \A r \in RowsOf(caps, k), s \in RowsOf(caps', k) :
         Blocked(r) /\ r.hash = s.hash => Blocked(s)]_vars

\* A release or rejection of the item that has passed its last check.
Deciding(q) ==
  \/ rel # None /\ rel.item = q /\ rel.at = "checked"
  \/ rej # None /\ rej.item = q

\* Decisions are written by id alone, so a call past its last check may
\* still overrule another's decision.  But when none is left the decision is
\* final: no later release or rejection of the item gets past its checks, one
\* that had scanned before the decision included, and no ingest reopens it.
DecisionsStand ==
  [][\A q \in DOMAIN held : held[q].status # "quarantined" /\ ~Deciding(q) =>
       held'[q].status = held[q].status /\ ~Deciding(q)']_vars

\* Once the sources are left alone the catalog comes to hold the content of
\* every one of them, whatever governance has done to the rows meanwhile.
CatalogCatchesUp ==
  <>[](\A k \in Key : disk[k] # None => \E r \in RowsOf(caps, k) : r.hash = disk[k])

\* index.py 1640-1642: the quarantine row is keyed by the URI and the content
\* that are written to capabilities.
HoldMatchesWrite ==
  [][\A u \in Uri :
       ing' # ing /\ caps'[u] # None /\ (caps[u] = None \/ caps[u].hash # caps'[u].hash)
         => \E q \in DOMAIN held : held[q].uri = u /\ held[q].hash = caps'[u].hash]_vars

\* capguard.py 723-725: a rejected item cannot subsequently be released.
RejectedNeverReleased ==
  [][\A q \in DOMAIN held : held[q].status = "rejected"
                              => held'[q].status # "released"]_vars

\* lifecycle.py 711: approve_catalog approves every passing capability, so it
\* succeeds on a catalog in which all pass and none is held or blocked.
PassingCatalogIsApproved ==
  (\A u \in Uri : caps[u] # None => /\ GatesPass(caps, u) /\ Visible(caps, u)
                                    /\ ~Blocked(caps[u]))
    => CatalogApproved(caps)

====
