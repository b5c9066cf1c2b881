--------------------------- MODULE CatalogProofs ---------------------------
(* Theorems about Catalog, for any sets of keys, contents, namespaces and   *)
(* concurrent ingests, and for any number of requests and decisions.        *)
EXTENDS Catalog, SequenceTheorems, TLAPS

-----------------------------------------------------------------------------
(* Addresses and rows. *)

\* A URI names its key, and a key has its private and its promoted URIs.
LEMMA Uris ==
  /\ \A u \in Uri : KeyOf(u) \in Key
  /\ \A k \in Key : Home(k) \in Uri /\ KeyOf(Home(k)) = k
  /\ \A t \in Target, k \in Key : <<t, k>> \in Uri /\ KeyOf(<<t, k>>) = k
  /\ None \notin Uri
BY CatalogAssumption DEF Uri, KeyOf, Home

\* At most one row per key.
OneRow(c) == \A u, v \in Uri : KeyOf(u) = KeyOf(v) /\ c[u] # None /\ c[v] # None => u = v

\* The row ingest finds for a key is the key's only one.
LEMMA PreviousRow ==
  ASSUME NEW k \in Key
  PROVE  \/ Previous(k) = None /\ \A u \in Uri : KeyOf(u) = k => caps[u] = None
         \/ Previous(k) \in Uri /\ KeyOf(Previous(k)) = k /\ caps[Previous(k)] # None
<1> DEFINE rows == {u \in Uri : KeyOf(u) = k /\ caps[u] # None}
<1>1. CASE Home(k) \in rows
  <2>1. Previous(k) = Home(k)
    BY <1>1 DEF Previous
  <2>2. QED
    BY <1>1, <2>1
<1>2. CASE Home(k) \notin rows /\ rows # {}
  <2>1. Previous(k) = CHOOSE u \in rows : TRUE
    BY <1>2 DEF Previous
  <2>2. Previous(k) \in rows
    BY <1>2, <2>1
  <2>3. QED
    BY <2>2
<1>3. CASE rows = {}
  <2>1. Previous(k) = None
    BY <1>3 DEF Previous
  <2>2. QED
    BY <1>3, <2>1
<1>4. QED
  BY <1>1, <1>2, <1>3

\* Ingest writes a key under its private URI, or where its row is.
LEMMA AddressOf ==
  ASSUME NEW k \in Key
  PROVE  Address(k) \in Uri /\ KeyOf(Address(k)) = k
<1>1. Address(k) = Home(k) \/ (Address(k) = Previous(k) /\ Previous(k) # None)
  BY DEF Address
<1>2. QED
  BY <1>1, PreviousRow, Uris

\* A content found for the first time is filed as an unchecked draft.
LEMMA DiscoveredRow ==
  ASSUME NEW u \in Uri, NEW h \in Content
  PROVE  /\ Discovered(u, h) \in Row /\ Discovered(u, h).hash = h
         /\ Discovered(u, h).lifecycle = "draft" /\ Discovered(u, h).evidence = "unchecked"
         /\ Discovered(u, h).approval \in {"draft", "pending"} /\ ~Discovered(u, h).promoted
BY DEF Discovered, Row, Lifecycle

\* What the handlers write is a row; who refreshes, reviews or promotes it
\* keeps its content.
LEMMA RowsWritten ==
  /\ \A r \in Row : /\ ReviewedRow(r) \in Row /\ ReviewedRow(r).hash = r.hash
                    /\ ReviewedRow(r).lifecycle = "published"
                    /\ ReviewedRow(r).promoted = r.promoted
  /\ \A r \in Row : /\ PromotedRow(r) \in Row /\ PromotedRow(r).hash = r.hash
                    /\ PromotedRow(r).lifecycle \in {r.lifecycle, "published"}
                    /\ PromotedRow(r).evidence = "verified" => r.evidence = "verified"
  /\ \A u \in Uri, h \in Content :
       /\ Discovered(u, h) \in Row /\ Discovered(u, h).hash = h
       /\ Discovered(u, h).lifecycle = "draft" /\ Discovered(u, h).evidence = "unchecked"
       /\ Discovered(u, h).approval \in {"draft", "pending"} /\ ~Discovered(u, h).promoted
<1>1. ASSUME NEW r \in Row
      PROVE  /\ ReviewedRow(r) \in Row /\ ReviewedRow(r).hash = r.hash
             /\ ReviewedRow(r).lifecycle = "published"
             /\ ReviewedRow(r).promoted = r.promoted
  BY Zenon DEF ReviewedRow, Row, Lifecycle
<1>2. ASSUME NEW r \in Row
      PROVE  /\ PromotedRow(r) \in Row /\ PromotedRow(r).hash = r.hash
             /\ PromotedRow(r).lifecycle \in {r.lifecycle, "published"}
             /\ PromotedRow(r).evidence = "verified" => r.evidence = "verified"
  BY Zenon DEF PromotedRow, Row, Lifecycle
<1>3. ASSUME NEW u \in Uri, NEW h \in Content
      PROVE  /\ Discovered(u, h) \in Row /\ Discovered(u, h).hash = h
             /\ Discovered(u, h).lifecycle = "draft" /\ Discovered(u, h).evidence = "unchecked"
             /\ Discovered(u, h).approval \in {"draft", "pending"} /\ ~Discovered(u, h).promoted
  BY DiscoveredRow
<1>4. QED
  BY <1>1, <1>2, <1>3

\* A refresh of the same content keeps all but the lifecycle, which moves only
\* along the table; one of new content keeps no evidence and no approval.
LEMMA Refreshed ==
  ASSUME NEW old \in Row, NEW new \in Row,
         new.evidence = "unchecked", new.approval \in {"draft", "pending"}
  PROVE  LET r == Refresh(old, new) IN
         /\ r \in Row /\ r.hash = new.hash /\ r.promoted = old.promoted
         /\ r.lifecycle \in {old.lifecycle, new.lifecycle}
         /\ old.hash = new.hash =>
              /\ r.evidence = old.evidence /\ r.approval = old.approval
              /\ r.lifecycle # old.lifecycle => r.lifecycle \in Transitions[old.lifecycle]
         /\ old.hash # new.hash => r.evidence # "verified" /\ r.approval # "approved"
<1>1. CASE old.hash = new.hash
  BY <1>1 DEF Refresh, Row, is_valid_transition
<1>2. CASE old.hash # new.hash
  BY Zenon, <1>2 DEF Refresh, Row
<1>3. QED
  BY <1>1, <1>2

\* A refresh leaves the promotion of the row as it was.
LEMMA RefreshedPromotion ==
  ASSUME NEW old \in Row, NEW new \in Row,
         new.evidence = "unchecked", new.approval \in {"draft", "pending"}
  PROVE  Refresh(old, new).promoted = old.promoted
BY Refreshed

\* No step of the lifecycle table leads to "recalled", and none leads from a
\* blocking lifecycle other than "recalled" to "draft".
LEMMA TransitionTable ==
  \A l \in Lifecycle :
    /\ "recalled" \notin Transitions[l]
    /\ l \in {"disabled", "deleted", "retired", "yanked"} => "draft" \notin Transitions[l]
BY DEF Transitions, Lifecycle

-----------------------------------------------------------------------------
(* Rows stay sound. *)

\* Some item of the key was put into quarantine with this content.
Quarantined(k, h) ==
  \E q \in DOMAIN held : KeyOf(held[q].uri) = k /\ held[q].hash = h

\* Some review or gate run of the key passed on this content.
Reviewed(k, h) == \E v \in Uri : KeyOf(v) = k /\ <<v, h>> \in reviews

\* What holds of every row of a key, wherever it is filed.
Sound(k, r) ==
  /\ r \in Row /\ r.lifecycle # "recalled"
  /\ Quarantined(k, r.hash)
  /\ r.evidence = "verified" \/ (Production /\ r.approval = "approved") => Reviewed(k, r.hash)

Filed ==
  /\ caps \in [Uri -> Row \cup {None}] /\ OneRow(caps)
  /\ \A u \in Uri : caps[u] # None => Sound(KeyOf(u), caps[u])

\* Items and reviews are never taken back.
Grown ==
  /\ \A k, h : Quarantined(k, h) => Quarantined(k, h)'
  /\ \A k, h : Reviewed(k, h) => Reviewed(k, h)'

\* A sound row stays sound.
LEMMA SoundStays ==
  ASSUME Grown, NEW k, NEW r, Sound(k, r)
  PROVE  Sound(k, r)'
BY DEF Grown, Sound

\* A step that writes rows where they are, keeps their content and approves or
\* verifies only what was reviewed.
LEMMA InPlace ==
  ASSUME Filed, Grown, caps' = [u \in Uri |-> caps'[u]],
         \A u \in Uri :
           \/ caps'[u] = caps[u]
           \/ /\ caps[u] # None /\ caps'[u] \in Row
              /\ caps'[u].hash = caps[u].hash /\ caps'[u].lifecycle # "recalled"
              /\ caps'[u].evidence = "verified" =>
                   caps[u].evidence = "verified" \/ Reviewed(KeyOf(u), caps[u].hash)'
              /\ Production /\ caps'[u].approval = "approved" =>
                   \/ caps[u].approval = "approved"
                   \/ caps[u].evidence = "verified"
                   \/ Reviewed(KeyOf(u), caps[u].hash)'
  PROVE  Filed'
<1>1. caps' \in [Uri -> Row \cup {None}]
  BY DEF Filed
<1>2. OneRow(caps)'
  BY DEF Filed, OneRow
<1>3. ASSUME NEW u \in Uri, caps'[u] # None
      PROVE  Sound(KeyOf(u), caps[u])'
  <2>1. PICK k, r : k = KeyOf(u) /\ r = caps'[u]
    OBVIOUS
  <2>2. Sound(k, r)'
    <3>1. CASE caps'[u] = caps[u]
      BY <1>3, <2>1, <3>1, SoundStays DEF Filed
    <3>2. CASE caps'[u] # caps[u]
      <4>1. Sound(k, caps[u]) /\ r \in Row /\ r.hash = caps[u].hash /\ r.lifecycle # "recalled"
        BY <2>1, <3>2 DEF Filed
      <4>2. Quarantined(k, r.hash)'
        BY <4>1 DEF Sound, Grown
      <4>3. Reviewed(k, caps[u].hash) => Reviewed(k, r.hash)'
        BY <4>1 DEF Grown
      <4>4. Reviewed(KeyOf(u), caps[u].hash)' => Reviewed(k, r.hash)'
        BY <2>1 DEF Reviewed
      <4>5. r.evidence = "verified" \/ (Production /\ r.approval = "approved")
              => Reviewed(k, r.hash)'
        BY <2>1, <3>2, <4>1, <4>3, <4>4 DEF Sound
      <4>6. QED
        BY <4>1, <4>2, <4>5 DEF Sound
    <3>3. QED
      BY <3>1, <3>2
  <2>3. QED
    BY <2>1, <2>2 DEF Sound, Quarantined, Reviewed
<1>4. QED
  BY <1>1, <1>2, <1>3 DEF Filed

-----------------------------------------------------------------------------
(* The write of an ingest. *)

\* The sources an ingest writes have content, and it was quarantined.
Screened(found) ==
  \A k \in Key : found[k] # None => found[k] \in Content /\ Quarantined(k, found[k])

\* After the write a key's row is where ingest files it, made from the row the
\* key had; a key without a source keeps its row.
LEMMA UpsertedAt ==
  ASSUME OneRow(caps), NEW found, NEW u \in Uri
  PROVE  LET k == KeyOf(u)
             p == Previous(k)
             r == Upserted(found)[u]
         IN \/ found[k] = None /\ r = caps[u]
            \/ found[k] # None /\ r = None
            \/ /\ found[k] # None /\ u = Address(k)
               /\ \/ p = None /\ r = Discovered(u, found[k])
                  \/ /\ p \in Uri /\ KeyOf(p) = k /\ caps[p] # None
                     /\ r = Refresh(caps[p], Discovered(u, found[k]))
<1> DEFINE k == KeyOf(u)
           p == Previous(k)
           r == Upserted(found)[u]
<1>0. k \in Key
  BY Uris
<1>1. r = CASE found[k] = None -> caps[u]
            [] found[k] # None /\ u = Address(k) ->
                 IF p = None THEN Discovered(u, found[k])
                 ELSE Refresh(caps[p], Discovered(u, found[k]))
            [] found[k] # None /\ u # Address(k) -> IF u = p THEN None ELSE caps[u]
  BY DEF Upserted
<1>2. \/ p = None /\ \A v \in Uri : KeyOf(v) = k => caps[v] = None
      \/ p \in Uri /\ KeyOf(p) = k /\ caps[p] # None
  BY <1>0, PreviousRow
<1>3. None \notin Uri
  BY Uris
<1> HIDE DEF p, r
<1>4. CASE found[k] = None
  BY <1>1, <1>4 DEF p, r
<1>5. CASE found[k] # None /\ u = Address(k)
  <2>1. r = IF p = None THEN Discovered(u, found[k])
            ELSE Refresh(caps[p], Discovered(u, found[k]))
    BY <1>1, <1>5
  <2>2. QED
    BY <1>2, <1>5, <2>1 DEF p, r
<1>6. CASE found[k] # None /\ u # Address(k)
  <2>1. r = IF u = p THEN None ELSE caps[u]
    BY <1>1, <1>6
  <2>2. u # p => caps[u] = None
    BY <1>2 DEF OneRow
  <2>3. QED
    BY <1>6, <2>1, <2>2 DEF p, r
<1>7. QED
  BY <1>4, <1>5, <1>6

\* The rows an ingest writes are sound, one per key.
LEMMA UpsertedSound ==
  ASSUME Filed, NEW found, Screened(found)
  PROVE  /\ Upserted(found) \in [Uri -> Row \cup {None}] /\ OneRow(Upserted(found))
         /\ \A u \in Uri : Upserted(found)[u] # None => Sound(KeyOf(u), Upserted(found)[u])
<1> DEFINE c == Upserted(found)
<1>0. OneRow(caps) /\ caps \in [Uri -> Row \cup {None}]
  BY DEF Filed
<1>1. ASSUME NEW u \in Uri, c[u] # None
      PROVE  Sound(KeyOf(u), c[u])
  <2>1. PICK k \in Key : k = KeyOf(u)
    BY Uris
  <2>2. CASE found[k] = None /\ c[u] = caps[u]
    BY <1>1, <2>1, <2>2 DEF Filed
  <2>3. ASSUME found[k] # None
        PROVE  /\ found[k] \in Content /\ Quarantined(k, found[k])
               /\ Discovered(u, found[k]) \in Row /\ Discovered(u, found[k]).hash = found[k]
               /\ Discovered(u, found[k]).lifecycle = "draft"
               /\ Discovered(u, found[k]).evidence = "unchecked"
               /\ Discovered(u, found[k]).approval \in {"draft", "pending"}
    BY <2>3, RowsWritten DEF Screened
  <2>4. CASE found[k] # None /\ c[u] = Discovered(u, found[k])
    BY <2>1, <2>3, <2>4 DEF Sound
  <2>5. ASSUME found[k] # None, NEW p \in Uri, KeyOf(p) = k, caps[p] # None,
               c[u] = Refresh(caps[p], Discovered(u, found[k]))
        PROVE  Sound(k, c[u])
    <3>1. Sound(k, caps[p]) /\ caps[p] \in Row
      BY <2>5 DEF Filed, Sound
    <3>2. PICK new : new = Discovered(u, found[k])
      OBVIOUS
    <3>3. /\ c[u] \in Row /\ c[u].hash = found[k]
          /\ c[u].lifecycle \in {caps[p].lifecycle, "draft"}
          /\ caps[p].hash = found[k] =>
               c[u].evidence = caps[p].evidence /\ c[u].approval = caps[p].approval
          /\ caps[p].hash # found[k] =>
               c[u].evidence # "verified" /\ c[u].approval # "approved"
      <4>1. new \in Row /\ new.hash = found[k] /\ new.lifecycle = "draft"
            /\ new.evidence = "unchecked" /\ new.approval \in {"draft", "pending"}
        BY <2>3, <2>5, <3>2
      <4>2. c[u] = Refresh(caps[p], new)
        BY <2>5, <3>2
      <4> HIDE DEF c
      <4>3. QED
        BY <3>1, <4>1, <4>2, Refreshed
    <3> HIDE DEF c
    <3>4. QED
      BY <2>3, <2>5, <3>1, <3>3 DEF Sound
  <2>6. QED
    <3>1. \/ found[k] = None /\ c[u] = caps[u]
          \/ /\ found[k] # None
             /\ \/ c[u] = Discovered(u, found[k])
                \/ \E p \in Uri : /\ KeyOf(p) = k /\ caps[p] # None
                                  /\ c[u] = Refresh(caps[p], Discovered(u, found[k]))
      BY <1>0, <1>1, <2>1, UpsertedAt
    <3> HIDE DEF c
    <3>2. QED
      BY <2>1, <2>2, <2>4, <2>5, <3>1
<1>2. c \in [Uri -> Row \cup {None}]
  <2>1. \A u \in Uri : c[u] \in Row \cup {None}
    BY <1>1 DEF Sound
  <2>2. c = [u \in Uri |-> c[u]]
    BY DEF Upserted
  <2> HIDE DEF c
  <2>3. QED
    BY <2>1, <2>2
<1>3. ASSUME NEW u \in Uri, NEW v \in Uri, KeyOf(u) = KeyOf(v), c[u] # None, c[v] # None
      PROVE  u = v
  <2>1. \/ found[KeyOf(u)] = None /\ c[u] = caps[u]
        \/ found[KeyOf(u)] # None /\ u = Address(KeyOf(u))
    BY <1>0, <1>3, UpsertedAt
  <2>2. \/ found[KeyOf(v)] = None /\ c[v] = caps[v]
        \/ found[KeyOf(v)] # None /\ v = Address(KeyOf(v))
    BY <1>0, <1>3, UpsertedAt
  <2> HIDE DEF c
  <2>3. QED
    BY <1>0, <1>3, <2>1, <2>2 DEF OneRow
<1>4. QED
  BY <1>1, <1>2, <1>3 DEF OneRow

\* Activating a reviewed table keeps it sound once the reviews are recorded.
LEMMA ActivatedAt ==
  ASSUME NEW c, NEW u \in Uri
  PROVE  \/ Activated(c)[u] = c[u]
         \/ /\ u \in ToReview(c) /\ c[u] # None
            /\ c[u].approval \in {"approved", "draft", "pending"}
            /\ Activated(c)[u] = ReviewedRow(c[u])
BY DEF Activated, ToReview

-----------------------------------------------------------------------------
(* The tables. *)

\* Appending keeps the earlier elements.
LEMMA Appended ==
  ASSUME NEW S, NEW s \in Seq(S), NEW e \in S
  PROVE  /\ Append(s, e) \in Seq(S) /\ DOMAIN s \subseteq DOMAIN Append(s, e)
         /\ Len(s) + 1 \in DOMAIN Append(s, e) /\ Append(s, e)[Len(s) + 1] = e
         /\ \A i \in DOMAIN s : Append(s, e)[i] = s[i]
<1>1. /\ Append(s, e) \in Seq(S) /\ Len(Append(s, e)) = Len(s) + 1
      /\ \A i \in 1..Len(s) : Append(s, e)[i] = s[i]
      /\ Append(s, e)[Len(s) + 1] = e
  BY AppendProperties
<1>2. Len(s) \in Nat /\ DOMAIN s = 1..Len(s) /\ DOMAIN Append(s, e) = 1..(Len(s) + 1)
  BY <1>1, LenProperties
<1>3. QED
  BY <1>1, <1>2

\* Rewriting elements keeps the length.
LEMMA Rewritten ==
  ASSUME NEW S, NEW s \in Seq(S), NEW f \in [DOMAIN s -> S]
  PROVE  f \in Seq(S) /\ DOMAIN f = DOMAIN s
<1>1. Len(s) \in Nat /\ DOMAIN s = 1..Len(s)
  BY LenProperties
<1>2. QED
  BY <1>1, SeqDef

\* The steps that write a table.
Writes ==
  \/ \E i \in Ingester, k \in Key : Quarantine(i, k)
  \/ \E i \in Ingester : IngestWrite(i)
  \/ \E u \in Uri : publish_private_capability(u)
  \/ \E u \in Uri, l \in Change : transition_capability(u, l)
  \/ \E u \in Uri, t \in Target : submit_promotion(u, t)
  \/ \E r \in DOMAIN requests, override \in BOOLEAN : approve_request(r, override)
  \/ \E r \in DOMAIN requests, s \in Verdict : decide_request(r, s)
  \/ \E q \in DOMAIN held : ReleaseScan(q)
  \/ ReviewWrite \/ GateWrite \/ ApproveCatalog \/ ReleaseWrite \/ RejectWrite

\* The steps that only read, or end.
Reads ==
  \/ \E i \in Ingester : Discover(i) \/ ReadExisting(i) \/ IngestRaises(i) \/ IngestFails(i)
  \/ \E k \in Key : Edit(k)
  \/ \E u \in Uri : ReviewRead(u)
  \/ \E r \in DOMAIN requests : GateRead(r)
  \/ \E q \in DOMAIN held : RejectCheck(q)
  \/ ReleaseCheck \/ CallEnds \/ UNCHANGED vars

\* Every step writes a table or only reads.
LEMMA Steps ==
  ASSUME [Next]_vars
  PROVE  Writes \/ Reads
BY DEF Next, IngestStep, Writes, Reads

\* What only reads leaves every table as it was.
LEMMA ReadsWriteNothing ==
  ASSUME Reads
  PROVE  UNCHANGED tables
BY Zenon DEF Reads, Discover, ReadExisting, IngestRaises, IngestFails, Edit, ReviewRead, GateRead,
   RejectCheck, ReleaseCheck, CallEnds, vars, tables

\* An item keeps its URI and its content.
HeldKept ==
  /\ held' \in Seq(Item) /\ DOMAIN held \subseteq DOMAIN held'
  /\ \A q \in DOMAIN held : held'[q].uri = held[q].uri /\ held'[q].hash = held[q].hash

\* The part of the type invariant the tables need of the calls in flight.
Types ==
  /\ disk \in [Key -> Content \cup {None}]
  /\ held \in Seq(Item) /\ requests \in Seq(Request) /\ reviews \subseteq Uri \X Content
  /\ ing \in [Ingester -> [at: {"idle", "found", "quarantine"},
                           found: [Key -> Content \cup {None}],
                           seen: [Key -> Content \cup {None}], todo: SUBSET Key]]
  /\ rel = None \/ rel \in [at: {"scanned", "checked"}, item: DOMAIN held]
  /\ rej = None \/ rej \in [item: DOMAIN held]
  /\ rev = None \/ rev \in [request: {None} \cup DOMAIN requests, uri: Uri,
                            hash: Content, passed: BOOLEAN]
  /\ \A i \in Ingester : /\ ing[i].at # "quarantine" => ing[i].todo = {}
                         /\ \A k \in ing[i].todo : ing[i].found[k] # None

\* An update of an item is an item, of the same URI and content.
LEMMA ItemUpdated ==
  ASSUME Types, NEW q \in DOMAIN held, NEW item \in Item, held' = [held EXCEPT ![q] = item],
         item.uri = held[q].uri, item.hash = held[q].hash
  PROVE  HeldKept
<1>1. held \in [DOMAIN held -> Item]
  BY LenProperties DEF Types
<1>2. held' \in [DOMAIN held -> Item]
  BY <1>1
<1>3. held' \in Seq(Item) /\ DOMAIN held' = DOMAIN held
  BY <1>2, Rewritten DEF Types
<1>4. QED
  BY <1>1, <1>3 DEF HeldKept

\* The rows of quarantine and of the review requests, one by one.
LEMMA ItemsTyped ==
  ASSUME Types
  PROVE  /\ \A q \in DOMAIN held : held[q] \in Item
         /\ \A r \in DOMAIN requests : requests[r] \in Request
         /\ held \in [DOMAIN held -> Item] /\ requests \in [DOMAIN requests -> Request]
BY LenProperties DEF Types

\* No step takes an item out of quarantine's table or changes what it is for.
LEMMA HeldStep ==
  ASSUME Types, [Next]_vars
  PROVE  HeldKept
<1>0. held' = held => HeldKept
  BY DEF Types, HeldKept
<1>1. ASSUME NEW i \in Ingester, NEW k \in Key, Quarantine(i, k), held' # held
      PROVE  HeldKept
  <2>1. ing[i] \in [at: {"idle", "found", "quarantine"},
                    found: [Key -> Content \cup {None}],
                    seen: [Key -> Content \cup {None}], todo: SUBSET Key]
    BY DEF Types
  <2>2. ing[i].found[k] \in Content
    BY <1>1, <2>1 DEF Quarantine, Types
  <2>3. held' = Append(held, [uri |-> Home(k), hash |-> ing[i].found[k],
                              status |-> "quarantined", scanned |-> None])
    BY <1>1 DEF Quarantine
  <2>4. [uri |-> Home(k), hash |-> ing[i].found[k],
         status |-> "quarantined", scanned |-> None] \in Item
    BY <2>2, Uris DEF Item
  <2>5. QED
    BY <2>3, <2>4, Appended DEF HeldKept, Types
<1>2. ASSUME NEW q \in DOMAIN held, ReleaseScan(q)
      PROVE  HeldKept
  <2>1. held[q] \in Item /\ KeyOf(held[q].uri) \in Key
    BY ItemsTyped, Uris DEF Item
  <2>2. disk[KeyOf(held[q].uri)] \in Content \cup {None}
    BY <2>1 DEF Types
  <2>3. [held[q] EXCEPT !.scanned = disk[KeyOf(held[q].uri)]] \in Item
    BY <2>1, <2>2 DEF Item
  <2>4. QED
    BY Zenon, <1>2, <2>1, <2>3, ItemUpdated DEF ReleaseScan, Item
<1>3. ASSUME ReleaseWrite \/ RejectWrite
      PROVE  HeldKept
  <2>1. PICK q \in DOMAIN held, s \in {"released", "rejected"} : held' = [held EXCEPT ![q].status = s]
    BY <1>3 DEF ReleaseWrite, RejectWrite, Types
  <2>2. held[q] \in Item
    BY ItemsTyped
  <2>3. [held[q] EXCEPT !.status = s] \in Item
    BY <2>2 DEF Item
  <2>4. QED
    BY Zenon, <2>1, <2>2, <2>3, ItemUpdated DEF Item
<1>4. ASSUME Writes, held' # held
      PROVE  HeldKept
  BY Zenon, <1>1, <1>2, <1>3, <1>4 DEF Writes, IngestWrite, publish_private_capability,
     transition_capability, submit_promotion, approve_request, decide_request, ReviewWrite,
     GateWrite, ApproveCatalog
<1>5. QED
  BY <1>0, <1>4, Steps, ReadsWriteNothing DEF tables

\* No step takes a request or a review away.
LEMMA RequestsStep ==
  ASSUME Types, [Next]_vars
  PROVE  requests' \in Seq(Request) /\ DOMAIN requests \subseteq DOMAIN requests'
<1> DEFINE Goal == requests' \in Seq(Request) /\ DOMAIN requests \subseteq DOMAIN requests'
<1>0. requests' = requests => Goal
  BY DEF Types
<1>a. ASSUME requests' \in [DOMAIN requests -> Request] PROVE Goal
  BY <1>a, Rewritten DEF Types
<1>r. requests \in [DOMAIN requests -> Request]
  BY ItemsTyped
<1>1. ASSUME NEW i \in Ingester, IngestWrite(i) PROVE Goal
  <2>1. ASSUME NEW r \in DOMAIN requests
        PROVE  Migrated(ing[i].found)[r] \in Request
    <3>1. requests[r] \in Request /\ KeyOf(requests[r].uri) \in Key
      BY ItemsTyped, Uris DEF Request
    <3>2. Address(KeyOf(requests[r].uri)) \in Uri
      BY <3>1, AddressOf
    <3>3. [requests[r] EXCEPT !.uri = Address(KeyOf(requests[r].uri))] \in Request
      BY <3>1, <3>2 DEF Request
    <3>4. QED
      BY <3>1, <3>3 DEF Migrated
  <2>2. Migrated(ing[i].found) \in [DOMAIN requests -> Request]
    <3>1. Migrated(ing[i].found) = [r \in DOMAIN requests |-> Migrated(ing[i].found)[r]]
      BY DEF Migrated
    <3>2. QED
      BY <2>1, <3>1
  <2>3. QED
    BY <1>1, <1>a, <2>2 DEF IngestWrite
<1>2. ASSUME NEW u \in Uri, NEW t \in Target, submit_promotion(u, t) PROVE Goal
  <2>1. [uri |-> u, target |-> t, gates |-> "pending", state |-> "pending"] \in Request
    BY DEF Request
  <2>2. QED
    BY <1>2, <2>1, Appended DEF submit_promotion, Types
<1>3. ASSUME NEW r \in DOMAIN requests, NEW override \in BOOLEAN, approve_request(r, override)
      PROVE  Goal
  <2>1. requests[r] \in Request /\ KeyOf(requests[r].uri) \in Key
    BY ItemsTyped, Uris DEF Request
  <2>2. GatesAtApproval(r) \in {"pending", "passed", "failed"}
    BY <2>1 DEF GatesAtApproval, Request
  <2>3. \A v \in Uri : [requests[r] EXCEPT !.uri = v, !.state = "approved",
                                           !.gates = GatesAtApproval(r)] \in Request
    BY Zenon, <2>1, <2>2 DEF Request
  <2>4. requests[r].uri \in Uri /\ <<requests[r].target, KeyOf(requests[r].uri)>> \in Uri
    BY <2>1, Uris DEF Request
  <2>5. PICK item \in Request : requests' = [requests EXCEPT ![r] = item]
    BY Zenon, <1>3, <2>3, <2>4 DEF approve_request
  <2>6. QED
    BY <1>a, <1>r, <2>5
<1>4. ASSUME NEW r \in DOMAIN requests, NEW s \in Verdict, decide_request(r, s) PROVE Goal
  <2>1. [requests[r] EXCEPT !.state = s] \in Request
    BY ItemsTyped, CatalogAssumption DEF Request
  <2>2. QED
    BY <1>4, <1>a, <1>r, <2>1 DEF decide_request
<1>5. ASSUME GateWrite PROVE Goal
  <2>1. rev.request \in DOMAIN requests
    BY Zenon, <1>5 DEF GateWrite, Types
  <2>2. PICK r \in DOMAIN requests, g \in {"passed", "failed"} :
          requests' = [requests EXCEPT ![r].gates = g]
    BY Zenon, <1>5, <2>1 DEF GateWrite
  <2>3. [requests[r] EXCEPT !.gates = g] \in Request
    BY ItemsTyped DEF Request
  <2>4. QED
    BY <1>a, <1>r, <2>2, <2>3
<1>6. ASSUME Writes, requests' # requests PROVE Goal
  BY Zenon, <1>1, <1>2, <1>3, <1>4, <1>5, <1>6 DEF Writes, Quarantine, publish_private_capability,
     transition_capability, ReleaseScan, ReviewWrite, ApproveCatalog, ReleaseWrite, RejectWrite
<1>7. QED
  BY <1>0, <1>6, Steps, ReadsWriteNothing DEF tables

\* What an ingest has decided about a source: the content of the row it has
\* seen was quarantined once, and so is what it has dealt with.
Screening ==
  \A i \in Ingester, k \in Key : ing[i].at = "quarantine" =>
    /\ ing[i].seen[k] # None => Quarantined(k, ing[i].seen[k])
    /\ ing[i].found[k] # None /\ k \notin ing[i].todo => Quarantined(k, ing[i].found[k])

\* When nothing is left to do, every source found is screened.
LEMMA ScreenedNow ==
  ASSUME Types, Screening, NEW i \in Ingester, ing[i].at = "quarantine", ing[i].todo = {}
  PROVE  Screened(ing[i].found)
<1>1. ing[i].found \in [Key -> Content \cup {None}]
  BY DEF Types
<1>2. QED
  BY <1>1 DEF Screening, Screened

\* The keys a review batch records are those of rows.
LEMMA BatchReviews ==
  ASSUME NEW c \in [Uri -> Row \cup {None}]
  PROVE  {<<u, c[u].hash>> : u \in ToReview(c)} \subseteq Uri \X Content
BY DEF ToReview, Row

\* No step takes a review away.
LEMMA ReviewsStep ==
  ASSUME Types, Filed, Screening, [Next]_vars
  PROVE  reviews \subseteq reviews' /\ reviews' \subseteq Uri \X Content
<1> DEFINE Goal == reviews \subseteq reviews' /\ reviews' \subseteq Uri \X Content
<1>0. reviews' = reviews => Goal
  BY DEF Types
<1>1. ASSUME NEW i \in Ingester, IngestWrite(i) PROVE Goal
  <2>1. PICK c : c = Upserted(ing[i].found)
    OBVIOUS
  <2>2. Screened(ing[i].found)
    BY <1>1, ScreenedNow DEF IngestWrite
  <2>3. c \in [Uri -> Row \cup {None}]
    BY <2>1, <2>2, UpsertedSound
  <2>4. reviews' = reviews \/ reviews' = reviews \cup {<<u, c[u].hash>> : u \in ToReview(c)}
    BY <1>1, <2>1 DEF IngestWrite
  <2>5. QED
    BY <2>3, <2>4, BatchReviews DEF Types
<1>2. ASSUME ApproveCatalog PROVE Goal
  BY <1>2, BatchReviews DEF ApproveCatalog, Types, Filed
<1>3. ASSUME ReviewWrite \/ GateWrite PROVE Goal
  <2>1. <<rev.uri, rev.hash>> \in Uri \X Content
    BY Zenon, <1>3 DEF ReviewWrite, GateWrite, Types
  <2>2. reviews' = reviews \/ reviews' = reviews \cup {<<rev.uri, rev.hash>>}
    BY Zenon, <1>3 DEF ReviewWrite, GateWrite
  <2>3. QED
    BY <2>1, <2>2 DEF Types
<1>4. ASSUME Writes, reviews' # reviews PROVE Goal
  BY Zenon, <1>1, <1>2, <1>3, <1>4 DEF Writes, Quarantine, publish_private_capability,
     transition_capability, submit_promotion, approve_request, decide_request, ReleaseScan,
     ReleaseWrite, RejectWrite
<1>5. QED
  BY <1>0, <1>4, Steps, ReadsWriteNothing DEF tables

\* So what was quarantined and reviewed remains so.
LEMMA GrownStep ==
  ASSUME Types, Filed, Screening, [Next]_vars
  PROVE  Grown
<1>1. HeldKept
  BY HeldStep
<1>2. ASSUME NEW k, NEW h, Quarantined(k, h) PROVE Quarantined(k, h)'
  BY <1>1, <1>2 DEF Quarantined, HeldKept
<1>3. ASSUME NEW k, NEW h, Reviewed(k, h) PROVE Reviewed(k, h)'
  BY <1>3, ReviewsStep DEF Reviewed
<1>4. QED
  BY <1>2, <1>3 DEF Grown

\* The write transaction of an ingest, with or without the approval.
LEMMA FiledIngest ==
  ASSUME Types, Filed, Screening, Grown, NEW i \in Ingester, IngestWrite(i)
  PROVE  Filed'
<1>1. PICK c : c = Upserted(ing[i].found)
  OBVIOUS
<1>2. Screened(ing[i].found)
  BY ScreenedNow DEF IngestWrite
<1>3. /\ c \in [Uri -> Row \cup {None}] /\ OneRow(c)
      /\ \A u \in Uri : c[u] # None => Sound(KeyOf(u), c[u])
  BY <1>1, <1>2, UpsertedSound
<1>4. CASE caps' = c
  <2>1. \A u \in Uri : c[u] # None => Sound(KeyOf(u), c[u])'
    BY <1>3, SoundStays
  <2>2. QED
    BY Zenon, <1>3, <1>4, <2>1 DEF Filed, OneRow, Sound, Quarantined, Reviewed
<1>5. CASE /\ caps' = Activated(c)
           /\ reviews' = reviews \cup {<<u, c[u].hash>> : u \in ToReview(c)}
  <2>1. ASSUME NEW u \in Uri
        PROVE  \/ caps'[u] = c[u]
               \/ /\ c[u] # None /\ caps'[u] = ReviewedRow(c[u])
                  /\ <<u, c[u].hash>> \in reviews'
    BY <1>5, ActivatedAt
  <2>2. ASSUME NEW u \in Uri, caps'[u] # None
        PROVE  Sound(KeyOf(u), caps[u])'
    <3>1. PICK k, r : k = KeyOf(u) /\ r = caps'[u]
      OBVIOUS
    <3>2. CASE r = c[u]
      <4>1. Sound(k, r)'
        BY <1>3, <2>2, <3>1, <3>2, SoundStays
      <4>2. QED
        BY <3>1, <4>1 DEF Sound, Quarantined, Reviewed
    <3>3. CASE c[u] # None /\ r = ReviewedRow(c[u]) /\ <<u, c[u].hash>> \in reviews'
      <4>1. Sound(k, c[u]) /\ c[u] \in Row
        BY <1>3, <3>1, <3>3 DEF Sound
      <4>2. r \in Row /\ r.hash = c[u].hash /\ r.lifecycle = "published"
        BY <3>3, <4>1, RowsWritten
      <4>3. Quarantined(k, r.hash)'
        BY <4>1, <4>2 DEF Sound, Grown
      <4>4. Reviewed(k, r.hash)'
        BY <3>1, <3>3, <4>2 DEF Reviewed
      <4>5. QED
        BY <3>1, <4>2, <4>3, <4>4 DEF Sound, Quarantined, Reviewed
    <3>4. QED
      BY <2>1, <3>1, <3>2, <3>3
  <2>3. caps' \in [Uri -> Row \cup {None}]
    <3>1. ASSUME NEW u \in Uri PROVE caps'[u] \in Row \cup {None}
      <4>1. c[u] # None => c[u] \in Row /\ ReviewedRow(c[u]) \in Row
        <5>1. c[u] \in Row \cup {None}
          BY <1>3
        <5>2. QED
          BY <5>1, RowsWritten
      <4>2. QED
        BY Zenon, <2>1, <4>1
    <3>2. caps' = [u \in Uri |-> caps'[u]]
      BY <1>5 DEF Activated
    <3>3. QED
      BY <3>1, <3>2
  <2>4. OneRow(caps)'
    BY Zenon, <1>3, <2>1 DEF OneRow
  <2>5. QED
    BY <2>2, <2>3, <2>4 DEF Filed
<1>6. QED
  BY <1>1, <1>4, <1>5 DEF IngestWrite

\* An approved promotion moves the row, or approves it where it is.
LEMMA FiledApproval ==
  ASSUME Types, Filed, Grown, NEW r \in DOMAIN requests, NEW override \in BOOLEAN,
         approve_request(r, override)
  PROVE  Filed'
<1>1. PICK u \in Uri, v \in Uri :
        /\ u = requests[r].uri /\ KeyOf(v) = KeyOf(u)
        /\ caps[u] = None => v = u
        /\ v = u \/ caps[v] = None
        /\ caps' = [w \in Uri |-> CASE w = v /\ caps[u] # None -> PromotedRow(caps[u])
                                    [] w = u /\ w # v -> None
                                    [] OTHER -> caps[w]]
  <2>1. requests[r] \in Request
    BY ItemsTyped
  <2>2. PICK u \in Uri, t \in Target : u = requests[r].uri /\ t = requests[r].target
    BY <2>1 DEF Request
  <2>3. <<t, KeyOf(u)>> \in Uri /\ KeyOf(<<t, KeyOf(u)>>) = KeyOf(u)
    BY Uris
  <2>4. PICK v : v = IF caps[u] = None THEN u ELSE <<t, KeyOf(u)>>
    BY Zenon
  <2>5. QED
    BY <2>2, <2>3, <2>4 DEF approve_request
<1>2. Production => caps[u] # None /\ caps[u].evidence = "verified"
  BY <1>1 DEF approve_request, MayApprove
<1>3. ASSUME NEW w \in Uri
      PROVE  \/ w = v /\ caps[u] # None /\ caps'[w] = PromotedRow(caps[u])
             \/ caps'[w] = None
             \/ caps'[w] = caps[w] /\ (w = u => caps[u] = None)
  BY <1>1
<1>4. caps[u] # None => caps[u] \in Row /\ Sound(KeyOf(u), caps[u])
  BY DEF Filed, Sound
<1>5. caps' \in [Uri -> Row \cup {None}]
  <2>1. \A w \in Uri : caps'[w] \in Row \cup {None}
    <3>1. \A w \in Uri : caps[w] \in Row \cup {None}
      BY DEF Filed
    <3>2. caps[u] # None => PromotedRow(caps[u]) \in Row
      BY <1>4, RowsWritten
    <3>3. QED
      BY <1>3, <3>1, <3>2
  <2>2. caps' = [w \in Uri |-> caps'[w]]
    BY <1>1
  <2>3. QED
    BY <2>1, <2>2
<1>6. OneRow(caps)'
  <2>1. \A w \in Uri : KeyOf(w) = KeyOf(u) /\ caps'[w] # None =>
          \/ w = v /\ caps[u] # None
          \/ caps[u] = None /\ caps[w] # None
    BY <1>1, <1>3 DEF Filed, OneRow
  <2>2. \A w \in Uri : KeyOf(w) # KeyOf(u) /\ caps'[w] # None => caps[w] # None
    BY <1>1, <1>3
  <2>3. QED
    BY <2>1, <2>2 DEF Filed, OneRow
<1>7. ASSUME NEW w \in Uri, caps'[w] # None
      PROVE  Sound(KeyOf(w), caps[w])'
  <2>1. PICK k, s : k = KeyOf(w) /\ s = caps'[w]
    OBVIOUS
  <2>2. Sound(k, s)'
    <3>1. CASE w = v /\ caps[u] # None /\ s = PromotedRow(caps[u])
      <4>1. s \in Row /\ s.hash = caps[u].hash /\ s.lifecycle \in {caps[u].lifecycle, "published"}
            /\ (s.evidence = "verified" => caps[u].evidence = "verified")
        BY <1>4, <3>1, RowsWritten
      <4>2. k = KeyOf(u) /\ Sound(k, caps[u])
        BY <1>1, <1>4, <2>1, <3>1
      <4>3. s.lifecycle # "recalled" /\ Quarantined(k, s.hash)
        BY <4>1, <4>2 DEF Sound
      <4>4. s.evidence = "verified" \/ (Production /\ s.approval = "approved")
              => Reviewed(k, s.hash)
        BY <1>2, <4>1, <4>2 DEF Sound
      <4>5. Sound(k, s)
        BY <4>1, <4>3, <4>4 DEF Sound
      <4>6. QED
        BY <4>5, SoundStays
    <3>2. CASE s = caps[w]
      BY <1>7, <2>1, <3>2, SoundStays DEF Filed
    <3>3. QED
      BY <1>3, <1>7, <2>1, <3>1, <3>2
  <2>3. QED
    BY <2>1, <2>2 DEF Sound, Quarantined, Reviewed
<1>8. QED
  BY <1>5, <1>6, <1>7 DEF Filed

\* The rows stay filed, one per key, and sound.
LEMMA FiledStep ==
  ASSUME Types, Filed, Screening, [Next]_vars
  PROVE  Filed'
<1>g. Grown
  BY GrownStep
<1>c. caps \in [Uri -> Row \cup {None}] /\ caps = [u \in Uri |-> caps[u]]
  BY DEF Filed
<1>s. \A u \in Uri : caps[u] # None => caps[u] \in Row /\ caps[u].lifecycle # "recalled"
  BY DEF Filed, Sound
<1>0. CASE caps' = caps
  <2>1. caps' = [u \in Uri |-> caps'[u]] /\ \A u \in Uri : caps'[u] = caps[u]
    BY <1>0, <1>c
  <2>2. QED
    BY <1>g, <2>1, InPlace
<1>1. ASSUME NEW u \in Uri, publish_private_capability(u) PROVE Filed'
  <2>1. /\ caps[u] # None
        /\ caps' = [caps EXCEPT ![u] = [caps[u] EXCEPT !.lifecycle = "published",
                                                       !.approval = "draft"]]
    BY Zenon, <1>1 DEF publish_private_capability, Visible
  <2>2. PICK row : row = [caps[u] EXCEPT !.lifecycle = "published", !.approval = "draft"]
    OBVIOUS
  <2>3. /\ row \in Row /\ row.hash = caps[u].hash /\ row.evidence = caps[u].evidence
        /\ row.lifecycle = "published" /\ row.approval = "draft"
    BY Zenon, <1>s, <2>1, <2>2 DEF Row, Lifecycle
  <2>4. caps' = [caps EXCEPT ![u] = row]
    BY <2>1, <2>2
  <2>5. QED
    BY Zenon, <1>c, <1>g, <2>1, <2>3, <2>4, InPlace
<1>2. ASSUME NEW u \in Uri, NEW l \in Change, transition_capability(u, l) PROVE Filed'
  <2>1. /\ caps[u] # None /\ is_valid_transition(caps[u].lifecycle, l)
        /\ caps' = [caps EXCEPT ![u] = [caps[u] EXCEPT !.lifecycle = l]]
    BY <1>2 DEF transition_capability
  <2>2. PICK row : row = [caps[u] EXCEPT !.lifecycle = l]
    BY Zenon
  <2>3. l \in Lifecycle /\ caps[u] \in Row /\ caps[u].lifecycle \in Lifecycle
    BY <1>s, <2>1, CatalogAssumption DEF Row
  <2>4. l # "recalled"
    BY <1>s, <2>1, <2>3, TransitionTable DEF is_valid_transition
  <2>5. /\ row \in Row /\ row.hash = caps[u].hash /\ row.evidence = caps[u].evidence
        /\ row.lifecycle = l /\ row.approval = caps[u].approval
    BY <2>2, <2>3 DEF Row
  <2>6. caps' = [caps EXCEPT ![u] = row]
    BY <2>1, <2>2
  <2>7. QED
    BY <1>c, <1>g, <2>1, <2>4, <2>5, <2>6, InPlace
<1>3. ASSUME NEW u \in Uri, caps[u] # None,
             NEW a \in {"pending", "rejected", "recalled", "demoted", "yanked"},
             caps' = [caps EXCEPT ![u].approval = a]
      PROVE  Filed'
  <2>1. PICK row : row = [caps[u] EXCEPT !.approval = a]
    BY Zenon
  <2>2. /\ row \in Row /\ row.hash = caps[u].hash /\ row.evidence = caps[u].evidence
        /\ row.lifecycle # "recalled" /\ row.approval # "approved"
    BY <1>s, <1>3, <2>1 DEF Row
  <2>3. caps' = [caps EXCEPT ![u] = row]
    BY <1>3, <2>1
  <2>4. QED
    BY Zenon, <1>c, <1>g, <1>3, <2>2, <2>3, InPlace
<1>4. ASSUME NEW u \in Uri, NEW t \in Target, submit_promotion(u, t) PROVE Filed'
  BY Zenon, <1>3, <1>4 DEF submit_promotion
<1>5. ASSUME NEW r \in DOMAIN requests, NEW s \in Verdict, decide_request(r, s) PROVE Filed'
  <2>1. requests[r].uri \in Uri /\ s \in {"rejected", "recalled", "demoted", "yanked"}
    BY ItemsTyped, CatalogAssumption DEF Request
  <2>2. caps' = caps \/ (caps[requests[r].uri] # None
                         /\ caps' = [caps EXCEPT ![requests[r].uri].approval = s])
    BY <1>5 DEF decide_request
  <2>3. QED
    BY <1>0, <1>3, <2>1, <2>2
<1>6. ASSUME NEW h \in Content, NEW x \in Uri, <<x, h>> \in reviews',
             caps' = [u \in Uri |-> caps'[u]],
             \A u \in Uri :
               \/ caps'[u] = caps[u]
               \/ /\ u = x /\ caps[u] # None /\ caps'[u] \in Row
                  /\ caps[u].hash = h /\ caps'[u].hash = h
                  /\ caps'[u].lifecycle \in {caps[u].lifecycle, "published"}
      PROVE  Filed'
  <2>1. ASSUME NEW u \in Uri
        PROVE  \/ caps'[u] = caps[u]
               \/ /\ caps[u] # None /\ caps'[u] \in Row
                  /\ caps'[u].hash = caps[u].hash /\ caps'[u].lifecycle # "recalled"
                  /\ Reviewed(KeyOf(u), caps[u].hash)'
    <3>1. CASE caps'[u] # caps[u]
      <4>1. Reviewed(KeyOf(u), caps[u].hash)'
        BY <1>6, <3>1 DEF Reviewed
      <4>2. QED
        BY <1>6, <1>s, <3>1, <4>1
    <3>2. QED
      BY <3>1
  <2>2. QED
    BY <1>6, <1>g, <2>1, InPlace
<1>7. ASSUME ReviewWrite PROVE Filed'
  <2>1. rev.uri \in Uri /\ rev.hash \in Content /\ <<rev.uri, rev.hash>> \in reviews'
    BY <1>7 DEF ReviewWrite, Types
  <2>2. PICK x \in Uri, h \in Content : x = rev.uri /\ h = rev.hash
    BY <2>1
  <2>3. caps' = [u \in Uri |-> IF u = x /\ caps[u] # None /\ caps[u].hash = h
                               THEN ReviewedRow(caps[u]) ELSE caps[u]]
    BY <1>7, <2>2 DEF ReviewWrite
  <2>4. \A u \in Uri : caps[u] # None => /\ ReviewedRow(caps[u]) \in Row
                                         /\ ReviewedRow(caps[u]).hash = caps[u].hash
                                         /\ ReviewedRow(caps[u]).lifecycle = "published"
    BY <1>s, RowsWritten
  <2>5. caps' = [u \in Uri |-> caps'[u]]
    BY <2>3
  <2>6. QED
    BY <1>6, <2>1, <2>2, <2>3, <2>4, <2>5
<1>8. ASSUME GateWrite PROVE Filed'
  <2>1. rev.uri \in Uri /\ rev.hash \in Content
    BY Zenon, <1>8 DEF GateWrite, Types
  <2>2. PICK x \in Uri, h \in Content : x = rev.uri /\ h = rev.hash
    BY <2>1
  <2>3. CASE ~rev.passed
    <3>1. caps' = [u \in Uri |-> caps[u]]
      BY <1>8, <2>3 DEF GateWrite
    <3>2. QED
      BY <1>0, <1>c, <3>1
  <2>4. CASE rev.passed
    <3>1. /\ <<x, h>> \in reviews'
          /\ caps' = [u \in Uri |-> IF u = x /\ caps[u] # None /\ caps[u].hash = h
                        THEN [caps[u] EXCEPT !.evidence = "verified", !.risk = "approved"]
                        ELSE caps[u]]
      BY Zenon, <1>8, <2>2, <2>4 DEF GateWrite
    <3>3. caps' = [u \in Uri |-> caps'[u]]
      BY Zenon, <3>1
    <3>4. ASSUME NEW u \in Uri, caps'[u] # caps[u]
          PROVE  /\ u = x /\ caps[u] # None /\ caps'[u] \in Row
                 /\ caps[u].hash = h /\ caps'[u].hash = h
                 /\ caps'[u].lifecycle = caps[u].lifecycle
      <4>1. /\ u = x /\ caps[u] # None /\ caps[u].hash = h
            /\ caps'[u] = [caps[u] EXCEPT !.evidence = "verified", !.risk = "approved"]
        BY Zenon, <3>1, <3>4
      <4>2. caps[u] \in Row
        BY <1>s, <4>1
      <4>3. /\ [caps[u] EXCEPT !.evidence = "verified", !.risk = "approved"] \in Row
            /\ [caps[u] EXCEPT !.evidence = "verified", !.risk = "approved"].hash = caps[u].hash
            /\ [caps[u] EXCEPT !.evidence = "verified", !.risk = "approved"].lifecycle
                 = caps[u].lifecycle
        BY Zenon, <4>2 DEF Row
      <4>4. QED
        BY <4>1, <4>3
    <3>5. QED
      BY Zenon, <1>6, <3>1, <3>3, <3>4
  <2>5. QED
    BY <2>3, <2>4
<1>9. ASSUME ReleaseWrite \/ RejectWrite PROVE Filed'
  <2>1. PICK q, l, a : /\ l \in {"active", "disabled"} /\ a \in {"published", "rejected"}
                       /\ caps' = Decided(q, l, a)
    <3>1. CASE ReleaseWrite
      <4>1. caps' = Decided(rel.item, "active", "published")
        BY <3>1 DEF ReleaseWrite
      <4>2. QED
        BY <4>1
    <3>2. CASE RejectWrite
      <4>1. caps' = Decided(rej.item, "disabled", "rejected")
        BY <3>2 DEF RejectWrite
      <4>2. QED
        BY <4>1
    <3>3. QED
      BY <1>9, <3>1, <3>2
  <2>2. ASSUME NEW row \in Row
        PROVE  LET new == [row EXCEPT !.lifecycle = l, !.approval = a] IN
               /\ new \in Row /\ new.hash = row.hash /\ new.evidence = row.evidence
               /\ new.lifecycle = l /\ new.approval = a
    BY Zenon, <2>1 DEF Row, Lifecycle
  <2>3. \A u \in Uri : \/ caps'[u] = caps[u]
                       \/ /\ caps[u] # None
                          /\ caps'[u] = [caps[u] EXCEPT !.lifecycle = l, !.approval = a]
    BY Zenon, <2>1 DEF Decided
  <2>4. caps' = [u \in Uri |-> caps'[u]]
    BY Zenon, <2>1 DEF Decided
  <2>5. \A u \in Uri : \/ caps'[u] = caps[u]
                       \/ /\ caps[u] # None /\ caps'[u] \in Row
                          /\ caps'[u].hash = caps[u].hash /\ caps'[u].lifecycle = l
                          /\ caps'[u].evidence = caps[u].evidence /\ caps'[u].approval = a
    <3>1. ASSUME NEW u \in Uri, caps'[u] # caps[u]
          PROVE  /\ caps[u] # None /\ caps'[u] \in Row
                 /\ caps'[u].hash = caps[u].hash /\ caps'[u].lifecycle = l
                 /\ caps'[u].evidence = caps[u].evidence /\ caps'[u].approval = a
      <4>1. /\ caps[u] # None /\ caps[u] \in Row
            /\ caps'[u] = [caps[u] EXCEPT !.lifecycle = l, !.approval = a]
        BY Zenon, <1>s, <2>3, <3>1
      <4>2. QED
        BY Zenon, <2>2, <4>1
    <3>2. QED
      BY <3>1
  <2>6. QED
    BY <1>g, <2>1, <2>4, <2>5, InPlace
<1>10. ASSUME ApproveCatalog PROVE Filed'
  <2>1. /\ caps' = Activated(caps)
        /\ reviews' = reviews \cup {<<u, caps[u].hash>> : u \in ToReview(caps)}
    BY <1>10 DEF ApproveCatalog
  <2>2. caps' = [u \in Uri |-> caps'[u]]
    BY <2>1 DEF Activated
  <2>3. ASSUME NEW u \in Uri, caps'[u] # caps[u]
        PROVE  /\ caps[u] # None /\ caps'[u] \in Row
               /\ caps'[u].hash = caps[u].hash /\ caps'[u].lifecycle = "published"
               /\ Reviewed(KeyOf(u), caps[u].hash)'
    <3>1. u \in ToReview(caps) /\ caps[u] # None /\ caps'[u] = ReviewedRow(caps[u])
      BY <2>1, <2>3, ActivatedAt
    <3>2. <<u, caps[u].hash>> \in reviews'
      BY <2>1, <3>1
    <3>3. caps'[u] \in Row /\ caps'[u].hash = caps[u].hash /\ caps'[u].lifecycle = "published"
      BY <1>s, <3>1, RowsWritten
    <3>4. QED
      BY <3>1, <3>2, <3>3 DEF Reviewed
  <2>4. QED
    BY <1>g, <2>2, <2>3, InPlace
<1>11. CASE Writes
  BY Zenon, <1>0, <1>1, <1>2, <1>4, <1>5, <1>7, <1>8, <1>9, <1>10, <1>11, <1>g,
     FiledIngest, FiledApproval DEF Writes, Quarantine, ReleaseScan
<1>12. QED
  BY <1>0, <1>11, Steps, ReadsWriteNothing DEF tables

-----------------------------------------------------------------------------
(* What the calls in flight hold. *)

Run == [at: {"idle", "found", "quarantine"}, found: [Key -> Content \cup {None}],
        seen: [Key -> Content \cup {None}], todo: SUBSET Key]

\* How the record of an ingest changes: it ends, reads the sources, reads the
\* rows, or deals with one source.
RunChange(i) ==
  \/ ing'[i] = ing[i]
  \/ ing'[i] = Idle
  \/ /\ ing[i].at = "idle"
     /\ ing'[i] = [ing[i] EXCEPT !.at = "found", !.found = disk]
  \/ /\ ing'[i] = [ing[i] EXCEPT !.at = "quarantine",
                     !.seen = [k \in Key |-> IF caps[Home(k)] = None THEN None
                                             ELSE caps[Home(k)].hash],
                     !.todo = {k \in Key : ing[i].found[k] # None}]
  \/ \E k \in Key : Quarantine(i, k) /\ ing'[i] = [ing[i] EXCEPT !.todo = @ \ {k}]

\* Every step changes the records of ingests in one of these ways.
LEMMA RunsChange ==
  ASSUME Types, [Next]_vars
  PROVE  ing' = [i \in Ingester |-> ing'[i]] /\ \A i \in Ingester : RunChange(i)
<1> DEFINE Goal == ing' = [i \in Ingester |-> ing'[i]] /\ \A i \in Ingester : RunChange(i)
<1>0. ing = [i \in Ingester |-> ing[i]]
  BY DEF Types
<1>u. ASSUME ing' = ing PROVE Goal
  BY <1>0, <1>u DEF RunChange
<1>1. ASSUME NEW i \in Ingester, NEW run, ing' = [ing EXCEPT ![i] = run],
             ing'[i] = run => RunChange(i)
      PROVE  Goal
  <2>1. ing' = [j \in Ingester |-> ing'[j]] /\ ing'[i] = run
    BY <1>0, <1>1
  <2>2. \A j \in Ingester : j # i => ing'[j] = ing[j]
    BY <1>0, <1>1
  <2>3. \A j \in Ingester : j # i => RunChange(j)
    BY <2>2 DEF RunChange
  <2>4. RunChange(i)
    BY <1>1, <2>1
  <2>5. QED
    BY <2>1, <2>3, <2>4
<1>2. ASSUME NEW i \in Ingester, Discover(i) PROVE Goal
  <2>1. /\ ing[i].at = "idle"
        /\ ing' = [ing EXCEPT ![i] = [ing[i] EXCEPT !.at = "found", !.found = disk]]
    BY Zenon, <1>0, <1>2 DEF Discover
  <2>2. QED
    BY Zenon, <1>1, <2>1 DEF RunChange
<1>3. ASSUME NEW i \in Ingester, ReadExisting(i) PROVE Goal
  <2>1. ing' = [ing EXCEPT ![i] =
                  [ing[i] EXCEPT !.at = "quarantine",
                     !.seen = [k \in Key |-> IF caps[Home(k)] = None THEN None
                                             ELSE caps[Home(k)].hash],
                     !.todo = {k \in Key : ing[i].found[k] # None}]]
    BY Zenon, <1>0, <1>3 DEF ReadExisting
  <2>2. QED
    BY Zenon, <1>1, <2>1 DEF RunChange
<1>4. ASSUME NEW i \in Ingester, NEW k \in Key, Quarantine(i, k) PROVE Goal
  <2>1. ing' = [ing EXCEPT ![i] = [ing[i] EXCEPT !.todo = @ \ {k}]]
    BY <1>0, <1>4 DEF Quarantine
  <2>2. QED
    BY Zenon, <1>1, <1>4, <2>1 DEF RunChange
<1>5. ASSUME NEW i \in Ingester, IngestWrite(i) \/ IngestRaises(i) \/ IngestFails(i) PROVE Goal
  <2>1. ing' = [ing EXCEPT ![i] = Idle]
    BY <1>5 DEF IngestWrite, IngestRaises, IngestFails
  <2>2. QED
    BY Zenon, <1>1, <2>1 DEF RunChange
<1>6. ASSUME Writes, ing' # ing PROVE Goal
  BY Zenon, <1>4, <1>5, <1>6 DEF Writes, publish_private_capability, transition_capability,
     submit_promotion, approve_request, decide_request, ReleaseScan, ReviewWrite, GateWrite,
     ApproveCatalog, ReleaseWrite, RejectWrite
<1>7. ASSUME Reads, ing' # ing PROVE Goal
  BY <1>2, <1>3, <1>5, <1>7 DEF Reads, Edit, ReviewRead, GateRead, RejectCheck, ReleaseCheck,
     CallEnds, vars
<1>8. QED
  BY <1>u, <1>6, <1>7, Steps

\* An ingest keeps knowing that what it lets through was quarantined.
LEMMA ScreeningStep ==
  ASSUME Types, Filed, Screening, [Next]_vars
  PROVE  Screening'
<1> SUFFICES ASSUME NEW i \in Ingester, NEW k \in Key, ing'[i].at = "quarantine"
             PROVE  /\ ing'[i].seen[k] # None => Quarantined(k, ing[i].seen[k])'
                    /\ ing'[i].found[k] # None /\ k \notin ing'[i].todo =>
                         Quarantined(k, ing[i].found[k])'
  BY DEF Screening
<1>g. /\ \A h : Quarantined(k, h) => Quarantined(k, h)'
      /\ HeldKept
  BY GrownStep, HeldStep DEF Grown
<1>r. ing[i] \in Run /\ (ing[i].at # "quarantine" => ing[i].todo = {})
  BY DEF Types, Run
<1>n. PICK seen, found : seen = ing'[i].seen[k] /\ found = ing'[i].found[k]
  OBVIOUS
<1>q. SUFFICES /\ seen # None => Quarantined(k, seen)'
               /\ found # None /\ k \notin ing'[i].todo => Quarantined(k, found)'
  BY <1>n DEF Quarantined
<1>1. CASE ing'[i] = ing[i]
  BY <1>1, <1>g, <1>n DEF Screening
<1>2. CASE ing'[i] = Idle \/ ing'[i] = [ing[i] EXCEPT !.at = "found", !.found = disk]
  <2>1. Idle.at = "idle"
    BY DEF Idle
  <2>2. [ing[i] EXCEPT !.at = "found", !.found = disk].at = "found"
    BY <1>r DEF Run
  <2>3. QED
    BY Zenon, <1>2, <2>1, <2>2
<1>3. CASE ing'[i] = [ing[i] EXCEPT !.at = "quarantine",
                        !.seen = [j \in Key |-> IF caps[Home(j)] = None THEN None
                                                ELSE caps[Home(j)].hash],
                        !.todo = {j \in Key : ing[i].found[j] # None}]
  <2>1. /\ seen = IF caps[Home(k)] = None THEN None ELSE caps[Home(k)].hash
        /\ found = ing[i].found[k]
        /\ ing'[i].todo = {j \in Key : ing[i].found[j] # None}
    BY <1>3, <1>n, <1>r DEF Run
  <2>2. seen # None => Quarantined(k, seen)
    <3>1. Home(k) \in Uri /\ KeyOf(Home(k)) = k
      BY Uris
    <3>2. QED
      BY <2>1, <3>1 DEF Filed, Sound
  <2>3. QED
    BY <1>g, <2>1, <2>2
<1>4. ASSUME NEW j \in Key, Quarantine(i, j), ing'[i] = [ing[i] EXCEPT !.todo = @ \ {j}]
      PROVE  /\ seen # None => Quarantined(k, seen)'
             /\ found # None /\ k \notin ing'[i].todo => Quarantined(k, found)'
  <2>1. /\ seen = ing[i].seen[k] /\ found = ing[i].found[k] /\ ing[i].at = "quarantine"
        /\ ing'[i].todo = ing[i].todo \ {j}
    BY <1>4, <1>n, <1>r DEF Run, Quarantine
  <2>2. seen # None => Quarantined(k, seen)'
    BY <1>g, <2>1 DEF Screening
  <2>3. CASE k # j
    BY <1>g, <2>1, <2>2, <2>3 DEF Screening
  <2>4. CASE k = j /\ found # None
    <3>1. CASE seen = found
      BY <2>2, <2>4, <3>1
    <3>2. CASE IsHeld(Home(k), found)
      <4>1. Quarantined(k, found)
        BY <3>2, Uris DEF IsHeld, Quarantined
      <4>2. QED
        BY <1>g, <2>2, <4>1
    <3>3. CASE held' = Append(held, [uri |-> Home(k), hash |-> found,
                                     status |-> "quarantined", scanned |-> None])
      <4>1. found \in Content
        BY <1>4, <1>r, <2>1, <2>4 DEF Run
      <4>2. [uri |-> Home(k), hash |-> found, status |-> "quarantined", scanned |-> None] \in Item
        BY <4>1, Uris DEF Item
      <4>3. held \in Seq(Item)
        BY DEF Types
      <4>4. PICK q \in DOMAIN held' :
              held'[q] = [uri |-> Home(k), hash |-> found,
                          status |-> "quarantined", scanned |-> None]
        BY <3>3, <4>2, <4>3, Appended
      <4>5. held'[q].uri = Home(k) /\ held'[q].hash = found
        BY <4>4
      <4>6. QED
        BY <2>2, <4>5, Uris DEF Quarantined
    <3>4. QED
      BY <1>4, <2>1, <2>4, <3>1, <3>2, <3>3 DEF Quarantine
  <2>5. QED
    BY <2>2, <2>3, <2>4
<1>5. QED
  <2>1. RunChange(i)
    BY RunsChange
  <2>2. QED
    BY Zenon, <1>1, <1>2, <1>3, <1>4, <2>1 DEF RunChange

\* The calls in flight point into the tables.
LEMMA CallsStep ==
  ASSUME Types, Filed, [Next]_vars
  PROVE  /\ rel' = None \/ rel' \in [at: {"scanned", "checked"}, item: DOMAIN held']
         /\ rej' = None \/ rej' \in [item: DOMAIN held']
         /\ rev' = None \/ rev' \in [request: {None} \cup DOMAIN requests', uri: Uri,
                                     hash: Content, passed: BOOLEAN]
<1>d. DOMAIN held \subseteq DOMAIN held' /\ DOMAIN requests \subseteq DOMAIN requests'
  BY HeldStep, RequestsStep DEF HeldKept
<1>1. rel' = None \/ rel' \in [at: {"scanned", "checked"}, item: DOMAIN held]
  <2>1. CASE rel' = rel
    BY <2>1 DEF Types
  <2>2. ASSUME NEW q \in DOMAIN held, ReleaseScan(q)
        PROVE  rel' \in [at: {"scanned", "checked"}, item: DOMAIN held]
    BY <2>2 DEF ReleaseScan
  <2>3. CASE ReleaseCheck
    BY <2>3 DEF ReleaseCheck, Types
  <2>4. CASE ReleaseWrite \/ CallEnds
    BY <2>4 DEF ReleaseWrite, CallEnds, Types
  <2>5. CASE Writes
    BY Zenon, <2>1, <2>2, <2>4, <2>5 DEF Writes, Quarantine, IngestWrite, publish_private_capability,
       transition_capability, submit_promotion, approve_request, decide_request, ReviewWrite,
       GateWrite, ApproveCatalog, RejectWrite, calls
  <2>6. CASE Reads
    BY Zenon, <2>1, <2>3, <2>4, <2>6 DEF Reads, Discover, ReadExisting, IngestRaises, IngestFails, Edit,
       ReviewRead, GateRead, RejectCheck, vars, calls
  <2>7. QED
    BY <2>5, <2>6, Steps
<1>2. rej' = None \/ rej' \in [item: DOMAIN held]
  <2>1. CASE rej' = rej
    BY <2>1 DEF Types
  <2>2. ASSUME NEW q \in DOMAIN held, RejectCheck(q)
        PROVE  rej' \in [item: DOMAIN held]
    BY <2>2 DEF RejectCheck
  <2>3. CASE RejectWrite \/ CallEnds
    BY <2>3 DEF RejectWrite, CallEnds, Types
  <2>4. CASE Writes
    BY Zenon, <2>1, <2>3, <2>4 DEF Writes, Quarantine, IngestWrite, publish_private_capability,
       transition_capability, submit_promotion, approve_request, decide_request, ReviewWrite,
       GateWrite, ApproveCatalog, ReleaseScan, ReleaseWrite, calls
  <2>5. CASE Reads
    BY Zenon, <2>1, <2>2, <2>3, <2>5 DEF Reads, Discover, ReadExisting, IngestRaises, IngestFails, Edit,
       ReviewRead, GateRead, ReleaseCheck, vars, calls
  <2>6. QED
    BY <2>4, <2>5, Steps
<1>3. rev' = None \/ rev' \in [request: {None} \cup DOMAIN requests, uri: Uri,
                               hash: Content, passed: BOOLEAN]
  <2>1. CASE rev' = rev
    BY <2>1 DEF Types
  <2>2. ASSUME NEW u \in Uri, ReviewRead(u)
        PROVE  rev' \in [request: {None} \cup DOMAIN requests, uri: Uri,
                         hash: Content, passed: BOOLEAN]
    <3>1. caps[u] # None
      BY <2>2 DEF ReviewRead, Visible
    <3>2. caps[u].hash \in Content
      BY <3>1 DEF Filed, Row
    <3>3. QED
      BY <2>2, <3>2 DEF ReviewRead
  <2>3. ASSUME NEW r \in DOMAIN requests, GateRead(r)
        PROVE  rev' \in [request: {None} \cup DOMAIN requests, uri: Uri,
                         hash: Content, passed: BOOLEAN]
    <3>1. requests[r].uri \in Uri /\ caps[requests[r].uri] # None
      BY <2>3, ItemsTyped DEF GateRead, Visible, Request
    <3>2. caps[requests[r].uri].hash \in Content
      BY <3>1 DEF Filed, Row
    <3>3. GatesPass(caps, requests[r].uri) \in BOOLEAN
      BY DEF GatesPass
    <3>4. QED
      BY <2>3, <3>1, <3>2, <3>3 DEF GateRead
  <2>4. CASE ReviewWrite \/ GateWrite \/ CallEnds
    BY Zenon, <2>4 DEF ReviewWrite, GateWrite, CallEnds, Types
  <2>5. CASE Writes
    BY Zenon, <2>1, <2>4, <2>5 DEF Writes, Quarantine, IngestWrite, publish_private_capability,
       transition_capability, submit_promotion, approve_request, decide_request, ReleaseScan,
       ApproveCatalog, ReleaseWrite, RejectWrite, calls
  <2>6. CASE Reads
    BY Zenon, <2>1, <2>2, <2>3, <2>4, <2>6 DEF Reads, Discover, ReadExisting, IngestRaises, IngestFails,
       Edit, RejectCheck, ReleaseCheck, vars, calls
  <2>7. QED
    BY <2>5, <2>6, Steps
<1>4. QED
  BY <1>1, <1>2, <1>3, <1>d

\* Sources, tables and calls keep their types.
LEMMA TypesStep ==
  ASSUME Types, Filed, Screening, [Next]_vars
  PROVE  Types'
<1>1. disk' \in [Key -> Content \cup {None}]
  <2>1. CASE disk' = disk
    BY <2>1 DEF Types
  <2>2. ASSUME NEW k \in Key, Edit(k) PROVE disk' \in [Key -> Content \cup {None}]
    BY <2>2 DEF Edit, Types
  <2>3. CASE Writes
    BY Zenon, <2>1, <2>3 DEF Writes, Quarantine, IngestWrite, publish_private_capability,
       transition_capability, submit_promotion, approve_request, decide_request, ReleaseScan,
       ReviewWrite, GateWrite, ApproveCatalog, ReleaseWrite, RejectWrite
  <2>4. CASE Reads
    BY Zenon, <2>1, <2>2, <2>4 DEF Reads, Discover, ReadExisting, IngestRaises, IngestFails,
       ReviewRead, GateRead, RejectCheck, ReleaseCheck, CallEnds, vars
  <2>5. QED
    BY <2>3, <2>4, Steps
<1>2. ASSUME NEW i \in Ingester
      PROVE  /\ ing'[i] \in Run
             /\ ing'[i].at # "quarantine" => ing'[i].todo = {}
             /\ \A k \in ing'[i].todo : ing'[i].found[k] # None
  <2>0. /\ ing[i] \in Run /\ (ing[i].at # "quarantine" => ing[i].todo = {})
        /\ \A k \in ing[i].todo : ing[i].found[k] # None
    BY DEF Types, Run
  <2>1. CASE ing'[i] = ing[i]
    BY <2>0, <2>1
  <2>2. CASE ing'[i] = Idle
    <3>1. [k \in Key |-> None] \in [Key -> Content \cup {None}]
      OBVIOUS
    <3>2. Idle \in Run /\ Idle.todo = {}
      BY <3>1 DEF Idle, Run
    <3>3. QED
      BY <2>2, <3>2
  <2>3. CASE ing[i].at = "idle" /\ ing'[i] = [ing[i] EXCEPT !.at = "found", !.found = disk]
    <3>1. disk \in [Key -> Content \cup {None}] /\ ing[i].todo = {}
      BY <2>0, <2>3 DEF Types
    <3>2. ing'[i] \in Run /\ ing'[i].todo = {}
      BY Zenon, <2>0, <2>3, <3>1 DEF Run
    <3>3. QED
      BY <3>2
  <2>4. CASE ing'[i] = [ing[i] EXCEPT !.at = "quarantine",
                          !.seen = [k \in Key |-> IF caps[Home(k)] = None THEN None
                                                  ELSE caps[Home(k)].hash],
                          !.todo = {k \in Key : ing[i].found[k] # None}]
    <3>1. \A k \in Key : caps[Home(k)] # None => caps[Home(k)].hash \in Content
      BY Uris DEF Filed, Row
    <3>2. [k \in Key |-> IF caps[Home(k)] = None THEN None ELSE caps[Home(k)].hash]
            \in [Key -> Content \cup {None}]
      BY <3>1
    <3>3. {k \in Key : ing[i].found[k] # None} \in SUBSET Key
      OBVIOUS
    <3>4. /\ ing'[i] \in Run /\ ing'[i].at = "quarantine" /\ ing'[i].found = ing[i].found
          /\ ing'[i].todo = {k \in Key : ing[i].found[k] # None}
      BY Zenon, <2>0, <2>4, <3>2, <3>3 DEF Run
    <3>5. QED
      BY <3>4
  <2>5. ASSUME NEW j \in Key, ing'[i] = [ing[i] EXCEPT !.todo = @ \ {j}]
        PROVE  /\ ing'[i] \in Run
               /\ ing'[i].at # "quarantine" => ing'[i].todo = {}
               /\ \A k \in ing'[i].todo : ing'[i].found[k] # None
    <3>1. /\ ing'[i] \in Run /\ ing'[i].at = ing[i].at /\ ing'[i].found = ing[i].found
          /\ ing'[i].todo = ing[i].todo \ {j}
      BY <2>0, <2>5 DEF Run
    <3>2. QED
      BY <2>0, <3>1
  <2>6. QED
    BY Zenon, <2>1, <2>2, <2>3, <2>4, <2>5, RunsChange DEF RunChange
<1>3. ing' \in [Ingester -> Run]
  BY <1>2, RunsChange
<1>4. held' \in Seq(Item) /\ requests' \in Seq(Request) /\ reviews' \subseteq Uri \X Content
  BY HeldStep, RequestsStep, ReviewsStep DEF HeldKept
<1>5. QED
  BY <1>1, <1>2, <1>3, <1>4, CallsStep DEF Types, Run


\* The generation digest and the bounds.
Tally ==
  /\ gen \in [Uri -> {None} \cup (Content \X {"draft", "pending", "approved",
              "published", "rejected", "recalled", "demoted", "yanked"})]
  /\ edits \in 0..MaxEdits /\ decisions \in 0..MaxDecisions /\ failures \in 0..MaxFailures

\* The digest is taken of the rows; the bounds are kept.
LEMMA TallyStep ==
  ASSUME Tally, Filed', [Next]_vars
  PROVE  Tally'
<1> DEFINE States == {"draft", "pending", "approved", "published", "rejected", "recalled",
                      "demoted", "yanked"}
<1>1. gen' \in [Uri -> {None} \cup (Content \X States)]
  <2>1. CASE gen' = gen
    BY <2>1 DEF Tally
  <2>2. CASE gen' = Generation(caps')
    <3>1. \A u \in Uri : caps'[u] # None => caps'[u] \in Row
      BY DEF Filed
    <3>2. \A u \in Uri : caps'[u] # None => caps'[u].hash \in Content /\ caps'[u].approval \in States
      BY <3>1 DEF Row
    <3>3. gen' = [u \in Uri |-> IF caps'[u] = None THEN None
                                ELSE <<caps'[u].hash, caps'[u].approval>>]
      BY <2>2 DEF Generation
    <3> HIDE DEF States
    <3>4. QED
      BY <3>2, <3>3
  <2>3. CASE Writes
    BY Zenon, <2>1, <2>2, <2>3 DEF Writes, Quarantine, IngestWrite, publish_private_capability,
       transition_capability, submit_promotion, approve_request, decide_request, ReleaseScan,
       ReviewWrite, GateWrite, ApproveCatalog, ReleaseWrite, RejectWrite
  <2>4. QED
    BY <2>1, <2>3, Steps, ReadsWriteNothing DEF tables
<1>2. \/ UNCHANGED bounds
      \/ edits < MaxEdits /\ edits' = edits + 1 /\ UNCHANGED <<decisions, failures>>
      \/ decisions < MaxDecisions /\ decisions' = decisions + 1 /\ UNCHANGED <<edits, failures>>
      \/ failures < MaxFailures /\ failures' = failures + 1 /\ UNCHANGED <<edits, decisions>>
  <2>1. CASE Writes
    BY Zenon, <2>1 DEF Writes, Quarantine, IngestWrite, publish_private_capability,
       transition_capability, submit_promotion, approve_request, decide_request, ReleaseScan,
       ReviewWrite, GateWrite, ApproveCatalog, ReleaseWrite, RejectWrite, bounds
  <2>2. CASE Reads
    BY Zenon, <2>2 DEF Reads, Discover, ReadExisting, IngestRaises, IngestFails, Edit, ReviewRead,
       GateRead, RejectCheck, ReleaseCheck, CallEnds, vars, bounds
  <2>3. QED
    BY <2>1, <2>2, Steps
<1>3. /\ edits' \in 0..MaxEdits /\ decisions' \in 0..MaxDecisions
      /\ failures' \in 0..MaxFailures
  BY <1>2, CatalogAssumption DEF Tally, bounds
<1>4. QED
  BY <1>1, <1>3 DEF Tally

-----------------------------------------------------------------------------
(* Promotion records. *)

\* A step that promotes nothing and moves no request.
LEMMA RecordsKept ==
  ASSUME PromotedHasRecord, DOMAIN requests \subseteq DOMAIN requests',
         \A u \in Uri : caps'[u] # None /\ caps'[u].promoted => caps[u] # None /\ caps[u].promoted,
         \A r \in DOMAIN requests : requests'[r].uri = requests[r].uri
  PROVE  PromotedHasRecord'
BY DEF PromotedHasRecord

\* When ingest moves a row, the requests filed under it go along.
LEMMA RecordsIngest ==
  ASSUME Types, Filed, Screening, PromotedHasRecord, NEW i \in Ingester, IngestWrite(i)
  PROVE  PromotedHasRecord'
<1> SUFFICES ASSUME NEW u \in Uri, caps'[u] # None, caps'[u].promoted
             PROVE  \E r \in DOMAIN requests' : requests'[r].uri = u
  BY DEF PromotedHasRecord
<1>k. PICK k \in Key : k = KeyOf(u)
  BY Uris
<1>1. PICK found, c : found = ing[i].found /\ c = Upserted(found)
  OBVIOUS
<1>2. Screened(found) /\ requests' = Migrated(found) /\ (caps' = c \/ caps' = Activated(c))
  BY <1>1, ScreenedNow DEF IngestWrite
<1>3. c[u] # None /\ c[u].promoted
  <2>1. c \in [Uri -> Row \cup {None}]
    BY <1>1, <1>2, UpsertedSound
  <2>2. CASE caps'[u] = c[u]
    BY <2>2
  <2>3. CASE c[u] # None /\ caps'[u] = ReviewedRow(c[u])
    BY <2>1, <2>3, RowsWritten
  <2>4. \/ caps'[u] = c[u]
        \/ c[u] # None /\ caps'[u] = ReviewedRow(c[u])
    <3>1. CASE caps' = c
      BY ONLY <3>1
    <3>2. CASE caps' = Activated(c)
      BY <3>2, ActivatedAt
    <3>3. QED
      BY ONLY <1>2, <3>1, <3>2
  <2>5. QED
    BY ONLY <2>2, <2>3, <2>4
<1>4. DOMAIN requests' = DOMAIN requests
  BY <1>2 DEF Migrated
<1>r. ASSUME NEW r \in DOMAIN requests
      PROVE  LET q == requests[r] IN
             requests'[r] = IF found[KeyOf(q.uri)] # None /\ q.uri = Previous(KeyOf(q.uri))
                            THEN [q EXCEPT !.uri = Address(KeyOf(q.uri))] ELSE q
  BY <1>2 DEF Migrated
<1>5. CASE found[k] = None /\ c[u] = caps[u]
  <2>1. PICK r \in DOMAIN requests : requests[r].uri = u
    BY <1>3, <1>5 DEF PromotedHasRecord
  <2>2. requests'[r] = requests[r]
    BY Zenon, <1>k, <1>5, <1>r, <2>1
  <2>3. QED
    BY <1>4, <2>1, <2>2
<1>6. CASE found[k] # None /\ c[u] = Discovered(u, found[k])
  <2>1. ~Discovered(u, found[k]).promoted
    BY <1>2, <1>6, RowsWritten DEF Screened
  <2>2. QED
    BY <1>3, <1>6, <2>1
<1>7. CASE /\ found[k] # None /\ u = Address(k)
           /\ Previous(k) \in Uri /\ KeyOf(Previous(k)) = k /\ caps[Previous(k)] # None
           /\ c[u] = Refresh(caps[Previous(k)], Discovered(u, found[k]))
  <2>1. PICK p \in Uri : p = Previous(k)
    BY <1>7
  <2>n. PICK new : new = Discovered(u, found[k])
    OBVIOUS
  <2>2. /\ caps[p] \in Row /\ new \in Row /\ new.evidence = "unchecked"
        /\ new.approval \in {"draft", "pending"}
    <3>1. found[k] \in Content
      BY <1>2, <1>7 DEF Screened
    <3>2. /\ new \in Row /\ new.evidence = "unchecked"
          /\ new.approval \in {"draft", "pending"}
      BY ONLY <3>1, <2>n, u \in Uri, DiscoveredRow
    <3>3. caps[p] \in Row
      BY <1>7, <2>1 DEF Filed, Sound
    <3>4. QED
      BY ONLY <3>2, <3>3
  <2>3. c[u] = Refresh(caps[p], new)
    BY <1>7, <2>1, <2>n
  <2>r. c[u].promoted
    BY <1>3
  <2>4. caps[p].promoted
    BY ONLY <2>r, <2>2, <2>3, RefreshedPromotion
  <2>5. PICK r \in DOMAIN requests : requests[r].uri = p
    BY <1>7, <2>1, <2>4 DEF PromotedHasRecord
  <2>6. requests'[r] = [requests[r] EXCEPT !.uri = u]
    BY <1>7, <1>r, <2>1, <2>5
  <2>7. requests[r] \in Request
    BY ItemsTyped
  <2>8. requests'[r].uri = u
    BY <2>6, <2>7 DEF Request
  <2>9. QED
    BY <1>4, <2>8
<1>8. QED
  <2>1. OneRow(caps)
    BY DEF Filed
  <2>2. \/ found[k] = None /\ c[u] = caps[u]
        \/ found[k] # None /\ c[u] = None
        \/ /\ found[k] # None /\ u = Address(k)
           /\ \/ c[u] = Discovered(u, found[k])
              \/ /\ Previous(k) \in Uri /\ KeyOf(Previous(k)) = k /\ caps[Previous(k)] # None
                 /\ c[u] = Refresh(caps[Previous(k)], Discovered(u, found[k]))
    BY <1>1, <1>k, <2>1, UpsertedAt
  <2>3. QED
    BY <1>3, <1>5, <1>6, <1>7, <2>2

\* The approved request goes where it moves the row.
LEMMA RecordsApproval ==
  ASSUME Types, Filed, PromotedHasRecord, NEW r \in DOMAIN requests,
         NEW override \in BOOLEAN, approve_request(r, override)
  PROVE  PromotedHasRecord'
<1> SUFFICES ASSUME NEW w \in Uri, caps'[w] # None, caps'[w].promoted
             PROVE  \E q \in DOMAIN requests' : requests'[q].uri = w
  BY DEF PromotedHasRecord
<1>1. PICK u, v, item :
        /\ u = requests[r].uri /\ v = IF caps[u] = None THEN u ELSE <<requests[r].target, KeyOf(u)>>
        /\ item = [requests[r] EXCEPT !.uri = v, !.state = "approved", !.gates = GatesAtApproval(r)]
        /\ requests' = [requests EXCEPT ![r] = item]
        /\ caps' = [x \in Uri |-> CASE x = v /\ caps[u] # None -> PromotedRow(caps[u])
                                    [] x = u /\ x # v -> None
                                    [] OTHER -> caps[x]]
  BY Zenon DEF approve_request
<1>2. requests[r] \in Request /\ requests \in [DOMAIN requests -> Request]
  BY ItemsTyped
<1>3. /\ DOMAIN requests' = DOMAIN requests /\ requests'[r] = item
      /\ \A q \in DOMAIN requests : q # r => requests'[q] = requests[q]
  BY <1>1, <1>2
<1>4. item.uri = v
  BY <1>1, <1>2 DEF Request
<1>5. CASE w = v
  BY <1>3, <1>4, <1>5
<1>6. CASE w # v
  <2>1. w # u /\ caps'[w] = caps[w]
    BY <1>1, <1>6
  <2>2. PICK q \in DOMAIN requests : requests[q].uri = w
    BY <2>1 DEF PromotedHasRecord
  <2>3. QED
    BY <1>1, <1>3, <2>1, <2>2
<1>7. QED
  BY <1>5, <1>6

\* No step leaves a promoted row without its request.
LEMMA RecordsStep ==
  ASSUME Types, Filed, Screening, PromotedHasRecord, [Next]_vars
  PROVE  PromotedHasRecord'
<1>r. /\ requests \in [DOMAIN requests -> Request] /\ DOMAIN requests \subseteq DOMAIN requests'
      /\ \A r \in DOMAIN requests : requests[r] \in Request
  BY ItemsTyped, RequestsStep
<1>c. /\ caps = [u \in Uri |-> caps[u]] /\ \A u \in Uri : caps[u] # None => caps[u] \in Row
  BY DEF Filed
<1> DEFINE Rows == \A u \in Uri : caps'[u] # None /\ caps'[u].promoted
                                    => caps[u] # None /\ caps[u].promoted
           Requests == \A r \in DOMAIN requests : requests'[r].uri = requests[r].uri
<1>1. ASSUME NEW u \in Uri, publish_private_capability(u) PROVE Rows
  <2>1. /\ caps[u] # None
        /\ caps' = [caps EXCEPT ![u] = [caps[u] EXCEPT !.lifecycle = "published",
                                                       !.approval = "draft"]]
    BY Zenon, <1>1 DEF publish_private_capability, Visible
  <2>2. [caps[u] EXCEPT !.lifecycle = "published", !.approval = "draft"].promoted
          = caps[u].promoted
    BY <1>c, <2>1 DEF Row
  <2>3. QED
    BY <1>c, <2>1, <2>2
<1>2. ASSUME NEW u \in Uri, NEW l \in Change, transition_capability(u, l) PROVE Rows
  <2>1. caps[u] # None /\ caps' = [caps EXCEPT ![u] = [caps[u] EXCEPT !.lifecycle = l]]
    BY <1>2 DEF transition_capability
  <2>2. [caps[u] EXCEPT !.lifecycle = l].promoted = caps[u].promoted
    BY <1>c, <2>1 DEF Row
  <2>3. QED
    BY <1>c, <2>1, <2>2
<1>3. ASSUME NEW u \in Uri, caps[u] # None, NEW a, caps' = [caps EXCEPT ![u].approval = a]
      PROVE  Rows
  <2>1. [caps[u] EXCEPT !.approval = a].promoted = caps[u].promoted
    BY <1>c, <1>3 DEF Row
  <2>2. QED
    BY <1>c, <1>3, <2>1
<1>4. ASSUME NEW u \in Uri, NEW t \in Target, submit_promotion(u, t) PROVE Rows /\ Requests
  <2>1. Rows
    BY <1>3, <1>4 DEF submit_promotion
  <2>2. [uri |-> u, target |-> t, gates |-> "pending", state |-> "pending"] \in Request
    BY DEF Request
  <2>3. Requests
    BY <1>4, <2>2, Appended DEF submit_promotion, Types
  <2>4. QED
    BY <2>1, <2>3
<1>5. ASSUME NEW r \in DOMAIN requests, NEW s \in Verdict, decide_request(r, s)
      PROVE  Rows /\ Requests
  <2>1. requests[r].uri \in Uri
    BY <1>r DEF Request
  <2>2. \/ caps' = caps
        \/ caps[requests[r].uri] # None /\ caps' = [caps EXCEPT ![requests[r].uri].approval = s]
    BY <1>5 DEF decide_request
  <2>3. Rows
    BY <1>3, <2>1, <2>2
  <2>4. [requests[r] EXCEPT !.state = s].uri = requests[r].uri
    BY <1>r DEF Request
  <2>5. Requests
    BY <1>5, <1>r, <2>4 DEF decide_request
  <2>6. QED
    BY <2>3, <2>5
<1>6. ASSUME ReviewWrite \/ ApproveCatalog PROVE Rows
  <2>1. \A u \in Uri : caps'[u] = caps[u] \/ (caps[u] # None /\ caps'[u] = ReviewedRow(caps[u]))
    BY <1>6, ActivatedAt DEF ReviewWrite, ApproveCatalog
  <2>2. QED
    BY <1>c, <2>1, RowsWritten
<1>7. ASSUME GateWrite PROVE Rows /\ Requests
  <2>1. \A u \in Uri : \/ caps'[u] = caps[u]
                       \/ /\ caps[u] # None
                          /\ caps'[u] = [caps[u] EXCEPT !.evidence = "verified", !.risk = "approved"]
    BY Zenon, <1>7 DEF GateWrite
  <2>2. ASSUME NEW row \in Row
        PROVE  [row EXCEPT !.evidence = "verified", !.risk = "approved"].promoted = row.promoted
    BY DEF Row
  <2>3. Rows
    BY Zenon, <1>c, <2>1, <2>2
  <2>r. PICK r \in DOMAIN requests : \E g : requests' = [requests EXCEPT ![r].gates = g]
    BY Zenon, <1>7 DEF GateWrite, Types
  <2>4. PICK g : requests' = [requests EXCEPT ![r].gates = g]
    BY <2>r
  <2>5. [requests[r] EXCEPT !.gates = g].uri = requests[r].uri
    BY <1>r DEF Request
  <2>6. Requests
    BY <1>r, <2>4, <2>5
  <2>7. QED
    BY <2>3, <2>6
<1>8. ASSUME ReleaseWrite \/ RejectWrite PROVE Rows
  <2>1. \E q, l, a : caps' = Decided(q, l, a)
    BY <1>8 DEF ReleaseWrite, RejectWrite
  <2>2. PICK q, l, a : caps' = Decided(q, l, a)
    BY <2>1
  <2>3. \A u \in Uri : \/ caps'[u] = caps[u]
                       \/ /\ caps[u] # None
                          /\ caps'[u] = [caps[u] EXCEPT !.lifecycle = l, !.approval = a]
    BY Zenon, <2>2 DEF Decided
  <2>4. ASSUME NEW row \in Row
        PROVE  [row EXCEPT !.lifecycle = l, !.approval = a].promoted = row.promoted
    BY DEF Row
  <2>5. QED
    BY Zenon, <1>c, <2>3, <2>4
<1>9. caps' = caps => Rows
  OBVIOUS
<1>10. requests' = requests => Requests
  OBVIOUS
<1>11. ASSUME Rows, Requests PROVE PromotedHasRecord'
  BY <1>r, <1>11, RecordsKept
<1> HIDE DEF Rows, Requests
<1>12. CASE Writes
  BY Zenon, <1>1, <1>2, <1>4, <1>5, <1>6, <1>7, <1>8, <1>9, <1>10, <1>11, <1>12,
     RecordsIngest, RecordsApproval
     DEF Writes, Quarantine, publish_private_capability, transition_capability, ReleaseScan,
         ReviewWrite, ApproveCatalog, ReleaseWrite, RejectWrite
<1>13. QED
  BY <1>9, <1>10, <1>11, <1>12, Steps, ReadsWriteNothing DEF tables


-----------------------------------------------------------------------------
(* Blocks survive a refresh. *)

\* Without the post-ingest approval a step of an ingest that leaves a row its
\* content leaves it its block.
LEMMA BlocksStep ==
  ASSUME ~AutoApprove, Types, Filed, Screening, [Next]_vars, ing' # ing,
         NEW k \in Key, NEW r \in RowsOf(caps, k), NEW s \in RowsOf(caps', k),
         Blocked(r), r.hash = s.hash
  PROVE  Blocked(s)
<1>1. PICK p \in Uri : KeyOf(p) = k /\ caps[p] # None /\ r = caps[p]
  BY DEF RowsOf
<1>2. PICK u \in Uri : KeyOf(u) = k /\ caps'[u] # None /\ s = caps'[u]
  BY DEF RowsOf
<1>3. OneRow(caps) /\ r \in Row /\ r.lifecycle # "recalled"
  BY <1>1 DEF Filed, Sound
<1>4. CASE caps'[u] = caps[u]
  BY <1>1, <1>2, <1>3, <1>4 DEF OneRow
<1>5. ASSUME NEW i \in Ingester, IngestWrite(i) PROVE Blocked(s)
  <2>1. PICK found : found = ing[i].found
    OBVIOUS
  <2>2. Screened(found) /\ s = Upserted(found)[u]
    BY <1>2, <1>5, <2>1, ScreenedNow DEF IngestWrite
  <2>3. Previous(k) = p
    BY <1>1, <1>3, PreviousRow DEF OneRow
  <2>4. \/ found[k] = None /\ s = caps[u]
        \/ found[k] # None /\ s = Refresh(r, Discovered(u, found[k]))
    <3>1. p # None
      BY Uris
    <3>2. \/ found[KeyOf(u)] = None /\ Upserted(found)[u] = caps[u]
          \/ found[KeyOf(u)] # None /\ Upserted(found)[u] = None
          \/ /\ found[KeyOf(u)] # None
             /\ \/ Previous(KeyOf(u)) = None
                \/ Upserted(found)[u] = Refresh(caps[Previous(KeyOf(u))],
                                               Discovered(u, found[KeyOf(u)]))
      BY Zenon, <1>3, UpsertedAt
    <3>3. \/ found[k] = None /\ s = caps[u]
          \/ found[k] # None /\ s = None
          \/ found[k] # None /\ s = Refresh(caps[p], Discovered(u, found[k]))
      BY Zenon, <1>2, <2>2, <2>3, <3>1, <3>2
    <3>4. s # None
      BY <1>2
    <3>5. QED
      BY Zenon, <1>1, <3>3, <3>4
  <2>5. CASE found[k] # None /\ s = Refresh(r, Discovered(u, found[k]))
    <3>1. PICK new : new = Discovered(u, found[k])
      OBVIOUS
    <3>2. /\ new \in Row /\ new.evidence = "unchecked" /\ new.approval \in {"draft", "pending"}
          /\ new.lifecycle = "draft"
      <4>1. found[k] \in Content
        BY <2>2, <2>5 DEF Screened
      <4>2. /\ Discovered(u, found[k]) \in Row
            /\ Discovered(u, found[k]).evidence = "unchecked"
            /\ Discovered(u, found[k]).approval \in {"draft", "pending"}
            /\ Discovered(u, found[k]).lifecycle = "draft"
        BY ONLY <4>1, u \in Uri, DiscoveredRow
      <4>3. QED
        BY Zenon, <3>1, <4>2
    <3>3. /\ s.hash = new.hash /\ s.lifecycle \in {r.lifecycle, "draft"}
          /\ r.hash = new.hash =>
               /\ s.approval = r.approval
               /\ s.lifecycle # r.lifecycle => s.lifecycle \in Transitions[r.lifecycle]
      BY <1>3, <2>5, <3>1, <3>2, Refreshed
    <3>4. r.lifecycle \in Lifecycle
      BY <1>3 DEF Row
    <3>5. QED
      BY <1>3, <3>3, <3>4, TransitionTable DEF Blocked
  <2>6. QED
    BY <1>2, <1>4, <2>4, <2>5
<1>6. CASE Writes
  BY Zenon, <1>4, <1>5, <1>6 DEF Writes, Quarantine, publish_private_capability,
     transition_capability, submit_promotion, approve_request, decide_request, ReleaseScan,
     ReviewWrite, GateWrite, ApproveCatalog, ReleaseWrite, RejectWrite
<1>7. QED
  BY <1>4, <1>6, Steps, ReadsWriteNothing DEF tables

-----------------------------------------------------------------------------
(* The theorems. *)

\* The inductive invariant: tables and calls have their types, rows are filed
\* one per key and sound, running ingests have screened what they let through,
\* and promoted rows have their requests.
CatalogInv == Types /\ Filed /\ Screening /\ Tally /\ PromotedHasRecord

\* The empty catalog satisfies it.
LEMMA CatalogInit ==
  ASSUME Init
  PROVE  CatalogInv
<1>1. \A u \in Uri : caps[u] = None
  BY DEF Init
<1>2. /\ ing = [i \in Ingester |-> Idle] /\ Idle \in Run
      /\ Idle.at = "idle" /\ Idle.todo = {}
  <2>1. [k \in Key |-> None] \in [Key -> Content \cup {None}]
    OBVIOUS
  <2>2. QED
    BY <2>1 DEF Init, Idle, Run
<1>3. Types
  <2>1. held \in Seq(Item) /\ requests \in Seq(Request)
    BY DEF Init
  <2>2. disk \in [Key -> Content \cup {None}]
    BY DEF Init
  <2>3. ing \in [Ingester -> Run]
    BY <1>2
  <2>4. \A i \in Ingester : ing[i].todo = {}
    BY <1>2
  <2>5. QED
    BY <2>1, <2>2, <2>3, <2>4 DEF Init, Types, Run
<1>4. Filed
  BY <1>1 DEF Init, Filed, OneRow
<1>5. Screening
  BY <1>2 DEF Screening
<1>6. Tally
  BY CatalogAssumption DEF Init, Tally
<1>7. PromotedHasRecord
  BY <1>1 DEF PromotedHasRecord
<1>8. QED
  BY <1>3, <1>4, <1>5, <1>6, <1>7 DEF CatalogInv

\* Every step keeps it.
LEMMA CatalogStep ==
  ASSUME CatalogInv, [Next]_vars
  PROVE  CatalogInv'
BY TypesStep, FiledStep, ScreeningStep, TallyStep, RecordsStep DEF CatalogInv

\* It implies what the runs check.
LEMMA CatalogInvImplies ==
  ASSUME CatalogInv
  PROVE  TypeOK /\ ApprovalsAreReviewed /\ IndexedWasQuarantined
<1>1. TypeOK
  BY DEF CatalogInv, Types, Filed, Tally, OneRow, TypeOK
<1>2. ApprovalsAreReviewed
  BY DEF CatalogInv, Filed, Sound, Reviewed, ApprovalsAreReviewed
<1>3. IndexedWasQuarantined
  BY DEF CatalogInv, Filed, Sound, Quarantined, IndexedWasQuarantined
<1>4. QED
  BY <1>1, <1>2, <1>3

\* So it holds throughout.
LEMMA CatalogAlways == Spec => []CatalogInv
<1>1. Init => CatalogInv
  BY CatalogInit
<1>2. CatalogInv /\ [Next]_vars => CatalogInv'
  BY CatalogStep
<1>3. QED
  BY <1>1, <1>2, PTL DEF Spec

\* Every table and every call in flight has its type, and canonical_key stays
\* unique: a key has one row, whatever moves it (index.py, promotions.py).
THEOREM CatalogType == Spec => []TypeOK
<1>1. CatalogInv => TypeOK
  BY CatalogInvImplies
<1>2. QED
  BY <1>1, CatalogAlways, PTL

\* Verified evidence, and in production an approval, always speak of the
\* content the row has now: the guarded writes of review_capability,
\* run_promotion_gates and approve_request, and the fall-back of
\* upsert_capability, lose no race.
THEOREM ApprovalsStayReviewed == Spec => []ApprovalsAreReviewed
<1>1. CatalogInv => ApprovalsAreReviewed
  BY CatalogInvImplies
<1>2. QED
  BY <1>1, CatalogAlways, PTL

\* A promoted row always has a promotion request under its current URI:
\* _migrate_canonical_uri and approve_request move both together.
THEOREM PromotedKeepsRecord == Spec => []PromotedHasRecord
<1>1. CatalogInv => PromotedHasRecord
  BY DEF CatalogInv
<1>2. QED
  BY <1>1, CatalogAlways, PTL

\* No content reaches the catalog that was not quarantined first, although
\* each ingest decides what is new from a snapshot of its own
\* (_existing_capability_identity), with any number of ingests at once.
THEOREM IndexedContentWasQuarantined == Spec => []IndexedWasQuarantined
<1>1. CatalogInv => IndexedWasQuarantined
  BY CatalogInvImplies
<1>2. QED
  BY <1>1, CatalogAlways, PTL

\* Where superadmin auto-approval is not configured, an ingest that finds the
\* content it knows never lifts a block from a row (upsert_capability keeps
\* the approval, and the lifecycle table has no step back to draft).
THEOREM BlocksSurviveRefresh ==
  ASSUME ~AutoApprove
  PROVE  Spec => RefreshKeepsBlocks
<1>1. CatalogInv /\ [Next]_vars =>
        [ing' # ing =>
           \A k \in Key : \A r \in RowsOf(caps, k), s \in RowsOf(caps', k) :
             Blocked(r) /\ r.hash = s.hash => Blocked(s)]_vars
  BY BlocksStep DEF CatalogInv
<1>2. QED
  BY <1>1, CatalogAlways, PTL DEF Spec, RefreshKeepsBlocks

\* One step leaves a decided item as it is: every call checks the status
\* before its last check, and only a call past that one writes it.
LEMMA DecisionStep ==
  ASSUME Types, [Next]_vars, NEW q \in DOMAIN held, held[q].status # "quarantined", ~Deciding(q)
  PROVE  held'[q].status = held[q].status /\ ~Deciding(q)'
<1> DEFINE Goal == held'[q].status = held[q].status /\ ~Deciding(q)'
<1>0. ASSUME held' = held \/ held'[q] = held[q], rel' = rel \/ rel' = None, rej' = rej \/ rej' = None
      PROVE  Goal
  BY <1>0 DEF Deciding
<1>1. ASSUME NEW i \in Ingester, NEW k \in Key, Quarantine(i, k) PROVE Goal
  <2>1. CASE held' = held
    BY <1>0, <1>1, <2>1 DEF Quarantine, calls
  <2>2. CASE held' # held
    <3>1. PICK h : h = ing[i].found[k]
      OBVIOUS
    <3>2. h \in Content
      BY <1>1, <3>1 DEF Quarantine, Types
    <3>i. PICK item : item = [uri |-> Home(k), hash |-> h,
                              status |-> "quarantined", scanned |-> None]
      OBVIOUS
    <3>3. item \in Item
      BY <3>i, <3>2, Uris DEF Item
    <3>4. held' = Append(held, item)
      BY <1>1, <2>2, <3>1, <3>i DEF Quarantine
    <3>s. held \in Seq(Item)
      BY DEF Types
    <3>5. held'[q] = held[q]
      BY ONLY <3>s, <3>3, <3>4, q \in DOMAIN held, Appended
    <3>6. QED
      BY <1>0, <1>1, <3>5 DEF Quarantine, calls
  <2>3. QED
    BY <2>1, <2>2
<1>2. ASSUME NEW p \in DOMAIN held, ReleaseScan(p) PROVE Goal
  <2>1. p # q
    BY <1>2 DEF ReleaseScan
  <2>2. held'[q] = held[q]
    BY <1>2, <2>1, ItemsTyped DEF ReleaseScan
  <2>3. rel' = [at |-> "scanned", item |-> p] /\ rej' = rej
    BY <1>2 DEF ReleaseScan
  <2>4. QED
    BY <2>2, <2>3 DEF Deciding
<1>3. ASSUME ReleaseCheck PROVE Goal
  <2>1. rel # None /\ rel \in [at: {"scanned", "checked"}, item: DOMAIN held] /\ rel.item # q
    BY <1>3 DEF ReleaseCheck, Types
  <2>2. held' = held /\ rej' = rej /\ rel' = [rel EXCEPT !.at = "checked"]
    BY <1>3 DEF ReleaseCheck, tables
  <2>3. rel'.item # q
    BY <2>1, <2>2
  <2>4. QED
    BY <2>2, <2>3 DEF Deciding
<1>4. ASSUME ReleaseWrite PROVE Goal
  <2>1. rel # None /\ rel.item \in DOMAIN held /\ rel.item # q
    BY <1>4 DEF ReleaseWrite, Types, Deciding
  <2>2. held'[q] = held[q]
    BY <1>4, <2>1, ItemsTyped DEF ReleaseWrite
  <2>3. QED
    BY <1>0, <1>4, <2>2 DEF ReleaseWrite
<1>5. ASSUME NEW p \in DOMAIN held, RejectCheck(p) PROVE Goal
  <2>1. p # q /\ held' = held /\ rel' = rel /\ rej' = [item |-> p]
    BY <1>5 DEF RejectCheck, tables
  <2>2. QED
    BY <2>1 DEF Deciding
<1>6. ASSUME RejectWrite PROVE Goal
  <2>1. rej # None /\ rej.item \in DOMAIN held /\ rej.item # q
    BY <1>6 DEF RejectWrite, Types, Deciding
  <2>2. held'[q] = held[q]
    BY <1>6, <2>1, ItemsTyped DEF RejectWrite
  <2>3. QED
    BY <1>0, <1>6, <2>2 DEF RejectWrite
<1>7. ASSUME CallEnds PROVE Goal
  BY <1>0, <1>7 DEF CallEnds, tables
<1>8. CASE Writes
  BY Zenon, <1>0, <1>1, <1>2, <1>4, <1>6, <1>8 DEF Writes, IngestWrite, publish_private_capability,
     transition_capability, submit_promotion, approve_request, decide_request, ReviewWrite,
     GateWrite, ApproveCatalog, calls
<1>9. CASE Reads
  BY Zenon, <1>0, <1>3, <1>5, <1>7, <1>9 DEF Reads, Discover, ReadExisting, IngestRaises,
     IngestFails, Edit, ReviewRead, GateRead, vars, tables, calls
<1>10. QED
  BY <1>8, <1>9, Steps

\* A release or rejection is final once no call past its last check is left
\* over the item, whatever releases, rejections and ingests follow
\* (release_from_quarantine and reject_from_quarantine read the status before
\* they write by id).
THEOREM DecisionsAreFinal == Spec => DecisionsStand
<1>1. CatalogInv /\ [Next]_vars =>
        [\A q \in DOMAIN held : held[q].status # "quarantined" /\ ~Deciding(q) =>
           held'[q].status = held[q].status /\ ~Deciding(q)']_vars
  BY DecisionStep DEF CatalogInv
<1>2. QED
  BY <1>1, CatalogAlways, PTL DEF Spec, DecisionsStand

=============================================================================
