---------------------------- MODULE IndexProofs ----------------------------
(* Theorems about Index, for any set of files, texts and authorities, any   *)
(* number of edits, acknowledged writes, ingests and promotions.            *)
EXTENDS Index, FiniteSetTheorems, SequenceTheorems, TLAPS

-----------------------------------------------------------------------------
(* The two merges. *)

\* Of some files one has the highest authority, and is walked first of those.
LEMMA FirstFile ==
  ASSUME NEW S \in SUBSET Path, S # {}
  PROVE  \E p \in S : \A q \in S \ {p} :
           RankOf[p] > RankOf[q] \/ (RankOf[p] = RankOf[q] /\ PathPos[p] < PathPos[q])
<1> DEFINE Less(p, q) == RankOf[p] > RankOf[q] \/ (RankOf[p] = RankOf[q] /\ PathPos[p] < PathPos[q])
           HasFirst(X) == \E p \in X : \A q \in X \ {p} : Less(p, q)
           Bad == {X \in SUBSET Path : X # {} /\ ~HasFirst(X)}
<1>0. SUFFICES ASSUME ~HasFirst(S) PROVE FALSE
  OBVIOUS
<1>1. Bad # {} /\ Bad \subseteq SUBSET Path
  <2>1. S \in Bad
    <3> HIDE DEF HasFirst
    <3>1. QED
      BY <1>0
  <2>2. Bad \subseteq SUBSET Path
    OBVIOUS
  <2> HIDE DEF Bad
  <2>3. QED
    BY <2>1, <2>2
<1>2. IsWellFoundedOn(StrictSubsetOrdering(Path), SUBSET Path)
  <2>1. IsFiniteSet(Path)
    BY IndexAssumption
  <2>2. FiniteSubsetsOf(Path) = SUBSET Path
    BY <2>1, FS_FiniteSubsetsOfFinite
  <2>3. IsWellFoundedOn(StrictSubsetOrdering(Path), FiniteSubsetsOf(Path))
    BY FS_StrictSubsetOrderingWellFounded
  <2>4. QED
    BY <2>2, <2>3
<1>3. PICK X \in Bad : \A Y \in Bad : ~(<<Y, X>> \in StrictSubsetOrdering(Path))
  <2> HIDE DEF Bad
  <2>1. QED
    BY <1>1, <1>2, WFMin
<1>4. ASSUME NEW Y \in SUBSET Path, Y \subseteq X, Y # X, Y # {} PROVE HasFirst(Y)
  <2>1. <<Y, X>> \in StrictSubsetOrdering(Path)
    BY <1>3, <1>4 DEF StrictSubsetOrdering
  <2>2. Y \notin Bad
    BY <1>3, <2>1
  <2>3. QED
    BY <1>4, <2>2
<1>5. PICK x \in X : x \in Path
  BY <1>3
<1>6. X \ {x} # {}
  <2>1. SUFFICES ASSUME X \ {x} = {} PROVE HasFirst(X)
    BY <1>3
  <2>2. QED
    BY <1>5, <2>1
<1>7. HasFirst(X \ {x})
  <2>1. X \ {x} \in SUBSET Path /\ X \ {x} \subseteq X /\ X \ {x} # X
    BY <1>3, <1>5
  <2> HIDE DEF HasFirst
  <2>2. QED
    BY <1>4, <1>6, <2>1
<1>8. PICK y \in X \ {x} : \A q \in (X \ {x}) \ {y} : Less(y, q)
  BY <1>7
<1>9. \A p, q \in Path : RankOf[p] \in Nat /\ PathPos[p] \in Nat /\ (PathPos[p] = PathPos[q] => p = q)
  BY IndexAssumption
<1>10. Less(x, y) \/ Less(y, x)
  BY <1>3, <1>5, <1>8, <1>9
<1>11. \A p, q, r \in Path : Less(p, q) /\ Less(q, r) => Less(p, r)
  BY <1>9
<1>12. HasFirst(X)
  <2>1. CASE Less(y, x)
    BY <1>8, <2>1
  <2>2. CASE Less(x, y)
    <3>1. \A q \in X \ {x} : Less(x, q)
      BY <1>3, <1>5, <1>8, <1>11, <2>2
    <3>2. QED
      BY <1>5, <3>1
  <2>3. QED
    BY <1>10, <2>1, <2>2
<1>13. QED
  BY <1>3, <1>12


\* A capability as discovery and the merges make it.
Cap == [src: Path, text: Content, srcs: SUBSET Path,
        key: {KeyOf[p][c] : p \in Path, c \in Content}, uri: Uri]

\* A batch: every file is a source of one capability at most, and a capability
\* has the URI that the text of its file declares.
Batch(caps) ==
  /\ caps \in SUBSET Cap
  /\ \A c \in caps : /\ c.src \in c.srcs /\ c.uri = UriOf[c.src][c.text]
  /\ \A a, b \in caps : a.srcs \cap b.srcs # {} => a = b

\* A group is represented by one of its members.
LEMMA WinnerOf ==
  ASSUME NEW caps, Batch(caps), NEW G \in SUBSET caps, G # {}
  PROVE  \E a \in G : /\ Winner(G) \in Cap /\ Winner(G).src = a.src /\ Winner(G).text = a.text
                      /\ Winner(G).key = a.key /\ Winner(G).uri = a.uri
                      /\ Winner(G).srcs = UNION {c.srcs : c \in G}
<1>1. \A c \in G : c \in Cap /\ c.src \in c.srcs
  BY DEF Batch
<1>2. \A c \in G : c.src \in Path /\ c.srcs \subseteq Path
  BY <1>1 DEF Cap
<1>3. PICK S : S = {c.src : c \in G} /\ S \in SUBSET Path /\ S # {}
  <2>1. {c.src : c \in G} \subseteq Path /\ {c.src : c \in G} # {}
    BY <1>2
  <2>2. QED
    BY Zenon, <2>1
<1>4. PICK p \in S : \A q \in S \ {p} :
        RankOf[p] > RankOf[q] \/ (RankOf[p] = RankOf[q] /\ PathPos[p] < PathPos[q])
  BY Zenon, <1>3, FirstFile
<1>5. PICK a \in G : a.src = p
  BY <1>3, <1>4
<1>6. \A b \in G \ {a} : b.src # p
  BY <1>1, <1>5 DEF Batch
<1>7. \A b \in G \ {a} : Before(a, b)
  BY <1>3, <1>4, <1>5, <1>6 DEF Before
<1>8. PICK w : w = CHOOSE x \in G : \A b \in G \ {x} : Before(x, b)
  OBVIOUS
<1>9. w \in G
  BY <1>5, <1>7, <1>8
<1>10. PICK U \in SUBSET Path : U = UNION {c.srcs : c \in G}
  BY Zenon, <1>2
<1>11. Winner(G) = [w EXCEPT !.srcs = U]
  BY <1>8, <1>10 DEF Winner
<1>12. /\ [w EXCEPT !.srcs = U] \in Cap /\ [w EXCEPT !.srcs = U].src = w.src
       /\ [w EXCEPT !.srcs = U].text = w.text /\ [w EXCEPT !.srcs = U].key = w.key
       /\ [w EXCEPT !.srcs = U].uri = w.uri /\ [w EXCEPT !.srcs = U].srcs = U
  BY <1>1, <1>9 DEF Cap
<1>13. QED
  BY Zenon, <1>9, <1>10, <1>11, <1>12

\* Merging by key, and merging by URI, make batches of batches; the second
\* leaves one capability per URI.
LEMMA MergedByKey ==
  ASSUME NEW caps, Batch(caps)
  PROVE  Batch(MergeDuplicates(caps))
<1> DEFINE Group(k) == {c \in caps : c.key = k}
<1>1. ASSUME NEW k \in {c.key : c \in caps}
      PROVE  \E a \in Group(k) : LET w == Winner(Group(k)) IN
               /\ w \in Cap /\ w.src = a.src /\ w.text = a.text /\ w.uri = a.uri
               /\ w.srcs = UNION {c.srcs : c \in Group(k)}
  <2>1. Group(k) \in SUBSET caps /\ Group(k) # {}
    OBVIOUS
  <2> HIDE DEF Group
  <2>2. QED
    BY <2>1, WinnerOf
<1>2. ASSUME NEW w \in MergeDuplicates(caps)
      PROVE  \E k \in {c.key : c \in caps} : w = Winner(Group(k))
  BY DEF MergeDuplicates
<1>3. ASSUME NEW w \in MergeDuplicates(caps)
      PROVE  w \in Cap /\ w.src \in w.srcs /\ w.uri = UriOf[w.src][w.text]
  <2>1. PICK k \in {c.key : c \in caps} : w = Winner(Group(k))
    BY <1>2
  <2>2. PICK a \in Group(k) : /\ w \in Cap /\ w.src = a.src /\ w.text = a.text /\ w.uri = a.uri
                              /\ w.srcs = UNION {c.srcs : c \in Group(k)}
    BY <1>1, <2>1
  <2>3. a.src \in a.srcs /\ a.uri = UriOf[a.src][a.text]
    BY <2>2 DEF Batch
  <2>4. QED
    BY <2>2, <2>3
<1>4. ASSUME NEW v \in MergeDuplicates(caps), NEW w \in MergeDuplicates(caps),
             v.srcs \cap w.srcs # {}
      PROVE  v = w
  <2>1. PICK j \in {c.key : c \in caps}, k \in {c.key : c \in caps} :
          v = Winner(Group(j)) /\ w = Winner(Group(k))
    BY Zenon, <1>2
  <2>2. /\ v.srcs = UNION {c.srcs : c \in Group(j)}
        /\ w.srcs = UNION {c.srcs : c \in Group(k)}
    BY Zenon, <1>1, <2>1
  <2>3. PICK a \in Group(j), b \in Group(k) : a.srcs \cap b.srcs # {}
    BY <1>4, <2>2
  <2>4. a = b
    BY <2>3 DEF Batch
  <2>5. QED
    BY <2>1, <2>3, <2>4
<1>5. QED
  BY <1>3, <1>4 DEF Batch

\* See MergedByKey.
LEMMA MergedByUri ==
  ASSUME NEW caps, Batch(caps)
  PROVE  /\ Batch(MergeByEffectiveUri(caps))
         /\ \A a, b \in MergeByEffectiveUri(caps) : a.uri = b.uri => a = b
<1> DEFINE Group(u) == {c \in caps : c.uri = u}
<1>1. ASSUME NEW u \in {c.uri : c \in caps}
      PROVE  \E a \in Group(u) : LET w == Winner(Group(u)) IN
               /\ w \in Cap /\ w.src = a.src /\ w.text = a.text /\ w.uri = a.uri
               /\ w.srcs = UNION {c.srcs : c \in Group(u)}
  <2>1. Group(u) \in SUBSET caps /\ Group(u) # {}
    OBVIOUS
  <2> HIDE DEF Group
  <2>2. QED
    BY <2>1, WinnerOf
<1>2. ASSUME NEW w \in MergeByEffectiveUri(caps)
      PROVE  \E u \in {c.uri : c \in caps} : w = Winner(Group(u))
  BY DEF MergeByEffectiveUri
<1>3. ASSUME NEW w \in MergeByEffectiveUri(caps)
      PROVE  /\ w \in Cap /\ w.src \in w.srcs /\ w.uri = UriOf[w.src][w.text]
             /\ w = Winner(Group(w.uri))
  <2>1. PICK u \in {c.uri : c \in caps} : w = Winner(Group(u))
    BY <1>2
  <2>2. PICK a \in Group(u) : /\ w \in Cap /\ w.src = a.src /\ w.text = a.text /\ w.uri = a.uri
                              /\ w.srcs = UNION {c.srcs : c \in Group(u)}
    BY <1>1, <2>1
  <2>3. a.src \in a.srcs /\ a.uri = UriOf[a.src][a.text] /\ a.uri = u
    BY <2>2 DEF Batch
  <2>4. QED
    BY Zenon, <2>1, <2>2, <2>3
<1>4. ASSUME NEW v \in MergeByEffectiveUri(caps), NEW w \in MergeByEffectiveUri(caps),
             v.srcs \cap w.srcs # {}
      PROVE  v = w
  <2>1. PICK j \in {c.uri : c \in caps}, k \in {c.uri : c \in caps} :
          v = Winner(Group(j)) /\ w = Winner(Group(k))
    BY Zenon, <1>2
  <2>2. /\ v.srcs = UNION {c.srcs : c \in Group(j)}
        /\ w.srcs = UNION {c.srcs : c \in Group(k)}
    BY Zenon, <1>1, <2>1
  <2>3. PICK a \in Group(j), b \in Group(k) : a.srcs \cap b.srcs # {}
    BY <1>4, <2>2
  <2>4. a = b
    BY <2>3 DEF Batch
  <2>5. QED
    BY <2>1, <2>3, <2>4
<1>5. ASSUME NEW v \in MergeByEffectiveUri(caps), NEW w \in MergeByEffectiveUri(caps), v.uri = w.uri
      PROVE  v = w
  BY Zenon, <1>3, <1>5
<1>6. QED
  BY Zenon, <1>3, <1>4, <1>5 DEF Batch

\* The roots: every file is absent or holds a text that declares a capability.
Files(files) == /\ files = [p \in Path |-> files[p]]
                /\ \A p \in Path : files[p] \in DOMAIN UriOf[p] \cup {None}

\* What discovery returns is a batch.
LEMMA DiscoveredBatch ==
  ASSUME NEW files, Files(files)
  PROVE  Batch(Discover(files))
<1> DEFINE caps == {ParseText(p, files[p]) : p \in {q \in Path : files[q] # None}}
<1>1. ASSUME NEW p \in Path, files[p] # None
      PROVE  /\ files[p] \in Content /\ UriOf[p][files[p]] \in Uri
             /\ KeyOf[p][files[p]] \in {KeyOf[q][c] : q \in Path, c \in Content}
  BY <1>1, IndexAssumption DEF Files
<1>2. ASSUME NEW p \in Path, files[p] # None
      PROVE  LET c == ParseText(p, files[p]) IN
             /\ c \in Cap /\ c.src = p /\ c.srcs = {p} /\ c.uri = UriOf[c.src][c.text]
  BY <1>1, <1>2 DEF ParseText, Cap
<1>3. \A c \in caps : \E p \in Path : files[p] # None /\ c = ParseText(p, files[p])
  OBVIOUS
<1>4. Batch(caps)
  <2>1. \A c \in caps : /\ c \in Cap /\ c.srcs = {c.src} /\ c.uri = UriOf[c.src][c.text]
                        /\ c = ParseText(c.src, files[c.src])
    BY <1>2, <1>3
  <2> HIDE DEF caps
  <2>2. QED
    BY <2>1 DEF Batch
<1>5. QED
  BY <1>4, MergedByKey DEF Discover

-----------------------------------------------------------------------------
(* Databases. *)

Tables == UNION {[D -> RowType] : D \in SUBSET Uri}

\* A table is a function from URIs to rows.
LEMMA TableDef ==
  /\ \A D \in SUBSET Uri : \A f \in [D -> RowType] : f \in Tables
  /\ \A f \in Tables : /\ f = [u \in DOMAIN f |-> f[u]] /\ DOMAIN f \subseteq Uri
                       /\ \A u \in DOMAIN f : f[u] \in RowType
BY DEF Tables

\* Rows have the URI their text declares, and share no source.
Owned(rows) ==
  \A u \in DOMAIN rows :
    /\ UriOf[rows[u].src][rows[u].text] = u
    /\ \A v \in DOMAIN rows \ {u} : rows[u].srcs \cap rows[v].srcs = {}

\* Vectors of other texts only after an abort.
Fresh(rows, aborted) ==
  \A u \in DOMAIN rows : rows[u].vec \notin {None, rows[u].text} => aborted

\* The vector of a capability is made of its text, or is the one its row had:
\* after the run gave up, or because the text is the same.
LEMMA VectorOf ==
  ASSUME NEW rows \in Tables, NEW c \in Cap, NEW b, NEW aborted, Fresh(rows, aborted)
  PROVE  LET old == RowAt(rows, c.uri)
             vec == UpsertVector(old, c, b)
         IN  /\ old.vec \in Content \cup {None} /\ vec \in Content \cup {None}
             /\ vec \notin {None, c.text} => aborted
<1>1. c.uri \in DOMAIN rows => rows[c.uri] \in RowType
  BY TableDef
<1>2. c.text \in Content
  BY DEF Cap
<1>3. CASE c.uri \in DOMAIN rows
  <2>1. PICK row \in RowType : row = rows[c.uri]
    BY <1>1, <1>3
  <2>2. RowAt(rows, c.uri) = row /\ row.vec \in Content \cup {None}
    BY <1>3, <2>1 DEF RowAt, RowType
  <2>3. row.vec \notin {None, row.text} => aborted
    BY <1>3, <2>1 DEF Fresh
  <2>4. QED
    BY <1>2, <2>2, <2>3 DEF UpsertVector
<1>4. CASE c.uri \notin DOMAIN rows
  <2>1. RowAt(rows, c.uri) = NoRow /\ NoRow.vec = None
    BY <1>4 DEF RowAt, NoRow
  <2>2. QED
    BY <1>2, <2>1 DEF UpsertVector
<1>5. QED
  BY <1>3, <1>4

\* Writing a batch keeps every row of the table, each with its own sources, and
\* leaves a vector of another text only where the run gave up.
LEMMA UpsertedRows ==
  ASSUME NEW rows \in Tables, NEW batch, Batch(batch), NEW embeds, NEW aborted \in BOOLEAN,
         Owned(rows), Fresh(rows, aborted)
  PROVE  LET run == UpsertDiscovered(rows, batch, embeds)
         IN  /\ run.rows \in Tables /\ DOMAIN rows \subseteq DOMAIN run.rows
             /\ run.aborted \in BOOLEAN /\ Owned(run.rows)
             /\ Fresh(run.rows, aborted \/ run.aborted)
<1>1. PICK caps : caps = MergeByEffectiveUri(batch)
  OBVIOUS
<1>2. Batch(caps) /\ \A a, b \in caps : a.uri = b.uri => a = b
  BY <1>1, MergedByUri
<1>3. PICK down : down = Outages(rows, caps, embeds)
  OBVIOUS
<1> DEFINE Of(u) == CHOOSE c \in caps : c.uri = u
<1>4. PICK vec : vec = [u \in {c.uri : c \in caps} |->
                          IF \E W \in down : \A a \in W : Earlier(a, Of(u))
                            THEN RowAt(rows, u).vec
                            ELSE UpsertVector(RowAt(rows, u), Of(u), u \in embeds)]
  BY Zenon
<1>5. PICK new : new = UpsertCapability(rows, caps, vec)
  OBVIOUS
<1>6. UpsertDiscovered(rows, batch, embeds) = [rows |-> new, aborted |-> down # {}]
  BY <1>1, <1>3, <1>4, <1>5 DEF UpsertDiscovered
<1>7. ASSUME NEW c \in caps
      PROVE  /\ c \in Cap /\ vec[c.uri] \in Content \cup {None}
             /\ vec[c.uri] \notin {None, c.text} => aborted \/ down # {}
  <2>1. c \in Cap /\ c = CHOOSE d \in caps : d.uri = c.uri
    BY <1>2 DEF Batch
  <2>2. vec[c.uri] = IF \E W \in down : \A a \in W : Earlier(a, c)
                       THEN RowAt(rows, c.uri).vec
                       ELSE UpsertVector(RowAt(rows, c.uri), c, c.uri \in embeds)
    <3>1. Of(c.uri) = c /\ c.uri \in {d.uri : d \in caps}
      BY Zenon, <2>1
    <3> HIDE DEF Of
    <3>2. vec[c.uri] = IF \E W \in down : \A a \in W : Earlier(a, Of(c.uri))
                         THEN RowAt(rows, c.uri).vec
                         ELSE UpsertVector(RowAt(rows, c.uri), Of(c.uri), c.uri \in embeds)
      BY <1>4, <3>1
    <3>3. QED
      BY <3>1, <3>2
  <2>3. PICK b : b = (c.uri \in embeds)
    OBVIOUS
  <2>4. /\ RowAt(rows, c.uri).vec \in Content \cup {None}
        /\ UpsertVector(RowAt(rows, c.uri), c, b) \in Content \cup {None}
        /\ UpsertVector(RowAt(rows, c.uri), c, b) \notin {None, c.text} => aborted
    BY <2>1, VectorOf
  <2>5. QED
    BY <2>1, <2>2, <2>3, <2>4
<1>8. new = [u \in DOMAIN rows \cup {c.uri : c \in caps} |->
               IF \E c \in caps : c.uri = u
                 THEN LET c == CHOOSE c \in caps : c.uri = u
                      IN  [src |-> c.src, text |-> c.text, srcs |-> c.srcs, vec |-> vec[u]]
                 ELSE [rows[u] EXCEPT !.srcs = @ \ UNION {c.srcs : c \in caps}]]
  BY <1>5 DEF UpsertCapability
<1>9. DOMAIN new = DOMAIN rows \cup {c.uri : c \in caps}
  BY <1>8
<1>10. ASSUME NEW c \in caps
       PROVE  new[c.uri] = [src |-> c.src, text |-> c.text, srcs |-> c.srcs, vec |-> vec[c.uri]]
  <2>1. c = CHOOSE d \in caps : d.uri = c.uri
    BY <1>2
  <2>2. QED
    BY Zenon, <1>8, <2>1
<1>11. ASSUME NEW u \in DOMAIN rows, \A c \in caps : c.uri # u
       PROVE  /\ new[u] \in RowType /\ new[u].src = rows[u].src /\ new[u].text = rows[u].text
              /\ new[u].vec = rows[u].vec /\ new[u].srcs = rows[u].srcs \ UNION {c.srcs : c \in caps}
  <2>1. new[u] = [rows[u] EXCEPT !.srcs = @ \ UNION {c.srcs : c \in caps}]
    BY <1>8, <1>11
  <2>2. rows[u] \in RowType
    BY TableDef
  <2>3. PICK U : U = UNION {c.srcs : c \in caps}
    BY Zenon
  <2>4. LET r == [rows[u] EXCEPT !.srcs = rows[u].srcs \ U]
        IN  /\ r \in RowType /\ r.src = rows[u].src /\ r.text = rows[u].text
            /\ r.vec = rows[u].vec /\ r.srcs = rows[u].srcs \ U
    BY <2>2 DEF RowType
  <2>5. QED
    BY <2>1, <2>3, <2>4
<1>12. ASSUME NEW c \in caps
       PROVE  /\ c.uri \in Uri /\ new[c.uri] \in RowType
              /\ new[c.uri].src = c.src /\ new[c.uri].text = c.text
              /\ new[c.uri].srcs = c.srcs /\ new[c.uri].vec = vec[c.uri]
  <2>1. PICK x \in Content \cup {None} : x = vec[c.uri]
    BY <1>7
  <2>2. new[c.uri] = [src |-> c.src, text |-> c.text, srcs |-> c.srcs, vec |-> x]
    BY <1>10, <2>1
  <2>3. c.uri \in Uri /\ [src |-> c.src, text |-> c.text, srcs |-> c.srcs, vec |-> x] \in RowType
    BY <1>7 DEF Cap, RowType
  <2>4. QED
    BY <2>1, <2>2, <2>3
<1>13. new \in Tables
  <2>1. DOMAIN new \subseteq Uri
    BY <1>9, <1>12, TableDef
  <2>2. \A u \in DOMAIN new : new[u] \in RowType
    BY <1>9, <1>11, <1>12
  <2>3. new = [u \in DOMAIN new |-> new[u]]
    BY <1>8
  <2>4. QED
    BY <2>1, <2>2, <2>3, TableDef
<1>14. Owned(new)
  <2>1. ASSUME NEW u \in DOMAIN new PROVE UriOf[new[u].src][new[u].text] = u
    <3>1. CASE \E c \in caps : c.uri = u
      BY <1>2, <1>12, <3>1 DEF Batch
    <3>2. CASE \A c \in caps : c.uri # u
      BY <1>9, <1>11, <3>2 DEF Owned
    <3>3. QED
      BY <3>1, <3>2
  <2>2. ASSUME NEW u \in DOMAIN new, NEW v \in DOMAIN new \ {u}
        PROVE  new[u].srcs \cap new[v].srcs = {}
    <3>1. CASE \E c, d \in caps : c.uri = u /\ d.uri = v
      BY <1>2, <1>12, <2>2, <3>1 DEF Batch
    <3>2. CASE (\E c \in caps : c.uri = u) /\ (\A c \in caps : c.uri # v)
      BY <1>9, <1>11, <1>12, <2>2, <3>2
    <3>3. CASE (\A c \in caps : c.uri # u) /\ (\E c \in caps : c.uri = v)
      BY <1>9, <1>11, <1>12, <2>2, <3>3
    <3>4. CASE (\A c \in caps : c.uri # u) /\ (\A c \in caps : c.uri # v)
      <4>1. u \in DOMAIN rows /\ v \in DOMAIN rows \ {u}
        BY <1>9, <2>2, <3>4
      <4>2. rows[u].srcs \cap rows[v].srcs = {}
        BY <4>1 DEF Owned
      <4>3. QED
        BY <1>11, <3>4, <4>1, <4>2
    <3>5. QED
      BY <3>1, <3>2, <3>3, <3>4
  <2>3. QED
    BY <2>1, <2>2 DEF Owned
<1>15. Fresh(new, aborted \/ down # {})
  <2>1. ASSUME NEW u \in DOMAIN new, new[u].vec \notin {None, new[u].text}
        PROVE  aborted \/ down # {}
    <3>1. CASE \E c \in caps : c.uri = u
      BY <1>7, <1>12, <2>1, <3>1
    <3>2. CASE \A c \in caps : c.uri # u
      BY <1>9, <1>11, <2>1, <3>2 DEF Fresh
    <3>3. QED
      BY <3>1, <3>2
  <2>2. QED
    BY <2>1 DEF Fresh
<1>16. QED
  <2>1. PICK run : run = UpsertDiscovered(rows, batch, embeds)
    OBVIOUS
  <2>2. run.rows = new /\ run.aborted = (down # {}) /\ run.aborted \in BOOLEAN
    BY <1>6, <2>1
  <2>3. Fresh(new, aborted \/ run.aborted)
    BY Zenon, <1>15, <2>2 DEF Fresh
  <2>4. QED
    BY <1>9, <1>13, <1>14, <2>1, <2>2, <2>3

Db == [rows: Tables, drafts: SUBSET Draft, shares: SUBSET (Uri \cup Draft), aborted: BOOLEAN]

\* What holds of every database file: its rows have sources of their own, its
\* references have rows, and its vectors their texts unless a run gave up.
Kept(db) ==
  /\ db \in Db
  /\ Orphans(db.rows) = {} /\ db.shares \subseteq DOMAIN db.rows \cup db.drafts
  /\ Owned(db.rows) /\ Fresh(db.rows, db.aborted)

\* A draft, a share and its withdrawal.
LEMMA ServiceWrites ==
  ASSUME NEW db, Kept(db)
  PROVE  /\ \A d \in Draft : LET new == [db EXCEPT !.drafts = @ \cup {d}] IN
              Kept(new) /\ new.drafts = db.drafts \cup {d} /\ new.shares = db.shares
         /\ \A u \in DOMAIN db.rows \cup db.drafts : LET new == [db EXCEPT !.shares = @ \cup {u}] IN
              Kept(new) /\ new.drafts = db.drafts /\ new.shares = db.shares \cup {u}
         /\ \A u : LET new == [db EXCEPT !.shares = @ \ {u}] IN
              Kept(new) /\ new.drafts = db.drafts /\ new.shares = db.shares \ {u}
<1>0. db \in Db /\ DOMAIN db.rows \subseteq Uri /\ db.drafts \subseteq Draft
  BY TableDef DEF Kept, Db
<1>1. ASSUME NEW new \in Db, new.rows = db.rows, new.aborted = db.aborted,
             new.shares \subseteq DOMAIN db.rows \cup new.drafts
      PROVE  Kept(new)
  BY <1>1 DEF Kept
<1>2. ASSUME NEW d \in Draft
      PROVE  LET new == [db EXCEPT !.drafts = @ \cup {d}] IN
             Kept(new) /\ new.drafts = db.drafts \cup {d} /\ new.shares = db.shares
  <2>1. PICK new : new = [db EXCEPT !.drafts = @ \cup {d}]
    BY Zenon
  <2>2. /\ new \in Db /\ new.rows = db.rows /\ new.aborted = db.aborted
        /\ new.drafts = db.drafts \cup {d} /\ new.shares = db.shares
    BY <1>0, <2>1 DEF Db
  <2>3. Kept(new)
    <3>1. new.shares \subseteq DOMAIN db.rows \cup new.drafts
      BY <2>2 DEF Kept
    <3>2. QED
      BY <1>1, <2>2, <3>1
  <2>4. QED
    BY <2>1, <2>2, <2>3
<1>3. ASSUME NEW S \in SUBSET (Uri \cup Draft), S \subseteq DOMAIN db.rows \cup db.drafts
      PROVE  LET new == [db EXCEPT !.shares = S] IN
             Kept(new) /\ new.drafts = db.drafts /\ new.shares = S
  <2>1. PICK new : new = [db EXCEPT !.shares = S]
    BY Zenon
  <2>2. /\ new \in Db /\ new.rows = db.rows /\ new.aborted = db.aborted
        /\ new.drafts = db.drafts /\ new.shares = S
    BY <1>0, <2>1 DEF Db
  <2>3. Kept(new)
    BY <1>1, <1>3, <2>2
  <2>4. QED
    BY <2>1, <2>2, <2>3
<1>4. ASSUME NEW u \in DOMAIN db.rows \cup db.drafts
      PROVE  LET new == [db EXCEPT !.shares = @ \cup {u}] IN
             Kept(new) /\ new.drafts = db.drafts /\ new.shares = db.shares \cup {u}
  <2>1. /\ db.shares \cup {u} \in SUBSET (Uri \cup Draft)
        /\ db.shares \cup {u} \subseteq DOMAIN db.rows \cup db.drafts
    BY <1>0 DEF Kept
  <2>2. QED
    BY <1>3, <2>1
<1>5. ASSUME NEW u
      PROVE  LET new == [db EXCEPT !.shares = @ \ {u}] IN
             Kept(new) /\ new.drafts = db.drafts /\ new.shares = db.shares \ {u}
  <2>1. /\ db.shares \ {u} \in SUBSET (Uri \cup Draft)
        /\ db.shares \ {u} \subseteq DOMAIN db.rows \cup db.drafts
    BY <1>0 DEF Kept
  <2>2. QED
    BY Zenon, <1>3, <2>1
<1>6. QED
  BY Zenon, <1>2, <1>4, <1>5

\* Dropping the rows without a source keeps the others as they are.
LEMMA OrphansDropped ==
  ASSUME NEW rows \in Tables, Owned(rows), NEW aborted, Fresh(rows, aborted)
  PROVE  LET new == DeleteOrphans(rows) IN
         /\ new \in Tables /\ DOMAIN new = DOMAIN rows \ Orphans(rows)
         /\ Orphans(new) = {} /\ Owned(new) /\ Fresh(new, aborted)
<1>1. PICK new : new = DeleteOrphans(rows)
  OBVIOUS
<1>2. /\ new = [u \in DOMAIN rows \ Orphans(rows) |-> rows[u]]
      /\ DOMAIN new = DOMAIN rows \ Orphans(rows)
  BY <1>1 DEF DeleteOrphans
<1>3. \A u \in DOMAIN new : u \in DOMAIN rows /\ new[u] = rows[u] /\ rows[u].srcs # {}
  BY <1>2 DEF Orphans
<1>4. new \in Tables
  <2>1. DOMAIN new \in SUBSET Uri /\ \A u \in DOMAIN new : new[u] \in RowType
    BY <1>2, <1>3, TableDef
  <2>2. new = [u \in DOMAIN new |-> new[u]]
    BY <1>2
  <2>3. QED
    BY <2>1, <2>2, TableDef
<1>5. Orphans(new) = {}
  BY <1>3 DEF Orphans
<1>6. Owned(new) /\ Fresh(new, aborted)
  BY <1>3 DEF Owned, Fresh
<1>7. QED
  BY <1>1, <1>2, <1>4, <1>5, <1>6

\* The write of an ingest.
LEMMA WrittenKept ==
  ASSUME NEW db, Kept(db), NEW batch, Batch(batch), NEW embeds,
         ~Stranded(db, UpsertDiscovered(db.rows, batch, embeds).rows)
  PROVE  LET new == Written(db, UpsertDiscovered(db.rows, batch, embeds)) IN
         Kept(new) /\ new.drafts = db.drafts /\ new.shares = db.shares
<1>0. db \in Db /\ db.rows \in Tables /\ db.aborted \in BOOLEAN
  BY DEF Kept, Db
<1>1. PICK run : run = UpsertDiscovered(db.rows, batch, embeds)
  OBVIOUS
<1>2. /\ run.rows \in Tables /\ DOMAIN db.rows \subseteq DOMAIN run.rows
      /\ run.aborted \in BOOLEAN /\ Owned(run.rows)
      /\ Fresh(run.rows, db.aborted \/ run.aborted)
  BY <1>0, <1>1, UpsertedRows DEF Kept
<1>3. PICK rows : rows = DeleteOrphans(run.rows)
  OBVIOUS
<1>4. PICK aborted \in BOOLEAN : aborted = (db.aborted \/ run.aborted)
  BY <1>0, <1>2
<1>5. /\ rows \in Tables /\ DOMAIN rows = DOMAIN run.rows \ Orphans(run.rows)
      /\ Orphans(rows) = {} /\ Owned(rows) /\ Fresh(rows, aborted)
  BY <1>2, <1>3, <1>4, OrphansDropped
<1>6. PICK new : new = [db EXCEPT !.rows = rows, !.aborted = aborted]
  OBVIOUS
<1>7. Written(db, run) = new
  BY <1>3, <1>4, <1>6 DEF Written
<1>8. /\ new \in Db /\ new.rows = rows /\ new.aborted = aborted
      /\ new.drafts = db.drafts /\ new.shares = db.shares
  BY Zenon, <1>0, <1>5, <1>6 DEF Db
<1>9. db.shares \subseteq DOMAIN rows \cup db.drafts
  BY <1>1, <1>2, <1>5 DEF Kept, Stranded
<1>10. QED
  BY <1>1, <1>5, <1>7, <1>8, <1>9 DEF Kept

\* The repair of missing vectors.
LEMMA HealedKept ==
  ASSUME NEW db, Kept(db), NEW embeds
  PROVE  LET new == [db EXCEPT !.rows = Healed(@, embeds)] IN
         Kept(new) /\ new.drafts = db.drafts /\ new.shares = db.shares
<1>0. /\ db \in Db /\ db.rows \in Tables /\ DOMAIN db.rows \subseteq Uri
      /\ \A u \in DOMAIN db.rows : db.rows[u] \in RowType
  BY TableDef DEF Kept, Db
<1>1. PICK rows : rows = Healed(db.rows, embeds)
  OBVIOUS
<1>2. /\ DOMAIN rows = DOMAIN db.rows /\ rows = [u \in DOMAIN db.rows |-> rows[u]]
      /\ \A u \in DOMAIN db.rows :
           \/ rows[u] = db.rows[u]
           \/ rows[u] = [db.rows[u] EXCEPT !.vec = db.rows[u].text]
  BY <1>1 DEF Healed
<1>3. ASSUME NEW row \in RowType
      PROVE  LET new == [row EXCEPT !.vec = row.text] IN
             /\ new \in RowType /\ new.src = row.src /\ new.text = row.text
             /\ new.srcs = row.srcs /\ new.vec = row.text
  BY DEF RowType
<1>4. \A u \in DOMAIN rows :
        /\ rows[u] \in RowType /\ rows[u].src = db.rows[u].src /\ rows[u].text = db.rows[u].text
        /\ rows[u].srcs = db.rows[u].srcs /\ rows[u].vec \in {db.rows[u].vec, rows[u].text}
  <2>1. ASSUME NEW u \in DOMAIN rows
        PROVE  /\ rows[u] \in RowType /\ rows[u].src = db.rows[u].src
               /\ rows[u].text = db.rows[u].text /\ rows[u].srcs = db.rows[u].srcs
               /\ rows[u].vec \in {db.rows[u].vec, rows[u].text}
    <3>1. PICK row \in RowType : row = db.rows[u]
      BY <1>0, <1>2
    <3>2. rows[u] = row \/ rows[u] = [row EXCEPT !.vec = row.text]
      BY <1>2, <3>1
    <3>3. QED
      BY ZenonT(30), <1>3, <3>1, <3>2
  <2>2. QED
    BY <2>1
<1>5. rows \in Tables
  BY <1>0, <1>2, <1>4, TableDef
<1>6. Orphans(rows) = {}
  BY <1>2, <1>4 DEF Kept, Orphans
<1>7. Owned(rows)
  BY Zenon, <1>2, <1>4 DEF Kept, Owned
<1>8. Fresh(rows, db.aborted)
  BY <1>2, <1>4 DEF Kept, Fresh
<1>9. PICK new : new = [db EXCEPT !.rows = rows]
  BY Zenon
<1>10. /\ new \in Db /\ new.rows = rows /\ new.aborted = db.aborted
       /\ new.drafts = db.drafts /\ new.shares = db.shares
  BY <1>0, <1>5, <1>9 DEF Db
<1>11. Kept(new)
  BY <1>2, <1>5, <1>6, <1>7, <1>8, <1>10 DEF Kept
<1>12. QED
  BY <1>1, <1>9, <1>10, <1>11

\* The candidate of a rebuild.
LEMMA StagedKept ==
  ASSUME NEW db, Kept(db), Files(disk), NEW embeds, ~Rebuilt(embeds).aborted,
         NEW new, new = [db EXCEPT !.rows = DeleteOrphans(Rebuilt(embeds).rows), !.aborted = FALSE],
         Validated(new, disk)
  PROVE  Kept(new)
<1>1. PICK run : run = Rebuilt(embeds)
  OBVIOUS
<1>2. << >> \in Tables /\ Owned(<< >>) /\ Fresh(<< >>, FALSE)
  <2>1. DOMAIN << >> = {} /\ << >> = [u \in {} |-> << >>[u]]
    OBVIOUS
  <2>2. QED
    BY Zenon, <2>1, TableDef DEF Owned, Fresh
<1>3. Batch(Discover(disk))
  BY DiscoveredBatch
<1>4. /\ run.rows \in Tables /\ run.aborted \in BOOLEAN /\ Owned(run.rows)
      /\ Fresh(run.rows, FALSE \/ run.aborted)
  BY Zenon, <1>1, <1>2, <1>3, UpsertedRows DEF Rebuilt
<1>5. Fresh(run.rows, FALSE)
  BY <1>1, <1>4 DEF Fresh
<1>6. PICK rows : rows = DeleteOrphans(run.rows)
  OBVIOUS
<1>7. rows \in Tables /\ Orphans(rows) = {} /\ Owned(rows) /\ Fresh(rows, FALSE)
  BY Zenon, <1>4, <1>5, <1>6, OrphansDropped
<1>8. db \in Db
  BY DEF Kept
<1>9. new \in Db /\ new.rows = rows /\ new.aborted = FALSE
  BY Zenon, <1>1, <1>6, <1>7, <1>8 DEF Db
<1>10. QED
  BY Zenon, <1>7, <1>9 DEF Kept, Validated

-----------------------------------------------------------------------------
(* The steps. *)

\* While a promotion runs the pool is down, so the copy it took has every
\* acknowledged write of the live file, until that file is replaced.
Draining ==
  /\ promoting # "idle" => ~up /\ cand # None
  /\ promoting \in {"copied", "unlinked"} =>
       /\ rollbacks # << >>
       /\ Last(rollbacks).drafts = live.drafts /\ Last(rollbacks).shares = live.shares

\* The databases, the batch an ingest holds and the state of the promotion.
Stores ==
  /\ Files(disk)
  /\ Kept(live) /\ (cand # None => Kept(cand))
  /\ rollbacks \in Seq(Db) /\ \A i \in DOMAIN rollbacks : Kept(rollbacks[i])
  /\ ingest \in [at: {"idle", "open", "written"}, batch: SUBSET Cap, detached: BOOLEAN]
  /\ Batch(ingest.batch)
  /\ promoting \in {"idle", "checked", "copied", "unlinked"} /\ up \in BOOLEAN

IndexInv == Stores /\ Draining /\ AcknowledgedRemains

\* The last element of a sequence, and what appending leaves.
LEMMA Copies ==
  ASSUME NEW S, NEW s \in Seq(S)
  PROVE  /\ s # << >> => Len(s) \in DOMAIN s /\ Last(s) = s[Len(s)] /\ Last(s) \in S
         /\ \A e \in S : /\ Append(s, e) \in Seq(S) /\ Append(s, e) # << >>
                         /\ Last(Append(s, e)) = e
                         /\ DOMAIN s \subseteq DOMAIN Append(s, e)
                         /\ \A i \in DOMAIN s : Append(s, e)[i] = s[i]
                         /\ \A i \in DOMAIN Append(s, e) : i \in DOMAIN s \/ Append(s, e)[i] = e
<1>1. /\ Len(s) \in Nat /\ DOMAIN s = 1..Len(s) /\ (s # << >> => Len(s) # 0)
  BY LenProperties, EmptySeq
<1>2. s # << >> => Len(s) \in DOMAIN s /\ Last(s) = s[Len(s)] /\ Last(s) \in S
  <2>1. s # << >> => Len(s) \in DOMAIN s
    BY <1>1
  <2>2. QED
    BY <2>1, ElementOfSeq, <1>1 DEF Last
<1>3. ASSUME NEW e \in S
      PROVE  /\ Append(s, e) \in Seq(S) /\ Append(s, e) # << >>
             /\ Last(Append(s, e)) = e
             /\ DOMAIN s \subseteq DOMAIN Append(s, e)
             /\ \A i \in DOMAIN s : Append(s, e)[i] = s[i]
             /\ \A i \in DOMAIN Append(s, e) : i \in DOMAIN s \/ Append(s, e)[i] = e
  <2>1. PICK t : t = Append(s, e)
    BY Zenon
  <2>2. /\ t \in Seq(S) /\ Len(t) = Len(s) + 1 /\ t[Len(s) + 1] = e
        /\ \A i \in 1..Len(s) : t[i] = s[i]
    BY <2>1, AppendProperties
  <2>3. DOMAIN t = 1..(Len(s) + 1)
    BY <2>2, LenProperties
  <2>4. t # << >> /\ Last(t) = e
    BY <1>1, <2>2 DEF Last
  <2>5. QED
    BY <1>1, <2>1, <2>2, <2>3, <2>4
<1>4. QED
  BY <1>2, <1>3

\* The steps that change the live file without a promotion.
LiveChange ==
  \/ \E d \in Draft : WriteDraft(d)
  \/ \E u \in Uri \cup Draft : Share(u) \/ Unshare(u)
  \/ \E embeds : IngestCommit(embeds)
  \/ \E embeds : IngestHeal(embeds)

\* The steps of a promotion that copy or replace files.
FileChange == PromoteBackup \/ PromoteUnlink \/ PromoteReplace

\* The other steps.
OtherChange ==
  \/ \E p \in Path : \E text \in DOMAIN UriOf[p] \cup {None} : EditSource(p, text)
  \/ Drain \/ StartWorkers
  \/ \E admitted \in SUBSET Discover(disk) : IngestOpen(admitted)
  \/ \E embeds : Stage(embeds)
  \/ IngestKilled \/ PromoteCheck \/ PromoteKilled \/ UNCHANGED vars

\* Every step is one of these.
LEMMA IndexSteps ==
  ASSUME [Next]_vars
  PROVE  LiveChange \/ FileChange \/ OtherChange
BY DEF Next, LiveChange, FileChange, OtherChange

\* An ingest writes the live file, or another process does; what the service
\* acknowledged changes only by its own calls, while it is up.
LEMMA LiveStep ==
  ASSUME Stores, LiveChange
  PROVE  /\ Kept(live')
         /\ \/ live'.drafts = live.drafts /\ live'.shares = live.shares /\ made' = made
            \/ up /\ \E d \in Draft : /\ live'.drafts = live.drafts \cup {d}
                                      /\ live'.shares = live.shares /\ made' = made \cup {d}
            \/ up /\ \E u : /\ live'.shares = live.shares \cup {u}
                            /\ live'.drafts = live.drafts /\ made' = made \cup {<<"share", u>>}
            \/ up /\ \E u : /\ live'.shares = live.shares \ {u}
                            /\ live'.drafts = live.drafts /\ made' = made \ {<<"share", u>>}
<1>0. Kept(live)
  BY DEF Stores
<1>1. ASSUME NEW d \in Draft, WriteDraft(d)
      PROVE  /\ Kept(live') /\ live'.drafts = live.drafts \cup {d} /\ live'.shares = live.shares
             /\ up /\ made' = made \cup {d}
  BY <1>0, <1>1, ServiceWrites DEF WriteDraft
<1>2. ASSUME NEW u, Share(u)
      PROVE  /\ Kept(live') /\ live'.shares = live.shares \cup {u} /\ live'.drafts = live.drafts
             /\ up /\ made' = made \cup {<<"share", u>>}
  BY <1>0, <1>2, ServiceWrites DEF Share
<1>3. ASSUME NEW u, Unshare(u)
      PROVE  /\ Kept(live') /\ live'.shares = live.shares \ {u} /\ live'.drafts = live.drafts
             /\ up /\ made' = made \ {<<"share", u>>}
  BY <1>0, <1>3, ServiceWrites DEF Unshare
<1>4. ASSUME NEW embeds, IngestCommit(embeds)
      PROVE  /\ Kept(live') /\ live'.drafts = live.drafts /\ live'.shares = live.shares
             /\ made' = made
  <2>1. CASE live' = live
    BY <1>0, <1>4, <2>1 DEF IngestCommit
  <2>2. CASE live' # live
    <3>1. PICK run : run = UpsertDiscovered(live.rows, ingest.batch, embeds)
      OBVIOUS
    <3>2. ~Stranded(live, run.rows) /\ live' = Written(live, run) /\ made' = made
      BY <1>4, <2>2, <3>1 DEF IngestCommit
    <3>3. Batch(ingest.batch)
      BY DEF Stores
    <3>4. LET new == Written(live, run) IN
          Kept(new) /\ new.drafts = live.drafts /\ new.shares = live.shares
      BY <1>0, <3>1, <3>2, <3>3, WrittenKept
    <3>5. QED
      BY <3>2, <3>4
  <2>3. QED
    BY <2>1, <2>2
<1>5. ASSUME NEW embeds, IngestHeal(embeds)
      PROVE  /\ Kept(live') /\ live'.drafts = live.drafts /\ live'.shares = live.shares
             /\ made' = made
  BY <1>0, <1>5, HealedKept DEF IngestHeal
<1>6. QED
  BY <1>1, <1>2, <1>3, <1>4, <1>5 DEF LiveChange

\* The rest of what a step of the service or of an ingest does.
LEMMA LiveRest ==
  ASSUME Stores, LiveChange
  PROVE  /\ UNCHANGED <<disk, cand, rollbacks, promoting, up>>
         /\ ingest' \in [at: {"idle", "open", "written"}, batch: SUBSET Cap, detached: BOOLEAN]
         /\ Batch(ingest'.batch)
<1>1. UNCHANGED <<disk, cand, rollbacks, promoting, up>>
  BY DEF LiveChange, WriteDraft, Share, Unshare, IngestCommit, IngestHeal
<1>2. /\ ingest \in [at: {"idle", "open", "written"}, batch: SUBSET Cap, detached: BOOLEAN]
      /\ Batch(ingest.batch)
  BY DEF Stores
<1>3. ingest' = ingest \/ ingest' = NoIngest \/ ingest' = [ingest EXCEPT !.at = "written"]
  BY DEF LiveChange, WriteDraft, Share, Unshare, IngestCommit, IngestHeal
<1>4. /\ NoIngest \in [at: {"idle", "open", "written"}, batch: SUBSET Cap, detached: BOOLEAN]
      /\ Batch(NoIngest.batch)
  BY DEF NoIngest, Batch
<1>5. LET new == [ingest EXCEPT !.at = "written"] IN
      /\ new \in [at: {"idle", "open", "written"}, batch: SUBSET Cap, detached: BOOLEAN]
      /\ new.batch = ingest.batch
  BY <1>2
<1>6. QED
  BY <1>1, <1>2, <1>3, <1>4, <1>5

\* The steps of a promotion put a kept file in the place of a kept file.
LEMMA FileStep ==
  ASSUME Stores, Draining, FileChange
  PROVE  /\ Kept(live') /\ (cand' # None => Kept(cand')) /\ UNCHANGED <<disk, up, made>>
         /\ rollbacks' \in Seq(Db) /\ \A i \in DOMAIN rollbacks' : Kept(rollbacks'[i])
         /\ ingest' \in [at: {"idle", "open", "written"}, batch: SUBSET Cap, detached: BOOLEAN]
         /\ Batch(ingest'.batch)
<1>0. /\ Kept(live) /\ (cand # None => Kept(cand)) /\ live \in Db /\ rollbacks \in Seq(Db)
      /\ \A i \in DOMAIN rollbacks : Kept(rollbacks[i])
      /\ ingest \in [at: {"idle", "open", "written"}, batch: SUBSET Cap, detached: BOOLEAN]
      /\ Batch(ingest.batch)
  BY Zenon DEF Stores, Kept
<1>1. CASE PromoteBackup
  <2>1. rollbacks' = Append(rollbacks, live) /\ UNCHANGED <<disk, live, cand, ingest, up, made>>
    BY <1>1 DEF PromoteBackup
  <2>2. /\ rollbacks' \in Seq(Db)
        /\ \A i \in DOMAIN rollbacks' : i \in DOMAIN rollbacks \/ rollbacks'[i] = live
        /\ \A i \in DOMAIN rollbacks : rollbacks'[i] = rollbacks[i]
    BY <1>0, <2>1, Copies
  <2>3. QED
    BY <1>0, <2>1, <2>2
<1>2. CASE PromoteUnlink \/ PromoteReplace
  <2>1. ingest' = [ingest EXCEPT !.detached = ingest.at # "idle"] /\ UNCHANGED <<disk, rollbacks, up, made>>
    BY <1>2 DEF PromoteUnlink, PromoteReplace
  <2>2. PICK b \in BOOLEAN : b = (ingest.at # "idle")
    BY Zenon
  <2>3. LET new == [ingest EXCEPT !.detached = b] IN
        /\ new \in [at: {"idle", "open", "written"}, batch: SUBSET Cap, detached: BOOLEAN]
        /\ new.batch = ingest.batch
    BY <1>0
  <2>4. Kept(live') /\ (cand' # None => Kept(cand'))
    <3>1. CASE PromoteUnlink
      <4>1. rollbacks # << >> /\ live' = Last(rollbacks) /\ cand' = cand
        BY <3>1 DEF PromoteUnlink, Draining
      <4>2. Kept(Last(rollbacks))
        BY <1>0, <4>1, Copies
      <4>3. QED
        BY <1>0, <4>1, <4>2
    <3>2. CASE PromoteReplace
      <4>1. cand # None /\ live' = cand /\ cand' = None
        BY <3>2 DEF PromoteReplace, Draining
      <4>2. QED
        BY <1>0, <4>1
    <3>3. QED
      BY <1>2, <3>1, <3>2
  <2>5. QED
    BY <1>0, <2>1, <2>2, <2>3, <2>4
<1>3. QED
  BY <1>1, <1>2 DEF FileChange

\* The other steps leave the live file and its copies alone.
LEMMA OtherStep ==
  ASSUME Stores, OtherChange
  PROVE  /\ UNCHANGED <<live, rollbacks, made>> /\ Files(disk') /\ (cand' # None => Kept(cand'))
         /\ cand # None => cand' = cand
         /\ ingest' \in [at: {"idle", "open", "written"}, batch: SUBSET Cap, detached: BOOLEAN]
         /\ Batch(ingest'.batch)
         /\ promoting' \in {promoting, "idle", "checked"} /\ up' \in BOOLEAN
         /\ promoting' # "idle" =>
              (promoting' = promoting /\ (up' => up)) \/ (promoting' = "checked" /\ ~up' /\ cand # None)
<1>0. /\ Files(disk) /\ Kept(live) /\ (cand # None => Kept(cand)) /\ up \in BOOLEAN
      /\ ingest \in [at: {"idle", "open", "written"}, batch: SUBSET Cap, detached: BOOLEAN]
      /\ Batch(ingest.batch)
  BY DEF Stores
<1>1. UNCHANGED <<live, rollbacks, made>>
  BY Zenon DEF OtherChange, EditSource, Drain, StartWorkers, IngestOpen, Stage, IngestKilled,
     PromoteCheck, PromoteKilled, vars
<1>2. Files(disk')
  <2>1. ASSUME NEW p \in Path, NEW text \in DOMAIN UriOf[p] \cup {None}, EditSource(p, text)
        PROVE  Files(disk')
    <3>1. disk' = [disk EXCEPT ![p] = text] /\ disk = [q \in Path |-> disk[q]]
      BY <1>0, <2>1 DEF EditSource, Files
    <3>2. disk' = [q \in Path |-> IF q = p THEN text ELSE disk[q]]
      BY <3>1
    <3>3. QED
      BY <1>0, <3>2 DEF Files
  <2>2. CASE disk' = disk
    BY <1>0, <2>2
  <2>3. QED
    BY Zenon, <2>1, <2>2 DEF OtherChange, Drain, StartWorkers, IngestOpen, Stage, IngestKilled,
       PromoteCheck, PromoteKilled, vars
<1>3. (cand' # None => Kept(cand')) /\ (cand # None => cand' = cand)
  <2>1. ASSUME NEW embeds, Stage(embeds) PROVE cand = None /\ Kept(cand')
    <3>1. PICK new : new = [live EXCEPT !.rows = DeleteOrphans(Rebuilt(embeds).rows),
                                        !.aborted = FALSE]
      OBVIOUS
    <3>2. cand = None /\ cand' = new /\ ~Rebuilt(embeds).aborted /\ Validated(new, disk)
      BY <2>1, <3>1 DEF Stage
    <3>3. QED
      BY Zenon, <1>0, <3>1, <3>2, StagedKept
  <2>2. CASE cand' = cand
    BY <1>0, <2>2
  <2>3. QED
    BY <2>1, <2>2 DEF OtherChange, EditSource, Drain, StartWorkers, IngestOpen, IngestKilled,
       PromoteCheck, PromoteKilled, vars
<1>4. /\ ingest' \in [at: {"idle", "open", "written"}, batch: SUBSET Cap, detached: BOOLEAN]
      /\ Batch(ingest'.batch)
  <2>1. ASSUME NEW admitted \in SUBSET Discover(disk), IngestOpen(admitted)
        PROVE  /\ ingest' \in [at: {"idle", "open", "written"}, batch: SUBSET Cap, detached: BOOLEAN]
               /\ Batch(ingest'.batch)
    <3>1. Batch(Discover(disk))
      BY <1>0, DiscoveredBatch
    <3>2. Batch(admitted) /\ admitted \in SUBSET Cap
      BY <3>1 DEF Batch
    <3>3. ingest' = [at |-> "open", batch |-> admitted, detached |-> FALSE]
      BY <2>1 DEF IngestOpen
    <3>4. QED
      BY <3>2, <3>3
  <2>2. CASE IngestKilled
    <3>1. /\ NoIngest \in [at: {"idle", "open", "written"}, batch: SUBSET Cap, detached: BOOLEAN]
          /\ Batch(NoIngest.batch)
      BY DEF NoIngest, Batch
    <3>2. QED
      BY <2>2, <3>1 DEF IngestKilled
  <2>3. CASE ingest' = ingest
    BY <1>0, <2>3
  <2>4. QED
    BY Zenon, <2>1, <2>2, <2>3 DEF OtherChange, EditSource, Drain, StartWorkers, Stage,
       PromoteCheck, PromoteKilled, vars
<1>5. /\ promoting' \in {promoting, "idle", "checked"} /\ up' \in BOOLEAN
      /\ promoting' # "idle" =>
           (promoting' = promoting /\ (up' => up)) \/ (promoting' = "checked" /\ ~up' /\ cand # None)
  <2>1. CASE PromoteCheck \/ PromoteKilled \/ StartWorkers \/ Drain
    <3>1. CASE PromoteCheck
      BY <1>0, <3>1 DEF PromoteCheck, NoHolders
    <3>2. CASE PromoteKilled
      BY <1>0, <3>2 DEF PromoteKilled
    <3>3. CASE StartWorkers
      BY <3>3 DEF StartWorkers
    <3>4. CASE Drain
      BY Zenon, <3>4 DEF Drain
    <3>5. QED
      BY <2>1, <3>1, <3>2, <3>3, <3>4
  <2>2. CASE promoting' = promoting /\ up' = up
    BY <1>0, <2>2
  <2>3. QED
    BY Zenon, <2>1, <2>2 DEF OtherChange, EditSource, IngestOpen, Stage, IngestKilled, vars
<1>6. QED
  BY <1>1, <1>2, <1>3, <1>4, <1>5

\* Every step keeps the databases.
LEMMA StoresStep ==
  ASSUME Stores, Draining, [Next]_vars
  PROVE  Stores'
<1>1. CASE LiveChange
  BY <1>1, LiveStep, LiveRest DEF Stores
<1>2. CASE FileChange
  <2>1. promoting' \in {"idle", "checked", "copied", "unlinked"}
    BY <1>2 DEF FileChange, PromoteBackup, PromoteUnlink, PromoteReplace
  <2>2. QED
    BY <1>2, <2>1, FileStep DEF Stores
<1>3. CASE OtherChange
  BY <1>3, OtherStep DEF Stores
<1>4. QED
  BY <1>1, <1>2, <1>3, IndexSteps

\* No worker writes while a promotion runs.
LEMMA DrainingStep ==
  ASSUME Stores, Draining, [Next]_vars
  PROVE  Draining'
<1>0. rollbacks \in Seq(Db) /\ live \in Db /\ up \in BOOLEAN
  BY DEF Stores, Kept
<1>1. CASE LiveChange
  <2>1. UNCHANGED <<cand, rollbacks, promoting, up>>
    BY <1>1, LiveRest
  <2>2. ~up => live'.drafts = live.drafts /\ live'.shares = live.shares
    BY <1>1, LiveStep
  <2>3. QED
    BY <2>1, <2>2 DEF Draining
<1>2. CASE PromoteBackup
  <2>1. Append(rollbacks, live) # << >> /\ Last(Append(rollbacks, live)) = live
    BY <1>0, Copies
  <2>2. QED
    BY <1>2, <2>1 DEF PromoteBackup, Draining
<1>3. CASE PromoteUnlink
  BY <1>3 DEF PromoteUnlink, Draining
<1>4. CASE PromoteReplace
  BY <1>4 DEF PromoteReplace, Draining
<1>5. CASE OtherChange
  <2>1. /\ UNCHANGED <<live, rollbacks>> /\ (cand # None => cand' = cand)
        /\ promoting' # "idle" =>
             (promoting' = promoting /\ (up' => up)) \/ (promoting' = "checked" /\ ~up' /\ cand # None)
    BY <1>5, OtherStep
  <2>2. QED
    BY <2>1 DEF Draining
<1>6. QED
  BY <1>1, <1>2, <1>3, <1>4, <1>5, IndexSteps DEF FileChange

\* A database has the acknowledged write m.
Has(db, m) == m \in db.drafts \cup {<<"share", u>> : u \in db.shares}

\* No step loses an acknowledged write from both the live file and the copies.
LEMMA AcknowledgedStep ==
  ASSUME Stores, Draining, AcknowledgedRemains, [Next]_vars
  PROVE  AcknowledgedRemains'
<1>0. rollbacks \in Seq(Db) /\ live \in Db
  BY DEF Stores, Kept
<1>a. \A m \in made : Has(live, m) \/ \E i \in DOMAIN rollbacks : Has(rollbacks[i], m)
  BY DEF AcknowledgedRemains, Has
<1>b. SUFFICES ASSUME NEW m \in made'
               PROVE  Has(live', m) \/ \E i \in DOMAIN rollbacks' : Has(rollbacks'[i], m)
  BY DEF AcknowledgedRemains, Has
<1>1. CASE LiveChange
  <2>1. rollbacks' = rollbacks
    BY <1>1, LiveRest
  <2>2. \/ m \in made /\ (Has(live, m) => Has(live', m))
        \/ Has(live', m)
    <3>1. CASE live'.drafts = live.drafts /\ live'.shares = live.shares /\ made' = made
      BY <3>1 DEF Has
    <3>2. ASSUME NEW d, live'.drafts = live.drafts \cup {d},
                 live'.shares = live.shares, made' = made \cup {d}
          PROVE  (m \in made /\ (Has(live, m) => Has(live', m))) \/ Has(live', m)
      BY <3>2 DEF Has
    <3>3. ASSUME NEW u, live'.shares = live.shares \cup {u},
                 live'.drafts = live.drafts, made' = made \cup {<<"share", u>>}
          PROVE  (m \in made /\ (Has(live, m) => Has(live', m))) \/ Has(live', m)
      BY <3>3 DEF Has
    <3>4. ASSUME NEW u, live'.shares = live.shares \ {u},
                 live'.drafts = live.drafts, made' = made \ {<<"share", u>>}
          PROVE  m \in made /\ (Has(live, m) => Has(live', m))
      BY <3>4 DEF Has
    <3>5. QED
      BY Zenon, <1>1, <3>1, <3>2, <3>3, <3>4, LiveStep
  <2>3. QED
    BY <1>a, <2>1, <2>2
<1>2. CASE PromoteBackup
  <2>1. rollbacks' = Append(rollbacks, live) /\ UNCHANGED <<live, made>>
    BY <1>2 DEF PromoteBackup
  <2>2. DOMAIN rollbacks \subseteq DOMAIN rollbacks' /\ \A i \in DOMAIN rollbacks : rollbacks'[i] = rollbacks[i]
    BY <1>0, <2>1, Copies
  <2>3. QED
    BY <1>a, <2>1, <2>2
<1>3. CASE PromoteUnlink \/ PromoteReplace
  <2>1. /\ UNCHANGED <<rollbacks, made>> /\ rollbacks # << >>
        /\ Last(rollbacks).drafts = live.drafts /\ Last(rollbacks).shares = live.shares
    BY <1>3 DEF PromoteUnlink, PromoteReplace, Draining
  <2>2. Len(rollbacks) \in DOMAIN rollbacks /\ Last(rollbacks) = rollbacks[Len(rollbacks)]
    BY <1>0, <2>1, Copies
  <2>3. Has(live, m) => Has(rollbacks[Len(rollbacks)], m)
    BY <2>1, <2>2 DEF Has
  <2>4. QED
    BY <1>a, <2>1, <2>2, <2>3
<1>4. CASE OtherChange
  <2>1. UNCHANGED <<live, rollbacks, made>>
    BY <1>4, OtherStep
  <2>2. QED
    BY <1>a, <2>1
<1>5. QED
  BY <1>1, <1>2, <1>3, <1>4, IndexSteps DEF FileChange

-----------------------------------------------------------------------------
(* The theorems. *)

\* A new deployment satisfies the invariant.
LEMMA IndexInit ==
  ASSUME Init
  PROVE  IndexInv
<1>1. Files(disk)
  BY IndexAssumption DEF Init, Files
<1>2. << >> \in Tables /\ DOMAIN << >> = {}
  <2>1. DOMAIN << >> = {} /\ << >> = [u \in {} |-> << >>[u]]
    OBVIOUS
  <2>2. QED
    BY Zenon, <2>1, TableDef
<1>3. Kept(live)
  <2>1. PICK rows : rows = << >> /\ rows \in Tables /\ DOMAIN rows = {}
    BY <1>2
  <2>2. live = [rows |-> rows, drafts |-> {}, shares |-> {}, aborted |-> FALSE]
    BY <2>1 DEF Init
  <2>3. live \in Db /\ live.rows = rows /\ live.shares = {}
    BY <2>1, <2>2 DEF Db
  <2>4. QED
    BY <2>1, <2>3 DEF Kept, Orphans, Owned, Fresh
<1>4. /\ ingest \in [at: {"idle", "open", "written"}, batch: SUBSET Cap, detached: BOOLEAN]
      /\ Batch(ingest.batch)
  BY DEF Init, NoIngest, Batch
<1>5. rollbacks \in Seq(Db) /\ DOMAIN rollbacks = {}
  BY DEF Init
<1>6. QED
  BY <1>1, <1>3, <1>4, <1>5 DEF Init, IndexInv, Stores, Draining, AcknowledgedRemains

\* The invariant holds throughout.
LEMMA IndexAlways == Spec => []IndexInv
<1>1. Init => IndexInv
  BY IndexInit
<1>2. IndexInv /\ [Next]_vars => IndexInv'
  BY StoresStep, DrainingStep, AcknowledgedStep DEF IndexInv
<1>3. QED
  BY <1>1, <1>2, PTL DEF Spec

\* Files, databases and processes have their types, a source file belongs to one
\* row (capability_sources.source_path), and a row has the URI its text declares.
THEOREM IndexType == Spec => []TypeOK
<1>1. IndexInv => TypeOK
  <2> SUFFICES ASSUME IndexInv PROVE TypeOK
    OBVIOUS
  <2>1. ASSUME NEW db, Kept(db) PROVE IsDb(db)
    <3>1. db \in Db /\ db.rows \in Tables
      BY <2>1 DEF Kept, Db
    <3>2. DOMAIN db.rows \subseteq Uri /\ \A u \in DOMAIN db.rows : db.rows[u] \in RowType
      BY <3>1, TableDef
    <3>3. QED
      BY <3>1, <3>2 DEF IsDb, Db
  <2>2. disk \in [Path -> Content \cup {None}]
    <3>1. \A p \in Path : disk[p] \in Content \cup {None}
      BY IndexAssumption DEF IndexInv, Stores, Files
    <3>2. disk = [p \in Path |-> disk[p]]
      BY DEF IndexInv, Stores, Files
    <3>3. QED
      BY <3>1, <3>2
  <2>3. Owned(live.rows)
    BY DEF IndexInv, Stores, Kept
  <2>4. QED
    BY <2>1, <2>2, <2>3 DEF IndexInv, Stores, TypeOK, Owned
<1>2. QED
  BY <1>1, IndexAlways, PTL

\* The live database has no row without a source and no share without a row,
\* whichever ingests, rebuilds and promotions made it
\* (_delete_source_orphaned_capabilities, validate_candidate_database).
THEOREM ReferencesResolve == Spec => []RefsResolve
<1>1. IndexInv => RefsResolve
  BY DEF IndexInv, Stores, Kept, RefsResolve
<1>2. QED
  BY <1>1, IndexAlways, PTL

\* A vector of another text is left only by a run that gave up on embeddings
\* (_upsert_vector, vector_aborted in _upsert_discovered).
THEOREM StaleVectorsFollowAbort == Spec => []StaleOnlyAfterAbort
<1>1. IndexInv => StaleOnlyAfterAbort
  BY DEF IndexInv, Stores, Kept, Fresh, StaleOnlyAfterAbort
<1>2. QED
  BY <1>1, IndexAlways, PTL

\* What the service acknowledged is in the live database or in a copy, at every
\* step of promote_shadow_database and wherever it is killed.
THEOREM AcknowledgedIsKept == Spec => []AcknowledgedRemains
<1>1. IndexInv => AcknowledgedRemains
  BY DEF IndexInv
<1>2. QED
  BY <1>1, IndexAlways, PTL

=============================================================================
