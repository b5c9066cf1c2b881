---------------------------- MODULE AccessProofs ----------------------------
(* Theorems about Access, for any users, groups, policies, workers and      *)
(* numbers of shares and roles.                                             *)
EXTENDS Access, SequenceTheorems, FiniteSetTheorems, TLAPS

ShareRow == [subject : Subject, rights : SUBSET Right, from : User,
             expires : Expiry, revoked : BOOLEAN]

\* What a worker read before it took the write lock.
RequestOK(r) ==
  /\ r.op = "share" => /\ r.subject \in Subject /\ r.rights \in SUBSET Right
                       /\ r.by \in User /\ r.expires \in Expiry
  /\ r.op = "unshare" => r.share \in 1..Len(shares)
  /\ r.op = "assign" => /\ r.subject \in Subject /\ r.expires \in Expiry
                        /\ r.grant.role \in DOMAIN RoleRights /\ r.grant.scope \in Scope
  /\ r.op = "join" => r.subject \in Subject
  /\ r.op = "start" => r.missing \subseteq PolicyRows

\* The inductive invariant behind the tuples: they are pairs, and a revocation
\* under way is of a share that exists.
ShareInv ==
  /\ place \in Place
  /\ shares \in Seq(ShareRow) /\ tuples \in SUBSET (Subject \X Right)
  /\ req = [w \in Worker |-> req[w]]
  /\ \A w \in Worker : RequestOK(req[w])
  /\ TuplesHaveShares

\* Nothing is shared, and nobody is asking, in the beginning.
LEMMA ShareInvInit == Init => ShareInv
<1> SUFFICES ASSUME Init PROVE ShareInv
  OBVIOUS
<1>1. place \in Place /\ shares \in Seq(ShareRow) /\ tuples = {}
  BY AccessAssumption, EmptySeq DEF Init
<1>2. req = [w \in Worker |-> Idle]
  BY DEF Init
<1>3. \A w \in Worker : RequestOK(req[w])
  BY <1>2 DEF Idle, RequestOK
<1>4. QED
  BY <1>1, <1>2, <1>3 DEF ShareInv, TuplesHaveShares

\* Steps that write neither shares nor tuples, and leave a worker with a
\* request that is well formed or without one.
LEMMA ElsewhereKeeps ==
  ASSUME ShareInv, UNCHANGED <<shares, tuples, place>>, NEW w \in Worker, NEW r,
         req' = req \/ req' = [req EXCEPT ![w] = r], RequestOK(r)
  PROVE  ShareInv'
<1>1. req' = [v \in Worker |-> req'[v]] /\ \A v \in Worker : req'[v] \in {req[v], r}
  BY DEF ShareInv
<1>2. \A v \in Worker : RequestOK(req'[v])
  BY <1>1 DEF ShareInv
<1>3. \A v \in Worker : RequestOK(req[v])'
  BY <1>2 DEF RequestOK, PolicyRows
<1>4. QED
  BY <1>1, <1>3 DEF ShareInv, TuplesHaveShares

\* A share more: it backs the tuples written with it.
LEMMA CreateShareKeeps ==
  ASSUME ShareInv, NEW w \in Worker, CreateShare(w)
  PROVE  ShareInv'
<1> DEFINE r == req[w]
           row == [subject |-> r.subject, rights |-> r.rights, from |-> r.by,
                   expires |-> r.expires, revoked |-> FALSE]
<1>0. RequestOK(Idle)
  BY DEF RequestOK, Idle
<1>1. /\ r.op = "share" /\ req' = [req EXCEPT ![w] = Idle] /\ place' = place
      /\ RequestOK(r)
  BY DEF CreateShare, Serve, ShareInv
<1>2. row \in ShareRow
  BY <1>1 DEF RequestOK, ShareRow
<1>3. CASE shares' = shares /\ tuples' = tuples
  BY <1>0, <1>1, <1>3, ElsewhereKeeps
<1>4. CASE shares' = Append(shares, row) /\ tuples' = tuples \cup ({r.subject} \X r.rights)
  <2>0. shares \in Seq(ShareRow) /\ Len(shares) \in Nat
    BY LenProperties DEF ShareInv
  <2>1. /\ shares' \in Seq(ShareRow) /\ Len(shares') = Len(shares) + 1
        /\ \A i \in 1..Len(shares) : shares'[i] = shares[i]
        /\ shares'[Len(shares) + 1] = row
    BY <1>2, <1>4, <2>0, AppendProperties
  <2>2. tuples' \in SUBSET (Subject \X Right)
    BY <1>1, <1>4 DEF RequestOK, ShareInv
  <2>3. ASSUME NEW t \in tuples'
        PROVE  \E i \in 1..Len(shares') : /\ ~shares'[i].revoked /\ shares'[i].subject = t[1]
                                          /\ t[2] \in shares'[i].rights
    <3>1. CASE t \in tuples
      <4>1. PICK i \in 1..Len(shares) : /\ ~shares[i].revoked /\ shares[i].subject = t[1]
                                        /\ t[2] \in shares[i].rights
        BY <3>1 DEF ShareInv, TuplesHaveShares
      <4>2. i \in 1..Len(shares') /\ shares'[i] = shares[i]
        BY <2>0, <2>1
      <4>3. QED
        BY <4>1, <4>2
    <3>2. CASE t \in {r.subject} \X r.rights
      <4>1. ~row.revoked /\ row.subject = t[1] /\ t[2] \in row.rights
        BY <3>2
      <4>2. Len(shares) + 1 \in 1..Len(shares')
        BY <2>0, <2>1
      <4>3. QED
        BY <2>1, <4>1, <4>2
    <3>3. QED
      BY <1>4, <3>1, <3>2
  <2>4. req' = [v \in Worker |-> req'[v]] /\ \A v \in Worker : req'[v] \in {req[v], Idle}
    BY <1>1 DEF ShareInv
  <2>5. \A v \in Worker : RequestOK(req[v])'
    <3>1. ASSUME NEW v \in Worker PROVE RequestOK(req[v])'
      <4>1. req'[v].op # "unshare" \/ req'[v].share \in 1..Len(shares')
        BY <2>0, <2>1, <2>4, <1>0 DEF ShareInv, RequestOK
      <4>2. QED
        BY <2>4, <4>1, <1>0 DEF ShareInv, RequestOK, PolicyRows
    <3>2. QED
      BY <3>1
  <2>6. QED
    BY <1>1, <2>1, <2>2, <2>3, <2>4, <2>5 DEF ShareInv, TuplesHaveShares
<1>5. QED
  BY <1>3, <1>4 DEF CreateShare

\* A share revoked: the tuples it alone would back are its own rights, and
\* revoke_share deletes all of those.
LEMMA RevokeShareKeeps ==
  ASSUME ShareInv, NEW w \in Worker, RevokeShare(w)
  PROVE  ShareInv'
<1> DEFINE k == req[w].share
<1>0. RequestOK(Idle)
  BY DEF RequestOK, Idle
<1>1. /\ req' = [req EXCEPT ![w] = Idle] /\ place' = place /\ k \in 1..Len(shares)
      /\ shares' = [shares EXCEPT ![k].revoked = TRUE]
      /\ tuples' = tuples \ ({shares[k].subject} \X shares[k].rights)
  BY DEF RevokeShare, Serve, ShareInv, RequestOK
<1> HIDE DEF k
<1>2. Len(shares) \in Nat /\ shares \in [1..Len(shares) -> ShareRow]
  BY LenProperties DEF ShareInv
<1>3. /\ shares' \in [1..Len(shares) -> ShareRow]
      /\ \A i \in 1..Len(shares) : i # k => shares'[i] = shares[i]
  BY <1>1, <1>2 DEF ShareRow
<1>4. shares' \in Seq(ShareRow) /\ Len(shares') = Len(shares)
  BY <1>2, <1>3, SeqDef, LenProperties
<1>5. ASSUME NEW t \in tuples'
      PROVE  \E i \in 1..Len(shares') : /\ ~shares'[i].revoked /\ shares'[i].subject = t[1]
                                        /\ t[2] \in shares'[i].rights
  <2>1. t \in tuples /\ t \in Subject \X Right
    BY <1>1 DEF ShareInv
  <2>2. PICK i \in 1..Len(shares) : /\ ~shares[i].revoked /\ shares[i].subject = t[1]
                                    /\ t[2] \in shares[i].rights
    BY <2>1 DEF ShareInv, TuplesHaveShares
  <2>3. i # k
    <3> SUFFICES ASSUME i = k PROVE FALSE
      OBVIOUS
    <3>1. t = <<t[1], t[2]>>
      BY <2>1
    <3>2. t \in {shares[k].subject} \X shares[k].rights
      BY <2>2, <3>1
    <3>3. QED
      BY <1>1, <3>2
  <2>4. QED
    BY <1>3, <1>4, <2>2, <2>3
<1>6. req' = [v \in Worker |-> req'[v]] /\ \A v \in Worker : req'[v] \in {req[v], Idle}
  BY <1>1 DEF ShareInv
<1>7. \A v \in Worker : RequestOK(req[v])'
  BY <1>0, <1>4, <1>6 DEF ShareInv, RequestOK, PolicyRows
<1>8. QED
  BY <1>1, <1>4, <1>5, <1>6, <1>7 DEF ShareInv, TuplesHaveShares

\* The other steps of a worker: a question with its answer remembered, or a
\* write to other tables.
LEMMA RequestsKeep ==
  ASSUME ShareInv, NEW w \in Worker, Requests(w)
  PROVE  ShareInv'
<1>0. RequestOK(Idle) /\ place.kind \in Kind
  BY DEF RequestOK, Idle, ShareInv, Place
<1>1. ASSUME NEW u \in User, NEW s \in Recipient[place.kind], NEW e \in Expiry,
             NEW rights \in ShareRights, AskShare(w, u, s, rights, e)
      PROVE  ShareInv'
  <2> DEFINE r == [op |-> "share", by |-> u, subject |-> s, rights |-> rights, expires |-> e]
  <2>1. RequestOK(r)
    BY <1>0, AccessAssumption DEF RequestOK, Subject
  <2>2. QED
    BY <1>1, <2>1, ElsewhereKeeps DEF AskShare, Ask, tables
<1>2. ASSUME NEW u \in User, NEW s \in Recipient[place.kind], NEW e \in Expiry,
             NEW g \in Grants, AskAssign(w, u, s, g, e)
      PROVE  ShareInv'
  <2> DEFINE r == [op |-> "assign", subject |-> s, grant |-> g, expires |-> e]
  <2>1. RequestOK(r)
    <3>1. g.role \in DOMAIN RoleRights /\ g.scope \in Scope
      BY AccessAssumption
    <3>2. s \in Subject
      BY <1>0, AccessAssumption DEF Subject
    <3>3. QED
      BY <3>1, <3>2 DEF RequestOK
  <2>2. QED
    BY <1>2, <2>1, ElsewhereKeeps DEF AskAssign, Ask, tables
<1>3. ASSUME NEW u \in User, NEW i \in 1..MaxShares[place.kind], AskUnshare(w, u, i)
      PROVE  ShareInv'
  <2> DEFINE r == [op |-> "unshare", share |-> i]
  <2>1. RequestOK(r)
    BY <1>3 DEF RequestOK, AskUnshare
  <2>2. QED
    BY <1>3, <2>1, ElsewhereKeeps DEF AskUnshare, Ask, tables
<1>4. ASSUME NEW u \in User, NEW row \in roles, AskUnassign(w, u, row)
      PROVE  ShareInv'
  <2> DEFINE r == [op |-> "unassign", id |-> row.id]
  <2>1. RequestOK(r)
    BY DEF RequestOK
  <2>2. QED
    BY <1>4, <2>1, ElsewhereKeeps DEF AskUnassign, Ask, tables
<1>5. ASSUME NEW u \in User, NEW op \in {"join", "leave"}, NEW s \in Recipient[place.kind],
             AskMember(w, u, op, s)
      PROVE  ShareInv'
  <2> DEFINE r == [op |-> op, by |-> u, entitled |-> u \in Managers("store"), subject |-> s]
  <2>1. RequestOK(r)
    BY <1>0, AccessAssumption DEF RequestOK, Subject
  <2>2. req' = [req EXCEPT ![w] = r] /\ UNCHANGED <<shares, tuples, place>>
    BY <1>5 DEF AskMember, Ask, tables
  <2> HIDE DEF r
  <2>3. QED
    BY <2>1, <2>2, ElsewhereKeeps
<1>6. CASE AskStart(w)
  <2> DEFINE r == [op |-> "start", missing |-> PolicyRows \ roles]
  <2>1. RequestOK(r)
    BY DEF RequestOK
  <2>2. QED
    BY <1>6, <2>1, ElsewhereKeeps DEF AskStart, Ask, tables
<1>7. ASSUME NEW u \in User, Provision(w, u) PROVE ShareInv'
  BY <1>0, <1>7, ElsewhereKeeps DEF Provision
<1>8. CASE \/ AssignRole(w) \/ RevokeRole(w) \/ AddOrgMember(w) \/ RemoveOrgMember(w)
           \/ EnsurePolicy(w)
  <2>1. req' = [req EXCEPT ![w] = Idle] /\ UNCHANGED <<shares, tuples, place>>
    BY <1>8 DEF AssignRole, RevokeRole, AddOrgMember, RemoveOrgMember, EnsurePolicy, Serve
  <2>2. QED
    BY <1>0, <2>1, ElsewhereKeeps
<1>9. QED
  BY <1>1, <1>2, <1>3, <1>4, <1>5, <1>6, <1>7, <1>8, CreateShareKeeps, RevokeShareKeeps
  DEF Requests

\* Every step keeps the tuples backed.
LEMMA ShareInvStep ==
  ASSUME ShareInv, [Next]_vars
  PROVE  ShareInv'
<1>1. CASE \E w \in Worker : Requests(w)
  BY <1>1, RequestsKeep
<1>2. CASE Directories \/ Tick \/ UNCHANGED vars
  <2>1. UNCHANGED <<shares, tuples, place, req>>
    BY <1>2 DEF Directories, ScimUpsert, ScimDelete, GrantBreakGlass, RevokeBreakGlass,
                TailnetSync, BindEntra, Tick, vars, tables
  <2>2. \A w \in Worker : RequestOK(req[w])'
    BY <2>1 DEF ShareInv, RequestOK, PolicyRows
  <2>3. QED
    BY <2>1, <2>2 DEF ShareInv, TuplesHaveShares
<1>3. QED
  BY <1>1, <1>2 DEF Next

\* No tuple outlives the shares that back it, for any number of overlapping
\* shares of any rights, created and revoked by any workers at once.
THEOREM NoTupleLeftBehind == Spec => []TuplesHaveShares
<1>1. ShareInv /\ [Next]_vars => ShareInv'
  BY ShareInvStep
<1>2. ShareInv => TuplesHaveShares
  BY DEF ShareInv
<1>3. QED
  BY <1>1, <1>2, ShareInvInit, PTL DEF Spec

-----------------------------------------------------------------------------
\* Behind OnePolicyGrant: a row that is in force and was not assigned by an
\* administrator is, to the last column, a row of the policy.
RowOK(row) ==
  /\ "revoked" \in DOMAIN row
  /\ row.id[1] = "manual" \/ row.revoked \/ row \in PolicyRows

PolicyInv == \A row \in roles : RowOK(row)

\* A row of the policy is in force, and its subject and role give its id.
LEMMA PolicyRowShape ==
  ASSUME NEW row \in PolicyRows
  PROVE  /\ "revoked" \in DOMAIN row /\ row.revoked = FALSE
         /\ \/ row.role = "platform_admin" /\ row = Row(<<"superadmin", row.subject>>,
                 row.subject, "platform_admin", "tenant", Never)
            \/ row.role = "app_service" /\ row = Row(<<"service", Service>>,
                 Service, "app_service", "org", Never)
BY DEF PolicyRows, Row

\* Revoking rows leaves every other row as it was.
LEMMA RevokedKeeps ==
  ASSUME PolicyInv, NEW R \in SUBSET roles, roles' = Revoked(R)
  PROVE  PolicyInv'
<1>1. ASSUME NEW row \in roles'
      PROVE  row \in roles \/ \E old \in roles : row = [old EXCEPT !.revoked = TRUE]
  BY <1>1 DEF Revoked
<1>2. ASSUME NEW old \in roles PROVE RowOK([old EXCEPT !.revoked = TRUE])
  <2>1. "revoked" \in DOMAIN old
    BY DEF PolicyInv, RowOK
  <2>2. /\ DOMAIN [old EXCEPT !.revoked = TRUE] = DOMAIN old
        /\ [old EXCEPT !.revoked = TRUE].revoked = TRUE
    BY <2>1
  <2>3. QED
    BY <2>1, <2>2 DEF RowOK
<1>3. QED
  BY <1>1, <1>2 DEF PolicyInv

\* A step of a worker on role_assignments: revocations, a row of an
\* administrator, or the rows of the policy.
LEMMA PolicyInvStep ==
  ASSUME ShareInv, PolicyInv, [Next]_vars
  PROVE  PolicyInv'
<1>1. ASSUME NEW w \in Worker, RevokeRole(w) \/ RemoveOrgMember(w) PROVE PolicyInv'
  <2>1. roles' = roles \/ \E R \in SUBSET roles : roles' = Revoked(R)
    BY <1>1 DEF RevokeRole, RemoveOrgMember, OrgRows
  <2>2. QED
    BY <2>1, RevokedKeeps DEF PolicyInv
<1>2. ASSUME NEW w \in Worker, AssignRole(w) \/ AddOrgMember(w) PROVE PolicyInv'
  <2>1. ASSUME NEW s, NEW role, NEW scope, NEW e
        PROVE  RowOK(Row(NewId, s, role, scope, e))
    BY DEF RowOK, Row, NewId
  <2>2. \/ roles' = roles
        \/ \E row : RowOK(row) /\ roles' = roles \cup {row}
    <3>1. CASE AssignRole(w)
      BY <2>1, <3>1 DEF AssignRole
    <3>2. CASE AddOrgMember(w)
      BY <2>1, <3>2 DEF AddOrgMember
    <3>3. QED
      BY <1>2, <3>1, <3>2
  <2>3. QED
    BY <2>2 DEF PolicyInv
<1>3. ASSUME NEW w \in Worker, EnsurePolicy(w) PROVE PolicyInv'
  <2>1. req[w].missing \subseteq PolicyRows
    BY <1>3 DEF EnsurePolicy, Serve, ShareInv, RequestOK
  <2>2. \A row \in PolicyRows : RowOK(row)
    BY PolicyRowShape DEF RowOK
  <2>3. roles' \subseteq roles \cup PolicyRows
    BY <1>3, <2>1 DEF EnsurePolicy
  <2>4. QED
    BY <2>2, <2>3 DEF PolicyInv
<1>4. CASE roles' = roles
  BY <1>4 DEF PolicyInv
<1>5. ASSUME NEW w \in Worker, Requests(w)
      PROVE  \/ roles' = roles \/ RevokeRole(w) \/ RemoveOrgMember(w)
             \/ AssignRole(w) \/ AddOrgMember(w) \/ EnsurePolicy(w)
  BY <1>5 DEF Requests, Provision, AskShare, AskAssign, AskUnshare, AskUnassign, AskMember,
              AskStart, CreateShare, RevokeShare, Ask, tables
<1>6. CASE Directories \/ Tick \/ UNCHANGED vars
  BY <1>4, <1>6 DEF Directories, ScimUpsert, ScimDelete, GrantBreakGlass, RevokeBreakGlass,
                    TailnetSync, BindEntra, Tick, vars, tables
<1>7. QED
  BY <1>1, <1>2, <1>3, <1>4, <1>5, <1>6 DEF Next

\* However many workers start at once and whatever administrators revoke
\* meanwhile, a grant of the operator's policy is in force at most once.
THEOREM PolicyGrantedOnce == Spec => []OnePolicyGrant
<1>1. Init => ShareInv /\ PolicyInv
  BY ShareInvInit, PolicyRowShape DEF Init, PolicyInv, RowOK
<1>2. ShareInv /\ PolicyInv /\ [Next]_vars => ShareInv' /\ PolicyInv'
  BY ShareInvStep, PolicyInvStep
<1>3. PolicyInv => OnePolicyGrant
  <2> SUFFICES ASSUME PolicyInv, NEW r1 \in roles \ Manual, NEW r2 \in roles \ Manual,
                      r1.subject = r2.subject, r1.role = r2.role, ~r1.revoked, ~r2.revoked
               PROVE  r1 = r2
    BY DEF OnePolicyGrant
  <2>1. r1 \in PolicyRows /\ r2 \in PolicyRows
    BY DEF PolicyInv, RowOK, Manual
  <2>2. QED
    BY <2>1, PolicyRowShape
<1>4. QED
  BY <1>1, <1>2, <1>3, PTL DEF Spec

-----------------------------------------------------------------------------
IdentInv == ident \in [User -> [key : {"none", "login", "scim", "tailnet"}, active : BOOLEAN]]

\* What a step may make of a row of identities.
Kept(u) ==
  (ident[u].key = "tailnet" /\ ~ident[u].active)
    => ident'[u] \in {ident[u], Identity("tailnet", TRUE)}

\* An upsert of one user, by an id that is not the tailnet's.
LEMMA UpsertKeeps ==
  ASSUME IdentInv, NEW u \in User, NEW key \in {"login", "scim"}, NEW active \in BOOLEAN,
         CanUpsert(u, key), ident' = [ident EXCEPT ![u] = Identity(key, active)]
  PROVE  IdentInv' /\ \A v \in User : Kept(v)
BY DEF IdentInv, CanUpsert, Identity, Kept

\* A sync of the tailnet addresses its own rows, and rows without an owner.
LEMMA SyncKeeps ==
  ASSUME IdentInv, NEW listing \in Listings, TailnetSync(listing)
  PROVE  IdentInv' /\ \A v \in User : Kept(v)
<1>1. listing \in [User -> {"absent", "active", "suspended", "acl"}]
  BY AccessAssumption
<1>2. ASSUME NEW u \in User
      PROVE  /\ ident'[u] \in [key : {"none", "login", "scim", "tailnet"}, active : BOOLEAN]
             /\ Kept(u)
  <2>1. ident'[u] = FromTailnet(u, listing[u])
    BY DEF TailnetSync
  <2>2. CASE listing[u] = "absent"
    BY <2>1, <2>2 DEF FromTailnet, IdentInv, Kept
  <2>3. CASE listing[u] = "acl"
    <3>1. ident'[u] = [key |-> "login", active |-> TRUE] /\ ident[u].key # "tailnet"
      BY <2>1, <2>3 DEF FromTailnet, TailnetKey, Identity, TailnetSync, Fits, CanUpsert
    <3>2. Kept(u)
      BY <3>1 DEF Kept
    <3>3. QED
      BY <3>1, <3>2
  <2>4. CASE listing[u] = "active"
    <3>1. ident'[u] = [key |-> "tailnet", active |-> TRUE]
      BY <2>1, <2>4 DEF FromTailnet, TailnetKey, Identity
    <3>2. QED
      BY <3>1 DEF Kept, Identity
  <2>5. CASE listing[u] = "suspended"
    <3>1. ident'[u] = [key |-> "tailnet", active |-> FALSE]
      BY <2>1, <2>5 DEF FromTailnet, TailnetKey, Identity
    <3>2. (ident[u].key = "tailnet" /\ ~ident[u].active)
             => ident[u] = [key |-> "tailnet", active |-> FALSE]
      BY DEF IdentInv
    <3>3. Kept(u)
      BY <3>1, <3>2 DEF Kept
    <3>4. QED
      BY <3>1, <3>3
  <2>6. QED
    BY <1>1, <2>2, <2>3, <2>4, <2>5
<1>3. QED
  BY <1>2 DEF IdentInv, TailnetSync

\* What every step makes of the rows of identities.
LEMMA IdentStep ==
  ASSUME ShareInv, IdentInv, [Next]_vars
  PROVE  IdentInv' /\ \A u \in User : Kept(u)
<1>1. CASE ident' = ident
  BY <1>1 DEF IdentInv, Kept
<1>2. ASSUME NEW w \in Worker, Requests(w) PROVE IdentInv' /\ \A u \in User : Kept(u)
  <2>1. ASSUME NEW u \in User, Provision(w, u) PROVE IdentInv' /\ \A v \in User : Kept(v)
    BY <2>1, UpsertKeeps DEF Provision
  <2>2. CASE CreateShare(w)
    <3>1. req[w].by \in User
      BY <2>2 DEF CreateShare, Serve, ShareInv, RequestOK
    <3>2. \/ ident' = ident
          \/ /\ CanUpsert(req[w].by, "login")
             /\ ident' = [ident EXCEPT ![req[w].by] = Identity("login", TRUE)]
      BY <2>2 DEF CreateShare
    <3>3. QED
      BY <1>1, <3>1, <3>2, UpsertKeeps
  <2>3. \/ ident' = ident \/ CreateShare(w) \/ \E u \in User : Provision(w, u)
    BY <1>2 DEF Requests, AskShare, AskAssign, AskUnshare, AskUnassign, AskMember, AskStart,
                RevokeShare, AssignRole, RevokeRole, AddOrgMember, RemoveOrgMember,
                EnsurePolicy, Ask, tables
  <2>4. QED
    BY <1>1, <2>1, <2>2, <2>3
<1>3. ASSUME Directories PROVE IdentInv' /\ \A u \in User : Kept(u)
  <2>0. Guest[place.kind] \subseteq User
    BY AccessAssumption DEF ShareInv, Place
  <2>1. ASSUME NEW u \in User, NEW key \in {"login", "scim"}, NEW active \in BOOLEAN,
               ScimUpsert(u, key, active)
        PROVE  IdentInv' /\ \A v \in User : Kept(v)
    BY <2>1, UpsertKeeps DEF ScimUpsert
  <2>2. ASSUME NEW u \in User, ScimDelete(u) PROVE IdentInv' /\ \A v \in User : Kept(v)
    BY <2>2 DEF ScimDelete, IdentInv, Kept
  <2>3. ASSUME NEW u \in User, GrantBreakGlass(u) \/ RevokeBreakGlass(u)
        PROVE  IdentInv' /\ \A v \in User : Kept(v)
    BY <1>1, <2>3 DEF GrantBreakGlass, RevokeBreakGlass
  <2>4. CASE BindEntra
    BY <1>1, <2>4 DEF BindEntra
  <2>5. QED
    BY <1>3, <2>0, <2>1, <2>2, <2>3, <2>4, SyncKeeps DEF Directories
<1>4. CASE Tick \/ UNCHANGED vars
  BY <1>1, <1>4 DEF Tick, vars, tables
<1>5. QED
  BY <1>2, <1>3, <1>4 DEF Next

\* A suspended user stays denied until the tailnet lists them as active, for
\* any users and listings: no first contact, no share they make and no SCIM
\* request reaches the tailnet's row.
THEOREM SuspensionHolds == Spec => SuspendedStaysDenied
<1>1. Init => ShareInv /\ IdentInv
  BY ShareInvInit DEF Init, IdentInv
<1>2. ShareInv /\ IdentInv /\ [Next]_vars => ShareInv' /\ IdentInv' /\ \A u \in User : Kept(u)
  BY ShareInvStep, IdentStep
<1>3. (\A u \in User : Kept(u)) =>
        \A u \in User : (ident[u].key = "tailnet" /\ ~ident[u].active)
                          => ident'[u] \in {ident[u], Identity("tailnet", TRUE)}
  BY DEF Kept
<1>4. QED
  BY <1>1, <1>2, <1>3, PTL DEF Spec, SuspendedStaysDenied

-----------------------------------------------------------------------------
(* role_assignments: every id has one row.  The id of a row an              *)
(* administrator adds is new because ids are counted and no row is deleted. *)

Ids == {"manual", "superadmin", "service"} \X (Nat \cup User)
RoleRow == [id : Ids, subject : Subject, role : DOMAIN RoleRights, scope : Scope,
            expires : Expiry, revoked : BOOLEAN]

OneRowPerId == \A r1, r2 \in roles : r1.id = r2.id => r1 = r2
CountedIds == \A row \in Manual : \E k \in 1..Cardinality(Manual) : row.id = <<"manual", k>>
RolesInv == roles \subseteq RoleRow /\ IsFiniteSet(Manual) /\ OneRowPerId /\ CountedIds

\* The rows of the policy have the columns of the table, and ids that are
\* neither an administrator's nor shared.
LEMMA PolicyRowsTyped ==
  /\ PolicyRows \subseteq RoleRow
  /\ \A row \in PolicyRows : row.id[1] # "manual"
  /\ \A r1, r2 \in PolicyRows : r1.id = r2.id => r1 = r2
<1>1. Never \in Expiry
  BY AccessAssumption DEF Never, Expiry
<1>2. ASSUME NEW u \in Superadmin
      PROVE  Row(<<"superadmin", u>>, u, "platform_admin", "tenant", Never) \in RoleRow
  BY <1>1, AccessAssumption DEF Row, RoleRow, Ids, Subject, RoleRights, Scope
<1>3. Row(<<"service", Service>>, Service, "app_service", "org", Never) \in RoleRow
  BY <1>1, AccessAssumption DEF Row, RoleRow, Ids, Subject, RoleRights, Scope
<1>4. PolicyRows \subseteq RoleRow
  BY <1>2, <1>3 DEF PolicyRows
<1>5. \A row \in PolicyRows : row.id[1] # "manual"
  BY DEF PolicyRows, Row
<1>6. ASSUME NEW r1 \in PolicyRows, NEW r2 \in PolicyRows, r1.id = r2.id PROVE r1 = r2
  <2>1. ASSUME NEW row \in PolicyRows
        PROVE  \/ /\ row.id = <<"superadmin", row.subject>>
                  /\ row = Row(<<"superadmin", row.subject>>, row.subject, "platform_admin",
                               "tenant", Never)
               \/ /\ row.id = <<"service", Service>>
                  /\ row = Row(<<"service", Service>>, Service, "app_service", "org", Never)
    BY DEF PolicyRows, Row
  <2>2. CASE r1.id = <<"service", Service>>
    <3>1. r1.id # <<"superadmin", r1.subject>> /\ r2.id # <<"superadmin", r2.subject>>
      BY <1>6, <2>2
    <3>2. QED
      BY <2>1, <3>1, Zenon
  <2>3. CASE r1.id = <<"superadmin", r1.subject>>
    <3>1. r1.id # <<"service", Service>> /\ r2.id # <<"service", Service>>
      BY <1>6, <2>3
    <3>2. r2.id = <<"superadmin", r2.subject>>
      BY <2>1, <3>1, Zenon
    <3>3. r1.subject = r2.subject
      <4>1. <<"superadmin", r1.subject>> = <<"superadmin", r2.subject>>
        BY <1>6, <2>3, <3>2, Zenon
      <4>2. QED
        BY <4>1
    <3>4. QED
      BY <2>1, <3>1, <3>3, Zenon
  <2>4. QED
    BY <2>1, <2>2, <2>3, Zenon
<1>7. QED
  BY <1>4, <1>5, <1>6

\* A revoked row keeps every other column.
LEMMA RevokedRow ==
  ASSUME NEW row \in RoleRow
  PROVE  /\ [row EXCEPT !.revoked = TRUE] \in RoleRow
         /\ [row EXCEPT !.revoked = TRUE].id = row.id
BY DEF RoleRow

\* Revoking neither adds nor removes a row: it maps the table to itself,
\* one to one by id.
LEMMA RevokedRoles ==
  ASSUME RolesInv, NEW R \in SUBSET roles, roles' = Revoked(R)
  PROVE  RolesInv'
<1> DEFINE new(row) == IF row \in R THEN [row EXCEPT !.revoked = TRUE] ELSE row
<1>1. \A row \in roles : new(row) \in RoleRow /\ new(row).id = row.id
  BY RevokedRow DEF RolesInv
<1>2. roles' = {new(row) : row \in roles}
  BY DEF Revoked
<1> HIDE DEF new
<1>3. roles' \subseteq RoleRow
  BY <1>1, <1>2
<1>4. OneRowPerId'
  <2> SUFFICES ASSUME NEW r1 \in roles', NEW r2 \in roles', r1.id = r2.id PROVE r1 = r2
    BY DEF OneRowPerId
  <2>1. PICK o1 \in roles : r1 = new(o1)
    BY <1>2
  <2>2. PICK o2 \in roles : r2 = new(o2)
    BY <1>2
  <2>3. o1 = o2
    BY <1>1, <2>1, <2>2 DEF RolesInv, OneRowPerId
  <2>4. QED
    BY <2>1, <2>2, <2>3
<1>5. Manual' = {new(row) : row \in Manual}
  <2>1. Manual' = {row \in roles' : row.id[1] = "manual"}
    BY DEF Manual
  <2>2. QED
    BY <1>1, <1>2, <2>1 DEF Manual
<1>6. ExistsBijection(Manual, Manual')
  <2> DEFINE f == [row \in Manual |-> new(row)]
  <2>1. f \in [Manual -> Manual'] /\ \A row \in Manual : f[row] = new(row)
    BY <1>5
  <2>2. \A a, b \in Manual : f[a] = f[b] => a = b
    BY <1>1, <2>1 DEF Manual, RolesInv, OneRowPerId
  <2>3. \A t \in Manual' : \E s \in Manual : f[s] = t
    BY <1>5, <2>1
  <2> HIDE DEF f
  <2>4. f \in Bijection(Manual, Manual')
    BY <2>1, <2>2, <2>3 DEF Bijection, Injection, Surjection, IsInjective
  <2>5. QED
    BY <2>4 DEF ExistsBijection
<1>7. IsFiniteSet(Manual') /\ Cardinality(Manual') = Cardinality(Manual)
  BY <1>6, FS_Bijection DEF RolesInv
<1>8. CountedIds'
  <2> SUFFICES ASSUME NEW row \in Manual'
               PROVE  \E k \in 1..Cardinality(Manual') : row.id = <<"manual", k>>
    BY DEF CountedIds
  <2>1. PICK old \in Manual : row = new(old)
    BY <1>5
  <2>2. old \in roles /\ row.id = old.id
    BY <1>1, <2>1 DEF Manual
  <2>3. QED
    BY <1>7, <2>2 DEF RolesInv, CountedIds
<1>9. QED
  BY <1>3, <1>4, <1>7, <1>8 DEF RolesInv

\* A row an administrator adds has an id that no row has.
LEMMA AddedRole ==
  ASSUME RolesInv, NEW s \in Subject, NEW role \in DOMAIN RoleRights, NEW scope \in Scope,
         NEW e \in Expiry, roles' = roles \cup {Row(NewId, s, role, scope, e)}
  PROVE  RolesInv'
<1> DEFINE n == Cardinality(Manual)
           row == Row(NewId, s, role, scope, e)
<1>1. n \in Nat /\ IsFiniteSet(Manual)
  BY FS_CardinalityType DEF RolesInv
<1>2. row.id = <<"manual", n + 1>> /\ row \in RoleRow
  BY <1>1 DEF Row, NewId, RoleRow, Ids
<1>3. roles' = roles \cup {row}
  OBVIOUS
<1> HIDE DEF row
<1>4. \A r \in Manual : r.id # row.id
  <2> SUFFICES ASSUME NEW r \in Manual PROVE r.id # row.id
    OBVIOUS
  <2>1. PICK k \in 1..n : r.id = <<"manual", k>>
    BY DEF RolesInv, CountedIds
  <2>2. k # n + 1
    BY <1>1
  <2>3. QED
    BY <1>2, <2>1, <2>2
<1>5. \A r \in roles : r.id # row.id
  BY <1>2, <1>4 DEF Manual
<1>6. OneRowPerId'
  BY <1>3, <1>5 DEF RolesInv, OneRowPerId
<1>7. Manual' = Manual \cup {row}
  BY <1>2, <1>3 DEF Manual
<1>8. IsFiniteSet(Manual') /\ Cardinality(Manual') = n + 1
  BY <1>1, <1>4, <1>7, FS_AddElement
<1> HIDE DEF n
<1>9. CountedIds'
  <2> SUFFICES ASSUME NEW r \in Manual'
               PROVE  \E k \in 1..Cardinality(Manual') : r.id = <<"manual", k>>
    BY DEF CountedIds
  <2>1. CASE r = row
    BY <1>1, <1>2, <1>8, <2>1
  <2>2. CASE r \in Manual
    BY <1>1, <1>8, <2>2 DEF RolesInv, CountedIds, n
  <2>3. QED
    BY <1>7, <2>1, <2>2
<1>10. QED
  BY <1>2, <1>3, <1>6, <1>8, <1>9 DEF RolesInv

\* A worker that starts replaces the rows of its policy by their ids, and
\* touches no row of an administrator.
LEMMA EnsuredRoles ==
  ASSUME RolesInv, NEW missing \in SUBSET PolicyRows,
         roles' = {row \in roles : row.id \notin {m.id : m \in missing}} \cup missing
  PROVE  RolesInv'
<1>1. roles' \subseteq RoleRow
  BY PolicyRowsTyped DEF RolesInv
<1>2. \A m \in missing : m.id[1] # "manual"
  BY PolicyRowsTyped
<1>3. Manual' = Manual
  <2>1. \A row \in Manual : row \in roles'
    BY <1>2 DEF Manual
  <2>2. \A row \in roles' : row.id[1] = "manual" => row \in roles
    BY <1>2
  <2>3. QED
    BY <2>1, <2>2 DEF Manual
<1>4. OneRowPerId'
  <2> SUFFICES ASSUME NEW r1 \in roles', NEW r2 \in roles', r1.id = r2.id PROVE r1 = r2
    BY DEF OneRowPerId
  <2>1. CASE r1 \in missing /\ r2 \in missing
    BY <2>1, PolicyRowsTyped
  <2>2. CASE r1 \notin missing /\ r2 \notin missing
    BY <2>2 DEF RolesInv, OneRowPerId
  <2>3. r1 \in missing <=> r2 \in missing
    OBVIOUS
  <2>4. QED
    BY <2>1, <2>2, <2>3
<1>5. QED
  BY <1>1, <1>3, <1>4 DEF RolesInv, CountedIds

\* Every step keeps one row per id.
LEMMA RolesStep ==
  ASSUME ShareInv, RolesInv, [Next]_vars
  PROVE  RolesInv'
<1>0. Never \in Expiry /\ "member" \in DOMAIN RoleRights /\ "org" \in Scope
  BY AccessAssumption DEF Never, Expiry, RoleRights, Scope
<1>1. ASSUME NEW w \in Worker, RevokeRole(w) \/ RemoveOrgMember(w) PROVE RolesInv'
  <2>1. roles' = roles \/ \E R \in SUBSET roles : roles' = Revoked(R)
    BY <1>1 DEF RevokeRole, RemoveOrgMember, OrgRows
  <2>2. QED
    BY <2>1, RevokedRoles DEF RolesInv, OneRowPerId, CountedIds, Manual
<1>2. ASSUME NEW w \in Worker, AssignRole(w) PROVE RolesInv'
  <2>1. RequestOK(req[w]) /\ req[w].op = "assign"
    BY <1>2 DEF AssignRole, Serve, ShareInv
  <2>2. roles' = roles \cup {Row(NewId, req[w].subject, req[w].grant.role, req[w].grant.scope,
                                 req[w].expires)}
    BY <1>2 DEF AssignRole
  <2>3. QED
    BY <2>1, <2>2, AddedRole DEF RequestOK
<1>3. ASSUME NEW w \in Worker, AddOrgMember(w) PROVE RolesInv'
  <2>1. RequestOK(req[w]) /\ req[w].op = "join"
    BY <1>3 DEF AddOrgMember, Serve, ShareInv
  <2>2. roles' = roles \/ roles' = roles \cup {Row(NewId, req[w].subject, "member", "org", Never)}
    BY <1>3 DEF AddOrgMember
  <2>3. CASE roles' = roles
    BY <2>3 DEF RolesInv, OneRowPerId, CountedIds, Manual
  <2>4. QED
    BY <1>0, <2>1, <2>2, <2>3, AddedRole DEF RequestOK
<1>4. ASSUME NEW w \in Worker, EnsurePolicy(w) PROVE RolesInv'
  <2>1. req[w].missing \in SUBSET PolicyRows
    BY <1>4 DEF EnsurePolicy, Serve, ShareInv, RequestOK
  <2>2. roles' = {row \in roles : row.id \notin {m.id : m \in req[w].missing}} \cup req[w].missing
    BY <1>4 DEF EnsurePolicy
  <2>3. QED
    BY <2>1, <2>2, EnsuredRoles
<1>5. CASE roles' = roles
  BY <1>5 DEF RolesInv, OneRowPerId, CountedIds, Manual
<1>6. ASSUME NEW w \in Worker, Requests(w)
      PROVE  \/ roles' = roles \/ RevokeRole(w) \/ RemoveOrgMember(w)
             \/ AssignRole(w) \/ AddOrgMember(w) \/ EnsurePolicy(w)
  BY <1>6 DEF Requests, Provision, AskShare, AskAssign, AskUnshare, AskUnassign, AskMember,
              AskStart, CreateShare, RevokeShare, Ask, tables
<1>7. CASE Directories \/ Tick \/ UNCHANGED vars
  BY <1>5, <1>7 DEF Directories, ScimUpsert, ScimDelete, GrantBreakGlass, RevokeBreakGlass,
                    TailnetSync, BindEntra, Tick, vars, tables
<1>8. QED
  BY <1>1, <1>2, <1>3, <1>4, <1>5, <1>6, <1>7 DEF Next

\* The binding of the Entra group and the clock.
ClockInv == bound \in BOOLEAN /\ now \in 0..MaxTime

\* Nothing is shared, assigned beside the policy or bound in the beginning.
LEMMA AccessInit == Init => ShareInv /\ IdentInv /\ RolesInv /\ ClockInv
<1> SUFFICES ASSUME Init PROVE ShareInv /\ IdentInv /\ RolesInv /\ ClockInv
  OBVIOUS
<1>0. ShareInv /\ IdentInv
  BY ShareInvInit DEF Init, IdentInv
<1>1. ClockInv
  <2>1. now \in 0..MaxTime
    BY AccessAssumption DEF Init
  <2>2. bound \in BOOLEAN
    BY Zenon DEF Init
  <2>3. QED
    BY <2>1, <2>2 DEF ClockInv
<1>2. Manual = {}
  BY PolicyRowsTyped DEF Init, Manual
<1>3. RolesInv
  BY <1>2, PolicyRowsTyped, FS_EmptySet DEF Init, RolesInv, OneRowPerId, CountedIds
<1>4. QED
  BY <1>0, <1>1, <1>3

\* No step leaves the clock's range.
LEMMA ClockStep == ClockInv /\ [Next]_vars => ClockInv'
<1> SUFFICES ASSUME ClockInv, [Next]_vars PROVE ClockInv'
  OBVIOUS
<1>1. CASE \E w \in Worker : Requests(w)
  <2>1. PICK w \in Worker : Requests(w)
    BY <1>1
  <2>2. \A r : Ask(w, r) => bound' = bound /\ now' = now
    BY DEF Ask, tables
  <2>3. bound' = bound /\ now' = now
    <3>1. CASE \/ CreateShare(w) \/ RevokeShare(w) \/ AssignRole(w) \/ RevokeRole(w)
               \/ AddOrgMember(w) \/ RemoveOrgMember(w) \/ EnsurePolicy(w)
      BY <3>1 DEF CreateShare, RevokeShare, AssignRole, RevokeRole, AddOrgMember,
                  RemoveOrgMember, EnsurePolicy, Serve
    <3>2. CASE \E u \in User : Provision(w, u)
      BY <3>2 DEF Provision
    <3>3. CASE \E r : Ask(w, r)
      BY <2>2, <3>3
    <3>4. QED
      BY <2>1, <3>1, <3>2, <3>3, Zenon
      DEF Requests, AskShare, AskAssign, AskUnshare, AskUnassign, AskMember, AskStart
  <2>4. QED
    BY <2>3 DEF ClockInv
<1>2. CASE BindEntra
  BY <1>2 DEF BindEntra, ClockInv
<1>3. CASE Tick
  BY <1>3, AccessAssumption DEF Tick, tables, ClockInv
<1>4. CASE (Directories /\ ~BindEntra) \/ UNCHANGED vars
  BY <1>4 DEF Directories, ScimUpsert, ScimDelete, GrantBreakGlass, RevokeBreakGlass,
              TailnetSync, vars, tables, ClockInv
<1>5. QED
  BY <1>1, <1>2, <1>3, <1>4 DEF Next

\* The tables keep rows of their schemas, an id of role_assignments has one
\* row however administrators and starting workers interleave, and a
\* revocation in flight is of a share that exists.
THEOREM AccessType == Spec => []TypeOK
<1>1. ShareInv /\ IdentInv /\ RolesInv /\ ClockInv => TypeOK
  <2> SUFFICES ASSUME ShareInv, IdentInv, RolesInv, ClockInv PROVE TypeOK
    OBVIOUS
  <2>1. \A row \in roles : /\ row.subject \in Subject /\ row.scope \in Scope
                           /\ row.role \in DOMAIN RoleRights /\ row.revoked \in BOOLEAN
    BY DEF RolesInv, RoleRow
  <2>2. \A w \in Worker : req[w].op = "unshare" => req[w].share \in 1..Len(shares)
    BY DEF ShareInv, RequestOK
  <2>3. QED
    BY <2>1, <2>2 DEF TypeOK, ShareInv, ShareRow, IdentInv, RolesInv, OneRowPerId, ClockInv
<1>2. QED
  BY <1>1, AccessInit, ClockStep, ShareInvStep, IdentStep, RolesStep, PTL DEF Spec

-----------------------------------------------------------------------------
(* Every right gained or lost has its cause.                                *)

\* No step moves the capability or turns the clock back.
LEMMA PlaceStays ==
  ASSUME ClockInv, [Next]_vars
  PROVE  place' = place /\ now <= now'
<1>0. now \in Nat
  BY AccessAssumption DEF ClockInv
<1>1. ASSUME NEW w \in Worker, Requests(w) PROVE place' = place /\ now' = now
  <2>1. \A r : Ask(w, r) => place' = place /\ now' = now
    BY DEF Ask
  <2>2. CASE \/ CreateShare(w) \/ RevokeShare(w) \/ AssignRole(w) \/ RevokeRole(w)
             \/ AddOrgMember(w) \/ RemoveOrgMember(w) \/ EnsurePolicy(w)
    BY <2>2 DEF CreateShare, RevokeShare, AssignRole, RevokeRole, AddOrgMember,
                RemoveOrgMember, EnsurePolicy, Serve
  <2>3. CASE \E u \in User : Provision(w, u)
    BY <2>3 DEF Provision
  <2>4. CASE \E r : Ask(w, r)
    BY <2>1, <2>4
  <2>5. QED
    BY <1>1, <2>2, <2>3, <2>4, Zenon
    DEF Requests, AskShare, AskAssign, AskUnshare, AskUnassign, AskMember, AskStart
<1>2. CASE Directories \/ UNCHANGED vars
  BY <1>0, <1>2 DEF Directories, ScimUpsert, ScimDelete, GrantBreakGlass, RevokeBreakGlass,
              TailnetSync, BindEntra, vars
<1>3. CASE Tick
  BY <1>0, <1>3 DEF Tick
<1>4. QED
  BY <1>0, <1>1, <1>2, <1>3 DEF Next

\* A row in force stays, or stays as a revoked row: a worker that starts puts
\* the rows of the policy in the place of equal ones or of revoked ones.
LEMMA RolesStay ==
  ASSUME ShareInv, PolicyInv, RolesInv, [Next]_vars, NEW row \in roles, ~row.revoked
  PROVE  row \in roles' \/ [row EXCEPT !.revoked = TRUE] \in roles'
<1>1. ASSUME NEW w \in Worker, RevokeRole(w) \/ RemoveOrgMember(w)
      PROVE  row \in roles' \/ [row EXCEPT !.revoked = TRUE] \in roles'
  <2>1. roles' = roles \/ \E R \in SUBSET roles : roles' = Revoked(R)
    BY <1>1 DEF RevokeRole, RemoveOrgMember, OrgRows
  <2>2. QED
    BY <2>1 DEF Revoked
<1>2. ASSUME NEW w \in Worker, AssignRole(w) \/ AddOrgMember(w) PROVE row \in roles'
  BY <1>2 DEF AssignRole, AddOrgMember
<1>3. ASSUME NEW w \in Worker, EnsurePolicy(w) PROVE row \in roles'
  <2>1. PICK missing \in SUBSET PolicyRows :
          roles' = {r \in roles : r.id \notin {m.id : m \in missing}} \cup missing
    <3>1. req[w].missing \in SUBSET PolicyRows
      BY <1>3 DEF EnsurePolicy, Serve, ShareInv, RequestOK
    <3>2. roles' = {r \in roles : r.id \notin {m.id : m \in req[w].missing}} \cup req[w].missing
      BY <1>3 DEF EnsurePolicy
    <3>3. QED
      BY <3>1, <3>2
  <2>2. CASE row.id \notin {m.id : m \in missing}
    BY <2>1, <2>2
  <2>3. CASE row.id \in {m.id : m \in missing}
    <3>1. PICK m \in missing : row.id = m.id
      BY <2>3
    <3>2. m \in PolicyRows /\ m.id[1] # "manual"
      BY <2>1, PolicyRowsTyped
    <3>3. row \in PolicyRows
      BY <3>1, <3>2 DEF PolicyInv, RowOK
    <3>4. row = m
      BY <3>1, <3>2, <3>3, PolicyRowsTyped
    <3>5. QED
      BY <2>1, <3>4
  <2>4. QED
    BY <2>2, <2>3
<1>4. ASSUME NEW w \in Worker, Requests(w)
      PROVE  \/ roles' = roles \/ RevokeRole(w) \/ RemoveOrgMember(w)
             \/ AssignRole(w) \/ AddOrgMember(w) \/ EnsurePolicy(w)
  BY <1>4 DEF Requests, Provision, AskShare, AskAssign, AskUnshare, AskUnassign, AskMember,
              AskStart, CreateShare, RevokeShare, Ask, tables
<1>5. CASE Directories \/ Tick \/ UNCHANGED vars
  <2>1. roles' = roles
    BY <1>5 DEF Directories, ScimUpsert, ScimDelete, GrantBreakGlass, RevokeBreakGlass,
                TailnetSync, BindEntra, Tick, vars, tables
  <2>2. QED
    BY <2>1
<1>6. QED
  BY <1>1, <1>2, <1>3, <1>4, <1>5 DEF Next

\* What a step may do to the shares and their tuples: revoke, or add one whose
\* giver holds its rights.
Unshared ==
  /\ Len(shares') = Len(shares) /\ tuples' \subseteq tuples
  /\ \A i \in 1..Len(shares) : shares'[i].revoked \/ shares'[i] = shares[i]
Shared(share) ==
  /\ Len(shares') = Len(shares) + 1 /\ shares'[Len(shares) + 1] = share
  /\ \A i \in 1..Len(shares) : shares'[i] = shares[i]
  /\ tuples' = tuples \cup ({share.subject} \X share.rights)
  /\ \A held \in share.rights : share.from \in Holders(held)

\* create_share and revoke_share do just that, and no other step writes shares.
LEMMA SharesChange ==
  ASSUME ShareInv, [Next]_vars
  PROVE  Unshared \/ \E share \in ShareRow : Shared(share)
<1>0. shares \in Seq(ShareRow) /\ Len(shares) \in Nat /\ shares \in [1..Len(shares) -> ShareRow]
  BY LenProperties DEF ShareInv
<1>1. CASE shares' = shares /\ tuples' = tuples
  BY <1>1 DEF Unshared
<1>2. ASSUME NEW w \in Worker, CreateShare(w)
      PROVE  Unshared \/ \E share \in ShareRow : Shared(share)
  <2> DEFINE r == req[w]
  <2>1. PICK share : share = [subject |-> r.subject, rights |-> r.rights, from |-> r.by,
                              expires |-> r.expires, revoked |-> FALSE]
    OBVIOUS
  <2>2. share \in ShareRow
    BY <1>2, <2>1 DEF CreateShare, Serve, ShareInv, RequestOK, ShareRow
  <2>3. share.subject = r.subject /\ share.rights = r.rights /\ share.from = r.by
    BY <2>1
  <2>4. CASE /\ \A right \in r.rights : r.by \in Holders(right)
             /\ shares' = Append(shares, share)
             /\ tuples' = tuples \cup ({r.subject} \X r.rights)
    <3>1. /\ Len(shares') = Len(shares) + 1 /\ shares'[Len(shares) + 1] = share
          /\ \A i \in 1..Len(shares) : shares'[i] = shares[i]
      BY <1>0, <2>2, <2>4, AppendProperties
    <3>2. QED
      BY <2>2, <2>3, <2>4, <3>1 DEF Shared
  <2>5. QED
    BY <1>1, <1>2, <2>1, <2>4 DEF CreateShare
<1>3. ASSUME NEW w \in Worker, RevokeShare(w) PROVE Unshared
  <2>1. PICK k \in 1..Len(shares) :
          /\ shares' = [shares EXCEPT ![k].revoked = TRUE]
          /\ tuples' = tuples \ ({shares[k].subject} \X shares[k].rights)
    BY <1>3 DEF RevokeShare, Serve, ShareInv, RequestOK
  <2>2. /\ shares' \in [1..Len(shares) -> ShareRow] /\ shares'[k].revoked = TRUE
        /\ \A i \in 1..Len(shares) : i # k => shares'[i] = shares[i]
    BY <1>0, <2>1 DEF ShareRow
  <2>3. shares' \in Seq(ShareRow) /\ Len(shares') = Len(shares)
    BY <1>0, <2>2, SeqDef, LenProperties
  <2>4. QED
    BY <2>1, <2>2, <2>3 DEF Unshared
<1>4. ASSUME NEW w \in Worker, Requests(w)
      PROVE  CreateShare(w) \/ RevokeShare(w) \/ (shares' = shares /\ tuples' = tuples)
  BY <1>4 DEF Requests, Provision, AskShare, AskAssign, AskUnshare, AskUnassign, AskMember,
              AskStart, AssignRole, RevokeRole, AddOrgMember, RemoveOrgMember, EnsurePolicy,
              Ask, tables
<1>5. CASE Directories \/ Tick \/ UNCHANGED vars
  <2>1. shares' = shares /\ tuples' = tuples
    BY <1>5 DEF Directories, ScimUpsert, ScimDelete, GrantBreakGlass, RevokeBreakGlass,
                TailnetSync, BindEntra, Tick, vars, tables
  <2>2. QED
    BY <1>1, <2>1
<1>6. QED
  BY <1>1, <1>2, <1>3, <1>4, <1>5 DEF Next


\* The grants a step can change; the others look at nothing that moves.
MovingGrant(u, right) ==
  ActiveRoleGrant(u, right, "capability") \/ ShareGrant(u, right) \/ TupleMatch(u, right)
FixedGrant(u, right) ==
  \/ u \in SessionAdmin \/ StoreOwnerGrant(u) \/ ManifestGrant(u, right) \/ OwnerGrant(u)
  \/ AllUsersStoreGrant(right) \/ DefaultVisibilityGrant(right)
Refused(right) ==
  \/ place.state = "blocked" \/ (right = "manage" /\ place.high)
  \/ (right = "load" /\ place.state = "unattested")

\* The cascade in three parts.
LEMMA Cascade ==
  ASSUME NEW u, NEW right
  PROVE  EvaluateAccess(u, right) <=>
           ~IsDisabled(u) /\ ~Refused(right) /\ (MovingGrant(u, right) \/ FixedGrant(u, right))
BY DEF EvaluateAccess, Refused, MovingGrant, FixedGrant, OrgMembershipGrant

\* Unless a step disables or enables the user, only the moving grants decide.
LEMMA GrantsMove ==
  ASSUME place' = place, NEW u, NEW right
  PROVE  /\ (EvaluateAccess(u, right)' /\ ~EvaluateAccess(u, right) /\ ~IsDisabled(u)) =>
              MovingGrant(u, right)' /\ ~MovingGrant(u, right)
         /\ (EvaluateAccess(u, right) /\ ~EvaluateAccess(u, right)' /\ ~IsDisabled(u)') =>
              MovingGrant(u, right) /\ ~MovingGrant(u, right)'
<1>1. FixedGrant(u, right)' <=> FixedGrant(u, right)
  BY DEF FixedGrant, StoreOwnerGrant, ManifestGrant, OwnerGrant, AllUsersStoreGrant,
         DefaultVisibilityGrant
<1>2. Refused(right)' <=> Refused(right)
  BY DEF Refused
<1>3. EvaluateAccess(u, right)' <=>
        (~IsDisabled(u) /\ ~Refused(right) /\ (MovingGrant(u, right) \/ FixedGrant(u, right)))'
  BY DEF EvaluateAccess, Refused, MovingGrant, FixedGrant, OrgMembershipGrant
<1>4. QED
  BY <1>1, <1>2, <1>3, Cascade

\* A user's subjects change with the binding of their group only.
LEMMA RefsMove ==
  ASSUME place' = place, bound \in BOOLEAN, bound' \in BOOLEAN, NEW u
  PROVE  /\ (~bound /\ bound' /\ u \in Bindable[place.kind]) \/ SubjectRefs(u)' \subseteq SubjectRefs(u)
         /\ (bound /\ ~bound' /\ u \in Bindable[place.kind]) \/ SubjectRefs(u) \subseteq SubjectRefs(u)'
BY DEF SubjectRefs

\* Whoever gains a right gains it for a cause.
LEMMA GainStep ==
  ASSUME ShareInv, RolesInv, ClockInv, ClockInv', [Next]_vars, NEW u \in User, NEW right \in Right,
         EvaluateAccess(u, right)', ~EvaluateAccess(u, right)
  PROVE  GainHasCause(u, right)
<1> SUFFICES ASSUME ~IsDisabled(u), ~(~bound /\ bound' /\ u \in Bindable[place.kind])
             PROVE  GainHasCause(u, right)
  BY DEF GainHasCause
<1>1. place' = place /\ now <= now' /\ now \in Nat /\ now' \in Nat
  BY PlaceStays, AccessAssumption DEF ClockInv
<1>2. MovingGrant(u, right)' /\ ~MovingGrant(u, right)
  BY <1>1, GrantsMove
<1>3. SubjectRefs(u)' \subseteq SubjectRefs(u)
  BY <1>1, RefsMove DEF ClockInv
<1>4. CASE ActiveRoleGrant(u, right, "capability")'
  <2>1. PICK row \in roles' : /\ row.subject \in SubjectRefs(u)' /\ ~row.revoked
                              /\ now' < row.expires
                              /\ ScopeMatches(row.scope, "capability")'
                              /\ RoleHasRight(row.role, right)
    BY <1>4 DEF ActiveRoleGrant, Active, RoleHasRight
  <2>2. ScopeMatches(row.scope, "capability")
    BY <1>1, <2>1 DEF ScopeMatches
  <2>3. RolesInv'
    BY RolesStep
  <2>4. now < row.expires
    BY <1>1, <2>1, <2>3, AccessAssumption DEF RolesInv, RoleRow, Expiry, Never
  <2>5. RoleGives(row, u, right)
    BY <1>3, <2>1, <2>2 DEF RoleGives
  <2>6. row \notin roles
    BY <1>2, <2>1, <2>4, <2>5 DEF MovingGrant, ActiveRoleGrant, Active, RoleGives
  <2>7. QED
    BY <2>1, <2>4, <2>5, <2>6 DEF GainHasCause
<1>5. ASSUME NEW share \in ShareRow, Shared(share), share.subject \in SubjectRefs(u)',
             {right, "manage"} \cap share.rights # {}
      PROVE  GainHasCause(u, right)
  <2>1. ShareGives(share, u, right)
    BY <1>3, <1>5 DEF ShareGives
  <2>2. Len(shares') = Len(shares) + 1 /\ shares'[Len(shares')] = share
    BY <1>5 DEF Shared
  <2>3. QED
    BY <1>5, <2>1, <2>2 DEF GainHasCause, Shared
<1>6. CASE ShareGrant(u, right)'
  <2>1. PICK i \in 1..Len(shares') :
          /\ shares'[i].subject \in SubjectRefs(u)' /\ ~shares'[i].revoked
          /\ now' < shares'[i].expires /\ {right, "manage"} \cap shares'[i].rights # {}
    BY <1>6 DEF ShareGrant, Active
  <2>2. Len(shares) \in Nat /\ shares \in [1..Len(shares) -> ShareRow]
    BY LenProperties DEF ShareInv
  <2>3. ASSUME i \in 1..Len(shares), shares'[i] = shares[i] PROVE FALSE
    <3>1. shares[i].expires \in Nat
      <4>1. shares[i] \in ShareRow
        BY ONLY <2>2, <2>3
      <4>2. shares[i].expires \in Expiry
        BY ONLY <4>1 DEF ShareRow
      <4>3. QED
        BY ONLY <4>2, AccessAssumption DEF Expiry, Never
    <3>2. now < shares[i].expires
      BY <1>1, <2>1, <2>3, <3>1
    <3>3. ShareGrant(u, right)
      BY <1>3, <2>1, <2>3, <3>2 DEF ShareGrant, Active
    <3>4. QED
      BY <1>2, <3>3 DEF MovingGrant
  <2>4. CASE Unshared
    BY <2>1, <2>3, <2>4 DEF Unshared
  <2>5. ASSUME NEW share \in ShareRow, Shared(share) PROVE GainHasCause(u, right)
    <3>1. i = Len(shares) + 1
      <4>1. /\ Len(shares') = Len(shares) + 1
            /\ \A k \in 1..Len(shares) : shares'[k] = shares[k]
        BY <2>5 DEF Shared
      <4>2. i \notin 1..Len(shares)
        BY ONLY <2>3, <4>1
      <4>3. i \in 1..Len(shares')
        BY <2>1
      <4>4. QED
        BY ONLY <2>2, <4>1, <4>2, <4>3
    <3>2. shares'[i] = share
      BY <2>5, <3>1 DEF Shared
    <3>3. QED
      BY <1>5, <2>1, <2>5, <3>2
  <2>6. QED
    BY <2>4, <2>5, SharesChange
<1>7. CASE TupleMatch(u, right)'
  <2>1. PICK s \in SubjectRefs(u)' : <<s, right>> \in tuples'
    BY <1>7 DEF TupleMatch
  <2>2. <<s, right>> \notin tuples
    BY <1>2, <1>3, <2>1 DEF MovingGrant, TupleMatch
  <2>3. PICK share \in ShareRow : Shared(share)
    BY <2>1, <2>2, SharesChange DEF Unshared
  <2>4. s = share.subject /\ right \in share.rights
    BY <2>1, <2>2, <2>3 DEF Shared
  <2>5. QED
    BY <1>5, <2>1, <2>3, <2>4
<1>8. QED
  BY <1>2, <1>4, <1>6, <1>7 DEF MovingGrant


\* Whoever loses a right loses it for a cause.  A tuple that is deleted belonged
\* to a share that was not revoked, and while that share lasts it grants by
\* itself.
LEMMA LossStep ==
  ASSUME ShareInv, PolicyInv, RolesInv, ClockInv, ClockInv', [Next]_vars,
         NEW u \in User, NEW right \in Right,
         EvaluateAccess(u, right), ~EvaluateAccess(u, right)'
  PROVE  LossHasCause(u, right)
<1> SUFFICES ASSUME ~IsDisabled(u)', ~(bound /\ ~bound' /\ u \in Bindable[place.kind])
             PROVE  LossHasCause(u, right)
  BY DEF LossHasCause
<1>1. place' = place /\ now <= now' /\ now \in Nat /\ now' \in Nat
  BY PlaceStays, AccessAssumption DEF ClockInv
<1>2. MovingGrant(u, right) /\ ~MovingGrant(u, right)'
  BY <1>1, GrantsMove
<1>3. SubjectRefs(u) \subseteq SubjectRefs(u)'
  BY <1>1, RefsMove DEF ClockInv
<1>4. CASE ActiveRoleGrant(u, right, "capability")
  <2>1. PICK row \in roles : RoleGives(row, u, right) /\ Active(row)
    BY <1>4 DEF ActiveRoleGrant, RoleGives
  <2>2. CASE row.expires <= now'
    BY <2>1, <2>2 DEF LossHasCause
  <2>3. CASE ~(row.expires <= now')
    <3>1. now' < row.expires
      BY <1>1, <2>3, AccessAssumption DEF RolesInv, RoleRow, Expiry, Never
    <3>2. ScopeMatches(row.scope, "capability")'
      BY <1>1, <2>1 DEF ScopeMatches, RoleGives
    <3>3. row \notin roles'
      <4> SUFFICES ASSUME row \in roles' PROVE FALSE
        OBVIOUS
      <4>1. ActiveRoleGrant(u, right, "capability")'
        BY <1>3, <2>1, <3>1, <3>2 DEF ActiveRoleGrant, Active, RoleGives, RoleHasRight
      <4>2. QED
        BY <1>2, <4>1 DEF MovingGrant
    <3>4. [row EXCEPT !.revoked = TRUE] \in roles'
      BY <2>1, <3>3, RolesStay DEF Active
    <3>5. QED
      BY <2>1, <3>4 DEF LossHasCause
  <2>4. QED
    BY <2>2, <2>3
<1>5. ASSUME NEW i \in 1..Len(shares), ShareGives(shares[i], u, right), ~shares[i].revoked
      PROVE  LossHasCause(u, right)
  <2>1. Len(shares) \in Nat /\ shares \in [1..Len(shares) -> ShareRow]
    BY LenProperties DEF ShareInv
  <2>2. CASE shares'[i].revoked \/ shares[i].expires <= now'
    BY <1>5, <2>2 DEF LossHasCause
  <2>3. CASE ~shares'[i].revoked /\ ~(shares[i].expires <= now')
    <3>1. shares'[i] = shares[i] /\ Len(shares') \in {Len(shares), Len(shares) + 1}
      BY <2>1, <2>3, SharesChange DEF Unshared, Shared
    <3>2. now' < shares'[i].expires
      <4>1. shares[i].expires \in Nat
        <5>1. shares[i] \in ShareRow
          BY <2>1
        <5>2. shares[i].expires \in Expiry
          BY <5>1 DEF ShareRow
        <5>3. Expiry \subseteq Nat
          BY AccessAssumption DEF Expiry, Never
        <5>4. QED
          BY <5>2, <5>3
      <4>2. now' < shares[i].expires
        BY <1>1, <2>3, <4>1
      <4>3. QED
        BY <3>1, <4>2
    <3>3. i \in 1..Len(shares') /\ shares'[i].subject \in SubjectRefs(u)'
      <4>1. i \in 1..Len(shares')
        BY <2>1, <3>1
      <4>2. QED
        BY <1>3, <1>5, <3>1, <4>1 DEF ShareGives
    <3>4. ShareGrant(u, right)'
      BY <1>5, <2>3, <3>1, <3>2, <3>3 DEF ShareGrant, Active, ShareGives
    <3>5. QED
      BY <1>2, <3>4 DEF MovingGrant
  <2>4. QED
    BY <2>2, <2>3
<1>6. CASE ShareGrant(u, right)
  BY <1>5, <1>6 DEF ShareGrant, ShareGives, Active
<1>7. CASE TupleMatch(u, right)
  <2>1. PICK s \in SubjectRefs(u) : <<s, right>> \in tuples
    BY <1>7 DEF TupleMatch
  <2>2. PICK i \in 1..Len(shares) : ~shares[i].revoked /\ shares[i].subject = s /\ right \in shares[i].rights
    BY <2>1 DEF ShareInv, TuplesHaveShares
  <2>3. ShareGives(shares[i], u, right)
    BY <2>1, <2>2 DEF ShareGives
  <2>4. QED
    BY <1>5, <2>2, <2>3
<1>8. QED
  BY <1>2, <1>4, <1>6, <1>7 DEF MovingGrant


\* Whatever workers, administrators, directories and the clock do between a
\* decision and the write it leads to, a right on the capability is gained or
\* lost only for a cause: create_share passes on no right its giver does not
\* hold under the lock, revoke_share takes none that another share still gives,
\* and ensure_platform_superadmins and ensure_local_service_org_access take none.
THEOREM RightsHaveCauses == Spec => AccessHasCause
<1> DEFINE I == ShareInv /\ PolicyInv /\ IdentInv /\ RolesInv /\ ClockInv
<1>1. Init => I
  BY AccessInit, PolicyRowShape DEF Init, PolicyInv, RowOK
<1>2. I /\ [Next]_vars => I'
  BY ShareInvStep, PolicyInvStep, IdentStep, RolesStep, ClockStep
<1>3. I /\ I' /\ [Next]_vars =>
        \A u \in User, right \in Right :
          IF EvaluateAccess(u, right)
          THEN EvaluateAccess(u, right)' \/ LossHasCause(u, right)
          ELSE EvaluateAccess(u, right)' => GainHasCause(u, right)
  BY GainStep, LossStep
<1>4. QED
  BY <1>1, <1>2, <1>3, PTL DEF Spec, AccessHasCause

=============================================================================
