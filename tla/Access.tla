------------------------------- MODULE Access -------------------------------
(***************************************************************************)
(* Who may do what with one capability: the cascade of evaluate_access     *)
(* (access_control.py) over the tables that shares (stores.py), roles and  *)
(* organizations (roles_orgs.py), Entra bindings (entra_groups.py), SCIM   *)
(* (scim.py), the tailnet sync (tailscale_sync.py), first contact and the  *)
(* operator's policy (governance.py) and break-glass sessions              *)
(* (break_glass.py) write.  evaluate_access reads outside a transaction    *)
(* and only then takes the write lock, with the row of its decision: what  *)
(* other workers commit in between is not seen by the request.             *)
(***************************************************************************)
EXTENDS Naturals, Sequences, FiniteSets

CONSTANTS
  Worker,
  User,
  Team,        \* a mesh group
  Guest,       \* the users that directories and break-glass sessions are
               \* about, by the kind of the store
  Recipient,   \* whom shares and roles are given to, by the kind of the store
  Bindable,    \* users whose session carries the Entra group of a binding,
               \* by the kind of the store
  SessionAdmin,\* users whose session carries a global role
  Superadmin,  \* the operator's allowlist
  Service,     \* the service application of the node
  Creator,     \* created_by of the capability, and owner of its user store
  Allowed,     \* allow_users of the capability's manifest
  Places,      \* where the capability may be: its store, visibility and state
  Grants,      \* roles and scopes an administrator assigns
  ShareRights, \* sets of rights a share may name
  Listings,    \* what a tailnet may list
  MaxShares, MaxRoles, \* bounds, by the kind of the store
  MaxTime

Kind == {"org", "user_private", "all_users"}
Right == {"load", "share", "manage"}
Place == [kind : Kind,
          visibility : {"public", "internal", "protected"},
          state : {"usable", "blocked", "unattested"}, high : BOOLEAN]
RoleRights == [member |-> {"load"}, vibe_coder |-> {"load", "share"},
               app_service |-> {"load"}, org_admin |-> Right, platform_admin |-> Right]
Scope == {"tenant", "store", "org"}

ASSUME AccessAssumption ==
  /\ Superadmin \subseteq User /\ SessionAdmin \subseteq User /\ Allowed \subseteq User
  /\ {Creator, Service} \subseteq User /\ Team \notin User
  /\ Guest \in [Kind -> SUBSET User] /\ Bindable \in [Kind -> SUBSET User]
  /\ Recipient \in [Kind -> SUBSET (User \cup {Team})]
  /\ Places \subseteq Place
  /\ Grants \subseteq [role : DOMAIN RoleRights, scope : Scope]
  /\ ShareRights \subseteq SUBSET Right
  /\ Listings \subseteq [User -> {"absent", "active", "suspended", "acl"}]
  /\ MaxShares \in [Kind -> Nat] /\ MaxRoles \in [Kind -> Nat] /\ MaxTime \in Nat

VARIABLES
  ident,   \* identities: the row of each user, by the id it was made under
  roles,   \* role_assignments
  shares,  \* shares, in the order of their creation
  tuples,  \* relationship_tuples of source share on the capability
  glass,   \* break_glass_sessions, the last one of each user
  bound,   \* the Entra group is bound to Team
  place,   \* where the capability is
  req,     \* what each worker is in the middle of
  now

tables == <<ident, roles, shares, tuples, glass, bound>>
vars == <<tables, place, req, now>>

Subject == User \cup {Team}
Never == MaxTime + 1
Expiry == 1..Never
Idle == [op |-> "idle"]

-----------------------------------------------------------------------------
(* evaluate_access and the grants it tries.                                *)

\* subject_refs, with the groups principal_from_bearer resolved.
SubjectRefs(u) == {u} \cup (IF bound /\ u \in Bindable[place.kind] THEN {Team} ELSE {})

RoleHasRight(role, right) == right \in RoleRights[role] \/ "manage" \in RoleRights[role]

\* is_disabled: a user without a row is not.
IsDisabled(u) == ident[u].key # "none" /\ ~ident[u].active

Active(row) == ~row.revoked /\ now < row.expires

\* role_assignment_scope_matches and _org_scope_matches: a tenant scope
\* matches whatever is asked about, an org scope only capabilities.
ScopeMatches(scope, resource) ==
  \/ scope = "tenant"
  \/ scope = "store" /\ (resource = "capability" \/ (resource = "store" /\ place.kind = "org"))
  \/ scope = "org" /\ resource = "capability" /\ place.kind = "org"

ActiveRoleGrant(u, right, resource) ==
  \E row \in roles :
    /\ row.subject \in SubjectRefs(u) /\ Active(row)
    /\ ScopeMatches(row.scope, resource) /\ RoleHasRight(row.role, right)

ShareGrant(u, right) ==
  \E i \in 1..Len(shares) :
    /\ shares[i].subject \in SubjectRefs(u) /\ Active(shares[i])
    /\ {right, "manage"} \cap shares[i].rights # {}

\* tuple_match: a tuple has no expiry.
TupleMatch(u, right) == \E s \in SubjectRefs(u) : <<s, right>> \in tuples

StoreOwnerGrant(u) == place.kind = "user_private" /\ u = Creator
OwnerGrant(u) == u = Creator
ManifestGrant(u, right) == right = "load" /\ u \in Allowed
AllUsersStoreGrant(right) == place.kind = "all_users" /\ right = "load"
OrgMembershipGrant(u, right) ==
  place.kind = "org" /\ right = "load" /\ ActiveRoleGrant(u, right, "capability")
DefaultVisibilityGrant(right) ==
  /\ right = "load"
  /\ \/ place.visibility = "public"
     \/ place.kind # "org" /\ place.visibility = "internal"

\* The cascade: what refuses comes before whatever grants.
EvaluateAccess(u, right) ==
  /\ ~IsDisabled(u)
  /\ place.state # "blocked"
  /\ ~(right = "manage" /\ place.high)
  /\ ~(right = "load" /\ place.state = "unattested")
  /\ \/ u \in SessionAdmin
     \/ ActiveRoleGrant(u, right, "capability")
     \/ ShareGrant(u, right)
     \/ TupleMatch(u, right)
     \/ StoreOwnerGrant(u)
     \/ ManifestGrant(u, right)
     \/ OwnerGrant(u)
     \/ AllUsersStoreGrant(right)
     \/ OrgMembershipGrant(u, right)
     \/ DefaultVisibilityGrant(right)

Holders(right) == {u \in User : EvaluateAccess(u, right)}

\* Who may manage a resource that is not a capability.
Managers(resource) ==
  {u \in User : /\ ~IsDisabled(u)
                /\ u \in SessionAdmin \/ ActiveRoleGrant(u, "manage", resource)}

-----------------------------------------------------------------------------
(* What the process ensures when it opens the registry: the grants of the  *)
(* operator's policy, under ids that every worker computes alike.          *)
Row(id, subject, role, scope, expires) ==
  [id |-> id, subject |-> subject, role |-> role, scope |-> scope,
   expires |-> expires, revoked |-> FALSE]

PolicyRows ==
  {Row(<<"superadmin", u>>, u, "platform_admin", "tenant", Never) : u \in Superadmin}
  \cup {Row(<<"service", Service>>, Service, "app_service", "org", Never)}

\* Everyone but the guests has made a request before.
Init ==
  /\ place \in Places
  /\ ident = [u \in User |-> IF u \in Guest[place.kind] THEN [key |-> "none", active |-> FALSE]
                             ELSE [key |-> "login", active |-> TRUE]]
  /\ roles = PolicyRows
  /\ shares = <<>> /\ tuples = {} /\ bound = FALSE
  /\ glass = [u \in User |-> 0]
  /\ req = [w \in Worker |-> Idle]
  /\ now = 0

\* A worker reads what entitles the asker; the lock and the writes come later.
Ask(w, request) == req[w] = Idle /\ req' = [req EXCEPT ![w] = request]
                   /\ UNCHANGED <<tables, place, now>>
Serve(w, op) == req[w].op = op /\ req' = [req EXCEPT ![w] = Idle]
                /\ UNCHANGED <<place, now>>

-----------------------------------------------------------------------------
(* Identities.  UNIQUE(tenant_id, user_name): a user has one row, and an   *)
(* upsert that resolves conflicts by id fails on a row made under another. *)
CanUpsert(u, key) == ident[u].key \in {"none", key}
Identity(key, active) == [key |-> key, active |-> active]

\* Mutant: conflicts are resolved by the user's name.
ProvisionByName(w, u) ==
  /\ req[w] = Idle
  /\ ident' = [ident EXCEPT ![u] = Identity("login", TRUE)]
  /\ UNCHANGED <<roles, shares, tuples, glass, bound, place, req, now>>

\* ensure_identity_for_principal, first contact of a request.
Provision(w, u) ==
  /\ req[w] = Idle
  /\ CanUpsert(u, "login")
  /\ ident' = [ident EXCEPT ![u] = Identity("login", TRUE)]
  /\ UNCHANGED <<roles, shares, tuples, glass, bound, place, req, now>>

\* upsert_user: a payload without externalId has the id of a login.
ScimUpsert(u, key, active) ==
  /\ CanUpsert(u, key)
  /\ ident' = [ident EXCEPT ![u] = Identity(key, active)]
  /\ UNCHANGED <<roles, shares, tuples, glass, bound, place, req, now>>

ScimDelete(u) ==
  /\ ident[u].key # "none"
  /\ ident' = [ident EXCEPT ![u].active = FALSE]
  /\ UNCHANGED <<roles, shares, tuples, glass, bound, place, req, now>>

\* upsert_identity_from_tailnet, with the id of the tailnet or, for a login
\* that only the ACL names, the login itself.
TailnetKey(entry) == IF entry = "acl" THEN "login" ELSE "tailnet"
FromTailnet(u, entry) ==
  IF entry = "absent" THEN ident[u]
  ELSE Identity(TailnetKey(entry), entry # "suspended")

\* tailscale_sync.run: one transaction over every user of the listing, which
\* one upsert that fails takes with it.
Fits(listing) == \A u \in User : listing[u] = "absent" \/ CanUpsert(u, TailnetKey(listing[u]))

TailnetSync(listing) ==
  /\ Fits(listing)
  /\ ident' = [u \in User |-> FromTailnet(u, listing[u])]
  /\ UNCHANGED <<roles, shares, tuples, glass, bound, place, req, now>>

-----------------------------------------------------------------------------
(* Shares. *)
AskShare(w, u, subject, rights, expires) ==
  /\ Len(shares) < MaxShares[place.kind]
  /\ u \in Holders("share")
  /\ Ask(w, [op |-> "share", by |-> u, subject |-> subject, rights |-> rights,
             expires |-> expires])

\* Mutant: the rights are the ones of the decision on share.
CreateShareUnchecked(w) ==
  /\ Serve(w, "share")
  /\ LET r == req[w] IN
     IF Len(shares) < MaxShares[place.kind] /\ CanUpsert(r.by, "login")
     THEN /\ ident' = [ident EXCEPT ![r.by] = Identity("login", TRUE)]
          /\ shares' = Append(shares, [subject |-> r.subject, rights |-> r.rights,
                          from |-> r.by, expires |-> r.expires, revoked |-> FALSE])
          /\ tuples' = tuples \cup ({r.subject} \X r.rights)
     ELSE UNCHANGED <<ident, shares, tuples>>
  /\ UNCHANGED <<roles, glass, bound>>

\* create_share, once the decision on share is written: the rights are
\* evaluated under the write lock, and the sharer must have an identity.
CreateShare(w) ==
  /\ Serve(w, "share")
  /\ LET r == req[w] IN
     IF /\ Len(shares) < MaxShares[place.kind]
        /\ \A right \in r.rights : r.by \in Holders(right)
        /\ CanUpsert(r.by, "login")
     THEN /\ ident' = [ident EXCEPT ![r.by] = Identity("login", TRUE)]
          /\ shares' = Append(shares, [subject |-> r.subject, rights |-> r.rights,
                          from |-> r.by, expires |-> r.expires, revoked |-> FALSE])
          /\ tuples' = tuples \cup ({r.subject} \X r.rights)
     ELSE UNCHANGED <<ident, shares, tuples>>
  /\ UNCHANGED <<roles, glass, bound>>

AskUnshare(w, u, i) ==
  /\ i \in 1..Len(shares)
  /\ u \in Holders("share") \cup {shares[i].from}
  /\ Ask(w, [op |-> "unshare", share |-> i])

\* Mutant: revocation leaves the tuples another share of the subject names.
RevokeShareOnly(w) ==
  /\ Serve(w, "unshare")
  /\ LET s == shares[req[w].share] IN
     /\ shares' = [shares EXCEPT ![req[w].share].revoked = TRUE]
     /\ tuples' = IF \E i \in 1..Len(shares) : i # req[w].share /\ shares[i].subject = s.subject
                  THEN tuples ELSE tuples \ ({s.subject} \X s.rights)
  /\ UNCHANGED <<ident, roles, glass, bound>>

\* revoke_share: the tuples of the share's rights go, whichever share made them.
RevokeShare(w) ==
  /\ Serve(w, "unshare")
  /\ LET s == shares[req[w].share] IN
     /\ shares' = [shares EXCEPT ![req[w].share].revoked = TRUE]
     /\ tuples' = tuples \ ({s.subject} \X s.rights)
  /\ UNCHANGED <<ident, roles, glass, bound>>

-----------------------------------------------------------------------------
(* Roles and organizations. *)
Manual == {row \in roles : row.id[1] = "manual"}
NewId == <<"manual", Cardinality(Manual) + 1>>
Room == Cardinality(Manual) < MaxRoles[place.kind]
Revoked(rows) == (roles \ rows) \cup {[row EXCEPT !.revoked = TRUE] : row \in rows}

AskAssign(w, u, subject, g, expires) ==
  /\ Room
  /\ u \in Managers("tenant")
  /\ Ask(w, [op |-> "assign", subject |-> subject, grant |-> g, expires |-> expires])

AssignRole(w) ==
  /\ Serve(w, "assign")
  /\ Room
  /\ LET r == req[w] IN
     roles' = roles \cup {Row(NewId, r.subject, r.grant.role, r.grant.scope, r.expires)}
  /\ UNCHANGED <<ident, shares, tuples, glass, bound>>

\* Bound: roles are administered where they may be assigned.
AskUnassign(w, u, row) ==
  /\ MaxRoles[place.kind] > 0
  /\ row \in roles
  /\ u \in Managers("role")
  /\ Ask(w, [op |-> "unassign", id |-> row.id])

RevokeRole(w) ==
  /\ Serve(w, "unassign")
  /\ roles' = Revoked({row \in roles : row.id = req[w].id})
  /\ UNCHANGED <<ident, shares, tuples, glass, bound>>

\* add_org_member and remove_org_member: the store is asked about first, and
\* when it refuses, the tenant, under the lock the first decision took.
AskMember(w, u, op, subject) ==
  /\ place.kind = "org"
  /\ op = "join" => Room
  /\ Ask(w, [op |-> op, by |-> u, entitled |-> u \in Managers("store"), subject |-> subject])

Entitled(r) == r.entitled \/ r.by \in Managers("tenant")

AddOrgMember(w) ==
  /\ Serve(w, "join")
  /\ Room
  /\ LET r == req[w] IN
     roles' = IF Entitled(r) THEN roles \cup {Row(NewId, r.subject, "member", "org", Never)}
              ELSE roles
  /\ UNCHANGED <<ident, shares, tuples, glass, bound>>

OrgRows(subject) == {row \in roles : row.scope = "org" /\ row.subject = subject}

RemoveOrgMember(w) ==
  /\ Serve(w, "leave")
  /\ LET r == req[w] IN
     roles' = IF Entitled(r) THEN Revoked(OrgRows(r.subject)) ELSE roles
  /\ UNCHANGED <<ident, shares, tuples, glass, bound>>

\* A worker that starts reads which grants of the policy are missing ...
AskStart(w) ==
  /\ PolicyRows \ roles # {}
  /\ Ask(w, [op |-> "start", missing |-> PolicyRows \ roles])

\* Mutant: the grants are made under new ids.
EnsureNewRows(w) ==
  /\ Serve(w, "start")
  /\ roles' = roles \cup {[row EXCEPT !.id = <<w, row.id>>] : row \in req[w].missing}
  /\ UNCHANGED <<ident, shares, tuples, glass, bound>>

\* Mutant: a revoked row stays beside the restored one.
EnsureBeside(w) ==
  /\ Serve(w, "start")
  /\ roles' = roles \cup req[w].missing
  /\ UNCHANGED <<ident, shares, tuples, glass, bound>>

\* ... and upserts them: ensure_platform_superadmins and
\* ensure_local_service_org_access.
EnsurePolicy(w) ==
  /\ Serve(w, "start")
  /\ LET missing == req[w].missing
         ids == {row.id : row \in missing} IN
     roles' = {row \in roles : row.id \notin ids} \cup missing
  /\ UNCHANGED <<ident, shares, tuples, glass, bound>>

\* bind_entra_group and remove_entra_binding.
BindEntra ==
  /\ Bindable[place.kind] # {}
  /\ bound' = ~bound
  /\ UNCHANGED <<ident, roles, shares, tuples, glass, place, req, now>>

\* grant_break_glass and revoke_break_glass.
GrantBreakGlass(u) ==
  /\ now < MaxTime
  /\ glass' = [glass EXCEPT ![u] = now + 1]
  /\ UNCHANGED <<ident, roles, shares, tuples, bound, place, req, now>>
RevokeBreakGlass(u) ==
  /\ glass[u] > 0
  /\ glass' = [glass EXCEPT ![u] = 0]
  /\ UNCHANGED <<ident, roles, shares, tuples, bound, place, req, now>>

Tick == now < MaxTime /\ now' = now + 1 /\ UNCHANGED <<tables, place, req>>

-----------------------------------------------------------------------------
Requests(w) ==
  \/ \E u \in User :
       \/ Provision(w, u)
       \/ \E s \in Recipient[place.kind], e \in Expiry :
            \/ \E rights \in ShareRights : AskShare(w, u, s, rights, e)
            \/ \E g \in Grants : AskAssign(w, u, s, g, e)
       \/ \E i \in 1..MaxShares[place.kind] : AskUnshare(w, u, i)
       \/ \E row \in roles : AskUnassign(w, u, row)
       \/ \E op \in {"join", "leave"}, s \in Recipient[place.kind] : AskMember(w, u, op, s)
  \/ AskStart(w)
  \/ CreateShare(w) \/ RevokeShare(w)
  \/ AssignRole(w) \/ RevokeRole(w) \/ AddOrgMember(w) \/ RemoveOrgMember(w)
  \/ EnsurePolicy(w)

Directories ==
  \/ \E u \in Guest[place.kind] :
       \/ \E key \in {"login", "scim"}, active \in BOOLEAN : ScimUpsert(u, key, active)
       \/ ScimDelete(u)
       \/ GrantBreakGlass(u)
       \/ RevokeBreakGlass(u)
  \/ \E listing \in Listings : TailnetSync(listing)
  \/ BindEntra

Next == (\E w \in Worker : Requests(w)) \/ Directories \/ Tick

Spec == Init /\ [][Next]_vars

-----------------------------------------------------------------------------
\* The tables hold rows of their schemas, an id of role_assignments has one
\* row, and a revocation in progress is of a share that exists.
TypeOK ==
  /\ ident \in [User -> [key : {"none", "login", "scim", "tailnet"}, active : BOOLEAN]]
  /\ \A row \in roles : /\ row.subject \in Subject /\ row.scope \in Scope
                        /\ row.role \in DOMAIN RoleRights /\ row.revoked \in BOOLEAN
  /\ \A r1, r2 \in roles : r1.id = r2.id => r1 = r2
  /\ shares \in Seq([subject : Subject, rights : SUBSET Right, from : User,
                     expires : Expiry, revoked : BOOLEAN])
  /\ tuples \subseteq Subject \X Right
  /\ place \in Place /\ bound \in BOOLEAN /\ now \in 0..MaxTime
  /\ \A w \in Worker : req[w].op = "unshare" => req[w].share \in 1..Len(shares)

\* Every tuple that create_share wrote belongs to a share that was not
\* revoked: whichever of several overlapping shares are revoked, in whatever
\* order and however often, revoke_share leaves no tuple behind that keeps
\* granting.
TuplesHaveShares ==
  \A t \in tuples : \E i \in 1..Len(shares) :
    ~shares[i].revoked /\ shares[i].subject = t[1] /\ t[2] \in shares[i].rights

\* Workers that start at the same time, after an administrator revoked a
\* grant of the policy, restore it once: "The deterministic assignment id
\* prevents duplicate grants across concurrent service workers."
OnePolicyGrant ==
  \A r1, r2 \in roles \ Manual :
    (r1.subject = r2.subject /\ r1.role = r2.role /\ ~r1.revoked /\ ~r2.revoked) => r1 = r2

\* A role, or a share, that gives a user a right on the capability.
RoleGives(row, u, right) ==
  /\ row.subject \in SubjectRefs(u)
  /\ ScopeMatches(row.scope, "capability") /\ RoleHasRight(row.role, right)
ShareGives(share, u, right) ==
  share.subject \in SubjectRefs(u) /\ {right, "manage"} \cap share.rights # {}

\* Why a step may give a user a right: they were disabled, their group was
\* bound, a role was assigned to them, or someone who held every right of it
\* shared the capability with them.
GainHasCause(u, right) ==
  \/ IsDisabled(u)
  \/ ~bound /\ bound' /\ u \in Bindable[place.kind]
  \/ \E row \in roles' \ roles : RoleGives(row, u, right) /\ ~row.revoked /\ now < row.expires
  \/ /\ Len(shares') = Len(shares) + 1
     /\ LET share == shares'[Len(shares')] IN
        /\ ShareGives(share, u, right)
        /\ \A held \in share.rights : share.from \in Holders(held)

\* Why a step may take it: they are disabled, their group is unbound, or a role
\* or an unrevoked share that gave it is now revoked or past its expiry.
LossHasCause(u, right) ==
  \/ IsDisabled(u)'
  \/ bound /\ ~bound' /\ u \in Bindable[place.kind]
  \/ \E row \in roles : /\ RoleGives(row, u, right) /\ Active(row)
                        /\ [row EXCEPT !.revoked = TRUE] \in roles' \/ row.expires <= now'
  \/ \E i \in 1..Len(shares) : /\ ShareGives(shares[i], u, right) /\ ~shares[i].revoked
                               /\ shares'[i].revoked \/ shares[i].expires <= now'

\* What evaluate_access reads.
decided == <<ident, roles, shares, tuples, bound, place, now>>

\* Nobody comes by a right on the capability, or loses one, but for a cause
\* evaluate_access is meant to follow.  A share gives nothing its giver did not
\* hold when it was written, although the request was decided earlier, outside
\* the lock; revoke_share, which deletes the tuples that an overlapping share
\* relies on too, takes nothing that share gives; and a worker that starts and
\* replaces rows of the policy takes nothing from anyone.
AccessHasCause ==
  [][\/ UNCHANGED decided
     \/ \A u \in User, right \in Right :
          IF EvaluateAccess(u, right)
          THEN EvaluateAccess(u, right)' \/ LossHasCause(u, right)
          ELSE EvaluateAccess(u, right)' => GainHasCause(u, right)]_vars

\* A user the tailnet suspended stays denied until a listing of the tailnet
\* has them active again: neither a first contact nor SCIM, which address the
\* user by other ids, touch the row.
SuspendedStaysDenied ==
  [][\A u \in User :
       (ident[u].key = "tailnet" /\ ~ident[u].active)
       => ident'[u] \in {ident[u], Identity("tailnet", TRUE)}]_vars

\* tailscale_sync: "The sync is additive + prune and idempotent: it upserts
\* every tailnet user as a capmesh identity".
SyncUpserts == \A listing \in Listings : Fits(listing)

\* grant_break_glass: "The principal receives platform_admin-equivalent
\* rights for the duration."
BreakGlassGrants ==
  \A u \in User :
    (now < glass[u] /\ ~IsDisabled(u)) => u \in Managers("tenant")
=============================================================================
