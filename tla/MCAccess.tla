------------------------------ MODULE MCAccess ------------------------------
(* Small instances of Access. *)
EXTENDS Access, TLC
CONSTANTS root, bob

Workers == Permutations(Worker)

MCUser == {root, bob}
(* Shares and groups are exercised in a user's store, roles, directories   *)
(* and break-glass sessions in the organization's.                         *)
ByKind(private, org) == [k \in Kind |-> IF k = "org" THEN org ELSE private]
MCPlaces == {[kind |-> k, visibility |-> "protected", state |-> "usable", high |-> FALSE] :
               k \in {"user_private", "org"}}
MCGuest == ByKind({}, {bob})
MCRecipient == ByKind({bob, Team}, {bob})
MCBindable == ByKind({bob}, {})
MCMaxShares == ByKind(2, 0)
MCMaxRoles == ByKind(0, 2)
MCGrants == {[role |-> "org_admin", scope |-> "store"]}
MCShareRights == {{"load"}, {"load", "share"}}
MCListings == {[u \in MCUser |-> IF u = bob THEN st ELSE "absent"] : st \in {"active", "suspended", "acl"}}
=============================================================================
