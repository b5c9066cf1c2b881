SPECIFICATION Spec
CONSTANTS
  root = root
  bob = bob
  Worker = {w1, w2}
  User <- MCUser
  Team = team
  Guest <- MCGuest
  Recipient <- MCRecipient
  Bindable <- MCBindable
  SessionAdmin = {}
  Superadmin = {root}
  Service = root
  Creator = root
  Allowed = {}
  Places <- MCPlaces
  Grants <- MCGrants
  ShareRights <- MCShareRights
  Listings <- MCListings
  MaxShares <- MCMaxShares
  MaxRoles <- MCMaxRoles
  MaxTime = 1
SYMMETRY Workers
INVARIANTS OnePolicyGrant TypeOK TuplesHaveShares
  
