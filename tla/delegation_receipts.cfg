\* Delegations, stages and racing reports while the catalog changes.
SPECIFICATION Spec
CONSTANTS
  None = None
  alice = alice  bob = bob
  w1 = w1  w2 = w2
  t1 = t1  t2 = t2
  k1 = k1  k2 = k2
  Principal = {alice, bob}
  Worker = {w1, w2}
  Agent = agent
  Skill = skill
  Text = {t1, t2}
  Key = {k1, k2}
  MaxAge = 1
  Ttl = 1
  MaxClock = 2
  MaxTasks = 2
  MaxChanges = 1
SYMMETRY Symmetry
INVARIANTS OneReceipt ReceiptRooted SignedByPublished
PROPERTY AuthorityKeepsPromise
\* The clock is bounded: once every bundle is stale nothing can be asked.
CHECK_DEADLOCK FALSE
