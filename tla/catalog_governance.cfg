SPECIFICATION Spec
CONSTANTS
  Key = {k1}
  Content = {b1, b2}
  Good = {b1, b2}
  Target = {org}
  Ingester = {i1}
  Production = TRUE
  AutoApprove = FALSE
  Change = {"retired"}
  Verdict = {"recalled"}
  MaxEdits = 1
  MaxRequests = 2
  MaxDecisions = 1
  MaxFailures = 0
  None = None
SYMMETRY Symmetry
INVARIANTS TypeOK ApprovalsAreReviewed PromotedHasRecord IndexedWasQuarantined
PROPERTY RefreshKeepsBlocks
