SPECIFICATION Spec
CONSTANTS
  Key = {k1}
  Content = {b1, b2}
  Good = {b1}
  Target = {org}
  Ingester = {i1}
  Production = FALSE
  AutoApprove = TRUE
  Change = {}
  Verdict = {"recalled"}
  MaxEdits = 1
  MaxRequests = 1
  MaxDecisions = 2
  MaxFailures = 0
  None = None
SYMMETRY Symmetry
INVARIANT ApprovalsAreReviewed
PROPERTY DecisionsStand
