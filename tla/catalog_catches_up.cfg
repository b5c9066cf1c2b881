SPECIFICATION FairSpec
CONSTANTS
  Key = {k1}
  Content = {b1, b2}
  Good = {b1, b2}
  Target = {org}
  Ingester = {i1, i2}
  Production = TRUE
  AutoApprove = FALSE
  Change = {}
  Verdict = {"recalled"}
  MaxEdits = 1
  MaxRequests = 0
  MaxDecisions = 1
  MaxFailures = 1
  None = None
PROPERTY CatalogCatchesUp
