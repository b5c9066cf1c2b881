SPECIFICATION FairSpec
CONSTANTS
  Login = {l1}
  Subject <- MCSubject
  Flow <- MCFlow
  Handler = {h1, h2}
  Configured = {TRUE, FALSE}
  LoginTTL = 1
  DeliveryTTL = 1
  SessionTTL = 3
  PollTimeout = 2
  MaxTime = 2
  MaxCalls = 3
  None = None
INVARIANTS CompletedHasSession  PurgedOnceHandedOut
PROPERTIES  LoginEnds
CHECK_DEADLOCK FALSE
