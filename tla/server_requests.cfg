SPECIFICATION FairSpec
CONSTANTS
  t1 = t1
  t2 = t2
  Conn = {t1, t2, cli}
  Thread = {t1, t2}
  Caller <- MCCaller
  Event = {promote, append}
  Mirrored = {promote}
  Direct = {append}
  Hash <- MCHash
  MaxRows = 2
  Threshold = 2
  MaxRequests = 2
  None = None
INVARIANTS ChainValid  
PROPERTIES  RequestsEnd
CHECK_DEADLOCK FALSE
