SPECIFICATION FairSpec
CONSTANTS
  Task = {t1, t2}
  Server = {s1}
  Cli = {c1}
  MaxCalls = 3
  MaxCrashes = 1
  None = None
INVARIANTS RowsHaveFiles ResultWasReported
PROPERTIES SettledStands 
CHECK_DEADLOCK FALSE
