SPECIFICATION Spec
CONSTANTS
  Healer = {refresh, watchdog}
  Watchdog = watchdog
  Cap = {c1}
  Write = {promote, gates}
  Audited = {promote, gates}
  Promotion = {promote}
  Cli = {gates}
  MinHealthy = 1
  Keep = 1
  MaxHeals = 1
  MaxCrashes = 0
  ReadsMayFail = FALSE
  CheckpointMayFail = FALSE
  None = None
PROPERTY SwapLosesNoAuditedWrite
