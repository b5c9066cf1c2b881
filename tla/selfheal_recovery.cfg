SPECIFICATION FairSpec
CONSTANTS
  Healer = {refresh, watchdog}
  Watchdog = watchdog
  Cap = {c1}
  Write = {promote, gates}
  Audited = {promote, gates}
  Promotion = {promote}
  Cli = {gates}
  MinHealthy = 1
  Keep = 1
  MaxHeals = 2
  MaxCrashes = 1
  ReadsMayFail = TRUE
  CheckpointMayFail = TRUE
  None = None
INVARIANT VouchedWritesSurvive
PROPERTY WorkersComeBack
