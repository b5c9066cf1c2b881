SPECIFICATION Spec
CONSTANTS
  Healer = {refresh, watchdog}
  Watchdog = watchdog
  Cap = {c1, c2}
  Write = {promote, gates}
  Audited = {promote, gates}
  Promotion = {promote}
  Cli = {gates}
  MinHealthy = 1
  Keep = 1
  MaxHeals = 2
  MaxCrashes = 1
  ReadsMayFail = FALSE
  CheckpointMayFail = FALSE
  None = None
SYMMETRY Symmetry
INVARIANTS PreswapsBounded 
 
