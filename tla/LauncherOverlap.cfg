SPECIFICATION Spec
CONSTANTS
  Row = {1}
  Launcher = {l1, l2}
  Pass = {p1, p2}
  NoPid = NoPid
  Command <- OnePlain
  MAX_COMMAND_LAUNCHER_PROCESSUS = 2
  MaxTime = 1
  Ops = {"pause", "play", "stop"}
  MaxOps = 1
  Overlap = TRUE
  CanCrash = TRUE
SYMMETRY RaceSymmetry
INVARIANTS TypeOK UploadedFirst RanBeforeDelete ClaimOwned
CHECK_DEADLOCK FALSE
