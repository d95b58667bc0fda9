SPECIFICATION Spec
CONSTANTS
  Row = {1}
  Launcher = {l1, l2, l3}
  Pass = {1}
  NoPid = NoPid
  Command <- OnePlain
  MAX_COMMAND_LAUNCHER_PROCESSUS = 2
  MaxTime = 1
  Ops = {}
  MaxOps = 0
  Overlap = TRUE
  CanCrash = FALSE
SYMMETRY LauncherSymmetry
INVARIANTS MutualExclusion
