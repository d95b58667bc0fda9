SPECIFICATION FairSpec
CONSTANTS
  Row = {1, 2, 3}
  Launcher = {l1, l2}
  Pass = {1}
  NoPid = NoPid
  Command <- Deadlines
  MAX_COMMAND_LAUNCHER_PROCESSUS = 2
  MaxTime = 3
  Ops = {"pause", "stop"}
  MaxOps = 1
  Overlap = FALSE
  CanCrash = FALSE
INVARIANTS Relaunchable
PROPERTIES Settles
