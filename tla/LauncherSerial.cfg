SPECIFICATION Spec
CONSTANTS
  Row = {1, 2, 3}
  Launcher = {l1, l2}
  Pass = {1}
  NoPid = NoPid
  Command <- ThreeHosts
  MAX_COMMAND_LAUNCHER_PROCESSUS = 2
  MaxTime = 2
  Ops = {"pause", "play", "stop", "command_pause", "command_play", "command_stop"}
  MaxOps = 1
  Overlap = FALSE
  CanCrash = TRUE
SYMMETRY LauncherSymmetry
INVARIANTS ScriptOnce DoneIsFinished
CHECK_DEADLOCK FALSE
