SPECIFICATION Spec
CONSTANTS
  Row = {1}
  Launcher = {l1, l2}
  Pass = {1}
  NoPid = NoPid
  Command <- OnePeriodic
  MAX_COMMAND_LAUNCHER_PROCESSUS = 2
  MaxTime = 7
  Ops = {"pause"}
  MaxOps = 2
  Overlap = FALSE
  CanCrash = TRUE
INVARIANTS NotEarly ConnectionBudget
PROPERTIES PipelineSpec
CHECK_DEADLOCK FALSE
