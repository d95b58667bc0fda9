SPECIFICATION Spec
CONSTANTS
  h1 = h1
  h2 = h2
  Command = {1, 2, 3}
  Host = {h1, h2}
  HostsOf <- Targets
  Dispatcher = {d1, d2}
  None = None
  MaxCrash = 2
SYMMETRY DispatcherSymmetry
INVARIANTS TypeOK Covered
CHECK_DEADLOCK FALSE
