SPECIFICATION FairSpec
CONSTANTS
  h1 = h1
  h2 = h2
  Command = {1, 2, 3}
  Host = {h1, h2}
  HostsOf <- Targets
  Dispatcher = {d1}
  None = None
  MaxCrash = 3
INVARIANTS OneRowPerHost
PROPERTIES Dispatches
CHECK_DEADLOCK FALSE
