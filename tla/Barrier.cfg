SPECIFICATION FairSpec
CONSTANTS
  Client = {c1, c2, c3}
  Files = 4
  to = 2
  FIRST = 1
  RESET = 3
  Small = {1, 2}
  Tiny = {2}
  MaxFaults = 1
INVARIANTS TypeOK Together
PROPERTIES Completes
