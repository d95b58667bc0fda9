SPECIFICATION Spec
CONSTANTS
  Byte = 2
  ALLOCLG = 2
  TOTALLG = 2
  FileSystems <- MCRawMultiple
  Start = 1
  DiskSize = 13
  Misread = {1}
  Misbits <- MCMisbits
  Memory = {5}
  MaxFaults = 2
INVARIANT RawIsWhole
