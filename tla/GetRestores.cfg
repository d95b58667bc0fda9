SPECIFICATION FairSpec
CONSTANTS
  Byte = 3
  ALLOCLG = 1
  TOTALLG = 2
  Start = 1
  Volumes <- MCVolumes
  Missing <- MCMissing
  DiskSize = 5
  TFTPBLOCK = 3
  INBUFF = 4
  NB_BUF = 2
  PORTS = 2
  Life = 1
  Misread = {3}
  MaxFaults = 2
INVARIANTS TypeOK Fresh RestoredExactly NoStall
PROPERTIES CopiesImage Ends
