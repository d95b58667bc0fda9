SPECIFICATION Spec
CONSTANTS
  Machines <- MCMachines
  BOOT = 1
  PE = 2
  Numbers = 3
INVARIANTS TypeOK OwnName Accounted RestoredHome
