SPECIFICATION FairSpec
CONSTANTS
  Commands <- AllCommands
  Faults = TRUE
  MaxMakes = 4
  MaxConf = 2
INVARIANTS BuildComplete BuildInv
PROPERTY MakeAllCompletes
CHECK_DEADLOCK FALSE
