SPECIFICATION Spec
CONSTANTS
  Commands = {"all"}
  Faults = TRUE
  MaxMakes = 4
  MaxConf = 2
INVARIANTS HookStaged
CHECK_DEADLOCK FALSE
