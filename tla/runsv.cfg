SPECIFICATION FairSpec
CONSTANTS
  Pids = {1, 2, 3}
  HasLog = TRUE
  HasFinish = TRUE
  Handled = {}
  MaxCmds = 3
INVARIANTS RunsvInv LogPipeOutlivesService
PROPERTIES ImplementsService WantedIsRunning ExitCompletes
CHECK_DEADLOCK FALSE
