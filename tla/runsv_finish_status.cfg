SPECIFICATION Spec
CONSTANTS
  Pids = {1, 2, 3}
  HasLog = TRUE
  HasFinish = TRUE
  Handled = {}
  MaxCmds = 1
PROPERTY FinishGetsRunStatus
CHECK_DEADLOCK FALSE
