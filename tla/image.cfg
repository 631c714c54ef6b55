SPECIFICATION Spec
CONSTANTS
  Sources = {"userland", "staging"}
  Loader = TRUE
  MaxRuns = 2
  MaxDay = 2
INVARIANTS MakeImageInv ImageWhole RootOfOneRun BurnedComplete
PROPERTY OthersKept
CHECK_DEADLOCK FALSE
