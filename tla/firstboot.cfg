SPECIFICATION FairSpec
CONSTANTS
  Packages = 3
  Hooks = 2
  MaxBoots = 3
INVARIANTS FirstBootInv
PROPERTIES DoneIsFinal SetupCompletes
