SPECIFICATION FairSpec
CONSTANTS
  Names = {"a", "b"}
  Fixed = {"b"}
  Pids = {1, 2}
  Modes <- ModesUsed
INVARIANTS RunsvdirInv NothingMissed
PROPERTIES SupervisedAgain RemovedEnds
CHECK_DEADLOCK FALSE
