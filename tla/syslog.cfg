SPECIFICATION FairSpec
CONSTANTS
  Size = 5
  Lens = {2, 3}
  Readers = {"r1", "r2"}
  MaxFollowers = 1
  MaxMsgs = 3
INVARIANT SyslogInv
PROPERTIES FirstPassWhole FollowerExact LogWritten LogreadEnds
CHECK_DEADLOCK FALSE
