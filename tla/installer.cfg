SPECIFICATION Spec
CONSTANTS
  Disks = {d1, d2}
  OtherNodes = {null}
  NoTarget = none
  DiskMb <- MCDiskMb
  LiveDirs = {"etc", "usr"}
  LiveFiles = {"netbsd"}
  Faults = TRUE
  MaxRuns = 2
SYMMETRY Sym
INVARIANTS LiveSystemUntouched CompletedRun InstallerInv
PROPERTIES OtherDisksKept UnmountedInstallKept
CHECK_DEADLOCK FALSE
