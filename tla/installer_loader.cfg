SPECIFICATION Spec
CONSTANTS
  Disks = {d1, d2}
  OtherNodes = {}
  NoTarget = none
  DiskMb <- MCDiskMb
  LiveDirs = {"etc", "usr"}
  LiveFiles = {"netbsd", "bootx64.efi"}
  Faults = TRUE
  MaxRuns = 2
SYMMETRY Sym
INVARIANT BootloaderInstalled
CHECK_DEADLOCK FALSE
