SPECIFICATION Spec
CONSTANTS
  DISKS = 2
  PARTS = 2
  WORD = 64
  MB = 2
  FIRST_LBA = 2
  LAST <- MCLast
  MAX_MOUNTS = 3
  FS_SECTORS = 5
  Sizes <- Large
  RootSizes <- WithRoot
  MountPoints <- MCMountPoints
  Paths <- MCPaths
  MISDEEDS = 1
CHECK_DEADLOCK FALSE
INVARIANTS
  ServesItsPartition
