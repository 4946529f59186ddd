SPECIFICATION TransferSpec
CONSTANTS
  MAX_INODES = 3
  TOTAL_BLOCKS = 3
  DIR_SLOTS = 2
  MAX_BLOCKS_PER_FILE = 2
  INDIRECT_SLOTS = 0
  LINK_MOD = 8
  MAX_LINK_DEPTH = 2
  MAX_FOLLOW = 2
  MAX_WRITE = 2
  MAX_RESTARTS = 2
  UnlinkCut = FALSE
  Commands <- CrashCommands
  Names <- MCNames
  Paths <- CrashPaths
  SymlinkTexts <- CrashTexts
  LinkTargets <- OnlyFiles
  BusyRmdir = FALSE
CHECK_DEADLOCK FALSE
INVARIANTS
  ListedOnDisk
  ParentsOnDisk
  BlocksOnDisk
  CountOnDisk
  Durable
  MoveKeepsOne
