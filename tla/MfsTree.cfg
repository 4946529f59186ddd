SPECIFICATION Spec
CONSTANTS
  MAX_INODES = 4
  TOTAL_BLOCKS = 2
  DIR_SLOTS = 2
  MAX_BLOCKS_PER_FILE = 1
  INDIRECT_SLOTS = 1
  LINK_MOD = 8
  MAX_LINK_DEPTH = 2
  MAX_FOLLOW = 2
  MAX_WRITE = 0
  Commands <- TreeCommands
  Names <- MCNames
  Paths <- TreePaths
  SymlinkTexts <- TreeTexts
  LinkTargets <- OnlyFiles
  BusyRmdir = FALSE
CHECK_DEADLOCK FALSE
INVARIANTS
  TypeOK
  ListedAllocated
  EntryAgreesWithParent
  SiblingNames
  CwdIsNamed
PROPERTIES
  FreshInode
