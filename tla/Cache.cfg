SPECIFICATION Spec
CONSTANTS
  MAX_INODES = 5
  FLAGS = 2
  LAST_USED = 3
  DIR_SLOTS = 2
  HEADS = 2
  TAILS = 3
INVARIANTS
  TailsCoherent
  HeadsCoherent
PROPERTIES
  OnlyFirstLoadSpills
