SPECIFICATION Spec
CONSTANTS
  MAX_PORTS = 2
  MAX_CMD_SLOTS = 2
  MAX_PAGES = 8
  MARKED_PAGES = 1
  POLLS = 1
  Buffers = {b}
  Sectors = {s}
  x = x
  y = y
  Data <- MCData
CHECK_DEADLOCK FALSE
INVARIANTS
  PagesApart
  OnlyReadyPorts
  SuccessIsDone
PROPERTIES
  OutstandingUntouched
  CallsReturn
