SPECIFICATION Spec
CONSTANTS
  KEYBUF_SIZE = 3
  MAX_LEN = 3
  Scancodes <- MCScancodes
  Keys <- EditKeys
INVARIANTS
  TypedIsRead
PROPERTIES
  IsFifo
  EditsALine
