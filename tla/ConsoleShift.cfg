SPECIFICATION Spec
CONSTANTS
  KEYBUF_SIZE = 3
  MAX_LEN = 2
  Scancodes <- MCScancodes
  Keys <- ShiftKeys
INVARIANTS
  TypedIsRead
PROPERTIES
  KeysGetRead
