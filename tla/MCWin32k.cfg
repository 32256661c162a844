CONSTANTS
  KBD_RING = 3
  Scancodes = {"shift", "letter", "caps", "E0"}
  MouseBytes <- SomeBytes
  BYTE = 2
  MaxX = 2
  MaxY = 1
  MaxTyped = 5
  MaxMoves = 2
  GDI_MAX_OBJECTS = 4
  Attrs = 2
  Blocks = {1, 2}
  Windows = {1}
  W32K_DC_CACHE = 2
  Colors = {"red"}
  Kinds = {"pen"}
SPECIFICATION MCSpec
INVARIANTS
  InputKept
  TablesSound
  
  DrawsExactly
PROPERTIES
  WorkEnds
CHECK_DEADLOCK FALSE
