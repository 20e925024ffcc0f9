SPECIFICATION Spec
CONSTANTS
  Address = {1, 2, 3, 4, 5, 6, 7, 8}
  Text = {t1}
  Literal = {}
  Null = Null
  Allocator <- Lowest
  MaxStack = 4
  MaxFrames = 2
  MaxCompilers = 3
  MaxGlobals = 0
  MaxLines = 1
INVARIANTS
  NothingDangles
CHECK_DEADLOCK FALSE
