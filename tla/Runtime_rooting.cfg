SPECIFICATION Spec
CONSTANTS
  Address = {a1, a2, a3, a4, a5}
  Text = {t1, t2}
  Literal = {t1, t2}
  Null = Null
  Allocator <- Anywhere
  MaxStack = 3
  MaxFrames = 2
  MaxCompilers = 2
  MaxGlobals = 2
  MaxLines = 2
SYMMETRY Symmetry
INVARIANTS
  TypeOK
  NothingDangles
  StringsUnique
  ReservedStack
CHECK_DEADLOCK FALSE
