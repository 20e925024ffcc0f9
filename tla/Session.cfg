SPECIFICATION Spec
CONSTANTS
  DebugBuild = TRUE
  Names = {"f", "g", "print"}
  Natives = {"print"}
  TypesOf <- OneEach
  MaxLines = 2
  MaxStatements <- Few
INVARIANTS
  GlobalsAsDeclared
  StackAsCounted
PROPERTIES
  ConstKept
CHECK_DEADLOCK FALSE
