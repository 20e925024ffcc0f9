SPECIFICATION Spec
CONSTANTS
  Samples <- SomePrograms
  UnderOperand = FALSE
INVARIANTS
  RunsClean
  StackReserved
  OperandsDenote
CHECK_DEADLOCK FALSE
