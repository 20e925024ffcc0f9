SPECIFICATION Spec
CONSTANTS
  Base = 8
  UpvalueLists <- SomeUpvalues
  LongClosures = FALSE
  Samples <- SomeFunctions
INVARIANTS
  ReadAsEmitted
  JumpsLand
CHECK_DEADLOCK FALSE
