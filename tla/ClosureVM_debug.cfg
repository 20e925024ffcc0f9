\* A debug build: every call moves the stack, an error frees it.
CONSTANTS
  script = script
  outer = outer
  inner = inner
  Data = {one}
  Natives = {native}
  None = none
  Functions <- MCFunctions
  Script = script
  Arity <- MCArity
  Captures <- MCCaptures
  MaxSlots <- TightMaxSlots
  MAX_FRAMES = 2
  START_STACK = 2
  PowersOfTwo = {1, 2, 4, 8, 16}
  IS_DEBUG_BUILD = TRUE
  MaxClosures = 3
  MaxUpvalues = 2
SPECIFICATION Spec
INVARIANTS
  TypeOK
  OpenListSorted
  OpenPointToVariables
  NoneLost
  StackFits
  FramesInPlace
PROPERTIES
  ImplementsSharedVariables
CHECK_DEADLOCK FALSE
