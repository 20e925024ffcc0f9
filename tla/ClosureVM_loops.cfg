\* Loops left by break or continue with captured variables.
CONSTANTS
  script = script
  outer = outer
  inner = inner
  Data = {one}
  Natives = {}
  None = none
  Functions <- MCFunctions
  Script = script
  Arity <- MCArity
  Captures <- MCCaptures
  MaxSlots <- MCMaxSlots
  MAX_FRAMES = 2
  START_STACK = 2
  PowersOfTwo = {1, 2, 4, 8, 16}
  IS_DEBUG_BUILD = FALSE
  MaxClosures = 3
  MaxUpvalues = 2
SPECIFICATION LoopSpec
INVARIANTS
  OpenPointToVariables
CHECK_DEADLOCK FALSE
