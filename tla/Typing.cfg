SPECIFICATION Spec
CONSTANTS
  Names = {x}
  Samples <- SomePrograms
  Infos <- SomeInfos
INVARIANTS
  Sound
  NeverRefused
CHECK_DEADLOCK FALSE
