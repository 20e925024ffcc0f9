SPECIFICATION FairSpec
CONSTANTS
  Samples <- SomeSources
INVARIANTS
  BindsAsTabled
  ExactlyPrograms
PROPERTIES
  Terminates
CHECK_DEADLOCK FALSE
