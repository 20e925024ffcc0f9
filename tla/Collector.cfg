SPECIFICATION Spec
CONSTANTS
  Address = {a1, a2, a3}
  Text = {t1}
  Null = Null
INVARIANTS
  TypeOK
  NothingDangles
  StringsUnique
  NoBlackToWhite
PROPERTIES
  CollectsAll
  ImplementsProgramHeap
  CollectionEnds
CHECK_DEADLOCK FALSE
