\* Tables of up to eight entries that grow from four.
CONSTANTS
  a = a
  b = b
  c = c
  d = d
  Key <- MCKey
  Val = {none, nil}
  EMPTY_KEY = empty
  EMPTY_VALUE = none
  TOMBSTONE_VALUE = nil
  HashOf <- MCHash
  MIN_CAPACITY = 4
  Absent = absent
  MaxCapacity = 8
SPECIFICATION FairSpec
INVARIANTS
  TypeOK
  SearchEnds
  EveryKeyFound
PROPERTIES
  Returns
  ImplementsDictionary
CHECK_DEADLOCK FALSE
