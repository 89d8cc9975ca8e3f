SPECIFICATION Spec
CONSTANTS
  Programs <- AllPrograms
  MaxLength = 7
  Ranks = {1, 2, 3}
  InsertionMax <- Cutoffs
  SizeMax = 15
INVARIANTS
  NothingLost
  SortedAtEnd
  ScansMeet
  PartsInOrder
  HeapThenSorted
PROPERTIES
  Terminates
CHECK_DEADLOCK FALSE
