SPECIFICATION PqSpec
CONSTANTS
  e1 = e1
  e2 = e2
  e3 = e3
  Raw = Raw
  Elem = {e1, e2, e3}
  Rank <- Ranking
  MinCapacity = 2
  MaxCapacity = 8
  SizeBits = 5
  SizeMax = 31
INVARIANTS
  HeapInOrder
  ElementsOwned
PROPERTIES
  PqCallsKeepTheirPromises
CHECK_DEADLOCK FALSE
