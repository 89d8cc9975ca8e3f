SPECIFICATION Spec
CONSTANTS
  e1 = e1
  e2 = e2
  Raw = Raw
  Elem = {e1, e2}
  MinCapacity = 2
  MaxCapacity = 8
  SizeBits = 5
  SizeMax = 31
INVARIANTS
  TypeOK
  SlotsExact
  NoLeakNoDoubleDestroy
PROPERTIES
  ImplementsSequence
  CallsKeepTheirPromises
  LoopsEnd
