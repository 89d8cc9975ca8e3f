SPECIFICATION JsonSpec
CONSTANTS
  Char = {1, 2}
  InternalCapacity = 6
  MaxBlock = 16
  MaxLength = 8
  Texts <- ShortAndLong
  Requests = {4, 5, 8, 17}
  SizeBits = 7
  Opening = 1
  Comma = 2
  Closing = 1
  Lists <- SomeLists
INVARIANTS
  BlockFits
  HeapExact
  CompareDecides
PROPERTIES
  CallsKeepTheirPromises
  RoomAsAsked
  JsonJoins
