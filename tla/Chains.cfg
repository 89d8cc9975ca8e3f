SPECIFICATION Spec
CONSTANTS
  Addr = {n1, n2, n3, n4, n5}
  NULL = NULL
  v1 = v1
  v2 = v2
  k1 = k1
  k2 = k2
  k3 = k3
  Elem = {v1, v2}
  NoElem = NoElem
  Keys = {k1, k2, k3}
  Values = {v1, v2}
  NBuckets = 2
  Hash <- Hashes
INVARIANTS
  EachNodeOwnedOnce
  KeysPlaced
PROPERTIES
  ListPromises
  MapPromises
CHECK_DEADLOCK FALSE
SYMMETRY Addresses
