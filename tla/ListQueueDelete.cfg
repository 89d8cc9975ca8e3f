SPECIFICATION Spec
CONSTANTS
  Addr = {n1, n2, n3, n4}
  NULL = NULL
  e1 = e1
  e2 = e2
  Elem = {e1, e2}
  NoElem = NoElem
  Clients <- QueueDelete
INVARIANTS
  NoUseAfterFree
CHECK_DEADLOCK FALSE
