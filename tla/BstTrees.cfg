SPECIFICATION Spec
CONSTANTS
  NULL = NULL
  v1 = v1
  v2 = v2
  IntBits = 5
  KeysOf <- StructureKeys
  Values = {}
  Leftmost <- LeftmostStep
  Find <- FindStep
  PlainInsert <- PlainInsertStep
  PlainRemoveMin <- PlainRemoveMinStep
  PlainRemove <- PlainRemoveStep
  RbInsert <- RbInsertStep
  RbRemoveMin <- RbRemoveMinStep
  RbRemove <- RbRemoveStep
  AvlInsert <- AvlInsertStep
  AvlRemoveMin <- AvlRemoveMinStep
  AvlRemove <- AvlRemoveStep
  Traverse <- TraverseStep
  TraverseR <- TraverseRStep
  Height <- HeightStep
  Subtrees <- SubtreesStep
  BlackDepths <- BlackDepthsStep
INVARIANTS
  WalksInOrder
  SearchFindsAll
  InvariantAsserted
  LeansLeft
CHECK_DEADLOCK FALSE
