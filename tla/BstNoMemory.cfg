SPECIFICATION Spec
CONSTANTS
  NULL = NULL
  v1 = v1
  v2 = v2
  IntBits = 5
  KeysOf <- RbKeys
  Values = {v1}
  Leftmost <- LeftmostStep
  Find <- FindStep
  PlainInsert <- PlainInsertStep
  PlainRemoveMin <- PlainRemoveMinStep
  PlainRemove <- PlainRemoveStep
  RbInsert <- RbInsertStep
  RbRemoveMin <- RbRemoveMinStep
  RbRemove <- RbRemoveStep
  AvlInsert <- AvlInsertStep
  AvlRemoveMin <- AvlRemoveMinStep
  AvlRemove <- AvlRemoveStep
  Traverse <- TraverseStep
  TraverseR <- TraverseRStep
  Height <- HeightStep
  Subtrees <- SubtreesStep
  BlackDepths <- BlackDepthsStep
INVARIANTS
  NoNullDereference
CHECK_DEADLOCK FALSE
