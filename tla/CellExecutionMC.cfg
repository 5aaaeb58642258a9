CONSTANT Arms = {"baseline", "observe_only", "treatment"}
SPECIFICATION Spec
INVARIANTS
  ReceiptTellsWhatArrived
  ScoredCellIsSound
  RefusalNeedsMishap
PROPERTIES
  CellEnds
  ImplementsCellProtocol
CHECK_DEADLOCK FALSE
