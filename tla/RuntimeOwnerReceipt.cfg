CONSTANTS
  CellCount = 1
  LateCreation = FALSE
SPECIFICATION Spec
INVARIANTS
  ReceiptHasManifest
