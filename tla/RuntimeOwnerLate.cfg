CONSTANTS
  CellCount = 1
  LateCreation = TRUE
SPECIFICATION Spec
INVARIANTS
  ContainersHaveManifest
