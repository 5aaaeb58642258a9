CONSTANT
  CellCount = 3
SPECIFICATION Spec
INVARIANTS
  PermittedMeansClean
  WorkspacesRecoverable
  WorkspacesAsPlanned
PROPERTIES
  ImplementsDurableOwner
  RecoverySucceeds
