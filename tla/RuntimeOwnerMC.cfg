CONSTANTS
  CellCount = 3
  LateCreation = FALSE
SPECIFICATION Spec
INVARIANTS
  PermittedMeansClean
  NoForgottenContainer
PROPERTIES
  ImplementsDurableOwner
  RecoverySucceeds
