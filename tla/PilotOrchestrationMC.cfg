CONSTANT
  Owners <- OwnerIds
SPECIFICATION Spec
INVARIANTS
  OrchestrationTypeOK
  ResultMeansClean
  NoOwnerDropped
PROPERTIES
  PilotEnds
  ImplementsLease
