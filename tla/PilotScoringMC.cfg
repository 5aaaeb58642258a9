CONSTANTS
  CaseCount = 3
  ControlOutcomes <- MCControlOutcomes
  TreatmentOutcomes <- MCTreatmentOutcomes
  Irregularities = 2
SPECIFICATION Spec
CHECK_DEADLOCK FALSE
INVARIANTS VerdictIsReference DeltaIsMargin
