CONSTANT
  CheckCount = 2
SPECIFICATION Spec
INVARIANTS
  VerdictIsTheContainers
  NothingRunsUnseen
PROPERTIES
  VerifierAnswers
  ImplementsBlindVerification
CHECK_DEADLOCK FALSE
