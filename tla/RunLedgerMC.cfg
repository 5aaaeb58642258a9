CONSTANT CellCount = 3
SPECIFICATION LedgerSpec
INVARIANTS
  ClosedRunReplays
  ManifestsStand
  AbortStatesBurnedAttempts
  OneReservationPerCell
PROPERTIES
  NoResume
  ImplementsPilotOutcome
