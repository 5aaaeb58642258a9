CONSTANTS
  CellCount = 2
  TreatmentCells = {2}
SPECIFICATION RunSpec
INVARIANTS
  HttpIsBurnedFirst
  CancellationDowngrades
  ClaimNeedsSettlement
  CleanupStatementsTrue
  AbortsRecorded
PROPERTIES
  NoRequestAfterCancellation
  UsesLedgerAsSpecified
  RunEnds
  ImplementsCellProtocol
