CONSTANTS
  CellCount = 2
  TreatmentCells = {2}
SPECIFICATION RunSpec
INVARIANT BurnedRunIsSealable
