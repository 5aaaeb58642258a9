--------------------------- MODULE CellExecutionMC ---------------------------
(* TLC instance of CellExecution: one cell of each arm.                         *)
EXTENDS CellExecution
=============================================================================
