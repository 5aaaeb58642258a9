----------------------------- MODULE PilotRunMC -----------------------------
(* TLC instance of PilotRun: a control cell followed by a treatment cell.  *)
EXTENDS PilotRun
=============================================================================
