----------------------------- MODULE RunLedgerMC -----------------------------
(* TLC instance of RunLedger: every failure and crash of a short schedule.  *)
EXTENDS RunLedger
=============================================================================
