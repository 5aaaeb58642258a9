--------------------------- MODULE VerifierProcessMC ---------------------------
(* TLC instance of VerifierProcess: the values of its constants are in the      *)
(* configurations, two checks, so that one may be running while another's       *)
(* request is still with the engine.                                            *)
EXTENDS VerifierProcess
================================================================================
