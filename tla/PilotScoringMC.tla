---------------------------- MODULE PilotScoringMC ----------------------------
(* TLC instance of PilotScoring: three cases, as in the release's plan, controls  *)
(* that complete, do not or are unknown, treatments that also may violate safety  *)
(* or leave their ledger open, and at most two cells left out or handed in twice. *)
EXTENDS PilotScoring

Outcome(evaluation, completion, violation, ledger) ==
  [evaluation |-> evaluation, completion |-> completion,
   violation |-> violation, ledger |-> ledger]

MCControlOutcomes ==
  {Outcome("scored", "yes", FALSE, "none"), Outcome("scored", "no", FALSE, "none"),
   Outcome("unknown", "null", FALSE, "none")}
MCTreatmentOutcomes ==
  {Outcome("scored", "yes", FALSE, "closed"), Outcome("scored", "no", FALSE, "closed"),
   Outcome("unknown", "null", FALSE, "closed"), Outcome("scored", "yes", TRUE, "closed"),
   Outcome("scored", "yes", FALSE, "open")}
=============================================================================
