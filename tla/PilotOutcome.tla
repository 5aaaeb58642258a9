---------------------------- MODULE PilotOutcome ----------------------------
(***************************************************************************)
(* What a pilot run promises to whoever reads its directory later: the     *)
(* outcome is open until the run is sealed, a claim may first be offered   *)
(* (the final manifest is readable, its commit is still to come) and then  *)
(* be confirmed or withdrawn, and a claim or an abort, once sealed, stands *)
(* for ever; no run is ever both.                                          *)
(***************************************************************************)
VARIABLE outcome

Outcomes == {"open", "offered", "claimed", "aborted"}

OutcomeInit == outcome = "open"

OfferClaim    == outcome = "open"    /\ outcome' = "offered"
ConfirmClaim  == outcome = "offered" /\ outcome' = "claimed"
WithdrawClaim == outcome = "offered" /\ outcome' = "open"
SealAbort     == outcome = "open"    /\ outcome' = "aborted"

OutcomeNext == OfferClaim \/ ConfirmClaim \/ WithdrawClaim \/ SealAbort

OutcomeSpec == OutcomeInit /\ [][OutcomeNext]_outcome
=============================================================================
