---------------------------- MODULE BlindVerification ----------------------------
(* What a private verification promises to the cell that asks for it, and all that *)
(* the cell may rely on: checks run on the agent's workspace, which somebody may    *)
(* still write to; evidence is signed only over a workspace that is the one of the  *)
(* agent's receipt before and after them, and only once none of them runs.          *)

VARIABLES
  stage,      \* "idle", "asked", "signed" or "refused"
  workspace,  \* as the agent's receipt names it, or changed since
  running,    \* a check is at work
  ran,        \* every check there is to run has begun
  pure,       \* whatever has run so far ran on the workspace of the receipt
  verdict     \* of the signed evidence

blindVars == <<stage, workspace, running, ran, pure, verdict>>

BlindInit ==
  /\ stage = "idle" /\ workspace = "receipt"
  /\ running = FALSE /\ ran = FALSE /\ pure = TRUE /\ verdict = "none"

Ask == stage = "idle" /\ stage' = "asked" /\ UNCHANGED <<workspace, running, ran, pure, verdict>>

\* Somebody else writes.  A check that is at work may see it; none is ever undone.
Disturb ==
  /\ workspace = "receipt" /\ workspace' = "changed"
  /\ pure' = pure \/ (running /\ pure' = FALSE)
  /\ UNCHANGED <<stage, running, ran, verdict>>

\* A check begins or looks at the workspace again.  One whose client outlived the
\* verifier may do so after the refusal, but never once evidence is signed.
RunCheck ==
  /\ stage \in {"asked", "refused"}
  /\ running' = TRUE /\ ran' \in {ran, TRUE}
  /\ pure' = (pure /\ workspace = "receipt")
  /\ UNCHANGED <<stage, workspace, verdict>>

CheckStops == running' = FALSE /\ UNCHANGED <<stage, workspace, ran, pure, verdict>>

\* A product is scored only after every check; anything else is inconclusive.
Sign ==
  /\ stage = "asked" /\ workspace = "receipt" /\ ~running
  /\ stage' = "signed"
  /\ verdict' \in {"inconclusive"} \union (IF ran THEN {"passed", "failed"} ELSE {})
  /\ UNCHANGED <<workspace, running, ran, pure>>

\* Whatever else goes wrong, before or after the verification was asked for.
Refuse ==
  /\ stage \in {"idle", "asked"} /\ stage' = "refused"
  /\ running' \in {running, FALSE}
  /\ UNCHANGED <<workspace, ran, pure, verdict>>

\* Signed evidence that comes too late, or that the asker refuses, is as good as none.
Discard ==
  /\ stage = "signed" /\ stage' = "refused" /\ verdict' = "none"
  /\ UNCHANGED <<workspace, running, ran, pure>>

BlindNext == Ask \/ Disturb \/ RunCheck \/ CheckStops \/ Sign \/ Refuse \/ Discard

BlindSpec == BlindInit /\ [][BlindNext]_blindVars

\* What follows from the steps: a verdict that scores a product rests on every check,
\* on no workspace but the receipt's, and stays what it is whatever is written later.
BlindPromise ==
  /\ running \in BOOLEAN /\ ran \in BOOLEAN /\ pure \in BOOLEAN
  /\ workspace = "receipt" => pure
  /\ stage # "signed" => verdict = "none"
  /\ stage = "signed" => verdict \in {"passed", "failed", "inconclusive"} /\ pure /\ ~running
  /\ verdict \in {"passed", "failed"} => ran
================================================================================
