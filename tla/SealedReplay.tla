---------------------------- MODULE SealedReplay ----------------------------
(***************************************************************************)
(* The event grammar of one pilot run and what a replay of the event files *)
(* concludes from them (src/src/sealed-pilot-run.mjs, with the abort       *)
(* payload checks of src/src/pilot-run-event-contract.mjs).                *)
(*                                                                         *)
(* A log is the sequence of event files 000001.json, 000002.json, ...  The *)
(* hash chain is abstracted to the position in the log: the writer only    *)
(* ever appends after the head it acknowledged, so an event's predecessor  *)
(* hash is right exactly when the event is at its own position.            *)
(***************************************************************************)
EXTENDS Integers, Sequences, FiniteSets

CONSTANT CellCount      \* cells of the plan's schedule; nine in a release plan

ASSUME CellCountAssumption == CellCount \in Nat \ {0}

Cells  == 1..CellCount
NoCell == 0             \* cell_ref = null

(***************************************************************************)
(* Event files.  A step is any event but the abort; the abort's payload    *)
(* states what the writer believed: the completed cells, the state of the  *)
(* active provider attempt and whether the resource cleanup is confirmed.  *)
(* TornFile is an event file whose content is not the canonical event:     *)
(* created, never completely written.                                      *)
(***************************************************************************)
StepEvent(kind, cell) == [kind |-> kind, cell |-> cell]

AbortEvent(cell, completed, attempt, cleanup) ==
  [kind |-> "run_aborted", cell |-> cell, completed |-> completed,
   attempt |-> attempt, cleanup |-> cleanup]

TornFile == [kind |-> "torn", cell |-> NoCell]

CellKinds ==
  << "cell_arm_prepared", "model_input_frozen",
     "provider_attempt_reserved", "provider_request_started",
     "provider_attempt_completed", "cell_result_recorded" >>

TailKinds ==
  << "resource_cleanup_confirmed", "verdict_recorded", "run_closed" >>

AttemptStates ==
  { "no_active_attempt", "prepared_not_reserved",
    "request_may_have_started_burned", "provider_completed_pending_cell_result" }

StepEvents ==
  [kind : {"run_started"} \cup {CellKinds[j] : j \in 1..6} \cup {TailKinds[j] : j \in 1..3},
   cell : Cells \cup {NoCell}]

AbortEvents ==
  [kind : {"run_aborted"}, cell : Cells \cup {NoCell},
   completed : 0..CellCount, attempt : AttemptStates, cleanup : BOOLEAN]

Events == StepEvents \cup AbortEvents

-----------------------------------------------------------------------------
(***************************************************************************)
(* Position(c, j) is the sequence number of the j-th event of cell c;      *)
(* Position(c, 0) is that of the event just before the cell begins.        *)
(***************************************************************************)
Position(c, j) == 1 + 6 * (c - 1) + j

BodyEnd == 1 + 6 * CellCount      \* run_started and six events of every cell
FullEnd == BodyEnd + 3

\* The first n files of the log are what the grammar puts there.
ConformsUpTo(log, n) ==
  /\ n >= 1 => log[1] = StepEvent("run_started", NoCell)
  /\ \A c \in Cells, j \in 1..6 :
       Position(c, j) <= n => log[Position(c, j)] = StepEvent(CellKinds[j], c)
  /\ \A j \in 1..3 :
       BodyEnd + j <= n => log[BodyEnd + j] = StepEvent(TailKinds[j], NoCell)

\* Where an abort may follow, with the cell reference the replay demands there
\* and the number of cell results it has then collected (consumeAbort).
CutAtBoundary(n, cell, results) ==
  /\ cell = NoCell
  /\ \/ \E c \in Cells : n = Position(c, 0) /\ results = c - 1
     \/ n \in BodyEnd..FullEnd /\ results = CellCount

CutInsideCell(n, cell, results) ==
  /\ cell \in Cells
  /\ \E j \in {2, 4, 5} : n = Position(cell, j)
  /\ results = cell - 1

\* verifyRunAbortedPayloadV1: the count and state fields that must agree.
AbortPayloadAccepted(e) ==
  /\ e.attempt # "no_active_attempt" => e.completed < CellCount
  /\ e.completed \in 0..CellCount

ReplaysCompleted(log) ==
  /\ Len(log) = FullEnd
  /\ ConformsUpTo(log, FullEnd)

ReplaysAborted(log) ==
  LET n == Len(log) - 1
  IN  /\ n >= 1
      /\ n <= FullEnd
      /\ log[n + 1].kind = "run_aborted"
      /\ ConformsUpTo(log, n)
      /\ AbortPayloadAccepted(log[n + 1])
      /\ \/ CutAtBoundary(n, log[n + 1].cell, log[n + 1].completed)
         \/ CutInsideCell(n, log[n + 1].cell, log[n + 1].completed)

-----------------------------------------------------------------------------
(***************************************************************************)
(* What an abort payload says of the provider attempts: its reservation    *)
(* and completion counts are functions of the two fields kept here, which  *)
(* verifyRunAbortedPayloadV1 checks against the written counts.            *)
(***************************************************************************)
StatedReservations(e) ==
  e.completed + (IF e.attempt \in { "request_may_have_started_burned",
                                    "provider_completed_pending_cell_result" }
                 THEN 1 ELSE 0)

StatedCompletions(e) ==
  e.completed + (IF e.attempt = "provider_completed_pending_cell_result"
                 THEN 1 ELSE 0)

OccurrencesOf(kind, log) ==
  Cardinality({i \in DOMAIN log : log[i].kind = kind})

=============================================================================
