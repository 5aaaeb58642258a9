------------------------------ MODULE PilotRun ------------------------------
(***************************************************************************)
(* One pilot run from the claim of its resources to its last cleanup       *)
(* (executePilot and runExecutablePilotWithCancellationV1 of               *)
(* src/src/executable-pilot-runner.mjs), over the ledger of RunLedger.     *)
(*                                                                         *)
(* The runner is one async function: pc is the await it is about to make.  *)
(* Between two awaits a signal handler may run, the provider may answer,   *)
(* or the process may die.  An operation never reads the cancellation      *)
(* flag between its checkpoint and its effect, so a signal that arrives    *)
(* meanwhile is the same as one that arrives just after it.                *)
(***************************************************************************)
EXTENDS RunLedger

CONSTANT TreatmentCells     \* the cells whose arm settles with the Runtime

ASSUME TreatmentCellsAssumption == TreatmentCells \subseteq Cells

VARIABLES
  pc,           \* the step the runner takes next
  currentCell,  \* the runner's currentCell: a cell or NoCell
  requested,    \* a SIGINT or SIGTERM reached the process before the commit
  answer,       \* outcome of the scored request: "none", "completed", "inconclusive"
  settled,      \* treatment cells whose Runtime ledger the run saw closed
  http,         \* scored HTTP requests ever sent for each cell, by any process
  resource,     \* each cell's adapter: "pending", "closed" or "failed"
  owners,       \* runtime and workspace owner: "held", "closed" or "failed"
  receipt       \* memoized cleanup receipt: "none", "confirmed" or "incomplete"

work    == << currentCell, answer, settled, http >>
holding == << resource, owners, receipt >>
runVars == << ledgerVars, pc, requested, work, holding >>

CellSteps ==
  { "prepare", "record_prepared", "reserve", "send", "await", "complete",
    "agent", "verifier", "settle", "close_resource", "record_result" }
SealSteps ==
  { "cleanup", "record_cleanup", "verdict", "close_run", "final_provenance",
    "final_sign", "open_manifest", "sync_manifest", "commit_manifest", "return" }
Steps ==
  { "validate", "provenance", "begin", "abort_cleanup", "abort_sign",
    "abort_persist", "dispose", "done", "down" } \cup CellSteps \cup SealSteps

\* Steps entered through checkpointReleasePilotCancellationV1.
Checkpointed ==
  { "validate", "begin", "prepare", "record_prepared", "reserve", "send",
    "complete", "agent", "verifier", "settle", "close_resource",
    "record_result", "cleanup", "record_cleanup", "verdict", "close_run",
    "final_provenance", "final_sign", "open_manifest" }

\* Steps whose error leaves the try block; agent, verifier and settlement
\* errors are caught and become the cell's infrastructure failure.
Throwing ==
  { "prepare", "record_prepared", "reserve", "send", "await", "complete",
    "close_resource", "record_result", "record_cleanup", "verdict",
    "close_run", "final_provenance", "final_sign", "open_manifest" }

activeCell == nextOrdinal      \* the cell of the loop's current iteration

AllClosed == owners = "closed" /\ \A c \in Cells : resource[c] = "closed"

RunInit ==
  /\ LedgerInit
  /\ pc = "validate"
  /\ currentCell = NoCell
  /\ requested = FALSE
  /\ answer = "none"
  /\ settled = {}
  /\ http = [c \in Cells |-> 0]
  /\ resource = [c \in Cells |-> "pending"]
  /\ owners = "held"
  /\ receipt = "none"

-----------------------------------------------------------------------------
\* The runner is at a step and its cancellation checkpoint lets it through.
At(step) == pc = step /\ (step \in Checkpointed => ~requested)

Goto(step) == pc' = step

\* After a ledger operation: the next step, or the catch block if it threw.
Proceed(step) == pc' = IF mode' = "catch" THEN "abort_cleanup" ELSE step

-----------------------------------------------------------------------------
(* Before there is a ledger *)

\* Input, authorization, preflight and resource binding checks.  They fail
\* before the closer exists: only the outer disposeAll runs.
Validate ==
  /\ \/ /\ At("validate")
        /\ Goto("provenance")
        /\ UNCHANGED ledgerVars
     \/ /\ pc = "validate"
        /\ RefuseBegin
        /\ Goto("dispose")
  /\ UNCHANGED << requested, work, holding >>

VerifyProvenance ==
  /\ pc = "provenance"
  /\ \/ Goto("begin") /\ UNCHANGED ledgerVars
     \/ RefuseBegin /\ Goto("abort_cleanup")
  /\ UNCHANGED << requested, work, holding >>

Begin ==
  /\ \/ At("begin") /\ BeginPilotRunLedger
     \/ pc = "begin" /\ RefuseBegin
  /\ pc' = IF mode' = "try" THEN "prepare" ELSE "abort_cleanup"
  /\ UNCHANGED << requested, work, holding >>

-----------------------------------------------------------------------------
(* One cell *)

\* currentCell is set before prepareArm, and cleared only after its result is
\* recorded: an error of prepareArm is blamed on the cell.
PrepareArm ==
  /\ At("prepare")
  /\ currentCell' = activeCell
  /\ answer' = "none"
  /\ \/ Goto("record_prepared") /\ UNCHANGED ledgerVars
     \/ CallerThrows /\ Goto("abort_cleanup")
  /\ UNCHANGED << requested, settled, http, holding >>

\* Fault: the request is sent before the attempt is reserved.
RecordPreparationThenSend ==
  /\ At("record_prepared")
  /\ RecordCellPreparation
  /\ Proceed("send")
  /\ UNCHANGED << requested, work, holding >>

RecordPreparation ==
  /\ At("record_prepared")
  /\ RecordCellPreparation
  /\ Proceed("reserve")
  /\ UNCHANGED << requested, work, holding >>

Reserve ==
  /\ At("reserve")
  /\ ReserveProviderAttempt
  /\ Proceed("send")
  /\ UNCHANGED << requested, work, holding >>

\* Fault: no checkpoint between the reservation and the request.
SendRequestUnchecked ==
  /\ pc = "send"
  /\ http' = [http EXCEPT ![activeCell] = @ + 1]
  /\ Goto("await")
  /\ UNCHANGED << ledgerVars, requested, currentCell, answer, settled, holding >>

SendRequest ==
  /\ At("send")
  /\ http' = [http EXCEPT ![activeCell] = @ + 1]
  /\ Goto("await")
  /\ UNCHANGED << ledgerVars, requested, currentCell, answer, settled, holding >>

\* A response, a transport error, the timeout or the cancellation abort.
ReceiveAnswer ==
  /\ pc = "await"
  /\ answer' \in {"completed", "inconclusive"}
  /\ Goto("complete")
  /\ UNCHANGED << ledgerVars, requested, currentCell, settled, http, holding >>

CompleteAttempt ==
  /\ At("complete")
  /\ CompleteProviderAttempt
  /\ Proceed(IF answer = "completed" THEN "agent" ELSE "close_resource")
  /\ UNCHANGED << requested, work, holding >>

\* Each of the three may fail; the failure is caught and recorded, and skips
\* what would have needed its result.
ExecuteAgentAction ==
  /\ At("agent")
  /\ pc' \in {"verifier", "close_resource"}
  /\ UNCHANGED << ledgerVars, requested, work, holding >>

\* Fault: every verified cell is settled, whatever its arm.
RunVerifierSettlingAll ==
  /\ At("verifier")
  /\ pc' \in {"close_resource", "settle"}
  /\ UNCHANGED << ledgerVars, requested, work, holding >>

RunVerifier ==
  /\ At("verifier")
  /\ pc' \in {"close_resource"}
       \cup (IF activeCell \in TreatmentCells THEN {"settle"} ELSE {})
  /\ UNCHANGED << ledgerVars, requested, work, holding >>

SettleTreatment ==
  /\ At("settle")
  /\ settled' \in {settled, settled \cup {activeCell}}
  /\ Goto("close_resource")
  /\ UNCHANGED << ledgerVars, requested, currentCell, answer, http, holding >>

CloseCellResource ==
  /\ At("close_resource")
  /\ resource[activeCell] = "pending"
  /\ \/ /\ resource' = [resource EXCEPT ![activeCell] = "closed"]
        /\ Goto("record_result")
        /\ UNCHANGED ledgerVars
     \/ /\ resource' = [resource EXCEPT ![activeCell] = "failed"]
        /\ CallerThrows
        /\ Goto("abort_cleanup")
  /\ UNCHANGED << requested, work, owners, receipt >>

\* Fault: the recorded cell stays the current one.
RecordResultKeepingCell ==
  /\ At("record_result")
  /\ RecordCellResult
  /\ Proceed(IF activeCell = CellCount THEN "cleanup" ELSE "prepare")
  /\ UNCHANGED << requested, work, holding >>

RecordResult ==
  /\ At("record_result")
  /\ RecordCellResult
  /\ Proceed(IF activeCell = CellCount THEN "cleanup" ELSE "prepare")
  /\ currentCell' = IF mode' = "catch" THEN currentCell ELSE NoCell
  /\ UNCHANGED << requested, answer, settled, http, holding >>

-----------------------------------------------------------------------------
(* Resource cleanup: complete() of buildResourceCloser, awaited in the try *)
(* block and again, memoized, in the catch block.                          *)

Completing == At("cleanup") \/ At("abort_cleanup")

Pending == {c \in Cells : resource[c] = "pending"}

\* The pending adapters are closed last cell first; an error is swallowed.
CloseNextResource ==
  /\ Completing
  /\ receipt = "none"
  /\ \E c \in Pending :
       /\ \A d \in Pending : d <= c
       /\ \E state \in {"closed", "failed"} :
            resource' = [resource EXCEPT ![c] = state]
  /\ UNCHANGED << ledgerVars, pc, requested, work, owners, receipt >>

\* disposeAll is memoized: owners are closed at most once.
DisposeOwners ==
  owners' \in (IF owners = "held" THEN {"closed", "failed"} ELSE {owners})

CloseOwners ==
  /\ Completing
  /\ receipt = "none" /\ Pending = {}
  /\ DisposeOwners
  /\ receipt' = IF owners' = "closed" /\ \A c \in Cells : resource[c] = "closed"
                THEN "confirmed" ELSE "incomplete"
  /\ IF pc = "abort_cleanup"
     THEN UNCHANGED << ledgerVars, pc >>
     ELSE IF receipt' = "confirmed"
     THEN Goto("record_cleanup") /\ UNCHANGED ledgerVars
     ELSE CallerThrows /\ Goto("abort_cleanup")
  /\ UNCHANGED << requested, work, resource >>

RecordCleanup ==
  /\ At("record_cleanup")
  /\ receipt = "confirmed"
  /\ RecordResourceCleanup
  /\ Proceed("verdict")
  /\ UNCHANGED << requested, work, holding >>

ScoreAndRecordVerdict ==
  /\ At("verdict")
  /\ RecordVerdict
  /\ Proceed("close_run")
  /\ UNCHANGED << requested, work, holding >>

Close ==
  /\ At("close_run")
  /\ CloseRun
  /\ Proceed("final_provenance")
  /\ UNCHANGED << requested, work, holding >>

VerifyFinalProvenance ==
  /\ At("final_provenance")
  /\ Goto("final_sign")
  /\ UNCHANGED << ledgerVars, requested, work, holding >>

\* Fault: the signer trusts a completed replay without its counts.
FinalSignUncounted ==
  /\ At("final_sign")
  /\ ReplaysCompleted(EventFiles)
  /\ Goto("open_manifest")
  /\ UNCHANGED << ledgerVars, requested, work, holding >>

\* verifyClosedRun: the closure counts a closed ledger for every treatment cell.
ClosureCounted == settled = TreatmentCells

\* The signer replays the directory before it signs, and verifies what it
\* signed.
FinalSign ==
  /\ At("final_sign")
  /\ ReplaysCompleted(EventFiles)
  /\ ClosureCounted
  /\ Goto("open_manifest")
  /\ UNCHANGED << ledgerVars, requested, work, holding >>

-----------------------------------------------------------------------------
(* persistFinalManifest, up to the synchronous commit *)

OpenManifest ==
  /\ At("open_manifest")
  /\ OpenFinalManifest
  /\ Goto("sync_manifest")
  /\ UNCHANGED << requested, work, holding >>

SyncManifest ==
  /\ pc = "sync_manifest"
  /\ SyncFinalManifest
  /\ Goto("commit_manifest")
  /\ UNCHANGED << requested, work, holding >>

\* Fault: the commit does not look at the signal.
CommitManifestUnchecked ==
  /\ pc = "commit_manifest"
  /\ CommitFinalManifest
  /\ Goto("return")
  /\ UNCHANGED << requested, work, holding >>

\* commitReleasePilotFinalManifestV1 refuses when a signal came first.
CommitManifest ==
  /\ pc = "commit_manifest"
  /\ ~requested
  /\ CommitFinalManifest
  /\ Goto("return")
  /\ UNCHANGED << requested, work, holding >>

WithdrawManifest ==
  /\ \/ pc = "sync_manifest"
     \/ pc = "commit_manifest" /\ requested
  /\ WithdrawFinalManifest
  /\ Goto("abort_cleanup")
  /\ UNCHANGED << requested, work, holding >>

ReturnResult ==
  /\ pc = "return"
  /\ CallerReturns
  /\ Goto("done")
  /\ UNCHANGED << requested, work, holding >>

-----------------------------------------------------------------------------
(* Failure *)

StepThrows ==
  /\ pc \in Throwing \ {"prepare"}
  /\ CallerThrows
  /\ Goto("abort_cleanup")
  /\ UNCHANGED << requested, work, holding >>

CheckpointThrows ==
  /\ pc \in Checkpointed \ {"validate", "begin"}
  /\ requested
  /\ CallerThrows
  /\ Goto("abort_cleanup")
  /\ UNCHANGED << requested, work, holding >>

\* Fault: the abort states a confirmed cleanup whatever the receipt says.
AbortAssumingCleanup ==
  /\ pc = "abort_cleanup"
  /\ receipt # "none"
  /\ AbortRun(currentCell, TRUE)
  /\ pc' = IF mode' = "catch" THEN "abort_sign" ELSE "dispose"
  /\ UNCHANGED << requested, work, holding >>

Abort ==
  /\ pc = "abort_cleanup"
  /\ receipt # "none"
  /\ AbortRun(currentCell, receipt = "confirmed")
  /\ pc' = IF mode' = "catch" THEN "abort_sign" ELSE "dispose"
  /\ UNCHANGED << requested, work, holding >>

\* Fault: the runner only gives up once the cleanup is confirmed.
FailWithoutLedgerIfClean ==
  /\ pc = "abort_cleanup"
  /\ receipt = "confirmed"
  /\ mode = "ended"
  /\ Goto("dispose")
  /\ UNCHANGED << ledgerVars, requested, work, holding >>

\* ledger === null: there is nothing to abort.
FailWithoutLedger ==
  /\ pc = "abort_cleanup"
  /\ receipt # "none"
  /\ mode = "ended"
  /\ Goto("dispose")
  /\ UNCHANGED << ledgerVars, requested, work, holding >>

\* The abort signer replays the directory before it signs; it may also fail.
AbortSign ==
  /\ pc = "abort_sign"
  /\ \/ /\ ReplaysAborted(EventFiles)
        /\ Goto("abort_persist")
        /\ UNCHANGED ledgerVars
     \/ /\ CallerReturns
        /\ Goto("dispose")
  /\ UNCHANGED << requested, work, holding >>

AbortPersist ==
  /\ pc = "abort_persist"
  /\ PersistAbortManifest
  /\ pc' = IF abortManifestPersisted' THEN "done" ELSE "dispose"
  /\ UNCHANGED << requested, work, holding >>

\* The outer catch of runExecutablePilotWithCancellationV1.
DisposeAll ==
  /\ pc = "dispose"
  /\ DisposeOwners
  /\ Goto("done")
  /\ UNCHANGED << ledgerVars, requested, work, resource, receipt >>

-----------------------------------------------------------------------------
(* The environment *)

\* After the commit a signal is observational only.
SignalArrives ==
  /\ pc \notin {"done", "down"}
  /\ ~requested /\ ~finalManifestPersisted
  /\ requested' = TRUE
  /\ UNCHANGED << ledgerVars, pc, work, holding >>

ProcessDies ==
  /\ pc \notin {"done", "down"}
  /\ mode' = "ended"
  /\ Goto("down")
  /\ UNCHANGED << durable, progress, seals, requested, work, holding >>

\* Fault: a new process resumes the ledger it finds.
ResumeRun ==
  /\ pc = "down" /\ slot
  /\ mode' = "try"
  /\ Goto("prepare")
  /\ UNCHANGED << durable, progress, seals, requested, work, holding >>

\* A new process claims fresh resources for the same plan.
StartAgain ==
  /\ pc \in {"done", "down"}
  /\ Restart
  /\ Goto("validate")
  /\ requested' = FALSE
  /\ currentCell' = NoCell
  /\ answer' = "none"
  /\ resource' = [c \in Cells |-> "pending"]
  /\ owners' = "held"
  /\ receipt' = "none"
  /\ UNCHANGED << settled, http >>

-----------------------------------------------------------------------------
CellStep ==
  \/ PrepareArm
  \/ RecordPreparation
  \/ Reserve
  \/ SendRequest
  \/ ReceiveAnswer
  \/ CompleteAttempt
  \/ ExecuteAgentAction
  \/ RunVerifier
  \/ SettleTreatment
  \/ CloseCellResource
  \/ RecordResult

SealStep ==
  \/ CloseNextResource
  \/ CloseOwners
  \/ RecordCleanup
  \/ ScoreAndRecordVerdict
  \/ Close
  \/ VerifyFinalProvenance
  \/ FinalSign
  \/ OpenManifest
  \/ SyncManifest
  \/ CommitManifest
  \/ WithdrawManifest
  \/ ReturnResult

FailureStep ==
  \/ StepThrows
  \/ CheckpointThrows
  \/ Abort
  \/ FailWithoutLedger
  \/ AbortSign
  \/ AbortPersist
  \/ DisposeAll

RunnerStep ==
  Validate \/ VerifyProvenance \/ Begin \/ CellStep \/ SealStep \/ FailureStep

RunNext == RunnerStep \/ SignalArrives \/ ProcessDies \/ StartAgain

(***************************************************************************)
(* The runner's awaits all return: the scored request has a timeout signal *)
(* and aborts with the cancellation, the agent, verifier and signer        *)
(* children are killed at their deadlines, the rest is file I/O.           *)
(***************************************************************************)
RunSpec == RunInit /\ [][RunNext]_runVars /\ WF_runVars(RunnerStep)

-----------------------------------------------------------------------------
(* Properties *)

\* Type invariant of the runner's own state.
RunTypeOK ==
  /\ LedgerTypeOK
  /\ pc \in Steps
  /\ currentCell \in Cells \cup {NoCell}
  /\ requested \in BOOLEAN
  /\ answer \in {"none", "completed", "inconclusive"}
  /\ settled \subseteq TreatmentCells
  /\ http \in [Cells -> Nat]
  /\ resource \in [Cells -> {"pending", "closed", "failed"}]
  /\ owners \in {"held", "closed", "failed"}
  /\ receipt \in {"none", "confirmed", "incomplete"}

\* A scored request leaves the process only after its attempt is burned on
\* disk, and every burned attempt pays for one request at most, whatever
\* crashed in between (executeScoredRequest against reserveProviderAttempt).
HttpIsBurnedFirst ==
  \A c \in Cells :
    http[c] <= Cardinality({i \in DOMAIN events :
                 events[i] = StepEvent("provider_request_started", c)})

\* Once cancelled, a process sends no further scored request and commits no
\* manifest; an abort event it managed to append rules the claim out even if
\* its uncommitted manifest could not be removed.
CancellationDowngrades ==
  requested =>
    /\ ~finalManifestPersisted
    /\ abortClosure => AuditedOutcome # "claimed"

NoRequestAfterCancellation ==
  [][requested /\ requested' => UNCHANGED http]_runVars

\* No reader is ever offered a claim of a run in which a treatment cell failed
\* before its Runtime ledger was closed, although such a run is scored and
\* closed normally: verifyClosedRun refuses its counts.
ClaimNeedsSettlement ==
  AuditedOutcome \in {"offered", "claimed"} => settled = TreatmentCells

\* What the ledger says of the cleanup is what happened: a recorded cleanup
\* means every adapter and owner closed, an abort states "confirmed" exactly
\* then, although the receipt is memoized and reused, and however the run
\* function ended, nobody is left holding the owners.
CleanupStatementsTrue ==
  /\ cleanupReceipt => AllClosed
  /\ abortClosure => (events[Len(events)].cleanup <=> AllClosed)
  /\ pc = "done" => owners # "held"

\* The catch block never offers the ledger an abort it must refuse: the cell it
\* blames and the memoized receipt agree with what the ledger recorded.  The
\* abort event it appends can be sealed, unless the ledger stopped between the
\* two events of a pair or the cell had not been prepared yet.
AbortsRecorded ==
  /\ pc = "abort_cleanup" /\ receipt # "none" /\ mode = "catch" =>
       AbortAllowed(currentCell, receipt = "confirmed")
  /\ abortClosure =>
       \/ ReplaysAborted(EventFiles)
       \/ attempt = "none" /\ currentCell # NoCell
       \/ \E c \in Cells, j \in {1, 3} : Len(events) - 1 = Position(c, j)

\* recovery_policy "burn_and_seal_inconclusive_without_resume_v1": an abort event
\* that does not follow half a pair of events can be sealed.
BurnedRunIsSealable ==
  abortClosure /\ (\A c \in Cells, j \in {1, 3} : Len(events) - 1 # Position(c, j))
    => ReplaysAborted(EventFiles)

\* The runner uses the ledger only as RunLedger says it does.
UsesLedgerAsSpecified == LedgerSpec

\* How far a cell has come, across all processes: the slot a run has taken ends it
\* for every later one.
StageAtStep ==
  CASE pc \in {"record_prepared", "reserve"} -> "preparing"
    [] pc = "send"     -> "burned"
    [] pc = "await"    -> "sent"
    [] pc = "complete" -> IF answer = "completed" THEN "answered" ELSE "unusable"
    [] pc = "agent"    -> "completed"
    [] pc = "verifier" -> "acting"
    [] pc = "settle"   -> "verifying"
    [] pc \in {"close_resource", "record_result"} -> "closing"
    [] OTHER           -> "waiting"

StageOf(c) ==
  IF mode # "try" THEN (IF slot THEN "over" ELSE "waiting")
  ELSE IF c < activeCell THEN "finished"
  ELSE IF c = activeCell THEN StageAtStep ELSE "waiting"

Protocol == INSTANCE CellProtocol WITH
  stage <- [c \in Cells |-> StageOf(c)],
  requests <- http,
  settles <- [c \in Cells |-> c \in TreatmentCells],
  settled <- [c \in Cells |-> c \in settled],
  cancelled <- requested

\* The run treats each of its cells as CellProtocol says, as CellExecution does from
\* within one: whatever is thrown, signalled or killed, no cell is begun before the
\* earlier ones are finished, sent twice or settled unverified.
ImplementsCellProtocol == Protocol!CellSpec

\* A run that is not killed ends.
RunEnds == pc = "validate" ~> pc \in {"done", "down"}

=============================================================================
