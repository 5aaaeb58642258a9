--------------------------- MODULE PilotRunProofs ---------------------------
(***************************************************************************)
(* Proofs about PilotRun for every number of cells and every choice of the *)
(* treatment cells.                                                        *)
(***************************************************************************)
EXTENDS PilotRun, RunLedgerProofs

-----------------------------------------------------------------------------
(* The runner uses the ledger as RunLedger specifies *)

LEMMA BeforeLedgerSteps ==
  Validate \/ VerifyProvenance \/ Begin => [LedgerNext]_ledgerVars
BY DEF Validate, VerifyProvenance, Begin, LedgerNext

LEMMA CellStepsUseLedger == CellStep => [LedgerNext]_ledgerVars
<1> SUFFICES ASSUME CellStep
             PROVE  [LedgerNext]_ledgerVars
  OBVIOUS
<1>1. CASE PrepareArm \/ CloseCellResource
  BY <1>1 DEF PrepareArm, CloseCellResource, LedgerNext
<1>2. CASE RecordPreparation \/ Reserve \/ CompleteAttempt \/ RecordResult
  BY <1>2 DEF RecordPreparation, Reserve, CompleteAttempt, RecordResult, LedgerNext
<1>3. CASE \/ SendRequest \/ ReceiveAnswer \/ ExecuteAgentAction
           \/ RunVerifier \/ SettleTreatment
  BY <1>3 DEF SendRequest, ReceiveAnswer, ExecuteAgentAction, RunVerifier, SettleTreatment
<1>4. QED
  BY <1>1, <1>2, <1>3 DEF CellStep

LEMMA SealStepsUseLedger == SealStep => [LedgerNext]_ledgerVars
<1> SUFFICES ASSUME SealStep
             PROVE  [LedgerNext]_ledgerVars
  OBVIOUS
<1>1. CASE CloseNextResource \/ CloseOwners \/ VerifyFinalProvenance \/ FinalSign
  BY <1>1 DEF CloseNextResource, CloseOwners, VerifyFinalProvenance, FinalSign, LedgerNext
<1>2. CASE RecordCleanup \/ ScoreAndRecordVerdict \/ Close
  BY <1>2 DEF RecordCleanup, ScoreAndRecordVerdict, Close, LedgerNext
<1>3. CASE OpenManifest \/ SyncManifest \/ CommitManifest \/ WithdrawManifest
  BY <1>3 DEF OpenManifest, SyncManifest, CommitManifest, WithdrawManifest, LedgerNext
<1>4. CASE ReturnResult
  BY <1>4 DEF ReturnResult, LedgerNext
<1>5. QED
  BY <1>1, <1>2, <1>3, <1>4 DEF SealStep

LEMMA FailureStepsUseLedger ==
  currentCell \in Cells \cup {NoCell} /\ FailureStep => [LedgerNext]_ledgerVars
<1> SUFFICES ASSUME currentCell \in Cells \cup {NoCell}, FailureStep
             PROVE  [LedgerNext]_ledgerVars
  OBVIOUS
<1>1. CASE StepThrows \/ CheckpointThrows
  BY <1>1 DEF StepThrows, CheckpointThrows, LedgerNext
<1>2. CASE Abort
  <2>1. (receipt = "confirmed") \in BOOLEAN
    OBVIOUS
  <2>2. AbortRun(currentCell, receipt = "confirmed")
    BY <1>2 DEF Abort
  <2>3. QED
    BY <2>1, <2>2 DEF LedgerNext
<1>3. CASE AbortSign \/ AbortPersist
  BY <1>3 DEF AbortSign, AbortPersist, LedgerNext
<1>4. CASE FailWithoutLedger \/ DisposeAll
  BY <1>4 DEF FailWithoutLedger, DisposeAll
<1>5. QED
  BY <1>1, <1>2, <1>3, <1>4 DEF FailureStep

LEMMA EnvironmentUsesLedger ==
  SignalArrives \/ ProcessDies \/ StartAgain => [LedgerNext]_ledgerVars
<1>1. SignalArrives => UNCHANGED ledgerVars
  BY DEF SignalArrives
<1>2. StartAgain => LedgerNext
  BY DEF StartAgain, LedgerNext
<1>3. ASSUME ProcessDies
      PROVE  Crash \/ UNCHANGED ledgerVars
  BY <1>3 DEF ProcessDies, Crash, ledgerVars
<1>4. QED
  BY <1>1, <1>2, <1>3 DEF LedgerNext

(***************************************************************************)
(* What the runner must know to stay within LedgerNext: it blames an abort *)
(* on a cell of the schedule, because it never starts an iteration past    *)
(* the last cell.  The ledger's typing and its fresh memory carry the      *)
(* first iteration and the later ones.                                     *)
(***************************************************************************)
CellInv ==
  /\ currentCell \in Cells \cup {NoCell}
  /\ pc = "prepare" => nextOrdinal \in Cells

RunInv == TypeInv /\ FreshInv /\ CellInv

LEMMA RunStepUsesLedger == CellInv /\ [RunNext]_runVars => [LedgerNext]_ledgerVars
<1> SUFFICES ASSUME CellInv, [RunNext]_runVars
             PROVE  [LedgerNext]_ledgerVars
  OBVIOUS
<1>1. CASE RunnerStep
  BY <1>1, BeforeLedgerSteps, CellStepsUseLedger, SealStepsUseLedger,
     FailureStepsUseLedger
  DEF RunnerStep, CellInv
<1>2. CASE SignalArrives \/ ProcessDies \/ StartAgain
  BY <1>2, EnvironmentUsesLedger
<1>3. CASE UNCHANGED runVars
  BY <1>3 DEF runVars
<1>4. QED
  BY <1>1, <1>2, <1>3 DEF RunNext

LEMMA CellInvStep ==
  TypeInv /\ FreshInv /\ CellInv /\ [RunNext]_runVars => CellInv'
<1> SUFFICES ASSUME TypeInv, FreshInv, CellInv, [RunNext]_runVars
             PROVE  CellInv'
  OBVIOUS
<1> USE DEF CellInv
<1>1. CASE Validate \/ VerifyProvenance
  BY <1>1 DEF Validate, VerifyProvenance, At, Goto, work
<1>2. CASE Begin
  <2>1. pc' = "prepare" => nextOrdinal' = 1
    BY <1>2 DEF Begin, BeginPilotRunLedger, RefuseBegin, FreshInv, progress
  <2>2. 1 \in Cells
    BY CellCountAssumption DEF Cells
  <2>3. QED
    BY <1>2, <2>1, <2>2 DEF Begin, work
<1>3. CASE CellStep
  <2>1. CASE PrepareArm
    BY <2>1 DEF PrepareArm, At, Goto, activeCell
  <2>2. CASE RecordResult
    <3>1. nextOrdinal \in Cells
      BY <2>2 DEF RecordResult, RecordCellResult, TypeInv
    <3>2. ASSUME pc' = "prepare"
          PROVE  nextOrdinal' \in Cells
      <4>1. nextOrdinal # CellCount /\ mode' # "catch"
        BY <2>2, <3>2 DEF RecordResult, Proceed, activeCell
      <4>2. nextOrdinal' = nextOrdinal + 1
        BY <2>2, <4>1 DEF RecordResult, RecordCellResult, Throw
      <4>3. QED
        BY <3>1, <4>1, <4>2, CellCountAssumption DEF Cells
    <3>3. QED
      BY <2>2, <3>2 DEF RecordResult
  <2>3. CASE RecordPreparation \/ Reserve \/ CompleteAttempt
    BY <2>3 DEF RecordPreparation, Reserve, CompleteAttempt, Proceed, work
  <2>4. CASE SendRequest \/ ReceiveAnswer \/ SettleTreatment \/ CloseCellResource
    BY <2>4 DEF SendRequest, ReceiveAnswer, SettleTreatment, CloseCellResource, Goto, work
  <2>5. CASE ExecuteAgentAction \/ RunVerifier
    BY <2>5 DEF ExecuteAgentAction, RunVerifier, work
  <2>6. QED
    BY <1>3, <2>1, <2>2, <2>3, <2>4, <2>5 DEF CellStep
<1>4. CASE SealStep
  <2>1. CASE CloseNextResource \/ CloseOwners
    BY <2>1 DEF CloseNextResource, CloseOwners, Goto, Completing, At, work, ledgerVars,
                progress
  <2>2. CASE RecordCleanup \/ ScoreAndRecordVerdict \/ Close
    BY <2>2 DEF RecordCleanup, ScoreAndRecordVerdict, Close, Proceed, work
  <2>3. CASE \/ VerifyFinalProvenance \/ FinalSign \/ OpenManifest \/ SyncManifest
             \/ CommitManifest \/ WithdrawManifest \/ ReturnResult
    BY <2>3 DEF VerifyFinalProvenance, FinalSign, OpenManifest, SyncManifest,
                CommitManifest, WithdrawManifest, ReturnResult, Goto, work
  <2>4. QED
    BY <1>4, <2>1, <2>2, <2>3 DEF SealStep
<1>5. CASE FailureStep
  BY <1>5 DEF FailureStep, StepThrows, CheckpointThrows, Abort, FailWithoutLedger,
              AbortSign, AbortPersist, DisposeAll, Goto, work
<1>6. CASE SignalArrives \/ ProcessDies \/ UNCHANGED runVars
  BY <1>6 DEF SignalArrives, ProcessDies, Goto, work, runVars, ledgerVars, progress
<1>7. CASE StartAgain
  BY <1>7 DEF StartAgain, Goto
<1>8. QED
  BY <1>1, <1>2, <1>3, <1>4, <1>5, <1>6, <1>7 DEF RunNext, RunnerStep

LEMMA RunInvHolds == RunSpec => []RunInv
<1>1. RunInit => RunInv
  BY InitTyped DEF RunInit, RunInv, CellInv, FreshInv, LedgerInit
<1>2. RunInv /\ [RunNext]_runVars => RunInv'
  <2>1. ASSUME RunInv, [RunNext]_runVars
        PROVE  RunInv'
    <3>1. [LedgerNext]_ledgerVars
      BY <2>1, RunStepUsesLedger DEF RunInv
    <3>2. TypeInv' /\ FreshInv'
      BY <2>1, <3>1, TypeStep, FreshStep DEF RunInv
    <3>3. QED
      BY <2>1, <3>2, CellInvStep DEF RunInv
  <2>2. QED
    BY <2>1
<1>3. QED
  BY <1>1, <1>2, PTL DEF RunSpec

\* Every step of the runner is a step of the ledger's specification or leaves
\* the ledger alone, so what is proved of the ledger alone holds of the run.
THEOREM RunUsesLedger == RunSpec => UsesLedgerAsSpecified
<1>1. RunInit => LedgerInit
  BY DEF RunInit
<1>2. RunInv /\ [RunNext]_runVars => [LedgerNext]_ledgerVars
  BY RunStepUsesLedger DEF RunInv
<1>3. QED
  BY <1>1, <1>2, RunInvHolds, PTL DEF RunSpec, LedgerSpec, UsesLedgerAsSpecified

\* In a whole run, signals and deaths included, neither manifest contradicts its
\* log or the other one, no cell's provider attempt is reserved twice, a closed run
\* replays, and a sealable abort states the attempts that were burned.
THEOREM RunKeepsLedgerPromises ==
  RunSpec => [](/\ ManifestsStand /\ OneReservationPerCell
                /\ ClosedRunReplays /\ AbortStatesBurnedAttempts)
<1>1. RunSpec => LedgerSpec
  BY RunUsesLedger DEF UsesLedgerAsSpecified
<1>2. QED
  BY <1>1, ManifestsAlwaysStand, AttemptsReservedOnce, ClosedRunsReplay,
     AbortsStateBurnedAttempts, PTL

\* The chain of both refinements: to its readers a whole run, with all its failures,
\* signals, deaths and restarts, is PilotOutcome, and no process resumes it.
THEOREM RunImplementsOutcome == RunSpec => ImplementsPilotOutcome /\ NoResume
<1>1. RunSpec => LedgerSpec
  BY RunUsesLedger DEF UsesLedgerAsSpecified
<1>2. QED
  BY <1>1, LedgerImplementsOutcome, RunsAreNotResumed, PTL

\* A process that has seen its cancellation signal sends no scored request.
THEOREM CancelledRunsSendNothing == RunSpec => NoRequestAfterCancellation
<1>1. ASSUME [RunNext]_runVars
      PROVE  [requested /\ requested' => UNCHANGED http]_runVars
  <2> SUFFICES ASSUME RunNext, requested, requested'
               PROVE  UNCHANGED http
    BY <1>1
  <2>1. CASE Validate \/ VerifyProvenance \/ Begin
    BY <2>1 DEF Validate, VerifyProvenance, Begin, work
  <2>2. CASE CellStep
    BY <2>2 DEF CellStep, PrepareArm, RecordPreparation, Reserve, SendRequest, At,
       Checkpointed, ReceiveAnswer, CompleteAttempt, ExecuteAgentAction, RunVerifier,
       SettleTreatment, CloseCellResource, RecordResult, work
  <2>3. CASE SealStep
    BY <2>3 DEF SealStep, CloseNextResource, CloseOwners, RecordCleanup,
       ScoreAndRecordVerdict, Close, VerifyFinalProvenance, FinalSign, OpenManifest,
       SyncManifest, CommitManifest, WithdrawManifest, ReturnResult, work
  <2>4. CASE FailureStep
    BY <2>4 DEF FailureStep, StepThrows, CheckpointThrows, Abort, FailWithoutLedger,
       AbortSign, AbortPersist, DisposeAll, work
  <2>5. CASE SignalArrives \/ ProcessDies \/ StartAgain
    BY <2>5 DEF SignalArrives, ProcessDies, StartAgain, work
  <2>6. QED
    BY <2>1, <2>2, <2>3, <2>4, <2>5 DEF RunNext, RunnerStep
<1>2. QED
  BY <1>1, PTL DEF RunSpec, NoRequestAfterCancellation

(***************************************************************************)
(* The runner's own state.  A cell is settled only in the iteration of a   *)
(* treatment cell, which is why settled stays within them.                 *)
(***************************************************************************)
TypedInv == RunTypeOK /\ (pc = "settle" => nextOrdinal \in TreatmentCells)

LEMMA TypedStep ==
  ASSUME TypedInv, CellInv, LedgerTypeOK', CellInv', [RunNext]_runVars
  PROVE  TypedInv'
<1> USE DEF TypedInv, RunTypeOK, CellInv
<1> HIDE DEF LedgerTypeOK
<1>1. CASE Validate \/ VerifyProvenance \/ Begin
  BY <1>1 DEF Validate, VerifyProvenance, Begin, Goto, work, holding, Steps, CellSteps
<1>2. CASE CellStep
  <2>1. CASE PrepareArm \/ RecordPreparation \/ Reserve \/ SendRequest \/ ReceiveAnswer
             \/ CompleteAttempt
    BY <2>1 DEF PrepareArm, RecordPreparation, Reserve, SendRequest, ReceiveAnswer,
       CompleteAttempt, Goto, Proceed, work, holding, Steps, CellSteps
  <2>2. CASE ExecuteAgentAction
    BY <2>2 DEF ExecuteAgentAction, work, holding, Steps, CellSteps
  <2>3. CASE RunVerifier
    BY <2>3 DEF RunVerifier, work, holding, Steps, CellSteps, ledgerVars, progress, activeCell
  <2>4. CASE SettleTreatment
    BY <2>4 DEF SettleTreatment, At, Goto, holding, Steps, CellSteps, activeCell
  <2>5. CASE CloseCellResource \/ RecordResult
    BY <2>5 DEF CloseCellResource, RecordResult, Goto, Proceed, work, holding, Steps,
       CellSteps, SealSteps
  <2>6. QED
    BY <1>2, <2>1, <2>2, <2>3, <2>4, <2>5 DEF CellStep
<1>3. CASE SealStep
  <2>1. CASE CloseNextResource \/ CloseOwners
    BY <2>1 DEF CloseNextResource, CloseOwners, DisposeOwners, Completing, At, Goto, work,
       Steps, SealSteps, CellSteps
  <2>2. CASE RecordCleanup \/ ScoreAndRecordVerdict \/ Close
    BY <2>2 DEF RecordCleanup, ScoreAndRecordVerdict, Close, Proceed, work, holding,
       Steps, SealSteps
  <2>3. CASE \/ VerifyFinalProvenance \/ FinalSign \/ OpenManifest \/ SyncManifest
             \/ CommitManifest \/ WithdrawManifest \/ ReturnResult
    BY <2>3 DEF VerifyFinalProvenance, FinalSign, OpenManifest, SyncManifest,
       CommitManifest, WithdrawManifest, ReturnResult, Goto, work, holding, Steps, SealSteps
  <2>4. QED
    BY <1>3, <2>1, <2>2, <2>3 DEF SealStep
<1>4. CASE FailureStep
  BY <1>4 DEF FailureStep, StepThrows, CheckpointThrows, Abort, FailWithoutLedger,
     AbortSign, AbortPersist, DisposeAll, DisposeOwners, Goto, work, holding, Steps
<1>5. CASE SignalArrives \/ ProcessDies
  BY <1>5 DEF SignalArrives, ProcessDies, Goto, work, holding, Steps, ledgerVars, progress
<1>6. CASE StartAgain
  BY <1>6 DEF StartAgain, Goto, Steps
<1>7. CASE UNCHANGED runVars
  BY <1>7 DEF runVars, work, holding, ledgerVars, progress
<1>8. QED
  BY <1>1, <1>2, <1>3, <1>4, <1>5, <1>6, <1>7 DEF RunNext, RunnerStep

(***************************************************************************)
(* The final signer counts the settled treatment cells before the final    *)
(* manifest can exist.                                                     *)
(***************************************************************************)
SettledInv ==
  pc = "open_manifest" \/ finalFile # "absent" => settled = TreatmentCells

LEMMA SettledStep ==
  ASSUME TypedInv, TypedInv', SlotInv, SettledInv, [RunNext]_runVars
  PROVE  SettledInv'
<1> USE DEF SettledInv
<1>1. settled = TreatmentCells => settled' = TreatmentCells
  <2>1. settled \subseteq settled'
    BY DEF RunNext, RunnerStep, Validate, VerifyProvenance, Begin, CellStep, PrepareArm,
       RecordPreparation, Reserve, SendRequest, ReceiveAnswer, CompleteAttempt,
       ExecuteAgentAction, RunVerifier, SettleTreatment, CloseCellResource, RecordResult,
       SealStep, CloseNextResource, CloseOwners, RecordCleanup, ScoreAndRecordVerdict,
       Close, VerifyFinalProvenance, FinalSign, OpenManifest, SyncManifest,
       CommitManifest, WithdrawManifest, ReturnResult, FailureStep, StepThrows,
       CheckpointThrows, Abort, FailWithoutLedger, AbortSign, AbortPersist, DisposeAll,
       SignalArrives, ProcessDies, StartAgain, work, runVars
  <2>2. QED
    BY <2>1 DEF TypedInv, RunTypeOK
<1>2. finalFile' # "absent" => pc = "open_manifest" \/ finalFile # "absent"
  <2>1. CASE Validate \/ VerifyProvenance \/ Begin
    BY <2>1 DEF Validate, VerifyProvenance, Begin, BeginPilotRunLedger, RefuseBegin,
       ledgerVars, durable
  <2>2. CASE CellStep
    BY <2>2 DEF CellStep, PrepareArm, RecordPreparation, Reserve, SendRequest,
       ReceiveAnswer, CompleteAttempt, ExecuteAgentAction, RunVerifier, SettleTreatment,
       CloseCellResource, RecordResult, RecordCellPreparation, ReserveProviderAttempt,
       CompleteProviderAttempt, RecordCellResult, CallerThrows, ledgerVars, durable
  <2>3. CASE SealStep
    BY <2>3 DEF SealStep, CloseNextResource, CloseOwners, RecordCleanup,
       ScoreAndRecordVerdict, Close, VerifyFinalProvenance, FinalSign, OpenManifest,
       SyncManifest, CommitManifest, WithdrawManifest, ReturnResult,
       RecordResourceCleanup, RecordVerdict, CloseRun, At, OpenFinalManifest,
       SyncFinalManifest, CommitFinalManifest, WithdrawFinalManifest, CallerThrows,
       CallerReturns, ledgerVars, durable
  <2>4. CASE FailureStep
    BY <2>4 DEF FailureStep, StepThrows, CheckpointThrows, Abort, FailWithoutLedger,
       AbortSign, AbortPersist, DisposeAll, AbortRun, PersistAbortManifest, CallerThrows,
       CallerReturns, ledgerVars, durable
  <2>5. CASE SignalArrives \/ ProcessDies \/ StartAgain \/ UNCHANGED runVars
    BY <2>5 DEF SignalArrives, ProcessDies, StartAgain, Restart, runVars, ledgerVars, durable
  <2>6. QED
    BY <2>1, <2>2, <2>3, <2>4, <2>5 DEF RunNext, RunnerStep
<1>3. pc' = "open_manifest" => pc = "open_manifest" \/ settled = TreatmentCells
  BY DEF RunNext, RunnerStep, Validate, VerifyProvenance, Begin, CellStep, PrepareArm,
     RecordPreparation, Reserve, SendRequest, ReceiveAnswer, CompleteAttempt,
     ExecuteAgentAction, RunVerifier, SettleTreatment, CloseCellResource, RecordResult,
     SealStep, CloseNextResource, CloseOwners, RecordCleanup, ScoreAndRecordVerdict,
     Close, VerifyFinalProvenance, FinalSign, OpenManifest, SyncManifest,
     CommitManifest, WithdrawManifest, ReturnResult, FailureStep, StepThrows,
     CheckpointThrows, Abort, FailWithoutLedger, AbortSign, AbortPersist, DisposeAll,
     SignalArrives, ProcessDies, StartAgain, Goto, Proceed, ClosureCounted, runVars
<1>4. QED
  BY <1>1, <1>2, <1>3

(***************************************************************************)
(* A signal and the commit exclude each other, whichever comes first.      *)
(***************************************************************************)
CancelInv == requested => ~finalManifestPersisted

LEMMA CancelStep ==
  ASSUME CancelInv, [RunNext]_runVars
  PROVE  CancelInv'
<1> USE DEF CancelInv
<1>1. CASE Validate \/ VerifyProvenance \/ Begin
  BY <1>1 DEF Validate, VerifyProvenance, Begin, BeginPilotRunLedger, RefuseBegin,
     ledgerVars, seals
<1>2. CASE CellStep
  BY <1>2 DEF CellStep, PrepareArm, RecordPreparation, Reserve, SendRequest,
     ReceiveAnswer, CompleteAttempt, ExecuteAgentAction, RunVerifier, SettleTreatment,
     CloseCellResource, RecordResult, RecordCellPreparation, ReserveProviderAttempt,
     CompleteProviderAttempt, RecordCellResult, CallerThrows, ledgerVars, seals
<1>3. CASE SealStep
  BY <1>3 DEF SealStep, CloseNextResource, CloseOwners, RecordCleanup,
     ScoreAndRecordVerdict, Close, VerifyFinalProvenance, FinalSign, OpenManifest,
     SyncManifest, CommitManifest, WithdrawManifest, ReturnResult,
     RecordResourceCleanup, RecordVerdict, CloseRun, OpenFinalManifest,
     SyncFinalManifest, CommitFinalManifest, WithdrawFinalManifest, CallerThrows,
     CallerReturns, ledgerVars, seals
<1>4. CASE FailureStep
  BY <1>4 DEF FailureStep, StepThrows, CheckpointThrows, Abort, FailWithoutLedger,
     AbortSign, AbortPersist, DisposeAll, AbortRun, PersistAbortManifest, CallerThrows,
     CallerReturns, ledgerVars, seals
<1>5. CASE SignalArrives \/ ProcessDies \/ StartAgain \/ UNCHANGED runVars
  BY <1>5 DEF SignalArrives, ProcessDies, StartAgain, Restart, runVars, ledgerVars, seals
<1>6. QED
  BY <1>1, <1>2, <1>3, <1>4, <1>5 DEF RunNext, RunnerStep

(***************************************************************************)
(* The memoized receipt says what became of the adapters and owners, from  *)
(* the cleanup that computes it to the end of the process.                 *)
(***************************************************************************)
ReceiptInv ==
  /\ receipt = "confirmed" => AllClosed
  /\ receipt = "incomplete" => owners # "held" /\ ~AllClosed
  /\ pc \in CellSteps \cup {"validate", "provenance", "begin"} => receipt = "none"
  /\ pc \in SealSteps \ {"cleanup"} => receipt = "confirmed"
  /\ pc \in {"abort_sign", "abort_persist"} => receipt # "none"
  /\ cleanupReceipt => receipt = "confirmed"
  /\ pc = "done" => owners # "held"

\* Steps outside the cleanup that leave adapters, owners and receipt alone.
LEMMA ReceiptFrame ==
  ASSUME ReceiptInv, UNCHANGED holding, cleanupReceipt' => cleanupReceipt,
         pc' \in CellSteps \cup {"validate", "provenance", "begin"} => receipt = "none",
         pc' \in SealSteps \ {"cleanup"} => receipt = "confirmed",
         pc' \in {"abort_sign", "abort_persist"} => receipt # "none",
         pc' = "done" => owners # "held"
  PROVE  ReceiptInv'
BY DEF ReceiptInv, AllClosed, holding

LEMMA ReceiptStep ==
  ASSUME TypedInv, ReceiptInv, [RunNext]_runVars
  PROVE  ReceiptInv'
<1>1. CASE Validate \/ VerifyProvenance \/ Begin
  <2>1. receipt = "none" /\ (cleanupReceipt' => cleanupReceipt)
    BY <1>1 DEF Validate, VerifyProvenance, Begin, At, ReceiptInv, BeginPilotRunLedger,
       RefuseBegin, ledgerVars, progress
  <2>2. UNCHANGED holding /\ pc' \in {"provenance", "begin", "prepare", "dispose", "abort_cleanup"}
    BY <1>1 DEF Validate, VerifyProvenance, Begin, Goto
  <2>3. QED
    BY <2>1, <2>2, ReceiptFrame DEF CellSteps, SealSteps
<1>2. CASE CellStep
  <2>0. receipt = "none" /\ ~cleanupReceipt
    BY <1>2 DEF CellStep, PrepareArm, RecordPreparation, Reserve, SendRequest,
     ReceiveAnswer, CompleteAttempt, ExecuteAgentAction, RunVerifier, SettleTreatment,
     CloseCellResource, RecordResult, At, ReceiptInv, CellSteps
  <2>1. pc' \in CellSteps \cup {"cleanup", "abort_cleanup"}
    BY <1>2 DEF CellStep, PrepareArm, RecordPreparation, Reserve, SendRequest,
     ReceiveAnswer, CompleteAttempt, ExecuteAgentAction, RunVerifier, SettleTreatment,
     CloseCellResource, RecordResult, Goto, Proceed, CellSteps
  <2>2. UNCHANGED << cleanupReceipt, receipt >>
    BY <1>2 DEF CellStep, PrepareArm, RecordPreparation, Reserve, SendRequest,
     ReceiveAnswer, CompleteAttempt, ExecuteAgentAction, RunVerifier, SettleTreatment,
     CloseCellResource, RecordResult, RecordCellPreparation, ReserveProviderAttempt,
     CompleteProviderAttempt, RecordCellResult, CallerThrows, ledgerVars, progress, holding
  <2>3. QED
    BY <2>0, <2>1, <2>2 DEF ReceiptInv, CellSteps, SealSteps
<1>3. CASE CloseNextResource
  BY <1>3 DEF CloseNextResource, ReceiptInv, ledgerVars, progress
<1>4. CASE CloseOwners
  <2>1. receipt = "none" /\ UNCHANGED << resource, cleanupReceipt >>
    BY <1>4 DEF CloseOwners, CallerThrows, ledgerVars, progress
  <2>2. ~cleanupReceipt'
    BY <2>1 DEF ReceiptInv
  <2>3. owners' # "held"
    BY <1>4 DEF CloseOwners, DisposeOwners, TypedInv, RunTypeOK
  <2>4. receipt' = IF AllClosed' THEN "confirmed" ELSE "incomplete"
    BY <1>4, <2>1 DEF CloseOwners, AllClosed
  <2>5. \/ pc' = "abort_cleanup"
        \/ pc' = "record_cleanup" /\ receipt' = "confirmed"
    BY <1>4 DEF CloseOwners, Completing, At, Goto
  <2>6. QED
    BY <2>2, <2>3, <2>4, <2>5 DEF ReceiptInv, CellSteps, SealSteps
<1>5. CASE RecordCleanup
  <2>1. receipt = "confirmed" /\ UNCHANGED holding /\ pc' \in {"verdict", "abort_cleanup"}
    BY <1>5 DEF RecordCleanup, Proceed
  <2>2. QED
    BY <2>1 DEF ReceiptInv, AllClosed, holding, CellSteps, SealSteps
<1>6. CASE \/ ScoreAndRecordVerdict \/ Close \/ VerifyFinalProvenance \/ FinalSign
           \/ OpenManifest \/ SyncManifest \/ CommitManifest \/ WithdrawManifest
           \/ ReturnResult
  <2>1. UNCHANGED << holding, cleanupReceipt >>
    BY <1>6 DEF ScoreAndRecordVerdict, Close, VerifyFinalProvenance, FinalSign,
       OpenManifest, SyncManifest, CommitManifest, WithdrawManifest, ReturnResult,
       RecordVerdict, CloseRun, OpenFinalManifest, SyncFinalManifest, CommitFinalManifest,
       WithdrawFinalManifest, CallerReturns, ledgerVars, progress
  <2>2. /\ pc \in SealSteps \ {"cleanup"}
        /\ pc' \in (SealSteps \ {"cleanup"}) \cup {"abort_cleanup", "done"}
    BY <1>6 DEF ScoreAndRecordVerdict, Close, VerifyFinalProvenance, FinalSign,
       OpenManifest, SyncManifest, CommitManifest, WithdrawManifest, ReturnResult,
       At, Goto, Proceed, SealSteps
  <2>3. receipt = "confirmed" /\ owners # "held"
    BY <2>2 DEF ReceiptInv, AllClosed
  <2>4. QED
    BY <2>1, <2>2, <2>3, ReceiptFrame DEF CellSteps, SealSteps
<1>7. CASE StepThrows \/ CheckpointThrows
  <2>1. UNCHANGED << holding, cleanupReceipt >> /\ pc' = "abort_cleanup"
    BY <1>7 DEF StepThrows, CheckpointThrows, CallerThrows, Goto, progress
  <2>2. QED
    BY <2>1, ReceiptFrame DEF CellSteps, SealSteps
<1>8. CASE Abort \/ FailWithoutLedger
  <2>1. UNCHANGED << holding, cleanupReceipt >> /\ receipt # "none"
    BY <1>8 DEF Abort, FailWithoutLedger, AbortRun, ledgerVars, progress
  <2>2. pc' \in {"abort_sign", "dispose"}
    BY <1>8 DEF Abort, FailWithoutLedger, Goto
  <2>3. QED
    BY <2>1, <2>2, ReceiptFrame DEF CellSteps, SealSteps
<1>9. CASE AbortSign \/ AbortPersist
  <2>1. UNCHANGED << holding, cleanupReceipt >>
    BY <1>9 DEF AbortSign, AbortPersist, CallerReturns, PersistAbortManifest, ledgerVars,
       progress
  <2>2. receipt # "none" /\ pc' \in {"abort_persist", "dispose", "done"}
    BY <1>9 DEF AbortSign, AbortPersist, Goto, ReceiptInv
  <2>3. owners # "held"
    BY <2>2 DEF ReceiptInv, AllClosed, TypedInv, RunTypeOK
  <2>4. QED
    BY <2>1, <2>2, <2>3, ReceiptFrame DEF CellSteps, SealSteps
<1>10. CASE DisposeAll
  <2>1. UNCHANGED << resource, receipt, cleanupReceipt >> /\ pc' = "done"
    BY <1>10 DEF DisposeAll, Goto, ledgerVars, progress
  <2>2. owners' # "held" /\ (owners # "held" => UNCHANGED owners)
    BY <1>10 DEF DisposeAll, DisposeOwners
  <2>3. receipt # "none" => UNCHANGED owners
    BY <2>2 DEF ReceiptInv, AllClosed, TypedInv, RunTypeOK
  <2>4. QED
    BY <2>1, <2>2, <2>3 DEF ReceiptInv, AllClosed, CellSteps, SealSteps
<1>11. CASE SignalArrives \/ UNCHANGED runVars
  BY <1>11 DEF SignalArrives, ReceiptInv, AllClosed, holding, runVars, ledgerVars, progress
<1>12. CASE ProcessDies
  BY <1>12, ReceiptFrame DEF ProcessDies, Goto, progress, CellSteps, SealSteps
<1>13. CASE StartAgain
  BY <1>13 DEF StartAgain, Restart, Goto, ReceiptInv, CellSteps, SealSteps
<1>14. QED
  BY <1>1, <1>2, <1>3, <1>4, <1>5, <1>6, <1>7, <1>8, <1>9, <1>10, <1>11, <1>12, <1>13
  DEF RunNext, RunnerStep, SealStep, FailureStep

(***************************************************************************)
(* A recorded abort is the last event, repeats the receipt, and leaves the *)
(* runner with nothing to do but seal it.                                  *)
(***************************************************************************)
Winding == {"abort_sign", "abort_persist", "dispose", "done", "down"}

ClosureInv ==
  abortClosure =>
    /\ stray = NoFile /\ Len(events) >= 1
    /\ events[Len(events)].kind = "run_aborted"
    /\ events[Len(events)].cleanup <=> receipt = "confirmed"
    /\ receipt # "none"
    /\ pc \in Winding

LEMMA OnlyAbortCloses ==
  ASSUME ~abortClosure, abortClosure', [RunNext]_runVars
  PROVE  Abort
<1>1. ~(Validate \/ VerifyProvenance \/ Begin)
  BY DEF Validate, VerifyProvenance, Begin, BeginPilotRunLedger, RefuseBegin,
     ledgerVars, seals
<1>2. ~CellStep
  BY DEF CellStep, PrepareArm, RecordPreparation, Reserve, SendRequest,
     ReceiveAnswer, CompleteAttempt, ExecuteAgentAction, RunVerifier, SettleTreatment,
     CloseCellResource, RecordResult, RecordCellPreparation, ReserveProviderAttempt,
     CompleteProviderAttempt, RecordCellResult, CallerThrows, ledgerVars, seals
<1>3. ~SealStep
  BY DEF SealStep, CloseNextResource, CloseOwners, RecordCleanup,
     ScoreAndRecordVerdict, Close, VerifyFinalProvenance, FinalSign, OpenManifest,
     SyncManifest, CommitManifest, WithdrawManifest, ReturnResult,
     RecordResourceCleanup, RecordVerdict, CloseRun, OpenFinalManifest,
     SyncFinalManifest, CommitFinalManifest, WithdrawFinalManifest, CallerThrows,
     CallerReturns, ledgerVars, seals
<1>4. FailureStep => Abort
  BY DEF FailureStep, StepThrows, CheckpointThrows, FailWithoutLedger,
     AbortSign, AbortPersist, DisposeAll, PersistAbortManifest, CallerThrows,
     CallerReturns, ledgerVars, seals
<1>5. ~(SignalArrives \/ ProcessDies \/ StartAgain \/ UNCHANGED runVars)
  BY DEF SignalArrives, ProcessDies, StartAgain, Restart, runVars, ledgerVars, seals
<1>6. QED
  BY <1>1, <1>2, <1>3, <1>4, <1>5 DEF RunNext, RunnerStep

\* While an abort stands recorded, only its sealing and the environment move.
LEMMA WindingSteps ==
  ASSUME pc \in Winding, [RunNext]_runVars
  PROVE  \/ AbortSign \/ AbortPersist \/ DisposeAll
         \/ SignalArrives \/ ProcessDies \/ StartAgain \/ UNCHANGED runVars
<1>1. ~(Validate \/ VerifyProvenance \/ Begin \/ CellStep)
  BY DEF Winding, Validate, VerifyProvenance, Begin, CellStep, PrepareArm, RecordPreparation,
     Reserve, SendRequest, ReceiveAnswer, CompleteAttempt, ExecuteAgentAction,
     RunVerifier, SettleTreatment, CloseCellResource, RecordResult, At
<1>2. ~SealStep
  BY DEF Winding, SealStep, CloseNextResource, CloseOwners, Completing, RecordCleanup,
     ScoreAndRecordVerdict, Close, VerifyFinalProvenance, FinalSign, OpenManifest,
     SyncManifest, CommitManifest, WithdrawManifest, ReturnResult, At
<1>3. ~(StepThrows \/ CheckpointThrows \/ Abort \/ FailWithoutLedger)
  BY DEF Winding, StepThrows, CheckpointThrows, Abort, FailWithoutLedger, Throwing,
     Checkpointed
<1>4. QED
  BY <1>1, <1>2, <1>3 DEF RunNext, RunnerStep, FailureStep

LEMMA ClosureStep ==
  ASSUME LedgerTypeOK, ClosureInv, [RunNext]_runVars
  PROVE  ClosureInv'
<1>1. CASE ~abortClosure'
  BY <1>1 DEF ClosureInv
<1>2. CASE abortClosure /\ abortClosure'
  <2>1. pc \in Winding
    BY <1>2 DEF ClosureInv
  <2>2. ~StartAgain
    BY <1>2 DEF StartAgain, Restart
  <2>3. UNCHANGED << events, stray, receipt >> /\ pc' \in Winding
    BY <2>1, <2>2, WindingSteps DEF AbortSign, AbortPersist, DisposeAll, SignalArrives,
       ProcessDies, CallerReturns, PersistAbortManifest, Goto, Winding, holding, runVars,
       ledgerVars, durable
  <2>4. QED
    BY <1>2, <2>3 DEF ClosureInv
<1>3. CASE ~abortClosure /\ abortClosure'
  <2>1. Abort
    BY <1>3, OnlyAbortCloses
  <2>2. PICK e : /\ e = AbortEvent(currentCell, nextOrdinal - 1, StatedAttempt,
                                   receipt = "confirmed")
                 /\ AppendEvent(e)
    BY <1>3, <2>1 DEF Abort, AbortRun
  <2>3. e.kind = "run_aborted" /\ e.cleanup = (receipt = "confirmed")
    BY <2>2 DEF AbortEvent
  <2>4. events' = Append(events, e) /\ stray' = NoFile
    BY <2>2 DEF AppendEvent
  <2>5. Len(events') = Len(events) + 1 /\ events'[Len(events) + 1] = e
    BY <2>4 DEF LedgerTypeOK
  <2>6. Len(events) \in Nat
    BY DEF LedgerTypeOK
  <2>7. UNCHANGED receipt /\ receipt # "none" /\ pc' \in Winding
    BY <2>1 DEF Abort, holding, Winding
  <2>8. events'[Len(events')] = e
    BY <2>5
  <2>9. events'[Len(events')].cleanup <=> receipt' = "confirmed"
    BY <2>3, <2>7, <2>8, Zenon
  <2>10. Len(events') >= 1
    BY <2>5, <2>6
  <2>11. QED
    BY <2>3, <2>4, <2>7, <2>8, <2>9, <2>10, Zenon DEF ClosureInv
<1>4. QED
  BY <1>1, <1>2, <1>3

-----------------------------------------------------------------------------
(* Burned before sent *)

\* An acknowledged event file is never rewritten.
LEMMA EventsGrow ==
  ASSUME TypeInv, [LedgerNext]_ledgerVars, NEW i \in DOMAIN events
  PROVE  i \in DOMAIN events' /\ events'[i] = events[i]
<1> USE DEF TypeInv
<1>0. events \in Seq(Events)
  BY DEF LedgerTypeOK
<1>1. ASSUME NEW e, AppendEvent(e) \/ FailAppend(e)
      PROVE  i \in DOMAIN events' /\ events'[i] = events[i]
  BY <1>0, <1>1 DEF AppendEvent, FailAppend
<1>2. ASSUME NEW e, NEW f, \/ events' = events \o << e, f >>
                           \/ FailSecondAppend(e, f)
      PROVE  i \in DOMAIN events' /\ events'[i] = events[i]
  BY <1>0, <1>2 DEF FailSecondAppend
<1>3. CASE BeginPilotRunLedger
  BY <1>1, <1>3 DEF BeginPilotRunLedger
<1>4. CASE RecordCellPreparation
  BY <1>1, <1>2, <1>4 DEF RecordCellPreparation
<1>5. CASE ReserveProviderAttempt
  BY <1>1, <1>2, <1>5 DEF ReserveProviderAttempt
<1>6. CASE CompleteProviderAttempt \/ RecordCellResult
  BY <1>1, <1>6 DEF CompleteProviderAttempt, RecordCellResult
<1>7. CASE RecordResourceCleanup \/ RecordVerdict \/ CloseRun
  BY <1>1, <1>7 DEF RecordResourceCleanup, RecordVerdict, CloseRun
<1>8. ASSUME NEW c \in Cells \cup {NoCell}, NEW confirmed \in BOOLEAN,
             AbortRun(c, confirmed)
      PROVE  i \in DOMAIN events' /\ events'[i] = events[i]
  <2>1. CASE UNCHANGED << events, stray >>
    BY <2>1
  <2>2. QED
    BY <1>1, <1>8, <2>1 DEF AbortRun
<1>9. CASE \/ OpenFinalManifest \/ SyncFinalManifest \/ CommitFinalManifest
           \/ WithdrawFinalManifest \/ PersistAbortManifest
  BY <1>9 DEF OpenFinalManifest, SyncFinalManifest, CommitFinalManifest,
     WithdrawFinalManifest, PersistAbortManifest, durable
<1>10. CASE RefuseBegin \/ CallerThrows \/ CallerReturns \/ Crash \/ Restart
            \/ UNCHANGED ledgerVars
  BY <1>10 DEF RefuseBegin, CallerThrows, CallerReturns, Crash, Restart, ledgerVars, durable
<1>11. QED
  BY <1>3, <1>4, <1>5, <1>6, <1>7, <1>8, <1>9, <1>10 DEF LedgerNext

(***************************************************************************)
(* A cell is sent one request, in the iteration that has reserved its      *)
(* attempt, and the event of that reservation stays on disk.  Before the   *)
(* slot is taken nothing was sent by anybody, so the cells still ahead of  *)
(* the run are untouched: a second process never gets past the slot.       *)
(***************************************************************************)
StartRecorded(c) ==
  \E i \in DOMAIN events : events[i] = StepEvent("provider_request_started", c)

Unsent == {"prepare", "record_prepared", "reserve", "send"}

HttpInv ==
  /\ ~slot => \A c \in Cells : http[c] = 0
  /\ pc \in CellSteps => \A c \in Cells : c > nextOrdinal => http[c] = 0
  /\ pc \in Unsent => nextOrdinal \in Cells /\ http[nextOrdinal] = 0
  /\ pc = "send" => mode = "try" /\ attempt = "reserved"
  /\ \A c \in Cells : http[c] <= 1 /\ (http[c] = 1 => StartRecorded(c))

LEMMA RecordsStay ==
  ASSUME TypeInv, [LedgerNext]_ledgerVars, NEW c \in Cells, StartRecorded(c)
  PROVE  StartRecorded(c)'
<1>1. PICK i \in DOMAIN events : events[i] = StepEvent("provider_request_started", c)
  BY DEF StartRecorded
<1>2. i \in DOMAIN events' /\ events'[i] = events[i]
  BY <1>1, EventsGrow
<1>3. QED
  BY <1>1, <1>2 DEF StartRecorded

\* A reserved attempt has its request-started event on disk.
LEMMA ReservedIsRecorded ==
  ASSUME TypeInv, TryInv, mode = "try", attempt = "reserved"
  PROVE  nextOrdinal \in Cells /\ StartRecorded(nextOrdinal)
<1>1. nextOrdinal \in Cells /\ Len(events) = Position(nextOrdinal, 4)
  BY NextPosition DEF AllCellsRecorded, Offset
<1>2. Position(nextOrdinal, 4) \in 2..BodyEnd /\ 4 \in 1..6
  BY <1>1, PositionUnique
<1>3. events[Position(nextOrdinal, 4)] = StepEvent("provider_request_started", nextOrdinal)
  BY <1>1, <1>2, TryLog, KindAt DEF ConformsUpTo
<1>4. Position(nextOrdinal, 4) \in DOMAIN events
  BY <1>1, <1>2, TryLog
<1>5. QED
  BY <1>1, <1>3, <1>4 DEF StartRecorded

\* Every step but SendRequest leaves the requests alone.
LEMMA HttpFrame == [RunNext]_runVars => SendRequest \/ UNCHANGED http
<1>1. Validate \/ VerifyProvenance \/ Begin => UNCHANGED http
  BY DEF Validate, VerifyProvenance, Begin, work
<1>2. CellStep => SendRequest \/ UNCHANGED http
  BY DEF CellStep, PrepareArm, RecordPreparation, Reserve, ReceiveAnswer, CompleteAttempt,
     ExecuteAgentAction, RunVerifier, SettleTreatment, CloseCellResource, RecordResult, work
<1>3. SealStep => UNCHANGED http
  BY DEF SealStep, CloseNextResource, CloseOwners, RecordCleanup,
     ScoreAndRecordVerdict, Close, VerifyFinalProvenance, FinalSign, OpenManifest,
     SyncManifest, CommitManifest, WithdrawManifest, ReturnResult, work
<1>4. FailureStep => UNCHANGED http
  BY DEF FailureStep, StepThrows, CheckpointThrows, Abort, FailWithoutLedger,
     AbortSign, AbortPersist, DisposeAll, work
<1>5. SignalArrives \/ ProcessDies \/ StartAgain \/ UNCHANGED runVars => UNCHANGED http
  BY DEF SignalArrives, ProcessDies, StartAgain, work, runVars
<1>6. QED
  BY <1>1, <1>2, <1>3, <1>4, <1>5 DEF RunNext, RunnerStep

\* The slot, once taken, stays taken.
LEMMA SlotStays == [LedgerNext]_ledgerVars => (slot => slot')
BY DEF LedgerNext, BeginPilotRunLedger, RefuseBegin, RecordCellPreparation,
   ReserveProviderAttempt, CompleteProviderAttempt, RecordCellResult,
   RecordResourceCleanup, RecordVerdict, CloseRun, AbortRun, OpenFinalManifest,
   SyncFinalManifest, CommitFinalManifest, WithdrawFinalManifest, PersistAbortManifest,
   CallerThrows, CallerReturns, Crash, Restart, ledgerVars, durable

LEMMA HttpStep ==
  ASSUME TypeInv, SlotInv, TryInv, FreshInv, CellInv, CellInv', TypedInv, HttpInv,
         [RunNext]_runVars
  PROVE  HttpInv'
<1>0. [LedgerNext]_ledgerVars
  BY RunStepUsesLedger
<1>1. CASE SendRequest
  <2>1. /\ pc = "send" /\ pc' = "await" /\ UNCHANGED ledgerVars
        /\ http' = [http EXCEPT ![nextOrdinal] = @ + 1]
    BY <1>1 DEF SendRequest, At, Goto, activeCell
  <2>2. /\ mode = "try" /\ attempt = "reserved"
        /\ nextOrdinal \in Cells /\ http[nextOrdinal] = 0
    BY <2>1 DEF HttpInv, Unsent
  <2>3. StartRecorded(nextOrdinal)
    BY <2>2, ReservedIsRecorded
  <2>4. http \in [Cells -> Nat] /\ slot
    BY <2>2 DEF TypedInv, RunTypeOK, SlotInv
  <2>5. \A c \in Cells : http'[c] = IF c = nextOrdinal THEN 1 ELSE http[c]
    BY <2>1, <2>2, <2>4
  <2>6. /\ UNCHANGED << nextOrdinal, events, slot >>
        /\ \A c \in Cells : StartRecorded(c)' <=> StartRecorded(c)
    BY <2>1 DEF ledgerVars, durable, progress, StartRecorded
  <2>7. nextOrdinal \in Int
    BY <2>2 DEF Cells
  <2>8. \A c \in Cells : http'[c] <= 1 /\ (http'[c] = 1 => StartRecorded(c)')
    BY <2>3, <2>5, <2>6 DEF HttpInv
  <2>9. \A c \in Cells : c > nextOrdinal => http'[c] = 0
    BY <2>1, <2>5, <2>7 DEF HttpInv, CellSteps
  <2>10. QED
    BY <2>1, <2>4, <2>6, <2>8, <2>9 DEF HttpInv, Unsent
<1>2. CASE ~SendRequest
  <2>1. UNCHANGED http /\ (~slot' => ~slot)
    BY <1>0, <1>2, HttpFrame, SlotStays
  <2>2. /\ ~slot' => \A c \in Cells : http'[c] = 0
        /\ \A c \in Cells : http'[c] <= 1 /\ (http'[c] = 1 => StartRecorded(c)')
    BY <1>0, <2>1, RecordsStay DEF HttpInv
  <2> DEFINE Ahead == /\ pc' \in CellSteps => \A c \in Cells : c > nextOrdinal' => http[c] = 0
                      /\ pc' \in Unsent => nextOrdinal' \in Cells /\ http[nextOrdinal'] = 0
                      /\ pc' = "send" => mode' = "try" /\ attempt' = "reserved"
  <2>3. Ahead
    <3>1. CASE Begin
      <4>1. pc' \in {"prepare", "abort_cleanup"}
        BY <3>1 DEF Begin
      <4>2. pc' = "prepare" => ~slot
        BY <3>1 DEF Begin, BeginPilotRunLedger, RefuseBegin
      <4>3. pc' = "prepare" => nextOrdinal' \in Cells
        BY DEF CellInv
      <4>4. QED
        BY <4>1, <4>2, <4>3 DEF HttpInv, CellSteps, Unsent
    <3>2. CASE CellStep
      <4>1. CASE PrepareArm \/ RecordPreparation
        <5>1. UNCHANGED nextOrdinal /\ pc \in CellSteps /\ pc \in Unsent
          BY <4>1 DEF PrepareArm, RecordPreparation, At, RecordCellPreparation, CallerThrows,
             ledgerVars, progress, CellSteps, Unsent
        <5>2. pc' \in {"record_prepared", "reserve", "abort_cleanup"}
          BY <4>1 DEF PrepareArm, RecordPreparation, Goto, Proceed
        <5>3. QED
          BY <5>1, <5>2 DEF HttpInv, CellSteps, Unsent
      <4>2. CASE Reserve
        <5>1. UNCHANGED nextOrdinal /\ pc \in CellSteps /\ pc \in Unsent
          BY <4>2 DEF Reserve, At, ReserveProviderAttempt, CellSteps, Unsent
        <5>2. \/ pc' = "abort_cleanup"
              \/ pc' = "send" /\ mode' = "try" /\ attempt' = "reserved"
          BY <4>2 DEF Reserve, ReserveProviderAttempt, Throw, Proceed
        <5>3. QED
          BY <5>1, <5>2 DEF HttpInv, CellSteps, Unsent
      <4>3. CASE \/ ReceiveAnswer \/ CompleteAttempt \/ ExecuteAgentAction
                 \/ RunVerifier \/ SettleTreatment \/ CloseCellResource
        <5>1. UNCHANGED nextOrdinal /\ pc \in CellSteps
          BY <4>3 DEF ReceiveAnswer, CompleteAttempt, ExecuteAgentAction, RunVerifier,
             SettleTreatment, CloseCellResource, At, CompleteProviderAttempt, CallerThrows,
             ledgerVars, progress, CellSteps
        <5>2. pc' \in {"complete", "agent", "close_resource", "verifier", "settle",
                       "record_result", "abort_cleanup"}
          BY <4>3 DEF ReceiveAnswer, CompleteAttempt, ExecuteAgentAction, RunVerifier,
             SettleTreatment, CloseCellResource, Goto, Proceed
        <5>3. QED
          BY <5>1, <5>2 DEF HttpInv, CellSteps, Unsent
      <4>4. CASE RecordResult
        <5>1. /\ pc \in CellSteps
              /\ pc' \in {"cleanup", "prepare", "abort_cleanup"}
              /\ pc' = "prepare" => nextOrdinal' = nextOrdinal + 1
          BY <4>4 DEF RecordResult, RecordCellResult, Throw, At, Proceed, CellSteps
        <5>2. pc' = "prepare" => nextOrdinal' \in Cells
          BY DEF CellInv
        <5>3. nextOrdinal \in Int /\ \A c \in Cells : c \in Int
          BY DEF TypeInv, LedgerTypeOK, Cells
        <5>4. pc' = "prepare" => nextOrdinal' > nextOrdinal
          BY <5>1, <5>3
        <5>5. \A c \in Cells : pc' = "prepare" /\ c > nextOrdinal' => c > nextOrdinal
          BY <5>1, <5>3
        <5>6. QED
          BY <5>1, <5>2, <5>4, <5>5 DEF HttpInv, CellSteps, Unsent
      <4>5. QED
        BY <1>2, <3>2, <4>1, <4>2, <4>3, <4>4 DEF CellStep
    <3>3. CASE \/ Validate \/ VerifyProvenance \/ SealStep \/ FailureStep
               \/ ProcessDies \/ StartAgain
      <4>1. pc' \notin CellSteps \cup Unsent
        BY <3>3 DEF Validate, VerifyProvenance, SealStep, CloseNextResource,
           CloseOwners, Completing, At, RecordCleanup, ScoreAndRecordVerdict, Close,
           VerifyFinalProvenance, FinalSign, OpenManifest, SyncManifest, CommitManifest,
           WithdrawManifest, ReturnResult, FailureStep, StepThrows, CheckpointThrows,
           Abort, FailWithoutLedger, AbortSign, AbortPersist, DisposeAll, ProcessDies,
           StartAgain, Goto, Proceed, CellSteps, Unsent
      <4>2. QED
        BY <4>1 DEF Unsent
    <3>4. CASE SignalArrives \/ UNCHANGED runVars
      BY <3>4 DEF SignalArrives, runVars, ledgerVars, progress, HttpInv
    <3>5. QED
      BY <3>1, <3>2, <3>3, <3>4 DEF RunNext, RunnerStep
  <2>4. QED
    BY <2>1, <2>2, <2>3 DEF HttpInv
<1>3. QED
  BY <1>1, <1>2

LEMMA HttpFollows ==
  ASSUME LedgerTypeOK, TypedInv, HttpInv
  PROVE  HttpIsBurnedFirst
<1> SUFFICES ASSUME NEW c \in Cells
             PROVE  http[c] <= Cardinality({i \in DOMAIN events :
                      events[i] = StepEvent("provider_request_started", c)})
  BY DEF HttpIsBurnedFirst
<1> DEFINE starts == {i \in DOMAIN events :
                       events[i] = StepEvent("provider_request_started", c)}
<1>1. IsFiniteSet(starts)
  <2>1. DOMAIN events = 1..Len(events) /\ Len(events) \in Nat
    BY DEF LedgerTypeOK
  <2>2. IsFiniteSet(DOMAIN events)
    BY <2>1, FS_Interval
  <2>3. QED
    BY <2>2, FS_Subset
<1>2. Cardinality(starts) \in Nat
  BY <1>1, FS_CardinalityType
<1>3. http[c] \in Nat /\ http[c] <= 1
  BY DEF TypedInv, RunTypeOK, HttpInv
<1>4. http[c] = 1 => starts # {}
  BY DEF HttpInv, StartRecorded
<1>5. starts # {} => Cardinality(starts) # 0
  BY <1>1, FS_EmptySet
<1>6. QED
  BY <1>2, <1>3, <1>4, <1>5

-----------------------------------------------------------------------------
(* Every abort is admitted, and sealable where the grammar allows it *)

\* The abort of a writer that stopped between two operations replays aborted.
LEMMA WholeAbortReplays ==
  ASSUME TypeInv, CatchInv, mode = "catch", ~abortClosure, stray = NoFile, ~HalfPair,
         NEW c, c = IF attempt = "none" THEN NoCell ELSE nextOrdinal,
         NEW confirmed \in BOOLEAN
  PROVE  ReplaysAborted(Append(events, AbortEvent(c, nextOrdinal - 1, StatedAttempt,
                                                  confirmed)))
<1> DEFINE e == AbortEvent(c, nextOrdinal - 1, StatedAttempt, confirmed)
           n == Len(events)
           log == Append(events, e)
<1>0. /\ events \in Seq(Events) /\ attempt \in AttemptPhases
      /\ nextOrdinal \in 1..(CellCount + 1) /\ CellCount \in Nat
      /\ attempt # "none" => nextOrdinal \in Cells
  BY CellCountAssumption DEF TypeInv, LedgerTypeOK
<1>1. /\ e.kind = "run_aborted" /\ e.cell = c
      /\ e.completed = nextOrdinal - 1 /\ e.attempt = StatedAttempt
  BY DEF AbortEvent
<1>2. /\ n >= 1 /\ ConformsUpTo(events, n) /\ n = Remembered
      /\ cleanupReceipt => AllCellsRecorded
      /\ verdict => cleanupReceipt
      /\ closed => verdict
  BY DEF CatchInv
<1>3. /\ n \in Nat /\ Len(log) = n + 1 /\ log[n + 1] = e
      /\ \A i \in 1..n : log[i] = events[i]
  BY <1>0
<1>4. ConformsUpTo(log, n)
  <2>1. \A d \in Cells, j \in 1..6 : Position(d, j) \in Int /\ Position(d, j) >= 1
    BY DEF Position, Cells
  <2>2. \A j \in 1..3 : BodyEnd + j \in Int /\ BodyEnd + j >= 1
    BY <1>0 DEF BodyEnd
  <2>3. QED
    BY <1>2, <1>3, <2>1, <2>2 DEF ConformsUpTo
<1>5. CASE attempt = "none"
  <2>1. c = NoCell /\ StatedAttempt = "no_active_attempt" /\ Offset = 0
    BY <1>5 DEF StatedAttempt, Offset
  <2>2. CASE nextOrdinal \in Cells
    <3>1. ~cleanupReceipt /\ ~verdict /\ ~closed
      BY <1>0, <1>2, <2>2 DEF AllCellsRecorded, Cells
    <3>2. n = Position(nextOrdinal, 0)
      BY <1>0, <1>2, <2>1, <3>1 DEF Remembered, One, Position
    <3>3. CutAtBoundary(n, c, nextOrdinal - 1) /\ n <= FullEnd
      BY <1>0, <2>1, <2>2, <3>2 DEF CutAtBoundary, Position, FullEnd, BodyEnd, Cells
    <3>4. AbortPayloadAccepted(e)
      BY <1>0, <1>1, <2>1 DEF AbortPayloadAccepted
    <3>5. QED
      BY <1>1, <1>2, <1>3, <1>4, <3>3, <3>4 DEF ReplaysAborted
  <2>3. CASE nextOrdinal \notin Cells
    <3>1. nextOrdinal = CellCount + 1
      BY <1>0, <2>3 DEF Cells
    <3>2. n = BodyEnd + One(cleanupReceipt) + One(verdict) + One(closed)
      BY <1>0, <1>2, <2>1, <3>1 DEF Remembered, Position, BodyEnd, One
    <3>3. n \in BodyEnd..FullEnd /\ n <= FullEnd
      BY <1>0, <3>2 DEF BodyEnd, FullEnd, One
    <3>4. CutAtBoundary(n, c, nextOrdinal - 1)
      BY <1>0, <2>1, <3>1, <3>3 DEF CutAtBoundary
    <3>5. AbortPayloadAccepted(e)
      BY <1>0, <1>1, <2>1 DEF AbortPayloadAccepted
    <3>6. QED
      BY <1>1, <1>2, <1>3, <1>4, <3>3, <3>4, <3>5 DEF ReplaysAborted
  <2>4. QED
    BY <2>2, <2>3
<1>6. CASE attempt # "none"
  <2>1. c = nextOrdinal /\ c \in Cells /\ ~cleanupReceipt /\ ~verdict /\ ~closed
    BY <1>0, <1>2, <1>6 DEF AllCellsRecorded
  <2>2. Offset \in {2, 4, 5} /\ n = Position(c, Offset)
    BY <1>0, <1>2, <1>6, <2>1 DEF Offset, AttemptPhases, Remembered, One, Position
  <2>3. CutInsideCell(n, c, nextOrdinal - 1)
    BY <2>1, <2>2 DEF CutInsideCell
  <2>4. n <= FullEnd
    BY <1>0, <2>1, <2>2 DEF Position, FullEnd, BodyEnd, Cells
  <2>5. AbortPayloadAccepted(e)
    BY <1>0, <1>1, <2>1 DEF AbortPayloadAccepted, Cells
  <2>6. QED
    BY <1>1, <1>2, <1>3, <1>4, <2>3, <2>4, <2>5 DEF ReplaysAborted
<1>7. QED
  BY <1>5, <1>6

(***************************************************************************)
(* The cell the runner would blame.  currentCell runs ahead of the ledger  *)
(* only while the cell is being prepared.                                  *)
(***************************************************************************)
BlameInv ==
  /\ mode \in {"try", "catch"} =>
       /\ ~abortManifestPersisted
       /\ attempt = "none" => currentCell = NoCell \/ currentCell \in Cells \cap {nextOrdinal}
       /\ attempt # "none" => currentCell = nextOrdinal
  /\ pc = "record_prepared" => currentCell = nextOrdinal
  /\ pc \in {"validate", "provenance", "begin"} => currentCell = NoCell

LEMMA BlameStep ==
  ASSUME TypeInv, FreshInv, CellInv, CellInv', BlameInv, [RunNext]_runVars
  PROVE  BlameInv'
<1> USE DEF BlameInv
<1>1. CASE Validate \/ VerifyProvenance
  BY <1>1 DEF Validate, VerifyProvenance, At, Goto, RefuseBegin, work, ledgerVars, progress,
     seals
<1>2. CASE Begin
  <2>1. currentCell' = NoCell /\ pc' \in {"prepare", "abort_cleanup"}
    BY <1>2 DEF Begin, At, work
  <2>2. attempt' = "none" /\ ~abortManifestPersisted'
    BY <1>2 DEF Begin, BeginPilotRunLedger, RefuseBegin, FreshInv, progress, seals
  <2>3. QED
    BY <2>1, <2>2
<1>3. CASE PrepareArm
  <2>1. /\ mode = "try" => nextOrdinal \in Cells
        /\ currentCell' = nextOrdinal /\ nextOrdinal \in Cells
        /\ pc' \in {"record_prepared", "abort_cleanup"}
        /\ UNCHANGED << nextOrdinal, attempt, abortManifestPersisted >>
    BY <1>3 DEF PrepareArm, At, Goto, activeCell, CallerThrows, CellInv, ledgerVars,
       progress, seals
  <2>2. mode' \in {"try", "catch"} => mode \in {"try", "catch"}
    BY <1>3 DEF PrepareArm, CallerThrows, ledgerVars
  <2>3. QED
    BY <2>1, <2>2
<1>4. CASE RecordPreparation \/ Reserve \/ CompleteAttempt
  <2>1. /\ mode = "try" /\ UNCHANGED << currentCell, nextOrdinal, abortManifestPersisted >>
        /\ attempt = "none" => pc = "record_prepared"
        /\ attempt' = "none" => attempt = "none"
    BY <1>4 DEF RecordPreparation, Reserve, CompleteAttempt, At, RecordCellPreparation,
       ReserveProviderAttempt, CompleteProviderAttempt, work, seals
  <2>2. pc' \in {"reserve", "send", "agent", "close_resource", "abort_cleanup"}
    BY <1>4 DEF RecordPreparation, Reserve, CompleteAttempt, Proceed
  <2>3. QED
    BY <2>1, <2>2
<1>5. CASE RecordResult
  <2>1. /\ UNCHANGED abortManifestPersisted /\ mode = "try" /\ attempt # "none"
        /\ \/ currentCell' = NoCell /\ attempt' = "none"
           \/ UNCHANGED << currentCell, nextOrdinal, attempt >>
        /\ pc' \in {"cleanup", "prepare", "abort_cleanup"}
    BY <1>5 DEF RecordResult, RecordCellResult, Throw, Proceed, seals
  <2>2. QED
    BY <2>1
<1>6. CASE \/ SendRequest \/ ReceiveAnswer \/ ExecuteAgentAction \/ RunVerifier
           \/ SettleTreatment \/ CloseCellResource
  <2>1. /\ UNCHANGED << currentCell, nextOrdinal, attempt, abortManifestPersisted >>
        /\ mode' \in {"try", "catch"} => mode \in {"try", "catch"}
    BY <1>6 DEF SendRequest, ReceiveAnswer, ExecuteAgentAction, RunVerifier, SettleTreatment,
       CloseCellResource, CallerThrows, work, ledgerVars, progress, seals
  <2>2. pc' \in {"await", "complete", "verifier", "settle", "close_resource",
                 "record_result", "abort_cleanup"}
    BY <1>6 DEF SendRequest, ReceiveAnswer, ExecuteAgentAction, RunVerifier, SettleTreatment,
       CloseCellResource, Goto
  <2>3. QED
    BY <2>1, <2>2
<1>7. CASE SealStep
  <2>1. UNCHANGED << currentCell, nextOrdinal, attempt, abortManifestPersisted >>
    BY <1>7 DEF SealStep, CloseNextResource, CloseOwners, RecordCleanup,
       ScoreAndRecordVerdict, Close, VerifyFinalProvenance, FinalSign, OpenManifest,
       SyncManifest, CommitManifest, WithdrawManifest, ReturnResult,
       RecordResourceCleanup, RecordVerdict, CloseRun, OpenFinalManifest,
       SyncFinalManifest, CommitFinalManifest, WithdrawFinalManifest, CallerThrows,
       CallerReturns, work, ledgerVars, progress, seals
  <2>2. mode' \in {"try", "catch"} => mode \in {"try", "catch"}
    BY <1>7 DEF SealStep, CloseNextResource, CloseOwners, RecordCleanup,
       ScoreAndRecordVerdict, Close, VerifyFinalProvenance, FinalSign, OpenManifest,
       SyncManifest, CommitManifest, WithdrawManifest, ReturnResult,
       RecordResourceCleanup, RecordVerdict, CloseRun, OpenFinalManifest,
       SyncFinalManifest, CommitFinalManifest, WithdrawFinalManifest, CallerThrows,
       CallerReturns, ledgerVars
  <2>3. pc' \in SealSteps \cup {"abort_cleanup", "done"}
    BY <1>7 DEF SealStep, CloseNextResource, Completing, CloseOwners, RecordCleanup,
       ScoreAndRecordVerdict, Close, VerifyFinalProvenance, FinalSign, OpenManifest,
       SyncManifest, CommitManifest, WithdrawManifest, ReturnResult, At, Goto, Proceed,
       SealSteps
  <2>4. QED
    BY <2>1, <2>2, <2>3 DEF SealSteps
<1>8. CASE FailureStep
  <2>1. UNCHANGED << currentCell, nextOrdinal, attempt >>
    BY <1>8 DEF FailureStep, StepThrows, CheckpointThrows, Abort, FailWithoutLedger,
       AbortSign, AbortPersist, DisposeAll, AbortRun, PersistAbortManifest, CallerThrows,
       CallerReturns, work, ledgerVars, progress
  <2>2. mode' \in {"try", "catch"} =>
          mode \in {"try", "catch"} /\ UNCHANGED abortManifestPersisted
    BY <1>8 DEF FailureStep, StepThrows, CheckpointThrows, Abort, FailWithoutLedger,
       AbortSign, AbortPersist, DisposeAll, AbortRun, PersistAbortManifest, CallerThrows,
       CallerReturns, ledgerVars, seals
  <2>3. pc' \in {"abort_cleanup", "abort_sign", "abort_persist", "dispose", "done"}
    BY <1>8 DEF FailureStep, StepThrows, CheckpointThrows, Abort, FailWithoutLedger,
       AbortSign, AbortPersist, DisposeAll, Goto
  <2>4. QED
    BY <2>1, <2>2, <2>3
<1>9. CASE SignalArrives \/ UNCHANGED runVars
  BY <1>9 DEF SignalArrives, work, runVars, ledgerVars, progress, seals
<1>10. CASE ProcessDies
  BY <1>10 DEF ProcessDies, Goto
<1>11. CASE StartAgain
  BY <1>11 DEF StartAgain, Restart, Goto
<1>12. QED
  BY <1>1, <1>2, <1>3, <1>4, <1>5, <1>6, <1>7, <1>8, <1>9, <1>10, <1>11
  DEF RunNext, RunnerStep, CellStep

SealableInv ==
  abortClosure =>
    \/ ReplaysAborted(EventFiles)
    \/ attempt = "none" /\ currentCell # NoCell
    \/ \E c \in Cells, j \in {1, 3} : Len(events) - 1 = Position(c, j)

LEMMA SealableStep ==
  ASSUME TypeInv, CatchInv, CellInv, BlameInv, ClosureInv, SealableInv, [RunNext]_runVars
  PROVE  SealableInv'
<1>1. CASE ~abortClosure'
  BY <1>1 DEF SealableInv
<1>2. CASE abortClosure /\ abortClosure'
  <2>1. pc \in Winding /\ ~StartAgain
    BY <1>2 DEF ClosureInv, StartAgain, Restart
  <2>2. UNCHANGED << events, stray, attempt, currentCell >>
    BY <2>1, WindingSteps DEF AbortSign, AbortPersist, DisposeAll, SignalArrives,
       ProcessDies, CallerReturns, PersistAbortManifest, work, runVars, ledgerVars, durable,
       progress
  <2>3. QED
    BY <1>2, <2>2 DEF SealableInv, EventFiles
<1>3. CASE ~abortClosure /\ abortClosure'
  <2> DEFINE e == AbortEvent(currentCell, nextOrdinal - 1, StatedAttempt,
                             receipt = "confirmed")
  <2>1. Abort
    BY <1>3, OnlyAbortCloses
  <2>2. /\ mode = "catch" /\ stray = NoFile /\ AppendEvent(e)
        /\ UNCHANGED << progress, work >>
    BY <1>3, <2>1 DEF Abort, AbortRun, AppendEvent
  <2>3. EventFiles' = Append(events, e)
    BY <2>2 DEF AppendEvent, EventFiles
  <2>4. events' = Append(events, e) /\ events \in Seq(Events)
    BY <2>2 DEF AppendEvent, TypeInv, LedgerTypeOK
  <2>5. Len(events') - 1 = Len(events)
    BY <2>4
  <2>6. CASE HalfPair
    BY <2>5, <2>6 DEF SealableInv, HalfPair
  <2>7. CASE attempt = "none" /\ currentCell # NoCell
    BY <2>2, <2>7 DEF SealableInv, progress, work
  <2>8. CASE ~HalfPair /\ ~(attempt = "none" /\ currentCell # NoCell)
    <3>1. currentCell = IF attempt = "none" THEN NoCell ELSE nextOrdinal
      BY <2>2, <2>8 DEF BlameInv
    <3>2. (receipt = "confirmed") \in BOOLEAN
      OBVIOUS
    <3>3. ReplaysAborted(Append(events, e))
      BY <1>3, <2>2, <2>8, <3>1, <3>2, WholeAbortReplays
    <3>4. QED
      BY <2>3, <3>3 DEF SealableInv
  <2>9. QED
    BY <2>6, <2>7, <2>8
<1>4. QED
  BY <1>1, <1>2, <1>3

-----------------------------------------------------------------------------
(* The runner's invariant and what follows from it *)

RunnerInv ==
  /\ TypedInv
  /\ SettledInv
  /\ CancelInv
  /\ ReceiptInv
  /\ ClosureInv
  /\ HttpInv
  /\ BlameInv
  /\ SealableInv

\* What the ledger's own proofs say of it during a run.
LedgerFacts == LedgerInv /\ CatchInv

LEMMA LedgerFactsHold == RunSpec => []LedgerFacts
<1>1. RunSpec => LedgerSpec
  BY RunUsesLedger DEF UsesLedgerAsSpecified
<1>2. LedgerInv /\ CatchInv => LedgerFacts
  BY DEF LedgerFacts
<1>3. QED
  BY <1>1, <1>2, LedgerInvHolds, AbortStatementsHold, PTL

LEMMA RunnerInit == RunInit => RunnerInv
<1> SUFFICES ASSUME RunInit
             PROVE  RunnerInv
  OBVIOUS
<1> USE DEF RunInit
<1>1. TypedInv
  BY InitTyped DEF TypedInv, RunTypeOK, TypeInv, Steps
<1>2. SettledInv /\ CancelInv /\ ClosureInv /\ SealableInv
  BY DEF LedgerInit, SettledInv, CancelInv, ClosureInv, SealableInv
<1>3. ReceiptInv
  BY DEF LedgerInit, ReceiptInv, CellSteps, SealSteps
<1>4. HttpInv
  BY DEF LedgerInit, HttpInv, CellSteps, Unsent
<1>5. BlameInv
  BY DEF LedgerInit, BlameInv
<1>6. QED
  BY <1>1, <1>2, <1>3, <1>4, <1>5 DEF RunnerInv

LEMMA RunnerStepKeeps ==
  ASSUME LedgerFacts, LedgerFacts', CellInv, CellInv', RunnerInv, [RunNext]_runVars
  PROVE  RunnerInv'
<1>1. /\ TypeInv /\ SlotInv /\ FreshInv /\ TryInv /\ CatchInv
      /\ LedgerTypeOK /\ LedgerTypeOK'
  BY DEF LedgerFacts, LedgerInv, TypeInv
<1>2. TypedInv'
  BY <1>1, TypedStep DEF RunnerInv
<1>3. SettledInv'
  BY <1>1, <1>2, SettledStep DEF RunnerInv
<1>4. CancelInv'
  BY CancelStep DEF RunnerInv
<1>5. ReceiptInv'
  BY ReceiptStep DEF RunnerInv
<1>6. ClosureInv'
  BY <1>1, ClosureStep DEF RunnerInv
<1>7. HttpInv'
  BY <1>1, HttpStep DEF RunnerInv
<1>8. BlameInv'
  BY <1>1, BlameStep DEF RunnerInv
<1>9. SealableInv'
  BY <1>1, SealableStep DEF RunnerInv
<1>10. QED
  BY <1>2, <1>3, <1>4, <1>5, <1>6, <1>7, <1>8, <1>9 DEF RunnerInv

LEMMA RunnerInvHolds == RunSpec => []RunnerInv
<1>1. RunInit => RunnerInv
  BY RunnerInit
<1>2. LedgerFacts /\ LedgerFacts' /\ CellInv /\ CellInv' /\ RunnerInv /\ [RunNext]_runVars
        => RunnerInv'
  BY RunnerStepKeeps
<1>3. RunInv => CellInv
  BY DEF RunInv
<1>4. QED
  BY <1>1, <1>2, <1>3, RunInvHolds, LedgerFactsHold, PTL DEF RunSpec

\* The runner's own state is well-typed: in particular only treatment cells are
\* ever counted as settled.
THEOREM RunTypes == RunSpec => []RunTypeOK
<1>1. RunnerInv => RunTypeOK
  BY DEF RunnerInv, TypedInv
<1>2. QED
  BY <1>1, RunnerInvHolds, PTL

\* Every scored request was burned on disk before it was sent, and no cell is
\* sent a second one, across all crashes and restarts.
THEOREM RequestsAreBurnedFirst == RunSpec => []HttpIsBurnedFirst
<1>1. RunnerInv => HttpIsBurnedFirst
  BY HttpFollows DEF RunnerInv, TypedInv, RunTypeOK
<1>2. QED
  BY <1>1, RunnerInvHolds, PTL

\* A cancelled run commits no manifest and, once its abort is recorded, is no
\* claim to any reader.
THEOREM CancelledRunsClaimNothing == RunSpec => []CancellationDowngrades
<1>1. LedgerFacts /\ RunnerInv => CancellationDowngrades
  <2> SUFFICES ASSUME LedgerFacts, RunnerInv, requested
               PROVE  /\ ~finalManifestPersisted
                      /\ abortClosure => AuditedOutcome # "claimed"
    BY DEF CancellationDowngrades
  <2>1. ~finalManifestPersisted
    BY DEF RunnerInv, CancelInv
  <2>2. ASSUME abortClosure, ReplaysCompleted(EventFiles)
        PROVE  FALSE
    <3>1. EventFiles = events /\ events[Len(events)].kind = "run_aborted"
      BY <2>2 DEF RunnerInv, ClosureInv, EventFiles
    <3>2. events[Len(events)] = StepEvent("run_closed", NoCell)
      BY <2>2, <3>1, CompletedEndsClosed
    <3>3. QED
      BY <3>1, <3>2 DEF StepEvent
  <2>3. QED
    BY <2>1, <2>2 DEF AuditedOutcome
<1>2. QED
  BY <1>1, RunnerInvHolds, LedgerFactsHold, PTL

\* A claim, offered or made, counts every treatment cell as settled.
THEOREM ClaimsAreSettled == RunSpec => []ClaimNeedsSettlement
<1>1. RunnerInv => ClaimNeedsSettlement
  BY DEF RunnerInv, SettledInv, ClaimNeedsSettlement, AuditedOutcome
<1>2. QED
  BY <1>1, RunnerInvHolds, PTL

\* What the ledger says of the cleanup is what happened to the resources.
THEOREM CleanupIsAsStated == RunSpec => []CleanupStatementsTrue
<1>1. RunnerInv => CleanupStatementsTrue
  <2> SUFFICES ASSUME RunnerInv
               PROVE  CleanupStatementsTrue
    OBVIOUS
  <2>1. ReceiptInv /\ ClosureInv /\ receipt \in {"none", "confirmed", "incomplete"}
    BY DEF RunnerInv, TypedInv, RunTypeOK
  <2>2. receipt # "none" => (AllClosed <=> receipt = "confirmed")
    BY <2>1 DEF ReceiptInv
  <2>3. abortClosure => (events[Len(events)].cleanup <=> AllClosed)
    BY <2>1, <2>2, Zenon DEF ClosureInv
  <2>4. (cleanupReceipt => AllClosed) /\ (pc = "done" => owners # "held")
    BY <2>1 DEF ReceiptInv
  <2>5. QED
    BY <2>3, <2>4, Zenon DEF CleanupStatementsTrue
<1>2. QED
  BY <1>1, RunnerInvHolds, PTL

\* The ledger never refuses the runner's abort, and every abort is sealable but
\* those that follow half a pair of events or a failed preparation.
THEOREM AbortsAreRecorded == RunSpec => []AbortsRecorded
<1>1. LedgerFacts /\ RunnerInv => AbortsRecorded
  <2> SUFFICES ASSUME LedgerFacts, RunnerInv
               PROVE  AbortsRecorded
    OBVIOUS
  <2>1. ASSUME pc = "abort_cleanup", receipt # "none", mode = "catch"
        PROVE  AbortAllowed(currentCell, receipt = "confirmed")
    <3>1. ~abortClosure
      BY <2>1 DEF RunnerInv, ClosureInv, Winding
    <3>2. ~finalManifestPersisted
      BY <2>1 DEF LedgerFacts, LedgerInv, ManifestInv
    <3>3. /\ ~abortManifestPersisted
          /\ attempt = "none" =>
               currentCell = NoCell \/ currentCell \in Cells \cap {nextOrdinal}
          /\ attempt # "none" => currentCell = nextOrdinal
      BY <2>1 DEF RunnerInv, BlameInv
    <3>4. cleanupReceipt => receipt = "confirmed"
      BY DEF RunnerInv, ReceiptInv
    <3>5. QED
      BY <3>1, <3>2, <3>3, <3>4 DEF AbortAllowed
  <2>2. QED
    BY <2>1 DEF RunnerInv, SealableInv, AbortsRecorded
<1>2. QED
  BY <1>1, RunnerInvHolds, LedgerFactsHold, PTL

-----------------------------------------------------------------------------
(***************************************************************************)
(* The run treats its cells as CellProtocol says.  The runner is in its    *)
(* loop or seals exactly while the ledger is in its try block, and an      *)
(* iteration is always that of a cell of the schedule.                     *)
(***************************************************************************)
LoopInv ==
  /\ mode = "try" <=> pc \in CellSteps \cup SealSteps
  /\ pc \in CellSteps => nextOrdinal \in Cells

LEMMA LoopStep ==
  ASSUME LoopInv, CellInv', [RunNext]_runVars
  PROVE  LoopInv'
<1> USE DEF LoopInv
<1>1. CASE Validate \/ VerifyProvenance \/ Begin
  BY <1>1 DEF Validate, VerifyProvenance, Begin, BeginPilotRunLedger, RefuseBegin, At, Goto,
     CellInv, CellSteps, SealSteps, ledgerVars
<1>2. CASE PrepareArm \/ CloseCellResource
  BY <1>2 DEF PrepareArm, CloseCellResource, CallerThrows, Throw, At, Goto, CellSteps, SealSteps,
     ledgerVars, progress
<1>3. CASE RecordPreparation \/ Reserve \/ CompleteAttempt
  <2>1. mode = "try" /\ mode' \in {"try", "catch"} /\ UNCHANGED nextOrdinal
    BY <1>3 DEF RecordPreparation, Reserve, CompleteAttempt, RecordCellPreparation,
       ReserveProviderAttempt, CompleteProviderAttempt, Throw
  <2>2. /\ pc \in {"record_prepared", "reserve", "complete"}
        /\ \/ mode' = "catch" /\ pc' = "abort_cleanup"
           \/ mode' # "catch" /\ pc' \in {"reserve", "send", "agent", "close_resource"}
    BY <1>3 DEF RecordPreparation, Reserve, CompleteAttempt, Proceed, At
  <2>3. QED
    BY <2>1, <2>2 DEF CellSteps, SealSteps
<1>4. CASE RecordResult
  <2>1. mode = "try" /\ mode' \in {"try", "catch"}
    BY <1>4 DEF RecordResult, RecordCellResult, Throw
  <2>2. \/ mode' = "catch" /\ pc' = "abort_cleanup"
        \/ mode' # "catch" /\ pc' \in {"cleanup", "prepare"}
    BY <1>4 DEF RecordResult, Proceed
  <2>3. QED
    BY <2>1, <2>2 DEF CellInv, CellSteps, SealSteps
<1>5. CASE SendRequest \/ ReceiveAnswer \/ ExecuteAgentAction \/ RunVerifier \/ SettleTreatment
  BY <1>5 DEF SendRequest, ReceiveAnswer, ExecuteAgentAction, RunVerifier, SettleTreatment,
     At, Goto, CellSteps, SealSteps, ledgerVars, progress
<1>6. CASE CloseNextResource \/ CloseOwners \/ VerifyFinalProvenance \/ FinalSign
  BY <1>6 DEF CloseNextResource, CloseOwners, VerifyFinalProvenance, FinalSign, Completing,
     CallerThrows, Throw, At, Goto, CellSteps, SealSteps, ledgerVars, progress
<1>7. CASE RecordCleanup \/ ScoreAndRecordVerdict \/ Close
  <2>1. mode = "try" /\ mode' \in {"try", "catch"}
    BY <1>7 DEF RecordCleanup, ScoreAndRecordVerdict, Close, RecordResourceCleanup,
       RecordVerdict, CloseRun, Throw
  <2>2. \/ mode' = "catch" /\ pc' = "abort_cleanup"
        \/ mode' # "catch" /\ pc' \in {"verdict", "close_run", "final_provenance"}
    BY <1>7 DEF RecordCleanup, ScoreAndRecordVerdict, Close, Proceed
  <2>3. QED
    BY <2>1, <2>2 DEF CellSteps, SealSteps
<1>8. CASE OpenManifest \/ SyncManifest \/ CommitManifest \/ WithdrawManifest \/ ReturnResult
  BY <1>8 DEF OpenManifest, SyncManifest, CommitManifest, WithdrawManifest, ReturnResult,
     OpenFinalManifest, SyncFinalManifest, CommitFinalManifest, WithdrawFinalManifest,
     CallerReturns, Throw, At, Goto, CellSteps, SealSteps
<1>9. CASE FailureStep
  BY <1>9 DEF FailureStep, StepThrows, CheckpointThrows, Abort, FailWithoutLedger, AbortSign,
     AbortPersist, DisposeAll, CallerThrows, CallerReturns, AbortRun, PersistAbortManifest,
     Throw, Goto, CellSteps, SealSteps, ledgerVars
<1>10. CASE SignalArrives \/ UNCHANGED runVars
  BY <1>10 DEF SignalArrives, runVars, ledgerVars, progress
<1>11. CASE ProcessDies
  BY <1>11 DEF ProcessDies, Goto, CellSteps, SealSteps
<1>12. CASE StartAgain
  BY <1>12 DEF StartAgain, Restart, Goto, CellSteps, SealSteps
<1>13. QED
  BY <1>1, <1>2, <1>3, <1>4, <1>5, <1>6, <1>7, <1>8, <1>9, <1>10, <1>11, <1>12
  DEF RunNext, RunnerStep, CellStep, SealStep

\* What the mapping reads besides the stages, left alone.
BooksKept == UNCHANGED << http, settled >>

LEMMA StagesStay ==
  ASSUME BooksKept, \A c \in Cells : StageOf(c)' = StageOf(c),
         requested' \in {requested, TRUE}
  PROVE  [Protocol!CellNext]_Protocol!cellVars
<1>1. [c \in Cells |-> StageOf(c)]' = [c \in Cells |-> StageOf(c)]
  OBVIOUS
<1>2. CASE requested' = requested
  BY <1>1, <1>2 DEF BooksKept, Protocol!cellVars
<1>3. CASE requested' = TRUE
  BY <1>1, <1>3 DEF BooksKept, Protocol!CellNext, Protocol!Cancel, Protocol!NothingElse
<1>4. QED
  BY <1>2, <1>3

\* The end of the try block ends every cell, however far it came.
LEMMA StagesEnd ==
  ASSUME BooksKept, requested' = requested, slot', mode' # "try"
  PROVE  Protocol!CellNext
<1>1. \A c \in Cells : StageOf(c)' = "over"
  BY DEF StageOf
<1>2. QED
  BY <1>1 DEF BooksKept, Protocol!CellNext, Protocol!End, Protocol!NothingElse

\* Within an iteration only the active cell moves.
LEMMA IterationMoves ==
  ASSUME mode = "try", mode' = "try", nextOrdinal' = nextOrdinal,
         NEW a \in Cells, a = nextOrdinal
  PROVE  /\ StageOf(a) = StageAtStep /\ StageOf(a)' = StageAtStep'
         /\ \A c \in Cells : c # a => StageOf(c)' = StageOf(c)
         /\ Protocol!Move(a, StageAtStep')
<1>1. StageOf(a) = StageAtStep /\ StageOf(a)' = StageAtStep'
  BY DEF StageOf, activeCell, Cells
<1>2. \A c \in Cells : c # a => StageOf(c)' = StageOf(c)
  BY DEF StageOf, activeCell
<1>3. QED
  BY <1>1, <1>2 DEF Protocol!Move

\* The moves of CellProtocol that count no request and close no ledger.
BegunMoves ==
  {<<"preparing", "burned">>, <<"answered", "completed">>, <<"unusable", "closing">>,
   <<"completed", "acting">>, <<"completed", "closing">>, <<"acting", "verifying">>}
FreeMoves ==
  {<<"sent", "answered">>, <<"sent", "unusable">>, <<"acting", "closing">>,
   <<"verifying", "closing">>}

LEMMA ActiveCellMoves ==
  ASSUME mode = "try", mode' = "try", nextOrdinal' = nextOrdinal, nextOrdinal \in Cells,
         BooksKept, requested' = requested,
         \/ <<StageAtStep, StageAtStep'>> \in BegunMoves /\ ~requested
         \/ <<StageAtStep, StageAtStep'>> \in FreeMoves
  PROVE  Protocol!CellNext
<1>1. PICK a \in Cells : a = nextOrdinal
  OBVIOUS
<1>2. StageOf(a) = StageAtStep /\ Protocol!Move(a, StageAtStep')
  BY <1>1, IterationMoves
<1>3. Protocol!NothingElse
  BY DEF BooksKept, Protocol!NothingElse
<1>4. CASE <<StageAtStep, StageAtStep'>> \in BegunMoves /\ ~requested
  BY <1>2, <1>3, <1>4
  DEF BegunMoves, Protocol!CellNext, Protocol!OneCell, Protocol!Burn, Protocol!Complete,
      Protocol!Act, Protocol!Verify, Protocol!Begins
<1>5. CASE <<StageAtStep, StageAtStep'>> \in FreeMoves
  BY <1>2, <1>3, <1>5
  DEF FreeMoves, Protocol!CellNext, Protocol!OneCell, Protocol!Answer, Protocol!Conclude
<1>6. QED
  BY <1>4, <1>5

LEMMA CellStepRefines ==
  ASSUME TypeInv, LoopInv, TypedInv, SlotInv, CellStep
  PROVE  [Protocol!CellNext]_Protocol!cellVars
<1>1. /\ mode = "try" /\ nextOrdinal \in Cells /\ slot
      /\ requested \in BOOLEAN /\ nextOrdinal \in Nat
  BY DEF CellStep, PrepareArm, RecordPreparation, Reserve, SendRequest, ReceiveAnswer,
     CompleteAttempt, ExecuteAgentAction, RunVerifier, SettleTreatment, CloseCellResource,
     RecordResult, At, LoopInv, SlotInv, CellSteps, TypedInv, RunTypeOK, Cells
<1>2. UNCHANGED << requested, slot >>
  BY DEF CellStep, PrepareArm, RecordPreparation, Reserve, SendRequest, ReceiveAnswer,
     CompleteAttempt, ExecuteAgentAction, RunVerifier, SettleTreatment, CloseCellResource,
     RecordResult, RecordCellPreparation, ReserveProviderAttempt, CompleteProviderAttempt,
     RecordCellResult, CallerThrows, ledgerVars, durable
<1>3. ASSUME BooksKept, mode' # "try"
      PROVE  Protocol!CellNext
  BY <1>1, <1>2, <1>3, StagesEnd
<1> DEFINE Moved == << StageAtStep, StageAtStep' >>
<1>4. CASE PrepareArm
  <2>1. BooksKept /\ ~requested
    BY <1>4 DEF PrepareArm, BooksKept, At, Checkpointed
  <2>2. CASE mode' = "try"
    <3>1. /\ StageAtStep = "waiting" /\ StageAtStep' = "preparing"
          /\ nextOrdinal' = nextOrdinal
      BY <1>4, <2>2 DEF PrepareArm, At, Goto, CallerThrows, Throw, StageAtStep, ledgerVars,
         progress
    <3>2. PICK a \in Cells : a = nextOrdinal
      BY <1>1
    <3>3. StageOf(a) = "waiting" /\ Protocol!Move(a, "preparing")
      BY <1>1, <2>2, <3>1, <3>2, IterationMoves
    <3>4. \A d \in Cells : d < a => StageOf(d) = "finished"
      BY <1>1, <3>2 DEF StageOf, activeCell
    <3>5. Protocol!Prepare(a)
      BY <1>2, <2>1, <3>3, <3>4
      DEF BooksKept, Protocol!Prepare, Protocol!Begins, Protocol!NothingElse
    <3>6. QED
      BY <3>2, <3>5 DEF Protocol!CellNext, Protocol!OneCell
  <2>3. QED
    BY <1>3, <2>1, <2>2
<1>5. CASE RecordPreparation
  <2>1. BooksKept /\ nextOrdinal' = nextOrdinal
    BY <1>5 DEF RecordPreparation, RecordCellPreparation, BooksKept, work
  <2>2. CASE mode' = "try"
    <3>1. StageAtStep' = StageAtStep
      BY <1>5, <2>2 DEF RecordPreparation, At, Proceed, StageAtStep
    <3>2. \A c \in Cells : StageOf(c)' = StageOf(c)
      BY <1>1, <2>1, <2>2, <3>1 DEF StageOf, activeCell
    <3>3. QED
      BY <1>2, <2>1, <3>2, StagesStay
  <2>3. QED
    BY <1>3, <2>1, <2>2
<1>6. CASE Reserve \/ CompleteAttempt
  <2>1. BooksKept /\ nextOrdinal' = nextOrdinal /\ ~requested
    BY <1>6 DEF Reserve, CompleteAttempt, ReserveProviderAttempt, CompleteProviderAttempt,
       BooksKept, work, At, Checkpointed
  <2>2. CASE mode' = "try"
    <3>1. Moved \in {<<"preparing", "burned">>, <<"answered", "completed">>,
                     <<"unusable", "closing">>}
      BY <1>6, <2>2 DEF Reserve, CompleteAttempt, At, Proceed, StageAtStep
    <3>2. QED
      BY <1>1, <1>2, <2>1, <2>2, <3>1, ActiveCellMoves DEF BegunMoves
  <2>3. QED
    BY <1>3, <2>1, <2>2
<1>7. CASE SendRequest
  <2>1. /\ mode' = "try" /\ nextOrdinal' = nextOrdinal /\ ~requested
        /\ StageAtStep = "burned" /\ StageAtStep' = "sent" /\ UNCHANGED settled
    BY <1>1, <1>7 DEF SendRequest, At, Checkpointed, Goto, StageAtStep, ledgerVars, progress
  <2>2. PICK a \in Cells : a = nextOrdinal
    BY <1>1
  <2>3. StageOf(a) = "burned" /\ Protocol!Move(a, "sent")
    BY <1>1, <2>1, <2>2, IterationMoves
  <2>4. http' = [http EXCEPT ![a] = @ + 1]
    BY <1>7, <2>2 DEF SendRequest, activeCell
  <2>5. Protocol!Send(a)
    BY <1>2, <2>1, <2>3, <2>4 DEF Protocol!Send, Protocol!Begins
  <2>6. QED
    BY <2>2, <2>5 DEF Protocol!CellNext, Protocol!OneCell
<1>8. CASE ReceiveAnswer
  <2>1. /\ BooksKept /\ mode' = "try" /\ nextOrdinal' = nextOrdinal
        /\ Moved \in {<<"sent", "answered">>, <<"sent", "unusable">>}
    BY <1>1, <1>8 DEF ReceiveAnswer, Goto, StageAtStep, BooksKept, ledgerVars, progress
  <2>2. QED
    BY <1>1, <1>2, <2>1, ActiveCellMoves DEF FreeMoves
<1>9. CASE ExecuteAgentAction
  <2>1. /\ BooksKept /\ mode' = "try" /\ nextOrdinal' = nextOrdinal /\ ~requested
        /\ Moved \in {<<"completed", "acting">>, <<"completed", "closing">>}
    BY <1>1, <1>9 DEF ExecuteAgentAction, At, Checkpointed, StageAtStep, BooksKept, work,
       ledgerVars, progress
  <2>2. QED
    BY <1>1, <1>2, <2>1, ActiveCellMoves DEF BegunMoves
<1>10. CASE RunVerifier
  <2>1. /\ BooksKept /\ mode' = "try" /\ nextOrdinal' = nextOrdinal /\ ~requested
        /\ Moved \in {<<"acting", "verifying">>, <<"acting", "closing">>}
    BY <1>1, <1>10 DEF RunVerifier, At, Checkpointed, StageAtStep, BooksKept, work,
       ledgerVars, progress
  <2>2. QED
    BY <1>1, <1>2, <2>1, ActiveCellMoves DEF BegunMoves, FreeMoves
<1>11. CASE SettleTreatment
  <2>1. /\ mode' = "try" /\ nextOrdinal' = nextOrdinal /\ UNCHANGED http
        /\ StageAtStep = "verifying" /\ StageAtStep' = "closing"
    BY <1>1, <1>11 DEF SettleTreatment, At, Goto, StageAtStep, ledgerVars, progress
  <2>2. CASE settled' = settled
    <3>1. BooksKept /\ Moved \in FreeMoves
      BY <2>1, <2>2 DEF BooksKept, FreeMoves
    <3>2. QED
      BY <1>1, <1>2, <2>1, <3>1, ActiveCellMoves
  <2>3. CASE settled' = settled \cup {nextOrdinal}
    <3>1. PICK a \in Cells : a = nextOrdinal
      BY <1>1
    <3>2. StageOf(a) = "verifying" /\ Protocol!Move(a, "closing")
      BY <1>1, <2>1, <3>1, IterationMoves
    <3>3. a \in TreatmentCells
      BY <1>11, <3>1 DEF SettleTreatment, At, TypedInv
    <3>4. [c \in Cells |-> c \in settled]' = [[c \in Cells |-> c \in settled] EXCEPT ![a] = TRUE]
      <4>1. (a \in settled') = TRUE
        BY <2>3, <3>1
      <4>2. \A c \in Cells : c # a => (c \in settled') = (c \in settled)
        BY <2>3, <3>1
      <4>3. QED
        BY <4>1, <4>2
    <3>5. Protocol!Settle(a)
      BY <1>2, <2>1, <3>2, <3>3, <3>4 DEF Protocol!Settle
    <3>6. QED
      BY <3>1, <3>5 DEF Protocol!CellNext, Protocol!OneCell
  <2>4. QED
    BY <1>11, <2>2, <2>3 DEF SettleTreatment, activeCell
<1>12. CASE CloseCellResource
  <2>1. BooksKept /\ nextOrdinal' = nextOrdinal
    BY <1>12 DEF CloseCellResource, CallerThrows, BooksKept, work, ledgerVars, progress
  <2>2. CASE mode' = "try"
    <3>1. StageAtStep' = StageAtStep
      BY <1>12, <2>2 DEF CloseCellResource, CallerThrows, Throw, At, Goto, StageAtStep
    <3>2. \A c \in Cells : StageOf(c)' = StageOf(c)
      BY <1>1, <2>1, <2>2, <3>1 DEF StageOf, activeCell
    <3>3. QED
      BY <1>2, <2>1, <3>2, StagesStay
  <2>3. QED
    BY <1>3, <2>1, <2>2
<1>13. CASE RecordResult
  <2>1. BooksKept /\ ~requested
    BY <1>13 DEF RecordResult, BooksKept, At, Checkpointed
  <2>2. CASE mode' = "try"
    <3>1. /\ nextOrdinal' = nextOrdinal + 1 /\ pc' \in {"cleanup", "prepare"}
          /\ pc = "record_result"
      BY <1>13, <2>2 DEF RecordResult, RecordCellResult, Throw, Proceed, At
    <3>2. PICK a \in Cells : a = nextOrdinal
      BY <1>1
    <3>3. StageOf(a) = "closing"
      BY <1>1, <3>1, <3>2 DEF StageOf, StageAtStep, activeCell, Cells
    <3>4. StageOf(a)' = "finished"
      BY <1>1, <2>2, <3>1, <3>2 DEF StageOf, activeCell
    <3>5. ASSUME NEW c \in Cells, c # a
          PROVE  StageOf(c)' = StageOf(c)
      <4>1. c \in Nat /\ StageAtStep' = "waiting"
        BY <3>1 DEF StageAtStep, Cells
      <4>2. CASE c < nextOrdinal
        BY <1>1, <2>2, <3>1, <4>1, <4>2 DEF StageOf, activeCell
      <4>3. CASE c > nextOrdinal
        BY <1>1, <2>2, <3>1, <4>1, <4>3 DEF StageOf, activeCell
      <4>4. QED
        BY <1>1, <3>2, <3>5, <4>1, <4>2, <4>3
    <3>6. Protocol!Move(a, "finished")
      BY <3>4, <3>5 DEF Protocol!Move
    <3>7. Protocol!Finish(a)
      BY <1>2, <2>1, <3>3, <3>6
      DEF BooksKept, Protocol!Finish, Protocol!Begins, Protocol!NothingElse
    <3>8. QED
      BY <3>2, <3>7 DEF Protocol!CellNext, Protocol!OneCell
  <2>3. QED
    BY <1>3, <2>1, <2>2
<1>14. QED
  BY <1>4, <1>5, <1>6, <1>7, <1>8, <1>9, <1>10, <1>11, <1>12, <1>13 DEF CellStep

LEMMA SealStepRefines ==
  ASSUME LoopInv, SlotInv, requested \in BOOLEAN, SealStep
  PROVE  [Protocol!CellNext]_Protocol!cellVars
<1>1. BooksKept /\ requested' = requested
  BY DEF SealStep, CloseNextResource, CloseOwners, RecordCleanup, ScoreAndRecordVerdict,
     Close, VerifyFinalProvenance, FinalSign, OpenManifest, SyncManifest, CommitManifest,
     WithdrawManifest, ReturnResult, BooksKept, work
<1>2. UNCHANGED << slot, nextOrdinal >>
  BY DEF SealStep, CloseNextResource, CloseOwners, RecordCleanup, ScoreAndRecordVerdict,
     Close, VerifyFinalProvenance, FinalSign, OpenManifest, SyncManifest, CommitManifest,
     WithdrawManifest, ReturnResult, RecordResourceCleanup, RecordVerdict, CloseRun,
     OpenFinalManifest, SyncFinalManifest, CommitFinalManifest, WithdrawFinalManifest,
     CallerThrows, CallerReturns, ledgerVars, durable, progress
<1>3. CASE CloseNextResource
  <2>1. UNCHANGED << mode, pc, answer >>
    BY <1>3 DEF CloseNextResource, ledgerVars, work
  <2>2. \A c \in Cells : StageOf(c)' = StageOf(c)
    BY <1>2, <2>1 DEF StageOf, StageAtStep, activeCell
  <2>3. QED
    BY <1>1, <2>2, StagesStay
<1>4. CASE CloseOwners /\ pc = "abort_cleanup"
  <2>1. UNCHANGED << mode, pc, answer >>
    BY <1>4 DEF CloseOwners, ledgerVars, work
  <2>2. \A c \in Cells : StageOf(c)' = StageOf(c)
    BY <1>2, <2>1 DEF StageOf, StageAtStep, activeCell
  <2>3. QED
    BY <1>1, <2>2, StagesStay
<1>5. CASE pc \in SealSteps /\ mode' = "try"
  <2>1. mode = "try" /\ pc' \in SealSteps
    <3>1. pc' \in SealSteps
      BY <1>5 DEF SealStep, CloseNextResource, CloseOwners, RecordCleanup,
         ScoreAndRecordVerdict, Close, VerifyFinalProvenance, FinalSign, OpenManifest,
         SyncManifest, CommitManifest, WithdrawManifest, ReturnResult, WithdrawFinalManifest,
         CallerThrows, CallerReturns, Throw, Goto, Proceed, SealSteps
    <3>2. QED
      BY <1>5, <3>1 DEF LoopInv
  <2>2. StageAtStep = "waiting" /\ StageAtStep' = "waiting"
    BY <1>5, <2>1 DEF StageAtStep, SealSteps
  <2>3. \A c \in Cells : StageOf(c)' = StageOf(c)
    BY <1>2, <1>5, <2>1, <2>2 DEF StageOf, activeCell
  <2>4. QED
    BY <1>1, <2>3, StagesStay
<1>6. CASE pc \in SealSteps /\ mode' # "try"
  <2>1. slot'
    BY <1>2, <1>6 DEF LoopInv, SlotInv
  <2>2. QED
    BY <1>1, <1>6, <2>1, StagesEnd
<1>7. pc \in SealSteps \/ CloseNextResource \/ (CloseOwners /\ pc = "abort_cleanup")
  BY DEF SealStep, CloseOwners, Completing, RecordCleanup, ScoreAndRecordVerdict, Close,
     VerifyFinalProvenance, FinalSign, OpenManifest, SyncManifest, CommitManifest,
     WithdrawManifest, ReturnResult, At, SealSteps
<1>8. QED
  BY <1>3, <1>4, <1>5, <1>6, <1>7

\* Outside its try block the run only takes the slot or leaves the cells alone.
LEMMA OutsideTryRefines ==
  ASSUME SlotInv, mode' # "try", slot => slot', BooksKept, requested' = requested
  PROVE  [Protocol!CellNext]_Protocol!cellVars
<1>1. CASE slot'
  BY <1>1, StagesEnd
<1>2. CASE ~slot' /\ mode # "try"
  <2>1. \A c \in Cells : StageOf(c)' = StageOf(c)
    BY <1>2 DEF StageOf
  <2>2. QED
    BY <2>1, StagesStay
<1>3. QED
  BY <1>1, <1>2 DEF SlotInv

LEMMA RunStepRefines ==
  ASSUME TypeInv, SlotInv, FreshInv, LoopInv, TypedInv, [RunNext]_runVars
  PROVE  [Protocol!CellNext]_Protocol!cellVars
<1>0. requested \in BOOLEAN /\ slot \in BOOLEAN
  BY DEF TypedInv, RunTypeOK, LedgerTypeOK
<1>1. CASE CellStep
  BY <1>1, CellStepRefines
<1>2. CASE SealStep
  BY <1>0, <1>2, SealStepRefines
<1>3. CASE Validate \/ VerifyProvenance \/ Begin
  <2>1. BooksKept /\ requested' = requested
    BY <1>3 DEF Validate, VerifyProvenance, Begin, BooksKept, work
  <2>2. mode # "try"
    BY <1>3 DEF Validate, VerifyProvenance, Begin, At, LoopInv, CellSteps, SealSteps
  <2>3. slot => slot'
    BY <1>3 DEF Validate, VerifyProvenance, Begin, BeginPilotRunLedger, RefuseBegin,
       ledgerVars, durable
  <2>4. CASE mode' # "try"
    BY <2>1, <2>3, <2>4, OutsideTryRefines
  <2>5. CASE mode' = "try"
    <3>1. ~slot /\ nextOrdinal' = 1 /\ pc' = "prepare"
      BY <1>3, <2>2, <2>5 DEF Validate, VerifyProvenance, Begin, BeginPilotRunLedger,
         RefuseBegin, FreshInv, ledgerVars, progress
    <3>2. \A c \in Cells : StageOf(c) = "waiting" /\ StageOf(c)' = "waiting"
      BY <2>2, <2>5, <3>1 DEF StageOf, StageAtStep, activeCell, Cells
    <3>3. QED
      BY <2>1, <3>2, StagesStay
  <2>6. QED
    BY <2>4, <2>5
<1>4. CASE FailureStep
  <2>1. BooksKept /\ requested' = requested
    BY <1>4 DEF FailureStep, StepThrows, CheckpointThrows, Abort, FailWithoutLedger, AbortSign,
       AbortPersist, DisposeAll, BooksKept, work
  <2>2. UNCHANGED slot
    BY <1>4 DEF FailureStep, StepThrows, CheckpointThrows, Abort, FailWithoutLedger, AbortSign,
       AbortPersist, DisposeAll, CallerThrows, CallerReturns, AbortRun, PersistAbortManifest,
       ledgerVars, durable
  <2>3. mode' # "try"
    BY <1>4 DEF FailureStep, StepThrows, CheckpointThrows, Abort, FailWithoutLedger, AbortSign,
       AbortPersist, DisposeAll, CallerThrows, CallerReturns, AbortRun, PersistAbortManifest,
       Throw, LoopInv, CellSteps, SealSteps, ledgerVars
  <2>4. QED
    BY <2>1, <2>2, <2>3, OutsideTryRefines
<1>5. CASE SignalArrives \/ UNCHANGED runVars
  <2>1. BooksKept /\ requested' \in {requested, TRUE} /\ UNCHANGED << mode, slot, nextOrdinal, pc, answer >>
    BY <1>5 DEF SignalArrives, BooksKept, work, runVars, ledgerVars, durable, progress
  <2>2. \A c \in Cells : StageOf(c)' = StageOf(c)
    BY <2>1 DEF StageOf, StageAtStep, activeCell
  <2>3. QED
    BY <2>1, <2>2, StagesStay
<1>6. CASE ProcessDies
  <2>1. BooksKept /\ requested' = requested /\ UNCHANGED slot /\ mode' # "try"
    BY <1>6 DEF ProcessDies, BooksKept, work, durable
  <2>2. QED
    BY <2>1, OutsideTryRefines
<1>7. CASE StartAgain
  <2>1. BooksKept /\ requested' = FALSE /\ UNCHANGED slot
    BY <1>7 DEF StartAgain, Restart, BooksKept, durable
  <2>2. mode = "ended" /\ mode' = "starting"
    BY <1>7 DEF StartAgain, Restart
  <2>3. \A c \in Cells : StageOf(c)' = StageOf(c) /\ StageOf(c) \in {"waiting", "over"}
    BY <2>1, <2>2 DEF StageOf
  <2>4. Protocol!Restart
    BY <2>1, <2>3 DEF BooksKept, Protocol!Restart, Protocol!NothingElse
  <2>5. QED
    BY <2>4 DEF Protocol!CellNext
<1>8. QED
  BY <1>1, <1>2, <1>3, <1>4, <1>5, <1>6, <1>7 DEF RunNext, RunnerStep

LEMMA LoopInvHolds == RunSpec => []LoopInv
<1>1. RunInit => LoopInv
  BY DEF RunInit, LedgerInit, LoopInv, CellSteps, SealSteps
<1>2. LoopInv /\ CellInv' /\ [RunNext]_runVars => LoopInv'
  BY LoopStep
<1>3. RunInv => CellInv
  BY DEF RunInv
<1>4. QED
  BY <1>1, <1>2, <1>3, RunInvHolds, PTL DEF RunSpec

\* The run takes its cells one after the other and each by the steps of CellProtocol,
\* whatever is thrown, signalled or killed.
THEOREM RunImplementsCellProtocol == RunSpec => ImplementsCellProtocol
<1>1. RunInit => Protocol!CellInit
  <2> SUFFICES ASSUME RunInit
               PROVE  Protocol!CellInit
    OBVIOUS
  <2>1. \A c \in Cells : StageOf(c) = "waiting"
    BY DEF RunInit, LedgerInit, StageOf
  <2>2. [c \in Cells |-> c \in settled] = [c \in Cells |-> FALSE]
    <3>1. \A c \in Cells : (c \in settled) = FALSE
      BY DEF RunInit
    <3>2. QED
      BY <3>1
  <2>3. [c \in Cells |-> c \in TreatmentCells] \in [Cells -> BOOLEAN]
    OBVIOUS
  <2>4. QED
    BY <2>1, <2>2, <2>3 DEF RunInit, Protocol!CellInit
<1>2. LedgerFacts /\ LoopInv /\ RunnerInv /\ [RunNext]_runVars
        => [Protocol!CellNext]_Protocol!cellVars
  BY RunStepRefines DEF LedgerFacts, LedgerInv, RunnerInv
<1>3. QED
  BY <1>1, <1>2, LedgerFactsHold, LoopInvHolds, RunnerInvHolds, PTL
  DEF RunSpec, ImplementsCellProtocol, Protocol!CellSpec

(***************************************************************************)
(* What a reader of CellProtocol concludes from its steps, in the run: one *)
(* request at most per cell, none before it is burned, a settlement only   *)
(* of a treatment that was answered and verified, no cell begun before the *)
(* earlier ones are finished.                                              *)
(***************************************************************************)
Requested == Protocol!Requested

CellPromiseHere ==
  /\ \A c \in Cells :
       /\ http[c] \in 0 .. 1
       /\ StageOf(c) \in {"waiting", "preparing", "burned"} => http[c] = 0
       /\ StageOf(c) \in Requested => http[c] = 1
       /\ c \in settled => c \in TreatmentCells /\ http[c] = 1
       /\ c \in settled => StageOf(c) \in {"closing", "finished", "over"}
  /\ \A c, d \in Cells :
       d < c /\ StageOf(c) \notin {"waiting", "over"} => StageOf(d) = "finished"

\* The promise without its mapping.
LEMMA PromiseUnmapped ==
  /\ Protocol!CellPromise <=> CellPromiseHere
  /\ Protocol!CellPromise' <=> CellPromiseHere'
BY DEF Protocol!CellPromise, CellPromiseHere, Requested

\* A stage moves alone.
LEMMA MoveUnmapped ==
  ASSUME NEW a \in Cells, NEW next, Protocol!Move(a, next)
  PROVE  /\ StageOf(a)' = next
         /\ \A c \in Cells : c # a => StageOf(c)' = StageOf(c)
<1> DEFINE f == [c \in Cells |-> StageOf(c)]
<1>1. f' = [f EXCEPT ![a] = next]
  BY DEF Protocol!Move
<1>2. \A c \in Cells : f[c] = StageOf(c) /\ f'[c] = StageOf(c)'
  OBVIOUS
<1>3. f'[a] = next /\ \A c \in Cells : c # a => f'[c] = f[c]
  BY <1>1
<1>4. QED
  BY <1>2, <1>3

LEMMA CellPromiseStep ==
  ASSUME CellPromiseHere, [Protocol!CellNext]_Protocol!cellVars, RunTypeOK
  PROVE  CellPromiseHere'
<1> USE DEF CellPromiseHere, Requested, Protocol!Requested
<1>0. http \in [Cells -> Nat] /\ Cells \subseteq Nat
  BY DEF RunTypeOK, Cells
<1> DEFINE f == [c \in Cells |-> StageOf(c)]
           g == [c \in Cells |-> c \in settled]
<1>1. ASSUME f' = f
      PROVE  \A c \in Cells : StageOf(c)' = StageOf(c)
  <2>1. \A c \in Cells : f[c] = StageOf(c) /\ f'[c] = StageOf(c)'
    OBVIOUS
  <2>2. QED
    BY <1>1, <2>1
<1>2. ASSUME g' = g
      PROVE  \A c \in Cells : (c \in settled') = (c \in settled)
  <2>1. \A c \in Cells : g[c] = (c \in settled) /\ g'[c] = (c \in settled')
    OBVIOUS
  <2>2. QED
    BY <1>2, <2>1
<1> HIDE DEF f, g
<1>3. CASE UNCHANGED Protocol!cellVars \/ Protocol!Cancel \/ Protocol!Restart
  <2>1. f' = f /\ g' = g /\ http' = http
    BY <1>3 DEF f, g, Protocol!cellVars, Protocol!Cancel, Protocol!Restart,
       Protocol!NothingElse
  <2>2. QED
    BY <1>1, <1>2, <2>1
<1>4. CASE Protocol!End
  <2>1. g' = g /\ http' = http
    BY <1>4 DEF g, Protocol!End, Protocol!NothingElse
  <2>2. \A c \in Cells : StageOf(c)' = "over"
    <3>1. f' = [c \in Cells |-> "over"]
      BY <1>4 DEF f, Protocol!End
    <3>2. \A c \in Cells : f'[c] = StageOf(c)'
      BY DEF f
    <3>3. QED
      BY <3>1, <3>2
  <2>3. QED
    BY <1>2, <2>1, <2>2
<1>5. ASSUME NEW a \in Cells, Protocol!OneCell(a)
      PROVE  CellPromiseHere'
  <2>1. ASSUME NEW next, Protocol!Move(a, next), Protocol!NothingElse,
               \/ /\ StageOf(a) = "waiting" /\ next = "preparing"
                  /\ \A d \in Cells : d < a => StageOf(d) = "finished"
               \/ StageOf(a) = "preparing" /\ next = "burned"
               \/ /\ StageOf(a) \in Requested \ {"finished"} /\ next \in Requested
                  /\ StageOf(a) = "closing" => next = "finished"
        PROVE  CellPromiseHere'
    <3>1. g' = g /\ http' = http
      BY <2>1 DEF g, Protocol!NothingElse
    <3>2. /\ StageOf(a)' = next
          /\ \A c \in Cells : c # a => StageOf(c)' = StageOf(c)
      BY <2>1, MoveUnmapped
    <3>3. \A c \in Cells : (c \in settled') = (c \in settled)
      BY <1>2, <3>1
    <3>4. \A c \in Cells :
            /\ http[c]' \in 0 .. 1
            /\ StageOf(c)' \in {"waiting", "preparing", "burned"} => http[c]' = 0
            /\ StageOf(c)' \in Requested => http[c]' = 1
            /\ c \in settled' => c \in TreatmentCells /\ http[c]' = 1
            /\ c \in settled' => StageOf(c)' \in {"closing", "finished", "over"}
      BY <2>1, <3>1, <3>2, <3>3
    <3>5. ASSUME NEW c \in Cells, NEW d \in Cells, d < c,
                 StageOf(c)' \notin {"waiting", "over"}
          PROVE  StageOf(d)' = "finished"
      <4>1. c # d
        BY <1>0, <3>5
      <4>2. StageOf(d) = "finished"
        BY <2>1, <3>2, <3>5
      <4>3. QED
        BY <2>1, <3>2, <4>1, <4>2
    <3>6. QED
      BY <3>4, <3>5
  <2>2. CASE Protocol!Send(a)
    <3>1. g' = g /\ http' = [http EXCEPT ![a] = @ + 1]
      BY <2>2 DEF g, Protocol!Send
    <3>2. /\ StageOf(a) = "burned" /\ StageOf(a)' = "sent"
          /\ \A c \in Cells : c # a => StageOf(c)' = StageOf(c)
      BY <2>2, MoveUnmapped DEF Protocol!Send
    <3>3. \A c \in Cells : (c \in settled') = (c \in settled)
      BY <1>2, <3>1
    <3>4. http[a] = 0 /\ http'[a] = 1 /\ \A c \in Cells : c # a => http'[c] = http[c]
      BY <1>0, <3>1, <3>2
    <3>5. QED
      BY <1>0, <3>2, <3>3, <3>4
  <2>3. CASE Protocol!Settle(a)
    <3>1. http' = http /\ a \in TreatmentCells
      BY <2>3 DEF Protocol!Settle
    <3>2. /\ StageOf(a) = "verifying" /\ StageOf(a)' = "closing"
          /\ \A c \in Cells : c # a => StageOf(c)' = StageOf(c)
      BY <2>3, MoveUnmapped DEF Protocol!Settle
    <3>3. \A c \in Cells : c # a => (c \in settled') = (c \in settled)
      <4>1. g' = [g EXCEPT ![a] = TRUE]
        BY <2>3 DEF g, Protocol!Settle
      <4>2. \A c \in Cells : g[c] = (c \in settled) /\ g'[c] = (c \in settled')
        BY DEF g
      <4>3. \A c \in Cells : c # a => g'[c] = g[c]
        BY <4>1 DEF g
      <4>4. QED
        BY <4>2, <4>3
    <3>4. QED
      BY <1>0, <3>1, <3>2, <3>3
  <2>4. CASE Protocol!Prepare(a)
    <3>1. /\ StageOf(a) = "waiting" /\ Protocol!Move(a, "preparing") /\ Protocol!NothingElse
          /\ \A d \in Cells : d < a => StageOf(d) = "finished"
      BY <2>4 DEF Protocol!Prepare
    <3>2. QED
      BY <2>1, <3>1
  <2>5. CASE Protocol!Burn(a) \/ Protocol!Answer(a) \/ Protocol!Complete(a) \/ Protocol!Act(a)
             \/ Protocol!Verify(a) \/ Protocol!Conclude(a) \/ Protocol!Finish(a)
    <3>1. PICK next : /\ Protocol!Move(a, next) /\ Protocol!NothingElse
                      /\ \/ StageOf(a) = "preparing" /\ next = "burned"
                         \/ /\ StageOf(a) \in Requested \ {"finished"} /\ next \in Requested
                            /\ StageOf(a) = "closing" => next = "finished"
      BY <2>5 DEF Protocol!Burn, Protocol!Answer, Protocol!Complete, Protocol!Act,
         Protocol!Verify, Protocol!Conclude, Protocol!Finish
    <3>2. QED
      BY <2>1, <3>1
  <2>6. QED
    BY <1>5, <2>2, <2>3, <2>4, <2>5 DEF Protocol!OneCell
<1>6. QED
  BY <1>3, <1>4, <1>5 DEF Protocol!CellNext

\* In a whole run no cell is sent twice or before it is burned, none is counted as
\* settled that was not a treatment, sent and answered, and none is begun before the
\* earlier ones are finished.
THEOREM RunKeepsCellPromise == RunSpec => []Protocol!CellPromise
<1>1. RunInit => CellPromiseHere
  BY DEF RunInit, LedgerInit, StageOf, CellPromiseHere, Requested, Protocol!Requested
<1>2. CellPromiseHere /\ RunTypeOK /\ [Protocol!CellNext]_Protocol!cellVars
      => CellPromiseHere'
  BY CellPromiseStep
<1>3. CellPromiseHere => Protocol!CellPromise
  BY PromiseUnmapped
<1>4. QED
  BY <1>1, <1>2, <1>3, RunImplementsCellProtocol, RunTypes, PTL
  DEF RunSpec, ImplementsCellProtocol, Protocol!CellSpec

=============================================================================
