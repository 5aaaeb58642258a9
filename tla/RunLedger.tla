------------------------------ MODULE RunLedger ------------------------------
(***************************************************************************)
(* The durable ledger of one pilot run (src/src/pilot-run-ledger.mjs).     *)
(*                                                                         *)
(* Every ledger operation is one action: mutationQueue runs operations one *)
(* at a time.  An operation appends its event files one after the other    *)
(* and may fail at any of them, leaving on disk the files it had already   *)
(* written; each such prefix is an alternative of the action.  A crash in  *)
(* the middle of an operation is that same prefix followed by Crash.       *)
(*                                                                         *)
(* The caller is the executable pilot runner: the first operation that     *)
(* throws takes it to its catch block, whose only ledger calls are abortRun*)
(* and persistAbortManifest.  The variable mode is that posture.           *)
(***************************************************************************)
EXTENDS SealedReplay

VARIABLES
  mode,            \* the caller: "starting", "try", "catch" or "ended"
  \* durable state
  slot,            \* the pilot-index file of this pilot_id exists
  events,          \* event files written, fsynced and acknowledged, in order
  stray,           \* what event file sequence+1 holds after a failed append
  finalFile,       \* final-manifest.json: "absent", "partial" or "whole"
  abortFile,       \* abort-manifest.json: "absent", "partial" or "whole"
  \* the ledger's own memory
  nextOrdinal,     \* next cell; nextOrdinal - 1 results are recorded
  attempt,         \* progress of the active cell (see AttemptPhases)
  cleanupReceipt,  \* a confirmed cleanup receipt is recorded
  verdict,         \* a verdict is recorded
  closed,
  abortClosure,    \* run_aborted is recorded
  finalManifestPersisted,
  abortManifestPersisted

durable == << slot, events, stray, finalFile, abortFile >>
progress == << nextOrdinal, attempt, cleanupReceipt, verdict >>
seals == << closed, abortClosure, finalManifestPersisted, abortManifestPersisted >>
ledgerVars == << mode, durable, progress, seals >>

NoFile == [kind |-> "none", cell |-> NoCell]

Modes == {"starting", "try", "catch", "ended"}

(***************************************************************************)
(* The fields of the active record that are filled in.  "answered": the    *)
(* completion is set, its event not yet (completeProviderAttempt sets      *)
(* providerCompletion before it appends).                                  *)
(***************************************************************************)
AttemptPhases == {"none", "prepared", "reserved", "answered", "completed"}

\* Fault: a reservation without an answer is reported as not reserved.
StatedAttemptUnburned ==
  IF attempt = "none" THEN "no_active_attempt"
  ELSE IF attempt \in {"prepared", "reserved"} THEN "prepared_not_reserved"
  ELSE "provider_completed_pending_cell_result"

StatedAttempt ==
  CASE attempt = "none"     -> "no_active_attempt"
    [] attempt = "prepared" -> "prepared_not_reserved"
    [] attempt = "reserved" -> "request_may_have_started_burned"
    [] OTHER                -> "provider_completed_pending_cell_result"

FileStates == {"absent", "partial", "whole"}

\* The event files a reader finds: a stray one sits right after the last
\* acknowledged one.
EventFiles == IF stray = NoFile THEN events ELSE Append(events, stray)

LedgerInit ==
  /\ mode = "starting"
  /\ slot = FALSE
  /\ events = << >>
  /\ stray = NoFile
  /\ finalFile = "absent"
  /\ abortFile = "absent"
  /\ nextOrdinal = 1
  /\ attempt = "none"
  /\ cleanupReceipt = FALSE
  /\ verdict = FALSE
  /\ closed = FALSE
  /\ abortClosure = FALSE
  /\ finalManifestPersisted = FALSE
  /\ abortManifestPersisted = FALSE

-----------------------------------------------------------------------------
(***************************************************************************)
(* appendEvent.  Acknowledged: the file is whole and fsynced and the       *)
(* in-memory sequence advanced.  Failed: the file was never created (the   *)
(* payload artifact or the open failed), or it stays behind torn, or it    *)
(* stays behind whole (fsync or directory fsync failed).  A file already   *)
(* at the next sequence number makes the append fail and is left alone.    *)
(***************************************************************************)
AppendEvent(e) ==
  /\ stray = NoFile
  /\ events' = Append(events, e)
  /\ UNCHANGED stray

FailAppend(e) ==
  /\ UNCHANGED events
  /\ IF stray = NoFile
     THEN stray' \in {NoFile, TornFile, e}
     ELSE UNCHANGED stray

\* The first event of two is acknowledged and the second is not.
FailSecondAppend(first, second) ==
  /\ stray = NoFile
  /\ events' = Append(events, first)
  /\ stray' \in {NoFile, TornFile, second}

Throw == mode' = "catch"

-----------------------------------------------------------------------------
(***************************************************************************)
(* beginPilotRunLedgerV1: claim the pilot's slot exclusively, make the run *)
(* directory, append run_started.  Without all three there is no ledger    *)
(* object and the caller cannot even abort.                                *)
(***************************************************************************)
Started == StepEvent("run_started", NoCell)

\* Fault: an existing slot is taken over.
BeginPilotRunLedgerAgain ==
  /\ mode = "starting"
  /\ slot' = TRUE
  /\ AppendEvent(Started)
  /\ mode' = "try"
  /\ UNCHANGED << finalFile, abortFile, progress, seals >>

BeginPilotRunLedger ==
  /\ mode = "starting"
  /\ ~slot
  /\ slot' = TRUE
  /\ \/ /\ AppendEvent(Started)
        /\ mode' = "try"
     \/ /\ FailAppend(Started)
        /\ mode' = "ended"
  /\ UNCHANGED << finalFile, abortFile, progress, seals >>

\* pilot_already_started, or a failure before the slot file exists.
RefuseBegin ==
  /\ mode = "starting"
  /\ mode' = "ended"
  /\ UNCHANGED << durable, progress, seals >>

RecordCellPreparation ==
  LET prepared == StepEvent("cell_arm_prepared", nextOrdinal)
      frozen   == StepEvent("model_input_frozen", nextOrdinal)
  IN  /\ mode = "try"
      /\ ~closed /\ ~verdict /\ attempt = "none"
      /\ nextOrdinal \in Cells
      /\ \/ /\ stray = NoFile
            /\ events' = events \o << prepared, frozen >>
            /\ attempt' = "prepared"
            /\ UNCHANGED << mode, stray >>
         \/ /\ FailAppend(prepared) \/ FailSecondAppend(prepared, frozen)
            /\ Throw
            /\ UNCHANGED attempt
      /\ UNCHANGED << slot, finalFile, abortFile,
                      nextOrdinal, cleanupReceipt, verdict, seals >>

ReserveProviderAttempt ==
  LET reserved == StepEvent("provider_attempt_reserved", nextOrdinal)
      started  == StepEvent("provider_request_started", nextOrdinal)
  IN  /\ mode = "try"
      /\ ~closed /\ ~verdict /\ attempt = "prepared"
      /\ \/ /\ stray = NoFile
            /\ events' = events \o << reserved, started >>
            /\ attempt' = "reserved"
            /\ UNCHANGED << mode, stray >>
         \/ /\ FailAppend(reserved) \/ FailSecondAppend(reserved, started)
            /\ Throw
            /\ UNCHANGED attempt
      /\ UNCHANGED << slot, finalFile, abortFile,
                      nextOrdinal, cleanupReceipt, verdict, seals >>

\* providerCompletion is assigned before the append, its event after it.
CompleteProviderAttempt ==
  LET done == StepEvent("provider_attempt_completed", nextOrdinal)
  IN  /\ mode = "try"
      /\ attempt \in {"reserved", "answered"}
      /\ \/ /\ AppendEvent(done)
            /\ attempt' = "completed"
            /\ UNCHANGED mode
         \/ /\ FailAppend(done)
            /\ attempt' = "answered"
            /\ Throw
      /\ UNCHANGED << slot, finalFile, abortFile,
                      nextOrdinal, cleanupReceipt, verdict, seals >>

RecordCellResult ==
  LET result == StepEvent("cell_result_recorded", nextOrdinal)
  IN  /\ mode = "try"
      /\ attempt = "completed"
      /\ \/ /\ AppendEvent(result)
            /\ nextOrdinal' = nextOrdinal + 1
            /\ attempt' = "none"
            /\ UNCHANGED mode
         \/ /\ FailAppend(result)
            /\ Throw
            /\ UNCHANGED << nextOrdinal, attempt >>
      /\ UNCHANGED << slot, finalFile, abortFile, cleanupReceipt, verdict, seals >>

\* Fault: only the absence of an active cell is checked.
SomeCellsRecorded == attempt = "none"

AllCellsRecorded == attempt = "none" /\ nextOrdinal = CellCount + 1

RecordResourceCleanup ==
  LET confirmed == StepEvent("resource_cleanup_confirmed", NoCell)
  IN  /\ mode = "try"
      /\ ~closed /\ ~verdict /\ ~cleanupReceipt /\ AllCellsRecorded
      /\ \/ /\ AppendEvent(confirmed)
            /\ cleanupReceipt' = TRUE
            /\ UNCHANGED mode
         \/ /\ FailAppend(confirmed)
            /\ Throw
            /\ UNCHANGED cleanupReceipt
      /\ UNCHANGED << slot, finalFile, abortFile,
                      nextOrdinal, attempt, verdict, seals >>

RecordVerdict ==
  LET scored == StepEvent("verdict_recorded", NoCell)
  IN  /\ mode = "try"
      /\ ~closed /\ ~verdict /\ cleanupReceipt /\ AllCellsRecorded
      /\ \/ /\ AppendEvent(scored)
            /\ verdict' = TRUE
            /\ UNCHANGED mode
         \/ /\ FailAppend(scored)
            /\ Throw
            /\ UNCHANGED verdict
      /\ UNCHANGED << slot, finalFile, abortFile,
                      nextOrdinal, attempt, cleanupReceipt, seals >>

CloseRun ==
  LET closing == StepEvent("run_closed", NoCell)
  IN  /\ mode = "try"
      /\ ~closed /\ verdict /\ attempt = "none"
      /\ \/ /\ AppendEvent(closing)
            /\ closed' = TRUE
            /\ UNCHANGED mode
         \/ /\ FailAppend(closing)
            /\ Throw
            /\ UNCHANGED closed
      /\ UNCHANGED << slot, finalFile, abortFile, progress,
                      abortClosure, finalManifestPersisted, abortManifestPersisted >>

(***************************************************************************)
(* abortRun.  It does not look at closed: a run that was closed normally   *)
(* may still be aborted until its final manifest is committed.  The failing*)
(* cell is the active one or, when no cell is active, the next one or null.*)
(* confirmed is the verdict of the cleanup receipt, which must be the      *)
(* recorded one when there is one.                                         *)
(***************************************************************************)
AbortAllowed(failingCell, confirmed) ==
  /\ ~abortClosure /\ ~finalManifestPersisted /\ ~abortManifestPersisted
  /\ IF attempt = "none"
     THEN failingCell = NoCell \/ failingCell \in Cells \cap {nextOrdinal}
     ELSE failingCell = nextOrdinal
  /\ cleanupReceipt => confirmed

AbortRun(failingCell, confirmed) ==
  LET aborted == AbortEvent(failingCell, nextOrdinal - 1, StatedAttempt, confirmed)
  IN  /\ mode = "catch"
      /\ \/ /\ AbortAllowed(failingCell, confirmed)
            /\ AppendEvent(aborted)
            /\ abortClosure' = TRUE
            /\ closed' = TRUE
            /\ UNCHANGED mode
         \/ /\ IF AbortAllowed(failingCell, confirmed)
               THEN FailAppend(aborted)
               ELSE UNCHANGED << events, stray >>
            /\ mode' = "ended"      \* run_abort_event_persist_failed
            /\ UNCHANGED << abortClosure, closed >>
      /\ UNCHANGED << slot, finalFile, abortFile, progress,
                      finalManifestPersisted, abortManifestPersisted >>

-----------------------------------------------------------------------------
(***************************************************************************)
(* persistFinalManifest.  A signed manifest names the chain head its       *)
(* signer replayed, so one exists only for a log that replays completed.   *)
(* Opening the file, finishing it (write, fsync, directory fsync) and the  *)
(* commit are separate steps: signals, crashes and readers fall between.   *)
(***************************************************************************)
FinalManifestAdmitted ==
  /\ closed /\ verdict /\ ~abortClosure /\ ~finalManifestPersisted
  /\ ReplaysCompleted(EventFiles)

OpenFinalManifest ==
  /\ mode = "try"
  /\ FinalManifestAdmitted
  /\ finalFile = "absent"
  /\ finalFile' = "partial"
  /\ UNCHANGED << mode, slot, events, stray, abortFile, progress, seals >>

SyncFinalManifest ==
  /\ mode = "try"
  /\ finalFile = "partial"
  /\ finalFile' = "whole"
  /\ UNCHANGED << mode, slot, events, stray, abortFile, progress, seals >>

\* Fault: the commit does not wait for the fsync.
CommitFinalManifestEarly ==
  /\ mode = "try"
  /\ finalFile # "absent"
  /\ finalManifestPersisted' = TRUE
  /\ UNCHANGED << mode, durable, progress, closed, abortClosure, abortManifestPersisted >>

CommitFinalManifest ==
  /\ mode = "try"
  /\ finalFile = "whole"
  /\ finalManifestPersisted' = TRUE
  /\ UNCHANGED << mode, durable, progress, closed, abortClosure, abortManifestPersisted >>

\* Fault: a committed manifest may still be removed.
WithdrawCommittedManifest ==
  /\ mode = "try"
  /\ finalFile # "absent"
  /\ finalFile' \in {"absent", finalFile}
  /\ Throw
  /\ UNCHANGED << slot, events, stray, abortFile, progress, seals >>

\* A failed write or a refused commit removes the file; the removal may fail.
WithdrawFinalManifest ==
  /\ mode = "try"
  /\ finalFile # "absent"
  /\ ~finalManifestPersisted
  /\ finalFile' \in {"absent", finalFile}
  /\ Throw
  /\ UNCHANGED << slot, events, stray, abortFile, progress, seals >>

\* persistAbortManifest: an abort manifest exists only for a log that replays
\* aborted; a failed exclusive write leaves whatever it had written.
PersistAbortManifest ==
  /\ mode = "catch"
  /\ closed /\ abortClosure /\ ~finalManifestPersisted /\ ~abortManifestPersisted
  /\ ReplaysAborted(EventFiles)
  /\ abortFile = "absent"
  /\ \/ /\ abortFile' = "whole"
        /\ abortManifestPersisted' = TRUE
     \/ /\ abortFile' \in FileStates
        /\ UNCHANGED abortManifestPersisted
  /\ mode' = "ended"
  /\ UNCHANGED << slot, events, stray, finalFile, progress,
                  closed, abortClosure, finalManifestPersisted >>

-----------------------------------------------------------------------------
\* Anything else the caller awaits inside its try block throws.
CallerThrows ==
  /\ mode = "try"
  /\ ~finalManifestPersisted
  /\ finalFile = "absent"
  /\ Throw
  /\ UNCHANGED << durable, progress, seals >>

\* The caller returns after the commit, or gives up in its catch block.
CallerReturns ==
  /\ \/ mode = "try" /\ finalManifestPersisted
     \/ mode = "catch" /\ abortClosure
  /\ mode' = "ended"
  /\ UNCHANGED << durable, progress, seals >>

Crash ==
  /\ mode # "ended"
  /\ mode' = "ended"
  /\ UNCHANGED << durable, progress, seals >>

\* A new process is started with the same plan and authority root.
Restart ==
  /\ mode = "ended"
  /\ mode' = "starting"
  /\ UNCHANGED durable
  /\ nextOrdinal' = 1
  /\ attempt' = "none"
  /\ cleanupReceipt' = FALSE
  /\ verdict' = FALSE
  /\ closed' = FALSE
  /\ abortClosure' = FALSE
  /\ finalManifestPersisted' = FALSE
  /\ abortManifestPersisted' = FALSE

LedgerNext ==
  \/ BeginPilotRunLedger
  \/ RefuseBegin
  \/ RecordCellPreparation
  \/ ReserveProviderAttempt
  \/ CompleteProviderAttempt
  \/ RecordCellResult
  \/ RecordResourceCleanup
  \/ RecordVerdict
  \/ CloseRun
  \/ \E c \in Cells \cup {NoCell}, confirmed \in BOOLEAN : AbortRun(c, confirmed)
  \/ OpenFinalManifest
  \/ SyncFinalManifest
  \/ CommitFinalManifest
  \/ WithdrawFinalManifest
  \/ PersistAbortManifest
  \/ CallerThrows
  \/ CallerReturns
  \/ Crash
  \/ Restart

LedgerSpec == LedgerInit /\ [][LedgerNext]_ledgerVars

-----------------------------------------------------------------------------
(* Properties *)

\* Type invariant of the ledger's memory and of the files it owns.
LedgerTypeOK ==
  /\ mode \in Modes
  /\ slot \in BOOLEAN
  /\ events \in Seq(Events)
  /\ stray \in Events \cup {NoFile, TornFile}
  /\ finalFile \in FileStates
  /\ abortFile \in FileStates
  /\ nextOrdinal \in 1..(CellCount + 1)
  /\ attempt \in AttemptPhases
  /\ cleanupReceipt \in BOOLEAN
  /\ verdict \in BOOLEAN
  /\ closed \in BOOLEAN
  /\ abortClosure \in BOOLEAN
  /\ finalManifestPersisted \in BOOLEAN
  /\ abortManifestPersisted \in BOOLEAN

\* A run the caller closed without a fault replays completed: the guards of
\* the ledger operations admit exactly the order the sealed replay demands, so
\* the final signer's replay never fails on an undisturbed run.
ClosedRunReplays ==
  mode = "try" /\ closed => ReplaysCompleted(EventFiles)

\* A committed final manifest stands on a log that replays completed and
\* shares its directory with no abort manifest (persistFinalManifest against
\* abortRun, which does not look at closed).
CommittedClaimStands ==
  finalManifestPersisted =>
    /\ finalFile = "whole"
    /\ abortFile = "absent"
    /\ ReplaysCompleted(EventFiles)

\* Whatever failed or crashed, an abort manifest is only ever found beside a
\* log that replays aborted, in this process or a later one.
AbortManifestStands ==
  abortFile # "absent" => ReplaysAborted(EventFiles)

\* The two manifests never contradict the log they stand on, nor each other.
ManifestsStand == CommittedClaimStands /\ AbortManifestStands

\* A log that replays aborted states exactly the provider attempts that were
\* burned: one reservation for every durable request-started event.  The
\* stated completions never fall short of the durable ones; they exceed them
\* by one when only the completion's append failed.
AbortStatesBurnedAttempts ==
  ReplaysAborted(EventFiles) =>
    LET last == EventFiles[Len(EventFiles)]
    IN  /\ StatedReservations(last) =
             OccurrencesOf("provider_request_started", EventFiles)
        /\ StatedCompletions(last) -
             OccurrencesOf("provider_attempt_completed", EventFiles) \in {0, 1}

\* No cell's provider attempt is ever reserved twice, on any path through
\* failures and restarts: the budget of scored attempts is not exceeded.
OneReservationPerCell ==
  \A c \in Cells :
    Cardinality({i \in DOMAIN EventFiles :
      EventFiles[i] = StepEvent("provider_attempt_reserved", c)}) <= 1

\* Nobody resumes or rewrites a run whose process ended: with the slot taken,
\* a process that is not the run's own changes none of its files
\* (restart_policy forbid_same_pilot_id_within_signed_authority_root).
NoResume ==
  [][slot /\ mode \in {"ended", "starting"} => UNCHANGED durable]_ledgerVars

(***************************************************************************)
(* What a reader of the directory concludes (verifySealedPilotRunV1 reads  *)
(* the manifest its replay calls for).  While the writer may still remove  *)
(* an uncommitted final manifest the claim is only offered; once it cannot,*)
(* committed or not, the claim is there for good.                          *)
(***************************************************************************)
AuditedOutcome ==
  IF ReplaysCompleted(EventFiles) /\ finalFile = "whole"
  THEN IF finalManifestPersisted \/ mode \in {"ended", "starting"}
       THEN "claimed" ELSE "offered"
  ELSE IF ReplaysAborted(EventFiles) /\ abortFile = "whole"
  THEN "aborted"
  ELSE "open"

Audit == INSTANCE PilotOutcome WITH outcome <- AuditedOutcome

\* The ledger keeps the promise of PilotOutcome to every later reader: a
\* sealed outcome is final and a run is never both claimed and aborted.
ImplementsPilotOutcome == Audit!OutcomeSpec

=============================================================================
