--------------------------- MODULE RunLedgerProofs ---------------------------
(***************************************************************************)
(* Proofs about RunLedger for every number of cells.                       *)
(***************************************************************************)
EXTENDS RunLedger, FiniteSetTheorems, TLAPS

(***************************************************************************)
(* The inductive invariant.  TypeOK alone is not inductive: nextOrdinal    *)
(* stays in range only because an active attempt has a cell.               *)
(***************************************************************************)
TypeInv ==
  /\ LedgerTypeOK
  /\ attempt # "none" => nextOrdinal \in Cells

\* Until the slot is taken there is no file, and a run past its manifests is
\* out of every writer's reach.
SlotInv ==
  /\ ~slot => /\ events = << >> /\ stray = NoFile
              /\ finalFile = "absent" /\ abortFile = "absent"
  /\ mode \in {"try", "catch"} => slot /\ abortFile = "absent"

\* A ledger object that has not begun remembers nothing.
FreshInv ==
  mode = "starting" =>
    /\ nextOrdinal = 1 /\ attempt = "none"
    /\ ~cleanupReceipt /\ ~verdict /\ ~closed /\ ~abortClosure
    /\ ~finalManifestPersisted /\ ~abortManifestPersisted

Offset ==
  CASE attempt = "none"      -> 0
    [] attempt = "prepared"  -> 2
    [] attempt = "completed" -> 5
    [] OTHER                 -> 4

One(flag) == IF flag THEN 1 ELSE 0

\* In the try block the files are exactly what the ledger remembers.
Remembered ==
  Position(nextOrdinal, Offset) + One(cleanupReceipt) + One(verdict) + One(closed)

TryInv ==
  mode = "try" =>
    /\ stray = NoFile
    /\ Len(events) = Remembered
    /\ ConformsUpTo(events, Len(events))
    /\ ~abortClosure
    /\ cleanupReceipt => AllCellsRecorded
    /\ verdict => cleanupReceipt
    /\ closed => verdict

\* A final manifest in the hands of its writer lies beside a completed log.
ManifestInv ==
  /\ mode = "try" /\ finalFile # "absent" => closed
  /\ finalManifestPersisted =>
       /\ mode \in {"try", "ended"}
       /\ finalFile = "whole" /\ abortFile = "absent"
       /\ ReplaysCompleted(EventFiles)

\* Every reservation on disk is the third event of its own cell.
WellPlaced(log) ==
  \A i \in DOMAIN log, c \in Cells :
    log[i] = StepEvent("provider_attempt_reserved", c) => i = Position(c, 3)

ReservationInv == WellPlaced(EventFiles)

LedgerInv ==
  /\ TypeInv
  /\ SlotInv
  /\ FreshInv
  /\ TryInv
  /\ ManifestInv
  /\ AbortManifestStands
  /\ ReservationInv

-----------------------------------------------------------------------------
(* Types *)

\* The events the ledger operations append are events of the grammar.
LEMMA EventKinds ==
  /\ StepEvent("run_started", NoCell) \in Events
  /\ \A c \in Cells, j \in 1..6 : StepEvent(CellKinds[j], c) \in Events
  /\ \A j \in 1..3 : StepEvent(TailKinds[j], NoCell) \in Events
BY DEF StepEvent, Events, StepEvents, CellKinds, TailKinds

\* The grammar's kinds, by position.
LEMMA KindAt ==
  /\ CellKinds[1] = "cell_arm_prepared"
  /\ CellKinds[2] = "model_input_frozen"
  /\ CellKinds[3] = "provider_attempt_reserved"
  /\ CellKinds[4] = "provider_request_started"
  /\ CellKinds[5] = "provider_attempt_completed"
  /\ CellKinds[6] = "cell_result_recorded"
  /\ TailKinds[1] = "resource_cleanup_confirmed"
  /\ TailKinds[2] = "verdict_recorded"
  /\ TailKinds[3] = "run_closed"
BY DEF CellKinds, TailKinds

LEMMA OperationEvents ==
  /\ Started \in Events
  /\ \A c \in Cells :
       /\ StepEvent("cell_arm_prepared", c) \in Events
       /\ StepEvent("model_input_frozen", c) \in Events
       /\ StepEvent("provider_attempt_reserved", c) \in Events
       /\ StepEvent("provider_request_started", c) \in Events
       /\ StepEvent("provider_attempt_completed", c) \in Events
       /\ StepEvent("cell_result_recorded", c) \in Events
  /\ StepEvent("resource_cleanup_confirmed", NoCell) \in Events
  /\ StepEvent("verdict_recorded", NoCell) \in Events
  /\ StepEvent("run_closed", NoCell) \in Events
<1>1. 1 \in 1..6 /\ 2 \in 1..6 /\ 3 \in 1..6 /\ 4 \in 1..6 /\ 5 \in 1..6 /\ 6 \in 1..6
  OBVIOUS
<1>2. 1 \in 1..3 /\ 2 \in 1..3 /\ 3 \in 1..3
  OBVIOUS
<1>3. QED
  BY <1>1, <1>2, EventKinds, KindAt DEF Started

\* The abort event states a legal count and a legal attempt state.
LEMMA AbortEventTyped ==
  ASSUME TypeInv, NEW c \in Cells \cup {NoCell}, NEW b \in BOOLEAN
  PROVE  AbortEvent(c, nextOrdinal - 1, StatedAttempt, b) \in Events
<1>1. nextOrdinal - 1 \in 0..CellCount
  BY CellCountAssumption DEF TypeInv, LedgerTypeOK
<1>2. StatedAttempt \in AttemptStates
  BY DEF StatedAttempt, AttemptStates
<1>3. QED
  BY <1>1, <1>2 DEF AbortEvent, Events, AbortEvents

LEMMA FirstOrdinal == 1 \in 1..(CellCount + 1)
BY CellCountAssumption

\* An operation's append, whole or failed, keeps the files typed.
LEMMA AppendTyped ==
  ASSUME LedgerTypeOK, NEW e \in Events, AppendEvent(e) \/ FailAppend(e)
  PROVE  /\ events' \in Seq(Events)
         /\ stray' \in Events \cup {NoFile, TornFile}
BY DEF LedgerTypeOK, AppendEvent, FailAppend

LEMMA PairTyped ==
  ASSUME LedgerTypeOK, NEW e \in Events, NEW f \in Events
  PROVE  /\ events \o << e, f >> \in Seq(Events)
         /\ FailSecondAppend(e, f) =>
              /\ events' \in Seq(Events)
              /\ stray' \in Events \cup {NoFile, TornFile}
BY DEF LedgerTypeOK, FailSecondAppend

LEMMA InitTyped == LedgerInit => TypeInv
<1>1. << >> \in Seq(Events)
  OBVIOUS
<1>2. QED
  BY <1>1, FirstOrdinal
  DEF LedgerInit, TypeInv, LedgerTypeOK, Modes, FileStates, AttemptPhases

LEMMA TypeStep == TypeInv /\ [LedgerNext]_ledgerVars => TypeInv'
<1> SUFFICES ASSUME TypeInv, [LedgerNext]_ledgerVars
             PROVE  TypeInv'
  OBVIOUS
<1> USE DEF TypeInv
<1>0. LedgerTypeOK
  OBVIOUS
<1>1. CASE BeginPilotRunLedger
  <2>1. events' \in Seq(Events) /\ stray' \in Events \cup {NoFile, TornFile}
    BY <1>0, <1>1, AppendTyped, OperationEvents DEF BeginPilotRunLedger
  <2>2. QED
    BY <1>0, <1>1, <2>1 DEF BeginPilotRunLedger, LedgerTypeOK, Modes, progress, seals
<1>2. CASE RefuseBegin
  BY <1>0, <1>2 DEF RefuseBegin, LedgerTypeOK, Modes, durable, progress, seals
<1>3. CASE RecordCellPreparation
  <2>1. events' \in Seq(Events) /\ stray' \in Events \cup {NoFile, TornFile}
    <3>1. nextOrdinal \in Cells
      BY <1>3 DEF RecordCellPreparation
    <3>2. /\ StepEvent("cell_arm_prepared", nextOrdinal) \in Events
          /\ StepEvent("model_input_frozen", nextOrdinal) \in Events
      BY <3>1, OperationEvents
    <3>3. QED
      BY <1>0, <1>3, <3>2, AppendTyped, PairTyped DEF RecordCellPreparation, LedgerTypeOK
  <2>2. QED
    BY <1>0, <1>3, <2>1 DEF RecordCellPreparation, LedgerTypeOK, Modes, Throw,
                            AttemptPhases, seals
<1>4. CASE ReserveProviderAttempt
  <2>1. events' \in Seq(Events) /\ stray' \in Events \cup {NoFile, TornFile}
    <3>1. nextOrdinal \in Cells
      BY <1>4 DEF ReserveProviderAttempt
    <3>2. /\ StepEvent("provider_attempt_reserved", nextOrdinal) \in Events
          /\ StepEvent("provider_request_started", nextOrdinal) \in Events
      BY <3>1, OperationEvents
    <3>3. QED
      BY <1>0, <1>4, <3>2, AppendTyped, PairTyped DEF ReserveProviderAttempt, LedgerTypeOK
  <2>2. QED
    BY <1>0, <1>4, <2>1 DEF ReserveProviderAttempt, LedgerTypeOK, Modes, Throw,
                            AttemptPhases, seals
<1>5. CASE CompleteProviderAttempt
  <2>1. events' \in Seq(Events) /\ stray' \in Events \cup {NoFile, TornFile}
    <3>1. StepEvent("provider_attempt_completed", nextOrdinal) \in Events
      BY <1>5, OperationEvents DEF CompleteProviderAttempt
    <3>2. QED
      BY <1>0, <1>5, <3>1, AppendTyped DEF CompleteProviderAttempt
  <2>2. QED
    BY <1>0, <1>5, <2>1 DEF CompleteProviderAttempt, LedgerTypeOK, Modes, Throw,
                            AttemptPhases, seals
<1>6. CASE RecordCellResult
  <2>1. nextOrdinal \in Cells
    BY <1>6 DEF RecordCellResult
  <2>2. events' \in Seq(Events) /\ stray' \in Events \cup {NoFile, TornFile}
    <3>1. StepEvent("cell_result_recorded", nextOrdinal) \in Events
      BY <2>1, OperationEvents
    <3>2. QED
      BY <1>0, <1>6, <3>1, AppendTyped DEF RecordCellResult
  <2>3. nextOrdinal + 1 \in 1..(CellCount + 1)
    BY <2>1, CellCountAssumption DEF Cells
  <2>4. QED
    BY <1>0, <1>6, <2>1, <2>2, <2>3 DEF RecordCellResult, LedgerTypeOK, Modes, Throw,
                                  AttemptPhases, seals
<1>7. CASE RecordResourceCleanup
  <2>1. events' \in Seq(Events) /\ stray' \in Events \cup {NoFile, TornFile}
    BY <1>0, <1>7, AppendTyped, OperationEvents DEF RecordResourceCleanup
  <2>2. QED
    BY <1>0, <1>7, <2>1 DEF RecordResourceCleanup, LedgerTypeOK, Modes, Throw, seals
<1>8. CASE RecordVerdict
  <2>1. events' \in Seq(Events) /\ stray' \in Events \cup {NoFile, TornFile}
    BY <1>0, <1>8, AppendTyped, OperationEvents DEF RecordVerdict
  <2>2. QED
    BY <1>0, <1>8, <2>1 DEF RecordVerdict, LedgerTypeOK, Modes, Throw, seals
<1>9. CASE CloseRun
  <2>1. events' \in Seq(Events) /\ stray' \in Events \cup {NoFile, TornFile}
    BY <1>0, <1>9, AppendTyped, OperationEvents DEF CloseRun
  <2>2. QED
    BY <1>0, <1>9, <2>1 DEF CloseRun, LedgerTypeOK, Modes, Throw, progress
<1>10. ASSUME NEW c \in Cells \cup {NoCell}, NEW confirmed \in BOOLEAN,
              AbortRun(c, confirmed)
       PROVE  TypeInv'
  <2>1. events' \in Seq(Events) /\ stray' \in Events \cup {NoFile, TornFile}
    <3>1. AbortEvent(c, nextOrdinal - 1, StatedAttempt, confirmed) \in Events
      BY AbortEventTyped
    <3>2. CASE UNCHANGED << events, stray >>
      BY <1>0, <3>2 DEF LedgerTypeOK
    <3>3. QED
      BY <1>0, <1>10, <3>1, <3>2, AppendTyped DEF AbortRun
  <2>2. QED
    BY <1>0, <1>10, <2>1 DEF AbortRun, LedgerTypeOK, Modes, progress
<1>11. CASE OpenFinalManifest
  BY <1>0, <1>11 DEF OpenFinalManifest, LedgerTypeOK, FileStates, progress, seals
<1>12. CASE SyncFinalManifest
  BY <1>0, <1>12 DEF SyncFinalManifest, LedgerTypeOK, FileStates, progress, seals
<1>13. CASE CommitFinalManifest
  BY <1>0, <1>13 DEF CommitFinalManifest, LedgerTypeOK, durable, progress
<1>14. CASE WithdrawFinalManifest
  BY <1>0, <1>14 DEF WithdrawFinalManifest, LedgerTypeOK, FileStates, Modes, Throw,
                     progress, seals
<1>15. CASE PersistAbortManifest
  BY <1>0, <1>15 DEF PersistAbortManifest, LedgerTypeOK, FileStates, Modes, progress
<1>16. CASE CallerThrows
  BY <1>0, <1>16 DEF CallerThrows, LedgerTypeOK, Modes, Throw, durable, progress, seals
<1>17. CASE CallerReturns
  BY <1>0, <1>17 DEF CallerReturns, LedgerTypeOK, Modes, durable, progress, seals
<1>18. CASE Crash
  BY <1>0, <1>18 DEF Crash, LedgerTypeOK, Modes, durable, progress, seals
<1>19. CASE Restart
  BY <1>0, <1>19, FirstOrdinal
  DEF Restart, LedgerTypeOK, Modes, AttemptPhases, durable
<1>20. CASE UNCHANGED ledgerVars
  BY <1>0, <1>20 DEF LedgerTypeOK, ledgerVars, durable, progress, seals
<1>21. QED
  BY <1>1, <1>2, <1>3, <1>4, <1>5, <1>6, <1>7, <1>8, <1>9, <1>10, <1>11, <1>12,
     <1>13, <1>14, <1>15, <1>16, <1>17, <1>18, <1>19, <1>20 DEF LedgerNext

\* The ledger's memory and files are always well-typed, whatever fails, crashes
\* or restarts: in particular it never prepares a cell past the schedule.
THEOREM LedgerTyped == LedgerSpec => []LedgerTypeOK
<1>1. LedgerInit => TypeInv
  BY InitTyped
<1>2. TypeInv /\ [LedgerNext]_ledgerVars => TypeInv'
  BY TypeStep
<1>3. TypeInv => LedgerTypeOK
  BY DEF TypeInv
<1>4. QED
  BY <1>1, <1>2, <1>3, PTL DEF LedgerSpec

-----------------------------------------------------------------------------
(* Positions in the log, and appending the event that belongs there *)

LEMMA PositionUnique ==
  ASSUME NEW c \in Cells, NEW d \in Cells, NEW j \in 1..6, NEW k \in 1..6
  PROVE  /\ Position(c, j) = Position(d, k) => c = d /\ j = k
         /\ Position(c, j) \in 2..BodyEnd
BY CellCountAssumption DEF Position, BodyEnd, Cells

LEMMA AppendFacts ==
  ASSUME NEW log \in Seq(Events), NEW e \in Events
  PROVE  /\ Append(log, e) \in Seq(Events)
         /\ Len(Append(log, e)) = Len(log) + 1
         /\ Append(log, e)[Len(log) + 1] = e
         /\ \A i \in 1..Len(log) : Append(log, e)[i] = log[i]
OBVIOUS

\* A log that conforms still does after the event that belongs at its end.
LEMMA ConformsAppend ==
  ASSUME NEW log \in Seq(Events), NEW e \in Events,
         Len(log) >= 1, ConformsUpTo(log, Len(log)),
         \A c \in Cells, j \in 1..6 :
           Position(c, j) = Len(log) + 1 => e = StepEvent(CellKinds[j], c),
         \A j \in 1..3 :
           BodyEnd + j = Len(log) + 1 => e = StepEvent(TailKinds[j], NoCell)
  PROVE  ConformsUpTo(Append(log, e), Len(log) + 1)
<1> DEFINE new == Append(log, e)
<1>1. /\ new[Len(log) + 1] = e
      /\ \A i \in 1..Len(log) : new[i] = log[i]
  BY AppendFacts
<1>2. new[1] = StepEvent("run_started", NoCell)
  BY <1>1 DEF ConformsUpTo
<1>3. ASSUME NEW c \in Cells, NEW j \in 1..6, Position(c, j) <= Len(log) + 1
      PROVE  new[Position(c, j)] = StepEvent(CellKinds[j], c)
  <2>1. Position(c, j) \in 1..(Len(log) + 1)
    BY <1>3, PositionUnique
  <2>2. CASE Position(c, j) = Len(log) + 1
    BY <1>1, <2>2
  <2>3. CASE Position(c, j) # Len(log) + 1
    BY <1>1, <2>1, <2>3 DEF ConformsUpTo
  <2>4. QED
    BY <2>2, <2>3
<1>4. ASSUME NEW j \in 1..3, BodyEnd + j <= Len(log) + 1
      PROVE  new[BodyEnd + j] = StepEvent(TailKinds[j], NoCell)
  <2>1. BodyEnd + j \in 1..(Len(log) + 1)
    BY <1>4, CellCountAssumption DEF BodyEnd
  <2>2. CASE BodyEnd + j = Len(log) + 1
    BY <1>1, <2>2
  <2>3. CASE BodyEnd + j # Len(log) + 1
    BY <1>1, <2>1, <2>3 DEF ConformsUpTo
  <2>4. QED
    BY <2>2, <2>3
<1>5. QED
  BY <1>2, <1>3, <1>4 DEF ConformsUpTo

LEMMA AppendCellEvent ==
  ASSUME NEW log \in Seq(Events), Len(log) >= 1, ConformsUpTo(log, Len(log)),
         NEW c \in Cells, NEW j \in 1..6, Len(log) + 1 = Position(c, j)
  PROVE  ConformsUpTo(Append(log, StepEvent(CellKinds[j], c)), Len(log) + 1)
<1>1. StepEvent(CellKinds[j], c) \in Events
  BY EventKinds
<1>2. \A d \in Cells, k \in 1..6 :
        Position(d, k) = Len(log) + 1 =>
          StepEvent(CellKinds[j], c) = StepEvent(CellKinds[k], d)
  <2>1. ASSUME NEW d \in Cells, NEW k \in 1..6, Position(d, k) = Len(log) + 1
        PROVE  d = c /\ k = j
    <3>1. Position(d, k) = Position(c, j)
      BY <2>1
    <3>2. QED
      BY <2>1, <3>1, CellCountAssumption DEF Position, Cells
  <2>2. QED
    BY <2>1
<1>3. \A k \in 1..3 : BodyEnd + k # Len(log) + 1
  BY PositionUnique, CellCountAssumption DEF BodyEnd
<1>4. QED
  BY <1>1, <1>2, <1>3, ConformsAppend

LEMMA AppendTailEvent ==
  ASSUME NEW log \in Seq(Events), Len(log) >= 1, ConformsUpTo(log, Len(log)),
         NEW j \in 1..3, Len(log) + 1 = BodyEnd + j
  PROVE  ConformsUpTo(Append(log, StepEvent(TailKinds[j], NoCell)), Len(log) + 1)
<1>1. StepEvent(TailKinds[j], NoCell) \in Events
  BY EventKinds
<1>2. \A d \in Cells, k \in 1..6 : Position(d, k) # Len(log) + 1
  BY PositionUnique, CellCountAssumption DEF BodyEnd
<1>3. \A k \in 1..3 :
        BodyEnd + k = Len(log) + 1 => k = j
  BY CellCountAssumption DEF BodyEnd
<1>4. QED
  BY <1>1, <1>2, <1>3, ConformsAppend

-----------------------------------------------------------------------------
(* The slot *)

LEMMA SlotStep == SlotInv /\ [LedgerNext]_ledgerVars => SlotInv'
<1> SUFFICES ASSUME SlotInv, [LedgerNext]_ledgerVars
             PROVE  SlotInv'
  OBVIOUS
<1> USE DEF SlotInv
<1>1. CASE BeginPilotRunLedger
  BY <1>1 DEF BeginPilotRunLedger
<1>2. CASE RefuseBegin
  BY <1>2 DEF RefuseBegin, durable
<1>3. CASE \/ RecordCellPreparation \/ ReserveProviderAttempt
           \/ CompleteProviderAttempt \/ RecordCellResult
           \/ RecordResourceCleanup \/ RecordVerdict \/ CloseRun
  BY <1>3 DEF RecordCellPreparation, ReserveProviderAttempt, CompleteProviderAttempt,
              RecordCellResult, RecordResourceCleanup, RecordVerdict, CloseRun, Throw
<1>4. CASE \E c \in Cells \cup {NoCell}, confirmed \in BOOLEAN : AbortRun(c, confirmed)
  BY <1>4 DEF AbortRun
<1>5. CASE \/ OpenFinalManifest \/ SyncFinalManifest
           \/ CommitFinalManifest \/ WithdrawFinalManifest
  BY <1>5 DEF OpenFinalManifest, SyncFinalManifest, CommitFinalManifest,
              WithdrawFinalManifest, Throw, durable
<1>6. CASE PersistAbortManifest
  BY <1>6 DEF PersistAbortManifest
<1>7. CASE CallerThrows \/ CallerReturns \/ Crash \/ Restart
  BY <1>7 DEF CallerThrows, CallerReturns, Crash, Restart, Throw, durable
<1>8. CASE UNCHANGED ledgerVars
  BY <1>8 DEF ledgerVars, durable
<1>9. QED
  BY <1>1, <1>2, <1>3, <1>4, <1>5, <1>6, <1>7, <1>8 DEF LedgerNext

LEMMA FreshStep == FreshInv /\ [LedgerNext]_ledgerVars => FreshInv'
<1> SUFFICES ASSUME FreshInv, [LedgerNext]_ledgerVars, mode' = "starting"
             PROVE  FreshInv'
  BY DEF FreshInv
<1>1. Restart \/ UNCHANGED ledgerVars
  BY DEF LedgerNext, BeginPilotRunLedger, RefuseBegin, RecordCellPreparation,
     ReserveProviderAttempt, CompleteProviderAttempt, RecordCellResult,
     RecordResourceCleanup, RecordVerdict, CloseRun, AbortRun, OpenFinalManifest,
     SyncFinalManifest, CommitFinalManifest, WithdrawFinalManifest, PersistAbortManifest,
     CallerThrows, CallerReturns, Crash, Throw
<1>2. QED
  BY <1>1 DEF Restart, FreshInv, ledgerVars, progress, seals

-----------------------------------------------------------------------------
(* The try block remembers the log *)

\* Where the operations of a well-behaved run append.
LEMMA NextPosition ==
  ASSUME TypeInv, TryInv, mode = "try"
  PROVE  /\ ~AllCellsRecorded =>
              /\ nextOrdinal \in Cells
              /\ ~cleanupReceipt /\ ~verdict /\ ~closed
              /\ Len(events) = Position(nextOrdinal, Offset)
         /\ AllCellsRecorded =>
              Len(events) = BodyEnd + One(cleanupReceipt) + One(verdict) + One(closed)
         /\ Len(events) >= 1
BY CellCountAssumption
DEF TypeInv, LedgerTypeOK, TryInv, Remembered, AllCellsRecorded, Cells, Position, BodyEnd,
    Offset, One

\* What every successful operation needs of the log it appends to.
LEMMA TryLog ==
  ASSUME TypeInv, TryInv, mode = "try"
  PROVE  /\ events \in Seq(Events)
         /\ Len(events) \in Nat /\ Len(events) >= 1
         /\ ConformsUpTo(events, Len(events))
         /\ stray = NoFile
BY NextPosition DEF TypeInv, LedgerTypeOK, TryInv

LEMMA AppendCellPair ==
  ASSUME TypeInv, TryInv, mode = "try",
         NEW c \in Cells, NEW j \in 1..6, NEW k \in 1..6, k = j + 1,
         Len(events) + 1 = Position(c, j),
         NEW e, e = StepEvent(CellKinds[j], c), NEW f, f = StepEvent(CellKinds[k], c),
         events' = events \o << e, f >>
  PROVE  /\ Len(events') = Len(events) + 2
         /\ ConformsUpTo(events', Len(events'))
<1> DEFINE one == Append(events, e)
<1>1. e \in Events /\ f \in Events
  BY EventKinds
<1>2. one \in Seq(Events) /\ Len(one) = Len(events) + 1 /\ Len(one) >= 1
  BY <1>1, TryLog
<1>3. ConformsUpTo(one, Len(one))
  BY <1>2, TryLog, AppendCellEvent
<1>4. ConformsUpTo(Append(one, f), Len(one) + 1)
  <2>1. Len(one) + 1 = Position(c, k)
    BY <1>2, TryLog DEF Position, Cells
  <2>2. QED
    BY <1>2, <1>3, <2>1, AppendCellEvent
<1>5. events' = Append(one, f)
  BY <1>1, TryLog
<1>6. Len(events') = Len(one) + 1
  BY <1>1, <1>2, <1>5
<1>7. Len(events') = Len(events) + 2
  BY <1>2, <1>6, TryLog
<1>8. QED
  BY <1>4, <1>5, <1>6, <1>7

\* A successful single append of the event that belongs next.
LEMMA AppendNext ==
  ASSUME TypeInv, TryInv, mode = "try", NEW e,
         events' = Append(events, e),
         \/ \E c \in Cells, j \in 1..6 :
              Len(events) + 1 = Position(c, j) /\ e = StepEvent(CellKinds[j], c)
         \/ \E j \in 1..3 :
              Len(events) + 1 = BodyEnd + j /\ e = StepEvent(TailKinds[j], NoCell)
  PROVE  /\ Len(events') = Len(events) + 1
         /\ ConformsUpTo(events', Len(events'))
<1>1. e \in Events
  BY EventKinds
<1>2. Len(events') = Len(events) + 1
  BY <1>1, TryLog
<1>3. ConformsUpTo(events', Len(events) + 1)
  BY TryLog, AppendCellEvent, AppendTailEvent
<1>4. QED
  BY <1>2, <1>3

\* As long as nothing has thrown, the files are what the ledger remembers.
LEMMA TryStep ==
  TypeInv /\ SlotInv /\ FreshInv /\ TryInv /\ [LedgerNext]_ledgerVars => TryInv'
<1> SUFFICES ASSUME TypeInv, SlotInv, FreshInv, TryInv, [LedgerNext]_ledgerVars,
                    mode' = "try"
             PROVE  TryInv'
  BY DEF TryInv
<1>1. CASE BeginPilotRunLedger
  <2>1. events' = << Started >> /\ stray' = NoFile
    BY <1>1 DEF BeginPilotRunLedger, AppendEvent, SlotInv
  <2>2. Len(events') = 1 /\ events'[1] = Started
    BY <2>1
  <2>3. ConformsUpTo(events', 1)
    <3>1. \A c \in Cells, j \in 1..6 : ~(Position(c, j) <= 1)
      BY PositionUnique, CellCountAssumption DEF BodyEnd
    <3>2. \A j \in 1..3 : ~(BodyEnd + j <= 1)
      BY CellCountAssumption DEF BodyEnd
    <3>3. QED
      BY <2>2, <3>1, <3>2 DEF ConformsUpTo, Started
  <2>4. Remembered' = 1 /\ ~abortClosure' /\ ~cleanupReceipt' /\ ~verdict' /\ ~closed'
    BY <1>1 DEF BeginPilotRunLedger, FreshInv, Remembered, Position, Offset, One,
                progress, seals
  <2>5. QED
    BY <2>1, <2>2, <2>3, <2>4 DEF TryInv
<1>2. CASE RecordCellPreparation
  <2>1. /\ mode = "try" /\ attempt = "none" /\ attempt' = "prepared"
        /\ nextOrdinal \in Cells
        /\ events' = events \o << StepEvent("cell_arm_prepared", nextOrdinal),
                                  StepEvent("model_input_frozen", nextOrdinal) >>
        /\ UNCHANGED << stray, nextOrdinal, cleanupReceipt, verdict, seals >>
    BY <1>2 DEF RecordCellPreparation, Throw
  <2>2. /\ ~cleanupReceipt /\ ~verdict /\ ~closed
        /\ Len(events) + 1 = Position(nextOrdinal, 1)
    BY <2>1, NextPosition, CellCountAssumption
    DEF AllCellsRecorded, Cells, Offset, Position
  <2>3. Len(events') = Len(events) + 2 /\ ConformsUpTo(events', Len(events'))
    <3>1. 1 \in 1..6 /\ 2 \in 1..6 /\ 2 = 1 + 1
      OBVIOUS
    <3>2. QED
      BY <2>1, <2>2, <3>1, AppendCellPair, KindAt
  <2>4. QED
    BY <2>1, <2>2, <2>3, TryLog
    DEF TryInv, Remembered, Position, Offset, One, Cells, seals
<1>3. CASE ReserveProviderAttempt
  <2>1. /\ mode = "try" /\ attempt = "prepared" /\ attempt' = "reserved"
        /\ events' = events \o << StepEvent("provider_attempt_reserved", nextOrdinal),
                                  StepEvent("provider_request_started", nextOrdinal) >>
        /\ UNCHANGED << stray, nextOrdinal, cleanupReceipt, verdict, seals >>
    BY <1>3 DEF ReserveProviderAttempt, Throw
  <2>2. /\ ~cleanupReceipt /\ ~verdict /\ ~closed /\ nextOrdinal \in Cells
        /\ Len(events) + 1 = Position(nextOrdinal, 3)
    <3>1. Offset = 2 /\ ~AllCellsRecorded
      BY <2>1 DEF Offset, AllCellsRecorded
    <3>2. /\ ~cleanupReceipt /\ ~verdict /\ ~closed /\ nextOrdinal \in Cells
          /\ Len(events) = Position(nextOrdinal, 2)
      BY <2>1, <3>1, NextPosition
    <3>3. QED
      BY <3>2 DEF Position, Cells
  <2>3. Len(events') = Len(events) + 2 /\ ConformsUpTo(events', Len(events'))
    <3>1. 3 \in 1..6 /\ 4 \in 1..6 /\ 4 = 3 + 1
      OBVIOUS
    <3>2. QED
      BY <2>1, <2>2, <3>1, AppendCellPair, KindAt
  <2>4. Remembered' = Position(nextOrdinal, 4)
    <3>1. Offset' = 4
      BY <2>1 DEF Offset
    <3>2. QED
      BY <2>1, <2>2, <3>1 DEF Remembered, One, seals, Position, Cells
  <2>5. Len(events') = Remembered'
    BY <2>2, <2>3, <2>4, TryLog DEF Position, Cells
  <2>6. QED
    BY <2>1, <2>2, <2>3, <2>5, TryLog DEF TryInv, seals
<1>4. CASE CompleteProviderAttempt
  <2>1. /\ mode = "try" /\ attempt \in {"reserved", "answered"} /\ attempt' = "completed"
        /\ events' = Append(events, StepEvent("provider_attempt_completed", nextOrdinal))
        /\ UNCHANGED << stray, nextOrdinal, cleanupReceipt, verdict, seals >>
    BY <1>4 DEF CompleteProviderAttempt, AppendEvent, Throw
  <2>2. /\ ~cleanupReceipt /\ ~verdict /\ ~closed /\ nextOrdinal \in Cells
        /\ Len(events) + 1 = Position(nextOrdinal, 5)
    <3>1. Offset = 4 /\ ~AllCellsRecorded
      BY <2>1 DEF Offset, AllCellsRecorded
    <3>2. QED
      BY <2>1, <3>1, NextPosition DEF Position, Cells
  <2>3. Len(events') = Len(events) + 1 /\ ConformsUpTo(events', Len(events'))
    BY <2>1, <2>2, AppendNext, KindAt
  <2>4. QED
    BY <2>1, <2>2, <2>3, TryLog
    DEF TryInv, Remembered, Position, Offset, One, Cells, seals
<1>5. CASE RecordCellResult
  <2>1. /\ mode = "try" /\ attempt = "completed" /\ attempt' = "none"
        /\ nextOrdinal' = nextOrdinal + 1
        /\ events' = Append(events, StepEvent("cell_result_recorded", nextOrdinal))
        /\ UNCHANGED << stray, cleanupReceipt, verdict, seals >>
    BY <1>5 DEF RecordCellResult, AppendEvent, Throw
  <2>2. /\ ~cleanupReceipt /\ ~verdict /\ ~closed /\ nextOrdinal \in Cells
        /\ Len(events) + 1 = Position(nextOrdinal, 6)
    BY <2>1, NextPosition DEF AllCellsRecorded, Offset, Position, Cells
  <2>3. Len(events') = Len(events) + 1 /\ ConformsUpTo(events', Len(events'))
    BY <2>1, <2>2, AppendNext, KindAt
  <2>4. QED
    BY <2>1, <2>2, <2>3, TryLog
    DEF TryInv, Remembered, Position, Offset, One, Cells, seals
<1>6. CASE RecordResourceCleanup
  <2>1. /\ mode = "try" /\ AllCellsRecorded /\ ~cleanupReceipt /\ ~verdict /\ ~closed
        /\ cleanupReceipt'
        /\ events' = Append(events, StepEvent("resource_cleanup_confirmed", NoCell))
        /\ UNCHANGED << stray, nextOrdinal, attempt, verdict, seals >>
    BY <1>6 DEF RecordResourceCleanup, AppendEvent, Throw
  <2>2. Len(events) + 1 = BodyEnd + 1
    BY <2>1, NextPosition, CellCountAssumption DEF One, BodyEnd
  <2>3. Len(events') = Len(events) + 1 /\ ConformsUpTo(events', Len(events'))
    BY <2>1, <2>2, AppendNext, KindAt
  <2>4. QED
    BY <2>1, <2>2, <2>3, TryLog, CellCountAssumption
    DEF TryInv, Remembered, Position, Offset, One, BodyEnd, AllCellsRecorded, seals
<1>7. CASE RecordVerdict
  <2>1. /\ mode = "try" /\ AllCellsRecorded /\ cleanupReceipt /\ ~verdict /\ ~closed
        /\ verdict'
        /\ events' = Append(events, StepEvent("verdict_recorded", NoCell))
        /\ UNCHANGED << stray, nextOrdinal, attempt, cleanupReceipt, seals >>
    BY <1>7 DEF RecordVerdict, AppendEvent, Throw
  <2>2. Len(events) + 1 = BodyEnd + 2
    BY <2>1, NextPosition, CellCountAssumption DEF One, BodyEnd
  <2>3. Len(events') = Len(events) + 1 /\ ConformsUpTo(events', Len(events'))
    BY <2>1, <2>2, AppendNext, KindAt
  <2>4. QED
    BY <2>1, <2>2, <2>3, TryLog, CellCountAssumption
    DEF TryInv, Remembered, Position, Offset, One, BodyEnd, AllCellsRecorded, seals
<1>8. CASE CloseRun
  <2>1. /\ mode = "try" /\ verdict /\ ~closed /\ closed'
        /\ events' = Append(events, StepEvent("run_closed", NoCell))
        /\ UNCHANGED << stray, progress, abortClosure >>
    BY <1>8 DEF CloseRun, AppendEvent, Throw
  <2>2. /\ AllCellsRecorded /\ cleanupReceipt
        /\ Len(events) + 1 = BodyEnd + 3
    BY <2>1, NextPosition, CellCountAssumption DEF TryInv, One, BodyEnd
  <2>3. Len(events') = Len(events) + 1 /\ ConformsUpTo(events', Len(events'))
    BY <2>1, <2>2, AppendNext, KindAt
  <2>4. QED
    BY <2>1, <2>2, <2>3, TryLog, CellCountAssumption
    DEF TryInv, Remembered, Position, Offset, One, BodyEnd, AllCellsRecorded, progress
<1>9. CASE OpenFinalManifest \/ SyncFinalManifest \/ CommitFinalManifest
  BY <1>9 DEF OpenFinalManifest, SyncFinalManifest, CommitFinalManifest, TryInv,
              Remembered, Offset, AllCellsRecorded, durable, progress, seals
<1>10. CASE UNCHANGED ledgerVars
  BY <1>10 DEF TryInv, Remembered, Offset, AllCellsRecorded, ledgerVars, durable,
               progress, seals
<1>11. ASSUME NEW c \in Cells \cup {NoCell}, NEW confirmed \in BOOLEAN,
              AbortRun(c, confirmed)
       PROVE  FALSE
  BY <1>11 DEF AbortRun
<1>12. ~(RefuseBegin \/ WithdrawFinalManifest \/ PersistAbortManifest \/ CallerThrows
         \/ CallerReturns \/ Crash \/ Restart)
  BY DEF RefuseBegin, WithdrawFinalManifest, PersistAbortManifest, CallerThrows,
         CallerReturns, Crash, Restart, Throw
<1>13. QED
  BY <1>1, <1>2, <1>3, <1>4, <1>5, <1>6, <1>7, <1>8, <1>9, <1>10, <1>11, <1>12
  DEF LedgerNext

-----------------------------------------------------------------------------
(* The manifests *)

LEMMA ClosedReplays ==
  ASSUME TypeInv, TryInv, mode = "try", closed
  PROVE  AllCellsRecorded /\ verdict /\ ReplaysCompleted(EventFiles)
<1>1. AllCellsRecorded /\ cleanupReceipt /\ verdict
  BY DEF TryInv
<1>2. Len(events) = FullEnd
  BY <1>1, NextPosition, CellCountAssumption DEF One, FullEnd, BodyEnd
<1>3. QED
  BY <1>1, <1>2, TryLog DEF ReplaysCompleted, EventFiles

LEMMA ManifestStep ==
  TypeInv /\ SlotInv /\ FreshInv /\ TryInv /\ ManifestInv /\ [LedgerNext]_ledgerVars
    => ManifestInv'
<1> SUFFICES ASSUME TypeInv, SlotInv, FreshInv, TryInv, ManifestInv, [LedgerNext]_ledgerVars
             PROVE  ManifestInv'
  OBVIOUS
<1>0. finalManifestPersisted /\ mode = "try" => closed /\ verdict /\ attempt = "none"
  BY ClosedReplays DEF ManifestInv, AllCellsRecorded
<1>1. CASE BeginPilotRunLedger
  BY <1>1 DEF BeginPilotRunLedger, ManifestInv, SlotInv, FreshInv, progress, seals
<1>2. CASE \/ RecordCellPreparation \/ ReserveProviderAttempt
           \/ CompleteProviderAttempt \/ RecordCellResult
           \/ RecordResourceCleanup \/ RecordVerdict \/ CloseRun
  <2>1. ~finalManifestPersisted' /\ finalFile' = finalFile /\ mode = "try"
    BY <1>0, <1>2 DEF RecordCellPreparation, ReserveProviderAttempt,
       CompleteProviderAttempt, RecordCellResult, RecordResourceCleanup, RecordVerdict,
       CloseRun, seals
  <2>2. closed => closed'
    BY <1>2 DEF RecordCellPreparation, ReserveProviderAttempt,
       CompleteProviderAttempt, RecordCellResult, RecordResourceCleanup, RecordVerdict,
       CloseRun, seals
  <2>3. QED
    BY <2>1, <2>2 DEF ManifestInv
<1>3. ASSUME NEW c \in Cells \cup {NoCell}, NEW confirmed \in BOOLEAN,
             AbortRun(c, confirmed)
      PROVE  ManifestInv'
  BY <1>3 DEF AbortRun, ManifestInv
<1>4. CASE OpenFinalManifest
  BY <1>4 DEF OpenFinalManifest, FinalManifestAdmitted, ManifestInv, seals
<1>5. CASE SyncFinalManifest
  BY <1>5 DEF SyncFinalManifest, ManifestInv, seals
<1>6. CASE CommitFinalManifest
  <2>1. ReplaysCompleted(EventFiles) /\ closed
    BY <1>6, ClosedReplays DEF CommitFinalManifest, ManifestInv
  <2>2. EventFiles' = EventFiles
    BY <1>6 DEF CommitFinalManifest, EventFiles, durable
  <2>3. QED
    BY <1>6, <2>1, <2>2 DEF CommitFinalManifest, ManifestInv, SlotInv, durable
<1>7. CASE WithdrawFinalManifest \/ PersistAbortManifest \/ CallerThrows
  BY <1>7 DEF WithdrawFinalManifest, PersistAbortManifest, CallerThrows, ManifestInv,
              Throw, durable, seals
<1>8. CASE RefuseBegin \/ CallerReturns \/ Crash
  <2>1. EventFiles' = EventFiles
    BY <1>8 DEF RefuseBegin, CallerReturns, Crash, EventFiles, durable
  <2>2. QED
    BY <1>8, <2>1 DEF RefuseBegin, CallerReturns, Crash, ManifestInv, durable, seals
<1>9. CASE Restart
  BY <1>9 DEF Restart, ManifestInv
<1>10. CASE UNCHANGED ledgerVars
  BY <1>10 DEF ManifestInv, EventFiles, ledgerVars, durable, seals
<1>11. QED
  BY <1>1, <1>2, <1>3, <1>4, <1>5, <1>6, <1>7, <1>8, <1>9, <1>10 DEF LedgerNext

LEMMA AbortManifestStep ==
  SlotInv /\ AbortManifestStands /\ [LedgerNext]_ledgerVars => AbortManifestStands'
<1> SUFFICES ASSUME SlotInv, AbortManifestStands, [LedgerNext]_ledgerVars,
                    abortFile' # "absent"
             PROVE  ReplaysAborted(EventFiles')
  BY DEF AbortManifestStands
<1>1. CASE PersistAbortManifest
  BY <1>1 DEF PersistAbortManifest, EventFiles
<1>2. CASE RefuseBegin \/ CallerReturns \/ Crash \/ Restart \/ UNCHANGED ledgerVars
  BY <1>2 DEF RefuseBegin, CallerReturns, Crash, Restart, AbortManifestStands,
              EventFiles, ledgerVars, durable
<1>3. ASSUME NEW c \in Cells \cup {NoCell}, NEW confirmed \in BOOLEAN,
             AbortRun(c, confirmed)
      PROVE  FALSE
  BY <1>3 DEF AbortRun, SlotInv
<1>4. CASE BeginPilotRunLedger
  BY <1>4 DEF BeginPilotRunLedger, SlotInv
<1>5. CASE \/ RecordCellPreparation \/ ReserveProviderAttempt
           \/ CompleteProviderAttempt \/ RecordCellResult
           \/ RecordResourceCleanup \/ RecordVerdict \/ CloseRun
  BY <1>5 DEF RecordCellPreparation, ReserveProviderAttempt, CompleteProviderAttempt,
              RecordCellResult, RecordResourceCleanup, RecordVerdict, CloseRun, SlotInv
<1>6. CASE \/ OpenFinalManifest \/ SyncFinalManifest \/ CommitFinalManifest
           \/ WithdrawFinalManifest \/ CallerThrows
  BY <1>6 DEF OpenFinalManifest, SyncFinalManifest, CommitFinalManifest,
              WithdrawFinalManifest, CallerThrows, SlotInv, durable
<1>7. QED
  BY <1>1, <1>2, <1>3, <1>4, <1>5, <1>6 DEF LedgerNext

-----------------------------------------------------------------------------
(* Reservations *)

Files == Events \cup {NoFile, TornFile}

LEMMA WellPlacedAppend ==
  ASSUME NEW log \in Seq(Files), WellPlaced(log), NEW e \in Files,
         \A c \in Cells : e = StepEvent("provider_attempt_reserved", c)
                          => Len(log) + 1 = Position(c, 3)
  PROVE  WellPlaced(Append(log, e))
BY DEF WellPlaced

LEMMA TornIsNoReservation ==
  \A c \in Cells : TornFile # StepEvent("provider_attempt_reserved", c)
BY DEF TornFile, StepEvent

\* An append of an event that is no reservation, or the one that belongs there.
LEMMA PlacedAppend ==
  ASSUME TypeInv, ReservationInv, NEW e \in Events, AppendEvent(e) \/ FailAppend(e),
         \A c \in Cells : e = StepEvent("provider_attempt_reserved", c)
                          => Len(events) + 1 = Position(c, 3)
  PROVE  ReservationInv'
<1>1. events \in Seq(Files) /\ TornFile \in Files /\ e \in Files
  BY DEF TypeInv, LedgerTypeOK, Files
<1>2. CASE stray # NoFile
  BY <1>2 DEF AppendEvent, FailAppend, ReservationInv, EventFiles
<1>3. CASE stray = NoFile
  <2>1. WellPlaced(events)
    BY <1>3 DEF ReservationInv, EventFiles
  <2>2. WellPlaced(Append(events, e)) /\ WellPlaced(Append(events, TornFile))
    BY <1>1, <2>1, WellPlacedAppend, TornIsNoReservation
  <2>3. EventFiles' \in {events, Append(events, e), Append(events, TornFile)}
    BY <1>3 DEF AppendEvent, FailAppend, EventFiles
  <2>4. QED
    BY <2>1, <2>2, <2>3 DEF ReservationInv
<1>4. QED
  BY <1>2, <1>3

LEMMA PlacedPair ==
  ASSUME TypeInv, ReservationInv, stray = NoFile, NEW e \in Events, NEW f \in Events,
         \A c \in Cells : e = StepEvent("provider_attempt_reserved", c)
                          => Len(events) + 1 = Position(c, 3),
         \A c \in Cells : f # StepEvent("provider_attempt_reserved", c),
         \/ events' = events \o << e, f >> /\ UNCHANGED stray
         \/ FailSecondAppend(e, f)
  PROVE  ReservationInv'
<1>1. events \in Seq(Files) /\ {TornFile, e, f} \subseteq Files
  BY DEF TypeInv, LedgerTypeOK, Files
<1>2. WellPlaced(events)
  BY DEF ReservationInv, EventFiles
<1> DEFINE one == Append(events, e)
<1>3. one \in Seq(Files) /\ WellPlaced(one)
  BY <1>1, <1>2, WellPlacedAppend
<1>4. WellPlaced(Append(one, f)) /\ WellPlaced(Append(one, TornFile))
  BY <1>1, <1>3, WellPlacedAppend, TornIsNoReservation
<1>5. EventFiles' \in {one, Append(one, f), Append(one, TornFile)}
  <2>1. events \o << e, f >> = Append(one, f)
    BY <1>1
  <2>2. QED
    BY <2>1 DEF FailSecondAppend, EventFiles
<1>6. QED
  BY <1>3, <1>4, <1>5 DEF ReservationInv

LEMMA ReservationStep ==
  TypeInv /\ TryInv /\ ReservationInv /\ [LedgerNext]_ledgerVars => ReservationInv'
<1> SUFFICES ASSUME TypeInv, TryInv, ReservationInv, [LedgerNext]_ledgerVars
             PROVE  ReservationInv'
  OBVIOUS
<1> DEFINE IsReservation(e) ==
             \E c \in Cells : e = StepEvent("provider_attempt_reserved", c)
<1>1. /\ ~IsReservation(Started)
      /\ \A c \in Cells :
           /\ ~IsReservation(StepEvent("cell_arm_prepared", c))
           /\ ~IsReservation(StepEvent("model_input_frozen", c))
           /\ ~IsReservation(StepEvent("provider_request_started", c))
           /\ ~IsReservation(StepEvent("provider_attempt_completed", c))
           /\ ~IsReservation(StepEvent("cell_result_recorded", c))
      /\ ~IsReservation(StepEvent("resource_cleanup_confirmed", NoCell))
      /\ ~IsReservation(StepEvent("verdict_recorded", NoCell))
      /\ ~IsReservation(StepEvent("run_closed", NoCell))
      /\ \A c, n, a, b : ~IsReservation(AbortEvent(c, n, a, b))
  BY DEF StepEvent, Started, AbortEvent
<1>2. CASE BeginPilotRunLedger
  BY <1>1, <1>2, OperationEvents, PlacedAppend DEF BeginPilotRunLedger
<1>3. CASE RecordCellPreparation
  <2>1. nextOrdinal \in Cells /\ mode = "try"
    BY <1>3 DEF RecordCellPreparation
  <2>2. /\ StepEvent("cell_arm_prepared", nextOrdinal) \in Events
        /\ StepEvent("model_input_frozen", nextOrdinal) \in Events
    BY <2>1, OperationEvents
  <2>3. QED
    BY <1>1, <1>3, <2>1, <2>2, TryLog, PlacedAppend, PlacedPair DEF RecordCellPreparation
<1>4. CASE ReserveProviderAttempt
  <2>1. nextOrdinal \in Cells /\ mode = "try" /\ attempt = "prepared"
    BY <1>4 DEF ReserveProviderAttempt, TypeInv
  <2>2. /\ StepEvent("provider_attempt_reserved", nextOrdinal) \in Events
        /\ StepEvent("provider_request_started", nextOrdinal) \in Events
    BY <2>1, OperationEvents
  <2>3. Len(events) + 1 = Position(nextOrdinal, 3)
    <3>1. Offset = 2 /\ ~AllCellsRecorded
      BY <2>1 DEF Offset, AllCellsRecorded
    <3>2. Len(events) = Position(nextOrdinal, 2)
      BY <2>1, <3>1, NextPosition
    <3>3. QED
      BY <2>1, <3>2 DEF Position, Cells
  <2>4. \A c \in Cells : StepEvent("provider_attempt_reserved", nextOrdinal)
                          = StepEvent("provider_attempt_reserved", c) => c = nextOrdinal
    BY DEF StepEvent
  <2>5. QED
    BY <1>1, <1>4, <2>1, <2>2, <2>3, <2>4, TryLog, PlacedAppend, PlacedPair
    DEF ReserveProviderAttempt
<1>5. CASE CompleteProviderAttempt
  <2>1. nextOrdinal \in Cells
    BY <1>5 DEF CompleteProviderAttempt, TypeInv
  <2>2. QED
    BY <1>1, <1>5, <2>1, OperationEvents, PlacedAppend DEF CompleteProviderAttempt
<1>6. CASE RecordCellResult
  <2>1. nextOrdinal \in Cells
    BY <1>6 DEF RecordCellResult, TypeInv
  <2>2. QED
    BY <1>1, <1>6, <2>1, OperationEvents, PlacedAppend DEF RecordCellResult
<1>7. CASE RecordResourceCleanup
  BY <1>1, <1>7, OperationEvents, PlacedAppend DEF RecordResourceCleanup
<1>8. CASE RecordVerdict
  BY <1>1, <1>8, OperationEvents, PlacedAppend DEF RecordVerdict
<1>9. CASE CloseRun
  BY <1>1, <1>9, OperationEvents, PlacedAppend DEF CloseRun
<1>10. ASSUME NEW c \in Cells \cup {NoCell}, NEW confirmed \in BOOLEAN,
              AbortRun(c, confirmed)
       PROVE  ReservationInv'
  <2>1. AbortEvent(c, nextOrdinal - 1, StatedAttempt, confirmed) \in Events
    BY AbortEventTyped
  <2>2. CASE UNCHANGED << events, stray >>
    BY <2>2 DEF ReservationInv, EventFiles
  <2>3. QED
    BY <1>1, <1>10, <2>1, <2>2, PlacedAppend DEF AbortRun
<1>11. CASE \/ RefuseBegin \/ OpenFinalManifest \/ SyncFinalManifest
            \/ CommitFinalManifest \/ WithdrawFinalManifest \/ PersistAbortManifest
            \/ CallerThrows \/ CallerReturns \/ Crash \/ Restart \/ UNCHANGED ledgerVars
  <2>1. UNCHANGED << events, stray >>
    BY <1>11 DEF RefuseBegin, OpenFinalManifest, SyncFinalManifest, CommitFinalManifest,
       WithdrawFinalManifest, PersistAbortManifest, CallerThrows, CallerReturns, Crash,
       Restart, ledgerVars, durable
  <2>2. QED
    BY <2>1 DEF ReservationInv, EventFiles
<1>12. QED
  BY <1>2, <1>3, <1>4, <1>5, <1>6, <1>7, <1>8, <1>9, <1>10, <1>11 DEF LedgerNext

-----------------------------------------------------------------------------
(* The invariant and what follows from it *)

LEMMA LedgerInvHolds == LedgerSpec => []LedgerInv
<1>1. LedgerInit => LedgerInv
  <2>1. LedgerInit => TypeInv
    BY InitTyped
  <2>2. LedgerInit => SlotInv /\ FreshInv /\ TryInv /\ ManifestInv /\ AbortManifestStands
    BY DEF LedgerInit, SlotInv, FreshInv, TryInv, ManifestInv, AbortManifestStands
  <2>3. LedgerInit => ReservationInv
    BY DEF LedgerInit, ReservationInv, WellPlaced, EventFiles
  <2>4. QED
    BY <2>1, <2>2, <2>3 DEF LedgerInv
<1>2. LedgerInv /\ [LedgerNext]_ledgerVars => LedgerInv'
  <2>1. ASSUME FreshInv, [LedgerNext]_ledgerVars
        PROVE  FreshInv'
    BY <2>1, FreshStep
  <2>2. QED
    BY <2>1, TypeStep, SlotStep, TryStep, ManifestStep, AbortManifestStep, ReservationStep
    DEF LedgerInv
<1>3. QED
  BY <1>1, <1>2, PTL DEF LedgerSpec

\* The order the ledger's guards enforce is the order the sealed replay demands:
\* a run closed without a fault always replays completed.
THEOREM ClosedRunsReplay == LedgerSpec => []ClosedRunReplays
<1>1. LedgerInv => ClosedRunReplays
  BY ClosedReplays DEF LedgerInv, ClosedRunReplays
<1>2. QED
  BY <1>1, LedgerInvHolds, PTL

\* A committed final manifest always stands on a completed log, alone.
THEOREM CommittedClaimsStand == LedgerSpec => []CommittedClaimStands
<1>1. LedgerInv => CommittedClaimStands
  BY DEF LedgerInv, ManifestInv, CommittedClaimStands
<1>2. QED
  BY <1>1, LedgerInvHolds, PTL

\* An abort manifest always stands on a log that replays aborted, across every
\* failure, crash and restart.
THEOREM AbortManifestsStand == LedgerSpec => []AbortManifestStands
<1>1. LedgerInv => AbortManifestStands
  BY DEF LedgerInv
<1>2. QED
  BY <1>1, LedgerInvHolds, PTL

\* Neither manifest ever contradicts the log it stands on.
THEOREM ManifestsAlwaysStand == LedgerSpec => []ManifestsStand
<1>1. CommittedClaimStands /\ AbortManifestStands => ManifestsStand
  BY DEF ManifestsStand
<1>2. QED
  BY <1>1, CommittedClaimsStand, AbortManifestsStand, PTL

\* No cell's attempt is ever reserved twice.
THEOREM AttemptsReservedOnce == LedgerSpec => []OneReservationPerCell
<1>1. LedgerInv => OneReservationPerCell
  <2> SUFFICES ASSUME LedgerInv, NEW c \in Cells
               PROVE  Cardinality({i \in DOMAIN EventFiles :
                        EventFiles[i] = StepEvent("provider_attempt_reserved", c)}) <= 1
    BY DEF OneReservationPerCell
  <2> DEFINE places == {i \in DOMAIN EventFiles :
                         EventFiles[i] = StepEvent("provider_attempt_reserved", c)}
  <2>1. places \subseteq {Position(c, 3)}
    BY DEF LedgerInv, ReservationInv, WellPlaced
  <2>2. IsFiniteSet({Position(c, 3)}) /\ Cardinality({Position(c, 3)}) = 1
    BY FS_Singleton
  <2>3. Cardinality(places) <= Cardinality({Position(c, 3)})
    BY <2>1, <2>2, FS_Subset
  <2>4. QED
    BY <2>2, <2>3
<1>2. QED
  BY <1>1, LedgerInvHolds, PTL

\* Once the slot is taken no process but the run's own changes a file of it.
THEOREM RunsAreNotResumed == LedgerSpec => NoResume
<1>1. [LedgerNext]_ledgerVars =>
        [slot /\ mode \in {"ended", "starting"} => UNCHANGED durable]_ledgerVars
  <2> SUFFICES ASSUME LedgerNext, slot, mode \in {"ended", "starting"}
               PROVE  UNCHANGED durable
    OBVIOUS
  <2>1. RefuseBegin \/ Crash \/ Restart
    BY DEF LedgerNext, BeginPilotRunLedger, RecordCellPreparation, ReserveProviderAttempt,
       CompleteProviderAttempt, RecordCellResult, RecordResourceCleanup, RecordVerdict,
       CloseRun, AbortRun, OpenFinalManifest, SyncFinalManifest, CommitFinalManifest,
       WithdrawFinalManifest, PersistAbortManifest, CallerThrows, CallerReturns
  <2>2. QED
    BY <2>1 DEF RefuseBegin, Crash, Restart
<1>2. QED
  BY <1>1, PTL DEF LedgerSpec, NoResume

-----------------------------------------------------------------------------
(***************************************************************************)
(* What the catch block finds.  The operation that threw left the files    *)
(* the ledger remembers, or one event more when it failed between the two  *)
(* events of a pair; whatever else it left is in stray.                    *)
(***************************************************************************)
HalfPair == \E c \in Cells, j \in {1, 3} : Len(events) = Position(c, j)

CatchInv ==
  mode = "catch" /\ ~abortClosure =>
    /\ Len(events) >= 1
    /\ ConformsUpTo(events, Len(events))
    /\ stray = NoFile => Len(events) = Remembered \/ HalfPair
    /\ cleanupReceipt => AllCellsRecorded
    /\ verdict => cleanupReceipt
    /\ closed => verdict

\* An operation whose first append failed leaves the ledger as it was, but for
\* the answer completeProviderAttempt had already noted.
LEMMA CatchAfterFailure ==
  ASSUME TypeInv, TryInv, mode = "try", UNCHANGED << events, nextOrdinal,
         cleanupReceipt, verdict, closed >>,
         \/ UNCHANGED attempt
         \/ attempt \in {"reserved", "answered"} /\ attempt' = "answered"
  PROVE  CatchInv'
<1>1. Offset' = Offset
  BY DEF Offset
<1>2. Remembered' = Remembered /\ AllCellsRecorded' = AllCellsRecorded
  BY <1>1 DEF Remembered, AllCellsRecorded, Position, One
<1>3. Len(events) >= 1 /\ ConformsUpTo(events, Len(events)) /\ Len(events) = Remembered
  BY TryLog DEF TryInv
<1>4. /\ cleanupReceipt => AllCellsRecorded
      /\ verdict => cleanupReceipt
      /\ closed => verdict
  BY DEF TryInv
<1>5. QED
  BY <1>2, <1>3, <1>4 DEF CatchInv

\* An operation whose second append failed stopped inside a pair.
LEMMA CatchAfterHalf ==
  ASSUME TypeInv, TryInv, mode = "try", nextOrdinal \in Cells, ~AllCellsRecorded,
         NEW j \in {1, 3}, Len(events) + 1 = Position(nextOrdinal, j),
         NEW f, FailSecondAppend(StepEvent(CellKinds[j], nextOrdinal), f),
         UNCHANGED << progress, closed >>
  PROVE  CatchInv'
<1>1. events' = Append(events, StepEvent(CellKinds[j], nextOrdinal)) /\ j \in 1..6
  BY DEF FailSecondAppend
<1>2. Len(events') = Len(events) + 1 /\ ConformsUpTo(events', Len(events'))
  BY <1>1, AppendNext
<1>3. HalfPair'
  BY <1>2 DEF HalfPair
<1>4. ~cleanupReceipt /\ ~verdict /\ ~closed
  BY DEF TryInv
<1>5. Len(events') >= 1
  BY <1>2, TryLog
<1>6. QED
  BY <1>2, <1>3, <1>4, <1>5 DEF CatchInv, progress

LEMMA CatchStep ==
  TypeInv /\ TryInv /\ CatchInv /\ [LedgerNext]_ledgerVars => CatchInv'
<1> SUFFICES ASSUME TypeInv, TryInv, CatchInv, [LedgerNext]_ledgerVars,
                    mode' = "catch", ~abortClosure'
             PROVE  CatchInv'
  BY DEF CatchInv
<1>1. CASE RecordCellPreparation
  <2>1. /\ mode = "try" /\ attempt = "none" /\ nextOrdinal \in Cells
        /\ UNCHANGED << progress, closed >>
        /\ \/ UNCHANGED events
           \/ FailSecondAppend(StepEvent("cell_arm_prepared", nextOrdinal),
                               StepEvent("model_input_frozen", nextOrdinal))
    BY <1>1 DEF RecordCellPreparation, FailAppend, progress, seals
  <2>2. ~AllCellsRecorded
    BY <2>1, CellCountAssumption DEF AllCellsRecorded, Cells
  <2>3. Len(events) + 1 = Position(nextOrdinal, 1)
    BY <2>1, <2>2, NextPosition DEF Offset, Position, Cells
  <2>4. CASE UNCHANGED events
    BY <2>1, <2>4, CatchAfterFailure DEF progress
  <2>5. CASE FailSecondAppend(StepEvent("cell_arm_prepared", nextOrdinal),
                              StepEvent("model_input_frozen", nextOrdinal))
    BY <2>1, <2>2, <2>3, <2>5, KindAt, CatchAfterHalf
  <2>6. QED
    BY <2>1, <2>4, <2>5
<1>2. CASE ReserveProviderAttempt
  <2>1. /\ mode = "try" /\ attempt = "prepared"
        /\ UNCHANGED << progress, closed >>
        /\ \/ UNCHANGED events
           \/ FailSecondAppend(StepEvent("provider_attempt_reserved", nextOrdinal),
                               StepEvent("provider_request_started", nextOrdinal))
    BY <1>2 DEF ReserveProviderAttempt, FailAppend, progress, seals
  <2>2. ~AllCellsRecorded /\ nextOrdinal \in Cells
    BY <2>1 DEF AllCellsRecorded, TypeInv
  <2>3. Len(events) + 1 = Position(nextOrdinal, 3)
    BY <2>1, <2>2, NextPosition DEF Offset, Position, Cells
  <2>4. CASE UNCHANGED events
    BY <2>1, <2>4, CatchAfterFailure DEF progress
  <2>5. CASE FailSecondAppend(StepEvent("provider_attempt_reserved", nextOrdinal),
                              StepEvent("provider_request_started", nextOrdinal))
    BY <2>1, <2>2, <2>3, <2>5, KindAt, CatchAfterHalf
  <2>6. QED
    BY <2>1, <2>4, <2>5
<1>3. CASE CompleteProviderAttempt \/ RecordCellResult \/ RecordResourceCleanup
           \/ RecordVerdict \/ CloseRun
  <2>1. /\ mode = "try"
        /\ UNCHANGED << events, nextOrdinal, cleanupReceipt, verdict, closed >>
        /\ \/ UNCHANGED attempt
           \/ attempt \in {"reserved", "answered"} /\ attempt' = "answered"
    BY <1>3 DEF CompleteProviderAttempt, RecordCellResult, RecordResourceCleanup,
       RecordVerdict, CloseRun, FailAppend, progress, seals
  <2>2. QED
    BY <2>1, CatchAfterFailure
<1>4. CASE WithdrawFinalManifest \/ CallerThrows
  <2>1. mode = "try" /\ UNCHANGED << events, progress, closed >>
    BY <1>4 DEF WithdrawFinalManifest, CallerThrows, durable, seals
  <2>2. QED
    BY <2>1, CatchAfterFailure DEF progress
<1>5. CASE UNCHANGED ledgerVars
  BY <1>5 DEF CatchInv, HalfPair, Remembered, Offset, AllCellsRecorded, ledgerVars,
     durable, progress, seals
<1>6. ASSUME NEW c \in Cells \cup {NoCell}, NEW confirmed \in BOOLEAN,
             AbortRun(c, confirmed)
      PROVE  FALSE
  BY <1>6 DEF AbortRun
<1>7. ~(\/ BeginPilotRunLedger \/ RefuseBegin \/ OpenFinalManifest \/ SyncFinalManifest
        \/ CommitFinalManifest \/ PersistAbortManifest \/ CallerReturns \/ Crash \/ Restart)
  BY DEF BeginPilotRunLedger, RefuseBegin, OpenFinalManifest, SyncFinalManifest,
     CommitFinalManifest, PersistAbortManifest, CallerReturns, Crash, Restart
<1>8. QED
  BY <1>1, <1>2, <1>3, <1>4, <1>5, <1>6, <1>7 DEF LedgerNext

(***************************************************************************)
(* An abort event states the cells and the attempt state of the place it   *)
(* stands at, n events into the run, in this process's log or an old one.  *)
(***************************************************************************)
StatedAt(n, e) ==
  /\ e.completed \in 0..CellCount
  /\ \/ /\ e.attempt = "no_active_attempt"
        /\ \/ n = Position(e.completed + 1, 0)
           \/ e.completed = CellCount /\ n \in BodyEnd..FullEnd
     \/ /\ e.attempt = "prepared_not_reserved"
        /\ n = Position(e.completed + 1, 2)
     \/ /\ e.attempt = "request_may_have_started_burned"
        /\ n = Position(e.completed + 1, 4)
     \/ /\ e.attempt = "provider_completed_pending_cell_result"
        /\ n \in {Position(e.completed + 1, 4), Position(e.completed + 1, 5)}
     \/ \E c \in Cells, j \in {1, 3} : n = Position(c, j)

AbortsStated(log) ==
  \A i \in DOMAIN log : log[i].kind = "run_aborted" => StatedAt(i - 1, log[i])

AbortStatedInv == AbortsStated(EventFiles)

\* What abortRun appends is stated at its place.
LEMMA AbortIsStated ==
  ASSUME TypeInv, CatchInv, mode = "catch", ~abortClosure, stray = NoFile,
         NEW c \in Cells \cup {NoCell}, NEW confirmed \in BOOLEAN
  PROVE  StatedAt(Len(events), AbortEvent(c, nextOrdinal - 1, StatedAttempt, confirmed))
<1> DEFINE e == AbortEvent(c, nextOrdinal - 1, StatedAttempt, confirmed)
<1>1. e.completed = nextOrdinal - 1 /\ e.attempt = StatedAttempt
  BY DEF AbortEvent
<1>2. nextOrdinal \in 1..(CellCount + 1) /\ attempt \in AttemptPhases
  BY DEF TypeInv, LedgerTypeOK
<1>3. e.completed \in 0..CellCount /\ e.completed + 1 = nextOrdinal
  BY <1>1, <1>2, CellCountAssumption
<1>4. CASE HalfPair
  BY <1>3, <1>4 DEF StatedAt, HalfPair
<1>5. CASE Len(events) = Remembered /\ attempt = "none"
  <2>1. e.attempt = "no_active_attempt" /\ Offset = 0
    BY <1>1, <1>5 DEF StatedAttempt, Offset
  <2>2. CASE cleanupReceipt
    <3>1. nextOrdinal = CellCount + 1
      BY <2>2 DEF CatchInv, AllCellsRecorded
    <3>2. Remembered = BodyEnd + One(cleanupReceipt) + One(verdict) + One(closed)
      BY <2>1, <3>1, CellCountAssumption DEF Remembered, Position, BodyEnd, One
    <3>3. Len(events) \in BodyEnd..FullEnd
      BY <1>5, <3>2, CellCountAssumption DEF BodyEnd, FullEnd, One
    <3>4. e.completed = CellCount
      BY <1>1, <3>1, CellCountAssumption
    <3>5. QED
      BY <1>3, <2>1, <3>3, <3>4 DEF StatedAt
  <2>3. CASE ~cleanupReceipt
    <3>1. ~verdict /\ ~closed
      BY <2>3 DEF CatchInv
    <3>2. Remembered = Position(nextOrdinal, 0)
      BY <1>2, <2>1, <2>3, <3>1 DEF Remembered, Position, One
    <3>3. QED
      BY <1>3, <1>5, <2>1, <3>2 DEF StatedAt
  <2>4. QED
    BY <2>2, <2>3
<1>6. CASE Len(events) = Remembered /\ attempt # "none"
  <2>1. ~cleanupReceipt /\ ~verdict /\ ~closed
    BY <1>6 DEF CatchInv, AllCellsRecorded
  <2>2. Len(events) = Position(nextOrdinal, Offset)
    BY <1>2, <1>6, <2>1 DEF Remembered, Position, One, Offset, AttemptPhases
  <2>3. \/ e.attempt = "prepared_not_reserved" /\ Offset = 2
        \/ e.attempt = "request_may_have_started_burned" /\ Offset = 4
        \/ e.attempt = "provider_completed_pending_cell_result" /\ Offset \in {4, 5}
    BY <1>1, <1>2, <1>6 DEF StatedAttempt, Offset, AttemptPhases
  <2>4. QED
    BY <1>3, <2>2, <2>3 DEF StatedAt
<1>7. QED
  BY <1>4, <1>5, <1>6 DEF CatchInv

LEMMA StatedAppend ==
  ASSUME NEW log \in Seq(Files), AbortsStated(log), NEW e \in Files,
         e.kind = "run_aborted" => StatedAt(Len(log), e)
  PROVE  AbortsStated(Append(log, e))
<1> DEFINE new == Append(log, e)
<1> SUFFICES ASSUME NEW i \in DOMAIN new, new[i].kind = "run_aborted"
             PROVE  StatedAt(i - 1, new[i])
  BY DEF AbortsStated
<1>1. /\ DOMAIN new = 1..(Len(log) + 1) /\ Len(log) \in Nat
      /\ new[Len(log) + 1] = e
      /\ \A k \in 1..Len(log) : new[k] = log[k]
  OBVIOUS
<1>2. CASE i = Len(log) + 1
  BY <1>1, <1>2
<1>3. CASE i # Len(log) + 1
  <2>1. i \in DOMAIN log /\ new[i] = log[i]
    BY <1>1, <1>3
  <2>2. QED
    BY <2>1 DEF AbortsStated
<1>4. QED
  BY <1>2, <1>3

LEMMA StatedSingle ==
  ASSUME TypeInv, AbortStatedInv, NEW e \in Events, AppendEvent(e) \/ FailAppend(e),
         stray = NoFile /\ e.kind = "run_aborted" => StatedAt(Len(events), e)
  PROVE  AbortStatedInv'
<1>1. events \in Seq(Files) /\ TornFile \in Files /\ e \in Files
  BY DEF TypeInv, LedgerTypeOK, Files
<1>2. CASE stray # NoFile
  BY <1>2 DEF AppendEvent, FailAppend, AbortStatedInv, EventFiles
<1>3. CASE stray = NoFile
  <2>1. AbortsStated(events)
    BY <1>3 DEF AbortStatedInv, EventFiles
  <2>2. AbortsStated(Append(events, e))
    BY <1>1, <1>3, <2>1, StatedAppend
  <2>3. AbortsStated(Append(events, TornFile))
    BY <1>1, <2>1, StatedAppend DEF TornFile
  <2>4. EventFiles' \in {events, Append(events, e), Append(events, TornFile)}
    BY <1>3 DEF AppendEvent, FailAppend, EventFiles
  <2>5. QED
    BY <2>1, <2>2, <2>3, <2>4 DEF AbortStatedInv
<1>4. QED
  BY <1>2, <1>3

LEMMA StatedPair ==
  ASSUME TypeInv, AbortStatedInv, stray = NoFile, NEW e \in Events, NEW f \in Events,
         e.kind # "run_aborted", f.kind # "run_aborted",
         \/ events' = events \o << e, f >> /\ UNCHANGED stray
         \/ FailSecondAppend(e, f)
  PROVE  AbortStatedInv'
<1>1. events \in Seq(Files) /\ {TornFile, e, f} \subseteq Files
  BY DEF TypeInv, LedgerTypeOK, Files
<1>2. AbortsStated(events)
  BY DEF AbortStatedInv, EventFiles
<1> DEFINE one == Append(events, e)
<1>3. one \in Seq(Files) /\ AbortsStated(one)
  BY <1>1, <1>2, StatedAppend
<1>4. AbortsStated(Append(one, f))
  BY <1>1, <1>3, StatedAppend
<1>5. AbortsStated(Append(one, TornFile))
  BY <1>1, <1>3, StatedAppend DEF TornFile
<1>6. EventFiles' \in {one, Append(one, f), Append(one, TornFile)}
  <2>1. events \o << e, f >> = Append(one, f)
    BY <1>1
  <2>2. QED
    BY <2>1 DEF FailSecondAppend, EventFiles
<1>7. QED
  BY <1>3, <1>4, <1>5, <1>6 DEF AbortStatedInv

LEMMA StatedStep ==
  TypeInv /\ TryInv /\ CatchInv /\ AbortStatedInv /\ [LedgerNext]_ledgerVars
    => AbortStatedInv'
<1> SUFFICES ASSUME TypeInv, TryInv, CatchInv, AbortStatedInv, [LedgerNext]_ledgerVars
             PROVE  AbortStatedInv'
  OBVIOUS
<1>0. \A kind, c : StepEvent(kind, c).kind = kind
  BY DEF StepEvent
<1>1. CASE BeginPilotRunLedger
  BY <1>0, <1>1, OperationEvents, StatedSingle DEF BeginPilotRunLedger, Started
<1>2. CASE RecordCellPreparation
  <2>1. nextOrdinal \in Cells /\ mode = "try"
    BY <1>2 DEF RecordCellPreparation
  <2>2. /\ StepEvent("cell_arm_prepared", nextOrdinal) \in Events
        /\ StepEvent("model_input_frozen", nextOrdinal) \in Events
    BY <2>1, OperationEvents
  <2>3. QED
    BY <1>0, <1>2, <2>1, <2>2, TryLog, StatedSingle, StatedPair DEF RecordCellPreparation
<1>3. CASE ReserveProviderAttempt
  <2>1. nextOrdinal \in Cells /\ mode = "try"
    BY <1>3 DEF ReserveProviderAttempt, TypeInv
  <2>2. /\ StepEvent("provider_attempt_reserved", nextOrdinal) \in Events
        /\ StepEvent("provider_request_started", nextOrdinal) \in Events
    BY <2>1, OperationEvents
  <2>3. QED
    BY <1>0, <1>3, <2>1, <2>2, TryLog, StatedSingle, StatedPair DEF ReserveProviderAttempt
<1>4. CASE CompleteProviderAttempt
  <2>1. StepEvent("provider_attempt_completed", nextOrdinal) \in Events
    BY <1>4, OperationEvents DEF CompleteProviderAttempt, TypeInv
  <2>2. QED
    BY <1>0, <1>4, <2>1, StatedSingle DEF CompleteProviderAttempt
<1>5. CASE RecordCellResult
  <2>1. StepEvent("cell_result_recorded", nextOrdinal) \in Events
    BY <1>5, OperationEvents DEF RecordCellResult, TypeInv
  <2>2. QED
    BY <1>0, <1>5, <2>1, StatedSingle DEF RecordCellResult
<1>6. CASE RecordResourceCleanup
  BY <1>0, <1>6, OperationEvents, StatedSingle DEF RecordResourceCleanup
<1>7. CASE RecordVerdict
  BY <1>0, <1>7, OperationEvents, StatedSingle DEF RecordVerdict
<1>8. CASE CloseRun
  BY <1>0, <1>8, OperationEvents, StatedSingle DEF CloseRun
<1>9. ASSUME NEW c \in Cells \cup {NoCell}, NEW confirmed \in BOOLEAN,
             AbortRun(c, confirmed)
      PROVE  AbortStatedInv'
  <2>1. AbortEvent(c, nextOrdinal - 1, StatedAttempt, confirmed) \in Events
    BY AbortEventTyped
  <2>2. CASE UNCHANGED << events, stray >>
    BY <2>2 DEF AbortStatedInv, EventFiles
  <2>3. CASE AbortAllowed(c, confirmed)
    <3>1. mode = "catch" /\ ~abortClosure
      BY <1>9, <2>3 DEF AbortRun, AbortAllowed
    <3>2. QED
      BY <1>9, <2>1, <2>3, <3>1, AbortIsStated, StatedSingle DEF AbortRun
  <2>4. QED
    BY <1>9, <2>2, <2>3 DEF AbortRun
<1>10. CASE \/ RefuseBegin \/ OpenFinalManifest \/ SyncFinalManifest
            \/ CommitFinalManifest \/ WithdrawFinalManifest \/ PersistAbortManifest
            \/ CallerThrows \/ CallerReturns \/ Crash \/ Restart \/ UNCHANGED ledgerVars
  <2>1. UNCHANGED << events, stray >>
    BY <1>10 DEF RefuseBegin, OpenFinalManifest, SyncFinalManifest, CommitFinalManifest,
       WithdrawFinalManifest, PersistAbortManifest, CallerThrows, CallerReturns, Crash,
       Restart, ledgerVars, durable
  <2>2. QED
    BY <2>1 DEF AbortStatedInv, EventFiles
<1>11. QED
  BY <1>1, <1>2, <1>3, <1>4, <1>5, <1>6, <1>7, <1>8, <1>9, <1>10 DEF LedgerNext

LEMMA AbortStatementsHold == LedgerSpec => [](CatchInv /\ AbortStatedInv)
<1>1. LedgerInit => CatchInv /\ AbortStatedInv
  BY DEF LedgerInit, CatchInv, AbortStatedInv, AbortsStated, EventFiles
<1>2. LedgerInv /\ CatchInv /\ AbortStatedInv /\ [LedgerNext]_ledgerVars
        => (CatchInv /\ AbortStatedInv)'
  BY CatchStep, StatedStep DEF LedgerInv
<1>3. QED
  BY <1>1, <1>2, LedgerInvHolds, PTL DEF LedgerSpec

-----------------------------------------------------------------------------
(* Counting the events of a kind *)

\* Every place of the body after the first belongs to one event of one cell.
LEMMA PlacesCovered ==
  ASSUME NEW i \in 2..BodyEnd
  PROVE  \E c \in Cells, j \in 1..6 : i = Position(c, j)
<1> DEFINE c == 1 + ((i - 2) \div 6)
           j == 1 + ((i - 2) % 6)
<1>1. BodyEnd \in Nat /\ BodyEnd = 1 + 6 * CellCount
  BY CellCountAssumption DEF BodyEnd
<1>2. i - 2 \in 0..(6 * CellCount - 1)
  BY <1>1, CellCountAssumption
<1>3. (i - 2) % 6 \in 0..5 /\ (i - 2) \div 6 \in Int
      /\ i - 2 = 6 * ((i - 2) \div 6) + ((i - 2) % 6)
  BY <1>2
<1>4. (i - 2) \div 6 \in 0..(CellCount - 1)
  BY <1>2, <1>3, CellCountAssumption
<1>5. c \in Cells /\ j \in 1..6
  BY <1>3, <1>4, CellCountAssumption DEF Cells
<1>6. i = Position(c, j)
  BY <1>3 DEF Position
<1>7. QED
  BY <1>5, <1>6

LEMMA Distinct ==
  /\ \A j, k \in 1..6 : CellKinds[j] = CellKinds[k] => j = k
  /\ \A j \in 1..6, k \in 1..3 : CellKinds[j] # TailKinds[k]
  /\ \A j \in 1..6 : CellKinds[j] \notin {"run_started", "run_aborted"}
BY DEF CellKinds, TailKinds

\* In an aborted log a kind of cell event occurs once for every cell whose
\* event of that kind comes before the abort.
LEMMA KindCounted ==
  ASSUME NEW log \in Seq(Files), NEW n \in 1..FullEnd, Len(log) = n + 1,
         ConformsUpTo(log, n), log[n + 1].kind = "run_aborted",
         NEW j \in 1..6, NEW m \in 0..CellCount,
         \A c \in Cells : Position(c, j) <= n <=> c <= m
  PROVE  OccurrencesOf(CellKinds[j], log) = m
<1> DEFINE places == {i \in DOMAIN log : log[i].kind = CellKinds[j]}
           f == [c \in 1..m |-> Position(c, j)]
<1>0. /\ CellCount \in Nat /\ m \in Nat /\ n \in Nat
      /\ \A c \in 1..m : c \in Cells
      /\ \A i \in DOMAIN log : i \in 1..(n + 1)
      /\ DOMAIN log = 1..(n + 1)
  BY CellCountAssumption DEF Cells, FullEnd, BodyEnd
<1>1. \A c \in 1..m : f[c] \in places
  <2> SUFFICES ASSUME NEW c \in 1..m
               PROVE  Position(c, j) \in places
    OBVIOUS
  <2>1. c \in Cells /\ Position(c, j) <= n
    BY <1>0
  <2>2. log[Position(c, j)] = StepEvent(CellKinds[j], c)
    BY <2>1 DEF ConformsUpTo
  <2>3. Position(c, j) \in 1..(n + 1)
    <3>1. Position(c, j) \in Int /\ Position(c, j) >= 2
      BY <2>1 DEF Position, Cells
    <3>2. QED
      BY <1>0, <2>1, <3>1
  <2>4. QED
    BY <1>0, <2>2, <2>3 DEF StepEvent
<1>2. ASSUME NEW i \in places
      PROVE  \E c \in 1..m : f[c] = i
  <2>1. i \in 1..(n + 1) /\ log[i].kind = CellKinds[j]
    BY <1>0
  <2>2. i # n + 1
    BY <2>1, Distinct
  <2>3. i # 1
    BY <1>0, <2>1, Distinct DEF ConformsUpTo, StepEvent
  <2>4. CASE i > BodyEnd
    <3>1. i - BodyEnd \in 1..3 /\ BodyEnd + (i - BodyEnd) = i
      BY <1>0, <2>1, <2>2, <2>4 DEF FullEnd, BodyEnd
    <3>2. PICK k \in 1..3 : BodyEnd + k = i
      BY <3>1
    <3>3. log[i] = StepEvent(TailKinds[k], NoCell)
      BY <1>0, <2>1, <2>2, <3>2 DEF ConformsUpTo
    <3>4. QED
      BY <2>1, <3>3, Distinct DEF StepEvent
  <2>5. CASE i <= BodyEnd
    <3>1. i \in 2..BodyEnd
      BY <1>0, <2>1, <2>3, <2>5 DEF BodyEnd
    <3>2. PICK c \in Cells, k \in 1..6 : i = Position(c, k)
      BY <3>1, PlacesCovered
    <3>3. i <= n
      BY <1>0, <2>1, <2>2
    <3>4. log[i] = StepEvent(CellKinds[k], c)
      BY <3>2, <3>3 DEF ConformsUpTo
    <3>5. k = j
      BY <2>1, <3>4, Distinct DEF StepEvent
    <3>6. c \in 1..m
      BY <1>0, <3>2, <3>3, <3>5 DEF Cells
    <3>7. f[c] = i
      BY <3>2, <3>5, <3>6
    <3>8. QED
      BY <3>6, <3>7
  <2>6. QED
    BY <1>0, <2>1, <2>4, <2>5 DEF BodyEnd
<1>3. ASSUME NEW c \in 1..m, NEW d \in 1..m, f[c] = f[d]
      PROVE  c = d
  <2>1. c \in Cells /\ d \in Cells /\ Position(c, j) = Position(d, j)
    BY <1>0, <1>3
  <2>2. QED
    BY <2>1, PositionUnique
<1>4. f \in [1..m -> places]
  BY <1>1
<1>5. f \in Bijection(1..m, places)
  BY <1>2, <1>3, <1>4 DEF Bijection, Injection, Surjection, IsInjective
<1>6. ExistsBijection(1..m, places)
  BY <1>5 DEF ExistsBijection
<1>7. Cardinality(places) = m
  BY <1>0, <1>6, FS_CountingElements
<1>8. QED
  BY <1>7 DEF OccurrencesOf

\* Where a sealable abort stands, and what it states there.
LEMMA SealableAbort ==
  ASSUME NEW n \in 1..FullEnd, NEW e, StatedAt(n, e), AbortPayloadAccepted(e),
         \/ CutAtBoundary(n, e.cell, e.completed)
         \/ CutInsideCell(n, e.cell, e.completed)
  PROVE  LET k == e.completed
         IN  /\ k \in 0..CellCount
             /\ \/ /\ e.attempt = "no_active_attempt"
                   /\ \/ n = Position(k + 1, 0)
                      \/ k = CellCount /\ n \in BodyEnd..FullEnd
                \/ k + 1 \in Cells /\ e.attempt = "prepared_not_reserved"
                   /\ n = Position(k + 1, 2)
                \/ k + 1 \in Cells /\ e.attempt = "request_may_have_started_burned"
                   /\ n = Position(k + 1, 4)
                \/ k + 1 \in Cells /\ e.attempt = "provider_completed_pending_cell_result"
                   /\ n \in {Position(k + 1, 4), Position(k + 1, 5)}
<1> DEFINE k == e.completed
<1>1. k \in 0..CellCount /\ CellCount \in Nat /\ n \in Int
  BY CellCountAssumption DEF StatedAt, FullEnd, BodyEnd
<1>2. \A c \in Cells, j \in {1, 3} : n # Position(c, j)
  <2>1. CASE CutAtBoundary(n, e.cell, k)
    BY <1>1, <2>1 DEF CutAtBoundary, Position, Cells, BodyEnd, FullEnd
  <2>2. CASE CutInsideCell(n, e.cell, k)
    <3>1. PICK h \in {2, 4, 5} : n = Position(e.cell, h) /\ e.cell \in Cells
      BY <2>2 DEF CutInsideCell
    <3>2. QED
      BY <3>1 DEF Position, Cells
  <2>3. QED
    BY <2>1, <2>2
<1>3. e.attempt # "no_active_attempt" => k + 1 \in Cells
  BY <1>1 DEF AbortPayloadAccepted, Cells
<1>4. QED
  BY <1>1, <1>2, <1>3 DEF StatedAt

\* A sealable abort states exactly the provider attempts the log burned, and
\* at most one completion more than the log holds, for every number of cells.
THEOREM AbortsStateBurnedAttempts == LedgerSpec => []AbortStatesBurnedAttempts
<1>1. TypeInv /\ AbortStatedInv => AbortStatesBurnedAttempts
  <2> SUFFICES ASSUME TypeInv, AbortStatedInv, ReplaysAborted(EventFiles)
               PROVE  LET last == EventFiles[Len(EventFiles)]
                      IN  /\ StatedReservations(last) =
                               OccurrencesOf("provider_request_started", EventFiles)
                          /\ StatedCompletions(last) -
                               OccurrencesOf("provider_attempt_completed", EventFiles)
                             \in {0, 1}
    BY DEF AbortStatesBurnedAttempts
  <2> DEFINE log == EventFiles
             n == Len(log) - 1
             e == log[n + 1]
             k == e.completed
             started == OccurrencesOf("provider_request_started", log)
             done == OccurrencesOf("provider_attempt_completed", log)
  <2>1. log \in Seq(Files)
    BY DEF TypeInv, LedgerTypeOK, EventFiles, Files
  <2>2. /\ n \in 1..FullEnd /\ Len(log) = n + 1
        /\ e.kind = "run_aborted" /\ ConformsUpTo(log, n) /\ AbortPayloadAccepted(e)
        /\ CutAtBoundary(n, e.cell, k) \/ CutInsideCell(n, e.cell, k)
    BY <2>1, CellCountAssumption DEF ReplaysAborted, FullEnd, BodyEnd
  <2>3. StatedAt(n, e)
    <3>1. n + 1 \in DOMAIN log
      BY <2>1, <2>2
    <3>2. StatedAt((n + 1) - 1, e)
      BY <2>2, <3>1 DEF AbortStatedInv, AbortsStated
    <3>3. QED
      BY <2>2, <3>2
  <2> HIDE DEF n, e, log
  <2>4. /\ k \in 0..CellCount
        /\ \/ /\ e.attempt = "no_active_attempt"
              /\ \/ n = Position(k + 1, 0)
                 \/ k = CellCount /\ n \in BodyEnd..FullEnd
           \/ k + 1 \in Cells /\ e.attempt = "prepared_not_reserved"
              /\ n = Position(k + 1, 2)
           \/ k + 1 \in Cells /\ e.attempt = "request_may_have_started_burned"
              /\ n = Position(k + 1, 4)
           \/ k + 1 \in Cells /\ e.attempt = "provider_completed_pending_cell_result"
              /\ n \in {Position(k + 1, 4), Position(k + 1, 5)}
    BY <2>2, <2>3, SealableAbort
  <2>5. ASSUME NEW m \in 0..CellCount, \A c \in Cells : Position(c, 4) <= n <=> c <= m
        PROVE  started = m
    BY <2>1, <2>2, <2>5, KindCounted, KindAt DEF e
  <2>6. ASSUME NEW m \in 0..CellCount, \A c \in Cells : Position(c, 5) <= n <=> c <= m
        PROVE  done = m
    BY <2>1, <2>2, <2>6, KindCounted, KindAt DEF e
  <2>7. started = StatedReservations(e) /\ StatedCompletions(e) - done \in {0, 1}
    <3>0. CellCount \in Nat /\ k \in Nat
      BY <2>4, CellCountAssumption
    <3>1. CASE e.attempt = "no_active_attempt"
      <4>1. \A c \in Cells : Position(c, 4) <= n <=> c <= k
        BY <2>4, <3>0, <3>1 DEF Position, Cells, BodyEnd, FullEnd
      <4>2. \A c \in Cells : Position(c, 5) <= n <=> c <= k
        BY <2>4, <3>0, <3>1 DEF Position, Cells, BodyEnd, FullEnd
      <4>3. QED
        BY <2>4, <2>5, <2>6, <3>0, <3>1, <4>1, <4>2
        DEF StatedReservations, StatedCompletions
    <3>2. CASE e.attempt = "prepared_not_reserved"
      <4>1. \A c \in Cells : Position(c, 4) <= n <=> c <= k
        BY <2>4, <3>0, <3>2 DEF Position, Cells
      <4>2. \A c \in Cells : Position(c, 5) <= n <=> c <= k
        BY <2>4, <3>0, <3>2 DEF Position, Cells
      <4>3. QED
        BY <2>4, <2>5, <2>6, <3>0, <3>2, <4>1, <4>2
        DEF StatedReservations, StatedCompletions
    <3>3. CASE e.attempt = "request_may_have_started_burned"
      <4>1. \A c \in Cells : Position(c, 4) <= n <=> c <= k + 1
        BY <2>4, <3>0, <3>3 DEF Position, Cells
      <4>2. \A c \in Cells : Position(c, 5) <= n <=> c <= k
        BY <2>4, <3>0, <3>3 DEF Position, Cells
      <4>3. k + 1 \in 0..CellCount
        BY <2>4, <3>0, <3>3 DEF Cells
      <4>4. QED
        BY <2>4, <2>5, <2>6, <3>0, <3>3, <4>1, <4>2, <4>3
        DEF StatedReservations, StatedCompletions
    <3>4. CASE e.attempt = "provider_completed_pending_cell_result"
      <4>1. \A c \in Cells : Position(c, 4) <= n <=> c <= k + 1
        BY <2>4, <3>0, <3>4 DEF Position, Cells
      <4>2. \/ \A c \in Cells : Position(c, 5) <= n <=> c <= k
            \/ \A c \in Cells : Position(c, 5) <= n <=> c <= k + 1
        BY <2>4, <3>0, <3>4 DEF Position, Cells
      <4>3. k + 1 \in 0..CellCount
        BY <2>4, <3>0, <3>4 DEF Cells
      <4>4. done \in {k, k + 1} /\ started = k + 1
        BY <2>4, <2>5, <2>6, <4>1, <4>2, <4>3
      <4>5. QED
        BY <3>0, <3>4, <4>4 DEF StatedReservations, StatedCompletions
    <3>5. QED
      BY <2>4, <3>1, <3>2, <3>3, <3>4
  <2>8. Len(log) = n + 1 /\ e = log[Len(log)]
    BY <2>1, <2>2 DEF e, n
  <2>9. QED
    BY <2>7, <2>8 DEF log
<1>2. LedgerInv => TypeInv
  BY DEF LedgerInv
<1>3. QED
  BY <1>1, <1>2, LedgerInvHolds, AbortStatementsHold, PTL

-----------------------------------------------------------------------------
(***************************************************************************)
(* The refinement of PilotOutcome.  What a reader concludes depends on the *)
(* log and the two manifests alone, and on whether a writer is left that   *)
(* may still take an uncommitted final manifest back.                      *)
(***************************************************************************)
ClaimReadable == ReplaysCompleted(EventFiles) /\ finalFile = "whole"

AbortReadable == ReplaysAborted(EventFiles) /\ abortFile = "whole"

ClaimFixed == finalManifestPersisted \/ mode \in {"ended", "starting"}

LEMMA OutcomeCases ==
  /\ ClaimReadable /\ ClaimFixed => AuditedOutcome = "claimed"
  /\ ClaimReadable /\ ~ClaimFixed => AuditedOutcome = "offered"
  /\ ~ClaimReadable /\ AbortReadable => AuditedOutcome = "aborted"
  /\ ~ClaimReadable /\ ~AbortReadable => AuditedOutcome = "open"
BY DEF AuditedOutcome, ClaimReadable, AbortReadable, ClaimFixed

LEMMA OutcomeCasesNext ==
  /\ ClaimReadable' /\ ClaimFixed' => AuditedOutcome' = "claimed"
  /\ ClaimReadable' /\ ~ClaimFixed' => AuditedOutcome' = "offered"
  /\ ~ClaimReadable' /\ AbortReadable' => AuditedOutcome' = "aborted"
  /\ ~ClaimReadable' /\ ~AbortReadable' => AuditedOutcome' = "open"
BY DEF AuditedOutcome, ClaimReadable, AbortReadable, ClaimFixed

\* A completed log ends with run_closed, an aborted one with run_aborted.
LEMMA CompletedEndsClosed ==
  ASSUME NEW log, ReplaysCompleted(log)
  PROVE  Len(log) = FullEnd /\ log[FullEnd] = StepEvent("run_closed", NoCell)
<1>1. BodyEnd + 3 = FullEnd /\ 3 \in 1..3 /\ BodyEnd + 3 <= FullEnd
  BY CellCountAssumption DEF FullEnd, BodyEnd
<1>2. QED
  BY <1>1, KindAt DEF ReplaysCompleted, ConformsUpTo

LEMMA NeverBoth ==
  ASSUME NEW log, ReplaysCompleted(log), ReplaysAborted(log)
  PROVE  FALSE
<1>1. Len(log) = FullEnd /\ log[FullEnd].kind = "run_closed"
  BY CompletedEndsClosed DEF StepEvent
<1>2. (Len(log) - 1) + 1 = FullEnd
  BY <1>1, CellCountAssumption DEF FullEnd, BodyEnd
<1>3. QED
  BY <1>1, <1>2 DEF ReplaysAborted

\* abortRun never completes a log.
LEMMA AbortCompletesNothing ==
  ASSUME TypeInv, NEW c \in Cells \cup {NoCell}, NEW confirmed \in BOOLEAN,
         AbortRun(c, confirmed), ReplaysCompleted(EventFiles')
  PROVE  UNCHANGED EventFiles
<1> DEFINE e == AbortEvent(c, nextOrdinal - 1, StatedAttempt, confirmed)
<1>1. CASE UNCHANGED << events, stray >>
  BY <1>1 DEF EventFiles
<1>2. CASE stray = NoFile /\ ~UNCHANGED << events, stray >>
  <2>1. EventFiles' \in {Append(events, e), Append(events, TornFile)}
    BY <1>2 DEF AbortRun, AppendEvent, FailAppend, EventFiles
  <2>2. PICK x \in {e, TornFile} : EventFiles' = Append(events, x)
    BY <2>1
  <2>3. events \in Seq(Events)
    BY DEF TypeInv, LedgerTypeOK
  <2>4. EventFiles'[Len(EventFiles')] = x
    BY <2>2, <2>3
  <2>5. x = StepEvent("run_closed", NoCell)
    BY <2>4, CompletedEndsClosed
  <2>6. QED
    BY <2>2, <2>5 DEF AbortEvent, TornFile, StepEvent
<1>3. CASE stray # NoFile
  BY <1>1, <1>3 DEF AbortRun, AppendEvent, FailAppend
<1>4. QED
  BY <1>1, <1>2, <1>3

LEMMA OutcomeStep ==
  ASSUME LedgerInv, [LedgerNext]_ledgerVars
  PROVE  [Audit!OutcomeNext]_AuditedOutcome
<1> USE DEF Audit!OutcomeNext, Audit!OfferClaim, Audit!ConfirmClaim,
            Audit!WithdrawClaim, Audit!SealAbort
<1>0. TypeInv /\ SlotInv /\ TryInv /\ ManifestInv
  BY DEF LedgerInv
<1>1. CASE BeginPilotRunLedger
  <2>1. ~ClaimReadable /\ ~AbortReadable /\ ~ClaimReadable' /\ ~AbortReadable'
    BY <1>0, <1>1 DEF BeginPilotRunLedger, SlotInv, ClaimReadable, AbortReadable
  <2>2. QED
    BY <2>1, OutcomeCases, OutcomeCasesNext
<1>2. CASE \/ RecordCellPreparation \/ ReserveProviderAttempt
           \/ CompleteProviderAttempt \/ RecordCellResult
           \/ RecordResourceCleanup \/ RecordVerdict \/ CloseRun
  <2>1. mode = "try" /\ (closed => attempt # "none") /\ UNCHANGED << finalFile, abortFile >>
    BY <1>2 DEF RecordCellPreparation, ReserveProviderAttempt, CompleteProviderAttempt,
       RecordCellResult, RecordResourceCleanup, RecordVerdict, CloseRun
  <2>2. ~closed
    BY <1>0, <2>1, ClosedReplays DEF AllCellsRecorded
  <2>3. finalFile = "absent" /\ abortFile = "absent"
    BY <1>0, <2>1, <2>2 DEF ManifestInv, SlotInv
  <2>4. ~ClaimReadable /\ ~AbortReadable /\ ~ClaimReadable' /\ ~AbortReadable'
    BY <2>1, <2>3 DEF ClaimReadable, AbortReadable
  <2>5. QED
    BY <2>4, OutcomeCases, OutcomeCasesNext
<1>3. ASSUME NEW c \in Cells \cup {NoCell}, NEW confirmed \in BOOLEAN,
             AbortRun(c, confirmed)
      PROVE  [Audit!OutcomeNext]_AuditedOutcome
  <2>1. mode = "catch" /\ abortFile = "absent" /\ UNCHANGED << finalFile, abortFile >>
    BY <1>0, <1>3 DEF AbortRun, SlotInv
  <2>2. ~ClaimFixed
    BY <1>0, <2>1 DEF ManifestInv, ClaimFixed
  <2>3. ~AbortReadable /\ ~AbortReadable'
    BY <2>1 DEF AbortReadable
  <2>4. ClaimReadable' => ClaimReadable
    BY <1>0, <1>3, <2>1, AbortCompletesNothing DEF ClaimReadable
  <2>5. QED
    BY <2>2, <2>3, <2>4, OutcomeCases, OutcomeCasesNext
<1>4. CASE OpenFinalManifest \/ CallerThrows
  <2>1. /\ mode = "try" /\ finalFile = "absent" /\ finalFile' \in {"absent", "partial"}
        /\ UNCHANGED abortFile
    BY <1>4 DEF OpenFinalManifest, CallerThrows, durable
  <2>2. abortFile = "absent"
    BY <1>0, <2>1 DEF SlotInv
  <2>3. ~ClaimReadable /\ ~AbortReadable /\ ~ClaimReadable' /\ ~AbortReadable'
    BY <2>1, <2>2 DEF ClaimReadable, AbortReadable
  <2>4. QED
    BY <2>3, OutcomeCases, OutcomeCasesNext
<1>5. CASE SyncFinalManifest \/ WithdrawFinalManifest
  <2>1. /\ mode = "try" /\ mode' \in {"try", "catch"}
        /\ UNCHANGED << abortFile, finalManifestPersisted >>
    BY <1>5 DEF SyncFinalManifest, WithdrawFinalManifest, Throw, seals
  <2>2. ~finalManifestPersisted
    BY <1>0, <1>5 DEF SyncFinalManifest, WithdrawFinalManifest, ManifestInv
  <2>3. ~ClaimFixed /\ ~ClaimFixed'
    BY <2>1, <2>2 DEF ClaimFixed
  <2>4. ~AbortReadable /\ ~AbortReadable'
    BY <1>0, <2>1 DEF SlotInv, AbortReadable
  <2>5. QED
    BY <2>3, <2>4, OutcomeCases, OutcomeCasesNext
<1>6. CASE CommitFinalManifest
  <2>1. ClaimReadable
    BY <1>0, <1>6, ClosedReplays DEF CommitFinalManifest, ManifestInv, ClaimReadable
  <2>2. ClaimReadable' /\ ClaimFixed'
    BY <1>6, <2>1 DEF CommitFinalManifest, ClaimReadable, ClaimFixed, EventFiles, durable
  <2>3. QED
    BY <2>1, <2>2, OutcomeCases, OutcomeCasesNext
<1>7. CASE PersistAbortManifest
  <2>1. mode = "catch" /\ UNCHANGED EventFiles /\ ReplaysAborted(EventFiles)
    BY <1>7 DEF PersistAbortManifest, EventFiles
  <2>2. ~ClaimReadable /\ ~ClaimReadable'
    BY <2>1, NeverBoth DEF ClaimReadable
  <2>3. ~AbortReadable
    BY <1>0, <2>1 DEF SlotInv, AbortReadable
  <2>4. QED
    BY <2>2, <2>3, OutcomeCases, OutcomeCasesNext
<1>8. CASE RefuseBegin \/ CallerReturns \/ Crash \/ Restart
  <2>1. UNCHANGED durable /\ mode' \in {"ended", "starting"}
    BY <1>8 DEF RefuseBegin, CallerReturns, Crash, Restart
  <2>2. (ClaimReadable' <=> ClaimReadable) /\ (AbortReadable' <=> AbortReadable)
    BY <2>1 DEF ClaimReadable, AbortReadable, EventFiles, durable
  <2>3. ClaimFixed'
    BY <2>1 DEF ClaimFixed
  <2>4. QED
    BY <2>2, <2>3, OutcomeCases, OutcomeCasesNext
<1>9. CASE UNCHANGED ledgerVars
  BY <1>9 DEF AuditedOutcome, EventFiles, ledgerVars, durable, seals
<1>10. QED
  BY <1>1, <1>2, <1>3, <1>4, <1>5, <1>6, <1>7, <1>8, <1>9 DEF LedgerNext

\* The ledger implements PilotOutcome: whatever fails, crashes or restarts, a
\* reader sees a claim or an abort at most once and for good.
THEOREM LedgerImplementsOutcome == LedgerSpec => ImplementsPilotOutcome
<1>1. LedgerInit => Audit!OutcomeInit
  <2>1. LedgerInit => finalFile = "absent" /\ abortFile = "absent"
    BY DEF LedgerInit
  <2>2. QED
    BY <2>1 DEF Audit!OutcomeInit, AuditedOutcome
<1>2. LedgerInv /\ [LedgerNext]_ledgerVars => [Audit!OutcomeNext]_AuditedOutcome
  BY OutcomeStep
<1>3. QED
  BY <1>1, <1>2, LedgerInvHolds, PTL
  DEF LedgerSpec, ImplementsPilotOutcome, Audit!OutcomeSpec

=============================================================================
