--------------------------- MODULE CellExecutionProofs ---------------------------
(* Proofs about CellExecution, for any set of arms: what a completed receipt and  *)
(* a scored cell stand for, and when a cell may be refused.                       *)
EXTENDS CellExecution, TLAPS

Before == {"prepare", "continue", "request", "send"}
Waiting == {"head", "body"}
Agent == {"agent", "executor"}
Checking == {"verifier", "capture", "checks", "recapture"}
Settlement == {"settle", "read_decision"}

\* The request: what reached the client is what its receipt was built from.
RequestInv ==
  /\ pc \in Before => got = "unsent"
  /\ got = "unsent" => sent = "nothing" /\ providerClass = "pending"
  /\ pc = "head" => got = "nothing"
  /\ pc = "body" => got = "head" /\ sent \notin {"nothing", "invalid"}
  /\ pc \in Waiting => providerClass = "pending"
  /\ providerClass = "none" => got = "body" /\ sent = "whole"
  /\ got = "body" => sent # "nothing" /\ providerClass # "pending"
  /\ got = "body" /\ sent # "whole" => providerClass # "none"
  /\ pc \in Agent \union Checking \union Settlement => providerClass = "none"
  /\ pc \in {"complete", "build", "done"} => providerClass # "pending"

\* The executor and its git process: what was printed is what the tree went through.
ExecutorInv ==
  /\ node \in {"none", "decode"} => git = "none" /\ tree = "prepared"
  /\ node = "checking" => git = "checking"
  /\ node = "applying" => git = "applying"
  /\ node \in {"none", "decode", "checking", "applying"} => printed = "nothing"
  /\ node \in {"printed", "exited"} => printed # "nothing"
  /\ node = "killed" => "executor" \in mishaps
  /\ git = "checking" => tree = "prepared"
  /\ printed # "nothing" => git = "none"
  /\ printed = "applied" => tree = "patched"
  /\ printed \in {"no_safe_change", "response_rejected"} => tree = "prepared"
  /\ printed = "patch_rejected" /\ "git" \notin mishaps => tree = "prepared"

\* The patch is written in one direction only.
Reaches(s, t) == s = "prepared" \/ t = "patched" \/ s = t

\* The agent's receipt, which a slow git process may still belie.
ReceiptInv ==
  /\ pc \in Before \union Waiting \union {"complete", "agent"} => node = "none"
  /\ pc = "executor" => node # "none"
  /\ pc \in Before \union Waiting \union Agent \union {"complete"} => agent = NoReceipt
  /\ pc \in Checking \union Settlement => agent # NoReceipt
  /\ agent # NoReceipt =>
       /\ providerClass = "none" /\ node \in {"exited", "killed"}
       /\ Reaches(agent.after, tree)
       /\ agent.status = "applied" => agent.after = "patched"
       /\ mishaps = {} =>
            /\ agent.status \in {"applied", "no_safe_change"} => agent.exit = "zero"
            /\ agent.status \in {"patch_rejected", "response_rejected"} => agent.exit = "nonzero"
            /\ agent.status # "applied" => agent.after = "prepared"

\* The trees the checks ran on lie between the receipt's and the present one.
VerifierInv ==
  /\ pc \in Before \union Waiting \union Agent \union Checking \union {"complete"} =>
       evidence = "none"
  /\ pc \in Before \union Waiting \union Agent \union {"complete", "verifier", "capture"} =>
       seen = {}
  /\ pc \in {"checks", "recapture"} =>
       \A t \in seen : Reaches(agent.after, t) /\ Reaches(t, tree)
  /\ pc = "recapture" => seen # {}
  /\ evidence # "none" =>
       agent # NoReceipt /\ providerClass = "none" /\ seen = {agent.after}
  /\ pc \in Settlement => arm = "treatment" /\ evidence # "none"

\* The settlement, and what becomes the cell's infrastructure failure.
ResultInv ==
  /\ pc \notin {"build", "done", "aborted"} => failure = "none"
  /\ pc \notin {"done", "aborted"} => result = "none"
  /\ pc = "read_decision" \/ ledger = "closed" => runtime = "settled"
  /\ pc \in Settlement => ledger = "open"
  /\ ledger = "closed" => arm = "treatment" /\ evidence # "none"
  /\ pc = "build" => EvidenceBindingValid /\ LedgerBindingValid
  /\ pc = "build" /\ failure = "none" /\ arm = "treatment" => ledger = "closed"

\* As long as the clock has not been set back, every receipt has the same time.
ClockInv ==
  "clock" \notin mishaps =>
    /\ clock = 1
    /\ got # "unsent" \/ pc = "send" => time["requested"] = 1
    /\ providerClass # "pending" => time["received"] = 1
    /\ node # "none" => time["started"] = 1
    /\ agent # NoReceipt => time["exited"] = 1

\* The inductive invariant.  A scored cell is sound because trees are compared in the
\* order the patch is written in, before and after the checks.
IInv ==
  /\ CellTypeOK /\ ScoredCellIsSound /\ RefusalNeedsMishap
  /\ RequestInv /\ ExecutorInv /\ ReceiptInv /\ VerifierInv /\ ResultInv /\ ClockInv

--------------------------------------------------------------------------------
\* Nothing has been asked of anybody yet.
LEMMA InitHolds ==
  ASSUME Init
  PROVE  IInv
<1>. USE ArmsAssumption
     DEF IInv, CellTypeOK, ScoredCellIsSound, RefusalNeedsMishap, RequestInv, ExecutorInv,
         ReceiptInv, VerifierInv, ResultInv, ClockInv, Reaches, EvidenceBindingValid,
         LedgerBindingValid, Before, Waiting, Agent, Checking, Settlement, Steps,
         Checkpointed, Replies, FailureClasses, Statuses, Trees, Moments, NoReceipt,
         Goto, At, request, processes, records, host
<1>1. CellTypeOK
  <2>1. time = [m \in Moments |-> 0] /\ 0 \in 0 .. 1 /\ 1 \in 0 .. 1
    BY DEF Init
  <2>2. time \in [Moments -> 0 .. 1]
    BY <2>1
  <2>3. agent = NoReceipt /\ seen = {} /\ mishaps = {} /\ clock = 1
    BY DEF Init
  <2>. QED BY <2>1, <2>2, <2>3 DEF Init
<1>2. ScoredCellIsSound /\ RefusalNeedsMishap /\ RequestInv /\ ExecutorInv
  BY DEF Init
<1>3. ReceiptInv /\ VerifierInv /\ ResultInv /\ ClockInv
  BY DEF Init
<1>. QED BY <1>1, <1>2, <1>3

\* A signal, a clock that is set back and catches up.
LEMMA HostKeeps ==
  ASSUME IInv,
         Cancel \/ Stop \/ ClockStepsBack \/ ClockAdvances
  PROVE  IInv'
<1>. USE ArmsAssumption
     DEF IInv, CellTypeOK, ScoredCellIsSound, RefusalNeedsMishap, RequestInv, ExecutorInv,
         ReceiptInv, VerifierInv, ResultInv, ClockInv, Reaches, EvidenceBindingValid,
         LedgerBindingValid, Before, Waiting, Agent, Checking, Settlement, Steps,
         Checkpointed, Replies, FailureClasses, Statuses, Trees, Moments, NoReceipt,
         Goto, At, request, processes, records, host
<1>1. CASE Cancel
  BY <1>1 DEF Cancel, Ended
<1>2. CASE Stop
  BY <1>2 DEF Stop
<1>3. CASE ClockStepsBack
  BY <1>3 DEF ClockStepsBack, Ended
<1>4. CASE ClockAdvances
  BY <1>4 DEF ClockAdvances, Ended
<1>. QED BY <1>1, <1>2, <1>3, <1>4

\* The preparation speaks to the Runtime only.
LEMMA PrepareKeeps ==
  ASSUME IInv,
         PrepareBaseline \/ RecordObservations \/ CreateContinuation \/ FailPrepareArm
  PROVE  IInv'
<1>. USE ArmsAssumption
     DEF IInv, CellTypeOK, ScoredCellIsSound, RefusalNeedsMishap, RequestInv, ExecutorInv,
         ReceiptInv, VerifierInv, ResultInv, ClockInv, Reaches, EvidenceBindingValid,
         LedgerBindingValid, Before, Waiting, Agent, Checking, Settlement, Steps,
         Checkpointed, Replies, FailureClasses, Statuses, Trees, Moments, NoReceipt,
         Goto, At, request, processes, records, host
<1>1. CASE PrepareBaseline
  BY <1>1 DEF PrepareBaseline, Prepared
<1>2. CASE RecordObservations
  BY <1>2 DEF RecordObservations, Prepared
<1>3. CASE CreateContinuation
  BY <1>3 DEF CreateContinuation, Prepared
<1>4. CASE FailPrepareArm
  BY <1>4 DEF FailPrepareArm, Prepared
<1>. QED BY <1>1, <1>2, <1>3, <1>4

\* The request, and the provider that may answer it too late.
LEMMA RequestKeeps ==
  ASSUME IInv,
         \/ ReserveAttempt \/ SendRequest \/ ProviderAnswers \/ ReceiveHead
         \/ ReceiveBody \/ EndRequest \/ CompleteAttempt
  PROVE  IInv'
<1>. USE ArmsAssumption
     DEF IInv, CellTypeOK, ScoredCellIsSound, RefusalNeedsMishap, RequestInv, ExecutorInv,
         ReceiptInv, VerifierInv, ResultInv, ClockInv, Reaches, EvidenceBindingValid,
         LedgerBindingValid, Before, Waiting, Agent, Checking, Settlement, Steps,
         Checkpointed, Replies, FailureClasses, Statuses, Trees, Moments, NoReceipt,
         Goto, At, request, processes, records, host
<1>1. CASE ReserveAttempt
  BY <1>1 DEF ReserveAttempt, Stamp, Requesting
<1>2. CASE SendRequest
  BY <1>2 DEF SendRequest, Requesting
<1>3. CASE ProviderAnswers
  BY <1>3 DEF ProviderAnswers, Requesting
<1>4. CASE ReceiveHead
  BY <1>4 DEF ReceiveHead, BuildResponseReceipt, Stamp, Requesting
<1>5. CASE ReceiveBody
  BY <1>5 DEF ReceiveBody, BuildResponseReceipt, Classify, Stamp, Requesting
<1>6. CASE EndRequest
  BY <1>6 DEF EndRequest, BuildResponseReceipt, Stamp, Requesting
<1>7. CASE CompleteAttempt
  BY <1>7 DEF CompleteAttempt, ResponseReceiptValid, FailAt
<1>. QED BY <1>1, <1>2, <1>3, <1>4, <1>5, <1>6, <1>7

\* The executor, until it exits or is killed.
LEMMA ExecutorKeeps ==
  ASSUME IInv,
         SpawnExecutor \/ FailSpawn \/ DecodeAction \/ ExecutorExits \/ ExecutorKilled
  PROVE  IInv'
<1>. USE ArmsAssumption
     DEF IInv, CellTypeOK, ScoredCellIsSound, RefusalNeedsMishap, RequestInv, ExecutorInv,
         ReceiptInv, VerifierInv, ResultInv, ClockInv, Reaches, EvidenceBindingValid,
         LedgerBindingValid, Before, Waiting, Agent, Checking, Settlement, Steps,
         Checkpointed, Replies, FailureClasses, Statuses, Trees, Moments, NoReceipt,
         Goto, At, request, processes, records, host
<1>1. CASE SpawnExecutor
  BY <1>1 DEF SpawnExecutor, Stamp, Acting
<1>2. CASE FailSpawn
  BY <1>2 DEF FailSpawn, FailAt, Acting
<1>3. CASE DecodeAction
  BY <1>3 DEF DecodeAction, Report, ExecutorMoves, Acting
<1>4. CASE ExecutorExits
  BY <1>4 DEF ExecutorExits, ExecutorMoves, Acting
<1>5. CASE ExecutorKilled
  BY <1>5 DEF ExecutorKilled, ExecutorAlive, ExecutorMoves, Acting
<1>. QED BY <1>1, <1>2, <1>3, <1>4, <1>5

\* The exit is collected, or its capture refused.
LEMMA CollectKeeps ==
  ASSUME IInv,
         CollectExit \/ FailCaptureAfterExit
  PROVE  IInv'
<1>. USE ArmsAssumption
     DEF IInv, CellTypeOK, ScoredCellIsSound, RefusalNeedsMishap, RequestInv, ExecutorInv,
         ReceiptInv, VerifierInv, ResultInv, ClockInv, Reaches, EvidenceBindingValid,
         LedgerBindingValid, Before, Waiting, Agent, Checking, Settlement, Steps,
         Checkpointed, Replies, FailureClasses, Statuses, Trees, Moments, NoReceipt,
         Goto, At, request, processes, records, host
<1>1. CASE CollectExit
  BY <1>1 DEF CollectExit, ExitCode, Stamp, Acting
<1>2. CASE FailCaptureAfterExit
  BY <1>2 DEF FailCaptureAfterExit, FailAt, Acting
<1>. QED BY <1>1, <1>2

\* Git goes on writing whoever still waits for it.
LEMMA GitKeeps ==
  ASSUME IInv,
         GitCheckEnds \/ GitWrites \/ GitApplyEnds
  PROVE  IInv'
<1>. USE ArmsAssumption
     DEF IInv, CellTypeOK, ScoredCellIsSound, RefusalNeedsMishap, RequestInv, ExecutorInv,
         ReceiptInv, VerifierInv, ResultInv, ClockInv, Reaches, EvidenceBindingValid,
         LedgerBindingValid, Before, Waiting, Agent, Checking, Settlement, Steps,
         Checkpointed, Replies, FailureClasses, Statuses, Trees, Moments, NoReceipt,
         Goto, At, request, processes, records, host
<1>1. CASE GitCheckEnds
  BY <1>1 DEF GitCheckEnds, Report, ExecutorMoves, Acting
<1>2. CASE GitWrites
  BY <1>2 DEF GitWrites, ExecutorMoves, Acting
<1>3. CASE GitApplyEnds
  <2>1. /\ git = "applying" /\ git' = "none" /\ tree' = tree
        /\ UNCHANGED <<arm, pc, cancelled, runtime, request, agent, seen, evidence, ledger,
                       failure, result, clock, time>>
    BY <1>3 DEF GitApplyEnds, ExecutorMoves, Acting
  <2>2. CASE node # "applying"
    <3>1. UNCHANGED <<node, printed, mishaps>>
      BY <1>3, <2>2 DEF GitApplyEnds
    <3>. QED BY <2>1, <2>2, <3>1
  <2>3. CASE node = "applying"
    <3>1. node' = "printed" /\ agent = NoReceipt /\ printed = "nothing"
      BY <1>3, <2>3 DEF GitApplyEnds, Report
    <3>2. \/ tree = "patched" /\ printed' = "applied" /\ mishaps' = mishaps
          \/ /\ printed' = "patch_rejected"
             /\ mishaps' = IF tree = "prepared" THEN mishaps ELSE mishaps \cup {"git"}
      BY <1>3, <2>3 DEF GitApplyEnds, Report
    <3>3. mishaps \subseteq mishaps' /\ ("clock" \in mishaps' => "clock" \in mishaps)
      BY <3>2
    <3>4. CellTypeOK' /\ ScoredCellIsSound' /\ RefusalNeedsMishap' /\ RequestInv'
      BY <2>1, <2>3, <3>1, <3>2, <3>3
    <3>5. ExecutorInv'
      BY <2>1, <2>3, <3>1, <3>2
    <3>6. ReceiptInv' /\ VerifierInv' /\ ResultInv' /\ ClockInv'
      BY <2>1, <2>3, <3>1, <3>2, <3>3
    <3>. QED BY <3>4, <3>5, <3>6
  <2>. QED BY <2>2, <2>3
<1>. QED BY <1>1, <1>2, <1>3

\* The verifier captures, checks and captures again.
LEMMA VerifierKeeps ==
  ASSUME IInv,
         \/ BeginVerifier \/ CaptureWorkspace \/ RunCheck \/ ChecksEnd \/ SignEvidence
         \/ FailVerifier
  PROVE  IInv'
<1>. USE ArmsAssumption
     DEF IInv, CellTypeOK, ScoredCellIsSound, RefusalNeedsMishap, RequestInv, ExecutorInv,
         ReceiptInv, VerifierInv, ResultInv, ClockInv, Reaches, EvidenceBindingValid,
         LedgerBindingValid, Before, Waiting, Agent, Checking, Settlement, Steps,
         Checkpointed, Replies, FailureClasses, Statuses, Trees, Moments, NoReceipt,
         Goto, At, request, processes, records, host
<1>1. CASE BeginVerifier
  BY <1>1 DEF BeginVerifier, Verifying
<1>2. CASE CaptureWorkspace
  BY <1>2 DEF CaptureWorkspace, Verifying
<1>3. CASE RunCheck
  BY <1>3 DEF RunCheck, Verifying
<1>4. CASE ChecksEnd
  BY <1>4 DEF ChecksEnd, Verifying
<1>5. CASE SignEvidence
  <2>1. /\ pc = "recapture" /\ tree = agent.after /\ agent # NoReceipt
        /\ evidence' \in {"passed", "failed", "inconclusive"}
        /\ pc' = IF arm = "treatment" THEN "settle" ELSE "build"
        /\ UNCHANGED <<arm, cancelled, runtime, request, processes, agent, seen, ledger,
                       failure, result, time, host>>
    BY <1>5 DEF SignEvidence, Verifying
  <2>2. seen = {agent.after}
    <3>1. \A t \in seen : t \in Trees /\ Reaches(agent.after, t) /\ Reaches(t, agent.after)
      BY <2>1
    <3>2. \A t \in seen : t = agent.after
      BY <3>1
    <3>. QED BY <2>1, <3>2
  <2>3. providerClass = "none" /\ failure = "none" /\ ledger = "open" /\ result = "none"
    BY <2>1
  <2>4. CellTypeOK' /\ ScoredCellIsSound' /\ RefusalNeedsMishap' /\ RequestInv'
    BY <2>1, <2>3
  <2>5. ExecutorInv' /\ ReceiptInv' /\ ClockInv'
    BY <2>1
  <2>6. VerifierInv' /\ ResultInv'
    BY <2>1, <2>2, <2>3
  <2>. QED BY <2>4, <2>5, <2>6
<1>6. CASE FailVerifier
  BY <1>6 DEF FailVerifier, FailAt, Verifying
<1>. QED BY <1>1, <1>2, <1>3, <1>4, <1>5, <1>6

\* The settlement, and the decision read back.
LEMMA SettleKeeps ==
  ASSUME IInv,
         RecordOutcome \/ ReadDecision \/ FailSettlement
  PROVE  IInv'
<1>. USE ArmsAssumption
     DEF IInv, CellTypeOK, ScoredCellIsSound, RefusalNeedsMishap, RequestInv, ExecutorInv,
         ReceiptInv, VerifierInv, ResultInv, ClockInv, Reaches, EvidenceBindingValid,
         LedgerBindingValid, Before, Waiting, Agent, Checking, Settlement, Steps,
         Checkpointed, Replies, FailureClasses, Statuses, Trees, Moments, NoReceipt,
         Goto, At, request, processes, records, host
<1>1. CASE RecordOutcome
  BY <1>1 DEF RecordOutcome, Settling
<1>2. CASE ReadDecision
  BY <1>2 DEF ReadDecision, Settling
<1>3. CASE FailSettlement
  BY <1>3 DEF FailSettlement, FailAt, Settling
<1>. QED BY <1>1, <1>2, <1>3

\* The result's own rules.
LEMMA BuildKeeps ==
  ASSUME IInv,
         BuildResult
  PROVE  IInv'
<1>. USE ArmsAssumption
     DEF IInv, CellTypeOK, ScoredCellIsSound, RefusalNeedsMishap, RequestInv, ExecutorInv,
         ReceiptInv, VerifierInv, ResultInv, ClockInv, Reaches, EvidenceBindingValid,
         LedgerBindingValid, Before, Waiting, Agent, Checking, Settlement, Steps,
         Checkpointed, Replies, FailureClasses, Statuses, Trees, Moments, NoReceipt,
         Goto, At, request, processes, records, host
<1>1. CASE BuildResult
  BY <1>1
  DEF BuildResult, ResultAdmissible, ResponseReceiptValid, AgentBindingValid,
     AgentReceiptValid, Evaluation
<1>. QED BY <1>1

--------------------------------------------------------------------------------
\* The inductive invariant holds in every reachable state.
THEOREM CellInvariant == Spec => []IInv
<1>1. Init => IInv
  BY InitHolds
<1>2. IInv /\ [Next]_vars => IInv'
  <2>. SUFFICES ASSUME IInv, [Next]_vars PROVE IInv'
    OBVIOUS
  <2>1. CASE UNCHANGED vars
    BY <2>1 DEF vars, IInv, CellTypeOK, ScoredCellIsSound, RefusalNeedsMishap, RequestInv,
         ExecutorInv, ReceiptInv, VerifierInv, ResultInv, ClockInv, Reaches,
         EvidenceBindingValid, LedgerBindingValid
  <2>2. CASE Next
    BY <2>2, HostKeeps, PrepareKeeps, RequestKeeps, ExecutorKeeps, CollectKeeps,
       GitKeeps, VerifierKeeps, SettleKeeps, BuildKeeps
    DEF Next, CellStep, RuntimeCall, ProviderCall, AgentStep, GitStep, VerifierStep
  <2>. QED BY <2>1, <2>2
<1>. QED BY <1>1, <1>2, PTL DEF Spec

\* Every variable keeps its kind of value.
THEOREM CellTypes == Spec => []CellTypeOK
<1>1. IInv => CellTypeOK
  BY DEF IInv
<1>. QED BY <1>1, CellInvariant, PTL

\* A completed receipt stands for a whole answer, however late others arrived.
THEOREM ReceiptsTellWhatArrived == Spec => []ReceiptTellsWhatArrived
<1>1. IInv => ReceiptTellsWhatArrived
  BY DEF IInv, RequestInv, VerifierInv, ReceiptTellsWhatArrived
<1>. QED BY <1>1, CellInvariant, PTL

\* A scored cell rests on one tree, whatever a process of the agent still wrote, and
\* a scored treatment is settled.
THEOREM ScoredCellsAreSound == Spec => []ScoredCellIsSound
<1>1. IInv => ScoredCellIsSound
  BY DEF IInv
<1>. QED BY <1>1, CellInvariant, PTL

\* Without a clock set back, a killed executor or a half-written patch the result's
\* own rules refuse nothing.
THEOREM RefusalsNeedMishaps == Spec => []RefusalNeedsMishap
<1>1. IInv => RefusalNeedsMishap
  BY DEF IInv
<1>. QED BY <1>1, CellInvariant, PTL
--------------------------------------------------------------------------------
(* The cell does what CellProtocol says.                                          *)

\* What the mapping reads, left alone.
BooksKept == (got = "unsent")' = (got = "unsent") /\ UNCHANGED <<arm, ledger>>

\* The steps of CellProtocol for its one cell, by the stages they lead between.
BegunMoves ==
  {<<"waiting", "preparing">>, <<"preparing", "burned">>, <<"answered", "completed">>,
   <<"unusable", "closing">>, <<"completed", "acting">>, <<"completed", "closing">>,
   <<"acting", "verifying">>, <<"closing", "finished">>}
FreeMoves ==
  {<<"sent", "answered">>, <<"sent", "unusable">>, <<"acting", "closing">>,
   <<"verifying", "closing">>}

\* An unchanged stage is a stutter, whatever else the cell does; so is a step that
\* only tells the run of the signal.
LEMMA StaysInStage ==
  ASSUME StageAtStep' = StageAtStep, BooksKept, cancelled' \in {cancelled, TRUE}
  PROVE  [Protocol!CellNext]_Protocol!cellVars
<1>1. CASE cancelled' = cancelled
  BY <1>1 DEF BooksKept, Protocol!cellVars
<1>2. CASE cancelled' = TRUE
  BY <1>2 DEF BooksKept, Protocol!cellVars, Protocol!CellNext, Protocol!Cancel,
     Protocol!NothingElse
<1>. QED BY <1>1, <1>2

\* A stage that is begun, which nobody has cancelled, or that comes to its end.
LEMMA MovesOn ==
  ASSUME BooksKept, cancelled' = cancelled,
         \/ <<StageAtStep, StageAtStep'>> \in BegunMoves /\ ~cancelled
         \/ <<StageAtStep, StageAtStep'>> \in FreeMoves
  PROVE  Protocol!CellNext
<1>1. Protocol!Move(1, StageAtStep') /\ Protocol!NothingElse
  BY DEF BooksKept, Protocol!Move, Protocol!NothingElse
<1>2. CASE <<StageAtStep, StageAtStep'>> \in BegunMoves /\ ~cancelled
  BY <1>1, <1>2
  DEF BegunMoves, Protocol!CellNext, Protocol!OneCell, Protocol!Prepare, Protocol!Burn,
      Protocol!Complete, Protocol!Act, Protocol!Verify, Protocol!Finish, Protocol!Begins
<1>3. CASE <<StageAtStep, StageAtStep'>> \in FreeMoves
  BY <1>1, <1>3
  DEF FreeMoves, Protocol!CellNext, Protocol!OneCell, Protocol!Answer, Protocol!Conclude
<1>. QED BY <1>2, <1>3

\* The request is the one step that sends, and only a burned attempt is sent.
LEMMA SendsOnce ==
  ASSUME StageAtStep = "burned", StageAtStep' = "sent", ~cancelled, cancelled' = cancelled,
         got = "unsent", got' # "unsent", UNCHANGED <<arm, ledger>>
  PROVE  Protocol!CellNext
<1>1. Protocol!Move(1, "sent")
  BY DEF Protocol!Move
<1>2. Protocol!Send(1)
  BY <1>1 DEF Protocol!Send, Protocol!Begins
<1>. QED BY <1>2 DEF Protocol!CellNext, Protocol!OneCell

\* The ledger closes in one step, on a verified treatment.
LEMMA SettlesOnce ==
  ASSUME StageAtStep = "verifying", StageAtStep' = "closing", cancelled' = cancelled,
         (got = "unsent")' = (got = "unsent"), arm = "treatment", arm' = arm,
         ledger' = "closed"
  PROVE  Protocol!CellNext
<1>1. Protocol!Move(1, "closing")
  BY DEF Protocol!Move
<1>2. Protocol!Settle(1)
  BY <1>1 DEF Protocol!Settle
<1>. QED BY <1>2 DEF Protocol!CellNext, Protocol!OneCell

\* Whatever ends the run ends it for the cell.
LEMMA EndsRun ==
  ASSUME StageAtStep' = "over", cancelled' = cancelled, BooksKept
  PROVE  Protocol!CellNext
BY DEF BooksKept, Protocol!CellNext, Protocol!End, Protocol!NothingElse

\* Every step of the cell is a step of CellProtocol or none.
LEMMA StepRefines ==
  ASSUME IInv, [Next]_vars
  PROVE  [Protocol!CellNext]_Protocol!cellVars
<1>. USE DEF request, processes, records, host, At, Goto, Checkpointed
<1>. DEFINE Refined == [Protocol!CellNext]_Protocol!cellVars
<1>1. cancelled \in BOOLEAN /\ (cancelled = TRUE \/ ~cancelled)
  BY DEF IInv, CellTypeOK
<1>2. CASE UNCHANGED vars
  BY <1>2, StaysInStage DEF vars, BooksKept, StageAtStep
<1>3. CASE Cancel
  BY <1>3, StaysInStage DEF Cancel, BooksKept, StageAtStep
<1>4. CASE Stop
  <2>1. StageAtStep' = "over" /\ BooksKept /\ cancelled' = cancelled
    BY <1>4 DEF Stop, BooksKept, StageAtStep
  <2>. QED BY <2>1, EndsRun
<1>5. CASE ClockStepsBack \/ ClockAdvances
  BY <1>5, StaysInStage DEF ClockStepsBack, ClockAdvances, BooksKept, StageAtStep
<1>6. CASE PrepareBaseline \/ RecordObservations
  <2>1. <<StageAtStep, StageAtStep'>> = <<"waiting", "preparing">> /\ ~cancelled
    BY <1>6 DEF PrepareBaseline, RecordObservations, StageAtStep
  <2>2. BooksKept /\ cancelled' = cancelled
    BY <1>6 DEF PrepareBaseline, RecordObservations, Prepared, BooksKept
  <2>. QED BY <2>1, <2>2, MovesOn DEF BegunMoves
<1>7. CASE CreateContinuation
  BY <1>7, StaysInStage DEF CreateContinuation, Prepared, BooksKept, StageAtStep
<1>8. CASE FailPrepareArm
  <2>1. StageAtStep' = "over" /\ BooksKept /\ cancelled' = cancelled
    BY <1>8 DEF FailPrepareArm, Prepared, BooksKept, StageAtStep
  <2>. QED BY <2>1, EndsRun
<1>9. CASE ReserveAttempt
  <2>1. <<StageAtStep, StageAtStep'>> = <<"preparing", "burned">> /\ ~cancelled
    BY <1>9 DEF ReserveAttempt, StageAtStep
  <2>2. BooksKept /\ cancelled' = cancelled
    BY <1>9 DEF ReserveAttempt, Requesting, BooksKept
  <2>. QED BY <2>1, <2>2, MovesOn DEF BegunMoves
<1>10. CASE SendRequest
  <2>1. got = "unsent" /\ got' = "nothing"
    BY <1>10 DEF SendRequest, IInv, RequestInv, Before
  <2>2. StageAtStep = "burned" /\ StageAtStep' = "sent" /\ ~cancelled /\ cancelled' = cancelled
        /\ UNCHANGED <<arm, ledger>>
    BY <1>10 DEF SendRequest, Requesting, StageAtStep
  <2>. QED BY <2>1, <2>2, SendsOnce
<1>11. CASE ProviderAnswers
  BY <1>11, StaysInStage DEF ProviderAnswers, Requesting, BooksKept, StageAtStep
<1>12. CASE ReceiveHead \/ ReceiveBody \/ EndRequest
  <2>1. StageAtStep = "sent" /\ StageAtStep' \in {"sent", "answered", "unusable"}
    BY <1>12 DEF ReceiveHead, ReceiveBody, EndRequest, BuildResponseReceipt, StageAtStep
  <2>2. got # "unsent" /\ got' # "unsent"
    BY <1>12 DEF ReceiveHead, ReceiveBody, EndRequest, IInv, RequestInv
  <2>3. BooksKept /\ cancelled' = cancelled
    BY <1>12, <2>2 DEF ReceiveHead, ReceiveBody, EndRequest, Requesting, BooksKept
  <2>4. CASE StageAtStep' = "sent"
    BY <2>1, <2>3, <2>4, StaysInStage
  <2>5. CASE StageAtStep' # "sent"
    BY <2>1, <2>3, <2>5, MovesOn DEF FreeMoves
  <2>. QED BY <2>4, <2>5
<1>13. CASE CompleteAttempt
  <2>1. BooksKept /\ cancelled' = cancelled /\ ~cancelled
    BY <1>13 DEF CompleteAttempt, BooksKept
  <2>2. \/ StageAtStep' = "over"
        \/ <<StageAtStep, StageAtStep'>> = <<"answered", "completed">>
        \/ <<StageAtStep, StageAtStep'>> = <<"unusable", "closing">>
    BY <1>13 DEF CompleteAttempt, FailAt, StageAtStep
  <2>. QED BY <2>1, <2>2, EndsRun, MovesOn DEF BegunMoves
<1>14. CASE SpawnExecutor \/ FailSpawn
  <2>1. \/ <<StageAtStep, StageAtStep'>> = <<"completed", "acting">>
        \/ <<StageAtStep, StageAtStep'>> = <<"completed", "closing">>
    BY <1>14 DEF SpawnExecutor, FailSpawn, FailAt, StageAtStep
  <2>2. BooksKept /\ cancelled' = cancelled /\ ~cancelled
    BY <1>14 DEF SpawnExecutor, FailSpawn, Acting, BooksKept
  <2>. QED BY <2>1, <2>2, MovesOn DEF BegunMoves
<1>15. CASE \/ DecodeAction \/ ExecutorExits \/ ExecutorKilled
            \/ GitCheckEnds \/ GitWrites \/ GitApplyEnds
  <2>1. ExecutorMoves
    BY <1>15 DEF DecodeAction, ExecutorExits, ExecutorKilled, GitCheckEnds, GitWrites,
       GitApplyEnds
  <2>. QED BY <2>1, StaysInStage DEF ExecutorMoves, Acting, BooksKept, StageAtStep
<1>16. CASE CollectExit
  BY <1>16, StaysInStage DEF CollectExit, Acting, BooksKept, StageAtStep
<1>17. CASE FailCaptureAfterExit
  <2>1. <<StageAtStep, StageAtStep'>> = <<"acting", "closing">>
    BY <1>17 DEF FailCaptureAfterExit, FailAt, StageAtStep
  <2>2. BooksKept /\ cancelled' = cancelled
    BY <1>17 DEF FailCaptureAfterExit, Acting, BooksKept
  <2>. QED BY <2>1, <2>2, MovesOn DEF FreeMoves
<1>18. CASE BeginVerifier
  <2>1. <<StageAtStep, StageAtStep'>> = <<"acting", "verifying">> /\ ~cancelled
    BY <1>18 DEF BeginVerifier, StageAtStep
  <2>2. BooksKept /\ cancelled' = cancelled
    BY <1>18 DEF BeginVerifier, Verifying, BooksKept
  <2>. QED BY <2>1, <2>2, MovesOn DEF BegunMoves
<1>19. CASE CaptureWorkspace \/ RunCheck \/ ChecksEnd
  BY <1>19, StaysInStage
  DEF CaptureWorkspace, RunCheck, ChecksEnd, Verifying, BooksKept, StageAtStep
<1>20. CASE SignEvidence
  <2>1. StageAtStep = "verifying" /\ StageAtStep' \in {"verifying", "closing"}
    BY <1>20 DEF SignEvidence, StageAtStep
  <2>2. BooksKept /\ cancelled' = cancelled
    BY <1>20 DEF SignEvidence, Verifying, BooksKept
  <2>. QED BY <2>1, <2>2, StaysInStage, MovesOn DEF FreeMoves
<1>21. CASE FailVerifier
  <2>1. \/ <<StageAtStep, StageAtStep'>> = <<"acting", "closing">>
        \/ <<StageAtStep, StageAtStep'>> = <<"verifying", "closing">>
    BY <1>21 DEF FailVerifier, FailAt, StageAtStep
  <2>2. BooksKept /\ cancelled' = cancelled
    BY <1>21 DEF FailVerifier, Verifying, BooksKept
  <2>. QED BY <2>1, <2>2, MovesOn DEF FreeMoves
<1>22. CASE RecordOutcome
  BY <1>22, StaysInStage DEF RecordOutcome, Settling, BooksKept, StageAtStep
<1>23. CASE ReadDecision
  <2>1. arm = "treatment"
    BY <1>23 DEF ReadDecision, IInv, VerifierInv, Settlement
  <2>2. StageAtStep = "verifying" /\ StageAtStep' = "closing"
    BY <1>23 DEF ReadDecision, StageAtStep
  <2>3. /\ cancelled' = cancelled /\ arm' = arm /\ ledger' = "closed"
        /\ (got = "unsent")' = (got = "unsent")
    BY <1>23 DEF ReadDecision, Settling
  <2>. QED BY <2>1, <2>2, <2>3, SettlesOnce
<1>24. CASE FailSettlement
  <2>1. <<StageAtStep, StageAtStep'>> = <<"verifying", "closing">>
    BY <1>24 DEF FailSettlement, FailAt, StageAtStep
  <2>2. BooksKept /\ cancelled' = cancelled
    BY <1>24 DEF FailSettlement, Settling, BooksKept
  <2>. QED BY <2>1, <2>2, MovesOn DEF FreeMoves
<1>25. CASE BuildResult
  <2>1. BooksKept /\ cancelled' = cancelled /\ ~cancelled
    BY <1>25 DEF BuildResult, BooksKept
  <2>2. \/ StageAtStep' = "over"
        \/ <<StageAtStep, StageAtStep'>> = <<"closing", "finished">>
    BY <1>25 DEF BuildResult, StageAtStep
  <2>. QED BY <2>1, <2>2, EndsRun, MovesOn DEF BegunMoves
<1>. QED
  BY <1>2, <1>3, <1>4, <1>5, <1>6, <1>7, <1>8, <1>9, <1>10, <1>11, <1>12, <1>13, <1>14,
     <1>15, <1>16, <1>17, <1>18, <1>19, <1>20, <1>21, <1>22, <1>23, <1>24, <1>25
  DEF Next, CellStep, RuntimeCall, ProviderCall, AgentStep, GitStep, VerifierStep

\* Seen from the run, a cell is what CellProtocol says, whatever the Runtime, the
\* provider, the executor, git and the clock do in it.
THEOREM CellImplementsProtocol == Spec => ImplementsCellProtocol
<1>1. Init => Protocol!CellInit
  BY DEF Init, Protocol!CellInit, StageAtStep
<1>2. IInv /\ [Next]_vars => [Protocol!CellNext]_Protocol!cellVars
  BY StepRefines
<1>. QED BY <1>1, <1>2, CellInvariant, PTL DEF Spec, ImplementsCellProtocol, Protocol!CellSpec

\* From within the cell as for the run: one request, only after the attempt was burned,
\* and a closed ledger only of a treatment that was answered.
THEOREM CellKeepsPromise == Spec => []Protocol!CellPromise
<1>1. IInv => Protocol!CellPromise
  <2>. SUFFICES ASSUME IInv PROVE Protocol!CellPromise
    OBVIOUS
  <2>1. StageAtStep \in {"waiting", "preparing", "burned"} => got = "unsent"
    BY DEF StageAtStep, IInv, CellTypeOK, RequestInv, Before, Steps, Checkpointed
  <2>2. StageAtStep \in Protocol!Requested => got # "unsent"
    BY DEF StageAtStep, Protocol!Requested, IInv, CellTypeOK, RequestInv, Before, Waiting,
       Agent, Checking, Settlement, Steps, Checkpointed
  <2>3. ledger = "closed" => arm = "treatment" /\ got # "unsent"
    BY DEF IInv, RequestInv, VerifierInv, ResultInv
  <2>4. ledger = "closed" => StageAtStep \in {"closing", "finished", "over"}
    BY DEF StageAtStep, IInv, CellTypeOK, VerifierInv, ResultInv, Before, Waiting, Agent,
       Checking, Settlement, Steps, Checkpointed
  <2>5. \A c \in {1}, d \in {1} : ~(d < c)
    OBVIOUS
  <2>. DEFINE sent1 == IF got = "unsent" THEN 0 ELSE 1
              treated == arm = "treatment"
              closed == ledger = "closed"
  <2>6. /\ sent1 \in 0 .. 1
        /\ StageAtStep \in {"waiting", "preparing", "burned"} => sent1 = 0
        /\ StageAtStep \in Protocol!Requested => sent1 = 1
        /\ closed => treated /\ sent1 = 1
        /\ closed => StageAtStep \in {"closing", "finished", "over"}
    BY <2>1, <2>2, <2>3, <2>4
  <2>. HIDE DEF sent1, treated, closed
  <2>7. /\ Protocol!CellPromise <=>
             /\ \A c \in {1} :
                  /\ sent1 \in 0 .. 1
                  /\ StageAtStep \in {"waiting", "preparing", "burned"} => sent1 = 0
                  /\ StageAtStep \in Protocol!Requested => sent1 = 1
                  /\ closed => treated /\ sent1 = 1
                  /\ closed => StageAtStep \in {"closing", "finished", "over"}
             /\ \A c, d \in {1} :
                  d < c /\ StageAtStep \notin {"waiting", "over"} => StageAtStep = "finished"
    BY DEF Protocol!CellPromise, sent1, treated, closed
  <2>. QED BY <2>5, <2>6, <2>7
<1>. QED BY <1>1, CellInvariant, PTL

--------------------------------------------------------------------------------
(* What the cell takes the verifier to do is what BlindVerification does.         *)

Stage ==
  IF evidence # "none" THEN "signed"
  ELSE IF pc \in {"capture", "checks", "recapture"} THEN "asked"
  ELSE IF failure = "verifier" THEN "refused"
  ELSE "idle"
Workspace == IF agent # NoReceipt /\ tree # agent.after THEN "changed" ELSE "receipt"
Running == pc = "checks"
Ran == seen # {}
Pure == \A t \in seen : t = agent.after

blindMapped == <<Stage, Workspace, Running, Ran, Pure, evidence>>
BlindStays ==
  /\ Stage' = Stage /\ Workspace' = Workspace /\ evidence' = evidence
  /\ (Running' <=> Running) /\ (Ran' <=> Ran) /\ (Pure' <=> Pure)

\* A step of the abstract verification, spelled out over the mapped values.
LEMMA BlindSteps ==
  ASSUME \/ BlindStays
         \/ /\ Stage = "idle" /\ Stage' = "asked"
            /\ Workspace' = Workspace /\ evidence' = evidence
            /\ (Running' <=> Running) /\ (Ran' <=> Ran) /\ (Pure' <=> Pure)
         \/ /\ Workspace = "receipt" /\ Workspace' = "changed"
            /\ (Pure' <=> Pure) \/ (Running /\ ~Pure')
            /\ Stage' = Stage /\ evidence' = evidence
            /\ (Running' <=> Running) /\ (Ran' <=> Ran)
         \/ /\ Stage \in {"asked", "refused"} /\ Running' /\ (Ran => Ran')
            /\ Pure' <=> Pure /\ Workspace = "receipt"
            /\ Stage' = Stage /\ Workspace' = Workspace /\ evidence' = evidence
         \/ /\ ~Running' /\ Stage' = Stage /\ Workspace' = Workspace /\ evidence' = evidence
            /\ (Ran' <=> Ran) /\ (Pure' <=> Pure)
         \/ /\ Stage = "asked" /\ Workspace = "receipt" /\ ~Running /\ Stage' = "signed"
            /\ evidence' \in {"passed", "failed", "inconclusive"}
            /\ evidence' \in {"passed", "failed"} => Ran
            /\ Workspace' = Workspace
            /\ (Running' <=> Running) /\ (Ran' <=> Ran) /\ (Pure' <=> Pure)
         \/ /\ Stage \in {"idle", "asked"} /\ Stage' = "refused"
            /\ Workspace' = Workspace /\ evidence' = evidence /\ ~Running'
            /\ (Ran' <=> Ran) /\ (Pure' <=> Pure)
  PROVE  [Blind!BlindNext]_blindMapped
<1>1. /\ Running \in BOOLEAN /\ Running' \in BOOLEAN /\ Ran \in BOOLEAN /\ Ran' \in BOOLEAN
      /\ Pure \in BOOLEAN /\ Pure' \in BOOLEAN
  BY DEF Running, Ran, Pure
<1>2. /\ Blind!Ask <=> (/\ Stage = "idle" /\ Stage' = "asked"
                        /\ UNCHANGED <<Workspace, Running, Ran, Pure, evidence>>)
      /\ Blind!Disturb <=> (/\ Workspace = "receipt" /\ Workspace' = "changed"
                            /\ Pure' = Pure \/ (Running /\ Pure' = FALSE)
                            /\ UNCHANGED <<Stage, Running, Ran, evidence>>)
      /\ Blind!RunCheck <=> (/\ Stage \in {"asked", "refused"}
                             /\ Running' = TRUE /\ Ran' \in {Ran, TRUE}
                             /\ Pure' = (Pure /\ Workspace = "receipt")
                             /\ UNCHANGED <<Stage, Workspace, evidence>>)
      /\ Blind!CheckStops <=> (/\ Running' = FALSE
                               /\ UNCHANGED <<Stage, Workspace, Ran, Pure, evidence>>)
      /\ Blind!Sign <=> (/\ Stage = "asked" /\ Workspace = "receipt" /\ ~Running
                         /\ Stage' = "signed"
                         /\ evidence' \in {"inconclusive"}
                                \union (IF Ran THEN {"passed", "failed"} ELSE {})
                         /\ UNCHANGED <<Workspace, Running, Ran, Pure>>)
      /\ Blind!Refuse <=> (/\ Stage \in {"idle", "asked"} /\ Stage' = "refused"
                           /\ Running' \in {Running, FALSE}
                           /\ UNCHANGED <<Workspace, Ran, Pure, evidence>>)
  BY DEF Blind!Ask, Blind!Disturb, Blind!RunCheck, Blind!CheckStops, Blind!Sign,
         Blind!Refuse, Stage, Workspace, Running, Ran, Pure
<1> HIDE DEF Stage, Workspace, Running, Ran, Pure
<1>. QED BY <1>1, <1>2 DEF Blind!BlindNext, blindMapped, BlindStays

\* Neither the host, nor the Runtime, nor the provider, nor the result has a part in it.
LEMMA OthersLeaveVerification ==
  ASSUME IInv,
         \/ Cancel \/ Stop \/ ClockStepsBack \/ ClockAdvances \/ RuntimeCall
         \/ ProviderCall \/ ProviderAnswers \/ BuildResult
  PROVE  BlindStays
<1>. USE DEF IInv, ReceiptInv, VerifierInv, ResultInv, Reaches, Before, Waiting, Agent,
        Checking, Settlement, BlindStays, Stage, Workspace, Running, Ran, Pure, request,
        processes, records, host, At, Goto, Checkpointed
<1>1. CASE Cancel \/ Stop \/ ClockStepsBack \/ ClockAdvances
  BY <1>1 DEF Cancel, Stop, ClockStepsBack, ClockAdvances, Ended
<1>2. CASE PrepareBaseline \/ RecordObservations \/ CreateContinuation \/ FailPrepareArm
  BY <1>2 DEF PrepareBaseline, RecordObservations, CreateContinuation, FailPrepareArm, Prepared
<1>3. CASE RecordOutcome \/ ReadDecision \/ FailSettlement
  BY <1>3 DEF RecordOutcome, ReadDecision, FailSettlement, FailAt, Settling
<1>4. CASE \/ ReserveAttempt \/ SendRequest \/ ReceiveHead \/ ReceiveBody \/ EndRequest
           \/ ProviderAnswers
  BY <1>4 DEF ReserveAttempt, SendRequest, ReceiveHead, ReceiveBody, EndRequest,
              ProviderAnswers, BuildResponseReceipt, Requesting
<1>5. CASE CompleteAttempt
  BY <1>5 DEF CompleteAttempt, FailAt
<1>6. CASE BuildResult
  BY <1>6 DEF BuildResult
<1>. QED BY <1>1, <1>2, <1>3, <1>4, <1>5, <1>6 DEF RuntimeCall, ProviderCall

\* The executor does its work before there is a receipt; git may go on after it.
LEMMA AgentSimulates ==
  ASSUME IInv, AgentStep \/ GitStep
  PROVE  [Blind!BlindNext]_blindMapped
<1>. USE DEF IInv, ReceiptInv, VerifierInv, ResultInv, Reaches, Before, Waiting, Agent,
        Checking, Settlement, BlindStays, Stage, Workspace, Running, Ran, Pure, request,
        processes, records, host, At, Goto, Checkpointed
<1>1. CASE SpawnExecutor \/ FailSpawn
  BY <1>1, BlindSteps DEF SpawnExecutor, FailSpawn, FailAt, Acting
<1>2. CASE \/ DecodeAction \/ ExecutorExits \/ ExecutorKilled \/ GitCheckEnds
           \/ GitApplyEnds
  <2>1. ExecutorMoves /\ tree' = tree
    BY <1>2 DEF DecodeAction, ExecutorExits, ExecutorKilled, GitCheckEnds, GitApplyEnds
  <2>. QED BY <2>1, BlindSteps DEF ExecutorMoves, Acting
<1>3. CASE CollectExit
  BY <1>3, BlindSteps DEF CollectExit, Acting
<1>4. CASE FailCaptureAfterExit
  BY <1>4, BlindSteps DEF FailCaptureAfterExit, FailAt, Acting
<1>5. CASE GitWrites
  <2>1. /\ tree # "patched" /\ tree' = IF tree = "prepared" THEN "partial" ELSE "patched"
        /\ UNCHANGED <<pc, agent, seen, evidence, failure>>
    BY <1>5 DEF GitWrites, ExecutorMoves, Acting
  <2>2. Workspace = "changed" => Workspace' = "changed"
    BY <2>1 DEF CellTypeOK, Trees
  <2>3. Stage' = Stage /\ (Running' <=> Running) /\ (Ran' <=> Ran) /\ (Pure' <=> Pure)
    BY <2>1
  <2>4. Workspace \in {"receipt", "changed"} /\ Workspace' \in {"receipt", "changed"}
    OBVIOUS
  <2> HIDE DEF Stage, Workspace, Running, Ran, Pure, IInv
  <2>5. CASE Workspace' = Workspace
    BY <2>1, <2>3, <2>5, BlindSteps
  <2>6. CASE Workspace' # Workspace
    BY <2>1, <2>2, <2>3, <2>4, <2>6, BlindSteps
  <2>. QED BY <2>5, <2>6
<1>. QED BY <1>1, <1>2, <1>3, <1>4, <1>5 DEF AgentStep, GitStep

\* The verification itself.
LEMMA VerifierSimulates ==
  ASSUME IInv, VerifierStep \/ RunCheck
  PROVE  [Blind!BlindNext]_blindMapped
<1>. USE DEF IInv, ReceiptInv, VerifierInv, ResultInv, Reaches, Before, Waiting, Agent,
        Checking, Settlement, BlindStays, Stage, Workspace, Running, Ran, Pure, request,
        processes, records, host, At, Goto, Checkpointed
<1>1. CASE BeginVerifier
  BY <1>1, BlindSteps DEF BeginVerifier, Verifying
<1>2. CASE CaptureWorkspace
  BY <1>2, BlindSteps DEF CaptureWorkspace, Verifying
<1>3. CASE RunCheck
  BY <1>3, BlindSteps DEF RunCheck, Verifying
<1>4. CASE ChecksEnd
  BY <1>4, BlindSteps DEF ChecksEnd, Verifying
<1>5. CASE SignEvidence
  BY <1>5, BlindSteps DEF SignEvidence, Verifying
<1>6. CASE FailVerifier
  BY <1>6, BlindSteps DEF FailVerifier, FailAt, Verifying
<1>. QED BY <1>1, <1>2, <1>3, <1>4, <1>5, <1>6 DEF VerifierStep

\* The cell relies on nothing about the verifier but BlindVerification, which
\* VerifierProcess keeps: every step of the cell is a step of it or leaves it alone.
THEOREM CellImplementsBlind == Spec => ImplementsBlindVerification
<1>1. Init => Blind!BlindInit
  BY DEF Init, Blind!BlindInit
<1>2. IInv /\ [Next]_vars => [Blind!BlindNext]_blindMapped
  <2>. SUFFICES ASSUME IInv, [Next]_vars PROVE [Blind!BlindNext]_blindMapped
    OBVIOUS
  <2>1. CASE UNCHANGED vars
    BY <2>1, BlindSteps DEF vars, BlindStays, Stage, Workspace, Running, Ran, Pure
  <2>2. CASE AgentStep \/ GitStep \/ VerifierStep \/ RunCheck
    BY <2>2, AgentSimulates, VerifierSimulates
  <2>3. CASE \/ Cancel \/ Stop \/ ClockStepsBack \/ ClockAdvances \/ RuntimeCall
             \/ ProviderCall \/ ProviderAnswers \/ BuildResult
    BY <2>3, OthersLeaveVerification, BlindSteps
  <2>. QED BY <2>1, <2>2, <2>3 DEF Next, CellStep
<1>. QED BY <1>1, <1>2, CellInvariant, PTL
         DEF Spec, ImplementsBlindVerification, Blind!BlindSpec, Blind!blindVars,
             blindMapped, Stage, Workspace, Running, Ran, Pure

\* So the cell may take from the evidence that the checks ran on the tree its agent left,
\* by the abstract verification's steps alone.
THEOREM CellKeepsBlindPromise == Spec => []Blind!BlindPromise
<1>1. Blind!BlindInit => Blind!BlindPromise
  BY DEF Blind!BlindInit, Blind!BlindPromise
<1>2. Blind!BlindPromise /\ [Blind!BlindNext]_blindMapped => Blind!BlindPromise'
  <2>. SUFFICES ASSUME Blind!BlindPromise, [Blind!BlindNext]_blindMapped
                PROVE  Blind!BlindPromise'
    OBVIOUS
  <2>1. Running' \in BOOLEAN /\ Ran' \in BOOLEAN /\ Pure' \in BOOLEAN
    BY DEF Running, Ran, Pure
  <2>. DEFINE Promised ==
         /\ Workspace = "receipt" => Pure
         /\ Stage # "signed" => evidence = "none"
         /\ Stage = "signed" => /\ evidence \in {"passed", "failed", "inconclusive"}
                               /\ Pure /\ ~Running
         /\ evidence \in {"passed", "failed"} => Ran
  <2>. HIDE DEF Stage, Workspace, Running, Ran, Pure
  <2>2. CASE blindMapped' = blindMapped
    <3>1. Promised
      BY DEF Blind!BlindPromise, Stage, Workspace, Running, Ran, Pure
    <3>2. Promised'
      BY <3>1, <2>2 DEF blindMapped
    <3>. QED BY <2>1, <3>2 DEF Blind!BlindPromise, Stage, Workspace, Running, Ran, Pure
  <2>3. CASE Blind!BlindNext
    BY <2>1, <2>3
       DEF Blind!BlindPromise, Blind!BlindNext, Blind!Ask, Blind!Disturb, Blind!RunCheck,
           Blind!CheckStops, Blind!Sign, Blind!Refuse, Blind!Discard
  <2>. QED BY <2>2, <2>3
<1>. QED BY <1>1, <1>2, CellImplementsBlind, PTL
         DEF ImplementsBlindVerification, Blind!BlindSpec, Blind!blindVars, blindMapped,
             Stage, Workspace, Running, Ran, Pure
================================================================================
