---------------------------- MODULE CellExecution ----------------------------
(* One cell of the pilot from its preparation to its result: the loop body of    *)
(* executePilot (executable-pilot-runner.mjs) with the parties it waits for: the *)
(* Runtime (runtime-v1-host-adapter.mjs), the model provider                     *)
(* (deepseek-provider.mjs), the executor process and the git processes that      *)
(* process spawns (agent-execution.mjs, cli/apply-agent-action.mjs), the         *)
(* verifier, seen from outside (VerifierProcess has its inside), and the rules   *)
(* by which a cell result is admitted (pilot-result.mjs).                        *)
(* The burning of the attempt and the recording of the result are RunLedger's.   *)
EXTENDS Naturals

CONSTANT Arms   \* the arms the run is made for

ASSUME ArmsAssumption == Arms \subseteq {"baseline", "observe_only", "treatment"}

Replies == {"whole", "truncated", "malformed", "http_error", "invalid", "oversized"}
FailureClasses ==
  {"none", "provider_transport", "provider_response_limit", "provider_http_status",
   "provider_response_protocol", "provider_incomplete_completion"}
Statuses == {"applied", "no_safe_change", "patch_rejected", "response_rejected"}
Trees == {"prepared", "partial", "patched"}     \* the workspace under git apply
Moments == {"requested", "received", "started", "exited"}
NoReceipt == [status |-> "none"]

\* Steps that a cancellation checkpoint precedes.
Checkpointed ==
  {"prepare", "request", "send", "complete", "agent", "verifier", "settle", "build"}
Steps == Checkpointed \cup
  {"continue", "head", "body", "executor", "capture", "checks", "recapture",
   "read_decision", "done", "aborted"}

VARIABLES
  arm, pc,
  cancelled,   \* a signal reached the process
  runtime,     \* what the Runtime holds: "nothing", "observed", "decided", "settled"
  sent,        \* what the provider answered, whenever it did
  got,         \* what of it reached the client: "unsent", "nothing", "head", "body"
  providerClass, \* failure_class of the response receipt; "pending" before it
  node,        \* the executor process
  git,         \* the git process it spawned
  printed,     \* the result the executor wrote, "nothing" before
  tree,        \* the workspace
  agent,       \* the agent exit receipt
  seen,        \* the trees the verifier's checks ran on
  evidence,    \* the verdict of the signed evidence
  ledger,      \* the treatment ledger of the result: "open" or "closed"
  failure,     \* the stage of the infrastructure failure
  result,      \* "none", "scored", "unknown", or "refused" by its own rules
  clock,       \* the host's clock, in 0 .. 1
  time,        \* the timestamps of the receipts
  mishaps      \* history: "clock" stepped back, "executor" killed, "git" failed midway

request == <<sent, got, providerClass>>
processes == <<node, git, printed, tree>>
records == <<agent, seen, evidence, ledger, failure, result>>
host == <<clock, mishaps>>
vars == <<arm, pc, cancelled, runtime, sent, got, providerClass, node, git, printed,
          tree, agent, seen, evidence, ledger, failure, result, clock, time, mishaps>>

Init ==
  /\ arm \in Arms /\ pc = "prepare" /\ cancelled = FALSE
  /\ runtime = "nothing"
  /\ sent = "nothing" /\ got = "unsent" /\ providerClass = "pending"
  /\ node = "none" /\ git = "none" /\ printed = "nothing" /\ tree = "prepared"
  /\ agent = NoReceipt /\ seen = {} /\ evidence = "none"
  /\ ledger = "open" /\ failure = "none" /\ result = "none"
  /\ clock = 1 /\ time = [m \in Moments |-> 0] /\ mishaps = {}

Ended == pc \in {"done", "aborted"}
At(step) == pc = step /\ (step \in Checkpointed => ~cancelled)
Goto(step) == pc' = step
Stamp(moment) == time' = [time EXCEPT ![moment] = clock]

\* A caught error: the stage becomes the cell's infrastructure failure.
FailAt(stage) == failure' = stage /\ Goto("build")

--------------------------------------------------------------------------------
(* The host: a signal, and a clock that may be set back once and catch up.        *)

Cancel ==
  /\ ~Ended /\ ~cancelled /\ cancelled' = TRUE
  /\ UNCHANGED <<arm, pc, runtime, request, processes, records, time, host>>

Stop ==
  /\ cancelled /\ pc \in Checkpointed
  /\ Goto("aborted")
  /\ UNCHANGED <<arm, cancelled, runtime, request, processes, records, time, host>>

ClockStepsBack ==
  /\ ~Ended /\ "clock" \notin mishaps
  /\ clock' = 0 /\ mishaps' = mishaps \cup {"clock"}
  /\ UNCHANGED <<arm, pc, cancelled, runtime, request, processes, records, time>>

ClockAdvances ==
  /\ ~Ended /\ clock = 0 /\ clock' = 1
  /\ UNCHANGED <<arm, pc, cancelled, runtime, request, processes, records, time, mishaps>>

--------------------------------------------------------------------------------
(* prepareArm: a baseline cell does not speak to the Runtime.  A call that fails  *)
(* may have been carried out; the error is not caught and ends the run.           *)

Prepared == UNCHANGED <<arm, cancelled, request, processes, records, time, host>>

PrepareBaseline ==
  /\ At("prepare") /\ arm = "baseline"
  /\ Goto("request") /\ UNCHANGED runtime /\ Prepared

RecordObservations ==
  /\ At("prepare") /\ arm # "baseline"
  /\ runtime' = "observed"
  /\ Goto(IF arm = "treatment" THEN "continue" ELSE "request") /\ Prepared

CreateContinuation ==
  /\ pc = "continue"
  /\ runtime' = "decided" /\ Goto("request") /\ Prepared

FailPrepareArm ==
  /\ \/ At("prepare") /\ arm # "baseline" /\ runtime' \in {runtime, "observed"}
     \/ pc = "continue" /\ runtime' \in {runtime, "decided"}
  /\ Goto("aborted") /\ Prepared

--------------------------------------------------------------------------------
(* executeScoredRequest.                                                          *)

Requesting == UNCHANGED <<arm, cancelled, runtime, processes, records, host>>

ReserveAttempt ==
  /\ At("request") /\ Stamp("requested") /\ Goto("send")
  /\ UNCHANGED request /\ Requesting

SendRequest ==
  /\ At("send") /\ got' = "nothing" /\ Goto("head")
  /\ UNCHANGED <<sent, providerClass, time>> /\ Requesting

\* At any time after the request went out, also when nobody waits any more.
ProviderAnswers ==
  /\ got # "unsent" /\ sent = "nothing"
  /\ sent' \in Replies
  /\ UNCHANGED <<pc, got, providerClass, time>> /\ Requesting

BuildResponseReceipt(class) ==
  providerClass' = class /\ Stamp("received") /\ Goto("complete")

\* A response whose status is no HTTP status is a transport failure.
ReceiveHead ==
  /\ pc = "head" /\ sent # "nothing"
  /\ got' = "head"
  /\ IF sent = "invalid"
       THEN BuildResponseReceipt("provider_transport")
       ELSE Goto("body") /\ UNCHANGED <<providerClass, time>>
  /\ UNCHANGED sent /\ Requesting

\* The body limit comes first, then the status, the shape and the finish reason.
Classify ==
  CASE sent = "oversized"  -> "provider_response_limit"
    [] sent = "http_error" -> "provider_http_status"
    [] sent = "malformed"  -> "provider_response_protocol"
    [] sent = "truncated"  -> "provider_incomplete_completion"
    [] sent = "whole"      -> "none"

ReceiveBody ==
  /\ pc = "body"
  /\ got' = "body" /\ BuildResponseReceipt(Classify)
  /\ UNCHANGED sent /\ Requesting

\* Fault: an answer that crossed the abort of its request is still used.
EndRequestWithLateAnswer ==
  /\ pc \in {"head", "body"}
  /\ BuildResponseReceipt(IF sent \in {"nothing", "invalid"} THEN "provider_transport" ELSE Classify)
  /\ UNCHANGED <<sent, got>> /\ Requesting

\* Fault: a request that failed in transport is sent again.
EndRequestRetried ==
  /\ pc \in {"head", "body"} /\ Goto("send")
  /\ UNCHANGED <<sent, got, providerClass, time>> /\ Requesting

\* The connection is lost, or the timeout or the cancellation aborts the fetch.
EndRequest ==
  /\ pc \in {"head", "body"}
  /\ BuildResponseReceipt("provider_transport")
  /\ UNCHANGED <<sent, got>> /\ Requesting

\* The ledger verifies the receipts; their timestamps must not run backwards.
ResponseReceiptValid == time["requested"] <= time["received"]

CompleteAttempt ==
  /\ At("complete")
  /\ IF ~ResponseReceiptValid THEN Goto("aborted") /\ result' = "refused" /\ UNCHANGED failure
     ELSE /\ IF providerClass = "none" THEN Goto("agent") /\ UNCHANGED failure
             ELSE FailAt("provider")
          /\ UNCHANGED result
  /\ UNCHANGED <<arm, cancelled, runtime, request, processes, agent, seen, evidence,
                 ledger, time, host>>

--------------------------------------------------------------------------------
(* executeAgentActionV1.  The 30 s timer kills the executor; the git process it   *)
(* waits for in spawnSync, whose own 25 s timer dies with it, goes on.            *)

Acting == UNCHANGED <<arm, cancelled, runtime, request, seen, evidence, ledger, result>>

SpawnExecutor ==
  /\ At("agent") /\ Stamp("started")
  /\ node' = "decode" /\ Goto("executor")
  /\ UNCHANGED <<git, printed, tree, agent, failure, host>> /\ Acting

\* The authority no longer holds, the workspace cannot be captured, or the spawn fails.
FailSpawn ==
  /\ At("agent") /\ FailAt("agent_execution")
  /\ UNCHANGED <<processes, agent, time, host>> /\ Acting

ExecutorAlive == node \in {"decode", "checking", "applying", "printed"}
ExecutorMoves == UNCHANGED <<pc, agent, failure, time, clock>> /\ Acting

Report(status) == printed' = status /\ node' = "printed"

\* decodeAgentActionV1: no action, an action that changes nothing, or a patch.
DecodeAction ==
  /\ node = "decode"
  /\ \/ \E status \in {"response_rejected", "no_safe_change"} : Report(status) /\ UNCHANGED git
     \/ node' = "checking" /\ git' = "checking" /\ UNCHANGED printed
  /\ UNCHANGED <<tree, mishaps>> /\ ExecutorMoves

GitCheckEnds ==
  /\ git = "checking"
  /\ IF node # "checking" THEN git' = "none" /\ UNCHANGED <<node, printed>>
     ELSE \/ node' = "applying" /\ git' = "applying" /\ UNCHANGED printed
          \/ Report("patch_rejected") /\ git' = "none"
  /\ UNCHANGED <<tree, mishaps>> /\ ExecutorMoves

GitWrites ==
  /\ git = "applying" /\ tree # "patched"
  /\ tree' = IF tree = "prepared" THEN "partial" ELSE "patched"
  /\ UNCHANGED <<node, git, printed, mishaps>> /\ ExecutorMoves

\* Success means all is written; a failure, or git's own timer, may come at any point.
GitApplyEnds ==
  /\ git = "applying" /\ git' = "none"
  /\ IF node # "applying" THEN UNCHANGED <<node, printed, mishaps>>
     ELSE \/ tree = "patched" /\ Report("applied") /\ UNCHANGED mishaps
          \/ /\ Report("patch_rejected")
             /\ mishaps' = IF tree = "prepared" THEN mishaps ELSE mishaps \cup {"git"}
  /\ UNCHANGED tree /\ ExecutorMoves

ExecutorExits ==
  /\ node = "printed" /\ node' = "exited"
  /\ UNCHANGED <<git, printed, tree, mishaps>> /\ ExecutorMoves

\* Fault: the executor has no timer, only a bound on its output.
ExecutorKilledOnOutput ==
  /\ node = "printed" /\ node' = "killed"
  /\ mishaps' = mishaps \cup {"executor"}
  /\ UNCHANGED <<git, printed, tree>> /\ ExecutorMoves

\* The timer, too much output, or a crash.
ExecutorKilled ==
  /\ ExecutorAlive /\ node' = "killed"
  /\ mishaps' = mishaps \cup {"executor"}
  /\ UNCHANGED <<git, printed, tree>> /\ ExecutorMoves

ExitCode == IF node = "killed" THEN "null"
            ELSE IF printed \in {"applied", "no_safe_change"} THEN "zero" ELSE "nonzero"

CollectExit ==
  /\ pc = "executor" /\ node \in {"exited", "killed"}
  /\ agent' = [status |-> IF printed = "nothing" THEN "executor_crashed" ELSE printed,
               exit |-> ExitCode, after |-> tree]
  /\ Stamp("exited") /\ Goto("verifier")
  /\ UNCHANGED <<processes, failure, host>> /\ Acting

\* The capture after the exit throws, on any error or because it refuses a tree that
\* changes under it.
FailCaptureAfterExit ==
  /\ pc = "executor" /\ node \in {"exited", "killed"}
  /\ FailAt("agent_execution")
  /\ UNCHANGED <<processes, agent, time, host>> /\ Acting

AgentReceiptValid ==
  /\ time["started"] <= time["exited"]
  /\ agent.status \in {"applied", "no_safe_change"} => agent.exit = "zero"
  /\ agent.status \in {"patch_rejected", "response_rejected"} => agent.exit = "nonzero"
  /\ agent.status \in Statuses \ {"applied"} => agent.after = "prepared"

--------------------------------------------------------------------------------
(* The verifier: its input, the workspace before and after its checks.            *)

Verifying == UNCHANGED <<arm, cancelled, runtime, request, processes, agent, ledger,
                         result, time, host>>

\* The receipt is verified again, and the clock must be past the agent's exit.
BeginVerifier ==
  /\ At("verifier") /\ AgentReceiptValid /\ clock >= time["exited"]
  /\ Goto("capture") /\ UNCHANGED <<seen, evidence, failure>> /\ Verifying

CaptureWorkspace ==
  /\ pc = "capture" /\ tree = agent.after
  /\ Goto("checks") /\ UNCHANGED <<seen, evidence, failure>> /\ Verifying

RunCheck ==
  /\ pc = "checks" /\ seen' = seen \cup {tree}
  /\ UNCHANGED <<pc, evidence, failure>> /\ Verifying

ChecksEnd ==
  /\ pc = "checks" /\ seen # {}
  /\ Goto("recapture") /\ UNCHANGED <<seen, evidence, failure>> /\ Verifying

\* Fault: the workspace is captured only once.
SignEvidenceUnchecked ==
  /\ pc = "recapture"
  /\ evidence' \in {"passed", "failed", "inconclusive"}
  /\ Goto(IF arm = "treatment" THEN "settle" ELSE "build")
  /\ UNCHANGED <<seen, failure>> /\ Verifying

SignEvidence ==
  /\ pc = "recapture" /\ tree = agent.after
  /\ evidence' \in {"passed", "failed", "inconclusive"}
  /\ Goto(IF arm = "treatment" THEN "settle" ELSE "build")
  /\ UNCHANGED <<seen, failure>> /\ Verifying

\* A check of the above fails, or anything VerifierProcess lets go wrong.
FailVerifier ==
  /\ At("verifier") \/ pc \in {"capture", "checks", "recapture"}
  /\ FailAt("verifier")
  /\ UNCHANGED <<seen, evidence>> /\ Verifying

--------------------------------------------------------------------------------
(* settleTreatment: record the outcome, then read the decision back.              *)

Settling == UNCHANGED <<arm, cancelled, request, processes, agent, seen, evidence,
                        result, time, host>>

RecordOutcome ==
  /\ At("settle") /\ runtime' = "settled"
  /\ Goto("read_decision") /\ UNCHANGED <<ledger, failure>> /\ Settling

ReadDecision ==
  /\ pc = "read_decision" /\ ledger' = "closed"
  /\ Goto("build") /\ UNCHANGED <<runtime, failure>> /\ Settling

\* Fault: the failure to settle is blamed on the verifier.
FailSettlementAsVerifier ==
  /\ \/ At("settle") /\ runtime' \in {runtime, "settled"}
     \/ pc = "read_decision" /\ UNCHANGED runtime
  /\ FailAt("verifier") /\ UNCHANGED ledger /\ Settling

\* The call that failed may have been carried out.
FailSettlement ==
  /\ \/ At("settle") /\ runtime' \in {runtime, "settled"}
     \/ pc = "read_decision" /\ UNCHANGED runtime
  /\ FailAt("runtime_settlement") /\ UNCHANGED ledger /\ Settling

--------------------------------------------------------------------------------
(* buildPilotCellResultV1.                                                        *)

AgentBindingValid ==
  agent # NoReceipt => AgentReceiptValid /\ time["received"] <= time["started"]

EvidenceBindingValid ==
  IF providerClass # "none"
  THEN agent = NoReceipt /\ evidence = "none" /\ failure = "provider"
  ELSE IF evidence = "none" THEN failure \notin {"none", "provider"}
  ELSE /\ agent # NoReceipt
       /\ \/ failure = "none"
          \/ failure = "runtime_settlement" /\ arm = "treatment" /\ ledger = "open"

LedgerBindingValid == ledger = "closed" => arm = "treatment" /\ evidence # "none"

ResultAdmissible ==
  ResponseReceiptValid /\ AgentBindingValid /\ EvidenceBindingValid /\ LedgerBindingValid

\* deriveEvaluation: a failure hides the verdict.
Evaluation ==
  IF failure # "none" \/ evidence = "inconclusive" THEN "unknown" ELSE "scored"

BuildResult ==
  /\ At("build")
  /\ result' = IF ResultAdmissible THEN Evaluation ELSE "refused"
  /\ Goto(IF ResultAdmissible THEN "done" ELSE "aborted")
  /\ UNCHANGED <<arm, cancelled, runtime, request, processes, agent, seen, evidence,
                 ledger, failure, time, host>>

--------------------------------------------------------------------------------
RuntimeCall ==
  \/ PrepareBaseline \/ RecordObservations \/ CreateContinuation \/ FailPrepareArm
  \/ RecordOutcome \/ ReadDecision \/ FailSettlement

ProviderCall ==
  \/ ReserveAttempt \/ SendRequest \/ ReceiveHead \/ ReceiveBody \/ EndRequest
  \/ CompleteAttempt

AgentStep ==
  \/ SpawnExecutor \/ FailSpawn \/ DecodeAction \/ ExecutorExits \/ ExecutorKilled
  \/ CollectExit \/ FailCaptureAfterExit

GitStep == GitCheckEnds \/ GitWrites \/ GitApplyEnds

VerifierStep ==
  BeginVerifier \/ CaptureWorkspace \/ ChecksEnd \/ SignEvidence \/ FailVerifier

CellStep ==
  Stop \/ RuntimeCall \/ ProviderCall \/ AgentStep \/ VerifierStep \/ BuildResult

Next ==
  \/ CellStep \/ GitStep \/ RunCheck \/ ProviderAnswers
  \/ Cancel \/ ClockStepsBack \/ ClockAdvances

\* Every wait of the runner is bounded: the request by its timeout, the executor
\* by its timer, the verifier by its own (VerifierAnswers), the Runtime's client by
\* its timeouts.  The provider, git and the clock owe nothing.
Spec == Init /\ [][Next]_vars /\ WF_vars(CellStep)

--------------------------------------------------------------------------------
CellTypeOK ==
  /\ arm \in Arms /\ pc \in Steps /\ cancelled \in BOOLEAN
  /\ runtime \in {"nothing", "observed", "decided", "settled"}
  /\ sent \in Replies \cup {"nothing"} /\ got \in {"unsent", "nothing", "head", "body"}
  /\ providerClass \in FailureClasses \cup {"pending"}
  /\ node \in {"none", "decode", "checking", "applying", "printed", "exited", "killed"}
  /\ git \in {"none", "checking", "applying"}
  /\ printed \in Statuses \cup {"nothing"} /\ tree \in Trees
  /\ agent \in {NoReceipt} \cup [status : Statuses \cup {"executor_crashed"},
                                 exit : {"zero", "nonzero", "null"}, after : Trees]
  /\ seen \subseteq Trees
  /\ evidence \in {"none", "passed", "failed", "inconclusive"}
  /\ ledger \in {"open", "closed"}
  /\ failure \in {"none", "provider", "agent_execution", "verifier", "runtime_settlement"}
  /\ result \in {"none", "scored", "unknown", "refused"}
  /\ clock \in 0 .. 1 /\ time \in [Moments -> 0 .. 1]
  /\ mishaps \subseteq {"clock", "executor", "git"}

\* The response receipt says what reached the client, not what the provider sent:
\* a completed receipt stands for a whole answer that was read to its end, and an
\* answer that arrives after the request was given up changes nothing any more.
ReceiptTellsWhatArrived ==
  /\ providerClass = "none" => got = "body" /\ sent = "whole"
  /\ got = "body" /\ sent # "whole" => providerClass # "none"
  /\ evidence # "none" => got = "body" /\ sent = "whole"

\* A scored cell rests on one tree: what the agent's receipt names is what every
\* check ran on, although a process of the agent may still have been writing; and a
\* scored treatment is settled, at the Runtime as in the result.
ScoredCellIsSound ==
  result = "scored" =>
    /\ evidence \in {"passed", "failed"}
    /\ seen = {agent.after}
    /\ agent.status = "applied" => agent.after = "patched"
    /\ arm = "treatment" => runtime = "settled" /\ ledger = "closed"

\* The result's own rules end the run only after the clock was set back, the
\* executor was killed or git failed with the patch half written: whatever else goes
\* wrong in a cell is recorded as its infrastructure failure.
RefusalNeedsMishap == result = "refused" => mishaps # {}

\* How far the cell has come.
StageAtStep ==
  CASE pc = "prepare" -> "waiting"
    [] pc \in {"continue", "request"} -> "preparing"
    [] pc = "send"  -> "burned"
    [] pc \in {"head", "body"} -> "sent"
    [] pc = "complete" -> IF providerClass = "none" THEN "answered" ELSE "unusable"
    [] pc = "agent" -> "completed"
    [] pc \in {"executor", "verifier"} -> "acting"
    [] pc \in {"capture", "checks", "recapture", "settle", "read_decision"} -> "verifying"
    [] pc = "build" -> "closing"
    [] pc = "done"  -> "finished"
    [] pc = "aborted" -> "over"

Protocol == INSTANCE CellProtocol WITH
  Cells <- {1},
  stage <- [c \in {1} |-> StageAtStep],
  requests <- [c \in {1} |-> IF got = "unsent" THEN 0 ELSE 1],
  settles <- [c \in {1} |-> arm = "treatment"],
  settled <- [c \in {1} |-> ledger = "closed"],
  cancelled <- cancelled

\* Seen from the run, the cell does what CellProtocol says and what PilotRun relies
\* on, although four other parties take part in it and answers come too late.
ImplementsCellProtocol == Protocol!CellSpec

\* The cell's verification, seen from outside.
Blind == INSTANCE BlindVerification WITH
  stage <- IF evidence # "none" THEN "signed"
           ELSE IF pc \in {"capture", "checks", "recapture"} THEN "asked"
           ELSE IF failure = "verifier" THEN "refused"
           ELSE "idle",
  workspace <- IF agent # NoReceipt /\ tree # agent.after THEN "changed" ELSE "receipt",
  running <- pc = "checks",
  ran <- seen # {},
  pure <- \A t \in seen : t = agent.after,
  verdict <- evidence

\* What the cell takes the verifier to do is no more than what BlindVerification, and so
\* VerifierProcess, does: git, which may still write, is the one who disturbs it.
ImplementsBlindVerification == Blind!BlindSpec

\* Every cell comes to a result or to the end of the run.
CellEnds == <>Ended
=============================================================================
