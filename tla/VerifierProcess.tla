---------------------------- MODULE VerifierProcess ----------------------------
(* One cell's private verifier: oci-verifier-process.mjs.  The runner's process  *)
(* (the parent) spawns a child that holds the signing key; the child runs each   *)
(* check as a container, through a command-line client of the container engine.  *)
(* Parent, child, client and engine are four processes: a request sent by a      *)
(* client that has been killed is still the engine's to carry out, and a client  *)
(* outlives the child that spawned it.                                           *)
EXTENDS Naturals

CONSTANT CheckCount   \* checks of the verifier's configuration

ASSUME VerifierAssumption == CheckCount \in Nat \ {0}

Checks == 1 .. CheckCount

ParentPhases == {"attest", "prepare", "waiting", "sweep", "evidence", "refused"}
ChildPhases == {"none", "begin", "capture", "spawn", "running", "sweep", "final",
                "done", "failed", "killed"}
SweepSteps == {"none", "verify", "inspect", "remove", "reinspect", "fence"}
ClientStates == {"none", "new", "creating", "starting", "exited", "killed"}
ExitClasses == {"none", "zero", "nonzero", "reserved"}   \* reserved: 125, 126, 127
Verdicts == {"none", "passed", "failed", "inconclusive"}

VARIABLES
  parent,      \* the runner's side: runOciPrivateVerifierProcessV1
  child,       \* the signer child: executeOciVerifierChild
  check,       \* the check the child is at
  sweep,       \* recoverOciContainerAbsentV1, by the child or by the parent
  target,      \* the check whose container the sweep removes
  swept,       \* checks whose container a sweep proved absent
  client,      \* per check, the engine's client process
  request,     \* per check, what the engine has been asked and has not done yet
  container,   \* per check, its container
  exit,        \* per check, how the container or the client ended
  status,      \* per check, what the child concluded
  verdict,     \* the verdict the child signed
  ranOn,       \* per check, the workspace its container saw
  workspace,   \* the cell's workspace: as in the agent's receipt, or changed since
  engine,      \* the engine behind the socket: the attested one, or another
  complete     \* the metric mapping of passed checks is that of a success

processes == <<parent, child, check>>
sweeping == <<sweep, target, swept>>
containers == <<client, request, container, exit, ranOn>>
conclusions == <<status, verdict>>
world == <<workspace, engine, complete>>
vars == <<parent, child, check, sweep, target, swept, client, request, container,
          exit, status, verdict, ranOn, workspace, engine, complete>>

Init ==
  /\ parent = "attest" /\ child = "none" /\ check = 1
  /\ sweep = "none" /\ target = 1 /\ swept = {}
  /\ client = [i \in Checks |-> "none"] /\ request = [i \in Checks |-> "none"]
  /\ container = [i \in Checks |-> "absent"] /\ exit = [i \in Checks |-> "none"]
  /\ status = [i \in Checks |-> "none"] /\ verdict = "none"
  /\ ranOn = [i \in Checks |-> "nothing"]
  /\ workspace = "receipt" /\ engine = "attested" /\ complete \in BOOLEAN

\* verifyOciRuntimeAuthorityLiveV1: executable, trust policy, version and info.
EngineAttested == engine = "attested"

--------------------------------------------------------------------------------
(* The world: a process that outlived the agent's executor may still write to the *)
(* workspace; the engine may be replaced, and the new one knows no container.      *)

WorkspaceChanges ==
  /\ workspace = "receipt" /\ workspace' = "changed"
  /\ ranOn' = [i \in Checks |-> IF container[i] = "running" THEN "changed" ELSE ranOn[i]]
  /\ UNCHANGED <<processes, sweeping, client, request, container, exit, conclusions,
                 engine, complete>>

EngineReplaced ==
  /\ engine' = "other" /\ engine # "other"
  /\ UNCHANGED <<processes, sweeping, containers, conclusions, workspace, complete>>

--------------------------------------------------------------------------------
(* The engine and its client: `run` is a create and then a start.                 *)

ClientCreates(i) ==
  /\ client[i] = "new"
  /\ client' = [client EXCEPT ![i] = "creating"]
  /\ request' = [request EXCEPT ![i] = "create"]
  /\ UNCHANGED <<processes, sweeping, container, exit, ranOn, conclusions, world>>

EngineCreates(i) ==
  /\ request[i] = "create"
  /\ request' = [request EXCEPT ![i] = "none"]
  /\ container' = [container EXCEPT ![i] = "created"]
  /\ UNCHANGED <<processes, sweeping, client, exit, ranOn, conclusions, world>>

ClientStarts(i) ==
  /\ client[i] = "creating" /\ request[i] = "none" /\ container[i] = "created"
  /\ client' = [client EXCEPT ![i] = "starting"]
  /\ request' = [request EXCEPT ![i] = "start"]
  /\ UNCHANGED <<processes, sweeping, container, exit, ranOn, conclusions, world>>

\* A container that was removed in between cannot be started.
EngineStarts(i) ==
  /\ request[i] = "start"
  /\ request' = [request EXCEPT ![i] = "none"]
  /\ IF container[i] = "created"
       THEN /\ container' = [container EXCEPT ![i] = "running"]
            /\ ranOn' = [ranOn EXCEPT ![i] = workspace]
       ELSE UNCHANGED <<container, ranOn>>
  /\ UNCHANGED <<processes, sweeping, client, exit, conclusions, world>>

\* The check's command ends; --rm removes its container.
ContainerExits(i) ==
  /\ container[i] = "running"
  /\ container' = [container EXCEPT ![i] = "absent"]
  /\ \E code \in {"zero", "nonzero", "reserved"} : exit' = [exit EXCEPT ![i] = code]
  /\ UNCHANGED <<processes, sweeping, client, request, ranOn, conclusions, world>>

\* The client reports the command's exit, or that its container is gone or refused.
ClientExits(i) ==
  /\ client[i] \in {"new", "creating", "starting"} /\ request[i] = "none"
  /\ container[i] = "absent"
  /\ client' = [client EXCEPT ![i] = "exited"]
  /\ exit' = [exit EXCEPT ![i] = IF @ = "none" THEN "reserved" ELSE @]
  /\ UNCHANGED <<processes, sweeping, request, container, ranOn, conclusions, world>>

Kill(i) == client' = [client EXCEPT ![i] = IF @ = "exited" THEN @ ELSE "killed"]

--------------------------------------------------------------------------------
(* The child.                                                                     *)

ChildGoto(next) == child' = next /\ UNCHANGED <<parent, check>>

\* Envelope, private key and engine are checked, then the agent's exit is past.
ChildBegins ==
  /\ child = "begin" /\ EngineAttested
  /\ ChildGoto("capture") /\ UNCHANGED <<sweeping, containers, conclusions, world>>

\* The workspace is the one of the agent's exit receipt.
CaptureWorkspace ==
  /\ child = "capture" /\ workspace = "receipt"
  /\ ChildGoto("spawn") /\ UNCHANGED <<sweeping, containers, conclusions, world>>

SpawnClient ==
  /\ child = "spawn" /\ EngineAttested
  /\ client' = [client EXCEPT ![check] = "new"]
  /\ ChildGoto("running")
  /\ UNCHANGED <<sweeping, request, container, exit, ranOn, conclusions, world>>

BeginSweep(i) == sweep' = "verify" /\ target' = i /\ UNCHANGED swept

NextCheck ==
  /\ UNCHANGED parent
  /\ IF check = CheckCount THEN child' = "final" /\ UNCHANGED check
     ELSE child' = "spawn" /\ check' = check + 1

Conclude(s) ==
  /\ status' = [status EXCEPT ![check] = s] /\ UNCHANGED verdict
  /\ NextCheck

\* Fault: an exit code of the client's own is taken for the check's.
CheckClosesReserved ==
  /\ child = "running" /\ client[check] = "exited"
  /\ Conclude(IF exit[check] = "zero" THEN "passed" ELSE "failed")
  /\ UNCHANGED <<sweeping, containers, world>>

CheckCloses ==
  /\ child = "running" /\ client[check] = "exited" /\ exit[check] # "reserved"
  /\ Conclude(IF exit[check] = "zero" THEN "passed" ELSE "failed")
  /\ UNCHANGED <<sweeping, containers, world>>

CheckClosesIndeterminate ==
  /\ child = "running" /\ client[check] = "exited" /\ exit[check] = "reserved"
  /\ BeginSweep(check) /\ ChildGoto("sweep")
  /\ UNCHANGED <<containers, conclusions, world>>

\* Fault: a client that was killed is taken to have taken its container along.
CheckTimesOutUnswept ==
  /\ child = "running" /\ Kill(check)
  /\ Conclude("indeterminate")
  /\ UNCHANGED <<sweeping, request, container, exit, ranOn, world>>

\* The check's timer, or its output limit, at any time until the client's close.
CheckTimesOut ==
  /\ child = "running" /\ Kill(check)
  /\ BeginSweep(check) /\ ChildGoto("sweep")
  /\ UNCHANGED <<request, container, exit, ranOn, conclusions, world>>

\* verdict_mapping, over every check's status.
Verdict ==
  IF \E i \in Checks : status[i] = "indeterminate" THEN "inconclusive"
  ELSE IF \E i \in Checks : status[i] = "failed" THEN "failed"
  ELSE IF complete THEN "passed" ELSE "inconclusive"

\* Fault: the workspace is not captured again after the checks.
SignEvidenceUncaptured ==
  /\ child = "final" /\ verdict' = Verdict /\ UNCHANGED status
  /\ ChildGoto("done") /\ UNCHANGED <<sweeping, containers, world>>

\* The workspace is still the receipt's: the evidence is signed and written.
SignEvidence ==
  /\ child = "final" /\ workspace = "receipt"
  /\ verdict' = Verdict /\ UNCHANGED status
  /\ ChildGoto("done") /\ UNCHANGED <<sweeping, containers, world>>

\* Any of the child's verifications throws.
ChildThrows ==
  /\ child \in {"begin", "capture", "spawn", "final"}
  /\ ChildGoto("failed") /\ UNCHANGED <<sweeping, containers, conclusions, world>>

--------------------------------------------------------------------------------
(* recoverOciContainerAbsentV1: by the child after an indeterminate check, by the *)
(* parent for every check of a child that did not end well.                       *)

SweepGoto(next) ==
  /\ sweep' = next /\ UNCHANGED <<target, swept, processes, conclusions, world>>

VerifyBeforeSweep ==
  /\ sweep = "verify" /\ EngineAttested
  /\ SweepGoto("inspect") /\ UNCHANGED containers

\* What the engine behind the socket answers.
ReportedAbsent == container[target] = "absent" \/ ~EngineAttested

Inspect ==
  /\ sweep = "inspect"
  /\ SweepGoto(IF ReportedAbsent THEN "fence" ELSE "remove") /\ UNCHANGED containers

\* Kill and forced removal; either command may fail.
RemoveContainer ==
  /\ sweep = "remove"
  /\ \/ EngineAttested /\ container' = [container EXCEPT ![target] = "absent"]
     \/ UNCHANGED container
  /\ SweepGoto("reinspect") /\ UNCHANGED <<client, request, exit, ranOn>>

Reinspect ==
  /\ sweep = "reinspect" /\ ReportedAbsent
  /\ SweepGoto("fence") /\ UNCHANGED containers

SweptByChild ==
  /\ child = "sweep" /\ sweep' = "none" /\ UNCHANGED target
  /\ Conclude("indeterminate")

SweptByParent ==
  /\ parent = "sweep" /\ UNCHANGED <<child, check, conclusions>>
  /\ IF target = CheckCount
       THEN parent' = "refused" /\ sweep' = "none" /\ UNCHANGED target
       ELSE UNCHANGED parent /\ sweep' = "verify" /\ target' = target + 1

\* The engine is verified once more: an absence counts only between two of these.
Fence ==
  /\ sweep = "fence" /\ EngineAttested
  /\ swept' = swept \union {target}
  /\ (SweptByChild \/ SweptByParent) /\ UNCHANGED <<containers, world>>

\* Another engine, an inspection that cannot be read, a container that stays.
SweepThrows ==
  /\ sweep \in {"verify", "inspect", "reinspect", "fence"} /\ sweep' = "none"
  /\ IF parent = "sweep" THEN parent' = "refused" /\ UNCHANGED child
     ELSE child' = "failed" /\ UNCHANGED parent
  /\ UNCHANGED <<check, target, swept, containers, conclusions, world>>

--------------------------------------------------------------------------------
(* The parent.                                                                    *)

ParentGoto(next) == parent' = next /\ UNCHANGED <<child, check>>

\* attestOciVerifierPrivateKeyFdV1, in a child of its own, before the pilot's work.
AttestKey ==
  /\ parent = "attest"
  /\ ParentGoto("prepare") /\ UNCHANGED <<sweeping, containers, conclusions, world>>

FailAttestKey ==
  /\ parent = "attest"
  /\ ParentGoto("refused") /\ UNCHANGED <<sweeping, containers, conclusions, world>>

SpawnChild ==
  /\ parent = "prepare" /\ EngineAttested
  /\ parent' = "waiting" /\ child' = "begin" /\ UNCHANGED check
  /\ UNCHANGED <<sweeping, containers, conclusions, world>>

FailPrepare ==
  /\ parent = "prepare"
  /\ ParentGoto("refused") /\ UNCHANGED <<sweeping, containers, conclusions, world>>

\* The parent's own timer or output limit: it kills the child, not the child's client.
\* A sweep the child was in ends with it.
ChildTimesOut ==
  /\ parent = "waiting" /\ child \notin {"done", "failed", "killed"}
  /\ child' = "killed" /\ sweep' = "none"
  /\ UNCHANGED <<parent, check, target, swept, containers, conclusions, world>>

\* The child's output is the evidence for this input, signed with the case's key.
AcceptEvidence ==
  /\ parent = "waiting" /\ child = "done"
  /\ ParentGoto("evidence") /\ UNCHANGED <<sweeping, containers, conclusions, world>>

\* Or it is not; nothing of the child is left that would have to be removed.
RefuseEvidence ==
  /\ parent = "waiting" /\ child = "done"
  /\ ParentGoto("refused") /\ UNCHANGED <<sweeping, containers, conclusions, world>>

\* Fault: only an exit code is looked at, and a killed child has none.
SweepAfterChildFailed ==
  /\ parent = "waiting" /\ child = "failed"
  /\ BeginSweep(1) /\ ParentGoto("sweep")
  /\ UNCHANGED <<containers, conclusions, world>>

SweepAfterChild ==
  /\ parent = "waiting" /\ child \in {"failed", "killed"}
  /\ BeginSweep(1) /\ ParentGoto("sweep")
  /\ UNCHANGED <<containers, conclusions, world>>

\* The timer or the output limit comes between the child's last write and the close
\* of its pipes: what it signed is thrown away.
AnswerTooLate ==
  /\ parent = "waiting" /\ child = "done"
  /\ BeginSweep(1) /\ ParentGoto("sweep")
  /\ UNCHANGED <<containers, conclusions, world>>

--------------------------------------------------------------------------------
ChildStep ==
  \/ ChildBegins \/ CaptureWorkspace \/ SpawnClient \/ CheckCloses
  \/ CheckClosesIndeterminate \/ CheckTimesOut \/ SignEvidence \/ ChildThrows

SweepStep ==
  \/ VerifyBeforeSweep \/ Inspect \/ RemoveContainer \/ Reinspect \/ Fence
  \/ SweepThrows

ParentStep ==
  \/ AttestKey \/ FailAttestKey \/ SpawnChild \/ FailPrepare \/ AcceptEvidence
  \/ RefuseEvidence \/ SweepAfterChild \/ AnswerTooLate \/ ChildTimesOut

ClientStep(i) == ClientCreates(i) \/ ClientStarts(i) \/ ClientExits(i)

EngineStep(i) == EngineCreates(i) \/ EngineStarts(i) \/ ContainerExits(i)

Next ==
  \/ ChildStep \/ SweepStep \/ ParentStep \/ WorkspaceChanges \/ EngineReplaced
  \/ \E i \in Checks : ClientStep(i) \/ EngineStep(i)

\* The two Node processes run, their timers included; neither a container, nor the
\* engine, nor its client ever has to answer.
Spec == Init /\ [][Next]_vars /\ WF_vars(ChildStep) /\ WF_vars(SweepStep) /\ WF_vars(ParentStep)

--------------------------------------------------------------------------------
(* Properties *)

\* Every variable keeps its kind of value.
VerifierTypeOK ==
  /\ parent \in ParentPhases /\ child \in ChildPhases /\ check \in Checks
  /\ sweep \in SweepSteps /\ target \in Checks /\ swept \subseteq Checks
  /\ client \in [Checks -> ClientStates]
  /\ request \in [Checks -> {"none", "create", "start"}]
  /\ container \in [Checks -> {"absent", "created", "running"}]
  /\ exit \in [Checks -> ExitClasses]
  /\ status \in [Checks -> {"none", "passed", "failed", "indeterminate"}]
  /\ verdict \in Verdicts /\ ranOn \in [Checks -> {"nothing", "receipt", "changed"}]
  /\ workspace \in {"receipt", "changed"} /\ engine \in {"attested", "other"}
  /\ complete \in BOOLEAN

\* A verdict that scores a product says what the containers said: each of them ran to
\* its end, on the workspace of the agent's receipt, and none was cut short.
VerdictIsTheContainers ==
  verdict \in {"passed", "failed"} =>
    /\ \A i \in Checks : exit[i] \in {"zero", "nonzero"} /\ ranOn[i] = "receipt"
    /\ verdict = "passed" <=> \A i \in Checks : exit[i] = "zero"

\* No container runs that the verifier does not account for.  Checks run one after
\* another: whatever timers and limits cut short, no two containers are at work at
\* once.  An absence the sweeps proved lasts, unless the client that was left to
\* itself by its child's death only then created the container.  Evidence is returned
\* only when nothing of the verifier runs any more.
NothingRunsUnseen ==
  /\ VerifierTypeOK
  /\ \A i, j \in Checks : container[i] = "running" /\ container[j] = "running" => i = j
  /\ \A i \in swept : container[i] = "running" => child = "killed" /\ client[i] = "starting"
  /\ parent = "evidence" => \A i \in Checks : container[i] # "running"

\* What the cell sees of it.
Blind == INSTANCE BlindVerification WITH
  stage <- IF parent = "refused" THEN "refused"
           ELSE IF verdict # "none" THEN "signed"
           ELSE IF parent \in {"attest", "prepare"} THEN "idle"
           ELSE "asked",
  verdict <- IF parent = "refused" THEN "none" ELSE verdict,
  running <- \E i \in Checks : container[i] = "running",
  ran <- \A i \in Checks : ranOn[i] # "nothing",
  pure <- \A i \in Checks : ranOn[i] # "changed"

\* Four processes that outlive one another are, to the cell, one verification that never
\* signs while a check runs, nor over a workspace that is not the receipt's.
ImplementsBlindVerification == Blind!BlindSpec

\* The runner gets its answer, whatever hangs: a container, the client, the engine.
VerifierAnswers == parent = "prepare" ~> parent \in {"evidence", "refused"}

\* OCI contract: "sigkill_cli_then_kill_and_force_remove_named_container": after a
\* timeout has been swept, the containers stay gone.
TimeoutRemovesContainers ==
  parent = "refused" /\ swept = Checks => \A i \in Checks : container[i] # "running"
================================================================================
