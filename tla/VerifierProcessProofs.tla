-------------------------- MODULE VerifierProcessProofs --------------------------
(* Proofs about VerifierProcess, for any number of checks: what a signed verdict *)
(* says of the containers, and which containers may still run.                   *)
EXTENDS VerifierProcess, TLAPS

\* A container of which nothing more will come: its client is gone, and no start
\* that the engine has yet to carry out would find it.
Quiet(i) ==
  /\ client[i] \in {"exited", "killed"} /\ container[i] # "running"
  /\ request[i] = "start" => container[i] = "absent"

AtWork == {"begin", "capture", "spawn", "running", "sweep", "final"}

\* Which of the two processes is at work, and whose sweep it is.
ProcessInv ==
  /\ parent \in {"attest", "prepare"} => child = "none"
  /\ child \in AtWork => parent = "waiting"
  /\ parent = "evidence" => child = "done"
  /\ parent = "sweep" => child \in {"done", "failed", "killed"} /\ sweep # "none"
  /\ sweep # "none" => child = "sweep" \/ parent = "sweep"
  /\ child = "sweep" =>
       sweep # "none" /\ target = check /\ client[check] \in {"exited", "killed"}

\* A client asks for a start only after the creation, and its exit is the end of both.
ClientInv ==
  \A i \in Checks :
    /\ client[i] \in {"none", "new"} => request[i] = "none" /\ container[i] = "absent"
    /\ client[i] = "creating" => request[i] # "start" /\ container[i] # "running"
    /\ client[i] = "exited" =>
         request[i] = "none" /\ container[i] = "absent" /\ exit[i] # "none"

\* Checks come one after another; one that is past is quiet, one to come untouched.
OrderInv ==
  /\ \A i \in Checks : i < check => Quiet(i) /\ status[i] # "none"
  /\ \A i \in Checks : i > check => client[i] = "none"
  /\ child \in {"none", "begin", "capture", "spawn"} => client[check] = "none"
  /\ child \in {"none", "begin", "capture"} => check = 1
  /\ child \in {"running", "sweep"} => client[check] # "none"
  /\ child \in {"final", "done"} =>
       check = CheckCount /\ Quiet(check) /\ status[check] # "none"
  /\ child = "failed" => client[check] \in {"none", "exited", "killed"}

\* What the sweeps proved, and what the last inspection of one is worth.
SweptInv ==
  /\ \A i \in swept :
       \/ Quiet(i)
       \/ child \in {"failed", "killed"} /\ client[i] = "none"
       \/ child = "killed" /\ client[i] \in {"new", "creating", "starting"}
  /\ sweep = "fence" /\ engine = "attested" /\ client[target] \in {"exited", "killed"} =>
       Quiet(target)

\* A conclusion is the exit of a container that ran, on a workspace not changed yet.
StatusInv ==
  \A i \in Checks :
    /\ status[i] = "passed" => client[i] = "exited" /\ exit[i] = "zero"
    /\ status[i] = "failed" => client[i] = "exited" /\ exit[i] = "nonzero"
    /\ container[i] = "running" \/ exit[i] \in {"zero", "nonzero"} => ranOn[i] # "nothing"
    /\ workspace = "receipt" => ranOn[i] # "changed"

\* What the signed verdict is drawn from.
SignedInv ==
  /\ verdict # "none" => child = "done"
  /\ verdict \in {"passed", "failed"} =>
       \A i \in Checks : status[i] \in {"passed", "failed"} /\ ranOn[i] = "receipt"
  /\ verdict = "passed" => \A i \in Checks : status[i] = "passed"
  /\ verdict = "failed" => \E i \in Checks : status[i] = "failed"

\* The inductive invariant.  That nothing runs unseen depends on what each client may
\* still ask for, and on the engine being the attested one at both ends of a sweep.
IInv ==
  /\ VerifierTypeOK /\ ProcessInv /\ ClientInv /\ OrderInv /\ SweptInv
  /\ StatusInv /\ SignedInv

--------------------------------------------------------------------------------
\* Nothing runs yet.
LEMMA InitHolds == Init => IInv
  BY VerifierAssumption
  DEF Init, IInv, VerifierTypeOK, ProcessInv, ClientInv, OrderInv, SweptInv, StatusInv,
         SignedInv, Quiet, AtWork, Checks, ParentPhases, ChildPhases, SweepSteps,
         ClientStates, ExitClasses, Verdicts, processes, sweeping, containers,
         conclusions, world

\* A change of the workspace, or of the engine, undoes no conclusion.
LEMMA WorldKeeps ==
  ASSUME IInv,
         WorkspaceChanges \/ EngineReplaced
  PROVE  IInv'
<1>. USE VerifierAssumption
     DEF IInv, VerifierTypeOK, ProcessInv, ClientInv, OrderInv, SweptInv, StatusInv,
         SignedInv, Quiet, AtWork, Checks, ParentPhases, ChildPhases, SweepSteps,
         ClientStates, ExitClasses, Verdicts, processes, sweeping, containers,
         conclusions, world
<1>1. CASE WorkspaceChanges
  BY <1>1 DEF WorkspaceChanges
<1>2. CASE EngineReplaced
  BY <1>2 DEF EngineReplaced
<1>. QED BY <1>1, <1>2

\* A client goes one way, from its creation to its exit.
LEMMA ClientKeeps ==
  ASSUME IInv, NEW i \in Checks,
         ClientCreates(i) \/ ClientStarts(i) \/ ClientExits(i)
  PROVE  IInv'
<1>. USE VerifierAssumption
     DEF IInv, VerifierTypeOK, ProcessInv, ClientInv, OrderInv, SweptInv, StatusInv,
         SignedInv, Quiet, AtWork, Checks, ParentPhases, ChildPhases, SweepSteps,
         ClientStates, ExitClasses, Verdicts, processes, sweeping, containers,
         conclusions, world
<1>1. CASE ClientCreates(i)
  BY <1>1 DEF ClientCreates
<1>2. CASE ClientStarts(i)
  BY <1>2 DEF ClientStarts
<1>3. CASE ClientExits(i)
  BY <1>3 DEF ClientExits
<1>. QED BY <1>1, <1>2, <1>3

\* The engine carries out what a client asked for, whoever still waits for it.
LEMMA EngineKeeps ==
  ASSUME IInv, NEW i \in Checks,
         EngineCreates(i) \/ EngineStarts(i) \/ ContainerExits(i)
  PROVE  IInv'
<1>. USE VerifierAssumption
     DEF IInv, VerifierTypeOK, ProcessInv, ClientInv, OrderInv, SweptInv, StatusInv,
         SignedInv, Quiet, AtWork, Checks, ParentPhases, ChildPhases, SweepSteps,
         ClientStates, ExitClasses, Verdicts, processes, sweeping, containers,
         conclusions, world
<1>1. CASE EngineCreates(i)
  BY <1>1 DEF EngineCreates
<1>2. CASE EngineStarts(i)
  <2>1. child = "done" => Quiet(i)
    OBVIOUS
  <2>2. CASE container[i] = "created"
    <3>1. /\ request' = [request EXCEPT ![i] = "none"]
          /\ container' = [container EXCEPT ![i] = "running"]
          /\ ranOn' = [ranOn EXCEPT ![i] = workspace]
          /\ request[i] = "start"
          /\ UNCHANGED <<processes, sweeping, client, exit, conclusions, world>>
      BY <1>2, <2>2 DEF EngineStarts
    <3>2. VerifierTypeOK'
      BY <3>1
    <3>3. ProcessInv' /\ ClientInv' /\ OrderInv'
      BY <3>1, <2>2
    <3>4. SweptInv' /\ StatusInv' /\ SignedInv'
      BY <3>1, <2>1, <2>2
    <3>. QED BY <3>2, <3>3, <3>4
  <2>3. CASE container[i] # "created"
    BY <1>2, <2>3 DEF EngineStarts
  <2>. QED BY <2>2, <2>3
<1>3. CASE ContainerExits(i)
  BY <1>3 DEF ContainerExits
<1>. QED BY <1>1, <1>2, <1>3

\* The child spawns one client at a time.
LEMMA ChildKeeps ==
  ASSUME IInv,
         \/ ChildBegins \/ CaptureWorkspace \/ SpawnClient \/ ChildThrows
         \/ CheckClosesIndeterminate \/ CheckTimesOut
  PROVE  IInv'
<1>. USE VerifierAssumption
     DEF IInv, VerifierTypeOK, ProcessInv, ClientInv, OrderInv, SweptInv, StatusInv,
         SignedInv, Quiet, AtWork, Checks, ParentPhases, ChildPhases, SweepSteps,
         ClientStates, ExitClasses, Verdicts, processes, sweeping, containers,
         conclusions, world
<1>1. CASE ChildBegins
  BY <1>1 DEF ChildBegins, ChildGoto
<1>2. CASE CaptureWorkspace
  BY <1>2 DEF CaptureWorkspace, ChildGoto
<1>3. CASE SpawnClient
  BY <1>3 DEF SpawnClient, ChildGoto
<1>4. CASE ChildThrows
  BY <1>4 DEF ChildThrows, ChildGoto
<1>5. CASE CheckClosesIndeterminate
  BY <1>5 DEF CheckClosesIndeterminate, BeginSweep, ChildGoto
<1>6. CASE CheckTimesOut
  BY <1>6 DEF CheckTimesOut, Kill, BeginSweep, ChildGoto
<1>. QED BY <1>1, <1>2, <1>3, <1>4, <1>5, <1>6

\* A check is concluded when its client has ended.
LEMMA ConcludeKeeps ==
  ASSUME IInv,
         CheckCloses
  PROVE  IInv'
<1>. USE VerifierAssumption
     DEF IInv, VerifierTypeOK, ProcessInv, ClientInv, OrderInv, SweptInv, StatusInv,
         SignedInv, Quiet, AtWork, Checks, ParentPhases, ChildPhases, SweepSteps,
         ClientStates, ExitClasses, Verdicts, processes, sweeping, containers,
         conclusions, world
<1>1. CASE CheckCloses
  BY <1>1 DEF CheckCloses, Conclude, NextCheck
<1>. QED BY <1>1

\* The evidence is signed over the conclusions of every check.
LEMMA SignKeeps ==
  ASSUME IInv,
         SignEvidence
  PROVE  IInv'
<1>. USE VerifierAssumption
     DEF IInv, VerifierTypeOK, ProcessInv, ClientInv, OrderInv, SweptInv, StatusInv,
         SignedInv, Quiet, AtWork, Checks, ParentPhases, ChildPhases, SweepSteps,
         ClientStates, ExitClasses, Verdicts, processes, sweeping, containers,
         conclusions, world
<1>1. CASE SignEvidence
  BY <1>1 DEF SignEvidence, ChildGoto, Verdict
<1>. QED BY <1>1

\* A sweep looks, removes and looks again, between two attestations.
LEMMA SweepKeeps ==
  ASSUME IInv,
         VerifyBeforeSweep \/ Inspect \/ RemoveContainer \/ Reinspect \/ SweepThrows
  PROVE  IInv'
<1>. USE VerifierAssumption
     DEF IInv, VerifierTypeOK, ProcessInv, ClientInv, OrderInv, SweptInv, StatusInv,
         SignedInv, Quiet, AtWork, Checks, ParentPhases, ChildPhases, SweepSteps,
         ClientStates, ExitClasses, Verdicts, processes, sweeping, containers,
         conclusions, world
<1>1. CASE VerifyBeforeSweep
  BY <1>1 DEF VerifyBeforeSweep, SweepGoto
<1>2. CASE Inspect
  BY <1>2 DEF Inspect, SweepGoto, ReportedAbsent, EngineAttested
<1>3. CASE RemoveContainer
  BY <1>3 DEF RemoveContainer, SweepGoto
<1>4. CASE Reinspect
  BY <1>4 DEF Reinspect, SweepGoto, ReportedAbsent, EngineAttested
<1>5. CASE SweepThrows
  BY <1>5 DEF SweepThrows
<1>. QED BY <1>1, <1>2, <1>3, <1>4, <1>5

\* The second attestation turns what was seen into an absence.
LEMMA FenceKeeps ==
  ASSUME IInv,
         Fence
  PROVE  IInv'
<1>. USE VerifierAssumption
     DEF IInv, VerifierTypeOK, ProcessInv, ClientInv, OrderInv, SweptInv, StatusInv,
         SignedInv, Quiet, AtWork, Checks, ParentPhases, ChildPhases, SweepSteps,
         ClientStates, ExitClasses, Verdicts, processes, sweeping, containers,
         conclusions, world
<1>1. CASE Fence
  BY <1>1 DEF Fence, EngineAttested, SweptByChild, SweptByParent, Conclude, NextCheck
<1>. QED BY <1>1

\* The parent waits, accepts evidence or sweeps behind its child.
LEMMA ParentKeeps ==
  ASSUME IInv,
         \/ AttestKey \/ FailAttestKey \/ SpawnChild \/ FailPrepare \/ AcceptEvidence
         \/ RefuseEvidence \/ SweepAfterChild \/ AnswerTooLate \/ ChildTimesOut
  PROVE  IInv'
<1>. USE VerifierAssumption
     DEF IInv, VerifierTypeOK, ProcessInv, ClientInv, OrderInv, SweptInv, StatusInv,
         SignedInv, Quiet, AtWork, Checks, ParentPhases, ChildPhases, SweepSteps,
         ClientStates, ExitClasses, Verdicts, processes, sweeping, containers,
         conclusions, world
<1>1. CASE AttestKey
  BY <1>1 DEF AttestKey, ParentGoto
<1>2. CASE FailAttestKey
  BY <1>2 DEF FailAttestKey, ParentGoto
<1>3. CASE SpawnChild
  BY <1>3 DEF SpawnChild
<1>4. CASE FailPrepare
  BY <1>4 DEF FailPrepare, ParentGoto
<1>5. CASE AcceptEvidence
  BY <1>5 DEF AcceptEvidence, ParentGoto
<1>6. CASE SweepAfterChild
  BY <1>6 DEF SweepAfterChild, BeginSweep, ParentGoto
<1>7. CASE ChildTimesOut
  BY <1>7 DEF ChildTimesOut
<1>8. CASE RefuseEvidence
  BY <1>8 DEF RefuseEvidence, ParentGoto
<1>9. CASE AnswerTooLate
  BY <1>9 DEF AnswerTooLate, BeginSweep, ParentGoto
<1>. QED BY <1>1, <1>2, <1>3, <1>4, <1>5, <1>6, <1>7, <1>8, <1>9

--------------------------------------------------------------------------------
\* The inductive invariant holds in every reachable state.
THEOREM VerifierInvariant == Spec => []IInv
<1>1. Init => IInv
  BY InitHolds
<1>2. IInv /\ [Next]_vars => IInv'
  <2>. SUFFICES ASSUME IInv, [Next]_vars PROVE IInv'
    OBVIOUS
  <2>1. CASE UNCHANGED vars
    BY <2>1 DEF vars, IInv, VerifierTypeOK, ProcessInv, ClientInv, OrderInv, SweptInv,
         StatusInv, SignedInv, Quiet
  <2>2. CASE Next
    BY <2>2, WorldKeeps, ClientKeeps, EngineKeeps, ChildKeeps, ConcludeKeeps, SignKeeps,
       SweepKeeps, FenceKeeps, ParentKeeps
    DEF Next, ChildStep, SweepStep, ParentStep, ClientStep, EngineStep
  <2>. QED BY <2>1, <2>2
<1>. QED BY <1>1, <1>2, PTL DEF Spec

\* A verdict that scores a product is what the containers said: each of them ended by
\* itself, on the workspace of the agent's receipt.
THEOREM VerdictsAreTheContainers == Spec => []VerdictIsTheContainers
<1>1. IInv => VerdictIsTheContainers
  BY DEF IInv, SignedInv, StatusInv, VerdictIsTheContainers
<1>. QED BY <1>1, VerifierInvariant, PTL

\* Timers, output limits, the death of the child and of its clients leave at most one
\* container running, none that a sweep proved absent unless the orphaned client
\* created it afterwards, and none at all behind signed evidence.
THEOREM NothingEverRunsUnseen == Spec => []NothingRunsUnseen
<1>1. IInv => NothingRunsUnseen
  <2>. SUFFICES ASSUME IInv PROVE NothingRunsUnseen
    OBVIOUS
  <2>1. \A i \in Checks : container[i] = "running" => i = check
    BY DEF IInv, VerifierTypeOK, ClientInv, OrderInv, Quiet, Checks
  <2>2. \A i \in swept : container[i] = "running" => child = "killed" /\ client[i] = "starting"
    BY DEF IInv, VerifierTypeOK, ClientInv, SweptInv, Quiet
  <2>3. parent = "evidence" => \A i \in Checks : container[i] # "running"
    BY <2>1 DEF IInv, ProcessInv, OrderInv, Quiet
  <2>. QED BY <2>1, <2>2, <2>3 DEF IInv, NothingRunsUnseen
<1>. QED BY <1>1, VerifierInvariant, PTL

--------------------------------------------------------------------------------
(* The refinement of BlindVerification.                                           *)

Stage ==
  IF parent = "refused" THEN "refused"
  ELSE IF verdict # "none" THEN "signed"
  ELSE IF parent \in {"attest", "prepare"} THEN "idle"
  ELSE "asked"
Signed == IF parent = "refused" THEN "none" ELSE verdict
Running == \E i \in Checks : container[i] = "running"
Ran == \A i \in Checks : ranOn[i] # "nothing"
Pure == \A i \in Checks : ranOn[i] # "changed"

blindMapped == <<Stage, workspace, Running, Ran, Pure, Signed>>
BlindStays ==
  /\ Stage' = Stage /\ workspace' = workspace /\ Signed' = Signed
  /\ (Running' <=> Running) /\ (Ran' <=> Ran) /\ (Pure' <=> Pure)

\* A step of the abstract verification, spelled out over the mapped values.
LEMMA BlindSteps ==
  ASSUME \/ BlindStays
         \/ /\ Stage = "idle" /\ Stage' = "asked"
            /\ workspace' = workspace /\ Signed' = Signed
            /\ (Running' <=> Running) /\ (Ran' <=> Ran) /\ (Pure' <=> Pure)
         \/ /\ workspace = "receipt" /\ workspace' = "changed"
            /\ (Pure' <=> Pure) \/ (Running /\ ~Pure')
            /\ Stage' = Stage /\ Signed' = Signed
            /\ (Running' <=> Running) /\ (Ran' <=> Ran)
         \/ /\ Stage \in {"asked", "refused"} /\ Running' /\ (Ran => Ran')
            /\ Pure' <=> Pure /\ workspace = "receipt"
            /\ Stage' = Stage /\ workspace' = workspace /\ Signed' = Signed
         \/ /\ ~Running' /\ Stage' = Stage /\ workspace' = workspace /\ Signed' = Signed
            /\ (Ran' <=> Ran) /\ (Pure' <=> Pure)
         \/ /\ Stage = "asked" /\ workspace = "receipt" /\ ~Running /\ Stage' = "signed"
            /\ Signed' \in {"passed", "failed", "inconclusive"}
            /\ Signed' \in {"passed", "failed"} => Ran
            /\ workspace' = workspace
            /\ (Running' <=> Running) /\ (Ran' <=> Ran) /\ (Pure' <=> Pure)
         \/ /\ Stage \in {"idle", "asked"} /\ Stage' = "refused"
            /\ workspace' = workspace /\ Signed' = Signed
            /\ (Running' <=> Running) /\ (Ran' <=> Ran) /\ (Pure' <=> Pure)
         \/ /\ Stage = "signed" /\ Stage' = "refused" /\ Signed' = "none"
            /\ workspace' = workspace
            /\ (Running' <=> Running) /\ (Ran' <=> Ran) /\ (Pure' <=> Pure)
  PROVE  [Blind!BlindNext]_blindMapped
<1>1. /\ Running \in BOOLEAN /\ Running' \in BOOLEAN /\ Ran \in BOOLEAN /\ Ran' \in BOOLEAN
      /\ Pure \in BOOLEAN /\ Pure' \in BOOLEAN
  BY DEF Running, Ran, Pure
<1>2. /\ Blind!Ask <=> (/\ Stage = "idle" /\ Stage' = "asked"
                        /\ UNCHANGED <<workspace, Running, Ran, Pure, Signed>>)
      /\ Blind!Disturb <=> (/\ workspace = "receipt" /\ workspace' = "changed"
                            /\ Pure' = Pure \/ (Running /\ Pure' = FALSE)
                            /\ UNCHANGED <<Stage, Running, Ran, Signed>>)
      /\ Blind!RunCheck <=> (/\ Stage \in {"asked", "refused"}
                             /\ Running' = TRUE /\ Ran' \in {Ran, TRUE}
                             /\ Pure' = (Pure /\ workspace = "receipt")
                             /\ UNCHANGED <<Stage, workspace, Signed>>)
      /\ Blind!CheckStops <=> (/\ Running' = FALSE
                               /\ UNCHANGED <<Stage, workspace, Ran, Pure, Signed>>)
      /\ Blind!Sign <=> (/\ Stage = "asked" /\ workspace = "receipt" /\ ~Running
                         /\ Stage' = "signed"
                         /\ Signed' \in {"inconclusive"}
                                \union (IF Ran THEN {"passed", "failed"} ELSE {})
                         /\ UNCHANGED <<workspace, Running, Ran, Pure>>)
      /\ Blind!Refuse <=> (/\ Stage \in {"idle", "asked"} /\ Stage' = "refused"
                           /\ Running' \in {Running, FALSE}
                           /\ UNCHANGED <<workspace, Ran, Pure, Signed>>)
      /\ Blind!Discard <=> (/\ Stage = "signed" /\ Stage' = "refused" /\ Signed' = "none"
                            /\ UNCHANGED <<workspace, Running, Ran, Pure>>)
  BY DEF Blind!Ask, Blind!Disturb, Blind!RunCheck, Blind!CheckStops, Blind!Sign,
         Blind!Refuse, Blind!Discard, Stage, Signed, Running, Ran, Pure
<1> HIDE DEF Stage, Signed, Running, Ran, Pure
<1>. QED BY <1>1, <1>2 DEF Blind!BlindNext, blindMapped, BlindStays

\* Somebody writes to the workspace, or another engine answers.
LEMMA WorldSimulates ==
  ASSUME IInv, WorkspaceChanges \/ EngineReplaced
  PROVE  [Blind!BlindNext]_blindMapped
<1>. USE VerifierAssumption
     DEF IInv, VerifierTypeOK, ProcessInv, ClientInv, OrderInv, StatusInv, SignedInv,
         Quiet, AtWork, Checks, ParentPhases, ChildPhases, ClientStates, ExitClasses,
         Verdicts, BlindStays, Stage, Signed, Running, Ran, Pure, processes,
         sweeping, containers, conclusions, world
<1>1. CASE WorkspaceChanges
  BY <1>1, BlindSteps DEF WorkspaceChanges
<1>2. CASE EngineReplaced
  BY <1>2, BlindSteps DEF EngineReplaced
<1>. QED BY <1>1, <1>2

\* The engine begins and ends the checks, also for a client that outlived the child.
LEMMA EngineSimulates ==
  ASSUME IInv, NEW i \in Checks, ClientStep(i) \/ EngineStep(i)
  PROVE  [Blind!BlindNext]_blindMapped
<1>. USE VerifierAssumption
     DEF IInv, VerifierTypeOK, ProcessInv, ClientInv, OrderInv, StatusInv, SignedInv,
         Quiet, AtWork, Checks, ParentPhases, ChildPhases, ClientStates, ExitClasses,
         Verdicts, BlindStays, Stage, Signed, Running, Ran, Pure, processes,
         sweeping, containers, conclusions, world
<1>1. CASE ClientStep(i)
  BY <1>1, BlindSteps DEF ClientStep, ClientCreates, ClientStarts, ClientExits
<1>2. CASE EngineCreates(i)
  BY <1>2, BlindSteps DEF EngineCreates
<1>3. CASE EngineStarts(i)
  BY <1>3, BlindSteps DEF EngineStarts
<1>4. CASE ContainerExits(i)
  BY <1>4, BlindSteps DEF ContainerExits
<1>. QED BY <1>1, <1>2, <1>3, <1>4 DEF EngineStep

\* The child works towards its signature, out of the cell's sight.
LEMMA ChildSimulates ==
  ASSUME IInv, ChildStep
  PROVE  [Blind!BlindNext]_blindMapped
<1>. USE VerifierAssumption
     DEF IInv, VerifierTypeOK, ProcessInv, ClientInv, OrderInv, StatusInv, SignedInv,
         Quiet, AtWork, Checks, ParentPhases, ChildPhases, ClientStates, ExitClasses,
         Verdicts, BlindStays, Stage, Signed, Running, Ran, Pure, processes,
         sweeping, containers, conclusions, world
<1>1. CASE ChildBegins \/ CaptureWorkspace \/ SpawnClient \/ ChildThrows
  BY <1>1, BlindSteps DEF ChildBegins, CaptureWorkspace, SpawnClient, ChildThrows, ChildGoto
<1>2. CASE CheckCloses
  BY <1>2, BlindSteps DEF CheckCloses, Conclude, NextCheck
<1>3. CASE CheckClosesIndeterminate \/ CheckTimesOut
  BY <1>3, BlindSteps
     DEF CheckClosesIndeterminate, CheckTimesOut, Kill, BeginSweep, ChildGoto
<1>4. CASE SignEvidence
  BY <1>4, BlindSteps DEF SignEvidence, ChildGoto, Verdict
<1>. QED BY <1>1, <1>2, <1>3, <1>4 DEF ChildStep

\* A sweep stops a check, and the parent's last one ends in a refusal.
LEMMA SweepSimulates ==
  ASSUME IInv, SweepStep
  PROVE  [Blind!BlindNext]_blindMapped
<1>. USE VerifierAssumption
     DEF IInv, VerifierTypeOK, ProcessInv, ClientInv, OrderInv, StatusInv, SignedInv,
         Quiet, AtWork, Checks, ParentPhases, ChildPhases, ClientStates, ExitClasses,
         Verdicts, BlindStays, Stage, Signed, Running, Ran, Pure, processes,
         sweeping, containers, conclusions, world
<1>1. CASE VerifyBeforeSweep \/ Inspect \/ Reinspect
  BY <1>1, BlindSteps DEF VerifyBeforeSweep, Inspect, Reinspect, SweepGoto
<1>2. CASE RemoveContainer
  BY <1>2, BlindSteps DEF RemoveContainer, SweepGoto
<1>3. CASE Fence
  BY <1>3, BlindSteps DEF Fence, SweptByChild, SweptByParent, Conclude, NextCheck
<1>4. CASE SweepThrows
  BY <1>4, BlindSteps DEF SweepThrows
<1>. QED BY <1>1, <1>2, <1>3, <1>4 DEF SweepStep

\* The parent asks, and accepts or refuses.
LEMMA ParentSimulates ==
  ASSUME IInv, ParentStep
  PROVE  [Blind!BlindNext]_blindMapped
<1>. USE VerifierAssumption
     DEF IInv, VerifierTypeOK, ProcessInv, ClientInv, OrderInv, StatusInv, SignedInv,
         Quiet, AtWork, Checks, ParentPhases, ChildPhases, ClientStates, ExitClasses,
         Verdicts, BlindStays, Stage, Signed, Running, Ran, Pure, processes,
         sweeping, containers, conclusions, world
<1>1. CASE AttestKey \/ FailAttestKey \/ FailPrepare \/ AcceptEvidence
  BY <1>1, BlindSteps DEF AttestKey, FailAttestKey, FailPrepare, AcceptEvidence, ParentGoto
<1>2. CASE SpawnChild
  BY <1>2, BlindSteps DEF SpawnChild
<1>3. CASE SweepAfterChild
  BY <1>3, BlindSteps DEF SweepAfterChild, BeginSweep, ParentGoto
<1>4. CASE ChildTimesOut
  BY <1>4, BlindSteps DEF ChildTimesOut
<1>5. CASE RefuseEvidence
  BY <1>5, BlindSteps DEF RefuseEvidence, ParentGoto
<1>6. CASE AnswerTooLate
  BY <1>6, BlindSteps DEF AnswerTooLate, BeginSweep, ParentGoto
<1>. QED BY <1>1, <1>2, <1>3, <1>4, <1>5, <1>6 DEF ParentStep

\* The four processes, whatever outlives what, are one BlindVerification to the cell: every
\* step of theirs is a step of it or leaves it alone.
THEOREM VerifierImplementsBlind == Spec => ImplementsBlindVerification
<1>1. Init => Blind!BlindInit
  BY VerifierAssumption DEF Init, Blind!BlindInit, Checks
<1>2. IInv /\ [Next]_vars => [Blind!BlindNext]_blindMapped
  <2>. SUFFICES ASSUME IInv, [Next]_vars PROVE [Blind!BlindNext]_blindMapped
    OBVIOUS
  <2>1. CASE UNCHANGED vars
    BY <2>1 DEF vars, blindMapped, Stage, Signed, Running, Ran, Pure
  <2>2. CASE Next
    BY <2>2, WorldSimulates, EngineSimulates, ChildSimulates, SweepSimulates, ParentSimulates
       DEF Next
  <2>. QED BY <2>1, <2>2
<1>. QED BY <1>1, <1>2, VerifierInvariant, PTL
         DEF Spec, ImplementsBlindVerification, Blind!BlindSpec, Blind!blindVars,
             blindMapped, Stage, Signed, Running, Ran, Pure

\* What BlindVerification promises follows from its steps alone, and so holds of the four
\* processes: a scoring verdict rests on every check, on the receipt's workspace only, and
\* nothing runs behind it.
THEOREM VerifierKeepsBlindPromise == Spec => []Blind!BlindPromise
<1>1. Blind!BlindInit => Blind!BlindPromise
  BY DEF Blind!BlindInit, Blind!BlindPromise
<1>2. Blind!BlindPromise /\ [Blind!BlindNext]_blindMapped => Blind!BlindPromise'
  <2>. SUFFICES ASSUME Blind!BlindPromise, [Blind!BlindNext]_blindMapped
                PROVE  Blind!BlindPromise'
    OBVIOUS
  <2>1. Running' \in BOOLEAN /\ Ran' \in BOOLEAN /\ Pure' \in BOOLEAN
    BY DEF Running, Ran, Pure
  <2>. DEFINE Promised ==
         /\ workspace = "receipt" => Pure
         /\ Stage # "signed" => Signed = "none"
         /\ Stage = "signed" => /\ Signed \in {"passed", "failed", "inconclusive"}
                               /\ Pure /\ ~Running
         /\ Signed \in {"passed", "failed"} => Ran
  <2>. HIDE DEF Stage, Signed, Running, Ran, Pure
  <2>2. CASE blindMapped' = blindMapped
    <3>1. Promised
      BY DEF Blind!BlindPromise, Stage, Signed, Running, Ran, Pure
    <3>2. Promised'
      BY <3>1, <2>2 DEF blindMapped
    <3>. QED BY <2>1, <3>2 DEF Blind!BlindPromise, Stage, Signed, Running, Ran, Pure
  <2>3. CASE Blind!BlindNext
    BY <2>1, <2>3
       DEF Blind!BlindPromise, Blind!BlindNext, Blind!Ask, Blind!Disturb, Blind!RunCheck,
           Blind!CheckStops, Blind!Sign, Blind!Refuse, Blind!Discard
  <2>. QED BY <2>2, <2>3
<1>. QED BY <1>1, <1>2, VerifierImplementsBlind, PTL
         DEF ImplementsBlindVerification, Blind!BlindSpec, Blind!blindVars, blindMapped,
             Stage, Signed, Running, Ran, Pure
================================================================================
