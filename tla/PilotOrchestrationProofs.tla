------------------------ MODULE PilotOrchestrationProofs ------------------------
(* Proofs about PilotOrchestration, for any set of owner ids: results mean a     *)
(* clean disk, no owner is dropped, and the orchestration implements             *)
(* ResourceLease.                                                                *)
EXTENDS PilotOrchestration, TLAPS

Live(k) == status[k] \in {"ready", "claimed"}

EarlyPhases == {"down", "reconcile_runtime", "reconcile_workspace", "attest"}
HeldPhases == {"compose", "handover", "authorize", "authorized", "running"}
ClosingPhases == {"close_runtime", "close_workspace"}
ClosedPhases == {"closed_in_preflight", "closed_in_run", "closed_in_provision",
                 "closed_in_catch"}

\* Before the first owner: nothing is held, and what is left is being cleared.
EarlyInv ==
  /\ pc \in EarlyPhases \union {"materialize"} =>
       status = NoHandles /\ refs = {} /\ failures = {} /\ memo = FALSE
  /\ pc = "reconcile_workspace" => barrier[Runtime] = Nobody
  /\ pc \in {"attest", "materialize"} => barrier = Clear

\* The try block: which owners exist, and who refers to them.
TryInv ==
  /\ pc = "prepare_runtime" =>
       /\ status[Workspace] = "ready" /\ status[Runtime] = "none"
       /\ barrier[Runtime] = Nobody /\ refs = {Workspace}
  /\ pc = "provision" => refs = Kinds /\ \A k \in Kinds : status[k] = "ready"
  /\ pc \in HeldPhases => \A k \in Kinds : status[k] = "claimed"
  /\ pc \in {"compose", "handover"} => refs = Kinds
  /\ pc \in {"authorize", "authorized", "running"} => refs = {Authority}
  /\ pc \in HeldPhases \union {"prepare_runtime", "provision"} => memo = FALSE

\* The memoized close: what it has tried, and what it remembers.
CloseInv ==
  /\ pc \in ClosingPhases => after \in ClosedPhases /\ memo = FALSE
  /\ pc = "close_runtime" => \A k \in Kinds : Live(k)
  /\ pc = "close_workspace" =>
       /\ Live(Workspace) /\ ~Live(Runtime) /\ failures \subseteq {Runtime}
       /\ Runtime \in failures \/ status[Runtime] = "disposed"
  /\ pc \in ClosedPhases => memo = TRUE
  /\ memo = TRUE => \A k \in Kinds :
       ~Live(k) /\ (k \in failures \/ status[k] = "disposed")
  /\ memo = FALSE /\ pc # "close_workspace" => failures = {}

\* The catch block: whatever is live is still referred to.
CatchInv ==
  /\ pc = "catch_authority" =>
       IF Authority \in refs THEN memo = TRUE \/ \A k \in Kinds : Live(k)
       ELSE \A k \in Kinds : Live(k) => k \in refs
  /\ pc = "catch_runtime" => \A k \in Kinds : Live(k) => k \in refs
  /\ pc = "catch_workspace" => ~Live(Runtime) /\ (Live(Workspace) => Workspace \in refs)
  /\ pc \notin {"close_workspace", "catch_workspace", "exited"} =>
       \A k \in Kinds : status[k] = "cleanup_failed" => memo = TRUE

\* Whose files are on disk.
BarrierInv ==
  /\ \A k \in Kinds : Live(k) => barrier[k] = owner
  /\ \A k \in Kinds : status[k] = "disposed" => barrier[k] = Nobody
  /\ \A k \in Kinds : k \in refs => status[k] # "none"
  /\ pc \notin EarlyPhases \union {"exited"} =>
       owner \in Owners /\ \A k \in Kinds : barrier[k] \in {Nobody, owner}

ResultInv == pc # "exited" => result = "none"

\* The inductive invariant.  A result is only as good as what the memoized cleanup
\* remembers, and no owner is dropped only because the references follow the handles.
IInv ==
  /\ OrchestrationTypeOK /\ ResultMeansClean /\ NoOwnerDropped
  /\ EarlyInv /\ TryInv /\ CloseInv /\ CatchInv /\ BarrierInv /\ ResultInv

--------------------------------------------------------------------------------
\* Nothing exists yet.
LEMMA InitHolds == Init => IInv
  BY OrchestrationAssumption
  DEF Init, IInv, OrchestrationTypeOK, ResultMeansClean, NoOwnerDropped, EarlyInv, TryInv,
         CloseInv, CatchInv, BarrierInv, ResultInv, Live, CrossBound, EarlyPhases,
         HeldPhases, ClosingPhases, ClosedPhases, Kinds, Runtime, Workspace, Authority,
         Nobody, Modes, Results, Phases, Clear, NoHandles, handles, closing

\* What precedes the first owner touches no handle.
LEMMA RecoveryKeeps ==
  ASSUME IInv,
         \/ Start \/ ReconcileRuntime \/ ReconcileWorkspace \/ FailReconcile \/ Attest
         \/ FailAttest
  PROVE  IInv'
<1>. USE OrchestrationAssumption
     DEF IInv, OrchestrationTypeOK, ResultMeansClean, NoOwnerDropped, EarlyInv, TryInv,
         CloseInv, CatchInv, BarrierInv, ResultInv, Live, CrossBound, EarlyPhases,
         HeldPhases, ClosingPhases, ClosedPhases, Kinds, Runtime, Workspace, Authority,
         Nobody, Modes, Results, Phases, Clear, NoHandles, handles, closing
<1>1. CASE Start
  BY <1>1 DEF Start
<1>2. CASE ReconcileRuntime
  BY <1>2 DEF ReconcileRuntime, Goto
<1>3. CASE ReconcileWorkspace
  <2>1. /\ pc = "reconcile_workspace" /\ barrier' = [barrier EXCEPT ![Workspace] = Nobody]
        /\ UNCHANGED <<handles, closing, cancelled, mode>>
        /\ \/ pc' = "exited" /\ result' = "reconciled"
           \/ pc' = "attest" /\ result' = result
    BY <1>3 DEF ReconcileWorkspace, Goto, Finish
  <2>2. barrier[Runtime] = Nobody
    BY <2>1
  <2>3. \A k \in Kinds : barrier'[k] = Nobody
    BY <2>1, <2>2
  <2>4. barrier' = [k \in Kinds |-> Nobody]
    BY <2>1, <2>3
  <2>5. status = [k \in Kinds |-> "none"] \/ pc # "reconcile_workspace"
    OBVIOUS
  <2>6. \A k \in Kinds : status[k] = "none"
    BY <2>1, <2>5
  <2>7. OrchestrationTypeOK'
    BY <2>1, <2>3, <2>4
  <2>8. ResultMeansClean' /\ NoOwnerDropped' /\ EarlyInv' /\ TryInv'
    BY <2>1, <2>4, <2>6
  <2>9. CloseInv' /\ CatchInv' /\ BarrierInv' /\ ResultInv'
    BY <2>1, <2>3, <2>6
  <2>. QED BY <2>7, <2>8, <2>9
<1>4. CASE FailReconcile
  BY <1>4 DEF FailReconcile, Finish
<1>5. CASE Attest
  BY <1>5 DEF Attest
<1>6. CASE FailAttest
  BY <1>6 DEF FailAttest, Finish
<1>. QED BY <1>1, <1>2, <1>3, <1>4, <1>5, <1>6

\* The owners come one after the other, and are claimed together.
LEMMA PrepareKeeps ==
  ASSUME IInv,
         \/ Materialize \/ PrepareRuntime \/ FailPrepare \/ ClaimOwners
         \/ IssueAuthority \/ FailProvision \/ Rethrow
  PROVE  IInv'
<1>. USE OrchestrationAssumption
     DEF IInv, OrchestrationTypeOK, ResultMeansClean, NoOwnerDropped, EarlyInv, TryInv,
         CloseInv, CatchInv, BarrierInv, ResultInv, Live, CrossBound, EarlyPhases,
         HeldPhases, ClosingPhases, ClosedPhases, Kinds, Runtime, Workspace, Authority,
         Nobody, Modes, Results, Phases, Clear, NoHandles, handles, closing
<1>1. CASE Materialize
  BY <1>1 DEF Materialize, Hold
<1>2. CASE PrepareRuntime
  BY <1>2 DEF PrepareRuntime, Hold
<1>3. CASE FailPrepare
  BY <1>3 DEF FailPrepare, Goto
<1>4. CASE ClaimOwners
  BY <1>4 DEF ClaimOwners
<1>5. CASE IssueAuthority
  BY <1>5 DEF IssueAuthority
<1>6. CASE FailProvision
  BY <1>6 DEF FailProvision, AwaitClose
<1>7. CASE Rethrow
  BY <1>7 DEF Rethrow, Goto
<1>. QED BY <1>1, <1>2, <1>3, <1>4, <1>5, <1>6, <1>7

\* The authority replaces the references; the checkpoints only leave.
LEMMA HandOverKeeps ==
  ASSUME IInv,
         \/ HandOver \/ Authorize \/ CheckpointThrows \/ FailAuthorize
         \/ RunnerThrowsUnclaimed \/ RunnerClaims
  PROVE  IInv'
<1>. USE OrchestrationAssumption
     DEF IInv, OrchestrationTypeOK, ResultMeansClean, NoOwnerDropped, EarlyInv, TryInv,
         CloseInv, CatchInv, BarrierInv, ResultInv, Live, CrossBound, EarlyPhases,
         HeldPhases, ClosingPhases, ClosedPhases, Kinds, Runtime, Workspace, Authority,
         Nobody, Modes, Results, Phases, Clear, NoHandles, handles, closing
<1>1. CASE HandOver
  BY <1>1 DEF HandOver
<1>2. CASE Authorize
  BY <1>2 DEF Authorize, Goto
<1>3. CASE CheckpointThrows
  BY <1>3 DEF CheckpointThrows, Goto
<1>4. CASE FailAuthorize
  BY <1>4 DEF FailAuthorize, Goto
<1>5. CASE RunnerThrowsUnclaimed
  BY <1>5 DEF RunnerThrowsUnclaimed, Goto
<1>6. CASE RunnerClaims
  BY <1>6 DEF RunnerClaims
<1>. QED BY <1>1, <1>2, <1>3, <1>4, <1>5, <1>6

\* The memoized close disposes of the runtime, then of the workspaces.
LEMMA CloseKeeps ==
  ASSUME IInv,
         CloseRuntimeOwner \/ CloseWorkspaceOwner
  PROVE  IInv'
<1>. USE OrchestrationAssumption
     DEF IInv, OrchestrationTypeOK, ResultMeansClean, NoOwnerDropped, EarlyInv, TryInv,
         CloseInv, CatchInv, BarrierInv, ResultInv, Live, CrossBound, EarlyPhases,
         HeldPhases, ClosingPhases, ClosedPhases, Kinds, Runtime, Workspace, Authority,
         Nobody, Modes, Results, Phases, Clear, NoHandles, handles, closing
<1>1. CASE CloseRuntimeOwner
  <2>1. /\ pc = "close_runtime" /\ pc' = "close_workspace"
        /\ UNCHANGED <<owner, refs, authority, memo, after, cancelled, mode, result>>
    BY <1>1 DEF CloseRuntimeOwner
  <2>2. CASE DisposeHandle(Runtime) /\ failures' = failures
    <3>1. /\ barrier' = [barrier EXCEPT ![Runtime] = Nobody]
          /\ status' = [status EXCEPT ![Runtime] = "disposed"]
      BY <2>1, <2>2 DEF DisposeHandle
    <3>. QED BY <2>1, <2>2, <3>1
  <2>3. CASE FailDisposeHandle(Runtime) /\ failures' = failures \union {Runtime}
    BY <2>1, <2>3 DEF FailDisposeHandle
  <2>. QED BY <1>1, <2>2, <2>3 DEF CloseRuntimeOwner
<1>2. CASE CloseWorkspaceOwner
  <2>1. /\ pc = "close_workspace" /\ pc' = after /\ memo' = TRUE
        /\ authority' \in {authority, "disposed"}
        /\ UNCHANGED <<owner, refs, after, cancelled, mode, result>>
    BY <1>2 DEF CloseWorkspaceOwner, ThroughAuthority
  <2>2. after \in ClosedPhases
    BY <2>1
  <2>3. CASE DisposeHandle(Workspace) /\ failures' = failures
    <3>1. /\ barrier' = [barrier EXCEPT ![Workspace] = Nobody]
          /\ status' = [status EXCEPT ![Workspace] = "disposed"]
      BY <2>1, <2>3 DEF DisposeHandle
    <3>. QED BY <2>1, <2>2, <2>3, <3>1
  <2>4. CASE FailDisposeHandle(Workspace) /\ failures' = failures \union {Workspace}
    BY <2>1, <2>2, <2>4 DEF FailDisposeHandle
  <2>. QED BY <1>2, <2>3, <2>4 DEF CloseWorkspaceOwner
<1>. QED BY <1>1, <1>2

\* Who awaits the close, and what it does with the receipt.
LEMMA ReturnKeeps ==
  ASSUME IInv,
         \/ DisposePreflight \/ PreflightReturns \/ RunnerDisposes \/ RunnerReturns
         \/ RunnerThrows
  PROVE  IInv'
<1>. USE OrchestrationAssumption
     DEF IInv, OrchestrationTypeOK, ResultMeansClean, NoOwnerDropped, EarlyInv, TryInv,
         CloseInv, CatchInv, BarrierInv, ResultInv, Live, CrossBound, EarlyPhases,
         HeldPhases, ClosingPhases, ClosedPhases, Kinds, Runtime, Workspace, Authority,
         Nobody, Modes, Results, Phases, Clear, NoHandles, handles, closing
<1>1. CASE DisposePreflight
  BY <1>1 DEF DisposePreflight, AwaitClose
<1>2. CASE PreflightReturns
  <2>1. CASE pc' = "catch_authority" /\ result' = result
    <3>1. /\ pc = "closed_in_preflight"
          /\ UNCHANGED <<barrier, handles, closing, cancelled, mode>>
      BY <1>2, <2>1 DEF PreflightReturns, Goto, Finish
    <3>. QED BY <2>1, <3>1
  <2>2. CASE failures = {} /\ pc' = "exited"
    <3>1. \A k \in Kinds : status[k] = "disposed" /\ barrier[k] = Nobody
      BY <1>2, <2>2 DEF PreflightReturns
    <3>2. barrier = [k \in Kinds |-> Nobody]
      BY <3>1
    <3>3. /\ pc = "closed_in_preflight" /\ pc' = "exited" /\ result' = "preflight"
          /\ UNCHANGED <<barrier, handles, closing, cancelled, mode>>
      BY <1>2, <2>2 DEF PreflightReturns, Goto, Finish
    <3>4. OrchestrationTypeOK' /\ ResultMeansClean' /\ NoOwnerDropped'
      BY <3>1, <3>2, <3>3
    <3>5. EarlyInv' /\ TryInv' /\ CloseInv' /\ CatchInv' /\ BarrierInv' /\ ResultInv'
      BY <3>1, <3>3
    <3>. QED BY <3>4, <3>5
  <2>. QED BY <1>2, <2>1, <2>2 DEF PreflightReturns, Goto, Finish
<1>3. CASE RunnerDisposes
  BY <1>3 DEF RunnerDisposes, AwaitClose
<1>4. CASE RunnerReturns
  BY <1>4 DEF RunnerReturns, Finish
<1>5. CASE RunnerThrows
  BY <1>5 DEF RunnerThrows, Goto
<1>. QED BY <1>1, <1>2, <1>3, <1>4, <1>5

\* The catch block disposes of whatever is still referred to.
LEMMA CatchKeeps ==
  ASSUME IInv,
         CatchAuthority \/ CatchAuthorityDone \/ CatchRuntime \/ CatchWorkspace
  PROVE  IInv'
<1>. USE OrchestrationAssumption
     DEF IInv, OrchestrationTypeOK, ResultMeansClean, NoOwnerDropped, EarlyInv, TryInv,
         CloseInv, CatchInv, BarrierInv, ResultInv, Live, CrossBound, EarlyPhases,
         HeldPhases, ClosingPhases, ClosedPhases, Kinds, Runtime, Workspace, Authority,
         Nobody, Modes, Results, Phases, Clear, NoHandles, handles, closing
<1>1. CASE CatchAuthority
  <2>1. CASE Authority \in refs
    <3>1. /\ pc = "catch_authority" /\ after' = "closed_in_catch"
          /\ UNCHANGED <<barrier, handles, failures, memo, cancelled, mode, result>>
      BY <1>1, <2>1 DEF CatchAuthority, AwaitClose
    <3>2. CASE memo = TRUE
      <4>1. pc' = "closed_in_catch"
        BY <1>1, <2>1, <3>2 DEF CatchAuthority, AwaitClose
      <4>. QED BY <3>1, <3>2, <4>1
    <3>3. CASE memo = FALSE
      <4>1. pc' = "close_runtime"
        BY <1>1, <2>1, <3>3 DEF CatchAuthority, AwaitClose
      <4>2. \A k \in Kinds : Live(k)
        BY <2>1, <3>1, <3>3
      <4>. QED BY <3>1, <3>3, <4>1, <4>2
    <3>. QED BY <3>2, <3>3
  <2>2. CASE Authority \notin refs
    <3>1. /\ pc = "catch_authority" /\ pc' = "catch_runtime"
          /\ UNCHANGED <<barrier, handles, closing, cancelled, mode, result>>
      BY <1>1, <2>2 DEF CatchAuthority, Goto
    <3>2. \A k \in Kinds : Live(k) => k \in refs
      BY <2>2, <3>1
    <3>. QED BY <3>1, <3>2
  <2>. QED BY <2>1, <2>2
<1>2. CASE CatchAuthorityDone
  BY <1>2 DEF CatchAuthorityDone, Goto
<1>3. CASE CatchRuntime
  BY <1>3 DEF CatchRuntime, CatchOwner, DisposeHandle, FailDisposeHandle
<1>4. CASE CatchWorkspace
  BY <1>4 DEF CatchWorkspace, CatchOwner, DisposeHandle, FailDisposeHandle
<1>. QED BY <1>1, <1>2, <1>3, <1>4

\* A process's memory ends with it, its files stay.
LEMMA EndKeeps ==
  ASSUME IInv,
         Exit \/ Crash \/ Signal
  PROVE  IInv'
<1>. USE OrchestrationAssumption
     DEF IInv, OrchestrationTypeOK, ResultMeansClean, NoOwnerDropped, EarlyInv, TryInv,
         CloseInv, CatchInv, BarrierInv, ResultInv, Live, CrossBound, EarlyPhases,
         HeldPhases, ClosingPhases, ClosedPhases, Kinds, Runtime, Workspace, Authority,
         Nobody, Modes, Results, Phases, Clear, NoHandles, handles, closing
<1>1. CASE Exit
  BY <1>1 DEF Exit, ProcessEnds
<1>2. CASE Crash
  BY <1>2 DEF Crash, ProcessEnds
<1>3. CASE Signal
  BY <1>3 DEF Signal
<1>. QED BY <1>1, <1>2, <1>3

--------------------------------------------------------------------------------
\* The inductive invariant holds in every reachable state.
THEOREM OrchestrationInvariant == Spec => []IInv
<1>1. Init => IInv
  BY InitHolds
<1>2. IInv /\ [Next]_vars => IInv'
  <2>. SUFFICES ASSUME IInv, [Next]_vars PROVE IInv'
    OBVIOUS
  <2>1. CASE UNCHANGED vars
    BY <2>1 DEF vars, IInv, OrchestrationTypeOK, ResultMeansClean, NoOwnerDropped,
         EarlyInv, TryInv, CloseInv, CatchInv, BarrierInv, ResultInv, Live, CrossBound
  <2>2. CASE Next
    BY <2>2, RecoveryKeeps, PrepareKeeps, HandOverKeeps, CloseKeeps, ReturnKeeps,
       CatchKeeps, EndKeeps
    DEF Next, Step
  <2>. QED BY <2>1, <2>2
<1>. QED BY <1>1, <1>2, PTL DEF Spec

\* The whole type invariant, with the binding of the orphans of both kinds to one
\* owner and the references that never hold an owner beside its authority.
THEOREM OrchestrationTypes == Spec => []OrchestrationTypeOK
<1>1. IInv => OrchestrationTypeOK
  BY DEF IInv
<1>. QED BY <1>1, OrchestrationInvariant, PTL

\* A result is told to the operator only over a clean disk.
THEOREM ResultsMeanClean == Spec => []ResultMeansClean
<1>1. IInv => ResultMeansClean
  BY DEF IInv
<1>. QED BY <1>1, OrchestrationInvariant, PTL

\* While the runner works its owners are live, and at a process's end none is
\* without a disposal that was at least tried.
THEOREM NoOwnerIsDropped == Spec => []NoOwnerDropped
<1>1. IInv => NoOwnerDropped
  BY DEF IInv
<1>. QED BY <1>1, OrchestrationInvariant, PTL

--------------------------------------------------------------------------------
(* The refinement.  What a kind of owner is, through the mapping. *)

LeaseOf(k) ==
  IF barrier[k] = Nobody THEN "free" ELSE IF Live(k) THEN "held" ELSE "blocked"

Mapped == [k \in Kinds |-> LeaseOf(k)]
LeaseStep == Lease!LeaseNext \/ Mapped' = Mapped
Stays(k) == LeaseOf(k)' = LeaseOf(k)
OthersStay(k) == \A j \in Kinds \ {k} : Stays(j)

\* The mapped variable, spelled out.
LEMMA LeaseMapping ==
  Lease!LeaseNext <=>
    \/ Mapped' = [k \in Kinds |-> IF Mapped[k] = "held" THEN "blocked" ELSE Mapped[k]]
    \/ \E k \in Kinds :
         \/ Mapped[k] = "free" /\ (\A j \in Kinds : Mapped[j] # "blocked")
            /\ Mapped' = [Mapped EXCEPT ![k] = "held"]
         \/ Mapped[k] = "held" /\ Mapped' = [Mapped EXCEPT ![k] = "free"]
         \/ Mapped[k] # "blocked" /\ Mapped' = [Mapped EXCEPT ![k] = "blocked"]
         \/ Mapped[k] = "blocked" /\ (\A j \in Kinds : Mapped[j] # "held")
            /\ Mapped' = [Mapped EXCEPT ![k] = "free"]
  BY DEF Lease!LeaseNext, Lease!Die, Lease!Acquire, Lease!Release, Lease!Block,
         Lease!Clear, Lease!Set, LeaseOf, Mapped, Live

\* A change of one kind of owner is a step of ResourceLease.
LEMMA LeaseSteps ==
  ASSUME NEW k \in Kinds, OthersStay(k),
         \/ Stays(k)
         \/ LeaseOf(k) = "free" /\ LeaseOf(k)' = "held"
            /\ \A j \in Kinds : LeaseOf(j) # "blocked"
         \/ LeaseOf(k) = "held" /\ LeaseOf(k)' = "free"
         \/ LeaseOf(k) # "blocked" /\ LeaseOf(k)' = "blocked"
         \/ LeaseOf(k) = "blocked" /\ LeaseOf(k)' = "free"
            /\ \A j \in Kinds : LeaseOf(j) # "held"
  PROVE  LeaseStep
<1>1. /\ \A j \in Kinds : Mapped[j] = LeaseOf(j)
      /\ \A j \in Kinds \ {k} : Mapped'[j] = Mapped[j]
      /\ Mapped'[k] = LeaseOf(k)'
  BY DEF Mapped, OthersStay, Stays
<1>2. Mapped' = [Mapped EXCEPT ![k] = LeaseOf(k)']
  BY <1>1 DEF Mapped
<1>3. CASE Stays(k)
  BY <1>3 DEF LeaseStep, Mapped, OthersStay, Stays
<1>4. CASE ~Stays(k)
  <2>1. CASE /\ LeaseOf(k) = "free" /\ LeaseOf(k)' = "held"
             /\ \A j \in Kinds : LeaseOf(j) # "blocked"
    <3>1. /\ Mapped[k] = "free" /\ \A j \in Kinds : Mapped[j] # "blocked"
          /\ Mapped' = [Mapped EXCEPT ![k] = "held"]
      BY <1>1, <1>2, <2>1
    <3>. QED BY <3>1, LeaseMapping DEF LeaseStep
  <2>2. CASE LeaseOf(k) = "held" /\ LeaseOf(k)' = "free"
    <3>1. Mapped[k] = "held" /\ Mapped' = [Mapped EXCEPT ![k] = "free"]
      BY <1>1, <1>2, <2>2
    <3>. QED BY <3>1, LeaseMapping DEF LeaseStep
  <2>3. CASE LeaseOf(k) # "blocked" /\ LeaseOf(k)' = "blocked"
    <3>1. Mapped[k] # "blocked" /\ Mapped' = [Mapped EXCEPT ![k] = "blocked"]
      BY <1>1, <1>2, <2>3
    <3>. QED BY <3>1, LeaseMapping DEF LeaseStep
  <2>4. CASE /\ LeaseOf(k) = "blocked" /\ LeaseOf(k)' = "free"
             /\ \A j \in Kinds : LeaseOf(j) # "held"
    <3>1. /\ Mapped[k] = "blocked" /\ \A j \in Kinds : Mapped[j] # "held"
          /\ Mapped' = [Mapped EXCEPT ![k] = "free"]
      BY <1>1, <1>2, <2>4
    <3>. QED BY <3>1, LeaseMapping DEF LeaseStep
  <2>. QED BY <1>4, <2>1, <2>2, <2>3, <2>4
<1>. QED BY <1>3, <1>4

\* What changes neither the files nor whether a handle is live changes no lease.
LEMMA LeaseStutters ==
  ASSUME barrier' = barrier, \A k \in Kinds : Live(k)' = Live(k)
  PROVE  LeaseStep
  BY DEF LeaseOf, Mapped, LeaseStep

\* A recovery clears what is blocked while nothing is held.
LEMMA RecoverySimulates ==
  ASSUME IInv, ReconcileRuntime \/ ReconcileWorkspace \/ FailReconcile
  PROVE  LeaseStep
<1>. USE OrchestrationAssumption
     DEF IInv, OrchestrationTypeOK, EarlyInv, TryInv, CloseInv, CatchInv, BarrierInv,
         Live, EarlyPhases, HeldPhases, ClosingPhases, ClosedPhases, Kinds, Runtime,
         Workspace, Nobody, Phases, Clear, NoHandles, handles, closing
<1>1. \A k \in Kinds : ~Live(k) /\ Live(k)' = Live(k)
  BY DEF ReconcileRuntime, ReconcileWorkspace, FailReconcile, Goto, Finish
<1>2. CASE ReconcileRuntime
  <2>1. OthersStay(Runtime) /\ LeaseOf(Runtime)' = "free"
    BY <1>1, <1>2 DEF ReconcileRuntime, OthersStay, Stays, LeaseOf
  <2>. QED BY <1>1, <2>1, LeaseSteps DEF Stays, LeaseOf
<1>3. CASE ReconcileWorkspace
  <2>1. OthersStay(Workspace) /\ LeaseOf(Workspace)' = "free"
    BY <1>1, <1>3 DEF ReconcileWorkspace, OthersStay, Stays, LeaseOf
  <2>. QED BY <1>1, <2>1, LeaseSteps DEF Stays, LeaseOf
<1>4. CASE FailReconcile
  <2>1. CASE barrier' = barrier
    BY <1>1, <2>1, LeaseStutters
  <2>2. ASSUME NEW k \in Kinds, barrier' = [barrier EXCEPT ![k] = Nobody]
        PROVE  LeaseStep
    <3>1. OthersStay(k) /\ LeaseOf(k)' = "free"
      BY <1>1, <2>2 DEF OthersStay, Stays, LeaseOf
    <3>. QED BY <1>1, <3>1, LeaseSteps DEF Stays, LeaseOf
  <2>. QED BY <1>4, <2>1, <2>2 DEF FailReconcile
<1>. QED BY <1>2, <1>3, <1>4

\* An owner is acquired where nothing is blocked; a preparation may block its own.
LEMMA PrepareSimulates ==
  ASSUME IInv, Materialize \/ PrepareRuntime \/ FailPrepare
  PROVE  LeaseStep
<1>. USE OrchestrationAssumption
     DEF IInv, OrchestrationTypeOK, EarlyInv, TryInv, CloseInv, CatchInv, BarrierInv,
         Live, EarlyPhases, HeldPhases, ClosingPhases, ClosedPhases, Kinds, Runtime,
         Workspace, Nobody, Phases, Clear, NoHandles, handles, closing
<1>1. CASE Materialize
  <2>1. /\ OthersStay(Workspace) /\ LeaseOf(Workspace)' = "held"
        /\ \A j \in Kinds : LeaseOf(j) = "free"
    BY <1>1 DEF Materialize, Hold, OthersStay, Stays, LeaseOf
  <2>. QED BY <2>1, LeaseSteps
<1>2. CASE PrepareRuntime
  <2>1. /\ OthersStay(Runtime) /\ LeaseOf(Runtime)' = "held" /\ LeaseOf(Runtime) = "free"
        /\ \A j \in Kinds : LeaseOf(j) # "blocked"
    BY <1>2 DEF PrepareRuntime, Hold, OthersStay, Stays, LeaseOf
  <2>. QED BY <2>1, LeaseSteps
<1>3. CASE FailPrepare
  <2>1. \A k \in Kinds : Live(k)' = Live(k)
    BY <1>3 DEF FailPrepare, Goto
  <2>2. CASE barrier' = barrier
    BY <2>1, <2>2, LeaseStutters
  <2>3. ASSUME NEW k \in Kinds, barrier' = [barrier EXCEPT ![k] = owner],
               barrier[k] = Nobody, ~Live(k), owner # Nobody
        PROVE  LeaseStep
    <3>1. OthersStay(k) /\ LeaseOf(k) = "free" /\ LeaseOf(k)' = "blocked"
      BY <2>1, <2>3 DEF OthersStay, Stays, LeaseOf
    <3>. QED BY <3>1, LeaseSteps
  <2>4. CASE pc = "materialize" /\ barrier' = [barrier EXCEPT ![Workspace] = owner]
    BY <2>3, <2>4
  <2>5. CASE pc = "prepare_runtime" /\ barrier' = [barrier EXCEPT ![Runtime] = owner]
    BY <2>3, <2>5
  <2>. QED BY <1>3, <2>2, <2>4, <2>5 DEF FailPrepare
<1>. QED BY <1>1, <1>2, <1>3

\* A disposal releases what is held, or blocks it when it fails; a second one
\* clears what the first one left, and finds nothing held.
LEMMA DisposeSimulates ==
  ASSUME IInv, IInv', NEW k \in Kinds,
         DisposeHandle(k) \/ FailDisposeHandle(k),
         \/ Live(k)
         \/ status[k] = "disposed"
         \/ \A j \in Kinds : ~Live(j)
  PROVE  LeaseStep
<1>. USE OrchestrationAssumption
     DEF IInv, OrchestrationTypeOK, EarlyInv, TryInv, CloseInv, CatchInv, BarrierInv,
         Live, EarlyPhases, HeldPhases, ClosingPhases, ClosedPhases, Kinds, Runtime,
         Workspace, Nobody, Phases, Clear, NoHandles, handles, closing
<1>1. \A j \in Kinds \ {k} : barrier'[j] = barrier[j] /\ status'[j] = status[j]
  BY DEF DisposeHandle, FailDisposeHandle
<1>2. OthersStay(k)
  BY <1>1 DEF OthersStay, Stays, LeaseOf
<1>3. CASE DisposeHandle(k)
  <2>1. LeaseOf(k)' = "free" \/ Stays(k)
    BY <1>3 DEF DisposeHandle, LeaseOf, Stays
  <2>. QED BY <1>2, <2>1, LeaseSteps DEF LeaseOf, Stays
<1>4. CASE FailDisposeHandle(k)
  <2>1. LeaseOf(k)' \in {"blocked", "free"} \/ Stays(k)
    BY <1>4 DEF FailDisposeHandle, LeaseOf, Stays
  <2>. QED BY <1>2, <2>1, LeaseSteps DEF LeaseOf, Stays
<1>. QED BY <1>3, <1>4

\* The close, and the catch block behind it.
LEMMA CloseSimulates ==
  ASSUME IInv, IInv',
         CloseRuntimeOwner \/ CloseWorkspaceOwner \/ CatchRuntime \/ CatchWorkspace
  PROVE  LeaseStep
<1>. USE OrchestrationAssumption
     DEF IInv, OrchestrationTypeOK, EarlyInv, TryInv, CloseInv, CatchInv, BarrierInv,
         Live, EarlyPhases, HeldPhases, ClosingPhases, ClosedPhases, Kinds, Runtime,
         Workspace, Nobody, Phases, Clear, NoHandles, handles, closing
<1>1. CASE CloseRuntimeOwner
  BY <1>1, DisposeSimulates DEF CloseRuntimeOwner
<1>2. CASE CloseWorkspaceOwner
  BY <1>2, DisposeSimulates DEF CloseWorkspaceOwner
<1>3. ASSUME NEW k \in Kinds, CatchOwner(k),
             Live(k) \/ status[k] \in {"none", "disposed"} \/ \A j \in Kinds : ~Live(j)
      PROVE  LeaseStep
  <2>1. CASE k \in refs
    BY <1>3, <2>1, DisposeSimulates DEF CatchOwner
  <2>2. CASE k \notin refs
    BY <1>3, <2>2, LeaseStutters DEF CatchOwner
  <2>. QED BY <2>1, <2>2
<1>4. CASE CatchRuntime
  BY <1>3, <1>4 DEF CatchRuntime
<1>5. CASE CatchWorkspace
  BY <1>3, <1>5 DEF CatchWorkspace
<1>. QED BY <1>1, <1>2, <1>4, <1>5

\* A process's end blocks what it held; after an orderly one that is nothing.
LEMMA EndSimulates ==
  ASSUME IInv, Exit \/ Crash
  PROVE  LeaseStep
<1>1. /\ barrier' = barrier
      /\ \A k \in Kinds : ~(status'[k] \in {"ready", "claimed"})
  BY DEF Exit, Crash, ProcessEnds, NoHandles
<1>2. Mapped' = [k \in Kinds |-> IF Mapped[k] = "held" THEN "blocked" ELSE Mapped[k]]
  BY <1>1 DEF Mapped, LeaseOf, Live
<1>. QED BY <1>2, LeaseMapping DEF LeaseStep

\* Every other step leaves the leases alone.
LEMMA OthersSimulate ==
  ASSUME IInv,
         \/ Attest \/ FailAttest \/ ClaimOwners \/ IssueAuthority \/ FailProvision
         \/ Rethrow \/ HandOver \/ Authorize \/ CheckpointThrows \/ FailAuthorize
         \/ DisposePreflight \/ PreflightReturns
         \/ RunnerThrowsUnclaimed \/ RunnerClaims \/ RunnerDisposes \/ RunnerReturns
         \/ RunnerThrows \/ CatchAuthority \/ CatchAuthorityDone \/ Start \/ Signal
  PROVE  LeaseStep
<1>1. CASE ClaimOwners
  BY <1>1, LeaseStutters DEF ClaimOwners, Live
<1>2. CASE ~ClaimOwners
  <2>1. barrier' = barrier /\ status' = status
    BY <1>2 DEF Attest, FailAttest, IssueAuthority, FailProvision, Rethrow,
       HandOver, Authorize, CheckpointThrows, FailAuthorize, DisposePreflight,
       PreflightReturns, RunnerThrowsUnclaimed, RunnerClaims, RunnerDisposes,
       RunnerReturns, RunnerThrows, CatchAuthority, CatchAuthorityDone, Start, Signal,
       Goto, Finish, AwaitClose, handles
  <2>. QED BY <2>1, LeaseStutters DEF Live
<1>. QED BY <1>1, <1>2

\* The orchestration implements ResourceLease: whatever order signals, failures and
\* deaths come in, no pilot acquires anything while files of an earlier one are left.
THEOREM OrchestrationImplementsLease == Spec => ImplementsLease
<1>1. Init => Lease!LeaseInit
  BY OrchestrationAssumption DEF Init, Lease!LeaseInit, Clear
<1>2. IInv /\ IInv' /\ [Next]_vars => [Lease!LeaseNext]_Mapped
  <2>. SUFFICES ASSUME IInv, IInv', [Next]_vars PROVE LeaseStep
    BY DEF LeaseStep
  <2>1. CASE UNCHANGED vars
    BY <2>1, LeaseStutters DEF vars, Live
  <2>2. CASE Next
    BY <2>2, RecoverySimulates, PrepareSimulates, CloseSimulates, EndSimulates,
       OthersSimulate
    DEF Next, Step
  <2>. QED BY <2>1, <2>2
<1>3. Mapped = [k \in Kinds |->
                  IF barrier[k] = Nobody THEN "free"
                  ELSE IF status[k] \in {"ready", "claimed"} THEN "held"
                  ELSE "blocked"]
  BY DEF Mapped, LeaseOf, Live
<1>4. IInv /\ IInv' /\ [Next]_vars =>
        [Lease!LeaseNext]_[k \in Kinds |->
                  IF barrier[k] = Nobody THEN "free"
                  ELSE IF status[k] \in {"ready", "claimed"} THEN "held"
                  ELSE "blocked"]
  BY <1>2 DEF Mapped, LeaseOf, Live
<1>. QED BY <1>1, <1>4, OrchestrationInvariant, PTL
  DEF Spec, ImplementsLease, Lease!LeaseSpec
================================================================================
