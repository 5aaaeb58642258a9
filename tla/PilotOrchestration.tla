--------------------------- MODULE PilotOrchestration ---------------------------
(* One pilot process after another: release-pilot-orchestrator.mjs, and the cell *)
(* resource authority of release-cell-resource-provisioner.mjs to which it hands *)
(* both owners over.  An owner's files are one barrier here (the owner modules   *)
(* say how they behave), the runner one client of the cell authority.  Signals   *)
(* and deaths come between any two awaits; every step may throw.                 *)
EXTENDS Naturals

CONSTANT Owners   \* orchestration owner ids, random and fresh in the code

ASSUME OrchestrationAssumption == Owners # {} /\ "none" \notin Owners

Runtime == "runtime_owner"
Workspace == "workspace_owner"
Kinds == {Runtime, Workspace}
Authority == "cell_resource_authority"
Nobody == "none"

Modes == {"recover", "preflight", "run"}
Results == {"none", "reconciled", "preflight", "run", "failed"}
Phases == {"down", "reconcile_runtime", "reconcile_workspace", "attest",
           "materialize", "prepare_runtime", "provision", "compose", "handover",
           "authorize", "authorized", "running", "close_runtime", "close_workspace",
           "closed_in_preflight", "closed_in_run", "closed_in_provision",
           "closed_in_catch", "catch_authority", "catch_runtime",
           "catch_workspace", "exited"}

VARIABLES
  barrier,    \* per kind, the owner whose files are on disk
  status,     \* per kind, the status of this process's owner handle
  owner,      \* this process's orchestrationOwnerId
  refs,       \* the orchestrator's variables that are not null
  authority,  \* status of the cell resource authority
  failures,   \* closeOwnersInReverse: kinds whose close failed
  memo,       \* closeOwnersInReverse has completed: its receipt is kept
  after,      \* where the awaited closeOwners returns to
  cancelled,  \* a signal has arrived
  mode,       \* what the process was started for
  result,     \* what it tells its operator
  pc

handles == <<status, owner, refs, authority>>
closing == <<failures, memo, after>>
vars == <<barrier, status, owner, refs, authority, failures, memo, after,
          cancelled, mode, result, pc>>

Clear == [k \in Kinds |-> Nobody]
NoHandles == [k \in Kinds |-> "none"]

Init ==
  /\ barrier = Clear /\ status = NoHandles /\ owner = Nobody /\ refs = {}
  /\ authority = "none" /\ failures = {} /\ memo = FALSE /\ after = "exited"
  /\ cancelled = FALSE /\ mode = "recover" /\ result = "none" /\ pc = "down"

\* A process's memory ends with it.
ProcessEnds ==
  /\ status' = NoHandles /\ owner' = Nobody /\ refs' = {} /\ authority' = "none"
  /\ failures' = {} /\ memo' = FALSE /\ after' = "exited" /\ cancelled' = FALSE
  /\ mode' = "recover" /\ result' = "none" /\ pc' = "down"

Goto(next) == pc' = next /\ UNCHANGED <<handles, closing, cancelled, mode, result>>

Finish(r) ==
  /\ pc' = "exited" /\ result' = r
  /\ UNCHANGED <<handles, closing, cancelled, mode>>

Start ==
  /\ pc = "down" /\ mode' \in Modes /\ pc' = "reconcile_runtime"
  /\ UNCHANGED <<barrier, handles, closing, cancelled, result>>

Signal ==
  /\ pc \notin {"down", "exited"} /\ cancelled' = TRUE
  /\ UNCHANGED <<barrier, handles, closing, mode, result, pc>>

Crash ==
  /\ pc # "down" /\ ProcessEnds /\ UNCHANGED barrier

--------------------------------------------------------------------------------
(* reconcileReleasePilotOrphans, and what precedes the first owner. *)

\* assertOrphanOwnerCrossBinding
CrossBound ==
  barrier[Runtime] = barrier[Workspace] \/ \E k \in Kinds : barrier[k] = Nobody

ReconcileRuntime ==
  /\ pc = "reconcile_runtime" /\ CrossBound
  /\ barrier' = [barrier EXCEPT ![Runtime] = Nobody]
  /\ Goto("reconcile_workspace")

ReconcileWorkspace ==
  /\ pc = "reconcile_workspace"
  /\ barrier' = [barrier EXCEPT ![Workspace] = Nobody]
  /\ IF mode = "recover" THEN Finish("reconciled") ELSE Goto("attest")

\* Fault: a pilot whose reconciliation fails goes on.
FailReconcileIgnored ==
  /\ pc \in {"reconcile_runtime", "reconcile_workspace"}
  /\ IF mode = "recover" THEN Finish("failed") ELSE Goto("attest")
  /\ UNCHANGED barrier

\* A reconciliation fails before its last file is gone, or in syncing its removal;
\* nothing has been acquired yet.
FailReconcile ==
  /\ \/ pc = "reconcile_runtime" /\ barrier' \in {barrier, [barrier EXCEPT ![Runtime] = Nobody]}
     \/ pc = "reconcile_workspace"
        /\ barrier' \in {barrier, [barrier EXCEPT ![Workspace] = Nobody]}
  /\ Finish("failed")

\* Credentials, public inputs and provenance, with a checkpoint after each.
Attest ==
  /\ pc = "attest" /\ ~cancelled
  /\ \E id \in Owners : owner' = id
  /\ pc' = "materialize"
  /\ UNCHANGED <<barrier, status, refs, authority, closing, cancelled, mode, result>>

FailAttest == pc = "attest" /\ Finish("failed") /\ UNCHANGED barrier

--------------------------------------------------------------------------------
(* The try block up to the hand-over. *)

Hold(k) ==
  /\ barrier' = [barrier EXCEPT ![k] = owner]
  /\ status' = [status EXCEPT ![k] = "ready"]
  /\ refs' = refs \union {k}
  /\ UNCHANGED <<owner, authority, closing, cancelled, mode, result>>

Materialize ==
  /\ pc = "materialize" /\ ~cancelled /\ barrier[Workspace] = Nobody
  /\ Hold(Workspace) /\ pc' = "prepare_runtime"

PrepareRuntime ==
  /\ pc = "prepare_runtime" /\ ~cancelled /\ barrier[Runtime] = Nobody
  /\ Hold(Runtime) /\ pc' = "provision"

\* A preparation that failed has cleaned up behind itself, or left its barrier.
FailPrepare ==
  /\ \/ pc = "materialize" /\ barrier' \in {barrier, [barrier EXCEPT ![Workspace] = owner]}
     \/ pc = "prepare_runtime" /\ barrier' \in {barrier, [barrier EXCEPT ![Runtime] = owner]}
  /\ Goto("catch_authority")

\* provisionReleaseCellResourcesV1 claims both owners, once each.
ClaimOwners ==
  /\ pc = "provision" /\ ~cancelled /\ \A k \in Kinds : status[k] = "ready"
  /\ status' = [k \in Kinds |-> "claimed"] /\ pc' = "compose"
  /\ UNCHANGED <<barrier, owner, refs, authority, closing, cancelled, mode, result>>

IssueAuthority ==
  /\ pc = "compose" /\ authority' = "ready" /\ pc' = "handover"
  /\ UNCHANGED <<barrier, status, owner, refs, closing, cancelled, mode, result>>

\* Awaits closeOwners, which runs once.
AwaitClose(return) ==
  /\ pc' = IF memo THEN return ELSE "close_runtime"
  /\ after' = return
  /\ UNCHANGED <<failures, memo>>

\* The provisioner closes the owners before it rethrows.
FailProvision ==
  /\ pc = "compose" \/ (pc = "provision" /\ ~cancelled)
  /\ AwaitClose("closed_in_provision")
  /\ UNCHANGED <<barrier, handles, cancelled, mode, result>>

Rethrow ==
  /\ pc = "closed_in_provision" /\ Goto("catch_authority") /\ UNCHANGED barrier

\* Fault: the orchestrator keeps its own references beside the authority.
HandOverKeepsOwners ==
  /\ pc = "handover" /\ ~cancelled
  /\ refs' = refs \union {Authority} /\ pc' = "authorize"
  /\ UNCHANGED <<barrier, status, owner, authority, closing, cancelled, mode, result>>

HandOver ==
  /\ pc = "handover" /\ ~cancelled
  /\ refs' = {Authority} /\ pc' = "authorize"
  /\ UNCHANGED <<barrier, status, owner, authority, closing, cancelled, mode, result>>

\* Provenance and the authorization signer.
Authorize ==
  /\ pc = "authorize" /\ ~cancelled
  /\ Goto("authorized") /\ UNCHANGED barrier

\* Fault: the orchestrator forgets its owners before it looks at the signal.
CheckpointThrowsBare ==
  /\ pc \in {"materialize", "prepare_runtime", "provision", "handover", "authorize",
             "authorized"}
  /\ cancelled
  /\ refs' = refs \ (IF pc = "handover" THEN Kinds ELSE {})
  /\ pc' = "catch_authority"
  /\ UNCHANGED <<barrier, status, owner, authority, closing, cancelled, mode, result>>

\* The checkpoint after each await; the cell authority may exist without being held.
CheckpointThrows ==
  /\ pc \in {"materialize", "prepare_runtime", "provision", "handover", "authorize",
             "authorized"}
  /\ cancelled
  /\ Goto("catch_authority") /\ UNCHANGED barrier

FailAuthorize == pc = "authorize" /\ Goto("catch_authority") /\ UNCHANGED barrier

--------------------------------------------------------------------------------
(* closeOwnersInReverse, and the dispose functions of the owners. *)

\* A handle that is disposed is left alone; one whose cleanup failed is tried again,
\* and fails again when its files are gone.
DisposeHandle(k) ==
  /\ status[k] = "disposed" \/ barrier[k] # Nobody
  /\ barrier' = IF status[k] = "disposed" THEN barrier ELSE [barrier EXCEPT ![k] = Nobody]
  /\ status' = [status EXCEPT ![k] = "disposed"]

\* What is on disk when it fails: files left or a receipt written, or nothing any more
\* when the last removal could not be synced nor the receipt written.
FailDisposeHandle(k) ==
  /\ status[k] # "disposed"
  /\ status' = [status EXCEPT ![k] = "cleanup_failed"]
  /\ \E left \in {owner, Nobody} : barrier' = [barrier EXCEPT ![k] = left]

CloseRuntimeOwner ==
  /\ pc = "close_runtime" /\ pc' = "close_workspace"
  /\ \/ DisposeHandle(Runtime) /\ failures' = failures
     \/ FailDisposeHandle(Runtime) /\ failures' = failures \union {Runtime}
  /\ UNCHANGED <<owner, refs, authority, memo, after, cancelled, mode, result>>

\* disposeState awaits it, rather than the provisioner.
ThroughAuthority == after \in {"closed_in_preflight", "closed_in_run", "closed_in_catch"}

CloseWorkspaceOwner ==
  /\ pc = "close_workspace" /\ pc' = after /\ memo' = TRUE
  /\ \/ DisposeHandle(Workspace) /\ failures' = failures
     \/ FailDisposeHandle(Workspace) /\ failures' = failures \union {Workspace}
  /\ authority' = IF ThroughAuthority THEN "disposed" ELSE authority
  /\ UNCHANGED <<owner, refs, after, cancelled, mode, result>>

--------------------------------------------------------------------------------
(* Preflight only, or the run. *)

DisposePreflight ==
  /\ pc = "authorized" /\ ~cancelled /\ mode = "preflight"
  /\ AwaitClose("closed_in_preflight")
  /\ UNCHANGED <<barrier, handles, cancelled, mode, result>>

\* Fault: the receipt of the cleanup is not looked at.
PreflightReturnsUnconfirmed ==
  /\ pc = "closed_in_preflight" /\ UNCHANGED barrier
  /\ IF cancelled THEN Goto("catch_authority") ELSE Finish("preflight")

PreflightReturns ==
  /\ pc = "closed_in_preflight" /\ UNCHANGED barrier
  /\ IF failures # {} \/ cancelled THEN Goto("catch_authority") ELSE Finish("preflight")

\* The runner's own checkpoint, credential and provenance checks precede its claim.
RunnerThrowsUnclaimed ==
  /\ pc = "authorized" /\ mode = "run"
  /\ Goto("catch_authority") /\ UNCHANGED barrier

RunnerClaims ==
  /\ pc = "authorized" /\ ~cancelled /\ mode = "run" /\ authority = "ready"
  /\ authority' = "claimed" /\ pc' = "running"
  /\ UNCHANGED <<barrier, status, owner, refs, closing, cancelled, mode, result>>

\* Whether it completes or fails, the runner disposes of the authority.
RunnerDisposes ==
  /\ pc = "running" /\ AwaitClose("closed_in_run")
  /\ UNCHANGED <<barrier, handles, cancelled, mode, result>>

\* It returns a result only over a confirmed cleanup.
RunnerReturns ==
  /\ pc = "closed_in_run" /\ failures = {}
  /\ Finish("run") /\ UNCHANGED barrier

RunnerThrows ==
  /\ pc = "closed_in_run" /\ Goto("catch_authority") /\ UNCHANGED barrier

--------------------------------------------------------------------------------
(* disposeReleasePilotOrchestrationResourcesV1 in the catch block: what is held,  *)
(* the cell authority first.                                                      *)

\* Fault: a cleanup already done is awaited again.
CatchAuthorityStuck ==
  /\ pc = "catch_authority"
  /\ IF Authority \in refs
       THEN ~memo /\ AwaitClose("closed_in_catch") /\ UNCHANGED <<handles, cancelled, mode, result>>
       ELSE Goto("catch_runtime")
  /\ UNCHANGED barrier

CatchAuthority ==
  /\ pc = "catch_authority"
  /\ IF Authority \in refs
       THEN AwaitClose("closed_in_catch") /\ UNCHANGED <<handles, cancelled, mode, result>>
       ELSE Goto("catch_runtime")
  /\ UNCHANGED barrier

CatchAuthorityDone ==
  /\ pc = "closed_in_catch" /\ Goto("catch_runtime") /\ UNCHANGED barrier

CatchOwner(k) ==
  /\ \/ k \in refs /\ (DisposeHandle(k) \/ FailDisposeHandle(k))
     \/ k \notin refs /\ UNCHANGED <<barrier, status>>
  /\ UNCHANGED <<owner, refs, authority, closing, cancelled, mode>>

CatchRuntime ==
  /\ pc = "catch_runtime" /\ CatchOwner(Runtime)
  /\ pc' = "catch_workspace" /\ UNCHANGED result

CatchWorkspace ==
  /\ pc = "catch_workspace" /\ CatchOwner(Workspace)
  /\ pc' = "exited" /\ result' = "failed"

Exit == pc = "exited" /\ ProcessEnds /\ UNCHANGED barrier

--------------------------------------------------------------------------------
Step ==
  \/ ReconcileRuntime \/ ReconcileWorkspace \/ FailReconcile \/ Attest \/ FailAttest
  \/ Materialize \/ PrepareRuntime \/ FailPrepare \/ ClaimOwners \/ IssueAuthority
  \/ FailProvision \/ Rethrow \/ HandOver \/ Authorize \/ CheckpointThrows
  \/ FailAuthorize \/ CloseRuntimeOwner \/ CloseWorkspaceOwner \/ DisposePreflight
  \/ PreflightReturns \/ RunnerThrowsUnclaimed \/ RunnerClaims \/ RunnerDisposes
  \/ RunnerReturns \/ RunnerThrows \/ CatchAuthority \/ CatchAuthorityDone
  \/ CatchRuntime \/ CatchWorkspace \/ Exit

Next == Step \/ Start \/ Signal \/ Crash

\* Every await returns; nothing makes an operator start a process, or a signal come.
Spec == Init /\ [][Next]_vars /\ WF_vars(Step)

--------------------------------------------------------------------------------
(* Properties *)

\* Every variable keeps its kind of value, and the orchestrator never holds an
\* owner beside the authority that took it over.  Orphans of both kinds always stem
\* from one owner: assertOrphanOwnerCrossBinding refuses only what others wrote.
OrchestrationTypeOK ==
  /\ barrier \in [Kinds -> Owners \union {Nobody}]
  /\ status \in [Kinds -> {"none", "ready", "claimed", "disposed", "cleanup_failed"}]
  /\ owner \in Owners \union {Nobody}
  /\ refs \subseteq Kinds \/ refs = {Authority}
  /\ authority \in {"none", "ready", "claimed", "disposed"}
  /\ failures \subseteq Kinds /\ memo \in BOOLEAN /\ after \in Phases
  /\ cancelled \in BOOLEAN /\ mode \in Modes /\ result \in Results /\ pc \in Phases
  /\ CrossBound

\* A result, of a recovery, a preflight or a run, is never given while files of an
\* owner are left that would block the next pilot.
ResultMeansClean == result \in {"reconciled", "preflight", "run"} => barrier = Clear

\* Somebody answers for the owners all along: while the runner works they are
\* claimed, live and of this process, and however a process comes to its end, each
\* of them has been disposed of, or its disposal was tried and failed.
NoOwnerDropped ==
  /\ pc = "running" => \A k \in Kinds : status[k] = "claimed" /\ barrier[k] = owner
  /\ pc = "exited" => \A k \in Kinds : status[k] \notin {"ready", "claimed"}

\* Every process that starts comes to its end, on every path through the catch
\* blocks and the memoized cleanup.
PilotEnds == pc # "down" ~> pc = "down"

Lease == INSTANCE ResourceLease WITH
  lease <- [k \in Kinds |->
              IF barrier[k] = Nobody THEN "free"
              ELSE IF status[k] \in {"ready", "claimed"} THEN "held"
              ELSE "blocked"]

\* The orchestration keeps the promises of ResourceLease: a pilot acquires nothing
\* while anything of an earlier one is left.
ImplementsLease == Lease!LeaseSpec
================================================================================
