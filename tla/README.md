# Formal model of the release pilot runner

TLA+ modules, TLC runs and TLAPS proofs about the program in this repository:
the runner of a 3 x 3 release pilot, its durable ledger, the parties each cell
waits for, the owners of the resources it works on, and the orchestration and the
scoring around it. All source paths below are relative to the repository's root;
`src/…` stands for `src/src/…` in `PROJECT.json`.

## 1. The system

A pilot runs nine cells (three cases x three arms) against one model provider,
at most one scored request per cell, and ends in a directory of evidence that a
reader verifies later. Nothing is retried and nothing is resumed.

| component | state it keeps | operations | what makes it correct |
|---|---|---|---|
| run ledger (`src/pilot-run-ledger.mjs`) | event files, pilot-index slot, two manifests on disk; next cell, active attempt, verdict, closures in memory | begin, recordCellPreparation, reserve/completeProviderAttempt, recordCellResult, recordResourceCleanup, recordVerdict, closeRun, abortRun, persistFinal/AbortManifest | an attempt is burned on disk before it is used; a run has one outcome for ever |
| sealed replay (`src/sealed-pilot-run.mjs`, `src/pilot-run-event-contract.mjs`) | none: reads the directory | replay before a signature, verification of a sealed run | accepts exactly completed or correctly aborted logs |
| pilot runner (`src/executable-pilot-runner.mjs`) | current cell and stage, per-cell adapter states, memoized cleanup receipt | the cell loop, sealing, the abort path, the outer disposal | order of ledger calls; every failure is cleaned up and sealed |
| cancellation (`src/release-pilot-cancellation.mjs`) | requested, committed | request, checkpoint, commit | no request and no claim after a signal |
| provider (`src/deepseek-provider.mjs`) | attempted cells | executeScoredRequest | one burned attempt per request; the receipt says what arrived |
| agent execution (`src/agent-execution.mjs`, `src/cli/apply-agent-action.mjs`) | executor child, its git children, the workspace | execute one action | the receipt names the tree the verifier will see |
| host adapter (`src/runtime-v1-host-adapter.mjs`) | preparation, settlement, closed | prepareArm, settle, close | a scored treatment is settled |
| verifier process (`src/oci-verifier-process.mjs`, `src/verifier-process.mjs`) | signer child, engine clients, one container per check, timers | run one blind verification | the verdict is what the containers said; no container is left behind evidence |
| runtime owner (`src/release-runtime-oci-resource.mjs`, `src/release-runtime-owner-manifest.mjs`) | containers; owner manifest, root, root identity and incomplete receipt on disk | prepare, claim, dispose (closeAll), reconcile | nothing is left behind unseen; only what is owned is removed |
| workspace owner (`src/release-workspace-resource.mjs`, `src/release-workspace-owner-manifest.mjs`) | nine workspaces; manifest, activation and receipt on disk | materialize, claim, dispose, reconcile | the same, for directories; what is handed out is the plan's |
| provisioner (`src/release-cell-resource-provisioner.mjs`) | one-shot authority, memoized disposal | provision, claim, dispose | owners are disposed of once, by whoever holds them |
| orchestrator (`src/release-pilot-orchestrator.mjs`) | which of the handles it still holds | reconcile, provision, preflight or run, dispose | a new pilot starts only on a clean root |
| scorer and result (`src/pilot-scorer.mjs`, `src/pilot-result.mjs`) | none | build a cell result, score | promote exactly when every check holds |
| signers (`src/final-signer-process.mjs`, `src/runner-signature.mjs`) | none: child processes | authorize, sign the final or the abort manifest | sign only what the replay accepts |
| SDK child (`src/release-sdk-client-authority.mjs`, `src/release-sdk-child-process.mjs`) | child process, pending request | call, close | answers match their requests |
| contract, preflight, authority, provenance, policy set, canonical encoding | none (provenance: a lease) | validation and digests | - |

They interact as follows. The orchestrator reconciles orphans, has the two
owners prepared, hands them to the provisioner's cell authority and starts the
runner. The runner claims the authority, begins the ledger, and for each cell
prepares the arm on its adapter, lets the provider reserve the attempt in the
ledger and send the request, executes the agent's action, runs the verifier,
settles a treatment with the Runtime, closes the adapter and records the
result. Then it closes everything, records the cleanup and the verdict, closes
the run, has a signer process replay the directory and sign, and persists the
final manifest. Any error or signal leads to its catch block, which cleans up,
appends `run_aborted`, has an abort signer replay and sign, and persists the
abort manifest.

What is hard in it: the runner is one async function, so signals fall between
any two awaits; a process may die anywhere; the ledger's memory and its disk
part company when one of two appends fails; cleanup is memoized and reused; two
owners with files of their own change hands three times; children outlive the
child that spawned them; a container engine answers to nobody's timer; the seal
depends on two programs (writer and replay) agreeing on a grammar; a manifest is
made durable before the last look at the signal. `PROJECT.json` lists the hazards
line by line, with the properties that cover each.

## 2. Modules

| module | models | composed of |
|---|---|---|
| `SealedReplay` | the event grammar, the replay's two verdicts, the abort payload | - |
| `PilotOutcome` | abstract: what a reader may conclude, and that it is final | - |
| `RunLedger` | the ledger's operations, partial appends, crashes, restarts | extends `SealedReplay`, implements `PilotOutcome` |
| `PilotRun` | the runner, cancellation, provider attempt, resource closer, signers' guards | extends `RunLedger`, implements it and `CellProtocol` |
| `CellProtocol` | abstract: what a cell is to the pilot | - |
| `CellExecution` | one cell from preparation to result, with the parties it waits for | implements `CellProtocol` and `BlindVerification` |
| `BlindVerification` | abstract: what a verification promises the cell | - |
| `VerifierProcess` | one cell's verification: runner, signer child, engine clients, engine | implements `BlindVerification` |
| `ResourceLease` | abstract: each kind of resource is free, held or blocked | - |
| `DurableOwner` | abstract: the files of an owner are a barrier, and resources exist only behind it | implements `ResourceLease` (in the owners' proofs) |
| `RuntimeOwner` | the Runtime owner's barrier files, root and containers; preparation, closeAll, reconciliation, crashes | implements `DurableOwner` |
| `WorkspaceOwner` | the workspace owner's files and workspaces; materialisation, disposal, reconciliation, crashes | implements `DurableOwner` |
| `PilotOrchestration` | one pilot or recovery process after another, both owners, the cell authority | implements `ResourceLease` |
| `PilotScoring` | the schedule, the scorer's counts and its promotion gate | - |

Each of these but the five abstract ones and `SealedReplay` has an instance for TLC
(`…MC.tla` with its `.cfg`) and a module of theorems (`…Proofs.tla`), which extends
it; `PilotRunProofs` also extends `RunLedgerProofs`.

The abstract modules are where the components meet. What one component takes for
granted of another is stated once, and both are held to it:

| between | one side | other side |
|---|---|---|
| `PilotOutcome` | `RunLedger`, and through it `PilotRun`, change a directory | its reader concludes |
| `CellProtocol` | `CellExecution`: one cell, with everything it waits for | `PilotRun`: all cells, from the ledger's events |
| `BlindVerification` | `VerifierProcess`: four kinds of process | `CellExecution`: the verifier seen from outside |
| `DurableOwner`, `ResourceLease` | `RuntimeOwner` and `WorkspaceOwner`: files and what they guard | `PilotOrchestration`: a barrier per kind |

### SealedReplay

A log is a sequence of records `[kind, cell]`; `run_aborted` also keeps the three
payload fields the replay checks against the log (completed cells, attempt
state, cleanup). The hash chain is abstracted to positions: the writer appends
only after the head it acknowledged. `ConformsUpTo`, `CutAtBoundary` and
`CutInsideCell` are the replay loop: an abort may stand at a cell boundary with a
null cell, or after the second, fourth or fifth event of a cell.

### RunLedger

One action per ledger operation (`mutationQueue` serialises them). Each has the
alternatives of its file system: acknowledged; never created; left torn; left
whole but unacknowledged; and, in operations that append two events, failed at
the second. The file that a failed append leaves is `stray`: it sits at the next
sequence number and makes every later append fail, as `exclusiveCanonicalFile`
does. `mode` is the caller's posture: the runner's first error takes it from its
`try` to its `catch`, whose ledger calls are only `abortRun` and
`persistAbortManifest`. `Crash` ends the process anywhere; `Restart` starts another
with the same `pilot_id`, which `BeginPilotRunLedger` must refuse.

`AuditedOutcome` is the refinement mapping: what `verifySealedPilotRunV1` concludes
from the directory. A readable but uncommitted final manifest is an *offered*
claim while its process lives, and a claim once that process is gone.

### PilotRun

`pc` names the await the runner is about to make. `At(step)` is the cancellation
checkpoint before it (`Checkpointed` lists the steps that have one; `await`,
`sync_manifest` and `commit_manifest` do not). `Throwing` lists the steps
whose error reaches the catch block; agent, verifier and settlement errors are
caught in place and become the cell's infrastructure failure. `CloseNextResource`
and `CloseOwners` are `complete()` of the resource closer, used by the try block and
the catch block alike, with its memoized receipt. `SendRequest` is separate from
`ReserveProviderAttempt` because a checkpoint and a signal may fall between them.
`settled` records the treatment cells whose Runtime ledger closed: the final
signer's closure counts (`verifyClosedRun`) demand all of them.

### CellProtocol

Per cell: how far it has come (`waiting` to `finished`), how many scored requests were sent
for it, whether its arm settles and whether it was seen to. `PilotRun` maps its `events`, its
places and its set of requests to it, across all processes of the run; `CellExecution` maps
its own one cell. `CellPromise` is what follows from the steps alone.

### CellExecution

The loop body of `executePilot` between two ledger records, with what `PilotRun` takes
as one step opened up: the Runtime's preparation and settlement (which may take
effect although their answer is lost), the provider's request (its headers, its
body, and the answer that comes after the client gave up), the executor and the
git process it spawns (which outlives it when its timer kills it), the verifier
seen from outside, and the receipts each leaves with its timestamps from a clock that
may be set back. `BuildResult` is `buildAdmittedPilotCellResultV1`: it admits a result
as scored or unknown, or throws. `mishaps` is a history variable: whether the clock
was set back, the executor killed or git failed midway.

### BlindVerification

A verification is asked for, runs its checks, and is signed or refused; what was signed may
still be discarded (`Discard`), and then there is no verdict. Meanwhile somebody may write
to the workspace. Evidence may be signed only over the workspace of the agent's
receipt and only while no check runs, and it scores a product only after every check.
`VerifierProcess` implements this with a workspace whose outside writer never undoes what
it changed. `CellExecution`, where that writer is the orphaned git process, implements it
too, and so shows that the writer of the real cell is of that kind: a patch is written in
one direction only.

### VerifierProcess

Four kinds of process: the parent (`runOciPrivateVerifierProcessV1`), the signer child, the
engine's command-line client of each check, and the engine. A killed client's
request stays with the engine, and a client outlives the child. `sweep` is
`recoverOciContainerAbsentV1` with its five steps (verify, inspect, remove, reinspect,
fence), run by the child after a check that was cut short or whose exit is the client's own,
and by the parent after a child that did not answer in time. Even a child that has signed
may not be believed: its output may be refused (`RefuseEvidence`), or the parent's timer or
output limit fires before its pipes are closed (`AnswerTooLate`), and the parent sweeps as
after a killed one. `WorkspaceChanges` is a process of the agent that still writes,
`EngineReplaced` another engine behind the attested socket. Every timer may fire
at any time at which it is set.

### RuntimeOwner

On disk: the owner manifest, the root identity receipt and the incomplete receipt (each
absent, torn or whole) and the resource root. In the engine: one container per slot
(kind and cell). In the process: `pending` and `Listed` (the members of
`pendingContainers` and their `state`; `"delisted"` is a container that closeAll's
second loop removed, which leaves the set with its state still `"owned"`), `records` and
`closed` (`cellRecords`, each to be closed when its holder likes), and where a cleanup
stands (`todo`, `failed`). Every process starts at `pc = "down"` with reconciliation,
either of the CLI that only recovers or of a new pilot, and ends there by `Exit`, by
`Crash`, or by an error no one cleans up after (`FailBeginManifest` and its like:
`closeAll` does not exist yet). The `Fail...` actions are the errors of each step, with
the effects the step may have had. Both confirmations are the same four steps; `role`
says what follows. A torn manifest, a torn identity or metadata without a manifest make
the directory `Unreadable`: no process goes past them.

`LateCreation` says whether the engine may carry out a create after its client
has failed, timed out or died. `FALSE` settles it before; `TRUE` is the engine of
finding 3. Two instances of `DurableOwner` are in this module: `Owner`, whose resources are
the root and the containers and which needs `~LateCreation`, and `RootOwner`, whose resource
is the root alone and which is refined whatever the engine does.

### WorkspaceOwner

The same shape with other files: the manifest, the activation (the identity of the
resource root, written after the root is made and before it is filled), the
incomplete receipt (which names the activation its writer held, or none) and what
the directory of each cell holds: the plan's tree, another, or what a removal that failed
half way has left (`"rest"`). `returned` are the cells whose `close()` has been called, in
whatever order and however often. An error before the activation is rethrown with
nothing cleaned up; after it, `cleanupKnownOwner` runs. Recovery, a failed
materialisation and the handle's dispose share that cleanup and its order (root,
activation, receipt, manifest, sync); `role` tells them apart. Templates may change
while they are copied, where Git's status shows it or where it does not, and the Git
executable may be replaced.

### PilotOrchestration

An owner is one barrier here (whose files are on disk, per kind); the two owner
modules say what stands behind it. `status` is the state of each handle, `refs` the
orchestrator's variables that are not null, `authority` the cell authority both
owners are handed to. `failures` and `memo` are `closeOwnersInReverse`: its failures are
remembered and a second disposal is answered from memory. A process is a recovery, a
preflight or a run; it may be signalled, throw or die at every step. `CrossBound` is the
check that both barriers, if both are there, carry the same owner id. A cleanup that fails
may have done everything but its last step, so the step that fails leaves the barrier
where it was or leaves none.

`ResourceLease` is what this promises: a pilot acquires nothing while anything of an
earlier one is left, and nothing left is cleared while a pilot holds something.
`DurableOwner` says the same of one kind with its files in view: a process with
permission raises the barrier, resources come and go behind it, it goes last, and nobody is
told that it is gone while it stands.

### PilotScoring

`results` is the list of references `scorePilotV1` counts. `RecordResult` adds the next cell
of the schedule with any outcome, as the runner does; `HandInIrregularly` leaves a cell out
or hands one in twice. The operators are the scorer's (`deriveAggregates`, the checks, the
verdict) and the contract's Latin-square schedule. `VerdictIsReference` compares the verdict
with a definition told from the schedule, cell by cell, instead of from groups and sums.

## 3. Runs

| run | instance | distinct states | shows |
|---|---|---|---|
| `run_ledger` | 3 cells | about 1 000 | both manifests stand, a closed run replays, no attempt reserved twice, no resume; refinement of `PilotOutcome` |
| `pilot_run` | 2 cells, the second a treatment | about 35 000 | the runner's invariants, no request after cancellation, refinement of `RunLedger`'s caller and of `CellProtocol`, termination |
| `cell_execution` | one cell of each arm | about 40 000 | receipts say what happened, a scored cell rests on one tree and one settlement, the result's rules refuse only after a mishap, refinement of `CellProtocol`, every cell ends |
| `verifier_process` | 2 checks | about 163 000 | a verdict is what the containers said of the agent's workspace, none runs unseen, refinement of `BlindVerification`, the verifier answers |
| `runtime_owner` | 3 cells, no late creation | about 8 700 | permission means clean, nothing forgotten, refinement of `DurableOwner`, recovery succeeds once nothing fails |
| `workspace_owner` | 3 cells | about 21 500 | the same for workspaces, recoverable after any death, and that they are the plan's |
| `pilot_orchestration` | 3 owner ids | about 2 200 | results and cleanup agree, no owner is dropped, refinement of `ResourceLease`, every pilot ends |
| `pilot_scoring` | 3 cases, 3 control and 5 treatment outcomes, up to 2 irregular cells | about 9 500 000 | the verdict is the reference's, sums and pairs agree |
| `cell_preparation_abort` | as `pilot_run` | violation | finding 1 |
| `receipt_after_manifest` | 1 cell | violation | finding 2 |
| `late_container` | 1 cell, late creation | violation | finding 3 |
| `verifier_timeout_cleanup` | 1 check | violation | finding 4 |

Where a module's type invariant is not among the properties of its run it is the first
part of a property that is (`VerifierProcess`) or it is proved (`LedgerTyped`, `RunTypes`,
`CellTypes`, `OwnerTypes`, `WorkspaceOwnerTypes`, `ListsAreTyped`).

### Bounds

- *Cells.* The grammar treats the first, a middle and the last cell alike but for
  the boundary before the first and the tail after the last: three cells have all
  of these. The runner adds no relation between two cells other than *earlier is
  closed, later is pending*, and two kinds of cell (with and without settlement),
  so two suffice. The program always runs nine. An owner's containers, and its
  workspaces, are made one after another and closed in any order, and meet only in the
  cleanup of all; with three cells one is closed, one is failing and one is still to come.
- *Checks.* Two of them let one run while the request of an earlier one is still
  with the engine.
- *Owner ids.* An owner id is fresh in the code; two may be on disk (one per kind)
  when a third is drawn. More never meet.
- *Clock.* One step back is enough for each comparison of two timestamps to fail.
- *Scoring.* The release has three cases. Two irregularities (`Irregularities`) leave
  the list at its full length with a hole in it and a cell twice, the case the
  scorer's length check alone would miss.
- *No other counters.* Each process sends at most one request per cell, and the taken
  slot keeps every later process from sending any. Any number of failures, crashes,
  recoveries, processes and owners follow one another.

### Fairness

Only steps of the modelled processes are weakly fair, and only the liveness
properties use it; signals, deaths, restarts, mishaps and changes of the world have
no fairness anywhere.

- `PilotRun`: `RunnerStep`. The code's awaits return: the scored request carries a
  timeout signal and the cancellation signal, child processes are killed at their
  deadlines, the rest is file I/O.
- `CellExecution`: `CellStep`, the steps of the runner and of the executor it spawns, each wait
  of which ends by a timer. That the provider, the Runtime or git answer is not assumed.
- `VerifierProcess`: `ChildStep`, `SweepStep` and `ParentStep`, each with its timers. Clients,
  engine and containers owe nothing.
- `RuntimeOwner` and `WorkspaceOwner`: `RecoveryStep`. An operator runs the recovery after an
  unclean exit, as the repository's README asks, and its commands have timeouts.
  `RecoverySucceeds` assumes, as its own hypothesis, that failures stop at some time.
- `PilotOrchestration`: `Step`, the process's own.

### Deadlock

It is checked where processes follow one another (a process can always be started
again, and one started on an `Unreadable` directory refuses it), and switched off in
`cell_execution`, `verifier_process`, `verifier_timeout_cleanup` and `pilot_scoring`: a cell, a
verification and a list of results come to an end.

### Findings

1. `BurnedRunIsSealable` (code). `currentCell` is set before `prepareArm` is awaited.
   An error or a signal there produces an abort event with a cell reference at a
   cell boundary; the ledger accepts it, the replay demands null, the abort signer
   refuses and the run stays unsealed.
2. `ReceiptHasManifest` (test name against code). A cleanup whose last directory sync
   fails has removed everything, the manifest included, and then writes the
   incomplete receipt. A receipt without a manifest is refused by every later
   reconciliation, so a clean host stays blocked until someone deletes the file.
   The workspace owner's cleanup has the same last step.
3. `ContainersHaveManifest` (README against code, if the engine may be late). A create
   that fails or times out is taken for undone when one inspection says absent; so
   is the create of a process that died. If the engine then carries it out, the
   container is left with no manifest to recover it by. `OnlyContainersComeLate` says
   where this ends: files and the root still go in order, only containers can be left.
4. `TimeoutRemovesContainers` (contract's `timeout_action` against code). The parent's
   timeout kills the verifier child only. The engine client that child had spawned
   lives on, and may create and start its container after the parent's sweep proved
   it absent.

Not findings, but worth knowing:

- A run whose treatment cell failed before its settlement is scored and closed, then
  refused by the final signer's counts and aborted after `run_closed`.
- An abort may state one completion more than is durable, because `providerCompletion`
  is set before its append (`AbortStatesBurnedAttempts` allows exactly that one).
- The final manifest is durable before the commit looks at the signal. If the process
  dies between the signal and the removal of the file, a reader finds a completed run;
  `CancellationDowngrades` therefore speaks of what a process commits.
- A git process orphaned by the executor's timer may still write while the signer
  runs, although the evidence states `after_agent_exit`. The captures before and after the
  checks keep the verdict sound (`ScoredCellIsSound`, `VerdictIsTheContainers`).
- Some checks of the promotion gate follow from others; `DeltaIsMargin` and
  `ChecksAgree` show that the sums and the pairs never contradict each other.

## 4. Proofs

Every theorem holds for every value of the constants that the named assumptions of the
modules admit: any number of cells, checks or owner ids, any set of treatment cells,
any outcomes. The invariants were model-checked before they were proved. None of the
stated properties is inductive alone; each module names the strengthening that is, as a
conjunction of parts.

| module | theorems | inductive invariant |
|---|---|---|
| `RunLedgerProofs` | `LedgerTyped`, `ClosedRunsReplay`, `ManifestsAlwaysStand`, `CommittedClaimsStand`, `AbortManifestsStand`, `AttemptsReservedOnce`, `AbortsStateBurnedAttempts`, `RunsAreNotResumed`, `LedgerImplementsOutcome` | `LedgerInv`, `CatchInv`, `AbortStatedInv` |
| `PilotRunProofs` | `RunUsesLedger`, `RunKeepsLedgerPromises`, `RunImplementsOutcome`, `RunImplementsCellProtocol`, `RunKeepsCellPromise`, `CancelledRunsSendNothing`, `RunTypes`, `RequestsAreBurnedFirst`, `CancelledRunsClaimNothing`, `ClaimsAreSettled`, `CleanupIsAsStated`, `AbortsAreRecorded` | `CellInv`, `RunnerInv`, `LoopInv` |
| `CellExecutionProofs` | `CellTypes`, `ReceiptsTellWhatArrived`, `ScoredCellsAreSound`, `RefusalsNeedMishaps`, `CellImplementsProtocol`, `CellKeepsPromise`, `CellImplementsBlind`, `CellKeepsBlindPromise` | `IInv` |
| `VerifierProcessProofs` | `VerdictsAreTheContainers`, `NothingEverRunsUnseen`, `VerifierImplementsBlind`, `VerifierKeepsBlindPromise` | `IInv` |
| `RuntimeOwnerProofs` | `OwnerTypes`, `PermissionIsSound`, `BarrierStands`, `RootOutlivesContainers`, `NothingForgotten`, `OnlyContainersComeLate`, `RootKeepsDurableOwner`, `RuntimeOwnerImplementsDurableOwner`, `RuntimeBarrierGuards`, `RuntimeOwnerIsALease` | `IInv`, `FilesInv` |
| `WorkspaceOwnerProofs` | `WorkspaceOwnerTypes`, `WorkspacePermissionIsSound`, `WorkspacesStayRecoverable`, `HandedOutAsPlanned`, `WorkspaceOwnerImplementsDurableOwner`, `WorkspaceBarrierGuards`, `WorkspaceOwnerIsALease` | `IInv` |
| `PilotOrchestrationProofs` | `OrchestrationTypes`, `ResultsMeanClean`, `NoOwnerIsDropped`, `OrchestrationImplementsLease` | `IInv` |
| `PilotScoringProofs` | `ChecksAgree`, `SumsAndPairsAgree`, `VerdictMatchesReference` | `ScoringTypeOK`, `ScoringInv` |

**Ledger.** The invariant is the conjunction of

- `TypeInv`: types, with `events` a sequence of events;
- `SlotInv`: files exist only once the slot is taken, which is what makes a second
  process harmless;
- `FreshInv`: a starting process has empty memory;
- `TryInv`: while nothing has failed, the log is exactly the prefix the grammar
  prescribes at the position that memory implies;
- `ManifestInv` and `AbortManifestStands`: what each manifest file and flag implies
  about the log;
- `ReservationInv`: every reservation on disk belongs to a cell memory has passed
  or is in, so the next one is new.

`CatchInv` adds how far a failed run's log may differ from memory, and `AbortStatedInv`
what an abort event at its end states; the counting lemma `KindCounted` turns the
grammar's prefixes into the numbers the abort payload carries. The refinement of
`PilotOutcome` has one step per action: a step changes the audited outcome only where it
makes a manifest readable, commits it or removes it, and `ManifestInv` says over which log.

**Runner.** Every step of `PilotRun` is a step of `LedgerNext` or leaves the ledger alone
(`RunUsesLedger`), given only that the runner never begins an iteration past the last
cell (`CellInv`). The ledger's theorems then hold of whole runs
(`RunKeepsLedgerPromises`), and so does the ledger's own refinement: a whole run is a
behaviour of `PilotOutcome` (`RunImplementsOutcome`). The runner's own properties follow from `RunnerInv`:
`TypedInv`, `SettledInv` (a final manifest is only ever made with every treatment settled),
`CancelInv` (a cancelled process has committed nothing), `ReceiptInv` (the memoized receipt
says what became of adapters and owners until the process ends), `ClosureInv` (a recorded
abort is the last event and repeats that receipt), `HttpInv` (a sent request has its start
in the log, and the cells to come have none), `BlameInv` (`currentCell` runs ahead of the
ledger only while a cell is prepared) and `SealableInv` (which aborts replay). `CancelledRunsSendNothing`
needs no invariant: it is the checkpoint before the request. `LoopInv` says that the
runner is in its loop or seals exactly while the ledger is in its `try` posture, and that an
iteration is always that of a cell of the schedule. With it and `RunnerInv` every step of any
process of the run is a step of `CellProtocol` or leaves it alone
(`RunImplementsCellProtocol`).

**Cell.** `ScoredCellIsSound` rests on one order: git takes the tree from `prepared` to
`patched` and never back (`Reaches`), so trees that are equal before and after the checks
were the same in between. `ClockInv` keeps all timestamps equal until the clock is set back. The same order
discharges the one assumption of `BlindVerification`, that a change is never undone
(`CellImplementsBlind`; this refinement is proved only, it is no run's property).

**Verifier.** `Quiet` says that a client can no longer bring up a container; `SweptInv` that
what a sweep proved absent is quiet, unless its client outlived a killed child
(finding 4 is that exception). It needs the engine to be the attested one at both ends
of the sweep. `OrderInv`, `StatusInv` and `SignedInv` carry a container's exit to the verdict. In the refinement of `BlindVerification` the
clients, the engine and the sweeps are *check begins* and *check stops*; its condition that
nothing runs when evidence is signed is what `SweptInv` is for.

**Owners.** What `RuntimeOwnerProofs` says of containers assumes `~LateCreation` (with a late
engine it is false, finding 3). Its invariant adds `Roles` (what the process is at each
place), `OnlyCurrentComing` (only a create whose client waits is undecided),
`PreparationInv` (what is on disk at each place of preparation, and that the recorded cells
are the ones before the current) and `CleanupInv` (what each cleanup has removed so far;
while closeAll has no error, every listed container is still to be visited). That last part
is why an error-free closeAll has closed every container. What it says of the files and
the root needs no assumption: `FilesInv` is inductive whatever the engine does, and gives
`OnlyContainersComeLate` and `RootKeepsDurableOwner`. `WorkspaceOwnerProofs` has the same
three parts (`Roles`, `MaterializeInv`, `RemovalInv`).

Both owners refine `DurableOwner`, one step per action. A process at the places between
permission and the barrier is *permitted*, one that cleans up after itself is still
*preparing* or a *handle*, and one that throws for good is *down*. `DurableOwner`'s own
steps refine `ResourceLease` with one kind, *held* by a live process and *blocked* without
one. By the chain each owner is a kind of the lease that `PilotOrchestration` takes its
barriers to be (`RuntimeOwnerIsALease`, with no assumption on the engine, and
`WorkspaceOwnerIsALease`). Stating that chain showed that the orchestration's failing
cleanup had been modelled as always leaving its barrier, which the owners do not promise.

**Orchestration.** `TryInv` says who refers to which owner at each place of the try block,
`CloseInv` what the memoized close has tried, `CatchInv` that whatever is live is still
referred to when the catch block starts, `BarrierInv` whose files are on disk. The
refinement maps a barrier to *held* while a live handle stands for it and to *blocked*
otherwise.

**Scoring.** On a list that holds every scheduled cell once, a treatment that meets a
completion delta meets the paired margin over the same control, and one that meets both
margins meets both deltas, whatever the outcomes, for one to three cases. `VerdictMatchesReference` needs more, because the
scorer counts and the reference does not: `ScoringInv` says that each reference is of the cell
its ordinal names, from which a list that passes the scorer's two tests on length and ordinals holds every arm
of every case once (`OnePlaceForEach`, `ExactIsComplete`), and then sums over its places are
sums over the cases (`SumIsCases`).

Only model-checked: the liveness properties (`RunEnds`, `CellEnds`, `VerifierAnswers`,
`PilotEnds` and both `RecoverySucceeds`), which rest on fairness and ENABLED and are out of
the prover's reach. Every other property of a passing run is stated by a theorem.

## 5. Not modelled

- *Payloads, digests, signatures, canonical encoding, the model protocol's constants, the
  contract's record validation, the runner authority and the policy bundle set*: data
  without state; two records are equal or they are not, and a validation succeeds or throws
  in the step that makes it.
- *Signer children* (`src/final-signer-process.mjs`, `src/runner-signature.mjs`): the replay they
  make and the counts they refuse are guards of `FinalSign` and `AbortSign`; key handling
  and the child protocol are left out.
- *Host adapter*: the decoding of Runtime responses and the test fixture are left out.
- *Runtime OCI resource*: image probing, container configuration and the readiness wait are
  I/O whose outcome is success or a throw.
- *Repository provenance*: its verdict is an alternative of `VerifyProvenance` and of the
  errors at `final_provenance`. The scan is file I/O and hashing; no state of the models
  tells the contents of sources apart, so the hazard at
  `src/executable-pilot-runner.mjs:616` (sources that change between the check and the
  signature) has no property.
- *SDK client authority and its child*: a request and answer protocol of its own.
- *Two processes on one private run root*: the repository's README gives the root to one pilot
  at a time and starts a recovery only after an unclean exit. The models take this from
  it, so the hazard at `src/release-pilot-orchestrator.mjs:508` (a second pilot reconciling
  a live one's resources) has no property.
- *Loss of a host before its disk is synced*: files survive a process as they were.
- *Contract-test twins* of the verifier and the ledger, and the source check CLI.

## 6. What is left

To prove: that the lease of each kind in `PilotOrchestration` and the one each owner refines
are the same step by step when composed (today they meet in the specification of
`ResourceLease`, not in one module that runs both). To model, in this order: the SDK child's protocol; the signer child's protocol; the provenance
lease against a repository that changes; two pilots on one private run root, as a
study of what the missing liveness check of reconciliation costs.
