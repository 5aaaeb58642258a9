----------------------------- MODULE WorkspaceOwner -----------------------------
(* The durable owner of the nine private Git workspaces of one pilot:            *)
(* release-workspace-owner-manifest.mjs (manifest, activation and incomplete     *)
(* receipt, cleanup and reconciliation) and the owner of                         *)
(* release-workspace-resource.mjs (materialize, close, dispose).  Processes die  *)
(* between any two steps, every step may fail, the Git templates change while    *)
(* they are copied and the Git executable may be replaced.  Files survive a      *)
(* process as they were; the loss of a host before its disk is synced is left    *)
(* out.                                                                          *)
EXTENDS Naturals

CONSTANT CellCount   \* cells of the plan's schedule

ASSUME WorkspaceOwnerAssumption == CellCount \in Nat \ {0}

Cells == 1 .. CellCount
NoCell == 0

FileStates == {"absent", "torn", "whole"}
\* A receipt names the activation its writer held, or null.
ReceiptStates == {"absent", "torn", "of_prepared", "of_active"}
\* What a workspace directory holds: the prepared tree of the plan, another one, or
\* what a removal that failed half way has left of either.
Contents == {"none", "plan", "other", "rest"}
\* A template may change where Git's status shows it or where it does not.
TemplateStates == {"pinned", "ignored_change", "visible_change"}
Phases == {"down", "ready", "make_root", "activate", "copy", "copying", "live",
           "check", "remove_root", "remove_activation", "remove_receipt",
           "remove_manifest", "sync", "receipt", "released", "cleanup_failed"}

VARIABLES
  manifest,    \* the owner manifest: the first file written, the last removed
  activation,  \* the activation: the identity of the resource root
  receipt,     \* the cleanup-incomplete receipt
  root,        \* the resource root exists
  copies,      \* what its directory of each cell holds
  template,    \* the Git template the cells are copied from
  gitMatches,  \* the Git executable is the one the manifest names
  activated,   \* the process's state.activation is set
  current,     \* the cell materialisation is at
  returned,    \* cells whose close() has been called
  role,        \* what the process is: none, recovery, materializing or handle
  pc           \* where the process is

disk == <<manifest, activation, receipt, root, copies>>
world == <<template, gitMatches>>
memory == <<activated, current, returned, role>>
vars == <<manifest, activation, receipt, root, copies, template, gitMatches,
          activated, current, returned, role, pc>>

Empty == [c \in Cells |-> "none"]

Init ==
  /\ manifest = "absent" /\ activation = "absent" /\ receipt = "absent"
  /\ root = FALSE /\ copies = Empty
  /\ template = "pinned" /\ gitMatches = TRUE
  /\ activated = FALSE /\ current = NoCell /\ returned = {} /\ role = "none"
  /\ pc = "down"

\* A process's memory ends with it.
ProcessEnds ==
  /\ activated' = FALSE /\ current' = NoCell /\ returned' = {} /\ role' = "none"
  /\ pc' = "down" /\ UNCHANGED world

Goto(next) == pc' = next /\ UNCHANGED <<memory, world>>

--------------------------------------------------------------------------------
(* What happens outside the process. *)

\* A change made while a cell is copied may or may not reach the copy.
TemplateChanges ==
  /\ template' \in TemplateStates \ {template}
  /\ \/ copies' = copies
     \/ pc = "copying" /\ copies' = [copies EXCEPT ![current] = "other"]
  /\ UNCHANGED <<manifest, activation, receipt, root, gitMatches, memory, pc>>

GitExecutableChanges ==
  /\ gitMatches' = ~gitMatches
  /\ UNCHANGED <<disk, template, memory, pc>>

--------------------------------------------------------------------------------
(* reconcileReleaseWorkspaceOwnerV1, the first thing every process does. *)

\* readOwnerFiles throws.
Unreadable ==
  \/ manifest = "torn"
  \/ manifest = "whole" /\ activation = "torn"
  \/ manifest = "absent" /\ ~(activation = "absent" /\ receipt = "absent")

\* Unreadable files or another Git executable: nothing is touched or written.
RefuseReconciliation ==
  /\ pc = "down" /\ (Unreadable \/ (manifest = "whole" /\ ~gitMatches))
  /\ UNCHANGED vars

FindNoOwner ==
  /\ pc = "down" /\ ~Unreadable /\ manifest = "absent"
  /\ Goto("ready") /\ UNCHANGED disk

FindOwner ==
  /\ pc = "down" /\ ~Unreadable /\ manifest = "whole" /\ gitMatches
  /\ role' = "recovery" /\ activated' = (activation = "whole") /\ pc' = "check"
  /\ UNCHANGED <<disk, world, current, returned>>

--------------------------------------------------------------------------------
(* cleanupKnownOwner, by the owner or by a recovery. *)

\* The files on disk are those the process knows, the receipt aside.
FilesAsKnown == manifest = "whole" /\ activation = IF activated THEN "whole" ELSE "absent"

CheckFiles ==
  /\ pc = "check" /\ FilesAsKnown
  /\ Goto("remove_root") /\ UNCHANGED disk

\* An earlier attempt removed the activation this process still holds.
OwnerFilesChanged ==
  /\ pc = "check" /\ ~FilesAsKnown
  /\ Goto("receipt") /\ UNCHANGED disk

\* assertLiveRoot: without an activation only an empty root may be removed.
RootMayBeRemoved == root => activated \/ copies = Empty

\* What an rm that fails may leave of a directory.
Remains(content) == IF content = "none" THEN {"none"} ELSE {content, "rest", "none"}

\* Fault: an activated root that holds anything is refused as well.
RemoveRootEmptyOnly ==
  /\ pc = "remove_root" /\ (root => copies = Empty)
  /\ root' = FALSE /\ copies' = Empty
  /\ Goto("remove_activation") /\ UNCHANGED <<manifest, activation, receipt>>

RemoveRoot ==
  /\ pc = "remove_root" /\ RootMayBeRemoved
  /\ root' = FALSE /\ copies' = Empty
  /\ Goto("remove_activation") /\ UNCHANGED <<manifest, activation, receipt>>

\* Fault: the cleanup goes on over what rm left.
FailRemoveRootIgnored ==
  /\ pc = "remove_root" /\ RootMayBeRemoved
  /\ copies' \in [Cells -> Contents]
  /\ \A c \in Cells : copies'[c] \in Remains(copies[c])
  /\ root' \in IF copies' = Empty THEN {root, FALSE} ELSE {root}
  /\ Goto("remove_activation") /\ UNCHANGED <<manifest, activation, receipt>>

\* rm fails half way, or the sync after it does.
FailRemoveRoot ==
  /\ pc = "remove_root" /\ RootMayBeRemoved
  /\ copies' \in [Cells -> Contents]
  /\ \A c \in Cells : copies'[c] \in Remains(copies[c])
  /\ root' \in IF copies' = Empty THEN {root, FALSE} ELSE {root}
  /\ Goto("receipt") /\ UNCHANGED <<manifest, activation, receipt>>

RemoveActivation ==
  /\ pc = "remove_activation"
  /\ activation' = IF activated THEN "absent" ELSE activation
  /\ Goto("remove_receipt") /\ UNCHANGED <<manifest, receipt, root, copies>>

FailRemoveActivation ==
  /\ pc = "remove_activation" /\ activated
  /\ activation' \in {activation, "absent"}
  /\ Goto("receipt") /\ UNCHANGED <<manifest, receipt, root, copies>>

\* Fault: an earlier attempt's receipt is left behind.
RemoveReceiptSkipped ==
  /\ pc = "remove_receipt" /\ UNCHANGED disk
  /\ Goto("remove_manifest")

RemoveReceipt ==
  /\ pc = "remove_receipt" /\ receipt' = "absent"
  /\ Goto("remove_manifest") /\ UNCHANGED <<manifest, activation, root, copies>>

RemoveManifest ==
  /\ pc = "remove_manifest" /\ manifest' = "absent"
  /\ Goto("sync") /\ UNCHANGED <<activation, receipt, root, copies>>

FailRemoveBarrier ==
  /\ pc \in {"remove_receipt", "remove_manifest", "sync"}
  /\ Goto("receipt") /\ UNCHANGED disk

\* What follows a confirmed cleanup: a recovery lets its process go on, the failed
\* materialisation rethrows, a dispose returns.
CleanupConfirmed ==
  /\ pc = "sync"
  /\ CASE role = "recovery" ->
            /\ pc' = "ready" /\ role' = "none" /\ activated' = FALSE
            /\ UNCHANGED <<world, current, returned>>
       [] role = "materializing" -> ProcessEnds
       [] role = "handle" -> Goto("released")
  /\ UNCHANGED disk

\* A recovery and a materialisation rethrow; a dispose may be tried again.
AfterReceipt ==
  IF role = "handle" THEN Goto("cleanup_failed") ELSE ProcessEnds

\* persistIncomplete writes a receipt once: one that exists, of the same content or
\* not, stays, and the error goes on either way.
PersistIncomplete ==
  /\ pc = "receipt"
  /\ receipt' = IF receipt # "absent" THEN receipt
                ELSE IF activated THEN "of_active" ELSE "of_prepared"
  /\ AfterReceipt /\ UNCHANGED <<manifest, activation, root, copies>>

FailPersistIncomplete ==
  /\ pc = "receipt" /\ receipt = "absent" /\ receipt' \in {"absent", "torn"}
  /\ AfterReceipt /\ UNCHANGED <<manifest, activation, root, copies>>

--------------------------------------------------------------------------------
(* materializeReleasePilotWorkspacesV1.  Until the owner is activated an error is *)
(* rethrown with nothing cleaned up.                                              *)

\* The templates have been verified; begin... reads the owner's files once more.
BeginManifest ==
  /\ pc = "ready" /\ template # "visible_change" /\ manifest = "absent"
  /\ manifest' = "whole" /\ gitMatches' = TRUE
  /\ role' = "materializing" /\ pc' = "make_root"
  /\ UNCHANGED <<activation, receipt, root, copies, template, activated, current, returned>>

FailBeginManifest ==
  /\ pc = "ready" /\ manifest = "absent" /\ manifest' \in {"torn", "whole"}
  /\ ProcessEnds /\ UNCHANGED <<activation, receipt, root, copies>>

\* Fault: the workspaces are copied before the root's identity is on disk.
MakeRootUnactivated ==
  /\ pc = "make_root" /\ root' = TRUE
  /\ pc' = "copy" /\ current' = 1
  /\ UNCHANGED <<manifest, activation, receipt, copies, world, activated, returned, role>>

MakeRoot ==
  /\ pc = "make_root" /\ root' = TRUE
  /\ Goto("activate") /\ UNCHANGED <<manifest, activation, receipt, copies>>

FailMakeRoot ==
  /\ pc = "make_root" /\ root' \in BOOLEAN
  /\ ProcessEnds /\ UNCHANGED <<manifest, activation, receipt, copies>>

Activate ==
  /\ pc = "activate" /\ activation' = "whole" /\ activated' = TRUE
  /\ pc' = "copy" /\ current' = 1
  /\ UNCHANGED <<manifest, receipt, root, copies, world, returned, role>>

FailActivate ==
  /\ pc = "activate" /\ activation' \in {"absent", "torn", "whole"}
  /\ ProcessEnds /\ UNCHANGED <<manifest, receipt, root, copies>>

\* verifyTemplateGitAuthority before the copy, then the copy begins.
CopyWorkspace ==
  /\ pc = "copy" /\ template # "visible_change"
  /\ copies' = [copies EXCEPT ![current] = IF template = "pinned" THEN "plan" ELSE "other"]
  /\ Goto("copying") /\ UNCHANGED <<manifest, activation, receipt, root>>

NextCell ==
  IF current = CellCount
    THEN pc' = "live" /\ role' = "handle" /\ current' = NoCell
    ELSE pc' = "copy" /\ role' = role /\ current' = current + 1

\* Fault: the copy is accepted on Git's word, without the digest of its tree.
AcceptWorkspaceByGit ==
  /\ pc = "copying" /\ template # "visible_change"
  /\ NextCell /\ UNCHANGED <<disk, world, activated, returned>>

\* Git's view of the template is checked again, and the copy's digest is the plan's.
AcceptWorkspace ==
  /\ pc = "copying" /\ template # "visible_change" /\ copies[current] = "plan"
  /\ NextCell /\ UNCHANGED <<disk, world, activated, returned>>

\* Any error after the activation: closeAll.
MaterializeThrows ==
  /\ pc \in {"copy", "copying"}
  /\ pc' = "check" /\ current' = NoCell
  /\ UNCHANGED <<disk, world, activated, returned, role>>

--------------------------------------------------------------------------------
(* The handle in use: cells are closed in any order, each as often as it takes,   *)
(* then the owner is disposed of.                                                 *)

\* A directory that is gone needs no closing: close() returns at once, by cellClosed
\* or because lstat finds nothing.
ReturnCell(c) ==
  /\ pc = "live" /\ returned' = returned \union {c}
  /\ UNCHANGED <<manifest, activation, receipt, root, world, activated, current, role, pc>>

CloseCell(c) == ReturnCell(c) /\ copies' = [copies EXCEPT ![c] = "none"]

\* removeOwnedWorkspace fails, before the removal, half way or after it.
FailCloseCell(c) ==
  /\ ReturnCell(c)
  /\ \E rest \in Remains(copies[c]) : copies' = [copies EXCEPT ![c] = rest]

\* disposeReleaseWorkspaceResourceOwnerV1; one that failed may be called again.
Dispose ==
  /\ pc \in {"live", "cleanup_failed"} /\ Goto("check") /\ UNCHANGED disk

Exit ==
  /\ pc \in {"ready", "released", "cleanup_failed"}
  /\ ProcessEnds /\ UNCHANGED disk

Crash ==
  /\ pc \notin {"down", "ready", "released", "cleanup_failed"}
  /\ ProcessEnds /\ UNCHANGED disk

--------------------------------------------------------------------------------
RecoveryStep ==
  \/ FindNoOwner \/ FindOwner \/ CheckFiles \/ OwnerFilesChanged \/ RemoveRoot
  \/ RemoveActivation \/ RemoveReceipt \/ RemoveManifest \/ CleanupConfirmed
  \/ PersistIncomplete

RecoveryFault ==
  \/ FailRemoveRoot \/ FailRemoveActivation \/ FailRemoveBarrier
  \/ FailPersistIncomplete \/ Crash

OwnerStep ==
  \/ BeginManifest \/ FailBeginManifest \/ MakeRoot \/ FailMakeRoot
  \/ Activate \/ FailActivate \/ CopyWorkspace \/ AcceptWorkspace
  \/ MaterializeThrows \/ Dispose \/ Exit
  \/ \E c \in Cells : CloseCell(c) \/ FailCloseCell(c)

Next ==
  \/ RecoveryStep \/ RecoveryFault \/ RefuseReconciliation \/ OwnerStep
  \/ TemplateChanges \/ GitExecutableChanges

\* An operator runs recovery after an unclean exit, and a process that recovers or
\* cleans up runs on; nothing forces an owner to prepare or to dispose.
Spec == Init /\ [][Next]_vars /\ WF_vars(RecoveryStep)

--------------------------------------------------------------------------------
(* Properties *)

\* Every variable keeps its kind of value.
OwnerTypeOK ==
  /\ manifest \in FileStates /\ activation \in FileStates /\ receipt \in ReceiptStates
  /\ root \in BOOLEAN /\ copies \in [Cells -> Contents]
  /\ template \in TemplateStates /\ gitMatches \in BOOLEAN
  /\ activated \in BOOLEAN /\ current \in Cells \union {NoCell}
  /\ returned \subseteq Cells
  /\ role \in {"none", "recovery", "materializing", "handle"}
  /\ pc \in Phases

\* A reconciliation's cleanup_confirmed and a dispose's success both mean what they
\* say: no file of an owner, no root and no workspace is left.
PermittedMeansClean ==
  pc \in {"ready", "released"} =>
    /\ manifest = "absent" /\ activation = "absent" /\ receipt = "absent"
    /\ ~root /\ copies = Empty

\* Workspaces exist only behind a manifest and an activation a later process can
\* read: whatever dies or fails, recovery may remove what was copied.
WorkspacesRecoverable ==
  /\ copies # Empty => manifest = "whole" /\ activation = "whole" /\ root
  /\ manifest # "whole" => ~root /\ activation = "absent"

\* A workspace that the owner hands out holds the tree the plan names, whatever
\* happens to its template while it is copied and to the other cells, until its own
\* cell is returned.
WorkspacesAsPlanned ==
  role = "handle" => \A c \in Cells :
    /\ copies[c] # "other"
    /\ pc = "live" /\ c \notin returned => copies[c] = "plan"

\* Once nothing fails any more and the Git executable is the manifest's, a recovery
\* ends in permission, unless a torn or an orphaned file is left.
RecoverySucceeds ==
  <>[][~RecoveryFault]_vars /\ <>[]gitMatches =>
    (pc = "down" ~> (pc = "ready" \/ (pc = "down" /\ Unreadable)))

\* An owner of this module as the orchestration sees it.
OwnerFiles == manifest # "absent" \/ activation # "absent" \/ receipt # "absent"
OwnerResources == root \/ copies # Empty
OwnerProcess ==
  IF pc \in {"down", "released"} THEN pc
  ELSE IF pc = "ready" THEN "permitted"
  ELSE IF role = "materializing" THEN "preparing" ELSE role

Owner == INSTANCE DurableOwner WITH
  files <- OwnerFiles, resources <- OwnerResources, user <- OwnerProcess

\* The workspaces keep the promises of DurableOwner: they come up behind files that
\* only a process with permission writes, and whoever removes those files, or is told
\* that they are gone, has nothing left behind them.
ImplementsDurableOwner == Owner!OwnerSpec
================================================================================
