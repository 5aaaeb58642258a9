-------------------------- MODULE WorkspaceOwnerProofs --------------------------
(* Proofs about WorkspaceOwner, for any number of cells: what permission for a   *)
(* new pilot means, and that every workspace is recoverable and the plan's.      *)
EXTENDS WorkspaceOwner, TLAPS

PreparePhases == {"make_root", "activate", "copy", "copying"}
RemovalPhases == {"remove_root", "remove_activation", "remove_receipt",
                  "remove_manifest", "sync"}
CleanupPhases == RemovalPhases \union {"check", "receipt"}

\* What the process is, at each place it can be.
Roles ==
  /\ pc \in PreparePhases => role = "materializing"
  /\ pc \in {"live", "released", "cleanup_failed"} => role = "handle"
  /\ pc \in CleanupPhases => role # "none"
  /\ pc \in {"down", "ready"} => role = "none"

\* Begin, activation and the copies: what is on disk at each place.
MaterializeInv ==
  /\ pc \in {"make_root", "activate"} =>
       manifest = "whole" /\ activation = "absent" /\ copies = Empty
  /\ pc \in {"copy", "copying", "live"} =>
       manifest = "whole" /\ activation = "whole" /\ root
  /\ pc = "activate" => root
  /\ pc \in {"copy", "copying"} =>
       current \in Cells /\ \A c \in 1 .. current - 1 : copies[c] = "plan"

\* Cleanup, an owner's or a recovery's: what has been removed at each place.
RemovalInv ==
  /\ pc \in {"remove_root", "remove_activation"} => FilesAsKnown
  /\ pc \in RemovalPhases \ {"remove_root"} => ~root /\ copies = Empty
  /\ pc \in {"remove_receipt", "remove_manifest"} =>
       manifest = "whole" /\ activation = "absent"
  /\ pc \in {"remove_manifest", "sync"} => receipt = "absent"
  /\ pc = "sync" => manifest = "absent" /\ activation = "absent"

\* The inductive invariant.  What permission means depends on the order in which the
\* files went, and what is handed out on how far the copies have come.
IInv ==
  /\ OwnerTypeOK
  /\ PermittedMeansClean /\ WorkspacesRecoverable /\ WorkspacesAsPlanned
  /\ Roles /\ MaterializeInv /\ RemovalInv

--------------------------------------------------------------------------------
\* Nothing exists yet.
LEMMA InitHolds == Init => IInv
  BY WorkspaceOwnerAssumption
  DEF Init, IInv, OwnerTypeOK, PermittedMeansClean, WorkspacesRecoverable,
         WorkspacesAsPlanned, Roles, MaterializeInv, RemovalInv,
         Empty, Goto, disk, world, memory, FileStates, ReceiptStates, Contents,
         TemplateStates, Phases, PreparePhases, RemovalPhases, CleanupPhases, Cells, NoCell

\* A change of a template reaches at most the copy that is being made.
LEMMA WorldKeeps ==
  ASSUME IInv,
         TemplateChanges \/ GitExecutableChanges
  PROVE  IInv'
<1>. USE WorkspaceOwnerAssumption
     DEF IInv, OwnerTypeOK, PermittedMeansClean, WorkspacesRecoverable,
         WorkspacesAsPlanned, Roles, MaterializeInv, RemovalInv, Empty, Goto,
         disk, world, memory, FileStates, ReceiptStates, Contents, TemplateStates,
         Phases, PreparePhases, RemovalPhases, CleanupPhases, Cells, NoCell
<1>1. CASE TemplateChanges
  <2>1. CASE copies' = copies
    BY <1>1, <2>1 DEF TemplateChanges, FilesAsKnown
  <2>2. CASE pc = "copying" /\ copies' = [copies EXCEPT ![current] = "other"]
    <3>1. \A c \in Cells : copies'[c] = IF c = current THEN "other" ELSE copies[c]
      BY <2>2
    <3>2. current \in Cells /\ \A c \in 1 .. current - 1 : c \in Cells /\ c # current
      BY <2>2
    <3>3. UNCHANGED <<manifest, activation, receipt, root, memory, pc, gitMatches>>
      BY <1>1 DEF TemplateChanges
    <3>4. copies' \in [Cells -> Contents] /\ template' \in TemplateStates
      BY <1>1, <2>2 DEF TemplateChanges
    <3>. QED BY <2>2, <3>1, <3>2, <3>3, <3>4
  <2>. QED BY <1>1, <2>1, <2>2 DEF TemplateChanges
<1>2. CASE GitExecutableChanges
  BY <1>2 DEF GitExecutableChanges, FilesAsKnown
<1>. QED BY <1>1, <1>2

\* A reconciliation finds what an earlier process left.
LEMMA ReconcileKeeps ==
  ASSUME IInv,
         FindNoOwner \/ FindOwner \/ CheckFiles \/ OwnerFilesChanged
  PROVE  IInv'
<1>. USE WorkspaceOwnerAssumption
     DEF IInv, OwnerTypeOK, PermittedMeansClean, WorkspacesRecoverable,
         WorkspacesAsPlanned, Roles, MaterializeInv, RemovalInv, Empty, Goto,
         disk, world, memory, FileStates, ReceiptStates, Contents, TemplateStates,
         Phases, PreparePhases, RemovalPhases, CleanupPhases, Cells, NoCell
<1>1. CASE FindNoOwner
  BY <1>1 DEF FindNoOwner, Unreadable
<1>2. CASE FindOwner
  BY <1>2 DEF FindOwner, Unreadable
<1>3. CASE CheckFiles
  BY <1>3 DEF CheckFiles, FilesAsKnown
<1>4. CASE OwnerFilesChanged
  BY <1>4 DEF OwnerFilesChanged, FilesAsKnown
<1>. QED BY <1>1, <1>2, <1>3, <1>4

\* The root, the activation, the receipt and the manifest go in this order.
LEMMA RemoveKeeps ==
  ASSUME IInv,
         \/ RemoveRoot \/ FailRemoveRoot \/ RemoveActivation \/ FailRemoveActivation
         \/ RemoveReceipt \/ RemoveManifest \/ FailRemoveBarrier
  PROVE  IInv'
<1>. USE WorkspaceOwnerAssumption
     DEF IInv, OwnerTypeOK, PermittedMeansClean, WorkspacesRecoverable,
         WorkspacesAsPlanned, Roles, MaterializeInv, RemovalInv, Empty, Goto,
         disk, world, memory, FileStates, ReceiptStates, Contents, TemplateStates,
         Phases, PreparePhases, RemovalPhases, CleanupPhases, Cells, NoCell
<1>1. CASE RemoveRoot
  <2>1. /\ FilesAsKnown /\ FilesAsKnown' /\ root' = FALSE /\ copies' = Empty
        /\ pc' = "remove_activation"
        /\ UNCHANGED <<manifest, activation, receipt, memory, world>>
    BY <1>1 DEF RemoveRoot, FilesAsKnown
  <2>2. \A c \in Cells : copies'[c] = "none"
    BY <2>1
  <2>3. copies' \in [Cells -> Contents]
    BY <2>1
  <2>4. OwnerTypeOK'
    <3>1. pc' \in Phases /\ root' \in BOOLEAN
      BY <2>1
    <3>. QED BY <2>1, <2>3, <3>1
  <2>5. WorkspacesRecoverable'
    BY <2>1
  <2>6. WorkspacesAsPlanned'
    BY <2>1, <2>2
  <2>. QED BY <1>1, <2>1, <2>4, <2>5, <2>6 DEF RemoveRoot
<1>2. CASE FailRemoveRoot
  <2>1. /\ pc = "remove_root" /\ pc' = "receipt"
        /\ root' \in IF copies' = Empty THEN {root, FALSE} ELSE {root}
        /\ UNCHANGED <<manifest, activation, receipt, memory, world>>
    BY <1>2 DEF FailRemoveRoot
  <2>2. copies' \in [Cells -> Contents]
    BY <1>2 DEF FailRemoveRoot
  <2>3. \A c \in Cells : copies'[c] \in {copies[c], "rest", "none"}
    BY <1>2 DEF FailRemoveRoot, Remains
  <2>4. copies' # Empty => copies # Empty
    <3>. SUFFICES ASSUME copies = Empty PROVE copies' = Empty
      OBVIOUS
    <3>. QED BY <1>2, <2>2 DEF FailRemoveRoot, Remains
  <2>5. root' \in BOOLEAN /\ (root' => root) /\ (copies' # Empty => root' = root)
    BY <2>1
  <2>. QED BY <2>1, <2>2, <2>3, <2>4, <2>5
<1>3. CASE RemoveActivation
  BY <1>3 DEF RemoveActivation, FilesAsKnown
<1>4. CASE FailRemoveActivation
  BY <1>4 DEF FailRemoveActivation, FilesAsKnown
<1>5. CASE RemoveReceipt
  BY <1>5 DEF RemoveReceipt
<1>6. CASE RemoveManifest
  BY <1>6 DEF RemoveManifest
<1>7. CASE FailRemoveBarrier
  BY <1>7 DEF FailRemoveBarrier
<1>. QED BY <1>1, <1>2, <1>3, <1>4, <1>5, <1>6, <1>7

\* A cleanup ends in a confirmation or in a receipt.
LEMMA OutcomeKeeps ==
  ASSUME IInv,
         CleanupConfirmed \/ PersistIncomplete \/ FailPersistIncomplete
  PROVE  IInv'
<1>. USE WorkspaceOwnerAssumption
     DEF IInv, OwnerTypeOK, PermittedMeansClean, WorkspacesRecoverable,
         WorkspacesAsPlanned, Roles, MaterializeInv, RemovalInv, Empty, Goto,
         disk, world, memory, FileStates, ReceiptStates, Contents, TemplateStates,
         Phases, PreparePhases, RemovalPhases, CleanupPhases, Cells, NoCell
<1>1. CASE CleanupConfirmed
  BY <1>1 DEF CleanupConfirmed, ProcessEnds
<1>2. CASE PersistIncomplete \/ FailPersistIncomplete
  <2>1. /\ pc = "receipt" /\ receipt' \in ReceiptStates
        /\ UNCHANGED <<manifest, activation, root, copies, world>>
    BY <1>2 DEF PersistIncomplete, FailPersistIncomplete, AfterReceipt, ProcessEnds
  <2>2. CASE role = "handle"
    <3>1. pc' = "cleanup_failed" /\ UNCHANGED memory
      BY <1>2, <2>2 DEF PersistIncomplete, FailPersistIncomplete, AfterReceipt
    <3>. QED BY <2>1, <2>2, <3>1
  <2>3. CASE role # "handle"
    <3>1. /\ pc' = "down" /\ role' = "none" /\ activated' = FALSE
          /\ current' = NoCell /\ returned' = {}
      BY <1>2, <2>3 DEF PersistIncomplete, FailPersistIncomplete, AfterReceipt, ProcessEnds
    <3>. QED BY <2>1, <3>1
  <2>. QED BY <2>2, <2>3
<1>. QED BY <1>1, <1>2

\* The manifest is written, the root made and its identity recorded, in this order.
LEMMA PrepareKeeps ==
  ASSUME IInv,
         \/ BeginManifest \/ FailBeginManifest \/ MakeRoot \/ FailMakeRoot \/ Activate
         \/ FailActivate
  PROVE  IInv'
<1>. USE WorkspaceOwnerAssumption
     DEF IInv, OwnerTypeOK, PermittedMeansClean, WorkspacesRecoverable,
         WorkspacesAsPlanned, Roles, MaterializeInv, RemovalInv, Empty, Goto,
         disk, world, memory, FileStates, ReceiptStates, Contents, TemplateStates,
         Phases, PreparePhases, RemovalPhases, CleanupPhases, Cells, NoCell
<1>1. CASE BeginManifest
  BY <1>1 DEF BeginManifest
<1>2. CASE FailBeginManifest
  BY <1>2 DEF FailBeginManifest, ProcessEnds
<1>3. CASE MakeRoot
  BY <1>3 DEF MakeRoot
<1>4. CASE FailMakeRoot
  BY <1>4 DEF FailMakeRoot, ProcessEnds
<1>5. CASE Activate
  BY <1>5 DEF Activate
<1>6. CASE FailActivate
  BY <1>6 DEF FailActivate, ProcessEnds
<1>. QED BY <1>1, <1>2, <1>3, <1>4, <1>5, <1>6

\* Cells are copied in order; only a copy whose tree is the plan's is accepted.
LEMMA CopyKeeps ==
  ASSUME IInv,
         CopyWorkspace \/ AcceptWorkspace \/ MaterializeThrows
  PROVE  IInv'
<1>. USE WorkspaceOwnerAssumption
     DEF IInv, OwnerTypeOK, PermittedMeansClean, WorkspacesRecoverable,
         WorkspacesAsPlanned, Roles, MaterializeInv, RemovalInv, Empty, Goto,
         disk, world, memory, FileStates, ReceiptStates, Contents, TemplateStates,
         Phases, PreparePhases, RemovalPhases, CleanupPhases, Cells, NoCell
<1>1. CASE CopyWorkspace
  BY <1>1 DEF CopyWorkspace
<1>2. CASE AcceptWorkspace
  BY <1>2 DEF AcceptWorkspace, NextCell
<1>3. CASE MaterializeThrows
  BY <1>3 DEF MaterializeThrows
<1>. QED BY <1>1, <1>2, <1>3

\* Closing a cell disturbs no other cell.
LEMMA UseKeeps ==
  ASSUME IInv,
         (\E c \in Cells : CloseCell(c) \/ FailCloseCell(c)) \/ Dispose \/ Exit \/ Crash
  PROVE  IInv'
<1>. USE WorkspaceOwnerAssumption
     DEF IInv, OwnerTypeOK, PermittedMeansClean, WorkspacesRecoverable,
         WorkspacesAsPlanned, Roles, MaterializeInv, RemovalInv, Empty, Goto,
         disk, world, memory, FileStates, ReceiptStates, Contents, TemplateStates,
         Phases, PreparePhases, RemovalPhases, CleanupPhases, Cells, NoCell
<1>1. CASE \E c \in Cells : CloseCell(c) \/ FailCloseCell(c)
  <2>1. PICK b \in Cells : CloseCell(b) \/ FailCloseCell(b)
    BY <1>1
  <2>2. /\ pc = "live" /\ returned' = returned \union {b}
        /\ UNCHANGED <<manifest, activation, receipt, root, world, activated, current, role, pc>>
    BY <2>1 DEF CloseCell, FailCloseCell, ReturnCell
  <2>3. PICK rest \in Remains(copies[b]) : copies' = [copies EXCEPT ![b] = rest]
    BY <2>1 DEF CloseCell, FailCloseCell, Remains
  <2>4. /\ copies' \in [Cells -> Contents]
        /\ \A c \in Cells : c # b => copies'[c] = copies[c]
        /\ copies'[b] \in {copies[b], "rest", "none"}
    BY <2>3 DEF Remains
  <2>5. copies' # Empty => copies # Empty
    <3>. SUFFICES ASSUME copies = Empty PROVE copies' = Empty
      OBVIOUS
    <3>. QED BY <2>3 DEF Remains
  <2>6. OwnerTypeOK' /\ WorkspacesAsPlanned'
    BY <2>2, <2>4
  <2>. QED BY <2>2, <2>5, <2>6
<1>2. CASE Dispose
  BY <1>2 DEF Dispose
<1>3. CASE Exit
  BY <1>3 DEF Exit, ProcessEnds
<1>4. CASE Crash
  BY <1>4 DEF Crash, ProcessEnds
<1>. QED BY <1>1, <1>2, <1>3, <1>4

\* A step that changes nothing keeps it.
LEMMA StutterKeeps ==
  ASSUME IInv, UNCHANGED vars
  PROVE  IInv'
  BY DEF vars, FilesAsKnown, IInv, OwnerTypeOK, PermittedMeansClean,
     WorkspacesRecoverable,
         WorkspacesAsPlanned, Roles, MaterializeInv, RemovalInv

\* The invariant holds in every state, for every number of cells.
THEOREM WorkspaceInvariant == Spec => []IInv
<1>1. IInv /\ [Next]_vars => IInv'
  <2> SUFFICES ASSUME IInv, [Next]_vars PROVE IInv'
    OBVIOUS
  <2>1. CASE UNCHANGED vars
    BY <2>1, StutterKeeps
  <2>2. CASE RecoveryStep
    BY <2>2, ReconcileKeeps, RemoveKeeps, OutcomeKeeps DEF RecoveryStep
  <2>3. CASE RecoveryFault
    BY <2>3, RemoveKeeps, OutcomeKeeps, UseKeeps DEF RecoveryFault
  <2>4. CASE RefuseReconciliation
    BY <2>4, StutterKeeps DEF RefuseReconciliation
  <2>5. CASE OwnerStep
    BY <2>5, PrepareKeeps, CopyKeeps, UseKeeps DEF OwnerStep
  <2>6. CASE TemplateChanges \/ GitExecutableChanges
    BY <2>6, WorldKeeps
  <2>. QED BY <2>1, <2>2, <2>3, <2>4, <2>5, <2>6 DEF Next
<1>. QED BY InitHolds, <1>1, PTL DEF Spec

\* Every variable of the owner keeps its type.
THEOREM WorkspaceOwnerTypes == Spec => []OwnerTypeOK
  BY WorkspaceInvariant, PTL DEF IInv

\* Permission for a new pilot, and a completed dispose, mean that nothing of an owner
\* is left (reconcileReleaseWorkspaceOwnerV1, cleanupReleaseWorkspaceOwnerV1).
THEOREM WorkspacePermissionIsSound == Spec => []PermittedMeansClean
  BY WorkspaceInvariant, PTL DEF IInv

\* Workspaces exist only behind a manifest and an activation that a later process can
\* read (activateReleaseWorkspaceOwnerV1 before the first copy).
THEOREM WorkspacesStayRecoverable == Spec => []WorkspacesRecoverable
  BY WorkspaceInvariant, PTL DEF IInv

\* What is handed out is the plan's, whatever happens to the template
\* (materializeReleasePilotWorkspacesV1).
THEOREM HandedOutAsPlanned == Spec => []WorkspacesAsPlanned
  BY WorkspaceInvariant, PTL DEF IInv

--------------------------------------------------------------------------------
(* The refinement of DurableOwner.                                                *)

mapped == <<OwnerFiles, OwnerResources, OwnerProcess>>
OwnerStays == mapped' = mapped

\* What is guarded is there exactly as long as the root is: no workspace is without it.
LEMMA ResourcesAreTheRoot ==
  /\ IInv => (OwnerResources <=> root)
  /\ IInv' => (OwnerResources' <=> root')
  BY DEF IInv, WorkspacesRecoverable, OwnerResources

\* The steps of the abstract owner, spelled out over the mapped values.
LEMMA OwnerSteps ==
  ASSUME IInv, IInv',
         \/ /\ OwnerProcess = "down" /\ ~OwnerFiles /\ OwnerProcess' = "permitted"
            /\ ~OwnerFiles' /\ root' = root
         \/ /\ OwnerProcess = "down" /\ OwnerFiles /\ OwnerProcess' = "recovery"
            /\ OwnerFiles' /\ root' = root
         \/ /\ OwnerProcess = "recovery" /\ ~OwnerFiles /\ OwnerProcess' = "permitted"
            /\ ~OwnerFiles' /\ root' = root
         \/ /\ OwnerProcess = "permitted" /\ OwnerProcess' \in {"preparing", "down"}
            /\ ~OwnerFiles /\ OwnerFiles' /\ root' = root
         \/ /\ OwnerProcess \in {"recovery", "preparing", "handle"}
            /\ OwnerProcess' \in {OwnerProcess, "down"}
            /\ \/ OwnerProcess = "preparing" /\ OwnerFiles /\ OwnerFiles' /\ root'
               \/ ~root' /\ (OwnerFiles' <=> OwnerFiles)
               \/ ~root /\ ~root'
               \/ root' = root /\ (OwnerFiles' <=> OwnerFiles)
         \/ /\ OwnerProcess = "preparing" /\ OwnerProcess' = "handle"
            /\ OwnerFiles /\ OwnerFiles' /\ root /\ root' = root
         \/ /\ OwnerProcess \in {"preparing", "handle"} /\ OwnerProcess' = "released"
            /\ ~OwnerFiles /\ ~OwnerFiles' /\ root' = root
         \/ /\ OwnerProcess # "down" /\ OwnerProcess' = "down"
            /\ (OwnerFiles' <=> OwnerFiles) /\ root' = root
  PROVE  Owner!OwnerNext
<1>1. (OwnerResources <=> root) /\ (OwnerResources' <=> root')
  BY ResourcesAreTheRoot
<1>2. OwnerFiles \in BOOLEAN /\ OwnerResources \in BOOLEAN
      /\ OwnerFiles' \in BOOLEAN /\ OwnerResources' \in BOOLEAN
  BY DEF OwnerFiles, OwnerResources
<1> HIDE DEF OwnerFiles, OwnerResources, OwnerProcess
<1>. QED
  BY <1>1, <1>2
     DEF Owner!OwnerNext, Owner!Permit, Owner!Recover, Owner!Recovered, Owner!Begin,
         Owner!Work, Owner!Working, Owner!Create, Owner!Remove, Owner!ChangeBarrier,
         Owner!HandOut, Owner!Confirm, Owner!End, Owner!disk

\* What happens to templates and to Git touches no file of an owner.
LEMMA OutsideSimulates ==
  ASSUME IInv, IInv',
         \/ TemplateChanges \/ GitExecutableChanges
  PROVE  Owner!OwnerNext \/ OwnerStays
<1> USE DEF IInv, OwnerTypeOK, PermittedMeansClean, WorkspacesRecoverable, Roles,
      MaterializeInv, RemovalInv, PreparePhases, RemovalPhases, CleanupPhases, Phases,
      FileStates, ReceiptStates, OwnerFiles, OwnerProcess, mapped, OwnerStays, Goto,
      memory, world, disk
<1>1. CASE TemplateChanges
  <2>1. UNCHANGED <<manifest, activation, receipt, root, pc, role>>
    BY <1>1 DEF TemplateChanges
  <2>2. OwnerResources' = OwnerResources
    BY <2>1, ResourcesAreTheRoot DEF OwnerResources
  <2>. QED BY <2>1, <2>2
<1>2. CASE GitExecutableChanges
  <2>1. UNCHANGED <<manifest, activation, receipt, root, pc, role>>
    BY <1>2 DEF GitExecutableChanges
  <2>2. OwnerResources' = OwnerResources
    BY <2>1, ResourcesAreTheRoot DEF OwnerResources
  <2>. QED BY <2>1, <2>2
<1>. QED BY <1>1, <1>2

\* A reconciliation finds an owner or none.
LEMMA ReconcileSimulates ==
  ASSUME IInv, IInv',
         \/ FindNoOwner \/ FindOwner \/ CheckFiles \/ OwnerFilesChanged
  PROVE  Owner!OwnerNext \/ OwnerStays
<1> USE DEF IInv, OwnerTypeOK, PermittedMeansClean, WorkspacesRecoverable, Roles,
      MaterializeInv, RemovalInv, PreparePhases, RemovalPhases, CleanupPhases, Phases,
      FileStates, ReceiptStates, OwnerFiles, OwnerProcess, mapped, OwnerStays, Goto,
      memory, world, disk
<1>1. CASE FindNoOwner
  BY <1>1, OwnerSteps, ResourcesAreTheRoot DEF FindNoOwner, Unreadable
<1>2. CASE FindOwner
  BY <1>2, OwnerSteps, ResourcesAreTheRoot DEF FindOwner, Unreadable
<1>3. CASE CheckFiles
  BY <1>3, OwnerSteps, ResourcesAreTheRoot DEF CheckFiles, FilesAsKnown
<1>4. CASE OwnerFilesChanged
  BY <1>4, OwnerSteps, ResourcesAreTheRoot DEF OwnerFilesChanged, FilesAsKnown
<1>. QED BY <1>1, <1>2, <1>3, <1>4

\* The root goes while the files stand, and the files when nothing is behind them.
LEMMA RemoveSimulates ==
  ASSUME IInv, IInv',
         \/ RemoveRoot \/ FailRemoveRoot \/ RemoveActivation
         \/ FailRemoveActivation \/ RemoveReceipt \/ RemoveManifest
         \/ FailRemoveBarrier
  PROVE  Owner!OwnerNext \/ OwnerStays
<1> USE DEF IInv, OwnerTypeOK, PermittedMeansClean, WorkspacesRecoverable, Roles,
      MaterializeInv, RemovalInv, PreparePhases, RemovalPhases, CleanupPhases, Phases,
      FileStates, ReceiptStates, OwnerFiles, OwnerProcess, mapped, OwnerStays, Goto,
      memory, world, disk
<1>1. CASE RemoveRoot
  BY <1>1, OwnerSteps, ResourcesAreTheRoot DEF RemoveRoot, FilesAsKnown
<1>2. CASE FailRemoveRoot
  BY <1>2, OwnerSteps, ResourcesAreTheRoot DEF FailRemoveRoot, FilesAsKnown
<1>3. CASE RemoveActivation
  BY <1>3, OwnerSteps, ResourcesAreTheRoot DEF RemoveActivation, FilesAsKnown
<1>4. CASE FailRemoveActivation
  BY <1>4, OwnerSteps, ResourcesAreTheRoot DEF FailRemoveActivation, FilesAsKnown
<1>5. CASE RemoveReceipt
  BY <1>5, OwnerSteps, ResourcesAreTheRoot DEF RemoveReceipt
<1>6. CASE RemoveManifest
  BY <1>6, OwnerSteps, ResourcesAreTheRoot DEF RemoveManifest
<1>7. CASE FailRemoveBarrier
  BY <1>7, OwnerSteps, ResourcesAreTheRoot DEF FailRemoveBarrier
<1>. QED BY <1>1, <1>2, <1>3, <1>4, <1>5, <1>6, <1>7

\* A cleanup is confirmed over nothing, or leaves its receipt.
LEMMA OutcomeSimulates ==
  ASSUME IInv, IInv',
         \/ CleanupConfirmed \/ PersistIncomplete \/ FailPersistIncomplete
  PROVE  Owner!OwnerNext \/ OwnerStays
<1> USE DEF IInv, OwnerTypeOK, PermittedMeansClean, WorkspacesRecoverable, Roles,
      MaterializeInv, RemovalInv, PreparePhases, RemovalPhases, CleanupPhases, Phases,
      FileStates, ReceiptStates, OwnerFiles, OwnerProcess, mapped, OwnerStays, Goto,
      memory, world, disk
<1>1. CASE CleanupConfirmed
  BY <1>1, OwnerSteps, ResourcesAreTheRoot DEF CleanupConfirmed, ProcessEnds
<1>2. CASE PersistIncomplete
  BY <1>2, OwnerSteps, ResourcesAreTheRoot DEF PersistIncomplete, AfterReceipt, ProcessEnds
<1>3. CASE FailPersistIncomplete
  BY <1>3, OwnerSteps, ResourcesAreTheRoot DEF FailPersistIncomplete, AfterReceipt, ProcessEnds
<1>. QED BY <1>1, <1>2, <1>3

\* The manifest comes first, the root and its copies after it.
LEMMA PrepareSimulates ==
  ASSUME IInv, IInv',
         \/ BeginManifest \/ FailBeginManifest \/ MakeRoot \/ FailMakeRoot
         \/ Activate \/ FailActivate \/ CopyWorkspace \/ AcceptWorkspace
         \/ MaterializeThrows
  PROVE  Owner!OwnerNext \/ OwnerStays
<1> USE DEF IInv, OwnerTypeOK, PermittedMeansClean, WorkspacesRecoverable, Roles,
      MaterializeInv, RemovalInv, PreparePhases, RemovalPhases, CleanupPhases, Phases,
      FileStates, ReceiptStates, OwnerFiles, OwnerProcess, mapped, OwnerStays, Goto,
      memory, world, disk
<1>1. CASE BeginManifest
  BY <1>1, OwnerSteps, ResourcesAreTheRoot DEF BeginManifest
<1>2. CASE FailBeginManifest
  BY <1>2, OwnerSteps, ResourcesAreTheRoot DEF FailBeginManifest, ProcessEnds
<1>3. CASE MakeRoot
  BY <1>3, OwnerSteps, ResourcesAreTheRoot DEF MakeRoot
<1>4. CASE FailMakeRoot
  BY <1>4, OwnerSteps, ResourcesAreTheRoot DEF FailMakeRoot, ProcessEnds
<1>5. CASE Activate
  BY <1>5, OwnerSteps, ResourcesAreTheRoot DEF Activate
<1>6. CASE FailActivate
  BY <1>6, OwnerSteps, ResourcesAreTheRoot DEF FailActivate, ProcessEnds
<1>7. CASE CopyWorkspace
  BY <1>7, OwnerSteps, ResourcesAreTheRoot DEF CopyWorkspace
<1>8. CASE AcceptWorkspace
  BY <1>8, OwnerSteps, ResourcesAreTheRoot DEF AcceptWorkspace, NextCell
<1>9. CASE MaterializeThrows
  BY <1>9, OwnerSteps, ResourcesAreTheRoot DEF MaterializeThrows
<1>. QED BY <1>1, <1>2, <1>3, <1>4, <1>5, <1>6, <1>7, <1>8, <1>9

\* Closing cells leaves the root and its files; an end leaves everything.
LEMMA UseSimulates ==
  ASSUME IInv, IInv', NEW c \in Cells,
         \/ CloseCell(c) \/ FailCloseCell(c) \/ Dispose \/ Exit \/ Crash
  PROVE  Owner!OwnerNext \/ OwnerStays
<1> USE DEF IInv, OwnerTypeOK, PermittedMeansClean, WorkspacesRecoverable, Roles,
      MaterializeInv, RemovalInv, PreparePhases, RemovalPhases, CleanupPhases, Phases,
      FileStates, ReceiptStates, OwnerFiles, OwnerProcess, mapped, OwnerStays, Goto,
      memory, world, disk
<1>1. CASE CloseCell(c)
  BY <1>1, OwnerSteps, ResourcesAreTheRoot DEF CloseCell, ReturnCell
<1>2. CASE FailCloseCell(c)
  BY <1>2, OwnerSteps, ResourcesAreTheRoot DEF FailCloseCell, ReturnCell
<1>3. CASE Dispose
  BY <1>3, OwnerSteps, ResourcesAreTheRoot DEF Dispose
<1>4. CASE Exit
  BY <1>4, OwnerSteps, ResourcesAreTheRoot DEF Exit, ProcessEnds
<1>5. CASE Crash
  BY <1>5, OwnerSteps, ResourcesAreTheRoot DEF Crash, ProcessEnds
<1>. QED BY <1>1, <1>2, <1>3, <1>4, <1>5

\* An owner of workspaces keeps the promises of DurableOwner, for any number of cells:
\* every step of materialisation, use, cleanup and reconciliation is one of the abstract
\* owner's.
THEOREM WorkspaceOwnerImplementsDurableOwner == Spec => ImplementsDurableOwner
<1>1. Init => Owner!OwnerInit
  BY DEF Init, Owner!OwnerInit, OwnerFiles, OwnerResources, OwnerProcess
<1>2. IInv /\ IInv' /\ [Next]_vars => [Owner!OwnerNext]_mapped
  <2> SUFFICES ASSUME IInv, IInv', [Next]_vars
               PROVE  Owner!OwnerNext \/ OwnerStays
    BY DEF OwnerStays
  <2>1. CASE UNCHANGED vars \/ RefuseReconciliation
    BY <2>1 DEF RefuseReconciliation, vars, OwnerStays, mapped, OwnerFiles,
                OwnerResources, OwnerProcess
  <2>2. CASE RecoveryStep
    BY <2>2, ReconcileSimulates, RemoveSimulates, OutcomeSimulates DEF RecoveryStep
  <2>3. \E c \in Cells : TRUE
    BY WorkspaceOwnerAssumption DEF Cells
  <2>4. CASE RecoveryFault
    BY <2>3, <2>4, RemoveSimulates, OutcomeSimulates, UseSimulates DEF RecoveryFault
  <2>5. CASE OwnerStep
    BY <2>3, <2>5, PrepareSimulates, UseSimulates DEF OwnerStep
  <2>6. CASE TemplateChanges \/ GitExecutableChanges
    BY <2>6, OutsideSimulates
  <2>. QED BY <2>1, <2>2, <2>4, <2>5, <2>6 DEF Next
<1>. QED BY <1>1, <1>2, WorkspaceInvariant, PTL
         DEF Spec, ImplementsDurableOwner, Owner!OwnerSpec, Owner!ownerVars, mapped

\* What the abstract owner promises of every state follows from its steps alone, and so
\* holds here: nothing outlives its barrier, no permission or confirmation precedes its end.
THEOREM WorkspaceBarrierGuards == Spec => []Owner!BarrierGuards
<1>1. Owner!OwnerInit => Owner!BarrierGuards
  BY DEF Owner!OwnerInit, Owner!BarrierGuards, Owner!Users
<1>2. Owner!BarrierGuards /\ [Owner!OwnerNext]_mapped => Owner!BarrierGuards'
  <2> SUFFICES ASSUME Owner!BarrierGuards, [Owner!OwnerNext]_mapped
               PROVE  Owner!BarrierGuards'
    OBVIOUS
  <2>1. OwnerFiles' \in BOOLEAN /\ OwnerResources' \in BOOLEAN
    BY DEF OwnerFiles, OwnerResources
  <2> HIDE DEF OwnerFiles, OwnerResources, OwnerProcess
  <2>2. CASE mapped' = mapped
    BY <2>2 DEF mapped, Owner!BarrierGuards
  <2>3. CASE Owner!OwnerNext
    BY <2>1, <2>3
       DEF Owner!BarrierGuards, Owner!Users, Owner!OwnerNext, Owner!Permit, Owner!Recover,
           Owner!Recovered, Owner!Begin, Owner!Work, Owner!Working, Owner!Create,
           Owner!Remove, Owner!ChangeBarrier, Owner!HandOut, Owner!Confirm, Owner!End,
           Owner!disk
  <2>. QED BY <2>2, <2>3
<1>. QED BY <1>1, <1>2, WorkspaceOwnerImplementsDurableOwner, PTL
         DEF ImplementsDurableOwner, Owner!OwnerSpec, Owner!ownerVars, mapped

\* The lease this owner is to the orchestration.
LeaseState ==
  IF ~OwnerFiles THEN "free"
  ELSE IF OwnerProcess \in {"preparing", "handle"} THEN "held"
  ELSE "blocked"

\* A step of the abstract owner takes its lease from free to held, from held to free, to
\* blocked, or from blocked to free, and never from blocked to held.
LEMMA OwnerStepsKeepLease ==
  ASSUME [Owner!OwnerNext]_mapped
  PROVE  [Owner!Lease!LeaseNext]_([k \in {"owner"} |-> LeaseState])
<1>1. \/ LeaseState' = LeaseState
      \/ LeaseState = "free" /\ LeaseState' = "held"
      \/ LeaseState = "held" /\ LeaseState' = "free"
      \/ LeaseState # "blocked" /\ LeaseState' = "blocked"
      \/ LeaseState = "blocked" /\ LeaseState' = "free"
  <2>1. OwnerFiles \in BOOLEAN /\ OwnerFiles' \in BOOLEAN
    BY DEF OwnerFiles
  <2> HIDE DEF OwnerFiles, OwnerResources, OwnerProcess
  <2>2. CASE mapped' = mapped
    BY <2>2 DEF mapped, LeaseState
  <2>3. CASE Owner!OwnerNext
    BY <2>1, <2>3
       DEF LeaseState, Owner!OwnerNext, Owner!Permit, Owner!Recover, Owner!Recovered,
           Owner!Begin, Owner!Work, Owner!Working, Owner!Create, Owner!Remove,
           Owner!ChangeBarrier, Owner!HandOut, Owner!Confirm, Owner!End, Owner!disk
  <2>. QED BY <2>2, <2>3
<1> DEFINE lease == [k \in {"owner"} |-> LeaseState]
<1>2. lease["owner"] = LeaseState /\ lease' = [lease EXCEPT !["owner"] = LeaseState']
  OBVIOUS
<1> HIDE DEF LeaseState
<1>. QED
  BY <1>1, <1>2 DEF Owner!Lease!LeaseNext, Owner!Lease!Acquire, Owner!Lease!Release,
        Owner!Lease!Block, Owner!Lease!Clear, Owner!Lease!Set, LeaseState

\* So it is the lease the orchestration takes it for: what a process has left behind is
\* never taken over, it is cleared first.
THEOREM WorkspaceOwnerIsALease == Spec => Owner!Lease!LeaseSpec
<1>1. Init => Owner!Lease!LeaseInit
  BY DEF Init, Owner!Lease!LeaseInit, OwnerFiles
<1>2. [Owner!OwnerNext]_mapped => [Owner!Lease!LeaseNext]_([k \in {"owner"} |-> LeaseState])
  BY OwnerStepsKeepLease
<1>. QED BY <1>1, <1>2, WorkspaceOwnerImplementsDurableOwner, PTL
         DEF Spec, ImplementsDurableOwner, Owner!OwnerSpec, Owner!ownerVars, mapped,
             Owner!Lease!LeaseSpec, LeaseState
================================================================================
