------------------------------ MODULE RuntimeOwner ------------------------------
(* The durable owner of the OCI containers and of the directory that one pilot's *)
(* cells use: release-runtime-owner-manifest.mjs (the files that form the        *)
(* barrier), the owner side of release-runtime-oci-resource.mjs (begin, create,  *)
(* verify, close, dispose) and its reconciliation by a later process.  Processes *)
(* die between any two steps, every step may fail, and the engine answers on its *)
(* own time.  Files survive a process as they were; the loss of a whole host     *)
(* before its disk is synced is left out.                                        *)
EXTENDS Naturals

CONSTANTS
  CellCount,     \* cells of the plan's schedule
  LateCreation   \* may the engine carry out a create after its client gave up?

ASSUME RuntimeOwnerAssumption ==
  CellCount \in Nat \ {0} /\ LateCreation \in BOOLEAN

Cells == 1 .. CellCount
\* Every cell has a provisioning container and then a daemon container, each of a
\* name derived from the owner and the cell.
Slots == {"provisioning", "daemon"} \X Cells
NoSlot == <<"none", 0>>

FileStates == {"absent", "torn", "whole"}
PendingStates == {"none", "create_in_flight", "ambiguous", "created_unverified",
                  "owned", "delisted", "closed"}
Phases == {"down", "ready", "released", "cleanup_failed", "live", "receipt",
           "discover",
           "make_root", "write_identity", "fill_root", "create", "in_flight",
           "verify", "provision", "catch_close", "record", "start",
           "close_records", "close_pendings",
           "confirm", "confirm_receipt", "confirm_manifest", "confirm_sync"}

VARIABLES
  manifest,   \* the owner manifest: the first file written, the last removed
  identity,   \* the receipt of the resource root's device and inode
  receipt,    \* the cleanup-incomplete receipt
  root,       \* the resource root: absent, empty or filled
  engine,     \* what the OCI engine holds under each name
  pending,    \* the process's record of each container it asked for
  records,    \* cells with a record in cellRecords
  closed,     \* cells whose record.close() succeeded
  current,    \* the slot preparation is at
  todo,       \* containers the running cleanup has still to visit
  failed,     \* closeAll has collected an error
  role,       \* what the process is: none, recovery, preparing or handle
  pc          \* where the process is

disk == <<manifest, identity, receipt, root>>
memory == <<pending, records, closed, current, todo, failed, role>>
vars == <<manifest, identity, receipt, root, engine, pending, records, closed,
          current, todo, failed, role, pc>>

Forgotten ==
  /\ pending = [s \in Slots |-> "none"]
  /\ records = {} /\ closed = {} /\ current = NoSlot /\ todo = {}
  /\ failed = FALSE /\ role = "none"

Init ==
  /\ manifest = "absent" /\ identity = "absent" /\ receipt = "absent"
  /\ root = "absent" /\ engine = [s \in Slots |-> "absent"]
  /\ Forgotten /\ pc = "down"

(* A process's memory ends with it. *)
ProcessEnds ==
  /\ pending' = [s \in Slots |-> "none"]
  /\ records' = {} /\ closed' = {} /\ current' = NoSlot /\ todo' = {}
  /\ failed' = FALSE /\ role' = "none" /\ pc' = "down"

Goto(next) == pc' = next /\ UNCHANGED memory

Gone(s) == [engine EXCEPT ![s] = IF @ = "present" THEN "absent" ELSE @]

\* An attempt to close a container that fails: it may be gone or not, and be known
\* to be gone or not.
CloseAttemptFails(s) ==
  \/ engine' = engine /\ pending' = pending
  \/ engine' = Gone(s) /\ pending' \in {pending, [pending EXCEPT ![s] = "closed"]}

(* Members of pendingContainers. *)
Listed == {s \in Slots : pending[s] \in {"create_in_flight", "ambiguous",
                                         "created_unverified", "owned"}}

--------------------------------------------------------------------------------
(* Reconciliation, the first thing every process does. *)

\* readActive...V1 and the entry-set check: what no process gets past.
Unreadable ==
  \/ manifest = "torn"
  \/ manifest = "whole" /\ identity = "torn"
  \/ manifest = "absent" /\ ~(identity = "absent" /\ receipt = "absent" /\ root = "absent")

RefuseReconciliation == pc = "down" /\ Unreadable /\ UNCHANGED vars

FindNoOwner ==
  /\ pc = "down" /\ ~Unreadable /\ manifest = "absent"
  /\ Goto("ready") /\ UNCHANGED <<disk, engine>>

FindOwner ==
  /\ pc = "down" /\ ~Unreadable /\ manifest = "whole"
  /\ pc' = "discover" /\ role' = "recovery" /\ todo' = Slots
  /\ UNCHANGED <<disk, engine, pending, records, closed, current, failed>>

\* Daemons before provisioning containers, the last cell first.
Precedes(s, t) ==
  \/ s[1] = "daemon" /\ t[1] = "provisioning"
  \/ s[1] = t[1] /\ s[2] > t[2]
IsNext(s) == s \in todo /\ \A t \in todo \ {s} : Precedes(s, t)

RecoverContainer(s) ==
  /\ pc = "discover" /\ IsNext(s)
  /\ engine' = Gone(s) /\ todo' = todo \ {s}
  /\ UNCHANGED <<disk, pending, records, closed, current, failed, role, pc>>

\* Discovery, inspection or removal fails; the removal may have taken effect.
FailRecoverContainer(s) ==
  /\ pc = "discover" /\ IsNext(s)
  /\ engine' \in {engine, Gone(s)}
  /\ Goto("receipt") /\ UNCHANGED disk

\* An owner without an identity receipt may only have left an empty root.
RemoveRecoveredRoot ==
  /\ pc = "discover" /\ todo = {}
  /\ identity = "whole" \/ root # "filled"
  /\ root' = "absent"
  /\ Goto("confirm") /\ UNCHANGED <<manifest, identity, receipt, engine>>

FailRemoveRecoveredRoot ==
  /\ pc = "discover" /\ todo = {}
  /\ root' \in {root, "absent"}
  /\ Goto("receipt") /\ UNCHANGED <<manifest, identity, receipt, engine>>

--------------------------------------------------------------------------------
(* Cleanup confirmation, by the owner or by a recovery: root identity, receipt,  *)
(* and the manifest last, each step able to fail.                                *)

ConfirmIdentityRemoved ==
  /\ pc = "confirm" /\ root = "absent" /\ manifest = "whole"
  /\ identity' = "absent"
  /\ Goto("confirm_receipt") /\ UNCHANGED <<manifest, receipt, root, engine>>

\* The manifest on disk is not the one this process holds.
RefuseConfirmation ==
  /\ pc = "confirm" /\ manifest # "whole"
  /\ Goto("receipt") /\ UNCHANGED <<disk, engine>>

\* Fault: an earlier attempt's receipt is left behind.
ConfirmReceiptKept ==
  /\ pc = "confirm_receipt" /\ UNCHANGED <<disk, engine>>
  /\ Goto("confirm_manifest")

ConfirmReceiptRemoved ==
  /\ pc = "confirm_receipt" /\ receipt' = "absent"
  /\ Goto("confirm_manifest") /\ UNCHANGED <<manifest, identity, root, engine>>

ConfirmManifestRemoved ==
  /\ pc = "confirm_manifest" /\ manifest' = "absent"
  /\ Goto("confirm_sync") /\ UNCHANGED <<identity, receipt, root, engine>>

ConfirmSynced ==
  /\ pc = "confirm_sync"
  /\ IF role = "recovery"
       THEN /\ pc' = "ready" /\ role' = "none"
            /\ UNCHANGED <<pending, records, closed, current, todo, failed>>
       ELSE Goto("released")
  /\ UNCHANGED <<disk, engine>>

FailConfirmation ==
  /\ pc \in {"confirm", "confirm_receipt", "confirm_manifest", "confirm_sync"}
  /\ Goto("receipt") /\ UNCHANGED <<disk, engine>>

\* A failed cleanup leaves a receipt.  A recovery then rethrows and its process
\* ends; an owner's dispose may be tried again.
AfterReceipt ==
  IF role = "recovery" THEN ProcessEnds ELSE Goto("cleanup_failed")

WriteIncompleteReceipt ==
  /\ pc = "receipt"
  /\ receipt' = IF receipt = "absent" THEN "whole" ELSE receipt
  /\ AfterReceipt /\ UNCHANGED <<manifest, identity, root, engine>>

FailIncompleteReceipt ==
  /\ pc = "receipt" /\ receipt = "absent" /\ receipt' \in {"absent", "torn"}
  /\ AfterReceipt /\ UNCHANGED <<manifest, identity, root, engine>>

--------------------------------------------------------------------------------
(* beginReleaseRuntimeOwnerManifestV1.  A failure leaves the barrier as it is and *)
(* ends the process: closeAll does not exist yet.                                 *)

BeginManifest ==
  /\ pc = "ready" /\ manifest = "absent" /\ manifest' = "whole"
  /\ pc' = "make_root" /\ role' = "preparing"
  /\ UNCHANGED <<identity, receipt, root, engine, pending, records, closed,
                 current, todo, failed>>

FailBeginManifest ==
  /\ pc = "ready" /\ manifest = "absent" /\ manifest' \in {"torn", "whole"}
  /\ ProcessEnds /\ UNCHANGED <<identity, receipt, root, engine>>

\* Fault: the root is filled before its identity is recorded.
MakeRootFilled ==
  /\ pc = "make_root" /\ root' = "filled"
  /\ Goto("write_identity") /\ UNCHANGED <<manifest, identity, receipt, engine>>

MakeRoot ==
  /\ pc = "make_root" /\ root' = "empty"
  /\ Goto("write_identity") /\ UNCHANGED <<manifest, identity, receipt, engine>>

FailMakeRoot ==
  /\ pc = "make_root" /\ root' \in {"absent", "empty"}
  /\ ProcessEnds /\ UNCHANGED <<manifest, identity, receipt, engine>>

WriteIdentity ==
  /\ pc = "write_identity" /\ identity = "absent" /\ identity' = "whole"
  /\ Goto("fill_root") /\ UNCHANGED <<manifest, receipt, root, engine>>

FailWriteIdentity ==
  /\ pc = "write_identity" /\ identity = "absent" /\ identity' \in {"torn", "whole"}
  /\ ProcessEnds /\ UNCHANGED <<manifest, receipt, root, engine>>

--------------------------------------------------------------------------------
(* closeAll *)

BeginCloseAll ==
  /\ pc' = "close_records" /\ failed' = FALSE
  /\ todo' = {<<"daemon", c>> : c \in records \ closed}

CloseRecord(s) ==
  /\ pc = "close_records" /\ IsNext(s)
  /\ pending[s] \in {"owned", "delisted", "closed"}
  /\ engine' = Gone(s)
  /\ pending' = [pending EXCEPT ![s] = "closed"]
  /\ closed' = closed \union {s[2]}
  /\ todo' = todo \ {s}
  /\ UNCHANGED <<disk, records, current, failed, role, pc>>

\* The container is not removed, or the cell's directory is not.
FailCloseRecord(s) ==
  /\ pc = "close_records" /\ IsNext(s) /\ CloseAttemptFails(s)
  /\ failed' = TRUE /\ todo' = todo \ {s}
  /\ UNCHANGED <<disk, records, closed, current, role, pc>>

TurnToPendings ==
  /\ pc = "close_records" /\ todo = {}
  /\ pc' = "close_pendings" /\ todo' = Listed
  /\ UNCHANGED <<disk, engine, pending, records, closed, current, failed, role>>

\* Leaves pendingContainers; its state field stays "owned".
ClosePending(s) ==
  /\ pc = "close_pendings" /\ s \in todo /\ pending[s] = "owned"
  /\ engine' = Gone(s)
  /\ pending' = [pending EXCEPT ![s] = "delisted"]
  /\ todo' = todo \ {s}
  /\ UNCHANGED <<disk, records, closed, current, failed, role, pc>>

\* Fault: a container is taken off the list whether or not it was removed.
FailClosePendingDelisted(s) ==
  /\ pc = "close_pendings" /\ s \in todo
  /\ failed' = TRUE /\ todo' = todo \ {s}
  /\ pending' = [pending EXCEPT ![s] = "delisted"]
  /\ UNCHANGED <<disk, engine, records, closed, current, role, pc>>

\* Its removal fails, or it may not be attempted: the ownership was never verified.
FailClosePending(s) ==
  /\ pc = "close_pendings" /\ s \in todo
  /\ \/ engine' = engine
     \/ pending[s] = "owned" /\ engine' = Gone(s)
  /\ failed' = TRUE /\ todo' = todo \ {s}
  /\ UNCHANGED <<disk, pending, records, closed, current, role, pc>>

ContainersNotAllClosed ==
  /\ pc = "close_pendings" /\ todo = {} /\ failed
  /\ Goto("receipt") /\ UNCHANGED <<disk, engine>>

\* Fault: a container that could not be closed does not stop the cleanup.
RemoveOwnedRootAnyway ==
  /\ pc = "close_pendings" /\ todo = {}
  /\ root' = "absent"
  /\ Goto("confirm") /\ UNCHANGED <<manifest, identity, receipt, engine>>

RemoveOwnedRoot ==
  /\ pc = "close_pendings" /\ todo = {} /\ ~failed
  /\ root' = "absent"
  /\ Goto("confirm") /\ UNCHANGED <<manifest, identity, receipt, engine>>

FailRemoveOwnedRoot ==
  /\ pc = "close_pendings" /\ todo = {} /\ ~failed
  /\ root' \in {root, "absent"}
  /\ Goto("receipt") /\ UNCHANGED <<manifest, identity, receipt, engine>>

--------------------------------------------------------------------------------
(* prepareReleaseRuntimeOciResourcesV1, after the manifest. *)

FillRoot ==
  /\ pc = "fill_root" /\ root' = "filled"
  /\ current' = <<"provisioning", 1>> /\ pc' = "create"
  /\ UNCHANGED <<manifest, identity, receipt, engine, pending, records, closed,
                 todo, failed, role>>

RequestCreate ==
  /\ pc = "create" /\ engine[current] = "absent"
  /\ engine' = [engine EXCEPT ![current] = "coming"]
  /\ pending' = [pending EXCEPT ![current] = "create_in_flight"]
  /\ pc' = "in_flight"
  /\ UNCHANGED <<disk, records, closed, current, todo, failed, role>>

\* The engine, on its own: it creates the container or refuses to.
EngineSettles(s) ==
  /\ engine[s] = "coming"
  /\ \E outcome \in {"present", "absent"} : engine' = [engine EXCEPT ![s] = outcome]
  /\ UNCHANGED <<disk, memory, pc>>

CreateReturns ==
  /\ pc = "in_flight" /\ engine[current] = "present"
  /\ pending' = [pending EXCEPT ![current] = "created_unverified"]
  /\ pc' = "verify"
  /\ UNCHANGED <<disk, engine, records, closed, current, todo, failed, role>>

\* The client fails or times out.  What an inspection says is absent is forgotten;
\* anything else, an inconclusive inspection included, is ambiguous.
FailCreate ==
  /\ pc = "in_flight" /\ (LateCreation \/ engine[current] # "coming")
  /\ \E state \in {"ambiguous"} \union (IF engine[current] = "present" THEN {} ELSE {"none"}) :
        pending' = [pending EXCEPT ![current] = state]
  /\ BeginCloseAll
  /\ UNCHANGED <<disk, engine, records, closed, current, role>>

VerifyOwnership ==
  /\ pc = "verify"
  /\ pending' = [pending EXCEPT ![current] = "owned"]
  /\ pc' = IF current[1] = "provisioning" THEN "provision" ELSE "record"
  /\ UNCHANGED <<disk, engine, records, closed, current, todo, failed, role>>

\* The provisioning container runs and is closed, then the daemon is created.
Provision ==
  /\ pc = "provision"
  /\ engine' = Gone(current)
  /\ pending' = [pending EXCEPT ![current] = "closed"]
  /\ current' = <<"daemon", current[2]>> /\ pc' = "create"
  /\ UNCHANGED <<disk, records, closed, todo, failed, role>>

\* It fails to run, or to close: it is closed (again) before the error goes on.
FailProvision ==
  /\ pc = "provision"
  /\ engine' \in {engine, Gone(current)}
  /\ Goto("catch_close") /\ UNCHANGED disk

CloseInCatch ==
  /\ pc = "catch_close"
  /\ CloseAttemptFails(current)
  /\ BeginCloseAll
  /\ UNCHANGED <<disk, records, closed, current, role>>

RecordDaemon ==
  /\ pc = "record" /\ records' = records \union {current[2]}
  /\ pc' = "start"
  /\ UNCHANGED <<disk, engine, pending, closed, current, todo, failed, role>>

\* Started, ready and bound to a client; after the last cell the handle is returned.
StartDaemon ==
  /\ pc = "start"
  /\ IF current[2] = CellCount
       THEN pc' = "live" /\ role' = "handle" /\ current' = NoSlot
       ELSE pc' = "create" /\ role' = role /\ current' = <<"provisioning", current[2] + 1>>
  /\ UNCHANGED <<disk, engine, pending, records, closed, todo, failed>>

\* An error or a cancellation checkpoint anywhere in preparation.
PrepareThrows ==
  /\ pc \in {"fill_root", "create", "verify", "record", "start"}
  /\ root' \in IF pc = "fill_root" THEN {"empty", "filled"} ELSE {root}
  /\ BeginCloseAll
  /\ UNCHANGED <<manifest, identity, receipt, engine, pending, records, closed,
                 current, role>>

--------------------------------------------------------------------------------
(* The handle in use: cells are closed, one by one as they end or what is left of *)
(* them last cell first, then the owner is disposed of.                           *)

CellToClose(c) == pc = "live" /\ c \in Cells \ closed

CloseCell(c) ==
  /\ CellToClose(c)
  /\ engine' = Gone(<<"daemon", c>>)
  /\ pending' = [pending EXCEPT ![<<"daemon", c>>] = "closed"]
  /\ closed' = closed \union {c}
  /\ UNCHANGED <<disk, records, current, todo, failed, role, pc>>

FailCloseCell(c) ==
  /\ CellToClose(c) /\ CloseAttemptFails(<<"daemon", c>>)
  /\ UNCHANGED <<disk, records, closed, current, todo, failed, role, pc>>

\* A dispose that failed may be called again.
Dispose ==
  /\ pc \in {"live", "cleanup_failed"} /\ role = "handle"
  /\ BeginCloseAll
  /\ UNCHANGED <<disk, engine, pending, records, closed, current, role>>

Exit ==
  /\ pc \in {"ready", "released", "cleanup_failed"}
  /\ ProcessEnds /\ UNCHANGED <<disk, engine>>

Crash ==
  /\ pc \notin {"down", "ready", "released", "cleanup_failed"}
  /\ LateCreation \/ \A s \in Slots : engine[s] # "coming"
  /\ ProcessEnds /\ UNCHANGED <<disk, engine>>

--------------------------------------------------------------------------------
RecoveryStep ==
  \/ FindNoOwner \/ FindOwner \/ RemoveRecoveredRoot
  \/ \E s \in Slots : RecoverContainer(s)
  \/ ConfirmIdentityRemoved \/ RefuseConfirmation \/ ConfirmReceiptRemoved
  \/ ConfirmManifestRemoved \/ ConfirmSynced \/ WriteIncompleteReceipt

RecoveryFault ==
  \/ \E s \in Slots : FailRecoverContainer(s)
  \/ FailRemoveRecoveredRoot \/ FailConfirmation \/ FailIncompleteReceipt \/ Crash

OwnerStep ==
  \/ BeginManifest \/ FailBeginManifest \/ MakeRoot \/ FailMakeRoot
  \/ WriteIdentity \/ FailWriteIdentity \/ FillRoot
  \/ RequestCreate \/ CreateReturns \/ FailCreate \/ VerifyOwnership
  \/ Provision \/ FailProvision \/ CloseInCatch \/ RecordDaemon \/ StartDaemon
  \/ PrepareThrows \/ Dispose \/ Exit
  \/ \E c \in Cells : CloseCell(c) \/ FailCloseCell(c)

CloseAllStep ==
  \/ TurnToPendings \/ ContainersNotAllClosed \/ RemoveOwnedRoot \/ FailRemoveOwnedRoot
  \/ \E s \in Slots :
       \/ CloseRecord(s) \/ FailCloseRecord(s)
       \/ ClosePending(s) \/ FailClosePending(s)

Next ==
  \/ RecoveryStep \/ RecoveryFault \/ RefuseReconciliation \/ OwnerStep \/ CloseAllStep
  \/ \E s \in Slots : EngineSettles(s)

\* An operator runs recovery after an unclean exit, and a process that recovers or
\* confirms runs on; nothing forces an owner to prepare or to close, nor the engine
\* to answer.
Spec == Init /\ [][Next]_vars /\ WF_vars(RecoveryStep)

--------------------------------------------------------------------------------
(* Properties *)

\* Every variable keeps its kind of value.
OwnerTypeOK ==
  /\ manifest \in FileStates /\ identity \in FileStates /\ receipt \in FileStates
  /\ root \in {"absent", "empty", "filled"}
  /\ engine \in [Slots -> {"absent", "coming", "present"}]
  /\ pending \in [Slots -> PendingStates]
  /\ records \subseteq Cells /\ closed \subseteq records
  /\ current \in Slots \union {NoSlot}
  /\ todo \subseteq Slots /\ failed \in BOOLEAN
  /\ role \in {"none", "recovery", "preparing", "handle"}
  /\ pc \in Phases

NoContainers == \A s \in Slots : engine[s] = "absent"

\* reconcile...'s new_pilot_permitted and dispose's success both mean what they
\* say: no file of an owner, no root and no container is left.
PermittedMeansClean ==
  pc \in {"ready", "released"} =>
    /\ manifest = "absent" /\ identity = "absent" /\ receipt = "absent"
    /\ root = "absent" /\ NoContainers

\* The manifest is the first thing an owner makes and the last it removes: without
\* a manifest a later process can read, there is no root, identity or container.
BarrierIsLast ==
  manifest # "whole" => identity = "absent" /\ root = "absent" /\ NoContainers

\* A container's bind mounts lie in the resource root: the root is never removed,
\* by the owner or by a recovery, under a container that exists.
ContainersHaveRoot ==
  \A s \in Slots : engine[s] # "absent" => root = "filled"

\* While an owner's process lives it has every container of its own in
\* pendingContainers, so that closeAll, the only cleanup it has, reaches it.
NoForgottenContainer ==
  role \in {"preparing", "handle"} => \A s \in Slots : engine[s] # "absent" => s \in Listed

\* Once nothing fails any more, the recovery of whatever an unclean exit has left
\* ends in permission for a new pilot, unless a torn or an orphaned file is left.
RecoverySucceeds ==
  <>[][~RecoveryFault]_vars =>
    (pc = "down" ~> (pc = "ready" \/ (pc = "down" /\ Unreadable)))

\* An owner of this module as the orchestration sees it.
OwnerFiles == manifest # "absent" \/ identity # "absent" \/ receipt # "absent"
OwnerResources == root # "absent" \/ \E s \in Slots : engine[s] # "absent"
OwnerProcess ==
  IF pc \in {"down", "released"} THEN pc ELSE IF pc = "ready" THEN "permitted" ELSE role

Owner == INSTANCE DurableOwner WITH
  files <- OwnerFiles, resources <- OwnerResources, user <- OwnerProcess

\* The containers and their root keep the promises of DurableOwner: they come up behind
\* files that only a process with permission writes, and whoever removes those files,
\* or is told that they are gone, has nothing left behind them.
ImplementsDurableOwner == Owner!OwnerSpec

\* The same of the directory alone, which the engine has no part in: it holds even where
\* the engine carries out a create after its client gave up.
RootOwner == INSTANCE DurableOwner WITH
  files <- OwnerFiles, resources <- root # "absent", user <- OwnerProcess

RootImplementsDurableOwner == RootOwner!OwnerSpec

\* The test "manifest is the last cleanup barrier" (and readActive...V1, which
\* refuses metadata without a manifest): a receipt is never left without one.
ReceiptHasManifest == receipt # "absent" => manifest = "whole"

\* README: "Ambiguous ownership ... retains the resources ... and blocks the next
\* pilot": a container of an owner exists only behind the owner's manifest.
ContainersHaveManifest ==
  \A s \in Slots : engine[s] = "present" => manifest = "whole"
================================================================================
