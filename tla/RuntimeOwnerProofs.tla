-------------------------- MODULE RuntimeOwnerProofs --------------------------
(* Proofs about RuntimeOwner, for any number of cells.  What is said of the      *)
(* containers assumes that the engine leaves no create undecided once its client *)
(* has returned (~LateCreation); what is said of the files and the directory,    *)
(* the refinement of the lease included, holds whatever the engine does.         *)
EXTENDS RuntimeOwner, TLAPS

OwnerPhases == {"live", "make_root", "write_identity", "fill_root", "create",
                "in_flight", "verify", "provision", "catch_close", "record",
                "start", "close_records", "close_pendings", "cleanup_failed",
                "released"}
SlotPhases == {"create", "in_flight", "verify", "provision", "catch_close",
               "record", "start"}
ConfirmPhases == {"confirm", "confirm_receipt", "confirm_manifest", "confirm_sync"}

\* What the process is, at each place it can be.
Roles ==
  /\ pc \in {"down", "ready"} => role = "none"
  /\ pc = "discover" => role = "recovery"
  /\ pc \in OwnerPhases => role \in {"preparing", "handle"}
  /\ pc \in SlotPhases \union {"make_root", "write_identity", "fill_root"} =>
       role = "preparing"
  /\ pc \in ConfirmPhases \union {"receipt"} => role # "none"
  /\ role \in {"none", "recovery"} \/ pc \in {"make_root", "write_identity"} =>
       records = {}

\* Only a create whose client still waits is undecided.
OnlyCurrentComing ==
  \A s \in Slots : engine[s] = "coming" => pc = "in_flight" /\ s = current

\* Begin and preparation: what is on disk at each place.
PreparationInv ==
  /\ pc = "make_root" => /\ manifest = "whole" /\ identity = "absent"
                         /\ root = "absent" /\ NoContainers
  /\ pc = "write_identity" => /\ manifest = "whole" /\ identity = "absent"
                              /\ root = "empty" /\ NoContainers
  /\ pc = "fill_root" => manifest = "whole" /\ NoContainers /\ records = {}
  /\ pc \in SlotPhases => /\ current \in Slots
                          /\ manifest = "whole" /\ root = "filled"
  /\ pc \in SlotPhases \ {"start"} => records = 1 .. current[2] - 1
  /\ pc = "start" => records = 1 .. current[2]
  /\ pc = "live" => records = Cells

\* Cleanup, an owner's or a recovery's: what has been removed at each place.
CleanupInv ==
  /\ pc = "discover" =>
       /\ manifest = "whole"
       /\ \A s \in Slots \ todo : engine[s] = "absent"
  /\ pc = "close_records" => \A s \in todo : s[2] \in records
  /\ pc = "close_pendings" /\ ~failed => Listed \subseteq todo
  /\ pc \in ConfirmPhases => root = "absent" /\ NoContainers
  /\ pc \in {"confirm_receipt", "confirm_manifest"} =>
       manifest = "whole" /\ identity = "absent"
  /\ pc \in {"confirm_manifest", "confirm_sync"} => receipt = "absent"
  /\ pc = "confirm_sync" => manifest = "absent" /\ identity = "absent"

\* The inductive invariant.  The five properties do not carry themselves over a
\* step: how much is gone depends on where a cleanup is, and on which containers
\* the process still lists.
IInv ==
  /\ OwnerTypeOK
  /\ PermittedMeansClean /\ BarrierIsLast /\ ContainersHaveRoot /\ NoForgottenContainer
  /\ Roles /\ OnlyCurrentComing /\ PreparationInv /\ CleanupInv

--------------------------------------------------------------------------------
\* closeAll starts with containers that preparation has recorded.
LEMMA CloseAllBegins ==
  ASSUME OwnerTypeOK, BeginCloseAll
  PROVE  /\ todo' \subseteq Slots /\ \A s \in todo' : s[2] \in records
         /\ failed' \in BOOLEAN /\ pc' = "close_records"
<1>1. todo' = {<<"daemon", c>> : c \in records \ closed} /\ records \subseteq Cells
  BY DEF OwnerTypeOK, BeginCloseAll
<1>2. \A s \in todo' : s \in Slots /\ s[2] \in records
  <2>1. TAKE s \in todo'
  <2>2. PICK c \in records : s = <<"daemon", c>>
    BY <1>1
  <2>. QED BY <1>1, <2>2 DEF Slots
<1>. QED BY <1>2 DEF BeginCloseAll

\* A failed attempt to close a container changes no other, and strikes this one off
\* only when it is gone.
LEMMA FailedCloseKeepsList ==
  ASSUME OwnerTypeOK, NEW d \in Slots, engine[d] # "coming", CloseAttemptFails(d)
  PROVE  /\ engine' \in [Slots -> {"absent", "coming", "present"}]
         /\ pending' \in [Slots -> PendingStates]
         /\ \A t \in Slots :
              \/ engine'[t] = "absent"
              \/ engine'[t] = engine[t] /\ pending'[t] = pending[t]
<1>1. CASE engine' = engine /\ pending' = pending
  BY <1>1 DEF OwnerTypeOK
<1>2. CASE engine' = Gone(d) /\ pending' \in {pending, [pending EXCEPT ![d] = "closed"]}
  <2>1. engine' = [engine EXCEPT ![d] = "absent"]
    BY <1>2 DEF OwnerTypeOK, Gone
  <2>2. /\ pending' \in [Slots -> PendingStates]
        /\ \A t \in Slots \ {d} : pending'[t] = pending[t]
    BY <1>2 DEF OwnerTypeOK, PendingStates
  <2>3. /\ engine' \in [Slots -> {"absent", "coming", "present"}]
        /\ engine'[d] = "absent"
        /\ \A t \in Slots \ {d} : engine'[t] = engine[t]
    BY <2>1 DEF OwnerTypeOK
  <2>4. ASSUME NEW t \in Slots
        PROVE  \/ engine'[t] = "absent"
               \/ engine'[t] = engine[t] /\ pending'[t] = pending[t]
    <3>1. CASE t = d
      BY <3>1, <2>3
    <3>2. CASE t # d
      BY <3>2, <2>2, <2>3
    <3>. QED BY <3>1, <3>2
  <2>. QED BY <2>2, <2>3, <2>4
<1>. QED BY <1>1, <1>2 DEF CloseAttemptFails

\* A reconciliation keeps the invariant, whatever fails in it.
LEMMA ReconcileKeeps ==
  ASSUME IInv, ~LateCreation, NEW s \in Slots,
         \/ FindNoOwner \/ FindOwner \/ RecoverContainer(s)
         \/ FailRecoverContainer(s) \/ RemoveRecoveredRoot
         \/ FailRemoveRecoveredRoot
  PROVE  IInv'
<1> USE RuntimeOwnerAssumption DEF OwnerTypeOK, PermittedMeansClean, BarrierIsLast,
      ContainersHaveRoot, NoForgottenContainer, Roles, OnlyCurrentComing,
      PreparationInv, CleanupInv, NoContainers, Listed, Slots, Cells, NoSlot,
      FileStates, PendingStates, Phases, OwnerPhases, SlotPhases, ConfirmPhases,
      Goto, memory, disk
<1>1. CASE FindNoOwner
  BY <1>1 DEF IInv, FindNoOwner, Unreadable
<1>2. CASE FindOwner
  BY <1>2 DEF IInv, FindOwner, Unreadable
<1>3. CASE RecoverContainer(s)
  BY <1>3 DEF IInv, RecoverContainer, IsNext, Gone
<1>4. CASE FailRecoverContainer(s)
  BY <1>4 DEF IInv, FailRecoverContainer, IsNext, Gone
<1>5. CASE RemoveRecoveredRoot
  BY <1>5 DEF IInv, RemoveRecoveredRoot
<1>6. CASE FailRemoveRecoveredRoot
  BY <1>6 DEF IInv, FailRemoveRecoveredRoot
<1>. QED BY <1>1, <1>2, <1>3, <1>4, <1>5, <1>6

\* So does the confirmation of a cleanup, and the receipt of one that failed.
LEMMA ConfirmKeeps ==
  ASSUME IInv, ~LateCreation,
         \/ ConfirmIdentityRemoved \/ RefuseConfirmation \/ ConfirmReceiptRemoved
         \/ ConfirmManifestRemoved \/ ConfirmSynced \/ FailConfirmation
         \/ WriteIncompleteReceipt \/ FailIncompleteReceipt
  PROVE  IInv'
<1> USE RuntimeOwnerAssumption DEF OwnerTypeOK, PermittedMeansClean, BarrierIsLast,
      ContainersHaveRoot, NoForgottenContainer, Roles, OnlyCurrentComing,
      PreparationInv, CleanupInv, NoContainers, Listed, Slots, Cells, NoSlot,
      FileStates, PendingStates, Phases, OwnerPhases, SlotPhases, ConfirmPhases,
      Goto, memory, disk
<1>1. CASE ConfirmIdentityRemoved
  BY <1>1 DEF IInv, ConfirmIdentityRemoved
<1>2. CASE RefuseConfirmation
  BY <1>2 DEF IInv, RefuseConfirmation
<1>3. CASE ConfirmReceiptRemoved
  BY <1>3 DEF IInv, ConfirmReceiptRemoved
<1>4. CASE ConfirmManifestRemoved
  BY <1>4 DEF IInv, ConfirmManifestRemoved
<1>5. CASE ConfirmSynced
  <2>1. /\ pc = "confirm_sync" /\ pc' \in {"ready", "released"}
        /\ UNCHANGED <<disk, engine, pending, records, closed, current, todo, failed>>
        /\ role' = IF role = "recovery" THEN "none" ELSE role
    BY <1>5 DEF ConfirmSynced
  <2>2. pc' = "ready" <=> role = "recovery"
    BY <1>5 DEF ConfirmSynced
  <2>3. OwnerTypeOK' /\ PermittedMeansClean' /\ BarrierIsLast' /\ ContainersHaveRoot'
    BY <2>1, <2>2 DEF IInv
  <2>4. /\ NoForgottenContainer' /\ Roles' /\ OnlyCurrentComing' /\ PreparationInv'
        /\ CleanupInv'
    BY <2>1, <2>2 DEF IInv
  <2>. QED BY <2>3, <2>4 DEF IInv
<1>6. CASE FailConfirmation
  BY <1>6 DEF IInv, FailConfirmation
<1>7. CASE WriteIncompleteReceipt
  <2>1. OwnerTypeOK'
    <3>1. CASE role = "recovery"
      <4>1. /\ ProcessEnds /\ receipt' \in FileStates
            /\ UNCHANGED <<manifest, identity, root, engine>>
        BY <1>7, <3>1 DEF IInv, WriteIncompleteReceipt, AfterReceipt
      <4>2. pending' \in [Slots -> PendingStates]
        BY <4>1 DEF ProcessEnds
      <4>. QED BY <4>1, <4>2 DEF IInv, ProcessEnds
    <3>2. CASE role # "recovery"
      <4>1. /\ pc' = "cleanup_failed" /\ receipt' \in FileStates
            /\ UNCHANGED <<memory, manifest, identity, root, engine>>
        BY <1>7, <3>2 DEF IInv, WriteIncompleteReceipt, AfterReceipt
      <4>. QED BY <4>1 DEF IInv
    <3>. QED BY <3>1, <3>2
  <2>2. /\ PermittedMeansClean' /\ BarrierIsLast'
        /\ ContainersHaveRoot' /\ NoForgottenContainer'
    BY <1>7 DEF IInv, WriteIncompleteReceipt, AfterReceipt, ProcessEnds
  <2>3. Roles' /\ OnlyCurrentComing' /\ PreparationInv' /\ CleanupInv'
    BY <1>7 DEF IInv, WriteIncompleteReceipt, AfterReceipt, ProcessEnds
  <2>. QED BY <2>1, <2>2, <2>3 DEF IInv
<1>8. CASE FailIncompleteReceipt
  <2>1. OwnerTypeOK'
    <3>1. CASE role = "recovery"
      <4>1. /\ ProcessEnds /\ receipt' \in FileStates
            /\ UNCHANGED <<manifest, identity, root, engine>>
        BY <1>8, <3>1 DEF IInv, FailIncompleteReceipt, AfterReceipt
      <4>2. pending' \in [Slots -> PendingStates]
        BY <4>1 DEF ProcessEnds
      <4>. QED BY <4>1, <4>2 DEF IInv, ProcessEnds
    <3>2. CASE role # "recovery"
      <4>1. /\ pc' = "cleanup_failed" /\ receipt' \in FileStates
            /\ UNCHANGED <<memory, manifest, identity, root, engine>>
        BY <1>8, <3>2 DEF IInv, FailIncompleteReceipt, AfterReceipt
      <4>. QED BY <4>1 DEF IInv
    <3>. QED BY <3>1, <3>2
  <2>2. /\ PermittedMeansClean' /\ BarrierIsLast'
        /\ ContainersHaveRoot' /\ NoForgottenContainer'
    BY <1>8 DEF IInv, FailIncompleteReceipt, AfterReceipt, ProcessEnds
  <2>3. Roles' /\ OnlyCurrentComing' /\ PreparationInv' /\ CleanupInv'
    BY <1>8 DEF IInv, FailIncompleteReceipt, AfterReceipt, ProcessEnds
  <2>. QED BY <2>1, <2>2, <2>3 DEF IInv
<1>. QED BY <1>1, <1>2, <1>3, <1>4, <1>5, <1>6, <1>7, <1>8

\* So does the beginning of an owner.
LEMMA BeginKeeps ==
  ASSUME IInv, ~LateCreation,
         \/ BeginManifest \/ FailBeginManifest \/ MakeRoot \/ FailMakeRoot
         \/ WriteIdentity \/ FailWriteIdentity
  PROVE  IInv'
<1> USE RuntimeOwnerAssumption DEF OwnerTypeOK, PermittedMeansClean, BarrierIsLast,
      ContainersHaveRoot, NoForgottenContainer, Roles, OnlyCurrentComing,
      PreparationInv, CleanupInv, NoContainers, Listed, Slots, Cells, NoSlot,
      FileStates, PendingStates, Phases, OwnerPhases, SlotPhases, ConfirmPhases,
      Goto, memory, disk
<1>1. CASE BeginManifest
  BY <1>1 DEF IInv, BeginManifest
<1>2. CASE FailBeginManifest
  BY <1>2 DEF IInv, FailBeginManifest, ProcessEnds
<1>3. CASE MakeRoot
  BY <1>3 DEF IInv, MakeRoot
<1>4. CASE FailMakeRoot
  BY <1>4 DEF IInv, FailMakeRoot, ProcessEnds
<1>5. CASE WriteIdentity
  BY <1>5 DEF IInv, WriteIdentity
<1>6. CASE FailWriteIdentity
  BY <1>6 DEF IInv, FailWriteIdentity, ProcessEnds
<1>. QED BY <1>1, <1>2, <1>3, <1>4, <1>5, <1>6

\* So does preparation, and the engine's answers to it.
LEMMA PrepareKeeps ==
  ASSUME IInv, ~LateCreation, NEW s \in Slots,
         \/ FillRoot \/ RequestCreate \/ EngineSettles(s) \/ CreateReturns
         \/ FailCreate \/ VerifyOwnership \/ Provision \/ FailProvision
         \/ CloseInCatch \/ RecordDaemon \/ StartDaemon \/ PrepareThrows
  PROVE  IInv'
<1> USE RuntimeOwnerAssumption DEF OwnerTypeOK, PermittedMeansClean, BarrierIsLast,
      ContainersHaveRoot, NoForgottenContainer, Roles, OnlyCurrentComing,
      PreparationInv, CleanupInv, NoContainers, Listed, Slots, Cells, NoSlot,
      FileStates, PendingStates, Phases, OwnerPhases, SlotPhases, ConfirmPhases,
      Goto, memory, disk
<1>1. CASE FillRoot
  BY <1>1 DEF IInv, FillRoot
<1>2. CASE RequestCreate
  BY <1>2 DEF IInv, RequestCreate
<1>3. CASE EngineSettles(s)
  BY <1>3 DEF IInv, EngineSettles
<1>4. CASE CreateReturns
  BY <1>4 DEF IInv, CreateReturns
<1>5. CASE FailCreate
  <2>1. /\ todo' \subseteq Slots /\ \A t \in todo' : t[2] \in records
        /\ failed' \in BOOLEAN /\ pc' = "close_records"
    BY <1>5, CloseAllBegins DEF IInv, FailCreate
  <2>2. OwnerTypeOK'
    BY <1>5, <2>1 DEF IInv, FailCreate
  <2>3. PermittedMeansClean'
    BY <1>5, <2>1 DEF IInv, FailCreate
  <2>4. BarrierIsLast'
    BY <1>5, <2>1 DEF IInv, FailCreate
  <2>5. ContainersHaveRoot'
    BY <1>5, <2>1 DEF IInv, FailCreate
  <2>6. NoForgottenContainer'
    BY <1>5, <2>1 DEF IInv, FailCreate
  <2>7. Roles'
    BY <1>5, <2>1 DEF IInv, FailCreate
  <2>8. OnlyCurrentComing'
    BY <1>5, <2>1 DEF IInv, FailCreate
  <2>9. PreparationInv'
    BY <1>5, <2>1 DEF IInv, FailCreate
  <2>10. CleanupInv'
    BY <1>5, <2>1 DEF IInv, FailCreate
  <2>. QED BY <2>2, <2>3, <2>4, <2>5, <2>6, <2>7, <2>8, <2>9, <2>10 DEF IInv
<1>6. CASE VerifyOwnership
  BY <1>6 DEF IInv, VerifyOwnership
<1>7. CASE Provision
  BY <1>7 DEF IInv, Provision, Gone
<1>8. CASE FailProvision
  BY <1>8 DEF IInv, FailProvision, Gone
<1>9. CASE CloseInCatch
  <2>1. /\ todo' \subseteq Slots /\ \A t \in todo' : t[2] \in records
        /\ failed' \in BOOLEAN /\ pc' = "close_records"
    BY <1>9, CloseAllBegins DEF IInv, CloseInCatch
  <2>2. /\ engine' \in [Slots -> {"absent", "coming", "present"}]
        /\ pending' \in [Slots -> PendingStates]
        /\ \A t \in Slots :
             \/ engine'[t] = "absent"
             \/ engine'[t] = engine[t] /\ pending'[t] = pending[t]
    BY <1>9, FailedCloseKeepsList DEF IInv, CloseInCatch
  <2>3. OwnerTypeOK'
    BY <1>9, <2>1, <2>2 DEF IInv, CloseInCatch
  <2>4. PermittedMeansClean'
    BY <1>9, <2>1, <2>2 DEF IInv, CloseInCatch
  <2>5. BarrierIsLast'
    BY <1>9, <2>1, <2>2 DEF IInv, CloseInCatch
  <2>6. ContainersHaveRoot'
    BY <1>9, <2>1, <2>2 DEF IInv, CloseInCatch
  <2>7. NoForgottenContainer'
    BY <1>9, <2>1, <2>2 DEF IInv, CloseInCatch
  <2>8. Roles'
    BY <1>9, <2>1, <2>2 DEF IInv, CloseInCatch
  <2>9. OnlyCurrentComing'
    BY <1>9, <2>1, <2>2 DEF IInv, CloseInCatch
  <2>10. PreparationInv'
    BY <1>9, <2>1, <2>2 DEF IInv, CloseInCatch
  <2>11. CleanupInv'
    BY <1>9, <2>1, <2>2 DEF IInv, CloseInCatch
  <2>. QED BY <2>3, <2>4, <2>5, <2>6, <2>7, <2>8, <2>9, <2>10, <2>11 DEF IInv
<1>10. CASE RecordDaemon
  BY <1>10 DEF IInv, RecordDaemon
<1>11. CASE StartDaemon
  BY <1>11 DEF IInv, StartDaemon
<1>12. CASE PrepareThrows
  <2>1. /\ todo' \subseteq Slots /\ \A t \in todo' : t[2] \in records
        /\ failed' \in BOOLEAN /\ pc' = "close_records"
    BY <1>12, CloseAllBegins DEF IInv, PrepareThrows
  <2>2. OwnerTypeOK'
    BY <1>12, <2>1 DEF IInv, PrepareThrows
  <2>3. PermittedMeansClean'
    BY <1>12, <2>1 DEF IInv, PrepareThrows
  <2>4. BarrierIsLast'
    BY <1>12, <2>1 DEF IInv, PrepareThrows
  <2>5. ContainersHaveRoot'
    BY <1>12, <2>1 DEF IInv, PrepareThrows
  <2>6. NoForgottenContainer'
    BY <1>12, <2>1 DEF IInv, PrepareThrows
  <2>7. Roles'
    BY <1>12, <2>1 DEF IInv, PrepareThrows
  <2>8. OnlyCurrentComing'
    BY <1>12, <2>1 DEF IInv, PrepareThrows
  <2>9. PreparationInv'
    BY <1>12, <2>1 DEF IInv, PrepareThrows
  <2>10. CleanupInv'
    BY <1>12, <2>1 DEF IInv, PrepareThrows
  <2>. QED BY <2>2, <2>3, <2>4, <2>5, <2>6, <2>7, <2>8, <2>9, <2>10 DEF IInv
<1>. QED BY <1>1, <1>2, <1>3, <1>4, <1>5, <1>6, <1>7, <1>8, <1>9, <1>10, <1>11, <1>12

\* So does closeAll.
LEMMA CloseAllKeeps ==
  ASSUME IInv, ~LateCreation, NEW s \in Slots,
         \/ CloseRecord(s) \/ FailCloseRecord(s) \/ TurnToPendings
         \/ ClosePending(s) \/ FailClosePending(s) \/ ContainersNotAllClosed
         \/ RemoveOwnedRoot \/ FailRemoveOwnedRoot
  PROVE  IInv'
<1> USE RuntimeOwnerAssumption DEF OwnerTypeOK, PermittedMeansClean, BarrierIsLast,
      ContainersHaveRoot, NoForgottenContainer, Roles, OnlyCurrentComing,
      PreparationInv, CleanupInv, NoContainers, Listed, Slots, Cells, NoSlot,
      FileStates, PendingStates, Phases, OwnerPhases, SlotPhases, ConfirmPhases,
      Goto, memory, disk
<1>1. CASE CloseRecord(s)
  <2>1. OwnerTypeOK'
    <3>1. engine' \in [Slots -> {"absent", "coming", "present"}]
      BY <1>1 DEF IInv, CloseRecord, Gone
    <3>2. pending' \in [Slots -> PendingStates]
      BY <1>1 DEF IInv, CloseRecord
    <3>3. s[2] \in records
      BY <1>1 DEF IInv, CloseRecord, IsNext
    <3>4. todo' \subseteq Slots /\ closed' \subseteq records' /\ records' \subseteq Cells
      BY <1>1, <3>3 DEF IInv, CloseRecord
    <3>. QED BY <1>1, <3>1, <3>2, <3>4 DEF IInv, CloseRecord
  <2>2. PermittedMeansClean'
    BY <1>1 DEF IInv, CloseRecord, IsNext, Gone
  <2>3. BarrierIsLast'
    BY <1>1 DEF IInv, CloseRecord, IsNext, Gone
  <2>4. ContainersHaveRoot'
    BY <1>1 DEF IInv, CloseRecord, IsNext, Gone
  <2>5. NoForgottenContainer'
    BY <1>1 DEF IInv, CloseRecord, IsNext, Gone
  <2>6. Roles'
    BY <1>1 DEF IInv, CloseRecord, IsNext, Gone
  <2>7. OnlyCurrentComing'
    BY <1>1 DEF IInv, CloseRecord, IsNext, Gone
  <2>8. PreparationInv'
    BY <1>1 DEF IInv, CloseRecord, IsNext, Gone
  <2>9. CleanupInv'
    BY <1>1 DEF IInv, CloseRecord, IsNext, Gone
  <2>. QED BY <2>1, <2>2, <2>3, <2>4, <2>5, <2>6, <2>7, <2>8, <2>9 DEF IInv
<1>2. CASE FailCloseRecord(s)
  <2>1. OwnerTypeOK'
    BY <1>2 DEF IInv, FailCloseRecord, IsNext, CloseAttemptFails, Gone
  <2>2. PermittedMeansClean'
    BY <1>2 DEF IInv, FailCloseRecord, IsNext, CloseAttemptFails, Gone
  <2>3. BarrierIsLast'
    BY <1>2 DEF IInv, FailCloseRecord, IsNext, CloseAttemptFails, Gone
  <2>4. ContainersHaveRoot'
    BY <1>2 DEF IInv, FailCloseRecord, IsNext, CloseAttemptFails, Gone
  <2>5. NoForgottenContainer'
    BY <1>2 DEF IInv, FailCloseRecord, IsNext, CloseAttemptFails, Gone
  <2>6. Roles'
    BY <1>2 DEF IInv, FailCloseRecord, IsNext, CloseAttemptFails, Gone
  <2>7. OnlyCurrentComing'
    BY <1>2 DEF IInv, FailCloseRecord, IsNext, CloseAttemptFails, Gone
  <2>8. PreparationInv'
    BY <1>2 DEF IInv, FailCloseRecord, IsNext, CloseAttemptFails, Gone
  <2>9. CleanupInv'
    BY <1>2 DEF IInv, FailCloseRecord, IsNext, CloseAttemptFails, Gone
  <2>. QED BY <2>1, <2>2, <2>3, <2>4, <2>5, <2>6, <2>7, <2>8, <2>9 DEF IInv
<1>3. CASE TurnToPendings
  BY <1>3 DEF IInv, TurnToPendings
<1>4. CASE ClosePending(s)
  BY <1>4 DEF IInv, ClosePending, Gone
<1>5. CASE FailClosePending(s)
  BY <1>5 DEF IInv, FailClosePending, Gone
<1>6. CASE ContainersNotAllClosed
  BY <1>6 DEF IInv, ContainersNotAllClosed
<1>7. CASE RemoveOwnedRoot
  BY <1>7 DEF IInv, RemoveOwnedRoot
<1>8. CASE FailRemoveOwnedRoot
  BY <1>8 DEF IInv, FailRemoveOwnedRoot
<1>. QED BY <1>1, <1>2, <1>3, <1>4, <1>5, <1>6, <1>7, <1>8

\* So does the use of a handle, and the end of a process.
LEMMA UseKeeps ==
  ASSUME IInv, ~LateCreation, NEW c \in Cells,
         \/ CloseCell(c) \/ FailCloseCell(c) \/ Dispose \/ Exit \/ Crash
  PROVE  IInv'
<1> USE RuntimeOwnerAssumption DEF OwnerTypeOK, PermittedMeansClean, BarrierIsLast,
      ContainersHaveRoot, NoForgottenContainer, Roles, OnlyCurrentComing,
      PreparationInv, CleanupInv, NoContainers, Listed, Slots, Cells, NoSlot,
      FileStates, PendingStates, Phases, OwnerPhases, SlotPhases, ConfirmPhases,
      Goto, memory, disk
<1>1. CASE CloseCell(c)
  BY <1>1 DEF IInv, CloseCell, CellToClose, Gone
<1>2. CASE FailCloseCell(c)
  <2>1. /\ engine' \in [Slots -> {"absent", "coming", "present"}]
        /\ pending' \in [Slots -> PendingStates]
        /\ \A t \in Slots :
             \/ engine'[t] = "absent"
             \/ engine'[t] = engine[t] /\ pending'[t] = pending[t]
    BY <1>2, FailedCloseKeepsList DEF IInv, FailCloseCell, CellToClose
  <2>2. OwnerTypeOK'
    BY <1>2, <2>1 DEF IInv, FailCloseCell, CellToClose
  <2>3. PermittedMeansClean'
    BY <1>2, <2>1 DEF IInv, FailCloseCell, CellToClose
  <2>4. BarrierIsLast'
    BY <1>2, <2>1 DEF IInv, FailCloseCell, CellToClose
  <2>5. ContainersHaveRoot'
    BY <1>2, <2>1 DEF IInv, FailCloseCell, CellToClose
  <2>6. NoForgottenContainer'
    BY <1>2, <2>1 DEF IInv, FailCloseCell, CellToClose
  <2>7. Roles'
    BY <1>2, <2>1 DEF IInv, FailCloseCell, CellToClose
  <2>8. OnlyCurrentComing'
    BY <1>2, <2>1 DEF IInv, FailCloseCell, CellToClose
  <2>9. PreparationInv'
    BY <1>2, <2>1 DEF IInv, FailCloseCell, CellToClose
  <2>10. CleanupInv'
    BY <1>2, <2>1 DEF IInv, FailCloseCell, CellToClose
  <2>. QED BY <2>2, <2>3, <2>4, <2>5, <2>6, <2>7, <2>8, <2>9, <2>10 DEF IInv
<1>3. CASE Dispose
  <2>1. /\ todo' \subseteq Slots /\ \A t \in todo' : t[2] \in records
        /\ failed' \in BOOLEAN /\ pc' = "close_records"
    BY <1>3, CloseAllBegins DEF IInv, Dispose
  <2>2. OwnerTypeOK'
    BY <1>3, <2>1 DEF IInv, Dispose
  <2>3. PermittedMeansClean'
    BY <1>3, <2>1 DEF IInv, Dispose
  <2>4. BarrierIsLast'
    BY <1>3, <2>1 DEF IInv, Dispose
  <2>5. ContainersHaveRoot'
    BY <1>3, <2>1 DEF IInv, Dispose
  <2>6. NoForgottenContainer'
    BY <1>3, <2>1 DEF IInv, Dispose
  <2>7. Roles'
    BY <1>3, <2>1 DEF IInv, Dispose
  <2>8. OnlyCurrentComing'
    BY <1>3, <2>1 DEF IInv, Dispose
  <2>9. PreparationInv'
    BY <1>3, <2>1 DEF IInv, Dispose
  <2>10. CleanupInv'
    BY <1>3, <2>1 DEF IInv, Dispose
  <2>. QED BY <2>2, <2>3, <2>4, <2>5, <2>6, <2>7, <2>8, <2>9, <2>10 DEF IInv
<1>4. CASE Exit
  <2>1. /\ pc \in {"ready", "released", "cleanup_failed"}
        /\ UNCHANGED <<disk, engine>>
    BY <1>4 DEF Exit
  <2>2. /\ pending' = [s \in Slots |-> "none"] /\ pc' = "down" /\ role' = "none"
        /\ records' = {} /\ closed' = {} /\ current' = NoSlot /\ todo' = {}
        /\ failed' = FALSE
    BY <1>4 DEF Exit, ProcessEnds
  <2>3. OwnerTypeOK' /\ PermittedMeansClean' /\ BarrierIsLast' /\ ContainersHaveRoot'
    BY <2>1, <2>2 DEF IInv
  <2>4. /\ NoForgottenContainer' /\ Roles' /\ OnlyCurrentComing' /\ PreparationInv'
        /\ CleanupInv'
    BY <2>1, <2>2 DEF IInv
  <2>. QED BY <2>3, <2>4 DEF IInv
<1>5. CASE Crash
  <2>1. /\ pc \notin {"down", "ready", "released", "cleanup_failed"}
        /\ \A s \in Slots : engine[s] # "coming"
        /\ UNCHANGED <<disk, engine>>
    BY <1>5 DEF Crash
  <2>2. /\ pending' = [s \in Slots |-> "none"] /\ pc' = "down" /\ role' = "none"
        /\ records' = {} /\ closed' = {} /\ current' = NoSlot /\ todo' = {}
        /\ failed' = FALSE
    BY <1>5 DEF Crash, ProcessEnds
  <2>3. OwnerTypeOK' /\ PermittedMeansClean' /\ BarrierIsLast' /\ ContainersHaveRoot'
    BY <2>1, <2>2 DEF IInv
  <2>4. /\ NoForgottenContainer' /\ Roles' /\ OnlyCurrentComing' /\ PreparationInv'
        /\ CleanupInv'
    BY <2>1, <2>2 DEF IInv
  <2>. QED BY <2>3, <2>4 DEF IInv
<1>. QED BY <1>1, <1>2, <1>3, <1>4, <1>5

\* There is a cell and a container to name where a step is about none.
LEMMA SomeSlot == (\E s \in Slots : TRUE) /\ (\E c \in Cells : TRUE)
<1>1. 1 \in Cells
  BY RuntimeOwnerAssumption DEF Cells
<1>2. <<"daemon", 1>> \in Slots
  BY <1>1 DEF Slots
<1>. QED BY <1>1, <1>2

\* An empty disk and no process satisfy the invariant.
LEMMA InitHolds == Init => IInv
  BY RuntimeOwnerAssumption
     DEF Init, Forgotten, IInv, OwnerTypeOK, PermittedMeansClean, BarrierIsLast,
         ContainersHaveRoot, NoForgottenContainer, Roles, OnlyCurrentComing,
         PreparationInv, CleanupInv, NoContainers, Listed, Slots, Cells, NoSlot,
         FileStates, PendingStates, Phases, OwnerPhases, SlotPhases, ConfirmPhases

\* A step that changes nothing keeps it.
LEMMA StutterKeeps ==
  ASSUME IInv, UNCHANGED vars
  PROVE  IInv'
  BY DEF vars, IInv, OwnerTypeOK, PermittedMeansClean, BarrierIsLast,
         ContainersHaveRoot, NoForgottenContainer, Roles, OnlyCurrentComing,
         PreparationInv, CleanupInv, NoContainers, Listed

\* The invariant holds in every state of every number of cells.
THEOREM OwnerInvariant ==
  ASSUME ~LateCreation
  PROVE  Spec => []IInv
<1>1. Init => IInv
  BY InitHolds
<1>2. IInv /\ [Next]_vars => IInv'
  <2> SUFFICES ASSUME IInv, [Next]_vars PROVE IInv'
    OBVIOUS
  <2>1. CASE UNCHANGED vars
    BY <2>1, StutterKeeps
  <2>2. CASE RecoveryStep
    BY <2>2, ReconcileKeeps, ConfirmKeeps, SomeSlot DEF RecoveryStep
  <2>3. CASE RecoveryFault
    BY <2>3, ReconcileKeeps, ConfirmKeeps, UseKeeps, SomeSlot DEF RecoveryFault
  <2>4. CASE RefuseReconciliation
    BY <2>4, StutterKeeps DEF RefuseReconciliation
  <2>5. CASE OwnerStep
    BY <2>5, BeginKeeps, PrepareKeeps, UseKeeps, SomeSlot DEF OwnerStep
  <2>6. CASE CloseAllStep
    BY <2>6, CloseAllKeeps, SomeSlot DEF CloseAllStep
  <2>7. CASE \E s \in Slots : EngineSettles(s)
    BY <2>7, PrepareKeeps
  <2>. QED BY <2>1, <2>2, <2>3, <2>4, <2>5, <2>6, <2>7 DEF Next
<1>. QED BY <1>1, <1>2, PTL DEF Spec

\* Every variable of the owner keeps its type.
THEOREM OwnerTypes == ASSUME ~LateCreation PROVE Spec => []OwnerTypeOK
  BY OwnerInvariant, PTL DEF IInv

\* Permission for a new pilot, and a completed dispose, mean that nothing of an
\* owner is left (reconcileReleaseRuntimeOciOwnerV1, closeAll).
THEOREM PermissionIsSound == ASSUME ~LateCreation PROVE Spec => []PermittedMeansClean
  BY OwnerInvariant, PTL DEF IInv

\* The manifest is the first file of an owner and the last one removed
\* (beginReleaseRuntimeOwnerManifestV1, confirm...CleanupV1).
THEOREM BarrierStands == ASSUME ~LateCreation PROVE Spec => []BarrierIsLast
  BY OwnerInvariant, PTL DEF IInv

\* The directory that containers mount outlives them (removeOwnedRoot,
\* removeRecoveredReleaseRuntimeOwnerRootV1).
THEOREM RootOutlivesContainers == ASSUME ~LateCreation PROVE Spec => []ContainersHaveRoot
  BY OwnerInvariant, PTL DEF IInv

\* closeAll knows of every container its process has made (createOwnedContainer).
THEOREM NothingForgotten == ASSUME ~LateCreation PROVE Spec => []NoForgottenContainer
  BY OwnerInvariant, PTL DEF IInv

--------------------------------------------------------------------------------
(* What holds of the files and the root whatever the engine does: nothing from    *)
(* here to RootKeepsDurableOwner assumes ~LateCreation.                           *)

\* How far the disk has come at each place a process can be.
FilesInv ==
  /\ manifest \in FileStates /\ identity \in FileStates /\ receipt \in FileStates
  /\ root \in {"absent", "empty", "filled"}
  /\ pc \in Phases /\ role \in {"none", "recovery", "preparing", "handle"}
  /\ Roles
  /\ manifest # "whole" => identity = "absent" /\ root = "absent"
  /\ pc \in {"ready", "released"} =>
       manifest = "absent" /\ identity = "absent" /\ receipt = "absent" /\ root = "absent"
  /\ pc = "make_root" => manifest = "whole" /\ identity = "absent" /\ root = "absent"
  /\ pc = "write_identity" => manifest = "whole" /\ identity = "absent" /\ root = "empty"
  /\ pc = "fill_root" => manifest = "whole" /\ records = {}
  /\ pc \in SlotPhases => manifest = "whole" /\ root = "filled"
  /\ pc = "discover" => manifest = "whole"
  /\ pc \in ConfirmPhases => root = "absent"
  /\ pc \in {"confirm_receipt", "confirm_manifest"} =>
       manifest = "whole" /\ identity = "absent"
  /\ pc \in {"confirm_manifest", "confirm_sync"} => receipt = "absent"
  /\ pc = "confirm_sync" => manifest = "absent" /\ identity = "absent"

\* A reconciliation and a confirmation keep it, whatever fails in them.
LEMMA RecoveryKeepsFiles ==
  ASSUME FilesInv, RecoveryStep \/ RecoveryFault
  PROVE  FilesInv'
<1> USE DEF FilesInv, Roles, OwnerPhases, SlotPhases, ConfirmPhases, Phases, FileStates,
      Goto, memory, disk
<1>1. CASE FindNoOwner \/ FindOwner
  BY <1>1 DEF FindNoOwner, FindOwner, Unreadable
<1>2. CASE \E s \in Slots : RecoverContainer(s) \/ FailRecoverContainer(s)
  BY <1>2 DEF RecoverContainer, FailRecoverContainer
<1>3. CASE RemoveRecoveredRoot \/ FailRemoveRecoveredRoot
  BY <1>3 DEF RemoveRecoveredRoot, FailRemoveRecoveredRoot
<1>4. CASE ConfirmIdentityRemoved \/ RefuseConfirmation \/ FailConfirmation
  BY <1>4 DEF ConfirmIdentityRemoved, RefuseConfirmation, FailConfirmation
<1>5. CASE ConfirmReceiptRemoved \/ ConfirmManifestRemoved
  BY <1>5 DEF ConfirmReceiptRemoved, ConfirmManifestRemoved
<1>6. CASE ConfirmSynced
  BY <1>6 DEF ConfirmSynced
<1>7. CASE WriteIncompleteReceipt \/ FailIncompleteReceipt
  BY <1>7 DEF WriteIncompleteReceipt, FailIncompleteReceipt, AfterReceipt, ProcessEnds
<1>8. CASE Crash
  BY <1>8 DEF Crash, ProcessEnds
<1>. QED
  BY <1>1, <1>2, <1>3, <1>4, <1>5, <1>6, <1>7, <1>8 DEF RecoveryStep, RecoveryFault

\* So do preparation, the use of the handle and its dispose.
LEMMA OwnerKeepsFiles ==
  ASSUME FilesInv, OwnerStep
  PROVE  FilesInv'
<1> USE DEF FilesInv, Roles, OwnerPhases, SlotPhases, ConfirmPhases, Phases, FileStates,
      Goto, memory, disk
<1>1. CASE BeginManifest \/ FailBeginManifest
  BY <1>1 DEF BeginManifest, FailBeginManifest, ProcessEnds
<1>2. CASE MakeRoot \/ FailMakeRoot
  BY <1>2 DEF MakeRoot, FailMakeRoot, ProcessEnds
<1>3. CASE WriteIdentity \/ FailWriteIdentity
  BY <1>3 DEF WriteIdentity, FailWriteIdentity, ProcessEnds
<1>4. CASE FillRoot \/ RequestCreate \/ CreateReturns
  BY <1>4 DEF FillRoot, RequestCreate, CreateReturns
<1>5. CASE FailCreate \/ CloseInCatch \/ PrepareThrows \/ Dispose
  BY <1>5 DEF FailCreate, CloseInCatch, PrepareThrows, Dispose, BeginCloseAll
<1>6. CASE VerifyOwnership \/ Provision \/ FailProvision
  BY <1>6 DEF VerifyOwnership, Provision, FailProvision
<1>7. CASE RecordDaemon \/ StartDaemon
  BY <1>7 DEF RecordDaemon, StartDaemon
<1>8. CASE Exit
  BY <1>8 DEF Exit, ProcessEnds
<1>9. CASE \E c \in Cells : CloseCell(c) \/ FailCloseCell(c)
  BY <1>9 DEF CloseCell, FailCloseCell, CellToClose
<1>. QED
  BY <1>1, <1>2, <1>3, <1>4, <1>5, <1>6, <1>7, <1>8, <1>9 DEF OwnerStep

\* So does every step, the engine's own included.
LEMMA FilesInvHolds == Spec => []FilesInv
<1>1. Init => FilesInv
  BY DEF Init, Forgotten, FilesInv, Roles, OwnerPhases, SlotPhases, ConfirmPhases, Phases,
         FileStates
<1>2. FilesInv /\ [Next]_vars => FilesInv'
  <2> SUFFICES ASSUME FilesInv, [Next]_vars
               PROVE  FilesInv'
    OBVIOUS
  <2> USE DEF FilesInv, Roles, OwnerPhases, SlotPhases, ConfirmPhases, Phases, FileStates,
        Goto, memory, disk
  <2>1. CASE RecoveryStep \/ RecoveryFault
    BY <2>1, RecoveryKeepsFiles
  <2>2. CASE OwnerStep
    BY <2>2, OwnerKeepsFiles
  <2>3. CASE CloseAllStep
    <3>1. CASE TurnToPendings \/ ContainersNotAllClosed
      BY <3>1 DEF TurnToPendings, ContainersNotAllClosed
    <3>2. CASE RemoveOwnedRoot \/ FailRemoveOwnedRoot
      BY <3>2 DEF RemoveOwnedRoot, FailRemoveOwnedRoot
    <3>3. CASE \E s \in Slots : \/ CloseRecord(s) \/ FailCloseRecord(s)
                                \/ ClosePending(s) \/ FailClosePending(s)
      BY <3>3 DEF CloseRecord, FailCloseRecord, ClosePending, FailClosePending
    <3>. QED BY <2>3, <3>1, <3>2, <3>3 DEF CloseAllStep
  <2>4. CASE RefuseReconciliation \/ (\E s \in Slots : EngineSettles(s))
    BY <2>4 DEF RefuseReconciliation, EngineSettles, vars
  <2>5. CASE UNCHANGED vars
    BY <2>5 DEF vars
  <2>. QED BY <2>1, <2>2, <2>3, <2>4, <2>5 DEF Next
<1>. QED BY <1>1, <1>2, PTL DEF Spec

\* Whatever the engine does, permission for a new pilot and a completed dispose mean that
\* no file and no directory of an owner is left, and the manifest is the first of them to
\* come and the last to go: a late create can only ever leave a container behind.
THEOREM OnlyContainersComeLate ==
  Spec => [](/\ pc \in {"ready", "released"} => ~OwnerFiles /\ root = "absent"
             /\ manifest # "whole" => identity = "absent" /\ root = "absent")
<1>1. FilesInv => /\ pc \in {"ready", "released"} => ~OwnerFiles /\ root = "absent"
                  /\ manifest # "whole" => identity = "absent" /\ root = "absent"
  BY DEF FilesInv, OwnerFiles
<1>. QED BY <1>1, FilesInvHolds, PTL

--------------------------------------------------------------------------------
(* The refinement of DurableOwner, of the directory first.                        *)

rootMapped == <<OwnerFiles, root # "absent", OwnerProcess>>
OwnerStays == rootMapped' = rootMapped

\* The steps of the abstract owner, spelled out over the mapped values.
LEMMA OwnerSteps ==
  ASSUME \/ /\ OwnerProcess = "down" /\ ~OwnerFiles /\ OwnerProcess' = "permitted"
            /\ ~OwnerFiles' /\ root' = root
         \/ /\ OwnerProcess = "down" /\ OwnerFiles /\ OwnerProcess' = "recovery"
            /\ OwnerFiles' /\ root' = root
         \/ /\ OwnerProcess = "recovery" /\ ~OwnerFiles /\ OwnerProcess' = "permitted"
            /\ ~OwnerFiles' /\ root' = root
         \/ /\ OwnerProcess = "permitted" /\ OwnerProcess' \in {"preparing", "down"}
            /\ ~OwnerFiles /\ OwnerFiles' /\ root' = root
         \/ /\ OwnerProcess \in {"recovery", "preparing", "handle"}
            /\ OwnerProcess' \in {OwnerProcess, "down"}
            /\ \/ OwnerProcess = "preparing" /\ OwnerFiles /\ OwnerFiles' /\ root' # "absent"
               \/ root' = "absent" /\ (OwnerFiles' <=> OwnerFiles)
               \/ root = "absent" /\ root' = "absent"
               \/ root' = root /\ (OwnerFiles' <=> OwnerFiles)
         \/ /\ OwnerProcess = "preparing" /\ OwnerProcess' = "handle"
            /\ OwnerFiles /\ OwnerFiles' /\ root # "absent" /\ root' = root
         \/ /\ OwnerProcess \in {"preparing", "handle"} /\ OwnerProcess' = "released"
            /\ ~OwnerFiles /\ ~OwnerFiles' /\ root' = root
         \/ /\ OwnerProcess # "down" /\ OwnerProcess' = "down"
            /\ (OwnerFiles' <=> OwnerFiles) /\ root' = root
  PROVE  RootOwner!OwnerNext
<1>1. OwnerFiles \in BOOLEAN /\ OwnerFiles' \in BOOLEAN
  BY DEF OwnerFiles
<1> HIDE DEF OwnerFiles, OwnerProcess
<1>. QED
  BY <1>1
     DEF RootOwner!OwnerNext, RootOwner!Permit, RootOwner!Recover, RootOwner!Recovered,
         RootOwner!Begin, RootOwner!Work, RootOwner!Working, RootOwner!Create,
         RootOwner!Remove, RootOwner!ChangeBarrier, RootOwner!HandOut, RootOwner!Confirm,
         RootOwner!End, RootOwner!disk

\* A reconciliation finds an owner or none, and removes what it finds behind the files.
LEMMA ReconcileSimulates ==
  ASSUME FilesInv, FilesInv', NEW s \in Slots,
         \/ FindNoOwner \/ FindOwner \/ RecoverContainer(s)
         \/ FailRecoverContainer(s) \/ RemoveRecoveredRoot
         \/ FailRemoveRecoveredRoot
  PROVE  RootOwner!OwnerNext \/ OwnerStays
<1> USE DEF FilesInv, Roles, OwnerPhases, SlotPhases, ConfirmPhases, Phases, FileStates,
      OwnerFiles, OwnerProcess, rootMapped, OwnerStays, Goto, memory, disk
<1>1. CASE FindNoOwner
  BY <1>1, OwnerSteps DEF FindNoOwner, Unreadable
<1>2. CASE FindOwner
  BY <1>2, OwnerSteps DEF FindOwner, Unreadable
<1>3. CASE RecoverContainer(s)
  BY <1>3, OwnerSteps DEF RecoverContainer
<1>4. CASE FailRecoverContainer(s)
  BY <1>4, OwnerSteps DEF FailRecoverContainer
<1>5. CASE RemoveRecoveredRoot
  BY <1>5, OwnerSteps DEF RemoveRecoveredRoot
<1>6. CASE FailRemoveRecoveredRoot
  BY <1>6, OwnerSteps DEF FailRemoveRecoveredRoot
<1>. QED BY <1>1, <1>2, <1>3, <1>4, <1>5, <1>6

\* A confirmation removes the files when nothing is behind them.
LEMMA ConfirmSimulates ==
  ASSUME FilesInv, FilesInv',
         \/ ConfirmIdentityRemoved \/ RefuseConfirmation
         \/ ConfirmReceiptRemoved \/ ConfirmManifestRemoved \/ ConfirmSynced
         \/ FailConfirmation \/ WriteIncompleteReceipt \/ FailIncompleteReceipt
  PROVE  RootOwner!OwnerNext \/ OwnerStays
<1> USE DEF FilesInv, Roles, OwnerPhases, SlotPhases, ConfirmPhases, Phases, FileStates,
      OwnerFiles, OwnerProcess, rootMapped, OwnerStays, Goto, memory, disk
<1>1. CASE ConfirmIdentityRemoved
  BY <1>1, OwnerSteps DEF ConfirmIdentityRemoved
<1>2. CASE RefuseConfirmation
  BY <1>2, OwnerSteps DEF RefuseConfirmation
<1>3. CASE ConfirmReceiptRemoved
  BY <1>3, OwnerSteps DEF ConfirmReceiptRemoved
<1>4. CASE ConfirmManifestRemoved
  BY <1>4, OwnerSteps DEF ConfirmManifestRemoved
<1>5. CASE ConfirmSynced
  BY <1>5, OwnerSteps DEF ConfirmSynced
<1>6. CASE FailConfirmation
  BY <1>6, OwnerSteps DEF FailConfirmation
<1>7. CASE WriteIncompleteReceipt
  BY <1>7, OwnerSteps DEF WriteIncompleteReceipt, AfterReceipt, ProcessEnds
<1>8. CASE FailIncompleteReceipt
  BY <1>8, OwnerSteps DEF FailIncompleteReceipt, AfterReceipt, ProcessEnds
<1>. QED BY <1>1, <1>2, <1>3, <1>4, <1>5, <1>6, <1>7, <1>8

\* The manifest comes first, the root after it.
LEMMA BeginSimulates ==
  ASSUME FilesInv, FilesInv',
         \/ BeginManifest \/ FailBeginManifest \/ MakeRoot \/ FailMakeRoot
         \/ WriteIdentity \/ FailWriteIdentity
  PROVE  RootOwner!OwnerNext \/ OwnerStays
<1> USE DEF FilesInv, Roles, OwnerPhases, SlotPhases, ConfirmPhases, Phases, FileStates,
      OwnerFiles, OwnerProcess, rootMapped, OwnerStays, Goto, memory, disk
<1>1. CASE BeginManifest
  BY <1>1, OwnerSteps DEF BeginManifest
<1>2. CASE FailBeginManifest
  BY <1>2, OwnerSteps DEF FailBeginManifest, ProcessEnds
<1>3. CASE MakeRoot
  BY <1>3, OwnerSteps DEF MakeRoot
<1>4. CASE FailMakeRoot
  BY <1>4, OwnerSteps DEF FailMakeRoot, ProcessEnds
<1>5. CASE WriteIdentity
  BY <1>5, OwnerSteps DEF WriteIdentity
<1>6. CASE FailWriteIdentity
  BY <1>6, OwnerSteps DEF FailWriteIdentity, ProcessEnds
<1>. QED BY <1>1, <1>2, <1>3, <1>4, <1>5, <1>6

\* Containers come and go in a root that stands; the handle is given out with it.
LEMMA PrepareSimulates ==
  ASSUME FilesInv, FilesInv', NEW s \in Slots,
         \/ FillRoot \/ RequestCreate \/ EngineSettles(s) \/ CreateReturns
         \/ FailCreate \/ VerifyOwnership \/ Provision \/ FailProvision
         \/ CloseInCatch \/ RecordDaemon \/ StartDaemon \/ PrepareThrows
  PROVE  RootOwner!OwnerNext \/ OwnerStays
<1> USE DEF FilesInv, Roles, OwnerPhases, SlotPhases, ConfirmPhases, Phases, FileStates,
      OwnerFiles, OwnerProcess, rootMapped, OwnerStays, Goto, memory, disk
<1>1. CASE FillRoot
  BY <1>1, OwnerSteps DEF FillRoot
<1>2. CASE RequestCreate
  BY <1>2, OwnerSteps DEF RequestCreate
<1>3. CASE EngineSettles(s)
  BY <1>3 DEF EngineSettles
<1>4. CASE CreateReturns
  BY <1>4, OwnerSteps DEF CreateReturns
<1>5. CASE FailCreate
  BY <1>5, OwnerSteps DEF FailCreate, BeginCloseAll
<1>6. CASE VerifyOwnership
  BY <1>6, OwnerSteps DEF VerifyOwnership
<1>7. CASE Provision
  BY <1>7, OwnerSteps DEF Provision
<1>8. CASE FailProvision
  BY <1>8, OwnerSteps DEF FailProvision
<1>9. CASE CloseInCatch
  BY <1>9, OwnerSteps DEF CloseInCatch, BeginCloseAll
<1>10. CASE RecordDaemon
  BY <1>10, OwnerSteps DEF RecordDaemon
<1>11. CASE StartDaemon
  BY <1>11, OwnerSteps DEF StartDaemon
<1>12. CASE PrepareThrows
  BY <1>12, OwnerSteps DEF PrepareThrows, BeginCloseAll
<1>. QED BY <1>1, <1>2, <1>3, <1>4, <1>5, <1>6, <1>7, <1>8, <1>9, <1>10, <1>11, <1>12

\* closeAll removes the root under its files.
LEMMA CloseAllSimulates ==
  ASSUME FilesInv, FilesInv', NEW s \in Slots,
         \/ CloseRecord(s) \/ FailCloseRecord(s) \/ TurnToPendings
         \/ ClosePending(s) \/ FailClosePending(s) \/ ContainersNotAllClosed
         \/ RemoveOwnedRoot \/ FailRemoveOwnedRoot
  PROVE  RootOwner!OwnerNext \/ OwnerStays
<1> USE DEF FilesInv, Roles, OwnerPhases, SlotPhases, ConfirmPhases, Phases, FileStates,
      OwnerFiles, OwnerProcess, rootMapped, OwnerStays, Goto, memory, disk
<1>1. CASE CloseRecord(s)
  BY <1>1, OwnerSteps DEF CloseRecord
<1>2. CASE FailCloseRecord(s)
  BY <1>2, OwnerSteps DEF FailCloseRecord
<1>3. CASE TurnToPendings
  BY <1>3, OwnerSteps DEF TurnToPendings
<1>4. CASE ClosePending(s)
  BY <1>4, OwnerSteps DEF ClosePending
<1>5. CASE FailClosePending(s)
  BY <1>5, OwnerSteps DEF FailClosePending
<1>6. CASE ContainersNotAllClosed
  BY <1>6, OwnerSteps DEF ContainersNotAllClosed
<1>7. CASE RemoveOwnedRoot
  BY <1>7, OwnerSteps DEF RemoveOwnedRoot
<1>8. CASE FailRemoveOwnedRoot
  BY <1>8, OwnerSteps DEF FailRemoveOwnedRoot
<1>. QED BY <1>1, <1>2, <1>3, <1>4, <1>5, <1>6, <1>7, <1>8

\* Closing cells leaves the root and its files; an end leaves everything.
LEMMA UseSimulates ==
  ASSUME FilesInv, FilesInv', NEW c \in Cells,
         \/ CloseCell(c) \/ FailCloseCell(c) \/ Dispose \/ Exit \/ Crash
  PROVE  RootOwner!OwnerNext \/ OwnerStays
<1> USE DEF FilesInv, Roles, OwnerPhases, SlotPhases, ConfirmPhases, Phases, FileStates,
      OwnerFiles, OwnerProcess, rootMapped, OwnerStays, Goto, memory, disk
<1>1. CASE CloseCell(c)
  BY <1>1, OwnerSteps DEF CloseCell, CellToClose
<1>2. CASE FailCloseCell(c)
  BY <1>2, OwnerSteps DEF FailCloseCell, CellToClose
<1>3. CASE Dispose
  BY <1>3, OwnerSteps DEF Dispose, BeginCloseAll
<1>4. CASE Exit
  BY <1>4, OwnerSteps DEF Exit, ProcessEnds
<1>5. CASE Crash
  BY <1>5, OwnerSteps DEF Crash, ProcessEnds
<1>. QED BY <1>1, <1>2, <1>3, <1>4, <1>5

\* Whatever the engine does, the directory and the files of an owner keep the promises of
\* DurableOwner: every step of preparation, use, closeAll and reconciliation is one of the
\* abstract owner's.
THEOREM RootKeepsDurableOwner == Spec => RootImplementsDurableOwner
<1>1. Init => RootOwner!OwnerInit
  BY DEF Init, Forgotten, RootOwner!OwnerInit, OwnerFiles, OwnerProcess
<1>2. FilesInv /\ FilesInv' /\ [Next]_vars => [RootOwner!OwnerNext]_rootMapped
  <2> SUFFICES ASSUME FilesInv, FilesInv', [Next]_vars
               PROVE  RootOwner!OwnerNext \/ OwnerStays
    BY DEF OwnerStays
  <2>1. CASE UNCHANGED vars \/ RefuseReconciliation
    BY <2>1 DEF RefuseReconciliation, vars, OwnerStays, rootMapped, OwnerFiles, OwnerProcess
  <2>2. CASE RecoveryStep
    BY <2>2, ReconcileSimulates, ConfirmSimulates, SomeSlot DEF RecoveryStep
  <2>3. CASE RecoveryFault
    BY <2>3, ReconcileSimulates, ConfirmSimulates, UseSimulates, SomeSlot DEF RecoveryFault
  <2>4. CASE OwnerStep
    BY <2>4, BeginSimulates, PrepareSimulates, UseSimulates, SomeSlot DEF OwnerStep
  <2>5. CASE CloseAllStep
    BY <2>5, CloseAllSimulates, SomeSlot DEF CloseAllStep
  <2>6. CASE \E s \in Slots : EngineSettles(s)
    BY <2>6, PrepareSimulates
  <2>. QED BY <2>1, <2>2, <2>3, <2>4, <2>5, <2>6 DEF Next
<1>. QED BY <1>1, <1>2, FilesInvHolds, PTL
         DEF Spec, RootImplementsDurableOwner, RootOwner!OwnerSpec, RootOwner!ownerVars,
             rootMapped

mapped == <<OwnerFiles, OwnerResources, OwnerProcess>>

\* Where the engine leaves no create undecided once its client has returned, the containers
\* are there only as long as the root is, and so an owner of both keeps the promises of
\* DurableOwner, for any number of cells.
THEOREM RuntimeOwnerImplementsDurableOwner ==
  ASSUME ~LateCreation
  PROVE  Spec => ImplementsDurableOwner
<1>1. IInv => (OwnerResources <=> root # "absent")
  BY DEF IInv, ContainersHaveRoot, OwnerResources
<1>2. Init => Owner!OwnerInit
  BY DEF Init, Forgotten, Owner!OwnerInit, OwnerFiles, OwnerResources, OwnerProcess
<1>3. IInv /\ IInv' /\ [RootOwner!OwnerNext]_rootMapped => [Owner!OwnerNext]_mapped
  <2> SUFFICES ASSUME IInv, IInv', [RootOwner!OwnerNext]_rootMapped
               PROVE  [Owner!OwnerNext]_mapped
    OBVIOUS
  <2>1. OwnerResources <=> root # "absent"
    BY <1>1
  <2>2. OwnerResources' <=> root' # "absent"
    BY DEF IInv, ContainersHaveRoot, OwnerResources
  <2>3. OwnerFiles \in BOOLEAN /\ OwnerFiles' \in BOOLEAN
        /\ OwnerResources \in BOOLEAN /\ OwnerResources' \in BOOLEAN
    BY DEF OwnerFiles, OwnerResources
  <2> HIDE DEF OwnerFiles, OwnerResources, OwnerProcess
  <2>4. CASE rootMapped' = rootMapped
    BY <2>1, <2>2, <2>3, <2>4 DEF rootMapped, mapped
  <2>5. CASE RootOwner!OwnerNext
    BY <2>1, <2>2, <2>3, <2>5
       DEF RootOwner!OwnerNext, RootOwner!Permit, RootOwner!Recover, RootOwner!Recovered,
           RootOwner!Begin, RootOwner!Work, RootOwner!Working, RootOwner!Create,
           RootOwner!Remove, RootOwner!ChangeBarrier, RootOwner!HandOut,
           RootOwner!Confirm, RootOwner!End, RootOwner!disk,
           Owner!OwnerNext, Owner!Permit, Owner!Recover, Owner!Recovered, Owner!Begin,
           Owner!Work, Owner!Working, Owner!Create, Owner!Remove, Owner!ChangeBarrier,
           Owner!HandOut, Owner!Confirm, Owner!End, Owner!disk
  <2>. QED BY <2>4, <2>5
<1>. QED BY <1>2, <1>3, OwnerInvariant, RootKeepsDurableOwner, PTL
         DEF Spec, ImplementsDurableOwner, Owner!OwnerSpec, Owner!ownerVars, mapped,
             RootImplementsDurableOwner, RootOwner!OwnerSpec, RootOwner!ownerVars, rootMapped

\* What the abstract owner promises of every state follows from its steps alone, and so
\* holds here: nothing outlives its barrier, no permission or confirmation precedes its end.
THEOREM RuntimeBarrierGuards ==
  ASSUME ~LateCreation
  PROVE  Spec => []Owner!BarrierGuards
<1>1. Owner!OwnerInit => Owner!BarrierGuards
  BY DEF Owner!OwnerInit, Owner!BarrierGuards, Owner!Users
<1>2. Owner!BarrierGuards /\ [Owner!OwnerNext]_mapped => Owner!BarrierGuards'
  <2> SUFFICES ASSUME Owner!BarrierGuards, [Owner!OwnerNext]_mapped
               PROVE  Owner!BarrierGuards'
    OBVIOUS
  <2>1. OwnerFiles' \in BOOLEAN /\ OwnerResources' \in BOOLEAN
    BY DEF OwnerFiles, OwnerResources
  <2> HIDE DEF OwnerFiles, OwnerResources, OwnerProcess
  <2>2. CASE mapped' = mapped
    BY <2>2 DEF mapped, Owner!BarrierGuards
  <2>3. CASE Owner!OwnerNext
    BY <2>1, <2>3
       DEF Owner!BarrierGuards, Owner!Users, Owner!OwnerNext, Owner!Permit, Owner!Recover,
           Owner!Recovered, Owner!Begin, Owner!Work, Owner!Working, Owner!Create,
           Owner!Remove, Owner!ChangeBarrier, Owner!HandOut, Owner!Confirm, Owner!End,
           Owner!disk
  <2>. QED BY <2>2, <2>3
<1>. QED BY <1>1, <1>2, RuntimeOwnerImplementsDurableOwner, PTL
         DEF ImplementsDurableOwner, Owner!OwnerSpec, Owner!ownerVars, mapped

\* The lease this owner is to the orchestration.
LeaseState ==
  IF ~OwnerFiles THEN "free"
  ELSE IF OwnerProcess \in {"preparing", "handle"} THEN "held"
  ELSE "blocked"

\* A step of the abstract owner takes its lease from free to held, from held to free, to
\* blocked, or from blocked to free, and never from blocked to held.
LEMMA OwnerStepsKeepLease ==
  ASSUME [RootOwner!OwnerNext]_rootMapped
  PROVE  [RootOwner!Lease!LeaseNext]_([k \in {"owner"} |-> LeaseState])
<1>1. \/ LeaseState' = LeaseState
      \/ LeaseState = "free" /\ LeaseState' = "held"
      \/ LeaseState = "held" /\ LeaseState' = "free"
      \/ LeaseState # "blocked" /\ LeaseState' = "blocked"
      \/ LeaseState = "blocked" /\ LeaseState' = "free"
  <2>1. OwnerFiles \in BOOLEAN /\ OwnerFiles' \in BOOLEAN
    BY DEF OwnerFiles
  <2> HIDE DEF OwnerFiles, OwnerProcess
  <2>2. CASE rootMapped' = rootMapped
    BY <2>2 DEF rootMapped, LeaseState
  <2>3. CASE RootOwner!OwnerNext
    BY <2>1, <2>3
       DEF LeaseState, RootOwner!OwnerNext, RootOwner!Permit, RootOwner!Recover,
           RootOwner!Recovered, RootOwner!Begin, RootOwner!Work, RootOwner!Working,
           RootOwner!Create, RootOwner!Remove, RootOwner!ChangeBarrier, RootOwner!HandOut,
           RootOwner!Confirm, RootOwner!End, RootOwner!disk
  <2>. QED BY <2>2, <2>3
<1> DEFINE lease == [k \in {"owner"} |-> LeaseState]
<1>2. lease["owner"] = LeaseState /\ lease' = [lease EXCEPT !["owner"] = LeaseState']
  OBVIOUS
<1> HIDE DEF LeaseState
<1>. QED
  BY <1>1, <1>2
     DEF RootOwner!Lease!LeaseNext, RootOwner!Lease!Acquire, RootOwner!Lease!Release,
         RootOwner!Lease!Block, RootOwner!Lease!Clear, RootOwner!Lease!Set, LeaseState

\* So, whatever the engine does, it is the lease the orchestration takes it for: what a
\* process has left behind is never taken over, it is cleared first.
THEOREM RuntimeOwnerIsALease == Spec => RootOwner!Lease!LeaseSpec
<1>1. Init => RootOwner!Lease!LeaseInit
  BY DEF Init, RootOwner!Lease!LeaseInit, OwnerFiles
<1>2. [RootOwner!OwnerNext]_rootMapped =>
        [RootOwner!Lease!LeaseNext]_([k \in {"owner"} |-> LeaseState])
  BY OwnerStepsKeepLease
<1>. QED BY <1>1, <1>2, RootKeepsDurableOwner, PTL
         DEF Spec, RootImplementsDurableOwner, RootOwner!OwnerSpec, RootOwner!ownerVars,
             rootMapped, RootOwner!Lease!LeaseSpec, LeaseState

================================================================================
