------------------------------ MODULE DurableOwner ------------------------------
(* What an owner of durable resources promises, whatever its resources are (OCI   *)
(* containers and their directory, or Git workspaces), and what the orchestration *)
(* builds on: its files on disk are a barrier.  Resources exist only behind it,    *)
(* it is raised only by a process with permission, it is removed last, and nobody *)
(* is told that it is gone while it stands.                                        *)

VARIABLES
  files,      \* a file of an owner is on disk: the barrier stands
  resources,  \* something that it guards exists
  user        \* what the process that deals with them is at

Users == {"down", "permitted", "recovery", "preparing", "handle", "released"}
Working == {"recovery", "preparing", "handle"}

disk == <<files, resources>>
ownerVars == <<files, resources, user>>

OwnerInit == files = FALSE /\ resources = FALSE /\ user = "down"

\* A process finds no file of an owner.
Permit == user = "down" /\ ~files /\ user' = "permitted" /\ UNCHANGED disk

\* It finds one: whatever it guards is to be removed first.
Recover == user = "down" /\ files /\ user' = "recovery" /\ UNCHANGED disk
Recovered == user = "recovery" /\ ~files /\ user' = "permitted" /\ UNCHANGED disk

\* The barrier is raised, or what was written of it ends the process.
Begin ==
  /\ user = "permitted" /\ user' \in {"preparing", "down"}
  /\ ~files /\ files' = TRUE /\ UNCHANGED resources

Create == user = "preparing" /\ files /\ resources' = TRUE /\ UNCHANGED files
Remove == resources' = FALSE /\ UNCHANGED files

\* The barrier goes when nothing is behind it any more; a receipt may still come up
\* after it.
ChangeBarrier == ~resources /\ files' \in BOOLEAN /\ UNCHANGED resources

\* A working process changes the disk, or dies, or both in one step.
Work ==
  /\ user \in Working /\ user' \in {user, "down"}
  /\ Create \/ Remove \/ ChangeBarrier \/ UNCHANGED disk

\* The resources are there, and handed over to be used.
HandOut == user = "preparing" /\ files /\ resources /\ user' = "handle" /\ UNCHANGED disk

\* The caller is told that nothing is left.
Confirm ==
  /\ user \in {"preparing", "handle"} /\ ~files /\ user' = "released" /\ UNCHANGED disk

End == user # "down" /\ user' = "down" /\ UNCHANGED disk

OwnerNext ==
  Permit \/ Recover \/ Recovered \/ Begin \/ Work \/ HandOut \/ Confirm \/ End

OwnerSpec == OwnerInit /\ [][OwnerNext]_ownerVars

\* What follows from the steps: a resource never outlives its barrier, and neither a
\* permission nor a confirmation is given over one that stands.
BarrierGuards ==
  /\ user \in Users /\ files \in BOOLEAN /\ resources \in BOOLEAN
  /\ resources => files
  /\ user \in {"permitted", "released"} => ~files

\* To the orchestration an owner is one kind of lease: free without a barrier, held
\* by the process that raised it, blocked once that has died.
Lease == INSTANCE ResourceLease WITH
  Kinds <- {"owner"},
  lease <- [k \in {"owner"} |->
              IF ~files THEN "free"
              ELSE IF user \in {"preparing", "handle"} THEN "held"
              ELSE "blocked"]
================================================================================
