----------------------------- MODULE ResourceLease -----------------------------
(* What the orchestration of pilots promises about the resources of each owner   *)
(* kind: they are free, held by a live pilot, or blocked (left by one that died  *)
(* or could not clean up).  Nothing is acquired while anything is blocked, and   *)
(* nothing blocked is cleared while a pilot still holds something.               *)
CONSTANT Kinds

VARIABLE lease

LeaseInit == lease = [k \in Kinds |-> "free"]

Set(k, state) == lease' = [lease EXCEPT ![k] = state]

Acquire(k) ==
  /\ lease[k] = "free" /\ \A j \in Kinds : lease[j] # "blocked"
  /\ Set(k, "held")

Release(k) == lease[k] = "held" /\ Set(k, "free")

\* A failed cleanup, or a preparation that failed half way.
Block(k) == lease[k] # "blocked" /\ Set(k, "blocked")

\* The pilot dies: what it held is blocked.
Die == lease' = [k \in Kinds |-> IF lease[k] = "held" THEN "blocked" ELSE lease[k]]

Clear(k) ==
  /\ lease[k] = "blocked" /\ \A j \in Kinds : lease[j] # "held"
  /\ Set(k, "free")

LeaseNext == Die \/ \E k \in Kinds : Acquire(k) \/ Release(k) \/ Block(k) \/ Clear(k)

LeaseSpec == LeaseInit /\ [][LeaseNext]_lease
================================================================================
