----------------------------- MODULE CellProtocol -----------------------------
(* What a cell is to the pilot: one scored request, burned before it is sent, an *)
(* action and a verification only on a usable answer, a settlement only of a     *)
(* verified treatment, one cell after the other, and nothing begun any more once *)
(* the run is cancelled.  CellExecution tells this from inside one cell, PilotRun *)
(* from the run's ledger across all processes; each implements it.               *)
EXTENDS Naturals

CONSTANT Cells      \* the ordinals of the schedule

VARIABLES
  stage,      \* per cell, what has begun last
  requests,   \* per cell, the scored requests sent for it by any process
  settles,    \* per cell, whether its arm settles with the Runtime
  settled,    \* per cell, whether the run saw its Runtime ledger closed
  cancelled   \* a signal reached the process

cellVars == <<stage, requests, settles, settled, cancelled>>

CellInit ==
  /\ stage = [c \in Cells |-> "waiting"]
  /\ requests = [c \in Cells |-> 0]
  /\ settles \in [Cells -> BOOLEAN]
  /\ settled = [c \in Cells |-> FALSE]
  /\ cancelled = FALSE

Move(c, next) == stage' = [stage EXCEPT ![c] = next]
Begins == ~cancelled /\ UNCHANGED cancelled
NothingElse == UNCHANGED <<requests, settles, settled>>

\* The loop takes the cells in order.
Prepare(c) ==
  /\ stage[c] = "waiting" /\ \A d \in Cells : d < c => stage[d] = "finished"
  /\ Move(c, "preparing") /\ Begins /\ NothingElse

Burn(c) ==
  /\ stage[c] = "preparing" /\ Move(c, "burned") /\ Begins /\ NothingElse

Send(c) ==
  /\ stage[c] = "burned" /\ Move(c, "sent") /\ Begins
  /\ requests' = [requests EXCEPT ![c] = @ + 1]
  /\ UNCHANGED <<settles, settled>>

\* A whole answer, or anything else the request may end with.
Answer(c) ==
  /\ stage[c] = "sent" /\ \E next \in {"answered", "unusable"} : Move(c, next)
  /\ UNCHANGED cancelled /\ NothingElse

Complete(c) ==
  /\ \/ stage[c] = "answered" /\ Move(c, "completed")
     \/ stage[c] = "unusable" /\ Move(c, "closing")
  /\ Begins /\ NothingElse

Act(c) ==
  /\ stage[c] = "completed" /\ \E next \in {"acting", "closing"} : Move(c, next)
  /\ Begins /\ NothingElse

Verify(c) ==
  /\ stage[c] = "acting" /\ Move(c, "verifying") /\ Begins /\ NothingElse

\* The action, the verification or the settlement failed, or there is none to come.
Conclude(c) ==
  /\ stage[c] \in {"acting", "verifying"} /\ Move(c, "closing")
  /\ UNCHANGED cancelled /\ NothingElse

Settle(c) ==
  /\ stage[c] = "verifying" /\ settles[c] /\ Move(c, "closing")
  /\ settled' = [settled EXCEPT ![c] = TRUE]
  /\ UNCHANGED <<requests, settles, cancelled>>

Finish(c) ==
  /\ stage[c] = "closing" /\ Move(c, "finished") /\ Begins /\ NothingElse

\* The run ends for all its cells, however far they came; nothing resumes them.
End ==
  /\ stage' = [c \in Cells |-> "over"] /\ UNCHANGED cancelled /\ NothingElse

Cancel == cancelled' = TRUE /\ UNCHANGED stage /\ NothingElse

\* Another process, which knows nothing of the signal.
Restart ==
  /\ \A c \in Cells : stage[c] \in {"waiting", "over"}
  /\ cancelled' = FALSE /\ UNCHANGED stage /\ NothingElse

OneCell(c) ==
  \/ Prepare(c) \/ Burn(c) \/ Send(c) \/ Answer(c) \/ Complete(c) \/ Act(c)
  \/ Verify(c) \/ Conclude(c) \/ Settle(c) \/ Finish(c)

CellNext == End \/ Cancel \/ Restart \/ \E c \in Cells : OneCell(c)

CellSpec == CellInit /\ [][CellNext]_cellVars

\* What follows from the steps: one request at most per cell, none before its attempt
\* is burned, a settlement only of a treatment that was sent and answered, and no
\* cell begun before the earlier ones are finished.
Requested == {"sent", "answered", "unusable", "completed", "acting", "verifying",
              "closing", "finished"}

CellPromise ==
  /\ \A c \in Cells :
       /\ requests[c] \in 0 .. 1
       /\ stage[c] \in {"waiting", "preparing", "burned"} => requests[c] = 0
       /\ stage[c] \in Requested => requests[c] = 1
       /\ settled[c] => settles[c] /\ requests[c] = 1
       /\ settled[c] => stage[c] \in {"closing", "finished", "over"}
  /\ \A c, d \in Cells :
       d < c /\ stage[c] \notin {"waiting", "over"} => stage[d] = "finished"
================================================================================
