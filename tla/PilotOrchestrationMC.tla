------------------------- MODULE PilotOrchestrationMC -------------------------
(* TLC instance of PilotOrchestration: any number of processes, three owner    *)
(* ids, so that a fresh one differs from what two orphans carry.               *)
EXTENDS PilotOrchestration

OwnerIds == {"o1", "o2", "o3"}
===============================================================================
