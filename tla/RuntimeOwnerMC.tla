---------------------------- MODULE RuntimeOwnerMC ----------------------------
(* TLC instances of RuntimeOwner: one owner after another over a few cells.    *)
EXTENDS RuntimeOwner
===============================================================================
