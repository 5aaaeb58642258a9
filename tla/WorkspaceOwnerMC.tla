--------------------------- MODULE WorkspaceOwnerMC ---------------------------
(* TLC instances of WorkspaceOwner: one owner after another over a few cells.  *)
EXTENDS WorkspaceOwner
===============================================================================
