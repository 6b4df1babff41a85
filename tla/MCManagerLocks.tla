--------------------------- MODULE MCManagerLocks ---------------------------
(* Small instances of ManagerLocks. *)
EXTENDS ManagerLocks
=============================================================================
