------------------------- MODULE MCPermissionCheck --------------------------
(* Small instances of PermissionCheck. *)
EXTENDS PermissionCheck, TLC

Names == Permutations(Role) \cup Permutations(Channel)
=============================================================================
