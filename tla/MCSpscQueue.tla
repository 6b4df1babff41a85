---------------------------- MODULE MCSpscQueue -----------------------------
(* Small instances of SpscQueue. *)
EXTENDS SpscQueue
=============================================================================
