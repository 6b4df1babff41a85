-------------------------- MODULE MCControlServer --------------------------
(* Small instances of ControlServer.  Connections and channels of one kind *)
(* are interchangeable, so TLC may identify states up to renaming them.    *)
(* Whether a peer vanished silently bears on fairness only, so the runs    *)
(* that check safety do not tell those states apart either.                *)
EXTENDS ControlServer, TLC

Renamings == Permutations(Conn) \cup Permutations(User) \cup Permutations(Channel)

SafetyView == <<task, alive, answered, told, overtaken, shared>>
=============================================================================
