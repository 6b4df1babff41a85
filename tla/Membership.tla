----------------------------- MODULE Membership -----------------------------
(***************************************************************************)
(* What the control plane promises, without connections, handlers or       *)
(* outboxes: a user comes online, joins and leaves channels while online,  *)
(* and disappears from every channel in the instant it goes offline.       *)
(***************************************************************************)
CONSTANTS User, Channel
VARIABLES online, members

vars == <<online, members>>

Init == /\ online  = {}
        /\ members = [ch \in Channel |-> {}]

Login(u) == /\ u \notin online
            /\ online' = online \cup {u}
            /\ UNCHANGED members

Join(u, ch) == /\ u \in online
               /\ members' = [members EXCEPT ![ch] = @ \cup {u}]
               /\ UNCHANGED online

Leave(u, ch) == /\ u \in online
                /\ members' = [members EXCEPT ![ch] = @ \ {u}]
                /\ UNCHANGED online

Logout(u) == /\ u \in online
             /\ online'  = online \ {u}
             /\ members' = [ch \in Channel |-> members[ch] \ {u}]

Next == \E u \in User :
  \/ Login(u) \/ Logout(u)
  \/ \E ch \in Channel : Join(u, ch) \/ Leave(u, ch)

Spec == Init /\ [][Next]_vars
=============================================================================
