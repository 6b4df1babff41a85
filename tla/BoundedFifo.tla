---------------------------- MODULE BoundedFifo -----------------------------
(* What a queue between two threads promises: values come out once, in the *)
(* order they went in, and never more than Capacity of them are waiting.   *)
EXTENDS Naturals, Sequences

CONSTANTS Value, Capacity
VARIABLES items, out      \* out: the value the latest pop returned

Init == items = <<>> /\ out \in Value

Push(v) == /\ Len(items) < Capacity
           /\ items' = Append(items, v)
           /\ UNCHANGED out

Pop == /\ items # <<>>
       /\ out' = Head(items)
       /\ items' = Tail(items)

Next == Pop \/ \E v \in Value : Push(v)

Spec == Init /\ [][Next]_<<items, out>>
=============================================================================
