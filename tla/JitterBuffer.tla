---------------------------- MODULE JitterBuffer ----------------------------
(***************************************************************************)
(* client/src/audio/jitter_buffer.cpp: the frames received for a channel,  *)
(* put back into order until the sound card asks for the next one.         *)
(*                                                                         *)
(* A buffer is a record: q is the deque, next the sequence number that is  *)
(* to be played next, begun whether a first packet has fixed it.  A frame  *)
(* is any record with a field seq.                                         *)
(***************************************************************************)
EXTENDS Naturals, Sequences

CONSTANT Target     \* target_buffer_size_: frames to have before one is played
ASSUME TargetAssumption == Target \in Nat \ {0}

Capacity == 2 * Target   \* max_packets_

Empty == [q |-> <<>>, next |-> 0, begun |-> FALSE]

Holds(q, seq) == \E i \in 1 .. Len(q) : q[i].seq = seq

(* find_insertion_point: std::lower_bound, on a deque that is sorted.      *)
InsertionPoint(q, seq) ==
  CHOOSE p \in 1 .. Len(q) + 1 :
    /\ \A i \in 1 .. p - 1    : q[i].seq < seq
    /\ \A i \in p .. Len(q)   : q[i].seq >= seq

Inserted(q, f) ==
  LET p == InsertionPoint(q, f.seq)
  IN [i \in 1 .. Len(q) + 1 |-> IF i < p THEN q[i] ELSE IF i = p THEN f ELSE q[i - 1]]

(* The first packet ever pushed is the first one to play.                  *)
Begun(b, f) == IF b.begun THEN b ELSE [b EXCEPT !.next = f.seq, !.begun = TRUE]

(* Neither before the next frame nor too far ahead of it.                  *)
InReach(b, f) == b.next <= f.seq /\ f.seq <= b.next + Capacity

(* A full buffer loses its oldest frame, before it is known whether the    *)
(* new one is a duplicate.                                                 *)
RoomMade(q) == IF Len(q) >= Capacity THEN Tail(q) ELSE q

(* Broken variant: the search for a duplicate is forgotten.                *)
PushedBlindly(b, f) ==
  LET s == Begun(b, f)
  IN IF InReach(s, f) THEN [s EXCEPT !.q = Inserted(RoomMade(s.q), f)] ELSE s

Pushed(b, f) ==
  LET s == Begun(b, f)
      q == RoomMade(s.q)
  IN IF ~InReach(s, f) THEN s
     ELSE [s EXCEPT !.q = IF Holds(q, f.seq) THEN q ELSE Inserted(q, f)]

(* pop: nothing until there are enough frames; then the next frame, or an  *)
(* empty one in its place while only later ones are there.                 *)
Buffered(b) == Len(b.q) >= Target
PlaysFrame(b)   == Buffered(b) /\ Head(b.q).seq = b.next
ConcealsLoss(b) == Buffered(b) /\ Head(b.q).seq > b.next

Popped(b) ==
  CASE PlaysFrame(b)   -> [b EXCEPT !.q = Tail(@), !.next = @ + 1]
    [] ConcealsLoss(b) -> [b EXCEPT !.next = @ + 1]
    [] OTHER           -> b

(* The deque is strictly sorted, within its capacity, and never behind the *)
(* next sequence number: the end of pop that the code marks "Should never  *)
(* reach here" is dead.                                                    *)
WellFormed(b) ==
  /\ \A i, j \in 1 .. Len(b.q) : i < j => b.q[i].seq < b.q[j].seq
  /\ \A i \in 1 .. Len(b.q) : b.q[i].seq >= b.next
  /\ Len(b.q) <= Capacity
=============================================================================
