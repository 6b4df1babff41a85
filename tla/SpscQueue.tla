----------------------------- MODULE SpscQueue ------------------------------
(***************************************************************************)
(* common/lock_free_queue.h: a ring of slots between one producer and one  *)
(* consumer thread that share two atomic indices and no lock.              *)
(*                                                                         *)
(* A slot is plain memory, so that writing it and reading it are steps of  *)
(* their own.  A load of the index that the other thread stores may return *)
(* an old value, though none older than this thread has seen before; what  *)
(* the other thread wrote before a value it released is visible with it.   *)
(***************************************************************************)
EXTENDS Naturals, Sequences

CONSTANTS
  Slots,    \* capacity_: one slot more than the queue can hold
  Value

ASSUME SlotsAssumption == Slots \in Nat \ {0}
ASSUME ValueAssumption == Value # {}

VARIABLES
  buffer, head, tail,
  producer, pushing, seenHead,    \* the call of try_push under way
  consumer, popped, seenTail,     \* the call of try_pop under way
  out                             \* what the latest successful try_pop returned

writing  == <<tail, producer, pushing, seenHead>>
reading  == <<head, consumer, popped, seenTail, out>>
ringVars == <<buffer, head, tail, producer, pushing, seenHead,
              consumer, popped, seenTail, out>>

Index == 0 .. Slots - 1

RingInit ==
  /\ buffer \in [Index -> Value]
  /\ head = 0 /\ tail = 0 /\ seenHead = 0 /\ seenTail = 0
  /\ producer = "idle" /\ consumer = "idle"
  /\ pushing \in Value /\ popped \in Value /\ out \in Value

(* Broken variant: the slot kept free is given away.                       *)
IsFullNever(t, h) == FALSE

next(i) == (i + 1) % Slots

(* The distance from one index to another, going around (size()).          *)
Size(h, t) == IF t >= h THEN t - h ELSE Slots - h + t

(* What a load may return of an index that this thread last saw at s.      *)
Loadable(s, now) == {i \in Index : Size(s, i) <= Size(s, now)}

IsFull(t, h) == next(t) = h

----------------------------------------------------------------------------
TryPush(v) ==
  /\ producer = "idle"
  /\ \E h \in Loadable(seenHead, head) :
       /\ seenHead' = h
       /\ IF IsFull(tail, h) THEN UNCHANGED <<producer, pushing>>
                             ELSE producer' = "write" /\ pushing' = v
  /\ UNCHANGED <<buffer, tail, reading>>

WriteSlot ==
  /\ producer = "write"
  /\ buffer' = [buffer EXCEPT ![tail] = pushing]
  /\ producer' = "publish"
  /\ UNCHANGED <<tail, pushing, seenHead, reading>>

PublishTail ==
  /\ producer = "publish"
  /\ tail' = next(tail)
  /\ producer' = "idle"
  /\ UNCHANGED <<buffer, pushing, seenHead, reading>>

TryPop ==
  /\ consumer = "idle"
  /\ \E t \in Loadable(seenTail, tail) :
       /\ seenTail' = t
       /\ consumer' = IF head = t THEN "idle" ELSE "read"
  /\ UNCHANGED <<buffer, writing, head, popped, out>>

ReadSlot ==
  /\ consumer = "read"
  /\ popped' = buffer[head]
  /\ consumer' = "publish"
  /\ UNCHANGED <<buffer, writing, head, seenTail, out>>

PublishHead ==
  /\ consumer = "publish"
  /\ head' = next(head)
  /\ out' = popped
  /\ consumer' = "idle"
  /\ UNCHANGED <<buffer, writing, popped, seenTail>>

RingNext ==
  \/ \E v \in Value : TryPush(v)
  \/ WriteSlot \/ PublishTail
  \/ TryPop \/ ReadSlot \/ PublishHead

RingSpec == RingInit /\ [][RingNext]_ringVars

----------------------------------------------------------------------------
RingTypeOK ==
  /\ buffer \in [Index -> Value]
  /\ head \in Index /\ tail \in Index /\ seenHead \in Index /\ seenTail \in Index
  /\ producer \in {"idle", "write", "publish"}
  /\ consumer \in {"idle", "read", "publish"}
  /\ pushing \in Value /\ popped \in Value /\ out \in Value

(* No data race: the slot that is being written is not the one being read. *)
NoSlotRace == producer = "write" /\ consumer = "read" => head # tail

(* What is in the ring, oldest first.                                      *)
Slot(h, k) == IF h + k < Slots THEN h + k ELSE h + k - Slots
Items == [k \in 1 .. Size(head, tail) |-> buffer[Slot(head, k - 1)]]

(* The ring is a first-in first-out queue of at most Slots - 1 values,     *)
(* although neither thread ever waits for the other and both work with     *)
(* indices that may be out of date.                                        *)
Fifo == INSTANCE BoundedFifo WITH items <- Items, Capacity <- Slots - 1
IsFifo == Fifo!Spec
=============================================================================
