---------------------------- MODULE ThreadsProof ----------------------------
(***************************************************************************)
(* Proofs about the threads of the client: those of a voice session        *)
(* (VoiceThreads, for any set of channels) and the queue without locks     *)
(* between two of them (SpscQueue, for any number of slots and values).    *)
(***************************************************************************)
EXTENDS VoiceThreads, SpscQueue, Integers, TLAPS

----------------------------------------------------------------------------
(* VoiceThreads.  The inductive invariant IInv says, for each label of the *)
(* window's thread, what may still run, is connected and exists: it is the *)
(* order of the shutdown written down.  Fairness is not needed.            *)

(* What exists while the session lives, and that it lives once.            *)
Living ==
  /\ gui \in {"idle"} \cup Starting => parts = Part
  /\ gui \in {"new", "idle", "novoice", "crashed"} \cup Starting => round = 1
  /\ gui = "done" => parts = {}

(* Where a stream may run.                                                 *)
Streams ==
  /\ active_ => gui \in {"idle", "stop"} /\ capture_running_ /\ playback_running_
  /\ capture_running_ =>
       /\ parts = Part
       /\ active_ \/ gui \in {"startPlayback", "undoCapture", "activate", "stopCapture", "crashed"}
  /\ playback_running_ =>
       parts = Part /\ (active_ \/ gui \in {"activate", "stopCapture", "stopPlayback"})
  /\ gui \in {"startPlayback", "undoCapture", "activate"} => capture_running_
  /\ gui = "activate" => playback_running_

(* Where a callback may be in the middle of a frame.                       *)
Callbacks ==
  /\ capturing # "out" => capture_running_ /\ (active_ \/ gui = "stopCapture")
  /\ playing # "out" => playback_running_ /\ (active_ \/ gui \in {"stopCapture", "stopPlayback"})
  /\ held # NoChannel \/ channels_to_mix # {} => playing = "mix"

(* Where the socket may be connected, and its thread run.                  *)
Connection ==
  /\ connected_ =>
       /\ parts = Part /\ round = 1
       /\ gui \notin {"new", "novoice", "engine", "clear", "reset", "done"}
  /\ receiver # "none" => connected_ /\ gui # "close"
  /\ socket_ = "open" => connected_

(* What a shutdown has released stays released.                            *)
Released ==
  /\ initialized_ => round = 1 /\ gui \notin {"clear", "reset", "done"}
  /\ buffers # {} => round = 1 /\ gui \notin {"reset", "done"}

IInv == TypeOK /\ Living /\ Streams /\ Callbacks /\ Connection /\ Released

----------------------------------------------------------------------------
LEMMA InitInv == Init => IInv
BY NoChannelAssumption DEF Init, IInv, TypeOK, Living, Streams, Callbacks,
   Connection, Released, Part, Starting, Ending

(* The window's thread, up to the end of the program.                      *)
LEMMA WindowInv == IInv /\ Window => IInv'
<1> SUFFICES ASSUME IInv, Window PROVE IInv'
  OBVIOUS
<1> USE NoChannelAssumption
    DEF engine, socket, threads, Part, Starting, Ending,
        IInv, TypeOK, Living, Streams, Callbacks, Connection, Released
<1>1. CASE \E failed \in Failures : Initialize(failed)
  <2> PICK failed \in Failures : Initialize(failed)
    BY <1>1
  <2>1. CASE failed = "nothing"
    BY <2>1 DEF Initialize
  <2>2. CASE failed \in {"audio", "encoder", "decoder"}
    BY <2>2 DEF Initialize
  <2>3. CASE failed \in {"socket", "address"}
    BY <2>3 DEF Initialize
  <2> QED
    BY <2>1, <2>2, <2>3 DEF Failures
<1>2. CASE Start
  BY <1>2 DEF Start, Goto
<1>3. CASE SetCallbacks
  BY <1>3 DEF SetCallbacks, Goto
<1>4. CASE StartCapture
  BY <1>4, ZenonT(60) DEF StartCapture, Goto
<1>5. CASE StartPlayback
  BY <1>5, ZenonT(60) DEF StartPlayback, Goto
<1>6. CASE UndoCapture
  BY <1>6, ZenonT(60) DEF UndoCapture, Goto
<1>7. CASE Activate
  BY <1>7 DEF Activate, Goto
<1>8. CASE \E ch \in Channel : JoinChannel(ch)
  BY <1>8 DEF JoinChannel
<1>9. CASE \E ch \in Channel : LeaveChannel(ch)
  BY <1>9 DEF LeaveChannel
<1>10. CASE Exit
  BY <1>10 DEF Exit, Goto
<1> QED
  BY <1>1, <1>2, <1>3, <1>4, <1>5, <1>6, <1>7, <1>8, <1>9, <1>10 DEF Window

(* The shutdown.                                                           *)
LEMMA TeardownInv == IInv /\ Teardown => IInv'
<1> SUFFICES ASSUME IInv, Teardown PROVE IInv'
  OBVIOUS
<1> USE NoChannelAssumption
    DEF engine, socket, threads, Part, Starting, Ending,
        IInv, TypeOK, Living, Streams, Callbacks, Connection, Released
<1>1. CASE Stop
  <2>1. TypeOK'
    <3>1. gui' \in {"stopCapture", "disconnect"}
      BY <1>1 DEF Stop, Goto
    <3>2. /\ active_' = FALSE
          /\ UNCHANGED <<round, parts, engine, socket, threads, buffers>>
      BY <1>1 DEF Stop, Goto
    <3>3. /\ gui' \in {"new", "idle", "novoice", "crashed", "done"} \cup Starting \cup Ending
          /\ active_' \in BOOLEAN
      BY <3>1, <3>2
    <3> HIDE DEF Starting, Ending, Living, Streams, Callbacks, Connection, Released
    <3> QED
      BY <3>2, <3>3
  <2>2. Living' /\ Connection'
    BY <1>1, SMTT(30) DEF Stop, Goto
  <2>3. Streams'
    BY <1>1, SMTT(30) DEF Stop, Goto
  <2>4. Callbacks'
    BY <1>1, SMTT(30) DEF Stop, Goto
  <2>5. Released'
    BY <1>1, SMTT(30) DEF Stop, Goto
  <2> QED
    BY <2>1, <2>2, <2>3, <2>4, <2>5
<1>2. CASE StopCapture
  <2>1. TypeOK'
    <3>1. gui' = "stopPlayback"
      BY <1>2 DEF StopCapture, Goto
    <3>2. /\ capture_running_' = FALSE
          /\ UNCHANGED <<round, parts, initialized_, playback_running_, devices, active_, socket, threads,
                        buffers>>
      BY <1>2 DEF StopCapture, Goto
    <3>3. /\ gui' \in {"new", "idle", "novoice", "crashed", "done"} \cup Starting \cup Ending
          /\ capture_running_' \in BOOLEAN
      BY <3>1, <3>2
    <3> HIDE DEF Starting, Ending, Living, Streams, Callbacks, Connection, Released
    <3> QED
      BY <3>2, <3>3
  <2>2. Living' /\ Connection'
    BY <1>2, SMTT(30) DEF StopCapture, Goto
  <2>3. Streams'
    BY <1>2, SMTT(30) DEF StopCapture, Goto
  <2>4. Callbacks'
    BY <1>2, SMTT(30) DEF StopCapture, Goto
  <2>5. Released'
    BY <1>2, SMTT(30) DEF StopCapture, Goto
  <2> QED
    BY <2>1, <2>2, <2>3, <2>4, <2>5
<1>3. CASE StopPlayback
  BY <1>3, ZenonT(60) DEF StopPlayback, Goto
<1>4. CASE Disconnect
  BY <1>4, ZenonT(60) DEF Disconnect, Goto
<1>5. CASE JoinReceiver
  BY <1>5, SMTT(30) DEF JoinReceiver, Goto
<1>6. CASE CloseSocket
  BY <1>6, ZenonT(60) DEF CloseSocket, Goto
<1>7. CASE ShutdownEngine
  BY <1>7, ZenonT(60) DEF ShutdownEngine, Goto
<1>8. CASE ClearChannels
  BY <1>8, SMTT(30) DEF ClearChannels, Goto
<1>9. CASE ResetParts
  BY <1>9, SMTT(30) DEF ResetParts, Goto
<1> QED
  BY <1>1, <1>2, <1>3, <1>4, <1>5, <1>6, <1>7, <1>8, <1>9 DEF Teardown

(* The two callbacks and the receive thread.                               *)
LEMMA CaptureInv == IInv /\ Capture => IInv'
<1> SUFFICES ASSUME IInv, Capture PROVE IInv'
  OBVIOUS
<1> USE NoChannelAssumption
    DEF engine, socket, threads, Part, Starting, Ending,
        IInv, TypeOK, Living, Streams, Callbacks, Connection, Released
<1>1. CASE CaptureEnters
  BY <1>1 DEF CaptureEnters
<1>2. CASE CaptureEncodes
  BY <1>2 DEF CaptureEncodes
<1>3. CASE CaptureSends
  BY <1>3 DEF CaptureSends
<1> QED
  BY <1>1, <1>2, <1>3 DEF Capture


LEMMA PlaybackInv == IInv /\ Playback => IInv'
<1> SUFFICES ASSUME IInv, Playback PROVE IInv'
  OBVIOUS
<1> USE NoChannelAssumption
    DEF engine, socket, threads, Part, Starting, Ending,
        IInv, TypeOK, Living, Streams, Callbacks, Connection, Released
<1>1. CASE PlaybackEnters
  BY <1>1 DEF PlaybackEnters
<1>2. CASE \E ch \in Channel : TakeBuffer(ch)
  <2> PICK ch \in Channel : TakeBuffer(ch)
    BY <1>2
  <2>1. playing = "mix"
    BY DEF TakeBuffer
  <2> QED
    BY <2>1 DEF TakeBuffer
<1>3. CASE PopBuffer
  <2>1. UNCHANGED <<gui, round, parts, engine, active_, socket, receiver, capturing, playing,
                    channels_to_mix, buffers>>
    BY <1>3 DEF PopBuffer
  <2>2. held' = NoChannel
    BY <1>3, Zenon DEF PopBuffer
  <2>3. Living' /\ Streams' /\ Connection' /\ Released'
    BY <2>1
  <2>4. Callbacks'
    BY <2>1, <2>2
  <2>5. TypeOK'
    <3>1. held' \in Channel \cup {NoChannel}
      BY <2>2
    <3> HIDE DEF Starting, Ending, Living, Streams, Callbacks, Connection, Released
    <3> QED
      BY <2>1, <3>1
  <2> QED
    BY <2>3, <2>4, <2>5
<1>4. CASE PlaybackReturns
  BY <1>4 DEF PlaybackReturns
<1> QED
  BY <1>1, <1>2, <1>3, <1>4 DEF Playback, Mix


LEMMA ReceiveInv == IInv /\ Receive => IInv'
<1> SUFFICES ASSUME IInv, Receive PROVE IInv'
  OBVIOUS
<1> USE NoChannelAssumption
    DEF engine, socket, threads, Part, Starting, Ending,
        IInv, TypeOK, Living, Streams, Callbacks, Connection, Released
<1>1. CASE ReceivePacket
  BY <1>1 DEF ReceivePacket, Receiver
<1>2. CASE Decode
  BY <1>2 DEF Decode, Receiver
<1>3. CASE PushPacket
  BY <1>3 DEF PushPacket, Receiver
<1>4. CASE EndReceiver
  BY <1>4 DEF EndReceiver, Receiver
<1> QED
  BY <1>1, <1>2, <1>3, <1>4 DEF Receive

(* IInv is inductive and holds throughout.                                 *)
LEMMA Inductive == Spec => []IInv
<1>1. IInv /\ UNCHANGED vars => IInv'
  BY DEF vars, IInv, TypeOK, Living, Streams, Callbacks, Connection, Released
<1>2. IInv /\ [Next]_vars => IInv'
  BY <1>1, WindowInv, TeardownInv, CaptureInv, PlaybackInv, ReceiveInv DEF Next
<1> QED
  BY <1>2, InitInv, PTL DEF Spec

----------------------------------------------------------------------------
(* The labels of the threads and of the shutdown are the listed ones.      *)
THEOREM TypeCorrect == Spec => []TypeOK
<1>1. IInv => TypeOK
  BY DEF IInv
<1> QED
  BY <1>1, Inductive, PTL

(* Whatever the threads do while the window's thread takes the session     *)
(* down, none of them uses a part of it that was destroyed.                *)
THEOREM PartsOutliveUses == Spec => []NoUseAfterFree
<1>1. IInv => NoUseAfterFree
  BY DEF IInv, TypeOK, Streams, Callbacks, Connection, NoUseAfterFree, Part
<1> QED
  BY <1>1, Inductive, PTL

(* After stop() both streams rest and neither callback is inside.          *)
THEOREM Silence == Spec => []SilentWhenStopped
<1>1. IInv => SilentWhenStopped
  BY DEF IInv, TypeOK, Streams, Callbacks, SilentWhenStopped
<1> QED
  BY <1>1, Inductive, PTL

(* start() sets the callbacks while no stream runs, however often a start  *)
(* before failed half way.                                                 *)
THEOREM SetAtRest == Spec => []CallbacksSetAtRest
<1>1. IInv => CallbacksSetAtRest
  BY DEF IInv, TypeOK, Streams, CallbacksSetAtRest
<1> QED
  BY <1>1, Inductive, PTL

(* The two shutdowns together leave no thread, stream or connected socket. *)
THEOREM AllReleased == Spec => []EverythingReleased
<1>1. IInv => EverythingReleased
  BY DEF IInv, TypeOK, Living, Connection, Released, EverythingReleased
<1> QED
  BY <1>1, Inductive, PTL
----------------------------------------------------------------------------
(* SpscQueue.  The invariant orders the four indices around the ring: what *)
(* the producer knows of head is behind it, what the consumer knows of     *)
(* tail is between head and tail, and each is safe to act upon.            *)
USE SlotsAssumption, ValueAssumption

(* Arithmetic around the ring.                                             *)
LEMMA NextIs ==
  ASSUME NEW i \in Index
  PROVE  next(i) = IF i = Slots - 1 THEN 0 ELSE i + 1
BY DEF next, Index

LEMMA SlotIs ==
  ASSUME NEW h \in Index, NEW k \in Index
  PROVE  Slot(h, k) \in Index /\ Size(h, Slot(h, k)) = k
BY DEF Slot, Size, Index

(* Slots ahead of h are met in order, one after the other.                 *)
LEMMA SlotNext ==
  ASSUME NEW h \in Index, NEW k \in Index, k + 1 \in Index
  PROVE  Slot(next(h), k) = Slot(h, k + 1)
BY NextIs DEF Slot, Index

LEMMA SizeNext ==
  ASSUME NEW h \in Index, NEW t \in Index
  PROVE  /\ Size(h, t) \in Index /\ Slot(h, Size(h, t)) = t
         /\ next(t) \in Index
         /\ next(t) # h => Size(h, next(t)) = Size(h, t) + 1
         /\ h # t => Size(next(h), t) = Size(h, t) - 1 /\ Size(h, t) > 0
         /\ h = t => Size(h, t) = 0
BY NextIs DEF Slot, Size, Index

(* Going from a to c by way of b.                                          *)
Between(a, b, c) == Size(a, b) + Size(b, c) = Size(a, c)

(* The order around the ring survives a step of the last, the first or the *)
(* middle one of three.                                                    *)
LEMMA LastMoves ==
  ASSUME NEW a \in Index, NEW b \in Index, NEW c \in Index,
         Between(a, b, c), next(c) # a, next(c) # b
  PROVE  Between(a, b, next(c))
<1>1. Size(a, next(c)) = Size(a, c) + 1 /\ Size(b, next(c)) = Size(b, c) + 1
  BY SizeNext
<1>2. Size(a, b) \in Int /\ Size(a, c) \in Int /\ Size(b, c) \in Int
  BY DEF Size, Index
<1> QED
  BY <1>1, <1>2 DEF Between

LEMMA FirstMoves ==
  ASSUME NEW a \in Index, NEW b \in Index, NEW c \in Index,
         Between(a, b, c), a # b, a # c
  PROVE  Between(next(a), b, c)
<1>1. Size(next(a), b) = Size(a, b) - 1 /\ Size(next(a), c) = Size(a, c) - 1
  BY SizeNext
<1>2. Size(a, b) \in Int /\ Size(a, c) \in Int /\ Size(b, c) \in Int
  BY DEF Size, Index
<1> QED
  BY <1>1, <1>2 DEF Between

LEMMA MiddleMoves ==
  ASSUME NEW a \in Index, NEW b \in Index, NEW c \in Index,
         Between(a, b, c), b # c, next(b) # a
  PROVE  Between(a, next(b), c)
<1>1. Size(a, next(b)) = Size(a, b) + 1 /\ Size(next(b), c) = Size(b, c) - 1
  BY SizeNext
<1>2. Size(a, b) \in Int /\ Size(a, c) \in Int /\ Size(b, c) \in Int
  BY DEF Size, Index
<1> QED
  BY <1>1, <1>2 DEF Between

----------------------------------------------------------------------------
Ordered ==
  /\ Between(seenHead, head, tail)
  /\ Between(head, seenTail, tail)
  /\ producer # "idle" => next(tail) # seenHead
  /\ consumer # "idle" => head # seenTail

Copied ==
  /\ producer = "publish" => buffer[tail] = pushing
  /\ consumer = "publish" => buffer[head] = popped

RingInv == RingTypeOK /\ Ordered /\ Copied

(* Who reads has something before it, and who writes has room.             *)
LEMMA Distances ==
  ASSUME RingInv
  PROVE  /\ consumer # "idle" => head # tail
         /\ producer # "idle" => next(tail) # head /\ Size(head, tail) < Slots - 1
                                   /\ next(tail) # seenTail
         /\ consumer # "idle" => next(head) # seenHead
BY NextIs DEF RingInv, RingTypeOK, Ordered, Between, Size, Index
LEMMA RingInitInv == RingInit => RingInv
BY DEF RingInit, RingInv, RingTypeOK, Ordered, Copied, Between, Size, Index

LEMMA RingStepInv == RingInv /\ [RingNext]_ringVars => RingInv'
<1> SUFFICES ASSUME RingInv, [RingNext]_ringVars PROVE RingInv'
  OBVIOUS
<1> USE NextIs, Distances DEF RingInv, RingTypeOK, Ordered, Copied, Between, Size, Index, reading, writing
<1>1. ASSUME NEW v \in Value, TryPush(v)
      PROVE  RingInv'
  BY <1>1 DEF TryPush, IsFull, Loadable
<1>2. CASE WriteSlot
  BY <1>2 DEF WriteSlot
<1>3. CASE PublishTail
  <2>1. RingTypeOK'
    BY <1>3 DEF PublishTail
  <2>2. Between(seenHead, head, tail)' /\ Between(head, seenTail, tail)'
    <3>1. /\ UNCHANGED <<head, seenHead, seenTail>> /\ tail' = next(tail)
          /\ next(tail) \notin {head, seenHead, seenTail}
      BY <1>3 DEF PublishTail
    <3>2. Between(seenHead, head, next(tail)) /\ Between(head, seenTail, next(tail))
      BY <3>1, LastMoves
    <3> QED
      BY <3>1, <3>2
  <2>4. (producer # "idle" => next(tail) # seenHead)' /\ (consumer # "idle" => head # seenTail)'
    BY <1>3 DEF PublishTail
  <2>5. Copied'
    BY <1>3 DEF PublishTail
  <2> QED
    BY <2>1, <2>2, <2>4, <2>5
<1>4. CASE TryPop
  BY <1>4 DEF TryPop, Loadable
<1>5. CASE ReadSlot
  BY <1>5 DEF ReadSlot
<1>6. CASE PublishHead
  <2>1. RingTypeOK'
    BY <1>6 DEF PublishHead
  <2>2. Between(seenHead, head, tail)' /\ Between(head, seenTail, tail)'
    <3>1. /\ UNCHANGED <<tail, seenHead, seenTail>> /\ head' = next(head)
          /\ next(head) # seenHead /\ head \notin {tail, seenTail}
      BY <1>6 DEF PublishHead
    <3>2. {head, tail, seenHead, seenTail} \subseteq Index
      BY DEF RingInv, RingTypeOK
    <3>3. Between(seenHead, head, tail) /\ Between(head, seenTail, tail)
      BY DEF RingInv, Ordered
    <3>4. Between(seenHead, next(head), tail)
      BY <3>1, <3>2, <3>3, MiddleMoves
    <3>5. Between(next(head), seenTail, tail)
      BY <3>1, <3>2, <3>3, FirstMoves
    <3> QED
      BY <3>1, <3>4, <3>5
  <2>4. (producer # "idle" => next(tail) # seenHead)' /\ (consumer # "idle" => head # seenTail)'
    BY <1>6 DEF PublishHead
  <2>5. Copied'
    BY <1>6 DEF PublishHead
  <2> QED
    BY <2>1, <2>2, <2>4, <2>5
<1>7. CASE UNCHANGED ringVars
  BY <1>7 DEF ringVars
<1> QED
  BY <1>1, <1>2, <1>3, <1>4, <1>5, <1>6, <1>7 DEF RingNext

(* RingInv is inductive and holds throughout.                                 *)
LEMMA RingInductive == RingSpec => []RingInv
BY RingInitInv, RingStepInv, PTL DEF RingSpec

----------------------------------------------------------------------------
(* The indices stay in the ring, the slots hold values.                    *)
THEOREM RingTypeCorrect == RingSpec => []RingTypeOK
<1>1. RingInv => RingTypeOK
  BY DEF RingInv
<1> QED
  BY <1>1, RingInductive, PTL

(* With any number of slots, no slot is written while it is read.          *)
THEOREM NoRace == RingSpec => []NoSlotRace
<1>1. RingInv => NoSlotRace
  BY Distances DEF NoSlotRace
<1> QED
  BY <1>1, RingInductive, PTL

----------------------------------------------------------------------------
(* What each step does to the items of the abstract queue.                 *)
Kept == Items' = Items /\ out' = out

LEMMA ItemsOf ==
  ASSUME NEW b \in [Index -> Value], NEW h \in Index, NEW t \in Index,
         NEW q, q = [k \in 1 .. Size(h, t) |-> b[Slot(h, k - 1)]]
  PROVE  /\ q \in Seq(Value) /\ Len(q) = Size(h, t)
         /\ \A k \in 1 .. Size(h, t) : q[k] = b[Slot(h, k - 1)]
<1>1. Size(h, t) \in Nat /\ Size(h, t) \in Index
  BY DEF Size, Index
<1>2. ASSUME NEW k \in 1 .. Size(h, t)
      PROVE  Slot(h, k - 1) \in Index
  <2>1. k - 1 \in Index
    BY <1>1, <1>2 DEF Index
  <2> QED
    BY <2>1, SlotIs
<1> QED
  BY <1>1, <1>2

LEMMA ItemsType ==
  ASSUME RingInv
  PROVE  /\ Items \in Seq(Value) /\ Len(Items) = Size(head, tail)
         /\ \A k \in 1 .. Size(head, tail) : Items[k] = buffer[Slot(head, k - 1)]
BY ItemsOf DEF Items, RingInv, RingTypeOK

LEMMA Unmoved ==
  ASSUME UNCHANGED <<buffer, head, tail, out>>
  PROVE  Kept
BY DEF Kept, Items

(* The slot that is written is not one of those that hold items.           *)
LEMMA WriteKeeps ==
  ASSUME RingInv, WriteSlot PROVE Kept
<1>1. head' = head /\ tail' = tail /\ out' = out /\ buffer' = [buffer EXCEPT ![tail] = pushing]
  BY DEF WriteSlot, reading
<1>2. Size(head, tail) \in Index /\ head \in Index /\ tail \in Index
  BY SizeNext DEF RingInv, RingTypeOK
<1>3. \A k \in 1 .. Size(head, tail) : Slot(head, k - 1) \in Index /\ Slot(head, k - 1) # tail
  <2> TAKE k \in 1 .. Size(head, tail)
  <2>1. k - 1 \in Index /\ k - 1 # Size(head, tail)
    BY <1>2 DEF Index
  <2> QED
    BY <1>2, <2>1, SlotIs
<1>4. \A k \in 1 .. Size(head, tail) : buffer'[Slot(head, k - 1)] = buffer[Slot(head, k - 1)]
  BY <1>1, <1>3 DEF RingInv, RingTypeOK
<1> QED
  BY <1>1, <1>4 DEF Kept, Items

LEMMA PublishPushes ==
  ASSUME RingInv, PublishTail PROVE Fifo!Push(pushing)
<1> DEFINE n == Size(head, tail)
<1>1. head' = head /\ tail' = next(tail) /\ out' = out /\ buffer' = buffer
  BY DEF PublishTail, reading
<1>2. n \in Index /\ n < Slots - 1 /\ Slot(head, n) = tail /\ buffer[tail] = pushing
  BY SizeNext, Distances DEF RingInv, RingTypeOK, Copied, PublishTail
<1>3. Size(head, tail)' = n + 1
  BY <1>1, SizeNext, Distances DEF RingInv, RingTypeOK, PublishTail
<1>4. RingInv'
  BY RingStepInv DEF RingNext
<1>5. Items' \in Seq(Value) /\ Len(Items') = n + 1
  <2>1. buffer' \in [Index -> Value] /\ head' \in Index /\ tail' \in Index
    BY <1>4 DEF RingInv, RingTypeOK
  <2>2. Items' = [k \in 1 .. Size(head', tail') |-> buffer'[Slot(head', k - 1)]]
    BY DEF Items
  <2>3. Size(head', tail') = n + 1
    BY <1>3
  <2> QED
    BY <2>1, <2>2, <2>3, ItemsOf
<1>6. ASSUME NEW k \in 1 .. n + 1
      PROVE  Items'[k] = Append(Items, pushing)[k]
  <2>1. Items'[k] = buffer[Slot(head, k - 1)]
    BY <1>1, <1>3, <1>6 DEF Items
  <2>2. Items \in Seq(Value) /\ Len(Items) = n /\ n \in Nat /\ pushing \in Value
    BY <1>2, ItemsType DEF RingInv, RingTypeOK, Index
  <2>3. CASE k = n + 1
    BY <1>2, <2>1, <2>2, <2>3
  <2>4. CASE k # n + 1
    <3>1. Items[k] = buffer[Slot(head, k - 1)]
      BY <2>2, <2>4, ItemsType
    <3> QED
      BY <2>1, <2>2, <2>4, <3>1
  <2> QED
    BY <2>3, <2>4
<1>7. Items' = Append(Items, pushing)
  <2>1. Append(Items, pushing) \in Seq(Value) /\ Len(Append(Items, pushing)) = n + 1
    BY ItemsType DEF RingInv, RingTypeOK
  <2> HIDE DEF n
  <2> QED
    BY <1>5, <1>6, <2>1
<1> QED
  BY <1>1, <1>2, <1>7, ItemsType DEF Fifo!Push

LEMMA PublishPops ==
  ASSUME RingInv, PublishHead PROVE Fifo!Pop
<1> DEFINE n == Size(head, tail)
<1>1. head' = next(head) /\ tail' = tail /\ out' = popped /\ buffer' = buffer
  BY DEF PublishHead, writing
<1>2. head \in Index /\ tail \in Index /\ head # tail /\ n \in Index /\ n > 0 /\ popped = buffer[head]
  BY SizeNext, Distances DEF RingInv, RingTypeOK, Copied, PublishHead
<1>3. Size(head, tail)' = n - 1
  BY <1>1, <1>2, SizeNext
<1>4. RingInv'
  BY RingStepInv DEF RingNext
<1>5. Items \in Seq(Value) /\ Len(Items) = n /\ Items' \in Seq(Value) /\ Len(Items') = n - 1
  <2>1. buffer' \in [Index -> Value] /\ head' \in Index /\ tail' \in Index
    BY <1>4 DEF RingInv, RingTypeOK
  <2>2. Items' = [k \in 1 .. Size(head', tail') |-> buffer'[Slot(head', k - 1)]]
    BY DEF Items
  <2>3. Size(head', tail') = n - 1
    BY <1>3
  <2> QED
    BY <2>1, <2>2, <2>3, ItemsOf, ItemsType
<1>6. Items # <<>> /\ Head(Items) = popped
  <2>1. Items[1] = buffer[Slot(head, 0)] /\ Slot(head, 0) = head
    BY <1>2, ItemsType DEF Slot, Index
  <2> QED
    BY <1>2, <1>5, <2>1
<1>7. ASSUME NEW k \in 1 .. n - 1
      PROVE  Items'[k] = Tail(Items)[k]
  <2>1. Items'[k] = buffer[Slot(next(head), k - 1)]
    BY <1>1, <1>3, <1>7 DEF Items
  <2>2. k - 1 \in Index /\ (k - 1) + 1 \in Index /\ (k - 1) + 1 = k /\ k + 1 \in 1 .. n /\ k = (k + 1) - 1
    BY <1>2 DEF Index
  <2>3. Slot(next(head), k - 1) = Slot(head, k)
    BY <1>2, <2>2, SlotNext
  <2>4. Items[k + 1] = buffer[Slot(head, k)]
    BY <2>2, ItemsType
  <2> QED
    BY <1>2, <1>5, <2>1, <2>3, <2>4
<1>8. Items' = Tail(Items)
  <2>1. Tail(Items) \in Seq(Value) /\ Len(Tail(Items)) = n - 1
    BY <1>5, <1>6
  <2> HIDE DEF n
  <2> QED
    BY <1>5, <1>7, <2>1
<1> QED
  BY <1>1, <1>6, <1>8 DEF Fifo!Pop

(* With any number of slots the ring is a first-in first-out queue of one  *)
(* value less: every step of the two threads is a push, a pop or nothing.  *)
THEOREM Refinement == RingSpec => IsFifo
<1>1. RingInit => Fifo!Init
  BY DEF RingInit, Fifo!Init, Items, Size
<1>2. ASSUME RingInv, [RingNext]_ringVars
      PROVE  [Fifo!Next]_<<Items, out>>
  <2>1. ASSUME NEW v \in Value, TryPush(v) PROVE Kept
    BY <2>1, Unmoved DEF TryPush, reading
  <2>2. CASE WriteSlot
    BY <1>2, <2>2, WriteKeeps DEF Kept
  <2>3. CASE PublishTail
    BY <1>2, <2>3, PublishPushes DEF Fifo!Next, RingInv, RingTypeOK
  <2>4. CASE TryPop
    BY <2>4, Unmoved DEF TryPop, writing, Kept
  <2>5. CASE ReadSlot
    BY <2>5, Unmoved DEF ReadSlot, writing, Kept
  <2>6. CASE PublishHead
    BY <1>2, <2>6, PublishPops DEF Fifo!Next
  <2>7. CASE UNCHANGED ringVars
    BY <2>7, Unmoved DEF ringVars, Kept
  <2> QED
    BY <1>2, <2>1, <2>2, <2>3, <2>4, <2>5, <2>6, <2>7 DEF RingNext, Kept
<1> QED
  BY <1>1, <1>2, RingInductive, PTL DEF RingSpec, IsFifo, Fifo!Spec
=============================================================================
