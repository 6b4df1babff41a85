--------------------------- MODULE VoicePathProof ---------------------------
(***************************************************************************)
(* Proofs about VoicePath for any set of speakers and channels, any size   *)
(* of the replay window and of the jitter buffers, and any number of       *)
(* packets: the window accepts no number but 0 twice, the buffers stay     *)
(* sorted and bounded, and so no frame is ever played a second time.       *)
(***************************************************************************)
EXTENDS VoicePath, TLAPS, FiniteSetTheorems, SequenceTheorems

USE ChannelAssumption, HeardAssumption, BoundAssumption, WindowAssumption, TargetAssumption

----------------------------------------------------------------------------
(* A window stays a window.                                                *)
LEMMA AdvancedType ==
  ASSUME NEW w \in Window, NEW t \in Nat, Accepts(w, t)
  PROVE  Advanced(w, t) \in Window
<1>1. CASE w.max = 0
  BY <1>1 DEF Window, Advanced, Positions
<1>2. CASE w.max # 0 /\ t > w.max
  BY <1>2 DEF Window, Advanced, Positions
<1>3. CASE w.max # 0 /\ ~(t > w.max)
  <2>1. w.max - t \in Positions
    BY <1>3 DEF Window, Accepts, Positions
  <2> QED
    BY <1>3, <2>1 DEF Window, Advanced
<1> QED
  BY <1>1, <1>2, <1>3

(* What a window has accepted it refuses from then on.                     *)
LEMMA AcceptedOnce ==
  ASSUME NEW w \in Window, NEW t \in Nat, Accepts(w, t), t # 0
  PROVE  ~Accepts(Advanced(w, t), t)
<1>1. CASE w.max = 0
  BY <1>1 DEF Window, Advanced, Accepts, Positions
<1>2. CASE w.max # 0 /\ t > w.max
  BY <1>2 DEF Window, Advanced, Accepts, Positions
<1>3. CASE w.max # 0 /\ ~(t > w.max)
  BY <1>3 DEF Window, Advanced, Accepts, Positions
<1> QED
  BY <1>1, <1>2, <1>3

(* And it goes on refusing it, whatever else it accepts.                   *)
LEMMA RefusedForGood ==
  ASSUME NEW w \in Window, NEW s \in Nat, NEW t \in Nat,
         ~Accepts(w, s), Accepts(w, t)
  PROVE  ~Accepts(Advanced(w, t), s)
<1>1. w.max # 0 /\ s <= w.max
  BY DEF Accepts, Window
<1>2. CASE t > w.max
  <2>1. Advanced(w, t).max = t
    BY <1>1, <1>2 DEF Advanced
  <2>2. CASE t - s < WindowSize
    <3>1. w.max - s \in w.bits
      BY <1>1, <1>2, <2>2 DEF Accepts, Window
    <3>2. t - s \in Positions /\ (t - s) - (t - w.max) = w.max - s /\ t - s >= t - w.max
      BY <1>1, <1>2, <2>2 DEF Positions, Window
    <3>3. t - s \in Advanced(w, t).bits
      BY <1>1, <1>2, <3>1, <3>2 DEF Advanced
    <3> QED
      BY <1>1, <1>2, <2>1, <3>3 DEF Accepts, Window
  <2> QED
    BY <1>1, <1>2, <2>1, <2>2 DEF Accepts, Window
<1>3. CASE ~(t > w.max)
  <2>1. Advanced(w, t).max = w.max /\ w.bits \subseteq Advanced(w, t).bits
    BY <1>1, <1>3 DEF Advanced, Window
  <2> QED
    BY <1>1, <2>1 DEF Accepts, Window
<1> QED
  BY <1>2, <1>3

----------------------------------------------------------------------------
Buffers == [q : Seq(Packet), next : Nat, begun : BOOLEAN]

Sorted(q) == \A i, j \in 1 .. Len(q) : i < j => q[i].seq < q[j].seq

(* In a sorted deque lower_bound has one and only one answer.              *)
LEMMA InsertionPointExists ==
  ASSUME NEW q \in Seq(Packet), Sorted(q), NEW s \in Nat
  PROVE  \E p \in 1 .. Len(q) + 1 :
           /\ \A i \in 1 .. p - 1  : q[i].seq < s
           /\ \A i \in p .. Len(q) : q[i].seq >= s
<1> DEFINE A == {i \in 1 .. Len(q) : q[i].seq < s}
           n == Cardinality(A)
<1>0. Len(q) \in Nat
  OBVIOUS
<1>a. ASSUME NEW i \in 1 .. Len(q) PROVE q[i].seq \in Nat
  <2>1. q[i] \in Packet
    BY ElementOfSeq
  <2> QED
    BY <2>1 DEF Packet
<1>1. IsFiniteSet(1 .. Len(q)) /\ Cardinality(1 .. Len(q)) = Len(q)
  <2> DEFINE m == Len(q)
  <2>1. m \in Nat
    OBVIOUS
  <2> HIDE DEF m
  <2>2. IsFiniteSet(1 .. m) /\ Cardinality(1 .. m) = m
    BY <2>1, FS_Interval
  <2> QED
    BY <2>2 DEF m
<1>2. IsFiniteSet(A) /\ n \in Nat /\ n <= Len(q)
  BY <1>1, FS_Subset, FS_CardinalityType
<1>3. \A i \in A : i <= n
  <2> SUFFICES ASSUME NEW i \in A PROVE i <= n
    OBVIOUS
  <2>1. 1 .. i \subseteq A
    BY <1>0, <1>a DEF Sorted
  <2>2. Cardinality(1 .. i) = i
    BY FS_Interval
  <2> QED
    BY <1>2, <2>1, <2>2, FS_Subset
<1>4. A = 1 .. n
  <2>1. A \subseteq 1 .. n
    BY <1>2, <1>3
  <2>2. IsFiniteSet(1 .. n) /\ Cardinality(1 .. n) = n
    BY <1>2, FS_Interval
  <2> QED
    BY <2>1, <2>2, FS_Subset
<1>5. \A i \in 1 .. (n + 1) - 1 : q[i].seq < s
  BY <1>2, <1>4
<1>6. \A i \in n + 1 .. Len(q) : q[i].seq >= s
  <2> SUFFICES ASSUME NEW i \in n + 1 .. Len(q) PROVE q[i].seq >= s
    OBVIOUS
  <2>1. i \in 1 .. Len(q) /\ i \notin A
    <3> HIDE DEF A, n
    <3> QED
      BY <1>0, <1>2, <1>4
  <2>2. ~(q[i].seq < s)
    BY <2>1
  <2> QED
    BY <1>a, <2>1, <2>2
<1>7. n + 1 \in 1 .. Len(q) + 1
  BY <1>0, <1>2
<1> HIDE DEF n
<1> QED
  BY <1>5, <1>6, <1>7

(* A buffer as push and pop leave it: well formed, and empty before the    *)
(* first packet.                                                           *)
Sound(b) == b \in Buffers /\ WellFormed(b) /\ (~b.begun => b.q = <<>>)

Waiting(b) == {b.q[i] : i \in 1 .. Len(b.q)}

(* Inserting a new number keeps the deque sorted and adds nothing else.    *)
LEMMA InsertedSorted ==
  ASSUME NEW q \in Seq(Packet), Sorted(q), NEW f \in Packet, ~Holds(q, f.seq)
  PROVE  /\ Inserted(q, f) \in Seq(Packet)
         /\ Len(Inserted(q, f)) = Len(q) + 1
         /\ Sorted(Inserted(q, f))
         /\ \A i \in 1 .. Len(q) + 1 :
              Inserted(q, f)[i] = f \/ \E j \in 1 .. Len(q) : Inserted(q, f)[i] = q[j]
<1> DEFINE p == InsertionPoint(q, f.seq)
           n == Len(q)
           e(i) == IF i < p THEN q[i] ELSE IF i = p THEN f ELSE q[i - 1]
           r == [i \in 1 .. n + 1 |-> e(i)]
<1>0. n \in Nat /\ f.seq \in Nat
  BY DEF Packet
<1>1. \A i \in 1 .. n : q[i] \in Packet /\ q[i].seq \in Nat
  <2> SUFFICES ASSUME NEW i \in 1 .. n PROVE q[i] \in Packet /\ q[i].seq \in Nat
    OBVIOUS
  <2>1. q[i] \in Packet
    BY ElementOfSeq
  <2> QED
    BY <2>1 DEF Packet
<1>2. p \in 1 .. n + 1 /\ (\A i \in 1 .. p - 1 : q[i].seq < f.seq) /\ (\A i \in p .. n : q[i].seq >= f.seq)
  BY <1>0, InsertionPointExists DEF InsertionPoint
<1>3. \A i \in p .. n : q[i].seq > f.seq
  <2> SUFFICES ASSUME NEW i \in p .. n PROVE q[i].seq > f.seq
    OBVIOUS
  <2>1. i \in 1 .. n
    BY <1>0, <1>2
  <2>2. q[i].seq # f.seq
    BY <2>1 DEF Holds
  <2> QED
    BY <1>0, <1>1, <1>2, <2>1, <2>2
<1>4. Inserted(q, f) = r
  BY DEF Inserted
<1> HIDE DEF p, n
<1>5. \A i \in 1 .. n + 1 : r[i] = e(i) /\ e(i) \in Packet
  BY <1>0, <1>1, <1>2
<1>6. r \in Seq(Packet) /\ Len(r) = n + 1
  BY <1>0, <1>5
<1>7. Sorted(r)
  <2> SUFFICES ASSUME NEW i \in 1 .. n + 1, NEW j \in 1 .. n + 1, i < j
               PROVE  e(i).seq < e(j).seq
    BY <1>5, <1>6 DEF Sorted
  <2>1. \A a, b \in 1 .. n : a < b => q[a].seq < q[b].seq
    BY DEF Sorted, n
  <2> QED
    BY <1>0, <1>1, <1>2, <1>3, <2>1
<1>8. \A i \in 1 .. n + 1 : r[i] = f \/ \E j \in 1 .. n : r[i] = q[j]
  BY <1>0, <1>2, <1>5
<1> QED
  BY <1>4, <1>6, <1>7, <1>8 DEF n

(* What is left when the oldest frame goes.                                *)
LEMMA TailSorted ==
  ASSUME NEW q \in Seq(Packet), Sorted(q), q # <<>>
  PROVE  /\ Head(q) \in Packet /\ Head(q) = q[1]
         /\ Tail(q) \in Seq(Packet) /\ Sorted(Tail(q))
         /\ Len(q) \in Nat /\ Len(q) >= 1 /\ Len(Tail(q)) = Len(q) - 1
         /\ \A i \in 1 .. Len(q) - 1 : Tail(q)[i] = q[i + 1]
<1>1. /\ Head(q) \in Packet
      /\ Tail(q) \in Seq(Packet)
      /\ Len(Tail(q)) = Len(q) - 1
      /\ \A i \in 1 .. Len(Tail(q)) : Tail(q)[i] = q[i + 1]
  BY HeadTailProperties
<1>2. Len(q) \in Nat /\ Len(q) >= 1 /\ Head(q) = q[1]
  OBVIOUS
<1>3. Sorted(Tail(q))
  <2> SUFFICES ASSUME NEW i \in 1 .. Len(q) - 1, NEW j \in 1 .. Len(q) - 1, i < j
               PROVE  Tail(q)[i].seq < Tail(q)[j].seq
    BY <1>1 DEF Sorted
  <2>1. i + 1 \in 1 .. Len(q) /\ j + 1 \in 1 .. Len(q) /\ i + 1 < j + 1
    BY <1>2
  <2> QED
    BY <1>1, <2>1 DEF Sorted
<1> QED
  BY <1>1, <1>2, <1>3

(* push keeps a buffer sound, and at most adds the frame it was given.     *)
LEMMA PushedSound ==
  ASSUME NEW b, Sound(b), NEW f \in Packet
  PROVE  Sound(Pushed(b, f)) /\ Waiting(Pushed(b, f)) \subseteq Waiting(b) \cup {f}
<1> DEFINE s == Begun(b, f)
           q == RoomMade(s.q)
<1>0. Capacity \in Nat /\ Capacity >= 2 /\ f.seq \in Nat
  BY DEF Capacity, Packet
<1>1. s \in Buffers /\ s.q = b.q /\ s.begun /\ Sorted(s.q) /\ Len(s.q) <= Capacity
  BY DEF Sound, Begun, Buffers, WellFormed, Sorted, Packet
<1>2. \A i \in 1 .. Len(s.q) : s.q[i].seq >= s.next
  BY DEF Sound, Begun, Buffers, WellFormed
<1>3. CASE ~InReach(s, f)
  <2>1. Pushed(b, f) = s
    BY <1>3 DEF Pushed
  <2> HIDE DEF s
  <2> QED
    BY <1>1, <1>2, <2>1 DEF Sound, WellFormed, Waiting, Sorted
<1>4. CASE InReach(s, f)
  <2> HIDE DEF s
  <2>0. s.q \in Seq(Packet) /\ s.next \in Nat /\ Len(s.q) \in Nat
    BY <1>1 DEF Buffers
  <2>1. /\ q \in Seq(Packet) /\ Sorted(q) /\ Len(q) <= Capacity - 1
        /\ \A i \in 1 .. Len(q) : \E j \in 1 .. Len(s.q) : q[i] = s.q[j]
    <3>1. CASE Len(s.q) >= Capacity
      <4>1. s.q # <<>> /\ q = Tail(s.q)
        BY <1>0, <2>0, <3>1 DEF RoomMade
      <4>2. /\ q \in Seq(Packet) /\ Sorted(q) /\ Len(q) = Len(s.q) - 1
            /\ \A i \in 1 .. Len(s.q) - 1 : q[i] = s.q[i + 1]
        BY <1>1, <2>0, <4>1, TailSorted
      <4> HIDE DEF q
      <4> QED
        BY <1>0, <1>1, <2>0, <4>2
    <3>2. CASE ~(Len(s.q) >= Capacity)
      <4>1. q = s.q
        BY <3>2 DEF RoomMade
      <4> HIDE DEF q
      <4> QED
        BY <1>0, <1>1, <2>0, <3>2, <4>1
    <3> QED
      BY <3>1, <3>2
  <2>2. Pushed(b, f) = [s EXCEPT !.q = IF Holds(q, f.seq) THEN q ELSE Inserted(q, f)]
    BY <1>4 DEF Pushed, s
  <2> HIDE DEF q
  <2> DEFINE r == IF Holds(q, f.seq) THEN q ELSE Inserted(q, f)
  <2>3. /\ r \in Seq(Packet) /\ Sorted(r) /\ Len(r) <= Capacity
        /\ \A i \in 1 .. Len(r) : r[i] = f \/ \E j \in 1 .. Len(s.q) : r[i] = s.q[j]
    <3>1. CASE Holds(q, f.seq)
      BY <1>0, <2>1, <3>1
    <3>2. CASE ~Holds(q, f.seq)
      <4>1. r = Inserted(q, f)
        BY <3>2
      <4> HIDE DEF r
      <4>2. /\ r \in Seq(Packet) /\ Len(r) = Len(q) + 1 /\ Sorted(r)
            /\ \A i \in 1 .. Len(q) + 1 : r[i] = f \/ \E j \in 1 .. Len(q) : r[i] = q[j]
        BY <2>1, <3>2, <4>1, InsertedSorted
      <4>3. Len(q) \in Nat
        BY <2>1
      <4>4. Len(r) <= Capacity
        BY <1>0, <2>1, <4>2, <4>3
      <4>5. ASSUME NEW i \in 1 .. Len(r)
            PROVE  r[i] = f \/ \E j \in 1 .. Len(s.q) : r[i] = s.q[j]
        <5>1. r[i] = f \/ \E j \in 1 .. Len(q) : r[i] = q[j]
          BY <4>2, <4>5
        <5> QED
          BY <2>1, <5>1
      <4> QED
        BY <4>2, <4>4, <4>5
    <3> QED
      BY <3>1, <3>2
  <2> HIDE DEF r
  <2>4. Pushed(b, f) = [s EXCEPT !.q = r]
    BY <2>2 DEF r
  <2>5. Pushed(b, f) = [q |-> r, next |-> s.next, begun |-> s.begun]
    BY <1>1, <2>4 DEF Buffers
  <2>6. \A i \in 1 .. Len(r) : r[i].seq >= s.next
    BY <1>2, <1>4, <2>3, <2>0, <1>0 DEF InReach
  <2>7. Sound(Pushed(b, f))
    BY <1>1, <2>0, <2>3, <2>5, <2>6 DEF Sound, Buffers, WellFormed, Sorted
  <2>8. Waiting(Pushed(b, f)) \subseteq Waiting(b) \cup {f}
    BY <1>1, <2>3, <2>5 DEF Waiting
  <2> QED
    BY <2>7, <2>8
<1> QED
  BY <1>3, <1>4

(* pop keeps a buffer sound and adds nothing; a frame it plays is gone.    *)
LEMMA PoppedSound ==
  ASSUME NEW b, Sound(b)
  PROVE  /\ Sound(Popped(b)) /\ Waiting(Popped(b)) \subseteq Waiting(b)
         /\ PlaysFrame(b) =>
              /\ Head(b.q) \in Waiting(b)
              /\ Head(b.q) \notin Waiting(Popped(b))
<1>0. /\ b \in Buffers /\ b.q \in Seq(Packet) /\ b.next \in Nat /\ Sorted(b.q)
      /\ Len(b.q) \in Nat /\ Len(b.q) <= Capacity
      /\ \A i \in 1 .. Len(b.q) : b.q[i].seq >= b.next
      /\ ~b.begun => b.q = <<>>
  BY DEF Sound, Buffers, WellFormed, Sorted
<1>1. Capacity \in Nat
  BY DEF Capacity
<1>2. \A i \in 1 .. Len(b.q) : b.q[i] \in Packet /\ b.q[i].seq \in Nat
  <2> SUFFICES ASSUME NEW i \in 1 .. Len(b.q) PROVE b.q[i] \in Packet /\ b.q[i].seq \in Nat
    OBVIOUS
  <2>1. b.q[i] \in Packet
    BY <1>0, ElementOfSeq
  <2> QED
    BY <2>1 DEF Packet
<1>3. Buffered(b) => b.q # <<>> /\ Len(b.q) >= 1
  BY <1>0 DEF Buffered
<1>4. CASE PlaysFrame(b)
  <2> DEFINE t == Tail(b.q)
  <2>1. b.q # <<>> /\ Len(b.q) >= 1 /\ Head(b.q).seq = b.next
    BY <1>3, <1>4 DEF PlaysFrame
  <2>2. /\ Head(b.q) = b.q[1] /\ t \in Seq(Packet) /\ Sorted(t) /\ Len(t) = Len(b.q) - 1
        /\ \A i \in 1 .. Len(b.q) - 1 : t[i] = b.q[i + 1]
    BY <1>0, <2>1, TailSorted
  <2>a. ~ConcealsLoss(b)
    BY <1>0, <2>1 DEF ConcealsLoss
  <2>3. Popped(b) = [q |-> t, next |-> b.next + 1, begun |-> b.begun]
    BY <1>0, <1>4, <2>a DEF Popped, Buffers
  <2> HIDE DEF t
  <2>4. ASSUME NEW i \in 1 .. Len(t)
        PROVE  /\ i + 1 \in 1 .. Len(b.q) /\ t[i] = b.q[i + 1]
               /\ b.q[1].seq \in Nat /\ t[i].seq \in Nat /\ t[i].seq > b.q[1].seq
    <3>1. 1 \in 1 .. Len(b.q) /\ i + 1 \in 1 .. Len(b.q) /\ 1 < i + 1
      BY <1>0, <2>1, <2>2
    <3>2. b.q[1].seq < b.q[i + 1].seq
      BY <1>0, <3>1 DEF Sorted
    <3>3. t[i] = b.q[i + 1]
      BY <2>2
    <3> QED
      BY <1>2, <3>1, <3>2, <3>3
  <2>5. Sound(Popped(b))
    <3>1. ASSUME NEW i \in 1 .. Len(t) PROVE t[i].seq >= b.next + 1
      BY <1>0, <2>1, <2>2, <2>4
    <3>2. ~b.begun => FALSE
      BY <1>0, <2>1
    <3> QED
      BY <1>0, <1>1, <2>2, <2>3, <3>1, <3>2 DEF Sound, Buffers, WellFormed, Sorted
  <2>6. Waiting(Popped(b)) \subseteq Waiting(b)
    BY <2>3, <2>4 DEF Waiting
  <2>7. Head(b.q) \in Waiting(b)
    BY <1>0, <2>1, <2>2 DEF Waiting
  <2>8. Head(b.q) \notin Waiting(Popped(b))
    <3> SUFFICES ASSUME NEW i \in 1 .. Len(t) PROVE t[i] # b.q[1]
      BY <2>2, <2>3 DEF Waiting
    <3>1. t[i].seq > b.q[1].seq /\ b.q[1].seq \in Nat
      BY <1>0, <1>2, <2>1, <2>4
    <3> QED
      BY <3>1
  <2> QED
    BY <2>5, <2>6, <2>7, <2>8
<1>5. CASE ConcealsLoss(b) /\ ~PlaysFrame(b)
  <2>1. Len(b.q) >= 1 /\ Head(b.q).seq > b.next /\ Head(b.q) = b.q[1]
    BY <1>0, <1>3, <1>5 DEF ConcealsLoss
  <2>2. Popped(b) = [q |-> b.q, next |-> b.next + 1, begun |-> b.begun]
    BY <1>0, <1>5 DEF Popped, Buffers
  <2>3. \A i \in 1 .. Len(b.q) : b.q[i].seq >= b.next + 1
    <3> SUFFICES ASSUME NEW i \in 1 .. Len(b.q) PROVE b.q[i].seq >= b.next + 1
      OBVIOUS
    <3>1. b.q[1].seq < b.q[i].seq \/ i = 1
      <4>1. 1 \in 1 .. Len(b.q) /\ i \in 1 .. Len(b.q)
        BY <1>0, <2>1
      <4>2. 1 < i => b.q[1].seq < b.q[i].seq
        BY <1>0, <4>1 DEF Sorted
      <4> QED
        BY <1>0, <4>2
    <3>2. b.q[1].seq > b.next /\ b.q[1].seq \in Nat /\ b.q[i].seq \in Nat
      BY <1>0, <1>2, <2>1
    <3> QED
      BY <1>0, <3>1, <3>2
  <2>4. Sound(Popped(b))
    BY <1>0, <1>1, <2>2, <2>3 DEF Sound, Buffers, WellFormed, Sorted
  <2> QED
    BY <1>5, <2>2, <2>4 DEF Waiting
<1>6. CASE ~ConcealsLoss(b) /\ ~PlaysFrame(b)
  BY <1>6 DEF Popped
<1> QED
  BY <1>4, <1>5, <1>6

----------------------------------------------------------------------------
(* The inductive invariant.  A frame passes through the window, the packet *)
(* that is being stored, a buffer and the ear, in this order; Origin says  *)
(* that what is further on was accepted by the window, Remembered that the *)
(* window refuses it from then on, Once that it is in one place only.      *)
BuffersSound == \A ch \in Channel : Sound(buffer[ch])

Remembered == \A p \in taken : p.seq # 0 => ~Accepts(ear, p.seq)

Origin ==
  /\ opened \subseteq taken
  /\ spent \subseteq taken
  /\ \A ch \in Channel : \A f \in Waiting(buffer[ch]) : f \in taken /\ f.ch = ch

Once ==
  /\ \A ch \in Channel : \A f \in Waiting(buffer[ch]) : f.seq # 0 => f \notin spent
  /\ \A p \in opened : p.seq # 0 =>
       p \notin spent /\ \A f \in Waiting(buffer[p.ch]) : f.seq # p.seq

PathInv == TypeOK /\ BuffersSound /\ Remembered /\ Origin /\ Once

(* The initial buffers, and those of a channel just joined or left.        *)
LEMMA EmptySound ==
  Sound(Empty) /\ Waiting(Empty) = {} /\ Empty \in Buffers
<1>1. Empty.q = <<>> /\ Len(Empty.q) = 0 /\ Empty.next = 0 /\ ~Empty.begun
  BY DEF Empty
<1>2. Empty \in Buffers
  BY DEF Empty, Buffers
<1>3. WellFormed(Empty)
  BY <1>1 DEF WellFormed, Capacity
<1> QED
  BY <1>1, <1>2, <1>3 DEF Sound, Waiting

(* At the start nothing was sent, and all buffers are empty.               *)
LEMMA PathStart == Init => PathInv
<1> SUFFICES ASSUME Init PROVE PathInv
  OBVIOUS
<1>1. TypeOK
  <2>1. Fresh \in Window
    BY DEF Fresh, Window
  <2>2. buffer \in [Channel -> Buffers]
    BY EmptySound DEF Init
  <2>3. next \in [Speaker -> Nat]
    BY DEF Init
  <2> QED
    BY <2>1, <2>2, <2>3 DEF Init, TypeOK, Buffers
<1>2. \A ch \in Channel : buffer[ch] = Empty
  BY DEF Init
<1> QED
  BY <1>1, <1>2, EmptySound DEF Init, PathInv, BuffersSound, Remembered, Origin, Once

(* A frame for several channels takes as many numbers, the copies those    *)
(* from the next one up.                                                   *)
LEMMA CapturedType ==
  ASSUME TypeOK, NEW s \in Speaker, CaptureAudio(s)
  PROVE  uplink' \subseteq Packet /\ next' \in [Speaker -> Nat]
<1> DEFINE T == TargetChannels(s)
           c == Cardinality(T)
           Rank(ch) == Cardinality({d \in T : d < ch})
<1>1. T \subseteq Channel
  BY DEF TypeOK, TargetChannels
<1>2. IsFiniteSet(T) /\ c \in Nat
  BY <1>1, FS_Subset, FS_CardinalityType
<1>3. ASSUME NEW ch \in T PROVE Rank(ch) \in Nat
  BY <1>2, FS_Subset, FS_CardinalityType
<1>4. next[s] \in Nat
  BY DEF TypeOK
<1>5. next' = [next EXCEPT ![s] = @ + c]
      /\ uplink' = uplink \cup {[from |-> s, ch |-> ch, seq |-> next[s] + Rank(ch)] : ch \in T}
  BY DEF CaptureAudio
<1> HIDE DEF T, c, Rank
<1>6. next[s] + c \in Nat
  BY <1>2, <1>4, <1>5
<1>7. next' \in [Speaker -> Nat]
  BY <1>5, <1>6 DEF TypeOK
<1>8. uplink' \subseteq Packet
  <2> SUFFICES ASSUME NEW ch \in T
               PROVE  [from |-> s, ch |-> ch, seq |-> next[s] + Rank(ch)] \in Packet
    BY <1>5 DEF TypeOK
  <2>1. ch \in Channel /\ next[s] + Rank(ch) \in Nat
    BY <1>1, <1>3, <1>4
  <2> QED
    BY <2>1 DEF Packet
<1> QED
  BY <1>7, <1>8

(* Every step keeps the types.                                             *)
LEMMA TypeStep ==
  ASSUME TypeOK, BuffersSound, Next
  PROVE  TypeOK'
<1> USE DEF Buffers
<1>0. \A p \in Packet : p.from \in Speaker /\ p.ch \in Channel /\ p.seq \in Nat
  BY DEF Packet
<1>1. ASSUME NEW s \in Speaker, NEW ch \in Channel, StartPtt(s, ch) PROVE TypeOK'
  <2>1. next[s] + 1 \in Nat
    BY <1>1 DEF TypeOK, StartPtt, send_presence_packet
  <2> QED
    BY <1>1, <2>1 DEF TypeOK, StartPtt, send_presence_packet, network, switches, threads
<1>2. ASSUME NEW s \in Speaker, NEW ch \in Channel, StopPtt(s, ch) PROVE TypeOK'
  BY <1>2 DEF TypeOK, StopPtt, network, switches, threads
<1>3. ASSUME NEW s \in Speaker, NEW ch \in Channel \cup {0}, SetHotMicChannel(s, ch) PROVE TypeOK'
  BY <1>3 DEF TypeOK, SetHotMicChannel, network, switches, threads
<1>4. ASSUME NEW s \in Speaker, CaptureAudio(s) PROVE TypeOK'
  <2>1. uplink' \subseteq Packet /\ next' \in [Speaker -> Nat]
    BY <1>4, CapturedType
  <2>2. UNCHANGED <<ptt, hot, downlink, served, ear, switches, buffer, threads, taken, spent>>
    BY <1>4 DEF CaptureAudio
  <2> QED
    BY <2>1, <2>2 DEF TypeOK, switches, threads
<1>5. ASSUME NEW p \in uplink, Relay(p) PROVE TypeOK'
  <2>1. p \in Packet /\ served[p.from] \in Window
    BY <1>0 DEF TypeOK
  <2>2. Advanced(served[p.from], p.seq) \in Window
    BY <1>0, <1>5, <2>1, AdvancedType DEF Relay
  <2> QED
    BY <1>0, <1>5, <2>1, <2>2 DEF TypeOK, Relay, speakers, switches, threads
<1>6. ASSUME NEW ch \in Heard, JoinChannel(ch) PROVE TypeOK'
  BY <1>6, EmptySound DEF TypeOK, JoinChannel, speakers, network, threads
<1>7. ASSUME NEW ch \in Heard, LeaveChannel(ch) PROVE TypeOK'
  BY <1>7, EmptySound DEF TypeOK, LeaveChannel, speakers, network, threads
<1>8. ASSUME NEW ch \in Heard, MixChannel(ch) PROVE TypeOK'
  <2>1. Sound(buffer[ch])
    BY DEF BuffersSound
  <2>2. Popped(buffer[ch]) \in Buffers
    BY <2>1, PoppedSound DEF Sound
  <2>3. buffer' \in [Channel -> Buffers]
    BY <1>8, <2>2 DEF TypeOK, MixChannel
  <2>4. PlaysFrame(buffer[ch]) => Head(buffer[ch].q) \in Packet
    <3>1. buffer[ch].q \in Seq(Packet) /\ Sorted(buffer[ch].q)
      BY <2>1 DEF Sound, Sorted, WellFormed
    <3>2. PlaysFrame(buffer[ch]) => buffer[ch].q # <<>>
      BY <3>1 DEF PlaysFrame, Buffered
    <3> QED
      BY <3>1, <3>2, TailSorted
  <2>5. spent' \subseteq Packet
    BY <1>8, <2>4 DEF TypeOK, MixChannel
  <2> QED
    BY <1>8, <2>3, <2>5 DEF TypeOK, MixChannel, speakers, network, switches
<1>9. ASSUME NEW ch \in Heard, NEW on \in BOOLEAN, SetChannelMuted(ch, on) PROVE TypeOK'
  BY <1>9 DEF TypeOK, SetChannelMuted, speakers, network, threads
<1>10. ASSUME NEW on \in BOOLEAN, SetDeafened(on) PROVE TypeOK'
  BY <1>10 DEF TypeOK, SetDeafened, speakers, network, threads
<1>11. CASE StartMix
  BY <1>11 DEF TypeOK, StartMix, speakers, network, switches
<1>12. ASSUME NEW p \in downlink, ReceivePacket(p) PROVE TypeOK'
  BY <1>12 DEF TypeOK, ReceivePacket, speakers, network, switches
<1>13. ASSUME NEW p \in arriving, DecryptPacket(p) PROVE TypeOK'
  <2>1. p \in Packet /\ p.seq \in Nat
    BY <1>0 DEF TypeOK
  <2>2. Accepts(ear, p.seq) => Advanced(ear, p.seq) \in Window
    BY <2>1, AdvancedType DEF TypeOK
  <2> QED
    BY <1>13, <2>1, <2>2 DEF TypeOK, DecryptPacket, speakers, network, switches
<1>14. ASSUME NEW p \in opened, StorePacket(p) PROVE TypeOK'
  <2>1. p \in Packet /\ Sound(buffer[p.ch])
    BY <1>0 DEF TypeOK, BuffersSound
  <2>2. Pushed(buffer[p.ch], p) \in Buffers
    BY <2>1, PushedSound DEF Sound
  <2>3. buffer' \in [Channel -> Buffers]
    BY <1>14, <2>2 DEF TypeOK, StorePacket
  <2> QED
    BY <1>14, <2>3 DEF TypeOK, StorePacket, speakers, network, switches
<1> QED
  BY <1>1, <1>2, <1>3, <1>4, <1>5, <1>6, <1>7, <1>8, <1>9, <1>10, <1>11, <1>12, <1>13, <1>14
     DEF Next, Speaking, Listening

(* Whatever only empties or removes: if each buffer stays sound and holds  *)
(* no more than it did, and nothing was accepted, opened or played, the    *)
(* invariant survives.                                                     *)
LEMMA FewerWaiting ==
  ASSUME PathInv, TypeOK',
         \A ch \in Channel :
           Sound(buffer'[ch]) /\ Waiting(buffer'[ch]) \subseteq Waiting(buffer[ch]),
         opened' \subseteq opened, UNCHANGED <<ear, taken, spent>>
  PROVE  PathInv'
<1>0. \A p \in opened : p.ch \in Channel
  BY DEF PathInv, TypeOK, Packet
<1>1. BuffersSound' /\ Remembered' /\ Origin'
  BY DEF PathInv, BuffersSound, Remembered, Origin
<1>2. Once'
  BY <1>0 DEF PathInv, Once
<1> QED
  BY <1>1, <1>2 DEF PathInv

(* The window lets a packet through that waits nowhere and was not played, *)
(* and remembers it.                                                       *)
LEMMA DecryptStep ==
  ASSUME PathInv, TypeOK', NEW p \in arriving, DecryptPacket(p)
  PROVE  PathInv'
<1>0. \A q \in Packet : q.ch \in Channel /\ q.seq \in Nat
  BY DEF Packet
<1>1. /\ ear \in Window /\ p \in Packet /\ p.ch \in Channel /\ p.seq \in Nat
      /\ taken \subseteq Packet
  BY <1>0 DEF PathInv, TypeOK
<1>2. UNCHANGED <<buffer, spent>>
  BY DEF DecryptPacket
<1>3. CASE ~Accepts(ear, p.seq)
  <2>1. UNCHANGED <<ear, taken, opened>>
    BY <1>3 DEF DecryptPacket
  <2>2. \A ch \in Channel : Sound(buffer[ch])
    BY DEF PathInv, BuffersSound
  <2> QED
    BY <1>2, <2>1, <2>2, FewerWaiting
<1>4. CASE Accepts(ear, p.seq)
  <2>1. ear' = Advanced(ear, p.seq) /\ taken' = taken \cup {p} /\ opened' = {p}
    BY <1>4 DEF DecryptPacket
  <2>2. BuffersSound' /\ Origin'
    BY <1>2, <2>1 DEF PathInv, BuffersSound, Origin
  <2>3. Remembered'
    <3> SUFFICES ASSUME NEW q \in taken', q.seq # 0 PROVE ~Accepts(ear', q.seq)
      BY DEF Remembered
    <3>1. CASE q = p
      BY <1>1, <1>4, <2>1, <3>1, AcceptedOnce
    <3>2. CASE q # p
      <4>1. q \in taken /\ q.seq \in Nat /\ ~Accepts(ear, q.seq)
        BY <1>0, <1>1, <2>1, <3>2 DEF PathInv, Remembered
      <4> QED
        BY <1>1, <1>4, <2>1, <4>1, RefusedForGood
    <3> QED
      BY <3>1, <3>2
  <2>4. p.seq # 0 => p \notin taken /\ \A q \in taken : q.seq # p.seq
    BY <1>4 DEF PathInv, Remembered
  <2>5. Once'
    <3>1. p.seq # 0 => p \notin spent
      BY <2>4 DEF PathInv, Origin
    <3>2. p.seq # 0 => \A f \in Waiting(buffer[p.ch]) : f.seq # p.seq
      BY <1>1, <2>4 DEF PathInv, Origin
    <3> QED
      BY <1>2, <2>1, <3>1, <3>2 DEF PathInv, Once
  <2> QED
    BY <2>2, <2>3, <2>5 DEF PathInv
<1> QED
  BY <1>3, <1>4

(* push adds the opened packet, which was accepted and has not been played.*)
LEMMA StoreStep ==
  ASSUME PathInv, TypeOK', NEW p \in opened, StorePacket(p)
  PROVE  PathInv'
<1>1. p \in Packet /\ p.ch \in Channel /\ p \in taken /\ buffer \in [Channel -> Buffers]
  BY DEF PathInv, TypeOK, Origin, Packet, Buffers
<1>2. UNCHANGED <<ear, taken, spent>> /\ opened' = {}
  BY DEF StorePacket
<1>3. CASE p.ch \notin listening
  <2>1. buffer' = buffer
    BY <1>3 DEF StorePacket
  <2>2. \A ch \in Channel : Sound(buffer[ch])
    BY DEF PathInv, BuffersSound
  <2> QED
    BY <1>2, <2>1, <2>2, FewerWaiting
<1>4. CASE p.ch \in listening
  <2>1. buffer' = [buffer EXCEPT ![p.ch] = Pushed(buffer[p.ch], p)]
    BY <1>4 DEF StorePacket
  <2>2. Sound(buffer[p.ch])
    BY <1>1 DEF PathInv, BuffersSound
  <2>3. /\ Sound(Pushed(buffer[p.ch], p))
        /\ Waiting(Pushed(buffer[p.ch], p)) \subseteq Waiting(buffer[p.ch]) \cup {p}
    BY <1>1, <2>2, PushedSound
  <2>4. ASSUME NEW ch \in Channel
        PROVE  Sound(buffer'[ch]) /\ Waiting(buffer'[ch]) \subseteq Waiting(buffer[ch]) \cup {p}
    <3>1. CASE ch = p.ch
      BY <1>1, <2>1, <2>3, <3>1
    <3>2. CASE ch # p.ch
      <4>1. buffer'[ch] = buffer[ch] /\ Sound(buffer[ch])
        BY <1>1, <2>1, <3>2 DEF PathInv, BuffersSound
      <4> QED
        BY <4>1
    <3> QED
      BY <3>1, <3>2
  <2>5. p.seq # 0 => p \notin spent
    BY DEF PathInv, Once
  <2>6. BuffersSound' /\ Remembered'
    BY <1>2, <2>4 DEF PathInv, BuffersSound, Remembered
  <2>7. Origin'
    <3>1. ASSUME NEW ch \in Channel, NEW f \in Waiting(buffer'[ch]) PROVE f \in taken /\ f.ch = ch
      <4>1. CASE ch = p.ch
        BY <1>1, <2>4, <4>1 DEF PathInv, Origin
      <4>2. CASE ch # p.ch
        BY <1>1, <2>1, <4>2 DEF PathInv, Origin
      <4> QED
        BY <4>1, <4>2
    <3> QED
      BY <1>2, <3>1 DEF PathInv, Origin
  <2>8. Once'
    BY <1>2, <2>4, <2>5 DEF PathInv, Once
  <2> QED
    BY <2>6, <2>7, <2>8 DEF PathInv
<1> QED
  BY <1>3, <1>4

(* pop takes the frame it plays out of its buffer.  It is in no other: a   *)
(* buffer holds only frames of its own channel.  Nor is it the packet that *)
(* is being stored, for the window accepted the number of that later.      *)
LEMMA MixStep ==
  ASSUME PathInv, TypeOK', NEW ch \in Heard, MixChannel(ch)
  PROVE  PathInv'
<1>1. ch \in Channel /\ buffer \in [Channel -> Buffers] /\ Sound(buffer[ch])
  BY DEF PathInv, TypeOK, BuffersSound, Buffers
<1>2. UNCHANGED <<ear, taken, opened>>
  BY DEF MixChannel
<1>3. CASE ch \notin listening
  <2>1. UNCHANGED <<buffer, spent>>
    BY <1>3 DEF MixChannel
  <2>2. \A d \in Channel : Sound(buffer[d])
    BY DEF PathInv, BuffersSound
  <2> QED
    BY <1>2, <2>1, <2>2, FewerWaiting
<1>4. CASE ch \in listening
  <2>1. buffer' = [buffer EXCEPT ![ch] = Popped(buffer[ch])]
    BY <1>4 DEF MixChannel
  <2>2. ASSUME NEW d \in Channel
        PROVE  Sound(buffer'[d]) /\ Waiting(buffer'[d]) \subseteq Waiting(buffer[d])
    <3>1. CASE d = ch
      BY <1>1, <2>1, <3>1, PoppedSound
    <3>2. CASE d # ch
      <4>1. buffer'[d] = buffer[d] /\ Sound(buffer[d])
        BY <1>1, <2>1, <3>2 DEF PathInv, BuffersSound
      <4> QED
        BY <4>1
    <3> QED
      BY <3>1, <3>2
  <2>3. CASE ~PlaysFrame(buffer[ch])
    <3>1. spent' = spent
      BY <1>4, <2>3 DEF MixChannel
    <3> QED
      BY <1>2, <2>2, <3>1, FewerWaiting
  <2>4. CASE PlaysFrame(buffer[ch])
    <3> DEFINE h == Head(buffer[ch].q)
    <3>1. spent' = spent \cup {h}
      BY <1>4, <2>4 DEF MixChannel
    <3>2. h \in Waiting(buffer[ch]) /\ h \notin Waiting(buffer'[ch])
      BY <1>1, <2>1, <2>4, PoppedSound
    <3> HIDE DEF h
    <3>3. h \in taken /\ h.ch = ch
      BY <1>1, <3>2 DEF PathInv, Origin
    <3>4. ASSUME NEW d \in Channel, NEW f \in Waiting(buffer'[d]) PROVE f # h
      <4>1. f \in Waiting(buffer[d])
        BY <2>2
      <4>2. f.ch = d
        BY <4>1 DEF PathInv, Origin
      <4> QED
        BY <3>2, <3>3, <4>2
    <3>5. ASSUME NEW p \in opened, p.seq # 0 PROVE p # h
      <4>1. p.ch \in Channel
        BY DEF PathInv, TypeOK, Packet
      <4> QED
        BY <3>2, <3>3, <3>5, <4>1 DEF PathInv, Once
    <3>6. BuffersSound' /\ Remembered'
      BY <1>2, <2>2 DEF PathInv, BuffersSound, Remembered
    <3>7. Origin'
      BY <1>2, <2>2, <3>1, <3>3 DEF PathInv, Origin
    <3>8. Once'
      <4>1. \A d \in Channel : \A f \in Waiting(buffer'[d]) : f.seq # 0 => f \notin spent'
        BY <2>2, <3>1, <3>4 DEF PathInv, Once
      <4>2. \A p \in opened' : p.ch \in Channel
        BY <1>2 DEF PathInv, TypeOK, Packet
      <4>3. \A p \in opened' : p.seq # 0 =>
              p \notin spent' /\ \A f \in Waiting(buffer'[p.ch]) : f.seq # p.seq
        BY <1>2, <2>2, <3>1, <3>5, <4>2 DEF PathInv, Once
      <4> QED
        BY <4>1, <4>3 DEF Once
    <3> QED
      BY <3>6, <3>7, <3>8 DEF PathInv
  <2> QED
    BY <2>3, <2>4
<1> QED
  BY <1>3, <1>4

(* Every step, and every stutter, keeps the invariant.                     *)
LEMMA PathStep == PathInv /\ [Next]_vars => PathInv'
<1> SUFFICES ASSUME PathInv, [Next]_vars PROVE PathInv'
  OBVIOUS
<1>1. TypeOK /\ BuffersSound /\ \A ch \in Channel : Sound(buffer[ch])
  BY DEF PathInv, BuffersSound
<1>2. TypeOK'
  <2>1. CASE Next
    BY <1>1, <2>1, TypeStep
  <2>2. CASE UNCHANGED vars
    BY <1>1, <2>2 DEF TypeOK, vars
  <2> QED
    BY <2>1, <2>2
<1>3. CASE UNCHANGED <<ear, buffer, opened, taken, spent>>
  BY <1>1, <1>2, <1>3, FewerWaiting
<1>4. ASSUME NEW s \in Speaker, Speaking(s)
      PROVE  UNCHANGED <<ear, buffer, opened, taken, spent>>
  BY <1>4 DEF Speaking, StartPtt, send_presence_packet, StopPtt, SetHotMicChannel, CaptureAudio, threads
<1>5. ASSUME NEW p \in uplink, Relay(p)
      PROVE  UNCHANGED <<ear, buffer, opened, taken, spent>>
  BY <1>5 DEF Relay, threads
<1>6. ASSUME NEW ch \in Heard, JoinChannel(ch) \/ LeaveChannel(ch) PROVE PathInv'
  <2>1. UNCHANGED <<ear, opened, taken, spent>> /\ buffer' = [buffer EXCEPT ![ch] = Empty]
    BY <1>6 DEF JoinChannel, LeaveChannel, threads
  <2>2. buffer \in [Channel -> Buffers]
    BY <1>1 DEF TypeOK, Buffers
  <2>3. ASSUME NEW d \in Channel
        PROVE  Sound(buffer'[d]) /\ Waiting(buffer'[d]) \subseteq Waiting(buffer[d])
    <3>1. CASE d = ch
      BY <2>1, <2>2, <3>1, EmptySound
    <3>2. CASE d # ch
      <4>1. buffer'[d] = buffer[d]
        BY <2>1, <2>2, <3>2
      <4> QED
        BY <1>1, <4>1
    <3> QED
      BY <3>1, <3>2
  <2> QED
    BY <1>2, <2>1, <2>3, FewerWaiting
<1>7. ASSUME NEW ch \in Heard, MixChannel(ch) PROVE PathInv'
  BY <1>2, <1>7, MixStep
<1>8. ASSUME NEW ch \in Heard, NEW on \in BOOLEAN, SetChannelMuted(ch, on)
      PROVE  UNCHANGED <<ear, buffer, opened, taken, spent>>
  BY <1>8 DEF SetChannelMuted, threads
<1>9. ASSUME NEW on \in BOOLEAN, SetDeafened(on)
      PROVE  UNCHANGED <<ear, buffer, opened, taken, spent>>
  BY <1>9 DEF SetDeafened, threads
<1>10. CASE StartMix
  BY <1>3, <1>10 DEF StartMix
<1>11. ASSUME NEW p \in downlink, ReceivePacket(p)
       PROVE  UNCHANGED <<ear, buffer, opened, taken, spent>>
  BY <1>11 DEF ReceivePacket
<1>12. ASSUME NEW p \in arriving, DecryptPacket(p) PROVE PathInv'
  BY <1>2, <1>12, DecryptStep
<1>13. ASSUME NEW p \in opened, StorePacket(p) PROVE PathInv'
  BY <1>2, <1>13, StoreStep
<1>14. CASE UNCHANGED vars
  BY <1>3, <1>14 DEF vars
<1> QED
  BY <1>3, <1>4, <1>5, <1>6, <1>7, <1>8, <1>9, <1>10, <1>11, <1>12, <1>13, <1>14
     DEF Next, Listening

(* The invariant holds throughout.                                         *)
LEMMA PathAlways == Spec => []PathInv
BY PathStart, PathStep, PTL DEF Spec

----------------------------------------------------------------------------
(* The variables keep their types, and only a channel that is listened to  *)
(* is ever muted.                                                          *)
THEOREM TypeCorrect == Spec => []TypeOK
<1>1. PathInv => TypeOK
  BY DEF PathInv
<1> QED
  BY <1>1, PathAlways, PTL

(* The deques stay sorted, bounded and not behind their next number, for   *)
(* any target size: "Should never reach here" in pop is dead code.         *)
THEOREM BuffersStaySound == Spec => []BuffersWellFormed
<1>1. PathInv => BuffersWellFormed
  BY DEF PathInv, BuffersSound, Sound, BuffersWellFormed
<1> QED
  BY <1>1, PathAlways, PTL

(* No frame that was played is ever put into a buffer again, though the    *)
(* buffers forget what they played when a channel is joined again.         *)
THEOREM NoFrameTwice == Spec => []PlayedFramesDoNotReturn
<1>1. PathInv => PlayedFramesDoNotReturn
  BY DEF PathInv, Once, Waiting, PlayedFramesDoNotReturn
<1> QED
  BY <1>1, PathAlways, PTL

(* No packet that is pushed is a duplicate of one that is buffered, so a   *)
(* full buffer gives its oldest frame up for a new one only.               *)
THEOREM NoDuplicateEvicts == Spec => []DuplicatesEvictNothing
<1>1. PathInv => DuplicatesEvictNothing
  <2> SUFFICES ASSUME PathInv, NEW p \in opened, p.seq # 0,
                      NEW i \in 1 .. Len(buffer[p.ch].q)
               PROVE  buffer[p.ch].q[i].seq # p.seq
    BY DEF DuplicatesEvictNothing, Holds
  <2>1. buffer[p.ch].q[i] \in Waiting(buffer[p.ch])
    BY DEF Waiting
  <2> QED
    BY <2>1 DEF PathInv, Once
<1> QED
  BY <1>1, PathAlways, PTL

----------------------------------------------------------------------------
(* A number is given to one packet of its speaker, and a packet is there   *)
(* before the server sends it on, before it arrives, before it is accepted.*)
Numbered ==
  /\ \A p \in uplink : p.seq < next[p.from]
  /\ \A p, q \in uplink : p.from = q.from /\ p.seq = q.seq => p = q
  /\ downlink \subseteq uplink /\ arriving \subseteq downlink /\ taken \subseteq downlink

(* Each bit of the listener's window stands for a packet it has accepted.  *)
Vouched ==
  ear.max # 0 =>
    /\ \E q \in taken : q.seq = ear.max
    /\ \A d \in ear.bits : d <= ear.max /\ \E q \in taken : q.seq = ear.max - d

(* The rank of a channel among the targets is below their number ...       *)
LEMMA RankBelow ==
  ASSUME NEW T \in SUBSET Nat, IsFiniteSet(T), NEW a \in T
  PROVE  /\ Cardinality({d \in T : d < a}) \in Nat
         /\ Cardinality({d \in T : d < a}) < Cardinality(T)
<1> DEFINE A == {d \in T : d < a}
<1>1. IsFiniteSet(A) /\ Cardinality(A) \in Nat /\ Cardinality(T) \in Nat
  BY FS_Subset, FS_CardinalityType
<1>2. A \subseteq T /\ a \notin A
  OBVIOUS
<1>3. Cardinality(A) <= Cardinality(T) /\ (Cardinality(A) = Cardinality(T) => A = T)
  BY <1>1, <1>2, FS_Subset
<1> HIDE DEF A
<1>4. Cardinality(A) < Cardinality(T)
  BY <1>1, <1>2, <1>3
<1> QED
  BY <1>1, <1>4 DEF A

(* ... and tells the targets apart.                                        *)
LEMMA RankDistinguishes ==
  ASSUME NEW T \in SUBSET Nat, IsFiniteSet(T), NEW a \in T, NEW b \in T, a # b
  PROVE  Cardinality({d \in T : d < a}) # Cardinality({d \in T : d < b})
<1>1. ASSUME NEW x \in T, NEW y \in T, x < y
      PROVE  Cardinality({d \in T : d < x}) # Cardinality({d \in T : d < y})
  <2> DEFINE Y == {d \in T : d < y}
  <2>1. IsFiniteSet(Y) /\ Y \in SUBSET Nat /\ x \in Y
    BY <1>1, FS_Subset
  <2>2. {d \in T : d < x} = {d \in Y : d < x}
    <3>1. \A d \in T : d < x => d < y
      BY <1>1
    <3> QED
      BY <3>1
  <2> HIDE DEF Y
  <2>3. Cardinality({d \in Y : d < x}) \in Nat /\ Cardinality({d \in Y : d < x}) < Cardinality(Y)
    BY <2>1, RankBelow
  <2>4. Cardinality(Y) \in Nat
    BY <2>1, FS_CardinalityType
  <2>5. Cardinality({d \in Y : d < x}) # Cardinality(Y)
    BY <2>3, <2>4
  <2> QED
    BY <2>2, <2>5 DEF Y
<1>2. a < b \/ b < a
  OBVIOUS
<1> QED
  BY <1>1, <1>2

(* The copies of a frame take numbers that were not given before.          *)
LEMMA CaptureNumbers ==
  ASSUME TypeOK, Numbered, NEW s \in Speaker, CaptureAudio(s)
  PROVE  Numbered'
<1> DEFINE T == TargetChannels(s)
           n == next[s]
           Rank(ch) == Cardinality({d \in T : d < ch})
           Copy(ch) == [from |-> s, ch |-> ch, seq |-> n + Rank(ch)]
<1>1. T \in SUBSET Nat /\ IsFiniteSet(T) /\ Cardinality(T) \in Nat
  <2>1. T \subseteq Channel
    BY DEF TypeOK, TargetChannels
  <2> QED
    BY <2>1, FS_Subset, FS_CardinalityType
<1>2. /\ next' = [next EXCEPT ![s] = n + Cardinality(T)]
      /\ uplink' = uplink \cup {Copy(ch) : ch \in T}
      /\ UNCHANGED <<downlink, arriving, taken>>
  BY DEF CaptureAudio, threads
<1>3. /\ n \in Nat /\ next \in [Speaker -> Nat]
      /\ \A p \in uplink : p.seq \in Nat /\ p.from \in Speaker
  BY DEF TypeOK, Packet
<1> HIDE DEF T, n
<1>4. \A ch \in T : Rank(ch) \in Nat /\ Rank(ch) < Cardinality(T)
  BY <1>1, RankBelow
<1>5. \A a, b \in T : a # b => Rank(a) # Rank(b)
  BY <1>1, RankDistinguishes
<1> HIDE DEF Rank
<1>6. \A ch \in T : /\ Copy(ch).from = s /\ Copy(ch).seq \in Nat /\ Copy(ch).seq >= n
                    /\ Copy(ch).seq < next'[s]
  BY <1>1, <1>2, <1>3, <1>4
<1>7. \A p \in uplink : p.seq < next'[p.from]
  BY <1>1, <1>2, <1>3 DEF Numbered, n
<1>8. \A p \in uplink : p.from = s => p.seq < n
  BY DEF Numbered, n
<1>9. \A a, b \in T : Copy(a).seq = Copy(b).seq => a = b
  BY <1>3, <1>4, <1>5
<1> HIDE DEF Copy
<1>10. \A p \in uplink' : p \in uplink \/ \E ch \in T : p = Copy(ch)
  BY <1>2
<1>11. \A p \in uplink' : p.seq < next'[p.from]
  BY <1>6, <1>7, <1>10
<1>12. ASSUME NEW p \in uplink', NEW q \in uplink', p.from = q.from, p.seq = q.seq
       PROVE  p = q
  <2>1. CASE p \in uplink /\ q \in uplink
    BY <1>12, <2>1 DEF Numbered
  <2>2. ASSUME NEW ch \in T, NEW r \in uplink, r.from = s PROVE r.seq # Copy(ch).seq
    BY <1>3, <1>6, <1>8, <2>2
  <2>3. CASE p \in uplink /\ q \notin uplink
    BY <1>6, <1>10, <1>12, <2>2, <2>3
  <2>4. CASE p \notin uplink /\ q \in uplink
    BY <1>6, <1>10, <1>12, <2>2, <2>4
  <2>5. CASE p \notin uplink /\ q \notin uplink
    BY <1>9, <1>10, <1>12, <2>5
  <2> QED
    BY <2>1, <2>3, <2>4, <2>5
<1>13. downlink' \subseteq uplink' /\ arriving' \subseteq downlink' /\ taken' \subseteq downlink'
  BY <1>2 DEF Numbered
<1> QED
  BY <1>11, <1>12, <1>13 DEF Numbered

(* A window that accepts a number has it as its newest, or keeps its       *)
(* newest; each of its bits is that of the number or was there before.     *)
LEMMA AdvancedBits ==
  ASSUME NEW w \in Window, NEW t \in Nat, Accepts(w, t),
         w.max # 0 => \A e \in w.bits : e <= w.max
  PROVE  LET a == Advanced(w, t) IN
         /\ a.max = t \/ (a.max = w.max /\ w.max # 0)
         /\ \A d \in a.bits :
              /\ d <= a.max
              /\ \/ a.max - d = t
                 \/ w.max # 0 /\ \E e \in w.bits : a.max - d = w.max - e
<1>0. w.max \in Nat /\ w.bits \subseteq Positions /\ Positions \subseteq Nat
  BY DEF Window, Positions
<1>1. CASE w.max = 0
  BY <1>0, <1>1 DEF Advanced
<1>2. CASE w.max # 0 /\ t > w.max
  <2> DEFINE a == Advanced(w, t)
             k == t - w.max
  <2>1. a.max = t /\ a.bits = {0} \cup {d \in Positions : d >= k /\ d - k \in w.bits}
    BY <1>2 DEF Advanced
  <2>2. ASSUME NEW d \in a.bits
        PROVE  d <= t /\ (t - d = t \/ \E e \in w.bits : t - d = w.max - e)
    <3>1. CASE d = 0
      BY <3>1
    <3>2. CASE d \in Positions /\ d >= k /\ d - k \in w.bits
      <4>1. d - k <= w.max
        BY <1>2, <3>2
      <4>2. d <= t /\ t - d = w.max - (d - k)
        BY <1>0, <3>2, <4>1
      <4> QED
        BY <3>2, <4>2
    <3> QED
      BY <2>1, <3>1, <3>2
  <2> QED
    BY <1>2, <2>1, <2>2
<1>3. CASE w.max # 0 /\ ~(t > w.max)
  <2>1. Advanced(w, t).max = w.max /\ Advanced(w, t).bits = w.bits \cup {w.max - t}
    BY <1>3 DEF Advanced, Window
  <2>2. w.max - t <= w.max /\ w.max - (w.max - t) = t
    BY <1>0, <1>3
  <2> QED
    BY <1>3, <2>1, <2>2
<1> QED
  BY <1>1, <1>2, <1>3

(* What the listener's session accepts from then on vouches for its bits.  *)
LEMMA VouchedStep ==
  ASSUME TypeOK, Vouched, NEW p \in arriving, DecryptPacket(p)
  PROVE  Vouched'
<1>1. ear \in Window /\ p.seq \in Nat
  BY DEF TypeOK, Packet
<1>2. CASE ~Accepts(ear, p.seq)
  BY <1>2 DEF DecryptPacket, Vouched
<1>3. CASE Accepts(ear, p.seq)
  <2> DEFINE a == Advanced(ear, p.seq)
  <2>1. ear' = a /\ taken' = taken \cup {p}
    BY <1>3 DEF DecryptPacket
  <2>2. /\ a.max = p.seq \/ (a.max = ear.max /\ ear.max # 0)
        /\ \A d \in a.bits :
             /\ d <= a.max
             /\ \/ a.max - d = p.seq
                \/ ear.max # 0 /\ \E e \in ear.bits : a.max - d = ear.max - e
    <3>1. ear.max # 0 => \A e \in ear.bits : e <= ear.max
      BY DEF Vouched
    <3> QED
      BY <1>1, <1>3, <3>1, AdvancedBits
  <2> HIDE DEF a
  <2>3. \E q \in taken' : q.seq = a.max
    BY <2>1, <2>2 DEF Vouched
  <2>4. ASSUME NEW d \in a.bits PROVE d <= a.max /\ \E q \in taken' : q.seq = a.max - d
    BY <2>1, <2>2 DEF Vouched
  <2> QED
    BY <2>1, <2>3, <2>4 DEF Vouched
<1> QED
  BY <1>2, <1>3

(* Every step keeps the numbers unique and the bits vouched for.           *)
LEMMA NumbersStep ==
  ASSUME TypeOK, Numbered, Vouched, [Next]_vars
  PROVE  Numbered' /\ Vouched'
<1>0. /\ \A p \in uplink : p.seq \in Nat /\ p.from \in Speaker
      /\ \A s \in Speaker : next[s] \in Nat
  BY DEF TypeOK, Packet
<1>a. UNCHANGED <<taken, ear>> => Vouched'
  BY DEF Vouched
<1>b. ASSUME UNCHANGED <<uplink, downlink, arriving, taken, next>> PROVE Numbered'
  BY <1>b DEF Numbered
<1>1. ASSUME NEW s \in Speaker, NEW ch \in Channel, StartPtt(s, ch) PROVE Numbered' /\ Vouched'
  <2>1. /\ next' = [next EXCEPT ![s] = next[s] + 1]
        /\ UNCHANGED <<uplink, downlink, arriving, taken, ear>>
    BY <1>1 DEF StartPtt, send_presence_packet, network, threads
  <2>2. \A p \in uplink : p.seq < next'[p.from]
    BY <1>0, <2>1 DEF Numbered, TypeOK
  <2> QED
    BY <1>a, <2>1, <2>2 DEF Numbered
<1>2. ASSUME NEW s \in Speaker, NEW ch \in Channel, StopPtt(s, ch) PROVE Numbered' /\ Vouched'
  BY <1>2, <1>a, <1>b DEF StopPtt, network, threads
<1>3. ASSUME NEW s \in Speaker, NEW ch \in Channel \cup {0}, SetHotMicChannel(s, ch)
      PROVE  Numbered' /\ Vouched'
  BY <1>3, <1>a, <1>b DEF SetHotMicChannel, network, threads
<1>4. ASSUME NEW s \in Speaker, CaptureAudio(s) PROVE Numbered' /\ Vouched'
  BY <1>4, <1>a, CaptureNumbers DEF CaptureAudio
<1>5. ASSUME NEW p \in uplink, Relay(p) PROVE Numbered' /\ Vouched'
  BY <1>5, <1>a DEF Relay, speakers, threads, Numbered
<1>6. ASSUME NEW ch \in Heard, JoinChannel(ch) PROVE Numbered' /\ Vouched'
  BY <1>6, <1>a, <1>b DEF JoinChannel, speakers, network, threads
<1>7. ASSUME NEW ch \in Heard, LeaveChannel(ch) PROVE Numbered' /\ Vouched'
  BY <1>7, <1>a, <1>b DEF LeaveChannel, speakers, network, threads
<1>8. ASSUME NEW ch \in Heard, MixChannel(ch) PROVE Numbered' /\ Vouched'
  BY <1>8, <1>a, <1>b DEF MixChannel, speakers, network
<1>9. ASSUME NEW ch \in Heard, NEW on \in BOOLEAN, SetChannelMuted(ch, on) PROVE Numbered' /\ Vouched'
  BY <1>9, <1>a, <1>b DEF SetChannelMuted, speakers, network, threads
<1>10. ASSUME NEW on \in BOOLEAN, SetDeafened(on) PROVE Numbered' /\ Vouched'
  BY <1>10, <1>a, <1>b DEF SetDeafened, speakers, network, threads
<1>11. CASE StartMix
  BY <1>11, <1>a, <1>b DEF StartMix, speakers, network
<1>12. ASSUME NEW p \in downlink, ReceivePacket(p) PROVE Numbered' /\ Vouched'
  BY <1>12, <1>a DEF ReceivePacket, speakers, network, Numbered
<1>13. ASSUME NEW p \in arriving, DecryptPacket(p) PROVE Numbered' /\ Vouched'
  <2>1. Vouched'
    BY <1>13, VouchedStep
  <2>2. Numbered'
    BY <1>13 DEF DecryptPacket, speakers, network, Numbered
  <2> QED
    BY <2>1, <2>2
<1>14. ASSUME NEW p \in opened, StorePacket(p) PROVE Numbered' /\ Vouched'
  BY <1>14, <1>a, <1>b DEF StorePacket, speakers, network
<1>15. CASE UNCHANGED vars
  BY <1>15, <1>a, <1>b DEF vars
<1> QED
  BY <1>1, <1>2, <1>3, <1>4, <1>5, <1>6, <1>7, <1>8, <1>9, <1>10, <1>11, <1>12, <1>13, <1>14, <1>15
     DEF Next, Speaking, Listening

(* With any number of speakers, what the listener's session refuses it has *)
(* accepted before, or a packet at least a window ahead of it, or another  *)
(* speaker's packet of the same number.                                    *)
THEOREM RefusalsExplained == Spec => []RefusalsHaveACause
<1>1. Init => Numbered /\ Vouched
  BY DEF Init, Numbered, Vouched, Fresh
<1>2. TypeOK /\ Numbered /\ Vouched /\ [Next]_vars => Numbered' /\ Vouched'
  BY NumbersStep
<1>3. TypeOK /\ Numbered /\ Vouched => RefusalsHaveACause
  <2> SUFFICES ASSUME TypeOK, Numbered, Vouched, NEW p \in downlink, ~Accepts(ear, p.seq)
               PROVE  \/ p \in taken
                      \/ \E q \in taken :
                           q.seq >= p.seq + WindowSize \/ (q.seq = p.seq /\ q.from # p.from)
    BY DEF RefusalsHaveACause
  <2>1. \A q \in downlink : q \in uplink /\ q.seq \in Nat
    BY DEF TypeOK, Packet, Numbered
  <2>2. /\ ear.max # 0 /\ ear.max \in Nat /\ p.seq <= ear.max
        /\ ear.max - p.seq >= WindowSize \/ ear.max - p.seq \in ear.bits
    BY <2>1 DEF Accepts, TypeOK, Window
  <2>3. CASE ear.max - p.seq >= WindowSize
    <3>1. PICK q \in taken : q.seq = ear.max
      BY <2>2 DEF Vouched
    <3>2. q.seq >= p.seq + WindowSize
      BY <2>1, <2>2, <2>3, <3>1, WindowAssumption
    <3> QED
      BY <3>2
  <2>4. CASE ear.max - p.seq \in ear.bits
    <3>1. PICK q \in taken : q.seq = ear.max - (ear.max - p.seq)
      BY <2>2, <2>4 DEF Vouched
    <3>2. q.seq = p.seq /\ q \in downlink
      BY <2>1, <2>2, <3>1 DEF Numbered
    <3>3. q.from = p.from => q = p
      BY <2>1, <3>2 DEF Numbered
    <3> QED
      BY <3>1, <3>2, <3>3
  <2> QED
    BY <2>2, <2>3, <2>4
<1> QED
  BY <1>1, <1>2, <1>3, TypeCorrect, PTL DEF Spec
=============================================================================
