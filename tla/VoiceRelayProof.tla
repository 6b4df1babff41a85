--------------------------- MODULE VoiceRelayProof ---------------------------
(***************************************************************************)
(* No copy of a voice packet goes back to the address it came from,        *)
(* whatever the packets, members and addresses.                            *)
(***************************************************************************)
EXTENDS VoiceRelay, TLAPS

(* The address a packet came from is the speaker's from its registration   *)
(* on, and the speaker is not among those who get a copy.                  *)
Serving ==
  /\ packet = NoPacket \/ stage = "register" \/ stage = "open" => todo = {} /\ sent = {}
  /\ packet # NoPacket =>
       /\ packet.user \notin todo
       /\ stage \in {"open", "send"} => addr_to_user[packet.from] = packet.user

IInv == TypeOK /\ Serving /\ NeverEchoed

LEMMA InitInv == Init => IInv
BY DEF Init, IInv, TypeOK, Serving, NeverEchoed

LEMMA NextInv == IInv /\ Next => IInv'
<1> SUFFICES ASSUME IInv, Next PROVE IInv'
  OBVIOUS
<1> USE NoPacketAssumption DEF IInv, TypeOK
<1>1. CASE \E p \in Packet : Receive(p)
  BY <1>1 DEF Receive, Serving, NeverEchoed, Packet
<1>2. CASE Register
  <2>1. packet \in Packet /\ packet.user \in User /\ packet.from \in Addr
    BY <1>2 DEF Register, Packet
  <2>2. /\ addr_to_user' \in [Addr -> User \cup {Nobody}]
        /\ addr_to_user'[packet.from] = packet.user
    BY <1>2, <2>1 DEF Register, RegisterUdpAddress
  <2> QED
    BY <1>2, <2>1, <2>2 DEF Register, Serving, NeverEchoed
<1>3. CASE Drop
  BY <1>3 DEF Drop, Serving, NeverEchoed
<1>4. CASE ListMembers
  BY <1>4 DEF ListMembers, Serving, NeverEchoed, Packet
<1>5. CASE NextPacket
  BY <1>5 DEF NextPacket, Serving, NeverEchoed
<1>6. ASSUME NEW u \in todo, SendCopy(u)
      PROVE  IInv'
  <2>1. packet \in Packet /\ u \in User /\ u # packet.user /\ packet.from \in Addr
    BY <1>6 DEF SendCopy, Serving, Packet
  <2>2. \A a \in UdpAddresses(u) : a \in Addr /\ a # packet.from
    BY <1>6, <2>1 DEF SendCopy, Serving, UdpAddresses
  <2>3. sent' \subseteq User \X Addr /\ NeverEchoed'
    BY <1>6, <2>1, <2>2 DEF SendCopy, NeverEchoed
  <2>4. Serving'
    BY <1>6, <2>1 DEF SendCopy, Serving
  <2> QED
    BY <1>6, <2>3, <2>4 DEF SendCopy
<1> QED
  BY <1>1, <1>2, <1>3, <1>4, <1>5, <1>6 DEF Next

LEMMA Inductive == Spec => []IInv
<1>1. IInv /\ UNCHANGED vars => IInv'
  BY DEF vars, IInv, TypeOK, Serving, NeverEchoed
<1> QED
  BY <1>1, NextInv, InitInv, PTL DEF Spec

(* The table of addresses and the relay's copies have their types.         *)
THEOREM TypeCorrect == Spec => []TypeOK
<1>1. IInv => TypeOK
  BY DEF IInv
<1> QED
  BY <1>1, Inductive, PTL

(* No copy of a packet goes to the address it came from.                   *)
THEOREM NoEcho == Spec => []NeverEchoed
<1>1. IInv => NeverEchoed
  BY DEF IInv
<1> QED
  BY <1>1, Inductive, PTL
=============================================================================
