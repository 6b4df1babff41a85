----------------------------- MODULE VoiceRelay ------------------------------
(***************************************************************************)
(* The UDP task of the server: one packet after the other, it notes the    *)
(* address of the speaker, decrypts with the speaker's session, asks the   *)
(* ChannelManager for the members of the channel and sends each of them a  *)
(* copy at an address the VoiceRouter knows.  Between any two of these the *)
(* control connections change members and sessions as they like, so that   *)
(* each look at them may find anything.                                    *)
(*                                                                         *)
(* Of the VoiceRouter the server calls register_udp_address and            *)
(* get_udp_address only, both from this task: its methods that join and    *)
(* leave channels and choose where to transmit have no caller, and their   *)
(* three tables stay empty.                                                *)
(***************************************************************************)
CONSTANTS
  Addr,
  User,
  Channel,
  Nobody,      \* stands for "no entry" in addr_to_user
  NoPacket

Packet == [user : User, ch : Channel, from : Addr]

ASSUME NobodyAssumption   == Nobody \notin User
ASSUME NoPacketAssumption == NoPacket \notin Packet

VARIABLES
  addr_to_user,
  packet,    \* the packet the task works on, or NoPacket
  stage,     \* where the task is
  todo,      \* members that have still to get their copy
  sent       \* history: the copies <<user, address>> of this packet

vars == <<addr_to_user, packet, stage, todo, sent>>

Init ==
  /\ addr_to_user = [a \in Addr |-> Nobody]
  /\ packet = NoPacket /\ stage = "recv" /\ todo = {} /\ sent = {}

(* register_udp_address, called for each voice packet: no address is ever  *)
(* taken out again.                                                        *)
RegisterUdpAddress(u, a) == addr_to_user' = [addr_to_user EXCEPT ![a] = u]

(* get_udp_address finds any one of the addresses of the user, not the one *)
(* that was noted last.                                                    *)
UdpAddresses(u) == {a \in Addr : addr_to_user[a] = u}

----------------------------------------------------------------------------
(* A packet comes from any address: clients move, and packets are late.    *)
Receive(p) ==
  /\ stage = "recv"
  /\ packet' = p /\ stage' = "register"
  /\ UNCHANGED <<addr_to_user, todo, sent>>

(* Broken variant: an address that is known keeps its user.                *)
RegisterNew ==
  /\ stage = "register"
  /\ IF addr_to_user[packet.from] = Nobody
       THEN RegisterUdpAddress(packet.user, packet.from) ELSE UNCHANGED addr_to_user
  /\ stage' = "open"
  /\ UNCHANGED <<packet, todo, sent>>

Register ==
  /\ stage = "register"
  /\ RegisterUdpAddress(packet.user, packet.from)
  /\ stage' = "open"
  /\ UNCHANGED <<packet, todo, sent>>

(* If the user has a session that does not decrypt the payload (it cannot  *)
(* decrypt a presence packet), the packet is dropped.                      *)
Drop ==
  /\ stage = "open"
  /\ stage' = "recv" /\ packet' = NoPacket
  /\ UNCHANGED <<addr_to_user, todo, sent>>

(* It was decrypted, or the user has no session and is believed.           *)
ListMembers ==
  /\ stage = "open"
  /\ \E members \in SUBSET User : todo' = members \ {packet.user}
  /\ stage' = "send"
  /\ UNCHANGED <<addr_to_user, packet, sent>>

(* A member without an address, or whose encryption or send fails, is      *)
(* passed over; the others get their copy.                                 *)
SendCopy(u) ==
  /\ stage = "send" /\ u \in todo
  /\ todo' = todo \ {u}
  /\ \/ UNCHANGED sent
     \/ \E a \in UdpAddresses(u) : sent' = sent \cup {<<u, a>>}
  /\ UNCHANGED <<addr_to_user, packet, stage>>

NextPacket ==
  /\ stage = "send" /\ todo = {}
  /\ stage' = "recv" /\ packet' = NoPacket /\ sent' = {}
  /\ UNCHANGED <<addr_to_user, todo>>

----------------------------------------------------------------------------
Next ==
  \/ \E p \in Packet : Receive(p)
  \/ Register \/ Drop \/ ListMembers \/ NextPacket
  \/ \E u \in todo : SendCopy(u)

Spec == Init /\ [][Next]_vars

----------------------------------------------------------------------------
TypeOK ==
  /\ addr_to_user \in [Addr -> User \cup {Nobody}]
  /\ packet \in Packet \cup {NoPacket}
  /\ stage \in {"recv", "register", "open", "send"}
  /\ (stage = "recv") = (packet = NoPacket)
  /\ todo \subseteq User /\ sent \subseteq User \X Addr

(* Voice never goes back to where it came from, also when the address was  *)
(* another user's before and that user is a member: the speaker is noted   *)
(* before the copies are sent.                                             *)
NeverEchoed ==
  packet # NoPacket => \A copy \in sent : copy[2] # packet.from
=============================================================================
