----------------------------- MODULE VoicePath ------------------------------
(***************************************************************************)
(* A frame of voice from the microphones of some speakers to the ear of    *)
(* one listener: the sending half of VoiceSession (PTT, hot mic, sequence  *)
(* numbers), the UDP relay of the server, which decrypts with the session  *)
(* of the speaker and encrypts with the session of the listener, and the   *)
(* receiving half of VoiceSession with its jitter buffer per channel.      *)
(*                                                                         *)
(* All users have their SRTP sessions and are members of all channels      *)
(* (ControlServer is about those).  UDP loses, repeats and reorders: what  *)
(* was sent stays in a set, from which a packet is received any number of  *)
(* times, in any order, or never.                                          *)
(***************************************************************************)
EXTENDS Integers, FiniteSets, ReplayWindow, JitterBuffer

CONSTANTS
  Speaker,
  Channel,      \* channel ids, which are positive; 0 means no hot mic channel
  Heard,        \* bound: the channels the listener joins
  MaxSeq        \* bound: a speaker s uses the numbers 0 .. MaxSeq[s] - 1

ASSUME ChannelAssumption == Channel \subseteq Nat \ {0} /\ IsFiniteSet(Channel)
ASSUME HeardAssumption   == Heard \subseteq Channel
ASSUME BoundAssumption   == MaxSeq \in [Speaker -> Nat]

VARIABLES
  ptt,        \* ptt_channels_ of each speaker
  hot,        \* hot_mic_channel_ of each speaker
  next,       \* next_sequence_ of each speaker
  uplink,     \* packets sent by the speakers
  served,     \* the server's replay window for each speaker
  downlink,   \* packets sent on to the listener by the server
  ear,        \* the replay window of the listener's only session
  listening,  \* listening_channels_ of the listener
  muted,      \* those of them that are muted
  deaf,       \* is_deafened_
  buffer,     \* channel_buffers_
  arriving,   \* the packet on_packet_received has let pass ({} or one packet)
  opened,     \* the packet it has decrypted ({} or one packet)
  mixing,     \* channels_to_mix that mix_channels has still to visit
  taken,      \* history: the packets the listener's window accepted
  spent       \* history: the frames that were played

speakers == <<ptt, hot, next>>
network  == <<uplink, downlink>>
switches == <<listening, muted, deaf>>
threads  == <<arriving, opened, mixing>>
vars == <<ptt, hot, next, uplink, served, downlink, ear, listening, muted,
          deaf, buffer, arriving, opened, mixing, taken, spent>>

Packet == [from : Speaker, ch : Channel, seq : Nat]

Init ==
  /\ ptt  = [s \in Speaker |-> {}]
  /\ hot  = [s \in Speaker |-> 0]
  /\ next = [s \in Speaker |-> 0]
  /\ uplink = {} /\ downlink = {}
  /\ served = [s \in Speaker |-> Fresh]
  /\ ear = Fresh
  /\ listening = {} /\ muted = {} /\ deaf = FALSE
  /\ buffer = [ch \in Channel |-> Empty]
  /\ arriving = {} /\ opened = {} /\ mixing = {}
  /\ taken = {} /\ spent = {}

----------------------------------------------------------------------------
(* A presence packet uses up a sequence number.  It is not encrypted, so   *)
(* the server drops it after reading the address.  (The window sends one   *)
(* after ChannelJoined, too: to the network no other than a short PTT.)    *)
send_presence_packet(s) ==
  /\ next[s] < MaxSeq[s]
  /\ next' = [next EXCEPT ![s] = @ + 1]

StartPtt(s, ch) ==
  /\ ptt' = [ptt EXCEPT ![s] = @ \cup {ch}]
  /\ send_presence_packet(s)
  /\ UNCHANGED <<hot, network, served, ear, switches, buffer, threads, taken, spent>>

StopPtt(s, ch) ==
  /\ ptt' = [ptt EXCEPT ![s] = @ \ {ch}]
  /\ UNCHANGED <<hot, next, network, served, ear, switches, buffer, threads, taken, spent>>

SetHotMicChannel(s, ch) ==
  /\ hot' = [hot EXCEPT ![s] = ch]
  /\ UNCHANGED <<ptt, next, network, served, ear, switches, buffer, threads, taken, spent>>

(* PTT overrides the hot mic.                                              *)
TargetChannels(s) == IF ptt[s] # {} THEN ptt[s] ELSE {hot[s]} \ {0}

(* One captured frame goes to every target channel, in the order of their  *)
(* ids, each copy with a sequence number of its own.                       *)
CaptureAudio(s) ==
  LET T == TargetChannels(s)
      Rank(ch) == Cardinality({d \in T : d < ch})
  IN /\ T # {}
     /\ next[s] + Cardinality(T) <= MaxSeq[s]
     /\ next' = [next EXCEPT ![s] = @ + Cardinality(T)]
     /\ uplink' = uplink \cup
                  {[from |-> s, ch |-> ch, seq |-> next[s] + Rank(ch)] : ch \in T}
     /\ UNCHANGED <<ptt, hot, downlink, served, ear, switches, buffer, threads, taken, spent>>

----------------------------------------------------------------------------
(* receive_loop: the speaker's session decrypts, or refuses, the payload,  *)
(* and the copy for the listener keeps the speaker's sequence number.      *)
Relay(p) ==
  /\ p \in uplink
  /\ Accepts(served[p.from], p.seq)
  /\ served' = [served EXCEPT ![p.from] = Advanced(@, p.seq)]
  /\ downlink' = downlink \cup {p}
  /\ UNCHANGED <<speakers, uplink, ear, switches, buffer, threads, taken, spent>>

(* on_packet_received: a packet of a channel that is not listened to, or   *)
(* is muted, is ignored.  The lock is released after that.                 *)
ReceivePacket(p) ==
  /\ arriving = {} /\ opened = {}
  /\ p \in downlink /\ p.ch \in listening \ muted
  /\ arriving' = {p}
  /\ UNCHANGED <<speakers, network, served, ear, switches, buffer, opened, mixing, taken, spent>>

(* The session, under its own lock, decrypts the packet or refuses it.     *)
DecryptPacket(p) ==
  /\ p \in arriving
  /\ arriving' = {}
  /\ IF Accepts(ear, p.seq)
       THEN ear' = Advanced(ear, p.seq) /\ taken' = taken \cup {p} /\ opened' = {p}
       ELSE UNCHANGED <<ear, taken, opened>>
  /\ UNCHANGED <<speakers, network, served, switches, buffer, mixing, spent>>

(* The channel may have been left, joined or muted since it was checked.   *)
StorePacket(p) ==
  /\ p \in opened
  /\ opened' = {}
  /\ buffer' = IF p.ch \in listening THEN [buffer EXCEPT ![p.ch] = Pushed(@, p)] ELSE buffer
  /\ UNCHANGED <<speakers, network, served, ear, switches, arriving, mixing, taken, spent>>

(* The sound card asks for a frame: mix_channels notes which channels to   *)
(* mix.  A deafened client plays silence instead.                          *)
StartMix ==
  /\ mixing = {} /\ ~deaf
  /\ mixing' = listening \ muted
  /\ UNCHANGED <<speakers, network, served, ear, switches, buffer, arriving, opened, taken, spent>>

(* It visits them in the order of their ids; a channel that was left since *)
(* has no buffer, one that was muted since is popped all the same.         *)
MixChannel(ch) ==
  /\ ch \in mixing /\ \A d \in mixing : ch <= d
  /\ mixing' = mixing \ {ch}
  /\ IF ch \in listening
       THEN /\ buffer' = [buffer EXCEPT ![ch] = Popped(@)]
            /\ spent' = IF PlaysFrame(buffer[ch])
                          THEN spent \cup {Head(buffer[ch].q)} ELSE spent
       ELSE UNCHANGED <<buffer, spent>>
  /\ UNCHANGED <<speakers, network, served, ear, switches, arriving, opened, taken>>

----------------------------------------------------------------------------
(* join_channel makes a new buffer even for a channel it already listens   *)
(* to.                                                                     *)
JoinChannel(ch) ==
  /\ listening' = listening \cup {ch}
  /\ muted'  = muted \ {ch}
  /\ buffer' = [buffer EXCEPT ![ch] = Empty]
  /\ UNCHANGED <<speakers, network, served, ear, deaf, threads, taken, spent>>

LeaveChannel(ch) ==
  /\ listening' = listening \ {ch}
  /\ muted'  = muted \ {ch}
  /\ buffer' = [buffer EXCEPT ![ch] = Empty]
  /\ UNCHANGED <<speakers, network, served, ear, deaf, threads, taken, spent>>

SetChannelMuted(ch, on) ==
  /\ ch \in listening
  /\ muted' = IF on THEN muted \cup {ch} ELSE muted \ {ch}
  /\ UNCHANGED <<speakers, network, served, ear, listening, deaf, buffer, threads, taken, spent>>

SetDeafened(on) ==
  /\ deaf' = on
  /\ UNCHANGED <<speakers, network, served, ear, listening, muted, buffer, threads, taken, spent>>

----------------------------------------------------------------------------
Speaking(s) ==
  \/ \E ch \in Channel : StartPtt(s, ch) \/ StopPtt(s, ch)
  \/ \E ch \in Channel \cup {0} : SetHotMicChannel(s, ch)
  \/ CaptureAudio(s)

Listening ==
  \/ \E ch \in Heard : JoinChannel(ch) \/ LeaveChannel(ch) \/ MixChannel(ch)
  \/ \E ch \in Heard, on \in BOOLEAN : SetChannelMuted(ch, on)
  \/ \E on \in BOOLEAN : SetDeafened(on)
  \/ StartMix
  \/ \E p \in downlink : ReceivePacket(p)
  \/ \E p \in arriving : DecryptPacket(p)
  \/ \E p \in opened : StorePacket(p)

Next ==
  \/ \E s \in Speaker : Speaking(s)
  \/ \E p \in uplink : Relay(p)
  \/ Listening

Spec == Init /\ [][Next]_vars

----------------------------------------------------------------------------
TypeOK ==
  /\ ptt  \in [Speaker -> SUBSET Channel]
  /\ hot  \in [Speaker -> Channel \cup {0}]
  /\ next \in [Speaker -> Nat]
  /\ uplink \subseteq Packet /\ downlink \subseteq Packet
  /\ served \in [Speaker -> Window] /\ ear \in Window
  /\ listening \subseteq Channel /\ muted \subseteq listening /\ deaf \in BOOLEAN
  /\ buffer \in [Channel -> [q : Seq(Packet), next : Nat, begun : BOOLEAN]]
  /\ arriving \subseteq Packet /\ opened \subseteq Packet /\ mixing \subseteq Channel
  /\ taken \subseteq Packet /\ spent \subseteq Packet

(* Every jitter buffer is sorted, bounded and not behind its own next      *)
(* frame, whatever reaches it and whenever it is replaced.                 *)
BuffersWellFormed == \A ch \in Channel : WellFormed(buffer[ch])

(* A frame that was played never waits to be played again: not when UDP    *)
(* repeats it, and not when the channel was left and joined in between,    *)
(* which gives it a new buffer.  (Number 0 is not protected.)              *)
PlayedFramesDoNotReturn ==
  \A ch \in Channel : \A i \in 1 .. Len(buffer[ch].q) :
    buffer[ch].q[i].seq # 0 => buffer[ch].q[i] \notin spent

(* What the listener's session refuses it has accepted before, or it is a  *)
(* window behind what it has accepted, or it shares its number with a      *)
(* packet of another speaker: the relay copies the number of the speaker,  *)
(* and the listener has one window for all of them.                        *)
RefusalsHaveACause ==
  \A p \in downlink :
    ~Accepts(ear, p.seq) =>
      \/ p \in taken
      \/ \E q \in taken :
           q.seq >= p.seq + WindowSize \/ (q.seq = p.seq /\ q.from # p.from)

(* A duplicate of a buffered frame would make a full buffer give up its    *)
(* oldest frame for nothing: the session lets no duplicate through, even   *)
(* when the channel is joined again meanwhile.  (Not so for number 0.)     *)
DuplicatesEvictNothing ==
  \A p \in opened : p.seq # 0 => ~Holds(buffer[p.ch].q, p.seq)
=============================================================================
