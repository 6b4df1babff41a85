------------------------- MODULE ClientControlsProof -------------------------
(***************************************************************************)
(* Proofs about ClientControls for any set of channels and keys: the       *)
(* hotkey tables agree, push-to-talk follows the keys, the lights of the   *)
(* widgets are true, and so is the indicator of the talk key.              *)
(***************************************************************************)
EXTENDS ClientControls, TLAPS, FiniteSetTheorems

Binds == [key : [Channel -> Key \cup {NoKey}],
          byQt : [QtCode -> Owner], byVk : [VkCode -> Owner]]

Agree(b) ==
  \A ch \in Channel :
    /\ \A q \in QtCode : b.byQt[q] = ch <=> b.key[ch].qt = q
    /\ \A v \in VkCode : b.byVk[v] = ch <=> b.key[ch].vk = v

(* The keys of the library are records with a Qt code other than "none".   *)
LEMMA KeyFacts ==
  /\ \A k \in Key : /\ k.qt # "none" /\ k.qt \in QtCode
                    /\ k.vk # NoVk => k.vk \in VkCode
  /\ \A k, l \in Key : k.vk = l.vk /\ k.vk # NoVk => k.qt = l.qt
  /\ NoKey.qt = "none" /\ NoKey.vk = NoVk
  /\ "none" \notin QtCode /\ NoVk \notin VkCode
  /\ 0 \notin Channel
BY KeyAssumption, ChannelAssumption DEF QtCode, VkCode, NoKey, NoVk

----------------------------------------------------------------------------
(* unregisterHotkey.                                                       *)
LEMMA UnregisteredAgrees ==
  ASSUME NEW b \in Binds, Agree(b), NEW ch \in Channel
  PROVE  /\ Unregistered(b, ch) \in Binds
         /\ Unregistered(b, ch).key[ch] = NoKey
         /\ Agree(Unregistered(b, ch))
<1> DEFINE u == Unregistered(b, ch)
<1>1. u \in Binds /\ u.key[ch] = NoKey
  BY DEF Binds, Unregistered, Without, Owner
<1>2. ASSUME NEW c \in Channel, NEW q \in QtCode
      PROVE  u.byQt[q] = c <=> u.key[c].qt = q
  BY <1>2, KeyFacts DEF Agree, Binds, Unregistered, Without
<1>3. ASSUME NEW c \in Channel, NEW v \in VkCode
      PROVE  u.byVk[v] = c <=> u.key[c].vk = v
  BY <1>3, KeyFacts DEF Agree, Binds, Unregistered, Without
<1> QED
  BY <1>1, <1>2, <1>3 DEF Agree

(* registerHotkey, for a key that can be mapped or a channel without one.  *)
LEMMA RegisteredAgrees ==
  ASSUME NEW b \in Binds, Agree(b), NEW ch \in Channel, NEW k \in Key,
         k.vk # NoVk \/ b.key[ch] = NoKey
  PROVE  Registered(b, ch, k) \in Binds /\ Agree(Registered(b, ch, k))
<1> DEFINE r == Stored(b, ch, k)
<1>1. SUFFICES ASSUME ~Conflicts(b, ch, k) PROVE r \in Binds /\ Agree(r)
  BY DEF Registered
<1>2. CASE k.vk = NoVk
  <2>1. r = [key |-> b.key, byQt |-> Without(b.byQt, "none"), byVk |-> Without(b.byVk, NoVk)]
    BY <1>2, KeyFacts DEF Stored
  <2>2. Without(b.byQt, "none") = b.byQt /\ Without(b.byVk, NoVk) = b.byVk
    BY KeyFacts DEF Without, Binds
  <2>3. r = b
    BY <2>1, <2>2 DEF Binds
  <2> QED
    BY <2>3
<1>3. CASE k.vk # NoVk
  <2>1. r.key = [b.key EXCEPT ![ch] = k]
    BY <1>3 DEF Stored
  <2>2. \A q \in QtCode : r.byQt[q] = IF q = k.qt THEN ch
                                      ELSE IF q = b.key[ch].qt THEN 0 ELSE b.byQt[q]
    BY <1>3 DEF Stored, Without, Binds
  <2>3. \A v \in VkCode : r.byVk[v] = IF v = k.vk THEN ch
                                      ELSE IF v = b.key[ch].vk THEN 0 ELSE b.byVk[v]
    BY <1>3 DEF Stored, Without, Binds
  <2>4. r \in Binds
    BY <1>3 DEF Stored, Without, Binds, Owner
  <2>5. ASSUME NEW c \in Channel, NEW q \in QtCode
        PROVE  r.byQt[q] = c <=> r.key[c].qt = q
    BY <1>1, <2>1, <2>2, <2>5, KeyFacts DEF Agree, Binds, Conflicts
  <2>6. ASSUME NEW c \in Channel, c # ch
        PROVE  b.key[c].vk # k.vk
    BY <1>1, <1>3, <2>6, KeyFacts DEF Agree, Binds, Conflicts
  <2>7. ASSUME NEW c \in Channel, NEW v \in VkCode
        PROVE  r.byVk[v] = c <=> r.key[c].vk = v
    <3>1. CASE c = ch
      BY <2>1, <2>3, <3>1, KeyFacts DEF Agree, Binds
    <3>2. CASE c # ch
      BY <2>1, <2>3, <2>6, <3>2, KeyFacts DEF Agree, Binds
    <3> QED
      BY <3>1, <3>2
  <2> QED
    BY <2>4, <2>5, <2>7 DEF Agree
<1> QED
  BY <1>2, <1>3

----------------------------------------------------------------------------
(* What every step keeps of types and tables.                              *)
TablesInv == TypeOK /\ HotkeysAgree

LEMMA InitTables == Init => TablesInv
<1> SUFFICES ASSUME Init PROVE TablesInv
  OBVIOUS
<1>1. TalkTypeOK
  BY DEF Init, TalkInit, TalkTypeOK
<1>2. ChannelTypeOK
  BY ChannelAssumption DEF Init, ChannelInit, ChannelTypeOK, Unbound, NoLight, Owner
<1>3. HotkeysAgree
  BY KeyFacts DEF Init, ChannelInit, HotkeysAgree, Unbound
<1> QED
  BY <1>1, <1>2, <1>3 DEF TablesInv, TypeOK

LEMMA TalkTypes == TalkTypeOK /\ TalkNext => TalkTypeOK'
<1> SUFFICES ASSUME TalkTypeOK, TalkNext PROVE TalkTypeOK'
  OBVIOUS
<1> USE DEF TalkTypeOK, UpdateMicrophoneState
<1>0. ASSUME NEW c \in BOOLEAN, OnMuteToggled(c), deafened' \in BOOLEAN
      PROVE  muted' \in BOOLEAN /\ crashed' \in BOOLEAN
             /\ session' \in [muted : BOOLEAN, deafened : BOOLEAN]
  <2>1. CASE UNCHANGED <<muted, session>> /\ crashed' = TRUE
    BY <2>1
  <2>2. CASE muted' = c /\ UpdateMicrophoneState /\ UNCHANGED crashed
    BY <1>0, <2>2
  <2> QED
    BY <1>0, <2>1, <2>2 DEF OnMuteToggled
<1>1. CASE ClickMute
  <2>1. /\ muteChecked' \in BOOLEAN /\ muteEnabled' \in BOOLEAN
        /\ deafened' \in BOOLEAN /\ pttMode' \in BOOLEAN /\ talking' \in BOOLEAN
        /\ talkKey' \in BOOLEAN /\ focused' \in BOOLEAN
    BY <1>1, Zenon DEF ClickMute
  <2>2. OnMuteToggled(muteChecked')
    BY <1>1, Zenon DEF ClickMute
  <2> QED
    BY <1>0, <2>1, <2>2, Zenon
<1>2. CASE ClickDeafen
  <2>1. /\ muteEnabled' \in BOOLEAN /\ deafened' \in BOOLEAN
        /\ pttMode' \in BOOLEAN /\ talking' \in BOOLEAN
        /\ talkKey' \in BOOLEAN /\ focused' \in BOOLEAN
    BY <1>2, Zenon DEF ClickDeafen
  <2>2. CASE UNCHANGED <<muteChecked, muted, session, crashed>>
    BY <2>1, <2>2, Zenon
  <2>3. CASE muteChecked /\ muted' = TRUE /\ UNCHANGED <<muteChecked, session, crashed>>
    BY <2>1, <2>3, Zenon
  <2>4. CASE ~muteChecked /\ muteChecked' = TRUE /\ OnMuteToggled(TRUE)
    BY <1>0, <2>1, <2>4, Zenon
  <2> QED
    BY <1>2, <2>2, <2>3, <2>4, Zenon DEF ClickDeafen, Deafen
<1>3. CASE ClickPushToTalk
  BY <1>3 DEF ClickPushToTalk
<1>4. ASSUME NEW down \in BOOLEAN, TalkKey(down)
      PROVE  TalkTypeOK'
  BY <1>4 DEF TalkKey, SetPushToTalkActive
<1>5. CASE ChangeFocus
  BY <1>5 DEF ChangeFocus
<1> QED
  BY <1>1, <1>2, <1>3, <1>4, <1>5 DEF TalkNext

(* A channel with no light is not among the widgets' lights.               *)
LEMMA ChannelTables ==
  ASSUME ChannelTypeOK, HotkeysAgree, ChannelNext
  PROVE  ChannelTypeOK' /\ HotkeysAgree'
<1>0. binds \in Binds /\ Agree(binds)
  BY DEF ChannelTypeOK, Binds, HotkeysAgree, Agree
<1>a. binds' \in Binds /\ Agree(binds') =>
        HotkeysAgree' /\ binds' \in [key : [Channel -> Key \cup {NoKey}],
                                     byQt : [QtCode -> Owner], byVk : [VkCode -> Owner]]
  BY DEF Binds, HotkeysAgree, Agree
<1>b. UNCHANGED binds => binds' \in Binds /\ Agree(binds')
  BY <1>0
<1>1. CASE MakeWidget
  <2>1. Head(todo) \in Channel /\ Tail(todo) \in Seq(Channel)
    BY <1>1 DEF MakeWidget, ChannelTypeOK
  <2>2. Cardinality(widgets) \in Nat
    BY ChannelAssumption, FS_Subset, FS_CardinalityType DEF ChannelTypeOK
  <2>3. ASSUME NEW n \in Nat, n + 1 <= Len(FKeys)
        PROVE  FKeys[n + 1] \in Key /\ FKeys[n + 1].vk # NoVk
    BY <2>3, KeyAssumption
  <2>4. binds' \in Binds /\ Agree(binds')
    <3>1. CASE Cardinality(widgets) + 1 <= Len(FKeys)
      BY <1>0, <1>1, <2>1, <2>2, <2>3, <3>1, RegisteredAgrees DEF MakeWidget
    <3>2. CASE ~(Cardinality(widgets) + 1 <= Len(FKeys))
      BY <1>0, <1>1, <3>2 DEF MakeWidget
    <3> QED
      BY <3>1, <3>2
  <2>5. labels' \in [Channel -> Key \cup {NoKey}]
    <3>1. CASE Cardinality(widgets) + 1 <= Len(FKeys)
      <4>1. FKeys[Cardinality(widgets) + 1] \in Key
        BY <2>2, <2>3, <3>1
      <4> QED
        BY <1>1, <3>1, <4>1 DEF MakeWidget, ChannelTypeOK
    <3>2. CASE ~(Cardinality(widgets) + 1 <= Len(FKeys))
      BY <1>1, <3>2 DEF MakeWidget, ChannelTypeOK
    <3> QED
      BY <3>1, <3>2
  <2> QED
    BY <1>1, <1>a, <2>1, <2>4, <2>5 DEF MakeWidget, ChannelTypeOK
<1>2. ASSUME NEW list \in ChannelLists, ReloadChannels(list)
      PROVE  ChannelTypeOK' /\ HotkeysAgree'
  <2>1. list \in Seq(Channel)
    BY DEF ChannelLists
  <2> QED
    BY <1>2, <1>a, <1>b, <2>1 DEF ReloadChannels, ChannelTypeOK, NoLight
<1>3. ASSUME NEW ch \in Channel, NEW k \in Key, ChangeHotkey(ch, k)
      PROVE  ChannelTypeOK' /\ HotkeysAgree'
  <2>1. binds' \in Binds /\ Agree(binds')
    BY <1>0, <1>3, UnregisteredAgrees, RegisteredAgrees DEF ChangeHotkey
  <2>2. labels' \in [Channel -> Key \cup {NoKey}]
    <3>1. \E l \in Key \cup {NoKey} : labels' = [labels EXCEPT ![ch] = l]
      BY <1>3 DEF ChangeHotkey, Relabel, ChannelTypeOK
    <3> QED
      BY <3>1 DEF ChannelTypeOK
  <2> QED
    BY <1>3, <1>a, <2>1, <2>2 DEF ChangeHotkey, ChannelTypeOK
<1>4. ASSUME NEW v \in VkCode, KeyDown(v)
      PROVE  ChannelTypeOK' /\ HotkeysAgree'
  BY <1>4, <1>a, <1>b DEF KeyDown, StartPtt, ChannelTypeOK, Owner
<1>5. ASSUME NEW v \in VkCode, KeyUp(v)
      PROVE  ChannelTypeOK' /\ HotkeysAgree'
  BY <1>5, <1>a, <1>b DEF KeyUp, StopPtt, ChannelTypeOK
<1>6. ASSUME NEW ch \in Channel, JoinChannel(ch)
      PROVE  ChannelTypeOK' /\ HotkeysAgree'
  BY <1>6, <1>a, <1>b DEF JoinChannel, ChannelTypeOK
<1>7. ASSUME NEW ch \in Channel, LeaveChannel(ch)
      PROVE  ChannelTypeOK' /\ HotkeysAgree'
  BY <1>7, <1>a, <1>b DEF LeaveChannel, ChannelTypeOK
<1>8. ASSUME NEW ch \in Channel, ClickTransmit(ch)
      PROVE  ChannelTypeOK' /\ HotkeysAgree'
  BY <1>8, <1>a, <1>b DEF ClickTransmit, ChannelTypeOK, Owner
<1> QED
  BY <1>1, <1>2, <1>3, <1>4, <1>5, <1>6, <1>7, <1>8, ChannelAssumption
  DEF ChannelNext, ClickListen, LoginJoins

LEMMA TablesStep == TablesInv /\ [Next]_vars => TablesInv'
<1> SUFFICES ASSUME TablesInv, [Next]_vars PROVE TablesInv'
  OBVIOUS
<1>1. CASE TalkNext /\ UNCHANGED channelVars
  BY <1>1, TalkTypes
  DEF TablesInv, TypeOK, channelVars, ChannelTypeOK, HotkeysAgree
<1>2. CASE ChannelNext /\ UNCHANGED talkVars
  BY <1>2, ChannelTables DEF TablesInv, TypeOK, talkVars, TalkTypeOK
<1>3. CASE UNCHANGED vars
  BY <1>3 DEF TablesInv, TypeOK, vars, talkVars, channelVars, TalkTypeOK,
             ChannelTypeOK, HotkeysAgree
<1> QED
  BY <1>1, <1>2, <1>3 DEF Next

LEMMA TablesHold == Spec => []TablesInv
BY InitTables, TablesStep, PTL DEF Spec

(* ClientControls is type correct for any channels, keys and defaults.     *)
THEOREM TypeCorrect == Spec => []TypeOK
<1>1. TablesInv => TypeOK
  BY DEF TablesInv
<1> QED
  BY <1>1, TablesHold, PTL

(* The three tables of HotkeyManager never disagree about a key or a       *)
(* channel, also when keys are changed or reloaded while they are held.    *)
THEOREM HotkeysStayConsistent == Spec => []HotkeysAgree
<1>1. TablesInv => HotkeysAgree
  BY DEF TablesInv
<1> QED
  BY <1>1, TablesHold, PTL
----------------------------------------------------------------------------
(* The indicator.  Its strengthening speaks of the session only: no slot   *)
(* that leaves the session out can open or close the microphone.           *)
TalkInv == TalkTypeOK /\ (pttMode => session.muted = ~talking)

LEMMA TalkStep ==
  ASSUME TalkInv, TalkNext
  PROVE  pttMode' => session'.muted = ~talking'
<1>0. /\ pttMode \in BOOLEAN /\ talking \in BOOLEAN
      /\ pttMode => session.muted = ~talking
  BY DEF TalkInv, TalkTypeOK
<1>1. CASE ClickMute
  <2>1. CASE pttMode
    <3>1. session' = session
      BY <1>1, <2>1, Zenon DEF ClickMute, OnMuteToggled
    <3> QED
      BY <1>0, <1>1, <3>1, Zenon DEF ClickMute
  <2>2. CASE ~pttMode
    BY <1>1, <2>2, Zenon DEF ClickMute
  <2> QED
    BY <2>1, <2>2
<1>2. CASE ClickDeafen
  <2>1. CASE pttMode
    <3>1. session' = session
      BY <1>2, <2>1, Zenon DEF ClickDeafen, Deafen, OnMuteToggled
    <3> QED
      BY <1>0, <1>2, <3>1, Zenon DEF ClickDeafen
  <2>2. CASE ~pttMode
    BY <1>2, <2>2, Zenon DEF ClickDeafen
  <2> QED
    BY <2>1, <2>2
<1>3. CASE ClickPushToTalk
  <2>1. session'.muted = muted' /\ muted' = pttMode' /\ talking' = FALSE
    BY <1>3 DEF ClickPushToTalk, UpdateMicrophoneState
  <2> QED
    BY <2>1, Zenon
<1>4. ASSUME NEW down \in BOOLEAN, TalkKey(down)
      PROVE  pttMode' => session'.muted = ~talking'
  <2>1. pttMode' = pttMode
    BY <1>4, Zenon DEF TalkKey
  <2>2. CASE UNCHANGED <<talking, session>>
    BY <1>0, <2>1, <2>2, Zenon
  <2>3. CASE talking' = down /\ muted' = ~down /\ UpdateMicrophoneState
    <3>1. session'.muted = muted'
      BY <2>3 DEF UpdateMicrophoneState
    <3> QED
      BY <2>3, <3>1, Zenon
  <2> QED
    BY <1>4, <2>2, <2>3, Zenon DEF TalkKey, SetPushToTalkActive
<1>5. CASE ChangeFocus
  BY <1>0, <1>5, Zenon DEF ChangeFocus
<1> QED
  BY <1>1, <1>2, <1>3, <1>4, <1>5 DEF TalkNext

LEMMA TalkHolds == Spec => []TalkInv
<1>1. Init => TalkInv
  BY InitTables, Zenon DEF Init, TalkInit, TalkInv, TablesInv, TypeOK
<1>2. TalkInv /\ [Next]_vars => TalkInv'
  <2>1. ASSUME TalkInv, TalkNext PROVE TalkInv'
    BY <2>1, TalkStep, TalkTypes DEF TalkInv
  <2>2. ASSUME TalkInv, UNCHANGED talkVars PROVE TalkInv'
    BY <2>2 DEF TalkInv, TalkTypeOK, talkVars
  <2> QED
    BY <2>1, <2>2 DEF Next, vars
<1> QED
  BY <1>1, <1>2, PTL DEF Spec

(* In push-to-talk mode the indicator tells whether anything is sent,      *)
(* whatever channels and hotkeys there are, whatever was clicked before    *)
(* and wherever the talk key went up and down.                             *)
THEOREM IndicatorStaysTrue == Spec => []IndicatorIsTrue
<1>1. TalkInv => IndicatorIsTrue
  BY Zenon DEF TalkInv, TalkTypeOK, IndicatorIsTrue, Sends
<1> QED
  BY <1>1, TalkHolds, PTL
----------------------------------------------------------------------------
(* The lights.  LightsAreTrue is inductive on its own.                     *)
LEMMA LightsStep ==
  ASSUME ChannelTypeOK, LightsAreTrue, ChannelNext
  PROVE  LightsAreTrue'
<1> USE DEF LightsAreTrue, ChannelTypeOK
<1>1. CASE MakeWidget
  BY <1>1 DEF MakeWidget
<1>2. ASSUME NEW list \in ChannelLists, ReloadChannels(list)
      PROVE  LightsAreTrue'
  BY <1>2 DEF ReloadChannels, NoLight
<1>3. ASSUME NEW ch \in Channel, NEW k \in Key, ChangeHotkey(ch, k)
      PROVE  LightsAreTrue'
  BY <1>3 DEF ChangeHotkey
<1>4. ASSUME NEW v \in VkCode, KeyDown(v)
      PROVE  LightsAreTrue'
  BY <1>4 DEF KeyDown, StartPtt
<1>5. ASSUME NEW v \in VkCode, KeyUp(v)
      PROVE  LightsAreTrue'
  BY <1>5 DEF KeyUp, StopPtt
<1>6. ASSUME NEW ch \in Channel, JoinChannel(ch)
      PROVE  LightsAreTrue'
  BY <1>6 DEF JoinChannel
<1>7. ASSUME NEW ch \in Channel, LeaveChannel(ch)
      PROVE  LightsAreTrue'
  BY <1>7 DEF LeaveChannel
<1>8. ASSUME NEW ch \in Channel, ClickTransmit(ch)
      PROVE  LightsAreTrue'
  BY <1>8 DEF ClickTransmit
<1> QED
  BY <1>1, <1>2, <1>3, <1>4, <1>5, <1>6, <1>7, <1>8, ChannelAssumption
  DEF ChannelNext, ClickListen, LoginJoins

(* A widget shows no light that is not true of the session, for any        *)
(* channels, reloads, joins, leaves and keys.                              *)
THEOREM LightsStayTrue == Spec => []LightsAreTrue
<1>1. Init => LightsAreTrue
  BY DEF Init, ChannelInit, LightsAreTrue, NoLight
<1>2. TablesInv /\ LightsAreTrue /\ [Next]_vars => LightsAreTrue'
  <2>1. ASSUME TablesInv, LightsAreTrue, ChannelNext PROVE LightsAreTrue'
    BY <2>1, LightsStep DEF TablesInv, TypeOK
  <2>2. ASSUME LightsAreTrue, UNCHANGED channelVars PROVE LightsAreTrue'
    BY <2>2 DEF LightsAreTrue, channelVars
  <2> QED
    BY <2>1, <2>2 DEF Next, vars
<1> QED
  BY <1>1, <1>2, TablesHold, PTL DEF Spec

----------------------------------------------------------------------------
(* Push-to-talk.  The hook's own set of keys has to be right as well, and  *)
(* no key is held while the widgets are being made.                        *)
PttInv ==
  Calm => /\ pressed = {v \in held : binds.byVk[v] # 0}
          /\ PttFollowsKeys
          /\ todo # <<>> => held = {}

(* Two virtual keys never start push-to-talk on the same channel.          *)
LEMMA OneKeyPerChannel ==
  ASSUME ChannelTypeOK, HotkeysAgree, NEW v \in VkCode, NEW w \in VkCode,
         binds.byVk[v] = binds.byVk[w], binds.byVk[v] # 0
  PROVE  v = w
<1>1. binds.byVk[v] \in Channel
  BY DEF ChannelTypeOK, Owner
<1> QED
  BY <1>1 DEF HotkeysAgree

LEMMA PttStep ==
  ASSUME Calm, ChannelTypeOK, HotkeysAgree, PttInv, ChannelNext
  PROVE  PttInv'
<1>0. /\ pressed = {v \in held : binds.byVk[v] # 0}
      /\ ptt = {binds.byVk[v] : v \in held} \ {0}
      /\ todo # <<>> => held = {}
      /\ held \subseteq VkCode
  BY DEF PttInv, PttFollowsKeys, ChannelTypeOK
<1>a. ASSUME held = {}, UNCHANGED <<held, pressed, ptt>>
      PROVE  PttInv'
  BY <1>0, <1>a DEF PttInv, PttFollowsKeys
<1>b. ASSUME UNCHANGED <<binds, held, pressed, ptt, todo>>
      PROVE  PttInv'
  BY <1>b DEF PttInv, PttFollowsKeys
<1>1. CASE MakeWidget
  BY <1>0, <1>1, <1>a DEF MakeWidget
<1>2. ASSUME NEW list \in ChannelLists, ReloadChannels(list)
      PROVE  PttInv'
  BY <1>2, <1>a DEF ReloadChannels
<1>3. ASSUME NEW ch \in Channel, NEW k \in Key, ChangeHotkey(ch, k)
      PROVE  PttInv'
  BY <1>3, <1>a DEF ChangeHotkey
<1>4. ASSUME NEW v \in VkCode, KeyDown(v), todo = <<>>
      PROVE  PttInv'
  <2>1. held' = held \cup {v} /\ UNCHANGED <<binds, todo>>
    BY <1>4 DEF KeyDown
  <2>2. CASE binds.byVk[v] # 0 /\ v \notin pressed
    <3>1. pressed' = pressed \cup {v} /\ ptt' = ptt \cup {binds.byVk[v]}
      BY <1>4, <2>2 DEF KeyDown, StartPtt
    <3> QED
      BY <1>0, <1>4, <2>1, <2>2, <3>1 DEF PttInv, PttFollowsKeys
  <2>3. CASE binds.byVk[v] = 0 \/ v \in pressed
    <3>1. UNCHANGED <<pressed, ptt>>
      BY <1>4, <2>3 DEF KeyDown
    <3> QED
      BY <1>0, <1>4, <2>1, <2>3, <3>1 DEF PttInv, PttFollowsKeys
  <2> QED
    BY <2>2, <2>3
<1>5. ASSUME NEW v \in VkCode, KeyUp(v), todo = <<>>
      PROVE  PttInv'
  <2>1. held' = held \ {v} /\ v \in held /\ UNCHANGED <<binds, todo>>
    BY <1>5 DEF KeyUp
  <2>2. CASE binds.byVk[v] # 0
    <3>1. pressed' = pressed \ {v} /\ ptt' = ptt \ {binds.byVk[v]}
      BY <1>5, <2>2 DEF KeyUp, StopPtt
    <3>2. \A w \in held : binds.byVk[w] = binds.byVk[v] => w = v
      BY <1>0, <2>2, OneKeyPerChannel
    <3> QED
      BY <1>0, <1>5, <2>1, <2>2, <3>1, <3>2 DEF PttInv, PttFollowsKeys
  <2>3. CASE binds.byVk[v] = 0
    <3>1. UNCHANGED <<pressed, ptt>>
      BY <1>5, <2>3 DEF KeyUp
    <3> QED
      BY <1>0, <1>5, <2>1, <2>3, <3>1 DEF PttInv, PttFollowsKeys
  <2> QED
    BY <2>2, <2>3
<1>6. ASSUME NEW ch \in Channel, JoinChannel(ch)
      PROVE  PttInv'
  BY <1>6, <1>b DEF JoinChannel
<1>7. ASSUME NEW ch \in Channel, LeaveChannel(ch)
      PROVE  PttInv'
  BY <1>7, <1>b DEF LeaveChannel
<1>8. ASSUME NEW ch \in Channel, ClickTransmit(ch)
      PROVE  PttInv'
  BY <1>8, <1>b DEF ClickTransmit
<1> QED
  BY <1>1, <1>2, <1>3, <1>4, <1>5, <1>6, <1>7, <1>8, ChannelAssumption
  DEF ChannelNext, ClickListen, LoginJoins

(* As long as hotkeys change with no key held, push-to-talk is on for      *)
(* exactly the channels whose keys are down.                               *)
THEOREM PttAlwaysFollowsKeys == Spec => [](Calm => PttFollowsKeys)
<1>1. Init => PttInv
  BY DEF Init, ChannelInit, PttInv, PttFollowsKeys
<1>2. TablesInv /\ PttInv /\ [Next]_vars => PttInv'
  <2>1. ASSUME TablesInv, PttInv, ChannelNext PROVE PttInv'
    BY <2>1, PttStep DEF TablesInv, TypeOK, PttInv
  <2>2. ASSUME PttInv, UNCHANGED channelVars PROVE PttInv'
    BY <2>2 DEF PttInv, PttFollowsKeys, channelVars
  <2> QED
    BY <2>1, <2>2 DEF Next, vars
<1>3. PttInv => (Calm => PttFollowsKeys)
  BY DEF PttInv
<1> QED
  BY <1>1, <1>2, <1>3, TablesHold, PTL DEF Spec
=============================================================================
