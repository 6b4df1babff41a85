-------------------------- MODULE ChannelControls ---------------------------
(***************************************************************************)
(* The channel widgets of the main window and their hotkeys: which key     *)
(* starts push-to-talk on which channel (HotkeyManager), what the widgets  *)
(* show, and what the voice session does.  The client is the Windows       *)
(* build, whose keyboard hook sees every key, whoever has the focus.       *)
(*                                                                         *)
(* Slots, the hook and the replies of the admin API run in the UI thread,  *)
(* one after the other.                                                    *)
(***************************************************************************)
EXTENDS Naturals, Sequences, FiniteSets

CONSTANTS
  Channel,   \* channel ids, which are positive; 0 means no channel
  Key,       \* key sequences a hotkey can be made of
  FKeys,     \* F1, F2, ... in order, which channels get by default
  Defaults,  \* the channels the window starts with, in order
  MaxHeld,   \* bound: keys held down at the same time
  Calm       \* TRUE: hotkeys change only while no key is held

(* A key has a Qt code and a virtual key code of Windows.  The keys of the *)
(* number pad share the Qt code of the digits but not the virtual one;     *)
(* some keys have no virtual key code in qtKeyToVirtualKey.                *)
NoVk  == "none"
NoKey == [qt |-> "none", vk |-> NoVk]

ASSUME ChannelAssumption ==
  /\ Channel \subseteq Nat \ {0} /\ IsFiniteSet(Channel) /\ 1 \in Channel
  /\ Defaults \in Seq(Channel)
ASSUME KeyAssumption ==
  /\ Key \subseteq [qt : STRING \ {"none"}, vk : STRING]
  /\ \A k, l \in Key : k.vk = l.vk /\ k.vk # NoVk => k.qt = l.qt
  /\ FKeys \in Seq({k \in Key : k.vk # NoVk})
ASSUME SwitchAssumption == MaxHeld \in Nat /\ Calm \in BOOLEAN

QtCode == {k.qt : k \in Key}
VkCode == {k.vk : k \in Key} \ {NoVk}

VARIABLES
  binds,      \* channel_hotkeys_, key_to_channel_ and vk_to_channel_
  held,       \* virtual keys that are physically down
  pressed,    \* pressed_keys_
  ptt,        \* ptt_channels_ of the session
  hotMic,     \* hot_mic_channel_ of the session
  listening,  \* listening_channels_ of the session
  widgets,    \* channels that have a widget
  lit,        \* widgets that show: joined, hot microphone, push-to-talk
  labels,     \* the key each widget shows on its hotkey button
  todo        \* channels onAdminChannelsChanged has still to make a widget for

channelVars == <<binds, held, pressed, ptt, hotMic, listening, widgets, lit, labels, todo>>

NoLight == [joined |-> {}, hot |-> {}, ptt |-> {}]

Owner == Channel \cup {0}
Distinct(s) == \A i, j \in 1 .. Len(s) : s[i] = s[j] => i = j

ChannelTypeOK ==
  /\ binds \in [key : [Channel -> Key \cup {NoKey}],
                byQt : [QtCode -> Owner], byVk : [VkCode -> Owner]]
  /\ held \subseteq VkCode /\ pressed \subseteq VkCode
  /\ ptt \subseteq Channel /\ hotMic \in Owner /\ listening \subseteq Channel
  /\ widgets \subseteq Channel
  /\ lit \in [joined : SUBSET widgets, hot : SUBSET widgets, ptt : SUBSET widgets]
  /\ labels \in [Channel -> Key \cup {NoKey}]
  /\ todo \in Seq(Channel)

----------------------------------------------------------------------------
(* HotkeyManager.                                                          *)
Without(f, x) == [y \in DOMAIN f |-> IF y = x THEN 0 ELSE f[y]]

Unregistered(b, ch) ==
  [key  |-> [b.key EXCEPT ![ch] = NoKey],
   byQt |-> Without(b.byQt, b.key[ch].qt),
   byVk |-> Without(b.byVk, b.key[ch].vk)]

Conflicts(b, ch, k) == b.byQt[k.qt] \notin {0, ch}
Accepted(b, ch, k) == ~Conflicts(b, ch, k) /\ k.vk # NoVk

(* The old key of the channel is taken out of the lookup tables before it  *)
(* turns out whether the new one has a virtual key code.                   *)
Stored(b, ch, k) ==
  LET old == b.key[ch]
      byQt == Without(b.byQt, old.qt)
      byVk == Without(b.byVk, old.vk)
  IN IF k.vk = NoVk
       THEN [key |-> b.key, byQt |-> byQt, byVk |-> byVk]
       ELSE [key  |-> [b.key EXCEPT ![ch] = k],
             byQt |-> [byQt EXCEPT ![k.qt] = ch],
             byVk |-> [byVk EXCEPT ![k.vk] = ch]]

Registered(b, ch, k) == IF Conflicts(b, ch, k) THEN b ELSE Stored(b, ch, k)

Unbound == [key |-> [ch \in Channel |-> NoKey], byQt |-> [q \in QtCode |-> 0],
            byVk |-> [v \in VkCode |-> 0]]

----------------------------------------------------------------------------
(* The constructor starts the loop of createDefaultChannels, which makes a *)
(* widget with a function key for one channel after the other.             *)
ChannelInit ==
  /\ binds = Unbound
  /\ held = {} /\ pressed = {}
  /\ ptt = {} /\ hotMic = 0 /\ listening = {}
  /\ widgets = {} /\ lit = NoLight /\ labels = [ch \in Channel |-> NoKey]
  /\ todo = Defaults

(* One turn of the loops of createDefaultChannels and                      *)
(* onAdminChannelsChanged; the result of registerHotkey is not looked at,  *)
(* and the widget shows the key whatever it was.                           *)
MakeWidget ==
  /\ todo # <<>>
  /\ LET ch == Head(todo)
         index == Cardinality(widgets) + 1
     IN IF index <= Len(FKeys)
          THEN /\ binds' = Registered(binds, ch, FKeys[index])
               /\ labels' = [labels EXCEPT ![ch] = FKeys[index]]
          ELSE UNCHANGED <<binds, labels>>
  /\ widgets' = widgets \cup {Head(todo)}
  /\ todo' = Tail(todo)
  /\ UNCHANGED <<held, pressed, ptt, hotMic, listening, lit>>

(* The reply to getChannels: the widgets make room for those of the        *)
(* server's list.  Hotkeys stay registered until they are overwritten.     *)
ReloadChannels(list) ==
  /\ Calm => held = {}
  /\ todo' = list
  /\ widgets' = {}
  /\ lit' = NoLight /\ labels' = [ch \in Channel |-> NoKey]
  /\ UNCHANGED <<binds, held, pressed, ptt, hotMic, listening>>

(* The widget shows the new key if it was accepted.                        *)
Relabel(b, ch, k) ==
  labels' = [labels EXCEPT ![ch] = IF Accepted(b, ch, k) /\ ch \in widgets THEN k ELSE @]

(* Broken variant: the old hotkey is left for registerHotkey to remove.  *)
ChangeHotkeyInPlace(ch, k) ==
  /\ Calm => held = {}
  /\ binds' = Registered(binds, ch, k)
  /\ Relabel(binds, ch, k)
  /\ UNCHANGED <<held, pressed, ptt, hotMic, listening, widgets, lit, todo>>

(* onChannelHotkeyChangeRequested, after its dialog was closed with a key; *)
(* a reload may have deleted the widget while the dialog was open.  A      *)
(* hotkey that is refused leaves the channel with none, and its label on.  *)
ChangeHotkey(ch, k) ==
  /\ Calm => held = {}
  /\ binds' = Registered(Unregistered(binds, ch), ch, k)
  /\ Relabel(Unregistered(binds, ch), ch, k)
  /\ UNCHANGED <<held, pressed, ptt, hotMic, listening, widgets, lit, todo>>

----------------------------------------------------------------------------
(* onHotkeyPressed and onHotkeyReleased, in which the session's start_ptt  *)
(* and stop_ptt run.                                                       *)
StartPtt(ch) ==
  /\ ptt' = ptt \cup {ch}
  /\ lit' = [lit EXCEPT !.ptt = @ \cup ({ch} \cap widgets)]

StopPtt(ch) ==
  /\ ptt' = ptt \ {ch}
  /\ lit' = [lit EXCEPT !.ptt = @ \ {ch}]

(* The hook sees a key go down, or the repetition of a key that is held.   *)
KeyDown(v) ==
  /\ held' = held \cup {v}
  /\ Cardinality(held') <= MaxHeld
  /\ \/ /\ binds.byVk[v] # 0 /\ v \notin pressed
        /\ pressed' = pressed \cup {v}
        /\ StartPtt(binds.byVk[v])
     \/ /\ binds.byVk[v] = 0 \/ v \in pressed
        /\ UNCHANGED <<pressed, ptt, lit>>
  /\ UNCHANGED <<binds, hotMic, listening, widgets, labels, todo>>

(* Broken variant: the key is not taken out of pressed_keys_.            *)
KeyUpKeepsPressed(v) ==
  /\ v \in held
  /\ held' = held \ {v}
  /\ \/ binds.byVk[v] # 0 /\ StopPtt(binds.byVk[v])
     \/ binds.byVk[v] = 0 /\ UNCHANGED <<ptt, lit>>
  /\ UNCHANGED <<binds, pressed, hotMic, listening, widgets, labels, todo>>

KeyUp(v) ==
  /\ v \in held
  /\ held' = held \ {v}
  /\ \/ /\ binds.byVk[v] # 0
        /\ pressed' = pressed \ {v}
        /\ StopPtt(binds.byVk[v])
     \/ /\ binds.byVk[v] = 0
        /\ UNCHANGED <<pressed, ptt, lit>>
  /\ UNCHANGED <<binds, hotMic, listening, widgets, labels, todo>>

----------------------------------------------------------------------------
(* join_channel of the session and the widget, if there is one: a click on *)
(* the Listen button, or the reply to the login, which joins channel 1.    *)
JoinChannel(ch) ==
  /\ listening' = listening \cup {ch}
  /\ lit' = [lit EXCEPT !.joined = @ \cup ({ch} \cap widgets)]
  /\ UNCHANGED <<binds, held, pressed, ptt, hotMic, widgets, labels, todo>>

LoginJoins == JoinChannel(1)

(* setJoined(false) puts all lights of the widget out, while leave_channel *)
(* touches neither the hot microphone nor push-to-talk.                    *)
LeaveChannel(ch) ==
  /\ listening' = listening \ {ch}
  /\ lit' = [l \in DOMAIN lit |-> lit[l] \ {ch}]
  /\ UNCHANGED <<binds, held, pressed, ptt, hotMic, widgets, labels, todo>>

ClickListen(ch) ==
  /\ ch \in widgets
  /\ \/ ch \in lit.joined /\ LeaveChannel(ch)
     \/ ch \notin lit.joined /\ JoinChannel(ch)

(* Broken variant: only the widget that was clicked is updated.          *)
ClickTransmitOne(ch) ==
  /\ ch \in widgets
  /\ hotMic' = IF hotMic = ch THEN 0 ELSE ch
  /\ lit' = [lit EXCEPT !.hot = IF hotMic = ch THEN @ \ {ch} ELSE @ \cup {ch}]
  /\ UNCHANGED <<binds, held, pressed, ptt, listening, widgets, labels, todo>>

(* onChannelTransmitSelected and updateChannelWidgets.                     *)
ClickTransmit(ch) ==
  /\ ch \in widgets
  /\ hotMic' = IF hotMic = ch THEN 0 ELSE ch
  /\ lit' = [lit EXCEPT !.hot = {hotMic'} \cap widgets, !.ptt = ptt \cap widgets]
  /\ UNCHANGED <<binds, held, pressed, ptt, listening, widgets, labels, todo>>

(* The order of a list that the server sends is arbitrary.                 *)
ChannelLists ==
  {list \in UNION {[1 .. n -> Channel] : n \in 0 .. Cardinality(Channel)} :
     Distinct(list)}

ChannelNext ==
  \/ MakeWidget
  \/ /\ todo = <<>>
     /\ \/ \E list \in ChannelLists : ReloadChannels(list)
        \/ \E ch \in Channel, k \in Key : ChangeHotkey(ch, k)
        \/ \E v \in VkCode : KeyDown(v) \/ KeyUp(v)
        \/ \E ch \in Channel : ClickListen(ch) \/ ClickTransmit(ch)
        \/ LoginJoins

----------------------------------------------------------------------------
(* A channel has a hotkey exactly if the tables for Qt codes and for       *)
(* virtual keys lead from that key back to the channel, and from no other  *)
(* key: no sequence of changes, conflicts and reloads, with digits that    *)
(* share a Qt code and keys that cannot be mapped, leaves a key that is    *)
(* answered for the wrong channel (registerHotkey, unregisterHotkey).      *)
HotkeysAgree ==
  \A ch \in Channel :
    /\ \A q \in QtCode : binds.byQt[q] = ch <=> binds.key[ch].qt = q
    /\ \A v \in VkCode : binds.byVk[v] = ch <=> binds.key[ch].vk = v

(* While hotkeys change only with no key held, push-to-talk is on for      *)
(* exactly the channels whose hotkeys are down, whatever joins, leaves,    *)
(* reloads and clicks happen in between (handleKeyPress, handleKeyRelease, *)
(* start_ptt, stop_ptt).                                                   *)
PttFollowsKeys == ptt = {binds.byVk[v] : v \in held} \ {0}

(* A light that a widget shows is true of the session: a channel shown as  *)
(* joined is listened to, a microphone shown as hot is the one hot         *)
(* microphone, and push-to-talk shown is on.  The session may do more than *)
(* the widgets show (a channel that was left can still be the hot mic).    *)
LightsAreTrue ==
  /\ lit.joined \subseteq listening
  /\ lit.hot \subseteq {hotMic}
  /\ lit.ptt \subseteq ptt
=============================================================================
