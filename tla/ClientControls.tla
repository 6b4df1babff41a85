--------------------------- MODULE ClientControls ---------------------------
(***************************************************************************)
(* All controls of the client together: the buttons of TalkControls decide *)
(* whether the voice session captures, the widgets and hotkeys of          *)
(* ChannelControls where it sends what it captured.                        *)
(***************************************************************************)
EXTENDS TalkControls, ChannelControls

vars == <<talkVars, channelVars>>

Init == TalkInit /\ ChannelInit

(* TalkNext stops with a crash, too.                                       *)
Next ==
  \/ todo = <<>> /\ TalkNext /\ UNCHANGED channelVars
  \/ ~crashed /\ ChannelNext /\ UNCHANGED talkVars

Spec == Init /\ [][Next]_vars

----------------------------------------------------------------------------
(* The channels on_audio_captured sends a frame to.                        *)
TargetChannels == IF ptt # {} THEN ptt ELSE {hotMic} \ {0}
Sends == IF session.muted THEN {} ELSE TargetChannels

(* TYPE INVARIANT: all state of the window, the hotkeys and the session is *)
(* what the code can hold; no widget that is gone shows a light.           *)
TypeOK == TalkTypeOK /\ ChannelTypeOK

(* In push-to-talk mode the window's indicator is right: while it says     *)
(* "Press to Talk" nothing is sent to any channel, by hot microphone or by *)
(* hotkey, and while it says "TRANSMITTING" everything is, through any use *)
(* of Mute and Deafen, whose slots do not all tell the session what they   *)
(* change, and of a talk key that moves in other windows.                  *)
IndicatorIsTrue ==
  pttMode => Sends = IF talking THEN TargetChannels ELSE {}
=============================================================================
