---------------------------- MODULE TalkControls ----------------------------
(***************************************************************************)
(* The three buttons of the client's main window that decide whether the   *)
(* microphone is open (Mute, Deafen, Push-to-Talk), the talk key of the    *)
(* push-to-talk mode, and what of all that reaches the voice session.      *)
(*                                                                         *)
(* A button is checkable: a click, and setChecked when it changes the      *)
(* button, emit toggled, and the slot runs at once, inside the caller.     *)
(* The Deafen and Push-to-Talk buttons are checked exactly when deafened   *)
(* and pttMode are TRUE.                                                   *)
(***************************************************************************)

VARIABLES
  muteChecked,  \* muteButton_ is checked
  muteEnabled,  \* muteButton_ takes clicks
  muted,        \* isMuted_ of the window
  deafened,     \* isDeafened_ of the window
  pttMode,      \* isPushToTalkMode_
  talking,      \* isPushToTalkActive_, which the indicator shows as TRANSMITTING
  talkKey,      \* the talk key is physically down
  focused,      \* the window has the focus
  session,      \* is_muted_ and is_deafened_ of the VoiceSession
  crashed       \* the stack of the UI thread has overflowed

talkVars == <<muteChecked, muteEnabled, muted, deafened, pttMode, talking,
              talkKey, focused, session, crashed>>

TalkTypeOK ==
  /\ muteChecked \in BOOLEAN /\ muteEnabled \in BOOLEAN
  /\ muted \in BOOLEAN /\ deafened \in BOOLEAN
  /\ pttMode \in BOOLEAN /\ talking \in BOOLEAN
  /\ talkKey \in BOOLEAN /\ focused \in BOOLEAN
  /\ session \in [muted : BOOLEAN, deafened : BOOLEAN]
  /\ crashed \in BOOLEAN

TalkInit ==
  /\ muteChecked = FALSE /\ muteEnabled = TRUE
  /\ muted = FALSE /\ deafened = FALSE
  /\ pttMode = FALSE /\ talking = FALSE
  /\ talkKey = FALSE /\ focused = TRUE
  /\ session = [muted |-> FALSE, deafened |-> FALSE]
  /\ crashed = FALSE

(* updateMicrophoneState, called after the window's own state was set.     *)
UpdateMicrophoneState == session' = [muted |-> muted', deafened |-> deafened']

(* onMuteToggled.  In push-to-talk mode it sets the button back, which     *)
(* emits toggled again, whose slot sets it back, and so on without end.    *)
OnMuteToggled(checked) ==
  \/ /\ pttMode
     /\ crashed' = TRUE
     /\ UNCHANGED <<muted, session>>
  \/ /\ ~pttMode
     /\ muted' = checked
     /\ UpdateMicrophoneState
     /\ UNCHANGED crashed

ClickMute ==
  /\ focused /\ muteEnabled
  /\ UNCHANGED <<muteEnabled, deafened, pttMode, talking, talkKey, focused>>
  /\ muteChecked' = ~muteChecked
  /\ OnMuteToggled(muteChecked')

(* onDeafenToggled.  It does not call updateMicrophoneState: what it sets  *)
(* reaches the session through onMuteToggled only, if the Mute button      *)
(* changes.                                                                *)
Deafen ==
  \/ /\ muteChecked
     /\ muted' = TRUE
     /\ UNCHANGED <<muteChecked, session, crashed>>
  \/ /\ ~muteChecked
     /\ muteChecked' = TRUE
     /\ OnMuteToggled(TRUE)

ClickDeafen ==
  /\ focused
  /\ deafened' = ~deafened
  /\ muteEnabled' = deafened
  /\ \/ /\ ~deafened
        /\ Deafen
     \/ /\ deafened
        /\ UNCHANGED <<muteChecked, muted, session, crashed>>
  /\ UNCHANGED <<pttMode, talking, talkKey, focused>>

(* Broken variant: entering the mode does not mute.                        *)
ClickPushToTalkOpen ==
  /\ focused
  /\ pttMode' = ~pttMode
  /\ muteEnabled' = pttMode
  /\ muted' = FALSE
  /\ talking' = FALSE
  /\ UNCHANGED <<muteChecked, deafened, talkKey, focused, crashed>>
  /\ UpdateMicrophoneState

(* onPushToTalkToggled.  The mode starts muted and ends unmuted, deafened  *)
(* or not.                                                                 *)
ClickPushToTalk ==
  /\ focused
  /\ pttMode' = ~pttMode
  /\ muteEnabled' = pttMode
  /\ muted' = pttMode'
  /\ talking' = FALSE
  /\ UNCHANGED <<muteChecked, deafened, talkKey, focused, crashed>>
  /\ UpdateMicrophoneState

(* setPushToTalkActive, called in push-to-talk mode only.                  *)
SetPushToTalkActive(active) ==
  \/ /\ pttMode /\ talking # active
     /\ talking' = active
     /\ muted' = ~active
     /\ UpdateMicrophoneState
  \/ /\ ~pttMode \/ talking = active
     /\ UNCHANGED <<talking, muted, session>>

(* The talk key goes down or up.  keyPressEvent and keyReleaseEvent run    *)
(* only in a window that has the focus, and its repetitions are dropped.   *)
TalkKey(down) ==
  /\ talkKey # down
  /\ talkKey' = down
  /\ UNCHANGED <<muteChecked, muteEnabled, deafened, pttMode, focused, crashed>>
  /\ \/ focused /\ SetPushToTalkActive(down)
     \/ ~focused /\ UNCHANGED <<talking, muted, session>>

(* The user changes to another window, or a dialog takes the focus; the    *)
(* window has no handler for it.                                           *)
ChangeFocus ==
  /\ focused' = ~focused
  /\ UNCHANGED <<muteChecked, muteEnabled, muted, deafened, pttMode, talking, talkKey,
                 session, crashed>>

TalkNext ==
  /\ ~crashed
  /\ \/ ClickMute
     \/ ClickDeafen
     \/ ClickPushToTalk
     \/ \E down \in BOOLEAN : TalkKey(down)
     \/ ChangeFocus
=============================================================================
