-------------------------- MODULE MCClientControls ---------------------------
(* A small instance of ClientControls: two channels; a function key, the   *)
(* two keys Qt calls "1", and one whose name the program cannot parse.     *)
EXTENDS ClientControls

F1 == [qt |-> "F1", vk |-> "VK_F1"]
MCKey == {F1, [qt |-> "1", vk |-> "VK_1"], [qt |-> "1", vk |-> "VK_NUMPAD1"],
          [qt |-> "Plus", vk |-> NoVk]}
MCFKeys    == <<F1>>
MCDefaults == <<1, 2>>

(* No step and no property of the run reads the labels.                    *)
View == <<talkVars, binds, held, pressed, ptt, hotMic, listening, widgets, lit, todo>>
=============================================================================
