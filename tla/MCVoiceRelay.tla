---------------------------- MODULE MCVoiceRelay -----------------------------
(* A small instance of VoiceRelay: the relay never looks at the channel.   *)
EXTENDS VoiceRelay
=============================================================================
