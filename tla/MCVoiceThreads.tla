--------------------------- MODULE MCVoiceThreads ---------------------------
(* A small instance of VoiceThreads. *)
EXTENDS VoiceThreads
=============================================================================
