---------------------------- MODULE MCVoicePath -----------------------------
(* A small instance of VoicePath: two speakers, one of whom says more than *)
(* a window holds.                                                         *)
EXTENDS VoicePath

CONSTANTS ann, bob

MCMaxSeq == [s \in Speaker |-> IF s = ann THEN 3 ELSE 2]

(* Of one channel, nothing reads deaf and muted but guards, which they only *)
(* make stronger: whatever happens with them set also happens without.     *)
SwitchView ==
  <<ptt, hot, next, uplink, served, downlink, ear, listening, buffer, arriving, opened,
    mixing, taken, spent>>
=============================================================================
