---------------------------- MODULE ReplayWindow ----------------------------
(***************************************************************************)
(* The sliding window with which an SRTP session refuses packets it has    *)
(* already accepted: ReplayWindow::check_and_update of the server and      *)
(* check_replay of the client, which are the same algorithm.               *)
(*                                                                         *)
(* The 64-bit bitmap is the set of its positions that are 1: position d    *)
(* stands for sequence number max - d, and a shift that pushes a bit past  *)
(* the last position loses it.                                             *)
(***************************************************************************)
EXTENDS Naturals

CONSTANT WindowSize
ASSUME WindowAssumption == WindowSize \in Nat \ {0}

Positions == 0 .. WindowSize - 1
Window == [max : Nat, bits : SUBSET Positions]

Fresh == [max |-> 0, bits |-> {}]

(* Broken variants: the bitmap is not consulted; nothing may be late.      *)
AcceptsRepeats(w, seq) == w.max = 0 \/ seq > w.max \/ w.max - seq < WindowSize
AcceptsNewer(w, seq)   == w.max = 0 \/ seq > w.max

(* max = 0 means that no packet has been seen.                             *)
Accepts(w, seq) ==
  \/ w.max = 0
  \/ seq > w.max
  \/ w.max - seq < WindowSize /\ w.max - seq \notin w.bits

(* Broken variant: a packet ahead of the window does not shift the bitmap. *)
AdvancedUnshifted(w, seq) ==
  IF w.max = 0 \/ seq > w.max THEN [max |-> seq, bits |-> w.bits \cup {0}]
                              ELSE [w EXCEPT !.bits = @ \cup {w.max - seq}]

(* The window after seq was accepted.                                      *)
Advanced(w, seq) ==
  IF w.max = 0 THEN [max |-> seq, bits |-> {0}]
  ELSE IF seq > w.max
    THEN [max  |-> seq,
          bits |-> {0} \cup {d \in Positions :
                              d >= seq - w.max /\ d - (seq - w.max) \in w.bits}]
    ELSE [w EXCEPT !.bits = @ \cup {w.max - seq}]
=============================================================================
