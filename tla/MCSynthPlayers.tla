--------------------------- MODULE MCSynthPlayers ---------------------------
(***************************************************************************)
(* Scripts for SynthPlayers: one that frees and exchanges what two players *)
(* use, and some that run one player in the ways its settings allow.       *)
(***************************************************************************)
EXTENDS SynthPlayers

Exchanging == [calls |-> {"free", "in", "out", "vol"}, buffers |-> 3, players |-> 2]
Looping    == [calls |-> {"mode", "loop", "at", "run", "rate"}, buffers |-> 2, players |-> 1]
Modulating == [calls |-> {"mode", "volmode", "speedmode", "vol", "speed", "run"},
               buffers |-> 2, players |-> 1]
Swapping   == [calls |-> {"mode", "loop", "in", "out", "phase", "run"},
               buffers |-> 3, players |-> 1]
Rewiring   == [calls |-> {"free", "in", "out", "vol", "phase", "speed"}, buffers |-> 3, players |-> 1]

AllScripts == {Exchanging, Looping, Modulating, Swapping, Rewiring}

Steps      == {-1, 1, 2, 3}
Modulates  == {1}
Places     == {-1, 0, 3}
=============================================================================
