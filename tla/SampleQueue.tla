---------------------------- MODULE SampleQueue ----------------------------
(***************************************************************************)
(* What the output buffer of src/synth.c promises to the program and to    *)
(* the audio device: a bounded queue of sample frames.  Its capacity is    *)
(* settled while audio is stopped, it is full when audio starts, and from  *)
(* then on frames are put only where there is room and taken only when     *)
(* they are there.                                                         *)
(***************************************************************************)
EXTENDS Naturals

VARIABLES
  playing,   \* audio is running
  level,     \* frames queued; 0 when not playing
  capacity   \* frames the queue can hold

vars == <<playing, level, capacity>>

Init == ~playing /\ level = 0 /\ capacity = 0

Configure ==
  /\ ~playing
  /\ capacity' \in Nat
  /\ UNCHANGED <<playing, level>>

Start ==
  /\ ~playing
  /\ playing' = TRUE
  /\ level' = capacity
  /\ UNCHANGED capacity

Put ==
  /\ playing
  /\ level' \in level .. capacity
  /\ UNCHANGED <<playing, capacity>>

Take ==
  /\ playing
  /\ level' \in 0 .. level
  /\ UNCHANGED <<playing, capacity>>

Stop ==
  /\ playing
  /\ playing' = FALSE
  /\ level' = 0
  /\ UNCHANGED capacity

Next == Configure \/ Start \/ Put \/ Take \/ Stop

Spec == Init /\ [][Next]_vars
=============================================================================
