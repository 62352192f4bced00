----------------------------- MODULE MCMusicEmu -----------------------------
(* MusicEmu at three frames to two ticks.  The tracks that start over: all *)
(* of six frames, and those with silence at the beginning (shorter and     *)
(* longer than InitialMax), sound, a pause (from none to longer than       *)
(* SilenceMax) and sound again.  The tracks that fail: all of five frames. *)
EXTENDS MusicEmu

Pauses(lead, sound, pause, again) ==
    [i \in 1..lead |-> FALSE] \o [i \in 1..sound |-> TRUE]
      \o [i \in 1..pause |-> FALSE] \o [i \in 1..again |-> TRUE]

MCTracks ==
    [loud : {Pauses(a, b, c, d) : a \in {0, 1, 5}, b \in 1..2,
                                  c \in 0..14, d \in 0..1},
     fails : {FALSE}, length : {15}]
      \cup [loud : [1..6 -> BOOLEAN], fails : {FALSE}, length : {4, 15}]
      \cup [loud : [1..5 -> BOOLEAN], fails : {TRUE}, length : {9}]
=============================================================================
