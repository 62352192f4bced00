----------------------------- MODULE MCPlayback -----------------------------
(* Playback on small instances; the .cfg files name the bounds.            *)
EXTENDS Playback
=============================================================================
