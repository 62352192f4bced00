----------------------------- MODULE MCAudioFifo -----------------------------
(* AudioFifo on two byte values; the .cfg files name the bounds.           *)
EXTENDS AudioFifo
=============================================================================
