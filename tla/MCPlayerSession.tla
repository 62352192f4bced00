--------------------------- MODULE MCPlayerSession ---------------------------
(* PlayerSession on a small instance; Session.cfg names the bounds.  The    *)
(* readers are alike, and so are the writers.                              *)
EXTENDS PlayerSession, TLC

Symmetry == Permutations(Readers) \cup Permutations(Writers)
=============================================================================
