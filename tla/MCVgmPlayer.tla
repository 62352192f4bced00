----------------------------- MODULE MCVgmPlayer -----------------------------
(* VgmPlayer at three samples of the device to two of the file, so that    *)
(* every conversion rounds.  The files: one that ends, one that loops, one *)
(* with an unknown command, one that is cut off, one that fades from its   *)
(* first loop on with no total in its header, one that loops three times   *)
(* and whose fade can begin ahead of the clock.                            *)
EXTENDS VgmPlayer

MCFiles == {
    [cmds |-> <<2, 0, 3, End>>, loop |-> 0, total |-> 5, loopSamples |-> 0,
     maxLoop |-> 2, chips |-> 1],
    [cmds |-> <<0, 2, 0, 3, End>>, loop |-> 3, total |-> 5,
     loopSamples |-> 3, maxLoop |-> 2, chips |-> 2],
    [cmds |-> <<1, Bad>>, loop |-> 0, total |-> 1, loopSamples |-> 0,
     maxLoop |-> 2, chips |-> 1],
    [cmds |-> <<1, 2>>, loop |-> 0, total |-> 3, loopSamples |-> 0,
     maxLoop |-> 2, chips |-> 0],
    [cmds |-> <<3, End>>, loop |-> 1, total |-> 0, loopSamples |-> 3,
     maxLoop |-> 1, chips |-> 1],
    [cmds |-> <<1, 3, End>>, loop |-> 2, total |-> 4, loopSamples |-> 3,
     maxLoop |-> 3, chips |-> 1]}
=============================================================================
