------------------------------ MODULE ByteQueue ------------------------------
(***************************************************************************)
(* What the PSF and USF backends expect of their fifo_buffer: a bounded    *)
(* queue of bytes that accepts as much of a block as there is room for and *)
(* hands out the oldest bytes first.                                       *)
(***************************************************************************)
EXTENDS Naturals, Sequences, FiniteSetsExt

CONSTANTS
    Bytes,      \* the byte values
    Capacity,   \* how many bytes the queue holds
    Blocks      \* the blocks that may be put

VARIABLES
    queue,      \* the bytes in the queue, oldest first
    offered,    \* the block of the last put
    got         \* the bytes the last get returned

qvars == <<queue, offered, got>>

Init == queue = << >> /\ offered = << >> /\ got = << >>

Accepted(block) ==
    SubSeq(block, 1, Min({Len(block), Capacity - Len(queue)}))

Put(block) ==
    /\ queue' = queue \o Accepted(block)
    /\ offered' = block
    /\ UNCHANGED got

Get(n) ==
    LET m == Min({n, Len(queue)})
    IN  /\ got' = SubSeq(queue, 1, m)
        /\ queue' = SubSeq(queue, m + 1, Len(queue))
        /\ UNCHANGED offered

Reset == queue' = << >> /\ UNCHANGED <<offered, got>>

Next ==
    \/ \E block \in Blocks : Put(block)
    \/ \E n \in 0..Capacity : Get(n)
    \/ Reset

Spec == Init /\ [][Next]_qvars
=============================================================================
