------------------------------ MODULE AudioFifo ------------------------------
(***************************************************************************)
(* fifo_buffer of the PSF backend (psf/android/Backend.cpp; the USF        *)
(* backend has the same code): the ring through which generateAudio hands  *)
(* the emulator's output to readNextSamples.  Positions are unsigned       *)
(* counters that only grow and wrap at 2^Width (64 in the code); an index  *)
(* into the ring is a position modulo its size.                            *)
(***************************************************************************)
EXTENDS Integers, Sequences, FiniteSetsExt

CONSTANTS
    Bytes,      \* the byte values
    BufLength,  \* g_buffer_length_bytes_track
    Width,      \* the width of write_pos and read_pos
    MaxBlock    \* bound: bytes the emulator leaves per sexy_execute

VARIABLES
    write_pos,
    read_pos,
    buffer,     \* the ring
    offered,    \* the block of the last fifo_put
    got         \* what the last fifo_get copied out

vars == <<write_pos, read_pos, buffer, offered, got>>

\* loadFileInternal: fifo_init with g_buffer_length_bytes_track * 2
size == 2 * BufLength

\* A ring as large as the counters' range would read as full when empty.
\* (2^Width \in Nat is arithmetic; the provers do not interpret ^.)
ASSUME FifoAssumption ==
    /\ BufLength \in Nat \ {0}
    /\ Width \in Nat
    /\ MaxBlock \in Nat
    /\ Bytes # {}
    /\ 2^Width \in Nat
    /\ size < 2^Width

Wrap(n) == n % 2^Width
Cells == 0..(size - 1)
Blocks == UNION {[1..n -> Bytes] : n \in 0..MaxBlock}

TypeOK ==
    /\ write_pos \in 0..(2^Width - 1)
    /\ read_pos \in 0..(2^Width - 1)
    /\ buffer \in [Cells -> Bytes]
    /\ {offered, got} \subseteq Seq(Bytes)

\* fifo_init: the memory malloc returns holds anything.
fifo_init ==
    /\ write_pos' = 0
    /\ read_pos' = 0
    /\ buffer' \in [Cells -> Bytes]
    /\ UNCHANGED <<offered, got>>

Init ==
    /\ write_pos = 0
    /\ read_pos = 0
    /\ buffer \in [Cells -> Bytes]
    /\ offered = << >>
    /\ got = << >>

fifo_free_space == Wrap(size - write_pos + read_pos)

\* Mutant: the rest is not copied to the beginning of the ring.
fifo_putOneCopy(input) ==
    LET n == Min({Len(input), fifo_free_space})
        at == write_pos % size
    IN  /\ buffer' = [c \in Cells |-> IF c \in at..(at + n - 1)
                                      THEN input[c - at + 1] ELSE buffer[c]]
        /\ write_pos' = Wrap(write_pos + n)
        /\ offered' = input
        /\ UNCHANGED <<read_pos, got>>

\* The bytes that fit are copied up to the end of the ring, the rest of them
\* to its beginning.
fifo_put(input) ==
    LET n == Min({Len(input), fifo_free_space})
        at == write_pos % size
        before == Min({n, size - at})
    IN  /\ buffer' = [c \in Cells |->
                        IF c < n - before THEN input[before + c + 1]
                        ELSE IF c \in at..(at + before - 1)
                             THEN input[c - at + 1]
                             ELSE buffer[c]]
        /\ write_pos' = Wrap(write_pos + n)
        /\ offered' = input
        /\ UNCHANGED <<read_pos, got>>

available == Wrap(write_pos - read_pos)

fifo_get(requested) ==
    LET n == Min({requested, available})
        at == read_pos % size
        before == Min({n, size - at})
    IN  /\ got' = [i \in 1..n |-> IF i <= before THEN buffer[at + i - 1]
                                  ELSE buffer[i - before - 1]]
        /\ read_pos' = Wrap(read_pos + n)
        /\ UNCHANGED <<write_pos, buffer, offered>>

Next ==
    \/ fifo_init
    \/ \E input \in Blocks : fifo_put(input)
    \/ \E n \in 0..BufLength : fifo_get(n)

Spec == Init /\ [][Next]_vars

-----------------------------------------------------------------------------
\* The bytes between the two positions, oldest first.
contents == [i \in 1..available |-> buffer[Wrap(read_pos + i - 1) % size]]

(***************************************************************************)
(* The ring is a bounded queue of bytes: what fifo_get copies out is what  *)
(* fifo_put copied in, in that order, wherever the positions are when the  *)
(* ring and the counters wrap.                                             *)
(***************************************************************************)
Queue == INSTANCE ByteQueue WITH Capacity <- size, queue <- contents

RefinesQueue == Queue!Spec
=============================================================================
