--------------------------- MODULE AudioFifoProofs ---------------------------
(***************************************************************************)
(* The ring of AudioFifo implements the bounded queue of ByteQueue, for    *)
(* every buffer length, counter width and block size.                      *)
(*                                                                         *)
(* Positions are compared through the modulus twice: once by the width of  *)
(* the counters (Wrap), once by the size of the ring.  The two agree when  *)
(* the ring's size divides 2^Width, and otherwise as long as the write     *)
(* counter has not wrapped.  Under either condition the argument is        *)
(* linear: RingIndex turns every index into an IF on the read index.       *)
(***************************************************************************)
EXTENDS AudioFifo, SequenceTheorems, TLAPS

M == 2^Width

\* The ring's size divides the counters' range.
Aligned == M % size = 0

\* The write counter does not wrap in this step: 64 bits outlast every track.
NoWrap == write_pos' >= write_pos \/ fifo_init

\* The writer never laps the reader, and the two positions compare.
FifoInv ==
    /\ TypeOK
    /\ available <= size
    /\ Aligned \/ read_pos <= write_pos

-----------------------------------------------------------------------------
(* Arithmetic.                                                             *)

\* A remainder lies below its divisor.
LEMMA ModRange == ASSUME NEW a \in Int, NEW b \in Nat \ {0}
                  PROVE  (a % b) \in 0..(b - 1)
  OBVIOUS

\* Division with remainder.
LEMMA ModDiv == ASSUME NEW a \in Int, NEW b \in Nat \ {0}
                PROVE  (a \div b) \in Int /\ a = b * (a \div b) + (a % b)
  OBVIOUS

\* The remainder is unique.
LEMMA ModUnique ==
    ASSUME NEW a \in Int, NEW b \in Nat \ {0}, NEW q \in Int,
           NEW r \in 0..(b - 1), a = b * q + r
    PROVE  a % b = r
  OBVIOUS

\* One lap down: a counter in the second range wraps by one subtraction.
LEMMA ModOnce ==
    ASSUME NEW b \in Nat \ {0}, NEW a \in Int
    PROVE  /\ a \in 0..(b - 1) => a % b = a
           /\ a \in b..(2 * b - 1) => a % b = a - b
           /\ a \in (-b)..(-1) => a % b = a + b
<1>1. a \in 0..(b - 1) => a % b = a
  <2>1. a = b * 0 + a
    OBVIOUS
  <2>2. QED
    BY <2>1, ModUnique
<1>2. a \in b..(2 * b - 1) => a % b = a - b
  <2>1. a = b * 1 + (a - b)
    OBVIOUS
  <2>2. QED
    BY <2>1, ModUnique
<1>3. a \in (-b)..(-1) => a % b = a + b
  <2>1. a = b * (-1) + (a + b)
    OBVIOUS
  <2>2. QED
    BY <2>1, ModUnique
<1>4. QED
  BY <1>1, <1>2, <1>3

\* The index j places after the position x of a ring of s cells.
LEMMA RingIndex ==
    ASSUME NEW s \in Nat \ {0}, NEW x \in Int, NEW j \in 0..(s - 1)
    PROVE  (x + j) % s = IF (x % s) + j < s THEN (x % s) + j
                                            ELSE (x % s) + j - s
<1>1. PICK q \in Int, r \in 0..(s - 1) : x = s * q + r /\ x % s = r
  BY ModDiv, ModRange
<1>2. CASE r + j < s
  <2>1. x + j = s * q + (r + j)
    BY <1>1
  <2>2. r + j \in 0..(s - 1)
    BY <1>2
  <2>3. (x + j) % s = r + j
    BY <2>1, <2>2, x + j \in Int, ModUnique, Zenon
  <2>4. QED
    BY <1>1, <1>2, <2>3
<1>3. CASE ~(r + j < s)
  <2>1. x + j = s * (q + 1) + (r + j - s)
    BY <1>1
  <2>2. r + j - s \in 0..(s - 1)
    BY <1>3
  <2>3. (x + j) % s = r + j - s
    BY <2>1, <2>2, x + j \in Int, q + 1 \in Int, ModUnique, Zenon
  <2>4. QED
    BY <1>1, <1>3, <2>3
<1>4. QED
  BY <1>2, <1>3

\* One whole lap of the ring leads back to the same cell.
LEMMA RingLap ==
    ASSUME NEW s \in Nat \ {0}, NEW x \in Int
    PROVE  (x + s) % s = x % s
<1>1. (x \div s) \in Int /\ x = s * (x \div s) + (x % s)
  BY ModDiv
<1>2. (x % s) \in 0..(s - 1)
  BY ModRange
<1>3. x + s = s * ((x \div s) + 1) + (x % s)
  BY <1>1, <1>2
<1>4. (x \div s) + 1 \in Int
  BY <1>1
<1>5. QED
  BY <1>2, <1>3, <1>4, x + s \in Int, ModUnique, Zenon

\* Min of two numbers.
LEMMA MinOfTwo ==
    ASSUME NEW a \in Int, NEW b \in Int
    PROVE  Min({a, b}) = IF a <= b THEN a ELSE b
<1>1. \E x \in {a, b} : \A y \in {a, b} : x =< y
  OBVIOUS
<1>2. QED
  BY <1>1 DEF Min

\* The first n elements of a sequence ...
LEMMA FirstBytes ==
    ASSUME NEW S, NEW s \in Seq(S), NEW n \in 0..Len(s)
    PROVE  /\ SubSeq(s, 1, n) \in Seq(S) /\ Len(SubSeq(s, 1, n)) = n
           /\ \A i \in 1..n : SubSeq(s, 1, n)[i] = s[i]
  BY LenProperties

\* ... and the rest.
LEMMA LastBytes ==
    ASSUME NEW S, NEW s \in Seq(S), NEW n \in 0..Len(s)
    PROVE  /\ SubSeq(s, n + 1, Len(s)) \in Seq(S)
           /\ Len(SubSeq(s, n + 1, Len(s))) = Len(s) - n
           /\ \A i \in 1..(Len(s) - n) : SubSeq(s, n + 1, Len(s))[i] = s[n + i]
  BY LenProperties

-----------------------------------------------------------------------------
(* The two moduli.                                                         *)

\* The constants as the proofs use them.
LEMMA Consts == size \in Nat \ {0} /\ M \in Nat \ {0} /\ size < M
  BY FifoAssumption DEF size, M

\* A wrapped position selects the cell of the position that did not wrap.
LEMMA Straight ==
    ASSUME NEW p \in 0..(2 * M - 1), Aligned \/ p < M
    PROVE  Wrap(p) % size = p % size
<1> USE Consts
<1>1. CASE p < M
  BY <1>1, ModOnce DEF Wrap, M
<1>2. CASE p >= M
  <2>1. Wrap(p) = p - M
    <3>1. p \in M..(2 * M - 1)
      BY <1>2
    <3>2. p % M = p - M
      BY <3>1, ModOnce
    <3>3. QED
      BY <3>2 DEF Wrap, M
  <2>2. PICK k \in Int : M = size * k
    <3>1. M % size = 0
      BY <1>2 DEF Aligned
    <3>2. (M \div size) \in Int /\ M = size * (M \div size) + (M % size)
      BY ModDiv
    <3>3. QED
      BY <3>1, <3>2
  <2>3. PICK q \in Int, r \in 0..(size - 1) : p = size * q + r /\ p % size = r
    <3>1. (p \div size) \in Int /\ p = size * (p \div size) + (p % size)
      BY ModDiv
    <3>2. (p % size) \in 0..(size - 1)
      BY ModRange
    <3>3. QED
      BY <3>1, <3>2
  <2>4. p - M = size * (q - k) + r
    BY <2>2, <2>3
  <2>5. (p - M) % size = r
    BY <2>4, p - M \in Int, q - k \in Int, ModUnique, Zenon
  <2>6. QED
    BY <2>1, <2>3, <2>5
<1>3. QED
  BY <1>1, <1>2

\* Wrap in the ranges that the operations reach.
LEMMA WrapOnce ==
    ASSUME NEW a \in Int
    PROVE  /\ a \in 0..(M - 1) => Wrap(a) = a
           /\ a \in M..(2 * M - 1) => Wrap(a) = a - M
           /\ a \in (-M)..(-1) => Wrap(a) = a + M
  BY Consts, ModOnce DEF Wrap, M

\* The distance between the positions, and the free space it leaves.
LEMMA Distance ==
    ASSUME NEW w \in 0..(M - 1), NEW r \in 0..(M - 1)
    PROVE  /\ Wrap(w - r) \in 0..(M - 1)
           /\ w = Wrap(r + Wrap(w - r))
           /\ Wrap(w - r) <= size => Wrap(size - w + r) = size - Wrap(w - r)
<1> USE Consts
<1>1. CASE r <= w
  <2>1. Wrap(w - r) = w - r
    BY <1>1, w - r \in 0..(M - 1), WrapOnce
  <2>2. Wrap(r + (w - r)) = w
    BY <1>1, r + (w - r) = w, WrapOnce
  <2>3. w - r <= size => Wrap(size - w + r) = size - (w - r)
    BY <1>1, size - w + r \in Int, WrapOnce
  <2>4. QED
    BY <1>1, <2>1, <2>2, <2>3
<1>2. CASE w < r
  <2>1. Wrap(w - r) = w - r + M
    BY <1>2, w - r \in (-M)..(-1), WrapOnce
  <2>2. Wrap(r + (w - r + M)) = w
    BY <1>2, r + (w - r + M) = w + M, w + M \in M..(2 * M - 1), WrapOnce
  <2>3. w - r + M <= size => Wrap(size - w + r) = size - (w - r + M)
    <3>1. SUFFICES ASSUME w - r + M <= size
                   PROVE  Wrap(size - w + r) = size - (w - r + M)
      OBVIOUS
    <3>2. size - w + r \in M..(2 * M - 1)
      BY <1>2, <3>1
    <3>3. QED
      BY <3>2, WrapOnce
  <2>4. QED
    BY <1>2, <2>1, <2>2, <2>3
<1>3. QED
  BY <1>1, <1>2

\* A position a further n bytes on is a distance of a further n.
LEMMA Advance ==
    ASSUME NEW r \in 0..(M - 1), NEW a \in 0..size, NEW n \in 0..size
    PROVE  /\ a + n <= size => Wrap(Wrap(Wrap(r + a) + n) - r) = a + n
           /\ n <= a => Wrap(Wrap(r + a) - Wrap(r + n)) = a - n
<1> USE Consts
<1>1. a + n <= size => Wrap(Wrap(Wrap(r + a) + n) - r) = a + n
  <2>1. SUFFICES ASSUME a + n <= size
                 PROVE  Wrap(Wrap(Wrap(r + a) + n) - r) = a + n
    OBVIOUS
  <2>2. Wrap(r + a) = r + a \/ (Wrap(r + a) = r + a - M /\ r + a >= M)
    BY r + a \in Int, WrapOnce
  <2>3. Wrap(r + a) \in 0..(M - 1)
    BY r + a \in 0..(2 * M - 1), WrapOnce
  <2>4. PICK v \in 0..(M - 1) : v = Wrap(r + a)
    BY <2>3
  <2>5. PICK u \in 0..(M - 1) : u = Wrap(v + n) /\ (u = v + n \/ u = v + n - M)
    BY v + n \in 0..(2 * M - 1), WrapOnce
  <2>6. u - r = a + n \/ u - r = a + n - M
    BY <2>1, <2>2, <2>4, <2>5
  <2>7. Wrap(u - r) = a + n
    <3>1. CASE u - r = a + n
      BY <2>1, <3>1, a + n \in 0..(M - 1), WrapOnce
    <3>2. CASE u - r = a + n - M
      BY <2>1, <3>2, a + n - M \in (-M)..(-1), WrapOnce
    <3>3. QED
      BY <2>6, <3>1, <3>2
  <2>8. QED
    BY <2>4, <2>5, <2>7
<1>2. n <= a => Wrap(Wrap(r + a) - Wrap(r + n)) = a - n
  <2>1. SUFFICES ASSUME n <= a
                 PROVE  Wrap(Wrap(r + a) - Wrap(r + n)) = a - n
    OBVIOUS
  <2>2. PICK v \in 0..(M - 1) : v = Wrap(r + a) /\ (v = r + a \/ v = r + a - M)
    BY r + a \in 0..(2 * M - 1), WrapOnce
  <2>3. PICK u \in 0..(M - 1) : u = Wrap(r + n) /\ (u = r + n \/ u = r + n - M)
    BY r + n \in 0..(2 * M - 1), WrapOnce
  <2>4. Wrap(v - u) = a - n
    <3>1. CASE v - u = a - n
      BY <2>1, <3>1, a - n \in 0..(M - 1), WrapOnce
    <3>2. CASE v - u = a - n - M
      BY <2>1, <3>2, a - n - M \in (-M)..(-1), WrapOnce
    <3>3. QED
      BY <2>1, <2>2, <2>3, <3>1, <3>2
  <2>5. QED
    BY <2>2, <2>3, <2>4
<1>3. QED
  BY <1>1, <1>2

-----------------------------------------------------------------------------
(* The invariant and the refinement, operation by operation.               *)

\* Blocks are sequences of bytes.
LEMMA BlockType ==
    ASSUME NEW input \in Blocks
    PROVE  /\ input \in Seq(Bytes)
           /\ Len(input) \in Nat
           /\ DOMAIN input = 1..Len(input)
<1>1. PICK k \in 0..MaxBlock : input \in [1..k -> Bytes]
  BY DEF Blocks
<1>2. input \in Seq(Bytes)
  BY <1>1, FifoAssumption
<1>3. QED
  BY <1>2, LenProperties

\* What FifoInv says of the positions, as the operations use it.
LEMMA Positions ==
    ASSUME FifoInv
    PROVE  /\ available \in 0..size
           /\ write_pos = Wrap(read_pos + available)
           /\ fifo_free_space = size - available
           /\ write_pos % size = (read_pos + available) % size
           /\ Aligned \/ read_pos + available < M
<1> USE Consts DEF FifoInv, TypeOK
<1>1. available \in 0..size /\ write_pos = Wrap(read_pos + available)
  BY Distance DEF available, M
<1>2. fifo_free_space = size - available
  BY Distance DEF available, fifo_free_space, M
<1>3. read_pos + available \in 0..(2 * M - 1)
  BY <1>1 DEF M
<1>4. Aligned \/ read_pos + available < M
  <2>1. SUFFICES ASSUME read_pos <= write_pos
                 PROVE  read_pos + available < M
    OBVIOUS
  <2>2. available = write_pos - read_pos
    BY <2>1, write_pos - read_pos \in 0..(M - 1), WrapOnce DEF available, M
  <2>3. QED
    BY <2>2 DEF M
<1>5. QED
  BY <1>1, <1>2, <1>3, <1>4, Straight

\* The i-th byte of contents, without the counter's wrap.
LEMMA ContentsCell ==
    ASSUME NEW r \in 0..(M - 1), NEW a \in 0..size, NEW i \in 1..a,
           Aligned \/ r + a <= M
    PROVE  Wrap(r + i - 1) % size = (r + (i - 1)) % size
<1> USE Consts
<1>1. r + (i - 1) \in 0..(2 * M - 1)
  OBVIOUS
<1>2. Aligned \/ r + (i - 1) < M
  OBVIOUS
<1>3. r + i - 1 = r + (i - 1)
  OBVIOUS
<1>4. QED
  BY <1>1, <1>2, <1>3, Straight
\* The bytes between the positions r and r + a of a ring b, as contents is.
Between(b, r, a) == [i \in 1..a |-> b[Wrap(r + i - 1) % size]]

\* They form a sequence of length a.
LEMMA BetweenSeq ==
    ASSUME NEW r \in 0..(M - 1), NEW a \in 0..size, NEW b \in [Cells -> Bytes],
           Aligned \/ r + a <= M
    PROVE  /\ Between(b, r, a) \in Seq(Bytes) /\ Len(Between(b, r, a)) = a
           /\ \A i \in 1..a : /\ (r + (i - 1)) % size \in Cells
                             /\ Between(b, r, a)[i] = b[(r + (i - 1)) % size]
<1> USE Consts
<1>1. \A i \in 1..a : Between(b, r, a)[i] = b[(r + (i - 1)) % size]
  BY ContentsCell DEF Between
<1>2. \A i \in 1..a : (r + (i - 1)) % size \in Cells
  <2>1. TAKE i \in 1..a
  <2>2. r + (i - 1) \in Int
    OBVIOUS
  <2>3. QED
    BY <2>2, ModRange DEF Cells
<1>3. Between(b, r, a) \in [1..a -> Bytes]
  BY <1>1, <1>2 DEF Between
<1>4. Between(b, r, a) \in Seq(Bytes) /\ Len(Between(b, r, a)) = a
  BY <1>3
<1>5. QED
  BY <1>1, <1>2, <1>4

\* The cell at most size places after position r.
LEMMA RingIndexTo ==
    ASSUME NEW r \in Int, NEW ri, ri = r % size, NEW a \in 0..size
    PROVE  /\ ri \in 0..(size - 1)
           /\ \E c \in Cells : /\ c = (r + a) % size
                              /\ c = IF ri + a < size THEN ri + a ELSE ri + a - size
<1> USE Consts DEF Cells
<1>1. ri \in 0..(size - 1)
  BY ModRange
<1>2. CASE a < size
  <2>1. (r + a) % size = IF ri + a < size THEN ri + a ELSE ri + a - size
    BY <1>2, a \in 0..(size - 1), RingIndex
  <2>2. QED
    BY <1>1, <1>2, <2>1
<1>3. CASE a = size
  <2>1. (r + size) % size = r % size
    BY RingLap
  <2>2. QED
    BY <1>1, <1>3, <2>1
<1>4. QED
  BY <1>1, <1>2, <1>3

\* The ring b after fifo_put has copied n bytes of input to the index at.
PutInto(b, input, at, n) ==
    LET before == IF n <= size - at THEN n ELSE size - at
    IN  [c \in Cells |-> IF c < n - before THEN input[before + c + 1]
                         ELSE IF c \in at..(at + before - 1)
                              THEN input[c - at + 1]
                              ELSE b[c]]

\* The a bytes from position r on are the same in both rings.
Kept(b, b2, r, a) == \A k \in 0..(a - 1) : b2[(r + k) % size] = b[(r + k) % size]

\* The first n bytes of input are in the ring b from position p on.
Stored(b, p, input, n) == \A k \in 0..(n - 1) : b[(p + k) % size] = input[k + 1]

\* The copies stay inside the block.
LEMMA PutType ==
    ASSUME NEW at \in Cells, NEW n \in 0..size,
           NEW input \in Seq(Bytes), n <= Len(input), NEW b \in [Cells -> Bytes]
    PROVE  PutInto(b, input, at, n) \in [Cells -> Bytes]
<1> USE Consts
<1> DEFINE before == IF n <= size - at THEN n ELSE size - at
<1>1. \A i \in 1..n : input[i] \in Bytes
  BY LenProperties
<1>2. \A c \in Cells :
        /\ c < n - before => before + c + 1 \in 1..n
        /\ c \in at..(at + before - 1) => c - at + 1 \in 1..n
  BY DEF Cells
<1>3. QED
  BY <1>1, <1>2 DEF PutInto

\* They leave the unread bytes alone ...
LEMMA PutKeeps ==
    ASSUME NEW r \in Int, NEW a \in 0..size, NEW n \in 0..size, a + n <= size,
           NEW input, NEW b
    PROVE  Kept(b, PutInto(b, input, (r + a) % size, n), r, a)
<1> USE Consts
<1>0. PICK ri \in 0..(size - 1) : ri = r % size
  BY ModRange
<1>1. PICK at \in Cells : /\ at = (r + a) % size
                          /\ at = IF ri + a < size THEN ri + a ELSE ri + a - size
  BY <1>0, RingIndexTo
<1> DEFINE before == IF n <= size - at THEN n ELSE size - at
<1>2. ASSUME NEW k \in 0..(a - 1)
      PROVE  PutInto(b, input, at, n)[(r + k) % size] = b[(r + k) % size]
  <2>1. k \in 0..size
    OBVIOUS
  <2>2. PICK c \in Cells : /\ c = (r + k) % size
                           /\ c = IF ri + k < size THEN ri + k ELSE ri + k - size
    BY <1>0, <2>1, RingIndexTo
  <2>3. ~(c < n - before) /\ ~(c \in at..(at + before - 1))
    BY <1>1, <2>2 DEF Cells
  <2>4. QED
    BY <2>2, <2>3 DEF PutInto
<1>3. QED
  BY <1>1, <1>2 DEF Kept

\* ... and store the accepted bytes after them.
LEMMA PutStores ==
    ASSUME NEW r \in Int, NEW a \in 0..size, NEW n \in 0..size, a + n <= size,
           NEW input, NEW b
    PROVE  Stored(PutInto(b, input, (r + a) % size, n), r + a, input, n)
<1> USE Consts
<1>0. PICK ri \in 0..(size - 1) : ri = r % size
  BY ModRange
<1>1. PICK at \in Cells : /\ at = (r + a) % size
                          /\ at = IF ri + a < size THEN ri + a ELSE ri + a - size
  BY <1>0, RingIndexTo
<1> DEFINE before == IF n <= size - at THEN n ELSE size - at
<1>2. ASSUME NEW k \in 0..(n - 1)
      PROVE  PutInto(b, input, at, n)[(r + a + k) % size] = input[k + 1]
  <2>1. PICK e \in 0..size : e = a + k /\ r + a + k = r + e
    OBVIOUS
  <2>2. PICK c \in Cells : /\ c = (r + e) % size
                           /\ c = IF ri + e < size THEN ri + e ELSE ri + e - size
    BY <1>0, RingIndexTo
  <2>3. CASE c < n - before
    <3>1. before + c + 1 = k + 1
      BY <1>1, <2>1, <2>2, <2>3 DEF Cells
    <3>2. QED
      BY <2>1, <2>2, <2>3, <3>1 DEF PutInto
  <2>4. CASE ~(c < n - before)
    <3>1. c \in at..(at + before - 1) /\ c - at + 1 = k + 1
      BY <1>1, <2>1, <2>2, <2>4 DEF Cells
    <3>2. QED
      BY <2>1, <2>2, <2>4, <3>1 DEF PutInto
  <2>5. QED
    BY <2>3, <2>4
<1>3. QED
  BY <1>1, <1>2 DEF Stored

\* So the bytes between the positions grow by the accepted ones.
LEMMA PutBetween ==
    ASSUME NEW r \in 0..(M - 1), NEW a \in 0..size, NEW n \in 0..size,
           a + n <= size, Aligned \/ r + (a + n) <= M,
           NEW input \in Seq(Bytes), n <= Len(input),
           NEW b \in [Cells -> Bytes], NEW b2 \in [Cells -> Bytes],
           Kept(b, b2, r, a), Stored(b2, r + a, input, n)
    PROVE  Between(b2, r, a + n) = Between(b, r, a) \o SubSeq(input, 1, n)
<1> USE Consts
<1>0. PICK e \in 0..size : e = a + n
  OBVIOUS
<1>1. PICK sub \in Seq(Bytes) : /\ sub = SubSeq(input, 1, n) /\ Len(sub) = n
                                /\ \A i \in 1..n : sub[i] = input[i]
  <2>1. n \in 0..Len(input)
    BY LenProperties
  <2>2. /\ SubSeq(input, 1, n) \in Seq(Bytes) /\ Len(SubSeq(input, 1, n)) = n
        /\ \A i \in 1..n : SubSeq(input, 1, n)[i] = input[i]
    BY <2>1, FirstBytes, Zenon
  <2>3. QED
    BY <2>2, Zenon
<1>2. PICK old \in Seq(Bytes) :
        /\ old = Between(b, r, a) /\ Len(old) = a
        /\ \A i \in 1..a : old[i] = b[(r + (i - 1)) % size]
  <2>1. Aligned \/ r + a <= M
    OBVIOUS
  <2>2. QED
    BY <2>1, BetweenSeq
<1>3. PICK new \in Seq(Bytes) :
        /\ new = Between(b2, r, e) /\ Len(new) = e
        /\ \A i \in 1..e : new[i] = b2[(r + (i - 1)) % size]
  <2>1. Aligned \/ r + e <= M
    BY <1>0
  <2>2. QED
    BY <2>1, BetweenSeq
<1>4. /\ old \o sub \in Seq(Bytes) /\ Len(old \o sub) = e
      /\ \A i \in 1..e : (old \o sub)[i] = IF i <= a THEN old[i] ELSE sub[i - a]
  <2>1. /\ old \o sub \in Seq(Bytes) /\ Len(old \o sub) = Len(old) + Len(sub)
        /\ \A i \in 1..(Len(old) + Len(sub)) :
              (old \o sub)[i] = IF i <= Len(old) THEN old[i] ELSE sub[i - Len(old)]
    BY ConcatProperties, Zenon
  <2>2. QED
    BY <1>0, <1>1, <1>2, <2>1
<1>5. \A i \in 1..e : new[i] = (old \o sub)[i]
  <2>1. TAKE i \in 1..e
  <2>2. CASE i <= a
    <3>1. i - 1 \in 0..(a - 1) /\ i \in 1..a
      BY <2>2
    <3>2. QED
      BY <1>2, <1>3, <1>4, <2>2, <3>1 DEF Kept
  <2>3. CASE ~(i <= a)
    <3>1. PICK k \in 0..(n - 1) : r + (i - 1) = r + a + k /\ i - a = k + 1 /\ k + 1 \in 1..n
      <4>1. i - a - 1 \in 0..(n - 1)
        BY <1>0, <2>3
      <4>2. QED
        BY <4>1
    <3>2. new[i] = input[k + 1]
      BY <1>3, <3>1 DEF Stored
    <3>3. sub[i - a] = input[k + 1]
      BY <1>1, <3>1
    <3>4. QED
      BY <1>4, <2>3, <3>2, <3>3
  <2>4. QED
    BY <1>0, <2>2, <2>3
<1>6. new = old \o sub
  BY <1>3, <1>4, <1>5, SeqEqual
<1>7. QED
  BY <1>0, <1>1, <1>2, <1>3, <1>6
-----------------------------------------------------------------------------
(* fifo_get on constants.                                                  *)

\* The n bytes that fifo_get copies out from the index at.
GetFrom(b, at, n) ==
    LET before == IF n <= size - at THEN n ELSE size - at
    IN  [i \in 1..n |-> IF i <= before THEN b[at + i - 1] ELSE b[i - before - 1]]

\* They are the n bytes from the read position on.
LEMMA GetBetween ==
    ASSUME NEW r \in 0..(M - 1), NEW n \in 0..size, NEW b, Aligned \/ r + n <= M
    PROVE  GetFrom(b, r % size, n) = Between(b, r, n)
<1> USE Consts
<1>0. PICK at \in 0..(size - 1) : at = r % size
  <2>1. r \in Int
    OBVIOUS
  <2>2. QED
    BY <2>1, ModRange
<1> DEFINE before == IF n <= size - at THEN n ELSE size - at
<1>1. ASSUME NEW i \in 1..n
      PROVE  (IF i <= before THEN b[at + i - 1] ELSE b[i - before - 1])
             = b[Wrap(r + i - 1) % size]
  <2>1. PICK k \in 0..size : k = i - 1
    OBVIOUS
  <2>2. Wrap(r + i - 1) % size = (r + k) % size
    BY <2>1, ContentsCell
  <2>3. PICK c \in Cells : /\ c = (r + k) % size
                           /\ c = IF at + k < size THEN at + k ELSE at + k - size
    BY <1>0, r \in Int, RingIndexTo
  <2>4. (i <= before => at + i - 1 = c) /\ (~(i <= before) => i - before - 1 = c)
    BY <1>0, <2>1, <2>3 DEF Cells
  <2>5. QED
    BY <2>2, <2>3, <2>4
<1>2. QED
  BY <1>0, <1>1 DEF GetFrom, Between

\* Reading on from the wrapped position reads the cells further on.
LEMMA ReadOn ==
    ASSUME NEW r \in 0..(M - 1), NEW n \in 0..size, NEW j \in 0..size,
           Aligned \/ r + n < M
    PROVE  (Wrap(r + n) + j) % size = (r + n + j) % size
<1> USE Consts
<1>1. PICK p \in 0..(2 * M - 1) : p = r + n
  OBVIOUS
<1>2. PICK u \in Int : u = Wrap(p) /\ u % size = p % size
  <2>1. Wrap(p) \in Int
    BY <1>1, WrapOnce
  <2>2. Wrap(p) % size = p % size
    BY <1>1, Straight
  <2>3. QED
    BY <2>1, <2>2
<1>3. PICK ri \in 0..(size - 1) : ri = u % size /\ ri = p % size
  BY <1>2, ModRange
<1>4. \E c \in Cells : /\ c = (u + j) % size
                      /\ c = IF ri + j < size THEN ri + j ELSE ri + j - size
  BY <1>3, RingIndexTo
<1>5. \E c \in Cells : /\ c = (p + j) % size
                      /\ c = IF ri + j < size THEN ri + j ELSE ri + j - size
  BY <1>3, p \in Int, RingIndexTo
<1>6. (u + j) % size = (p + j) % size
  BY <1>4, <1>5
<1>7. QED
  BY <1>1, <1>2, <1>6

\* The bytes between the positions split where fifo_get stops.
LEMMA GetSplits ==
    ASSUME NEW r \in 0..(M - 1), NEW a \in 0..size, NEW n \in 0..a,
           Aligned \/ r + a < M, NEW b \in [Cells -> Bytes]
    PROVE  /\ Between(b, r, n) = SubSeq(Between(b, r, a), 1, n)
           /\ \E u \in 0..(M - 1), d \in 0..size :
                /\ u = Wrap(r + n)
                /\ d = a - n
                /\ Between(b, u, d) = SubSeq(Between(b, r, a), n + 1, a)
<1> USE Consts
<1>1. PICK old \in Seq(Bytes) :
        /\ old = Between(b, r, a) /\ Len(old) = a
        /\ \A i \in 1..a : old[i] = b[(r + (i - 1)) % size]
  <2>1. Aligned \/ r + a <= M
    OBVIOUS
  <2>2. QED
    BY <2>1, BetweenSeq
<1>2. PICK out \in Seq(Bytes) :
        /\ out = Between(b, r, n) /\ Len(out) = n
        /\ \A i \in 1..n : out[i] = b[(r + (i - 1)) % size]
  <2>1. n \in 0..size /\ (Aligned \/ r + n <= M)
    OBVIOUS
  <2>2. QED
    BY <2>1, BetweenSeq
<1>3. PICK u \in 0..(M - 1) : u = Wrap(r + n) /\ (u = r + n \/ u = r + n - M)
  BY r + n \in 0..(2 * M - 1), WrapOnce
<1>4. PICK d \in 0..size : d = a - n
  OBVIOUS
<1>5. PICK rest \in Seq(Bytes) :
        /\ rest = Between(b, u, d) /\ Len(rest) = d
        /\ \A i \in 1..d : rest[i] = b[(u + (i - 1)) % size]
  <2>1. Aligned \/ u + d <= M
    BY <1>3, <1>4
  <2>2. QED
    BY <2>1, BetweenSeq
<1>6. PICK first \in Seq(Bytes) : /\ first = SubSeq(old, 1, n) /\ Len(first) = n
                                  /\ \A i \in 1..n : first[i] = old[i]
  <2>1. n \in 0..Len(old)
    BY <1>1
  <2>2. /\ SubSeq(old, 1, n) \in Seq(Bytes) /\ Len(SubSeq(old, 1, n)) = n
        /\ \A i \in 1..n : SubSeq(old, 1, n)[i] = old[i]
    BY <2>1, FirstBytes, Zenon
  <2>3. QED
    BY <2>2, Zenon
<1>7. PICK last \in Seq(Bytes) :
        /\ last = SubSeq(old, n + 1, Len(old)) /\ Len(last) = Len(old) - n
        /\ \A i \in 1..(Len(old) - n) : last[i] = old[n + i]
  <2>1. n \in 0..Len(old)
    BY <1>1
  <2>2. /\ SubSeq(old, n + 1, Len(old)) \in Seq(Bytes)
        /\ Len(SubSeq(old, n + 1, Len(old))) = Len(old) - n
        /\ \A i \in 1..(Len(old) - n) : SubSeq(old, n + 1, Len(old))[i] = old[n + i]
    BY <2>1, LastBytes, Zenon
  <2>3. QED
    BY <2>2, Zenon
<1>8. out = first
  <2>1. ASSUME NEW i \in 1..n
        PROVE  out[i] = first[i]
    <3>1. i \in 1..a
      OBVIOUS
    <3>2. QED
      BY <1>1, <1>2, <1>6, <3>1, Zenon
  <2>2. QED
    BY <1>2, <1>6, <2>1, SeqEqual
<1>9. rest = last
  <2>1. ASSUME NEW i \in 1..d
        PROVE  rest[i] = last[i]
    <3>1. PICK j \in 0..size : j = i - 1 /\ r + n + j = r + ((n + i) - 1)
      BY <1>4
    <3>2. Aligned \/ r + n < M
      OBVIOUS
    <3>3. (u + j) % size = (r + n + j) % size
      BY <1>3, <3>2, n \in 0..size, ReadOn
    <3>4. rest[i] = b[(r + n + j) % size]
      BY <1>5, <3>1, <3>3
    <3>5. old[n + i] = b[(r + n + j) % size]
      BY <1>1, <1>4, <3>1
    <3>6. last[i] = old[n + i]
      BY <1>1, <1>4, <1>7
    <3>7. QED
      BY <3>4, <3>5, <3>6
  <2>2. Len(rest) = Len(last)
    BY <1>1, <1>4, <1>5, <1>7
  <2>3. QED
    BY <1>5, <1>7, <2>1, <2>2, SeqEqual
<1>10. QED
  BY <1>1, <1>2, <1>3, <1>4, <1>5, <1>6, <1>8, <1>9, <1>7
-----------------------------------------------------------------------------
(* The operations on the state.                                            *)

\* contents, as a value of the two positions and the ring.
LEMMA ContentsBetween == contents = Between(buffer, read_pos, available)
  BY DEF contents, Between

\* The free space is what the queue's Accepted leaves room for.
LEMMA ContentsLen == ASSUME FifoInv PROVE Len(contents) = available
<1>1. available \in 0..size /\ (Aligned \/ read_pos + available < M)
  BY Positions
<1>2. read_pos \in 0..(M - 1) /\ buffer \in [Cells -> Bytes]
  BY DEF FifoInv, TypeOK, M
<1>3. Aligned \/ read_pos + available <= M
  BY <1>1, <1>2, Consts
<1>4. QED
  BY <1>1, <1>2, <1>3, BetweenSeq, ContentsBetween

\* fifo_put appends to the queue what fits of the block.
LEMMA PutStep ==
    ASSUME FifoInv, NEW input \in Blocks, fifo_put(input),
           Aligned \/ write_pos' >= write_pos
    PROVE  FifoInv' /\ Queue!Put(input)
<1> USE Consts
<1>1. PICK r \in 0..(M - 1), w \in 0..(M - 1), a \in 0..size :
        /\ r = read_pos /\ w = write_pos /\ a = available
        /\ w = Wrap(r + a) /\ fifo_free_space = size - a
        /\ w % size = (r + a) % size
        /\ Aligned \/ (r + a < M /\ r <= w)
  BY Positions DEF FifoInv, TypeOK, M
<1>2. PICK b \in [Cells -> Bytes] : b = buffer
  BY DEF FifoInv, TypeOK
<1>3. input \in Seq(Bytes) /\ Len(input) \in Nat
  BY BlockType
<1>4. PICK n \in 0..size : /\ n = Min({Len(input), fifo_free_space})
                           /\ n <= Len(input) /\ a + n <= size
  <2>1. Min({Len(input), size - a}) = IF Len(input) <= size - a THEN Len(input) ELSE size - a
    BY <1>3, MinOfTwo
  <2>2. QED
    BY <1>1, <1>3, <2>1
<1>5. PICK at \in Cells : at = (r + a) % size /\ at = write_pos % size
  BY <1>1, ModRange DEF Cells
<1>6. /\ buffer' = PutInto(b, input, at, n)
      /\ write_pos' = Wrap(w + n)
      /\ offered' = input /\ got' = got /\ read_pos' = r
  <2>1. Min({n, size - at}) = IF n <= size - at THEN n ELSE size - at
    BY MinOfTwo DEF Cells
  <2>2. QED
    BY <1>1, <1>2, <1>4, <1>5, <2>1 DEF fifo_put, PutInto
<1>7. PICK w2 \in 0..(M - 1) : w2 = write_pos' /\ (w2 = w + n \/ w2 = w + n - M)
  BY <1>6, w + n \in 0..(2 * M - 1), WrapOnce
<1>8. available' = a + n
  <2>1. Wrap(Wrap(Wrap(r + a) + n) - r) = a + n
    BY <1>4, Advance
  <2>2. available' = Wrap(write_pos' - read_pos')
    BY DEF available, Wrap
  <2>3. QED
    BY <1>1, <1>6, <2>1, <2>2
<1>9. Aligned \/ (r <= w2 /\ r + (a + n) <= M)
  <2>1. SUFFICES ASSUME ~Aligned PROVE r <= w2 /\ r + (a + n) <= M
    OBVIOUS
  <2>2. w = r + a
    BY <1>1, <2>1, r + a \in 0..(M - 1), WrapOnce
  <2>3. w2 >= w
    BY <1>1, <1>7, <2>1
  <2>4. QED
    BY <1>4, <1>7, <2>2, <2>3
<1>10. PICK b2 \in [Cells -> Bytes] : b2 = buffer' /\ b2 = PutInto(b, input, at, n)
  BY <1>3, <1>4, <1>6, PutType
<1>11. FifoInv'
  <2>1. {offered, got} \subseteq Seq(Bytes)
    BY DEF FifoInv, TypeOK
  <2>2. TypeOK'
    BY <1>3, <1>6, <1>7, <1>10, <2>1 DEF TypeOK, M, Cells, size
  <2>3. (available <= size)'
    BY <1>4, <1>8 DEF size
  <2>4. (Aligned \/ read_pos <= write_pos)'
    BY <1>6, <1>7, <1>9 DEF Aligned, M, size
  <2>5. QED
    BY <2>2, <2>3, <2>4 DEF FifoInv
<1>12. Between(b2, r, a + n) = Between(b, r, a) \o SubSeq(input, 1, n)
  <2>1. r \in Int
    OBVIOUS
  <2>2. Kept(b, b2, r, a) /\ Stored(b2, r + a, input, n)
    BY <1>4, <1>5, <1>10, <2>1, PutKeeps, PutStores
  <2>3. Aligned \/ r + (a + n) <= M
    BY <1>9
  <2>4. PICK block \in Seq(Bytes) : block = input
    BY <1>3
  <2>5. n <= Len(block) /\ a + n <= size /\ Stored(b2, r + a, block, n)
        /\ Kept(b, b2, r, a)
    BY <1>4, <2>2, <2>4
  <2> HIDE Consts
  <2>6. Between(b2, r, a + n) = Between(b, r, a) \o SubSeq(block, 1, n)
    BY <2>3, <2>5, PutBetween
  <2>7. QED
    BY <2>4, <2>6
<1>13. contents' = contents \o SubSeq(input, 1, n)
  <2>1. contents = Between(b, r, a)
    BY <1>1, <1>2, ContentsBetween
  <2>2. contents' = Between(b2, r, a + n)
    BY <1>6, <1>8, <1>10 DEF contents, Between, Wrap, size
  <2>3. QED
    BY <1>12, <2>1, <2>2
<1>14. Queue!Accepted(input) = SubSeq(input, 1, n)
  BY <1>1, <1>4, ContentsLen DEF Queue!Accepted, Queue!Min, Min
<1>15. Queue!Put(input)
  BY <1>6, <1>13, <1>14 DEF Queue!Put
<1>16. QED
  BY <1>11, <1>15
\* fifo_get hands out the oldest bytes of the queue.
LEMMA GetStep ==
    ASSUME FifoInv, NEW m \in 0..BufLength, fifo_get(m)
    PROVE  FifoInv' /\ (\E k \in 0..size : Queue!Get(k))
<1> USE Consts
<1>1. PICK r \in 0..(M - 1), w \in 0..(M - 1), a \in 0..size :
        /\ r = read_pos /\ w = write_pos /\ a = available
        /\ w = Wrap(r + a)
        /\ Aligned \/ (r + a < M /\ r <= w)
  BY Positions DEF FifoInv, TypeOK, M
<1>2. PICK b \in [Cells -> Bytes] : b = buffer
  BY DEF FifoInv, TypeOK
<1>3. m \in 0..size
  BY FifoAssumption DEF size
<1>4. PICK n \in 0..a : n = Min({m, a})
  <2>1. Min({m, a}) = IF m <= a THEN m ELSE a
    BY <1>3, MinOfTwo
  <2>2. QED
    BY <1>3, <2>1
<1>5. PICK at \in Cells : at = r % size
  BY r \in Int, ModRange DEF Cells
<1>6. /\ got' = GetFrom(b, at, n)
      /\ read_pos' = Wrap(r + n)
      /\ write_pos' = w /\ buffer' = b /\ offered' = offered
  <2>1. Min({n, size - at}) = IF n <= size - at THEN n ELSE size - at
    BY MinOfTwo DEF Cells
  <2>2. QED
    BY <1>1, <1>2, <1>4, <1>5, <2>1 DEF fifo_get, GetFrom
<1>7. PICK r2 \in 0..(M - 1) : r2 = read_pos' /\ r2 = Wrap(r + n)
                              /\ (r2 = r + n \/ r2 = r + n - M)
  BY <1>6, r + n \in 0..(2 * M - 1), WrapOnce
<1>8. available' = a - n
  <2>1. Wrap(Wrap(r + a) - Wrap(r + n)) = a - n
    BY n \in 0..size, Advance
  <2>2. available' = Wrap(write_pos' - read_pos')
    BY DEF available, Wrap
  <2>3. QED
    BY <1>1, <1>6, <2>1, <2>2
<1>9. Aligned \/ r2 <= w
  <2>1. SUFFICES ASSUME ~Aligned PROVE r2 <= w
    OBVIOUS
  <2>2. w = r + a
    BY <1>1, <2>1, r + a \in 0..(M - 1), WrapOnce
  <2>3. QED
    BY <1>7, <2>2
<1>10. PICK u \in 0..(M - 1), d \in 0..size :
         /\ u = Wrap(r + n) /\ d = a - n
         /\ Between(b, r, n) = SubSeq(Between(b, r, a), 1, n)
         /\ Between(b, u, d) = SubSeq(Between(b, r, a), n + 1, a)
  <2>1. Aligned \/ r + a < M
    BY <1>1
  <2>2. /\ Between(b, r, n) = SubSeq(Between(b, r, a), 1, n)
        /\ \E u \in 0..(M - 1), d \in 0..size :
             /\ u = Wrap(r + n)
             /\ d = a - n
             /\ Between(b, u, d) = SubSeq(Between(b, r, a), n + 1, a)
    <3> HIDE Consts
    <3>1. QED
      BY <2>1, GetSplits, Zenon
  <2>3. QED
    BY <2>2, Zenon
<1>11. contents = Between(b, r, a) /\ contents' = Between(b, u, d)
  <2>1. contents = Between(b, r, a)
    BY <1>1, <1>2, ContentsBetween
  <2>2. contents' = Between(b, u, d)
    BY <1>6, <1>8, <1>10 DEF contents, Between, Wrap, size
  <2>3. QED
    BY <2>1, <2>2
<1>12. got' = SubSeq(contents, 1, n)
  <2>1. n \in 0..size /\ (Aligned \/ r + n <= M)
    BY <1>1
  <2>2. GetFrom(b, r % size, n) = Between(b, r, n)
    BY <2>1, GetBetween
  <2>3. QED
    BY <1>5, <1>6, <1>10, <1>11, <2>2
<1>13. Len(contents) = a
  BY <1>1, ContentsLen
<1>14. Queue!Get(m)
  <2>1. Queue!Min({m, Len(contents)}) = n
    BY <1>4, <1>13 DEF Queue!Min, Min
  <2>2. contents' = SubSeq(contents, n + 1, Len(contents))
    BY <1>10, <1>11, <1>13
  <2>3. QED
    BY <1>6, <1>12, <2>1, <2>2 DEF Queue!Get
<1>15. FifoInv'
  <2>1. got' \in Seq(Bytes)
    <3>1. n \in 0..size /\ (Aligned \/ r + n <= M)
      BY <1>1
    <3>2. Between(b, r, n) \in Seq(Bytes)
      BY <3>1, BetweenSeq
    <3>3. QED
      BY <1>10, <1>11, <1>12, <3>2
  <2>2. offered \in Seq(Bytes)
    BY DEF FifoInv, TypeOK
  <2>3. TypeOK'
    BY <1>6, <1>7, <2>1, <2>2 DEF TypeOK, M, Cells, size
  <2>4. (available <= size)'
    BY <1>8 DEF size
  <2>5. (Aligned \/ read_pos <= write_pos)'
    BY <1>6, <1>7, <1>9 DEF Aligned, M, size
  <2>6. QED
    BY <2>3, <2>4, <2>5 DEF FifoInv
<1>16. QED
  BY <1>3, <1>14, <1>15

\* Equal positions bound no bytes.
LEMMA EmptyRing ==
    ASSUME NEW b
    PROVE  Wrap(0 - 0) = 0 /\ Between(b, 0, 0) = << >>
<1>1. Wrap(0 - 0) = 0
  BY Consts, 0 - 0 = 0, 0 \in 0..(M - 1), WrapOnce
<1>2. Between(b, 0, 0) = << >>
  BY DEF Between
<1>3. QED
  BY <1>1, <1>2

\* fifo_init empties the queue, whatever the positions were.
LEMMA InitStep ==
    ASSUME FifoInv, fifo_init
    PROVE  FifoInv' /\ Queue!Reset
<1> USE Consts
<1>1. /\ write_pos' = 0 /\ read_pos' = 0 /\ buffer' \in [Cells -> Bytes]
      /\ offered' = offered /\ got' = got
  BY DEF fifo_init
<1>2. available' = 0
  BY <1>1, EmptyRing DEF available, Wrap
<1>3. contents' = << >>
  <2>1. contents' = Between(buffer', 0, 0)
    BY <1>1, <1>2 DEF contents, Between, Wrap, size
  <2>2. QED
    BY <2>1, EmptyRing
<1>4. FifoInv'
  <2>1. {offered, got} \subseteq Seq(Bytes)
    BY DEF FifoInv, TypeOK
  <2>2. QED
    BY <1>1, <1>2, <2>1 DEF FifoInv, TypeOK, M, Cells, size, Aligned
<1>5. QED
  BY <1>1, <1>3, <1>4 DEF Queue!Reset

-----------------------------------------------------------------------------
\* Every step that keeps the positions comparable is a step of the queue.
LEMMA StepRefines ==
    ASSUME FifoInv, [Next]_vars, Aligned \/ [NoWrap]_vars
    PROVE  FifoInv' /\ [Queue!Next]_(Queue!qvars)
<1>1. CASE fifo_init
  BY <1>1, InitStep DEF Queue!Next
<1>2. ASSUME NEW input \in Blocks, fifo_put(input), ~fifo_init
      PROVE  FifoInv' /\ [Queue!Next]_(Queue!qvars)
  <2>1. Aligned \/ write_pos' >= write_pos
    BY <1>2 DEF NoWrap, vars, FifoInv, TypeOK
  <2>2. FifoInv' /\ Queue!Put(input)
    BY <1>2, <2>1, PutStep
  <2>3. QED
    BY <2>2 DEF Queue!Next
<1>3. ASSUME NEW m \in 0..BufLength, fifo_get(m)
      PROVE  FifoInv' /\ [Queue!Next]_(Queue!qvars)
  BY <1>3, GetStep DEF Queue!Next
<1>4. CASE UNCHANGED vars
  <2>1. contents' = contents
    BY <1>4 DEF vars, contents, available, Wrap, size
  <2>2. UNCHANGED Queue!qvars
    BY <1>4, <2>1 DEF vars, Queue!qvars
  <2>3. FifoInv'
    BY <1>4 DEF vars, FifoInv, TypeOK, available, Wrap, size, Cells, Aligned, M
  <2>4. QED
    BY <2>2, <2>3
<1>5. QED
  BY <1>1, <1>2, <1>3, <1>4 DEF Next

\* The initial ring is the empty queue.
LEMMA InitRefines == Init => FifoInv /\ Queue!Init
<1> SUFFICES ASSUME Init PROVE FifoInv /\ Queue!Init
  OBVIOUS
<1> USE Consts
<1>1. /\ write_pos = 0 /\ read_pos = 0 /\ buffer \in [Cells -> Bytes]
      /\ offered = << >> /\ got = << >>
  BY DEF Init
<1>2. available = 0
  BY <1>1, EmptyRing DEF available
<1>3. contents = << >>
  BY <1>1, <1>2, ContentsBetween, EmptyRing
<1>4. FifoInv
  BY <1>1, <1>2 DEF FifoInv, TypeOK, M
<1>5. QED
  BY <1>1, <1>3, <1>4 DEF Queue!Init

\* The writer never overtakes the reader by more than the ring: no unread byte
\* is overwritten, as long as the positions stay comparable.
THEOREM NeverLapped ==
    Spec /\ (Aligned \/ [][NoWrap]_vars) => []FifoInv
<1>1. Init => FifoInv
  BY InitRefines
<1>2. FifoInv /\ [Next]_vars /\ (Aligned \/ [NoWrap]_vars) => FifoInv'
  BY StepRefines
<1>3. Aligned => []Aligned
  <2>1. Aligned => Aligned'
    BY DEF Aligned, M, size
  <2>2. QED
    BY <2>1, PTL
<1>4. QED
  BY <1>1, <1>2, <1>3, PTL DEF Spec

\* fifo_put and fifo_get are the bounded queue of ByteQueue: bytes come out in
\* the order they went in, none twice and none lost that was accepted, for a
\* ring whose size divides the counters' range, and for any size while the
\* write counter has not wrapped.
THEOREM RingIsAQueue ==
    Spec /\ (Aligned \/ [][NoWrap]_vars) => RefinesQueue
<1>1. Init => Queue!Init
  BY InitRefines
<1>2. FifoInv /\ [Next]_vars /\ (Aligned \/ [NoWrap]_vars) => [Queue!Next]_(Queue!qvars)
  BY StepRefines
<1>3. Aligned => []Aligned
  <2>1. Aligned => Aligned'
    BY DEF Aligned, M, size
  <2>2. QED
    BY <2>1, PTL
<1>4. QED
  BY <1>1, <1>2, <1>3, NeverLapped, PTL DEF Spec, RefinesQueue, Queue!Spec
=============================================================================
