--------------------------- MODULE PlaylistProofs ---------------------------
(***************************************************************************)
(* Playlist keeps its type, its position follows the track to play and     *)
(* only a removal or an overlap of two calls can make it throw, for every  *)
(* set of tracks and lists of any length.                                  *)
(***************************************************************************)
EXTENDS Playlist, SequenceTheorems, TLAPS

\* What RemoveAt leaves: one element fewer, those after the hole one lower.
LEMMA RemoveAtProperties ==
    ASSUME NEW S, NEW s \in Seq(S), NEW i \in 1..Len(s)
    PROVE  /\ RemoveAt(s, i) \in Seq(S)
           /\ Len(RemoveAt(s, i)) = Len(s) - 1
           /\ \A j \in 1..(Len(s) - 1) :
                RemoveAt(s, i)[j] = IF j < i THEN s[j] ELSE s[j + 1]
<1> DEFINE a == SubSeq(s, 1, i - 1)
           b == SubSeq(s, i + 1, Len(s))
<1>0. Len(s) \in Nat /\ i \in Nat /\ 1 <= i /\ i <= Len(s)
  OBVIOUS
<1>1. \A j \in 1..Len(s) : s[j] \in S
  OBVIOUS
<1>2. /\ a \in Seq(S)
      /\ Len(a) = i - 1
      /\ \A j \in 1..(i - 1) : a[j] = s[j]
  <2>1. \A j \in 1..(i - 1) : s[j] \in S
    BY <1>1
  <2>2. 1 \in Int /\ i - 1 \in Int
    OBVIOUS
  <2> QED  BY <2>1, <2>2, SubSeqProperties
<1>3. /\ b \in Seq(S)
      /\ Len(b) = Len(s) - i
      /\ \A j \in 1..(Len(s) - i) : b[j] = s[i + j]
  <2>1. \A j \in (i + 1)..Len(s) : s[j] \in S
    BY <1>1
  <2>2. i + 1 \in Int /\ Len(s) \in Int
    OBVIOUS
  <2> QED  BY <2>1, <2>2, SubSeqProperties
<1>4. /\ a \o b \in Seq(S)
      /\ Len(a \o b) = Len(a) + Len(b)
      /\ \A j \in 1..(Len(a) + Len(b)) :
            (a \o b)[j] = IF j <= Len(a) THEN a[j] ELSE b[j - Len(a)]
  BY <1>2, <1>3, ConcatProperties
<1>5. RemoveAt(s, i) = a \o b
  BY DEF RemoveAt
<1> HIDE DEF a, b
<1>6. ASSUME NEW j \in 1..(Len(s) - 1)
      PROVE  (a \o b)[j] = IF j < i THEN s[j] ELSE s[j + 1]
  <2>1. j \in 1..(Len(a) + Len(b))
    BY <1>2, <1>3
  <2>2. CASE j < i
    BY <2>1, <2>2, <1>2, <1>3, <1>4
  <2>3. CASE ~(j < i)
    <3>1. j - Len(a) \in 1..(Len(s) - i)
      BY <2>3, <1>0, <1>2
    <3>2. b[j - Len(a)] = s[i + (j - Len(a))]
      BY <3>1, <1>3
    <3>3. i + (j - Len(a)) = j + 1
      BY <1>2
    <3> QED  BY <2>1, <2>3, <3>2, <3>3, <1>2, <1>4
  <2> QED  BY <1>0, <2>2, <2>3
<1>7. Len(a) + Len(b) = Len(s) - 1
  BY <1>0, <1>2, <1>3
<1> QED  BY <1>4, <1>5, <1>6, <1>7

\* A shuffle of n positions is a sequence of n of them.
LEMMA ShufflesFit ==
    ASSUME NEW n \in Nat, NEW s \in Shuffles(n)
    PROVE  s \in Seq(Nat) /\ Len(s) = n /\ \A i \in 1..n : s[i] < n
<1>1. s \in [1..n -> 0..(n - 1)]
  BY DEF Shuffles
<1>2. s \in [1..n -> Nat]
  BY <1>1
<1>3. s \in Seq(Nat) /\ Len(s) = n
  BY <1>2
<1> QED  BY <1>1, <1>3

-----------------------------------------------------------------------------
(***************************************************************************)
(* The inductive invariant.  As long as calls do not overlap, at most one  *)
(* thread is inside a call, and what it has read still holds.              *)
(***************************************************************************)
Labels == MainLabels \cup ReaderLabels
Frames == [at : Labels, p : Int, q : Int, id : Tracks \cup {Null}]

\* The reader's loop outside its calls of the playlist.
Outside == {"off", "top", "play", "load", "clear"}

\* A call that holds rows of the playlist screen holds rows of the queue, and
\* one that moves the position up follows a removal: only the main thread,
\* which is busy with the call, changes the queue.
Rowed ==
    /\ Main.at \in {"install", "name"} => Within(queue, Main.p)
    /\ Main.at \in {"moved", "movedTo"} =>
          Within(queue, Main.p) /\ Within(queue, Main.q)
    /\ Main.at \in {"removed", "lower"} => removed

Alone == MainInside /\ ReaderInside => overlapped

Unshuffled ==
    /\ direct => ~shuffle
    /\ Main.at \in {"found", "forget", "flag"} => shuffle

NoReader == Reader.at = "off" => queued = Null

\* An app that has just started: no queue was installed yet.
Fresh ==
    /\ queue = << >> /\ pos = 0 /\ ~shuffle /\ repeat = REPEAT_OFF
    /\ queued = Null /\ current = Null
    /\ Reader.at = "off"
    /\ Main.at \in {"idle", "next", "hand"} /\ Main.id = Null

\* A shuffled order in use is as long as the queue and names rows of it.
OrderFits ==
    shuffle => /\ shuffled # Null
               /\ Len(shuffled) = Len(queue)
               /\ \A i \in 1..Len(queue) : shuffled[i] < Len(queue)

\* The main thread alone keeps the order, overlaps or not.
Sorted == ~removed /\ Main.at \notin {"install", "flag"} => OrderFits

\* The position a thread has read or computed is a row of the queue.
Fits(f) ==
    /\ f.at = "add" => pos + 1 < Len(queue)
    /\ f.at = "sub" => pos > 0
    /\ f.at \in {"put", "check", "order", "fetch", "found", "settle"} =>
          Within(queue, f.p)

\* Until a row is removed, the position and what was read of it are rows.
Placed ==
    ~removed /\ ~overlapped =>
        \/ Fresh
        \/ /\ Main.at \notin {"install", "name"} => Within(queue, pos)
           /\ Fits(Main)
           /\ Fits(Reader)

Here(n) == Within(queue, n) /\ queue[n + 1] = Coming

\* Where the swap of rows o and d leaves position p.
Swapped(p, o, d) == IF p = o THEN d ELSE IF p = d THEN o ELSE p

Dragging == {"moved", "movedTo", "removed", "lower", "settle"}

\* The position is that of the track to come, or will be when the drag or
\* the removal under way has moved it.
Bound ==
    direct /\ ~overlapped =>
        /\ Main.at = "moved" => Here(Swapped(pos, Main.p, Main.q))
        /\ Main.at = "movedTo" =>
              pos # Main.p /\ Here(IF pos = Main.q THEN Main.p ELSE pos)
        /\ Main.at = "removed" => Here(IF Main.p < pos THEN pos - 1 ELSE pos)
        /\ Main.at = "lower" => Here(pos - 1)
        /\ Main.at = "settle" => Here(Main.p)
        /\ Main.at \notin Dragging => Here(pos)

\* A thread that looks a track up looks at the position, and what it hands
\* over is the track there.
Follows(f) ==
    /\ f.at \in {"argument", "check", "order", "fetch", "install", "name"} =>
          ~direct
    /\ f.at = "check" => f.p = pos
    /\ f.at = "order" => shuffle
    /\ f.at = "fetch" /\ ~shuffle => f.p = pos
    /\ f.at = "hand" /\ f.id # Null =>
          ~direct /\ (~shuffle => Within(queue, pos) /\ queue[pos + 1] = f.id)

Borne == ~overlapped => Follows(Main) /\ Follows(Reader)

Inv ==
    /\ TypeOK
    /\ Rowed
    /\ Alone
    /\ Unshuffled
    /\ NoReader
    /\ OnlyRemovalOrRaceCrashes
    /\ Sorted
    /\ Placed
    /\ Bound
    /\ Borne

-----------------------------------------------------------------------------
\* What a frame holds.
LEMMA FrameHolds ==
    ASSUME NEW l \in Labels, NEW p \in Int, NEW q \in Int,
           NEW id \in Tracks \cup {Null}
    PROVE  /\ Frame(l, p, q, id) \in Frames
           /\ Frame(l, p, q, id).at = l
           /\ Frame(l, p, q, id).p = p
           /\ Frame(l, p, q, id).q = q
           /\ Frame(l, p, q, id).id = id
BY DEF Frame, Frames

\* A frame that holds nothing, a position or a track.
LEMMA FrameAt ==
    ASSUME NEW l \in Labels
    PROVE  At(l) \in Frames /\ At(l).at = l /\ At(l).id = Null
BY FrameHolds, 0 \in Int DEF At

LEMMA FrameHolding ==
    ASSUME NEW l \in Labels, NEW p \in Int
    PROVE  /\ Holding(l, p) \in Frames
           /\ Holding(l, p).at = l /\ Holding(l, p).p = p
           /\ Holding(l, p).id = Null
BY FrameHolds, 0 \in Int DEF Holding

LEMMA FrameBearing ==
    ASSUME NEW l \in Labels, NEW id \in Tracks \cup {Null}
    PROVE  /\ Bearing(l, id) \in Frames
           /\ Bearing(l, id).at = l /\ Bearing(l, id).id = id
BY FrameHolds, 0 \in Int DEF Bearing

\* A step of one thread leaves the frame of the other.
LEMMA OneFrame ==
    ASSUME TypeOK, NEW t \in {"main", "reader"}, NEW f \in Frames, Becomes(t, f)
    PROVE  /\ th' \in [{"main", "reader"} -> Frames]
           /\ th'[t] = f
           /\ t = "main" => Main' = f /\ Reader' = Reader
           /\ t = "reader" => Reader' = f /\ Main' = Main
BY DEF TypeOK, Becomes, Main, Reader, Frames, Labels

\* What the type invariant says of the frames.
LEMMA FramesTyped ==
    ASSUME TypeOK, NEW t \in {"main", "reader"}
    PROVE  /\ th \in [{"main", "reader"} -> Frames]
           /\ th[t] \in Frames
           /\ th[t].p \in Int /\ th[t].q \in Int
           /\ th[t].id \in Tracks \cup {Null}
           /\ Main \in Frames /\ Reader \in Frames
           /\ Main = th["main"] /\ Reader = th["reader"]
BY DEF TypeOK, Main, Reader, Frames, Labels

\* An app that has just started satisfies the invariant.
LEMMA InitInv == Init => Inv
<1> SUFFICES ASSUME Init PROVE Inv
  OBVIOUS
<1>1. /\ At("idle") \in Frames /\ At("off") \in Frames
      /\ At("idle").at = "idle" /\ At("off").at = "off"
      /\ At("idle").id = Null
  <2>1. "idle" \in Labels /\ "off" \in Labels
    BY DEF Labels, MainLabels, ReaderLabels
  <2> QED  BY <2>1, FrameAt
<1>2. Main = At("idle") /\ Reader = At("off")
  BY DEF Init, Main, Reader
<1>3. TypeOK
  <2>1. queue \in Seq(Tracks)
    BY EmptySeq DEF Init
  <2>2. th \in [{"main", "reader"} -> Frames]
    BY <1>1 DEF Init
  <2>3. Main.at \in MainLabels /\ Reader.at \in ReaderLabels
    BY <1>1, <1>2 DEF MainLabels, ReaderLabels
  <2>4. /\ pos \in Int /\ shuffled \in Seq(Nat) \cup {Null}
        /\ repeat \in {REPEAT_OFF, REPEAT_ALL, REPEAT_ONE}
        /\ queued \in Tracks \cup {Null} /\ current \in Tracks \cup {Null}
    BY DEF Init
  <2>5. /\ shuffle \in BOOLEAN /\ crashed \in BOOLEAN /\ removed \in BOOLEAN
        /\ overlapped \in BOOLEAN /\ direct \in BOOLEAN
        /\ attended \in BOOLEAN
    BY DEF Init
  <2> QED  BY <2>1, <2>2, <2>3, <2>4, <2>5 DEF TypeOK, Frames, Labels
<1>4. Rowed /\ Alone /\ Unshuffled /\ NoReader
  BY <1>1, <1>2 DEF Init, Rowed, Alone, MainInside, Unshuffled, NoReader
<1>5. OnlyRemovalOrRaceCrashes /\ Bound
  BY DEF Init, OnlyRemovalOrRaceCrashes, Bound
<1>6. Placed
  BY <1>1, <1>2 DEF Init, Placed, Fresh
<1>7. Borne /\ Sorted
  BY <1>1, <1>2 DEF Init, Borne, Follows, Sorted, OrderFits
<1> QED  BY <1>3, <1>4, <1>5, <1>6, <1>7 DEF Inv

\* An index out of range ends the process and changes nothing else.
LEMMA ThrowsInv == ASSUME Inv, Throws, removed \/ overlapped PROVE Inv'
<1>1. UNCHANGED <<queue, pos, shuffled, shuffle, repeat, queued, current, th,
                  removed, overlapped, direct, attended>> /\ crashed' = TRUE
  BY DEF Throws, fields, tracks, history
<1>2. UNCHANGED <<Main, Reader>>
  BY <1>1 DEF Main, Reader
<1>3. TypeOK'
  BY <1>1, <1>2 DEF Inv, TypeOK
<1>4. Rowed' /\ Alone' /\ Unshuffled' /\ NoReader'
  BY <1>1, <1>2 DEF Inv, Rowed, Alone, Unshuffled, NoReader, MainInside,
                    ReaderInside, Within
<1>5. OnlyRemovalOrRaceCrashes'
  BY <1>1 DEF OnlyRemovalOrRaceCrashes
<1>6. Placed'
  BY <1>1, <1>2 DEF Inv, Placed, Fresh, Fits, OrderFits, Within
<1>7. UNCHANGED Coming
  BY <1>1, <1>2 DEF Coming
<1>8. Bound' /\ Borne' /\ Sorted'
  <2>1. Bound' /\ Borne'
    BY <1>1, <1>2, <1>7 DEF Inv, Bound, Borne, Here, Swapped, Follows, Within
  <2>2. Sorted'
    BY <1>1, <1>2 DEF Inv, Sorted, OrderFits
  <2> QED  BY <2>1, <2>2
<1> QED  BY <1>3, <1>4, <1>5, <1>6, <1>8 DEF Inv

(***************************************************************************)
(* A step that reads keeps the invariant when what it has read fits the    *)
(* queue and follows the position.                                         *)
(***************************************************************************)
LEMMA ReadsInv ==
    ASSUME Inv, NEW t \in {"main", "reader"}, NEW f \in Frames, Reads(t, f),
           t = "main" =>
             /\ Main.at \notin {"idle", "install", "name", "found", "forget", "flag"}
             /\ f.at \in MainLabels \ {"install", "name", "found", "forget", "flag"}
             /\ f.at \in {"moved", "movedTo"} =>
                  Within(queue, f.p) /\ Within(queue, f.q)
             /\ f.at \in {"removed", "lower"} => removed
             /\ Fresh => f.at \in {"next", "hand"} /\ f.id = Null
             /\ Bound',
           t = "reader" =>
             /\ Reader.at # "off"
             /\ f.at \in ReaderLabels \ {"off"}
             /\ f.at \in ReaderCalls => ReaderInside
             /\ UNCHANGED Coming,
           ~removed /\ ~overlapped /\ ~Fresh => Fits(f),
           ~overlapped => Follows(f)
    PROVE  Inv'
<1>1. /\ UNCHANGED <<queue, pos, shuffled, shuffle, repeat, queued, current,
                     crashed, removed, overlapped, direct, attended>>
      /\ Becomes(t, f)
  BY DEF Reads, fields, tracks, history
<1>2. TypeOK /\ Main.at \in MainLabels /\ Reader.at \in ReaderLabels
  BY DEF Inv, TypeOK
<1>3. /\ th' \in [{"main", "reader"} -> Frames]
      /\ t = "main" => Main' = f /\ Reader' = Reader
      /\ t = "reader" => Reader' = f /\ Main' = Main
  BY <1>1, <1>2, OneFrame
<1>4. Main'.at \in MainLabels /\ Reader'.at \in ReaderLabels
  BY <1>2, <1>3
<1>5. TypeOK'
  BY <1>1, <1>2, <1>3, <1>4 DEF TypeOK, Frames, Labels
<1>6. Rowed'
  BY <1>1, <1>3 DEF Inv, Rowed, Within
<1>7. Alone'
  BY <1>1, <1>3 DEF Inv, Alone, MainInside, ReaderInside
<1>8. Unshuffled' /\ NoReader'
  BY <1>1, <1>3 DEF Inv, Unshuffled, NoReader
<1>9. OnlyRemovalOrRaceCrashes'
  BY <1>1 DEF Inv, OnlyRemovalOrRaceCrashes
<1>10. Placed'
  <2> SUFFICES ASSUME ~removed, ~overlapped PROVE Placed'
    BY <1>1 DEF Placed
  <2>1. CASE Fresh
    <3>1. t = "main"
      BY <2>1 DEF Fresh
    <3> QED  BY <1>1, <1>3, <2>1, <3>1 DEF Placed, Fresh
  <2>2. CASE ~Fresh
    <3>1. /\ Main.at \notin {"install", "name"} => Within(queue, pos)
          /\ Fits(Main) /\ Fits(Reader)
      BY <2>2 DEF Inv, Placed
    <3>2. Within(queue, pos) => Within(queue, pos)'
      BY <1>1 DEF Within
    <3>3. Fits(Main)' /\ Fits(Reader)'
      BY <1>1, <1>3, <2>2, <3>1 DEF Fits, Within
    <3> QED  BY <1>3, <3>1, <3>2, <3>3 DEF Placed
  <2> QED  BY <2>1, <2>2
<1>11. Bound'
  <2>1. CASE t = "reader"
    BY <1>1, <1>3, <2>1 DEF Inv, Bound, Here, Swapped, Within
  <2> QED  BY <2>1
<1>12. Borne'
  BY <1>1, <1>3 DEF Inv, Borne, Follows, Within
<1>13. Sorted'
  <2>1. UNCHANGED OrderFits
    BY <1>1 DEF OrderFits
  <2>2. Main'.at \notin {"install", "flag"} => Main.at \notin {"install", "flag"}
    BY <1>3
  <2> QED  BY <1>1, <2>1, <2>2 DEF Inv, Sorted
<1> QED  BY <1>5, <1>6, <1>7, <1>8, <1>9, <1>10, <1>11, <1>12, <1>13 DEF Inv

-----------------------------------------------------------------------------
\* A step of a look-up that does not hand the track over yet.
LEMMA LookupInv ==
    ASSUME Inv, NEW t \in {"main", "reader"}, NEW f \in Frames, Reads(t, f),
           th[t].at \in (Lookups \ {"hand"}) \cup {"prev", "sub"},
           f.at \in Lookups \cup {"sub"},
           t = "reader" => f.at # "sub",
           Fresh => f.at = "hand" /\ f.id = Null,
           ~removed /\ ~overlapped /\ ~Fresh => Fits(f),
           ~overlapped => Follows(f)
    PROVE  Inv'
<1>1. /\ UNCHANGED <<queue, pos, queued, current, overlapped, direct>>
      /\ Becomes(t, f)
  BY DEF Reads, fields, tracks, history
<1>2. /\ TypeOK
      /\ t = "main" => Main' = f /\ Reader' = Reader /\ th[t] = Main
      /\ t = "reader" => Reader' = f /\ Main' = Main /\ th[t] = Reader
  BY <1>1, OneFrame DEF Inv, Main, Reader
<1>3. CASE t = "main"
  <2>1. /\ Main.at \notin {"idle", "install", "name", "found", "forget", "flag"}
        /\ Main.at \notin Dragging /\ f.at \notin Dragging
        /\ f.at \in MainLabels \ {"install", "name", "found", "forget", "flag",
                                  "moved", "movedTo", "removed", "lower"}
    BY <1>2, <1>3 DEF Lookups, Dragging, MainLabels
  <2>2. Bound'
    BY <1>1, <1>2, <1>3, <2>1
       DEF Inv, Bound, Here, Within, Coming, Dragging
  <2> QED  BY <1>2, <1>3, <2>1, <2>2, ReadsInv
<1>4. CASE t = "reader"
  <2>1. /\ Reader.at \in ReaderCalls /\ Reader.at \notin {"off", "load", "clear"}
        /\ f.at \in ReaderLabels \ {"off", "load", "clear"}
    <3>1. Reader.at \in ReaderLabels
      BY DEF Inv, TypeOK
    <3> QED  BY <1>2, <1>4, <3>1 DEF Lookups, ReaderLabels, ReaderCalls
  <2>2. UNCHANGED Coming
    BY <1>1, <1>2, <1>4, <2>1 DEF Coming
  <2>3. ReaderInside
    BY <2>1 DEF ReaderInside
  <2> QED  BY <1>2, <1>4, <2>1, <2>2, <2>3, ReadsInv
<1> QED  BY <1>3, <1>4

\* The facts of the state that a step of a look-up relies on.
LEMMA LookupFacts ==
    ASSUME Inv, NEW t \in {"main", "reader"}
    PROVE  /\ TypeOK /\ queue \in Seq(Tracks) /\ Len(queue) \in Nat /\ pos \in Int
           /\ th[t] \in Frames /\ th[t].p \in Int /\ th[t].q \in Int
           /\ th[t].id \in Tracks \cup {Null}
           /\ th[t].at \notin {"idle", "next", "hand", "off"} => ~Fresh
           /\ ~removed /\ ~overlapped /\ ~Fresh =>
                 /\ Fits(th[t])
                 /\ Main.at \notin {"install", "name"} => Within(queue, pos)
                 /\ Main.at \notin {"install", "flag"} => OrderFits
           /\ ~overlapped => Follows(th[t])
<1>1. TypeOK /\ queue \in Seq(Tracks) /\ Len(queue) \in Nat /\ pos \in Int
  BY DEF Inv, TypeOK
<1>2. /\ th[t] \in Frames /\ th[t].p \in Int /\ th[t].q \in Int
      /\ th[t].id \in Tracks \cup {Null}
  BY <1>1, FramesTyped
<1>3. th[t] = Main \/ th[t] = Reader
  BY DEF Main, Reader
<1>4. (t = "main" => th[t] = Main) /\ (t = "reader" => th[t] = Reader)
  BY DEF Main, Reader
<1>5. th[t].at \notin {"idle", "next", "hand", "off"} => ~Fresh
  BY <1>4 DEF Fresh
<1>6. ~removed /\ ~overlapped /\ ~Fresh =>
         /\ Fits(th[t])
         /\ Main.at \notin {"install", "name"} => Within(queue, pos)
         /\ Main.at \notin {"install", "flag"} => OrderFits
  BY <1>3 DEF Inv, Sorted, Placed
<1>7. ~overlapped => Follows(th[t])
  BY <1>3 DEF Inv, Borne
<1> QED  BY <1>1, <1>2, <1>5, <1>6, <1>7

\* A thread inside a call of its own is not beside an installing main thread,
\* unless the calls overlap.
LEMMA NotInstalling ==
    ASSUME Inv, NEW t \in {"main", "reader"}, th[t].at \in Lookups, ~overlapped
    PROVE  Main.at \notin {"install", "name", "flag"}
<1>1. (t = "main" => th[t] = Main) /\ (t = "reader" => th[t] = Reader)
  BY DEF Main, Reader
<1>2. CASE t = "main"
  BY <1>1, <1>2 DEF Lookups
<1>3. CASE t = "reader"
  BY <1>1, <1>3 DEF Inv, Alone, MainInside, ReaderInside, ReaderCalls
<1> QED  BY <1>2, <1>3

\* The labels of the frames are labels.
LEMMA LabelsKnown ==
    /\ Lookups \subseteq Labels
    /\ "add" \in Lookups /\ "put" \in Lookups /\ "argument" \in Lookups
    /\ "check" \in Lookups /\ "order" \in Lookups /\ "fetch" \in Lookups
    /\ "hand" \in Lookups /\ "next" \in Lookups
    /\ "sub" \in Labels /\ "sub" \notin Lookups
    /\ MainLabels \subseteq Labels /\ ReaderLabels \subseteq Labels
BY DEF Labels, Lookups, MainLabels, ReaderLabels, ReaderCalls

\* The test of getNextTrack: a position to add to, the first one, or null.
LEMMA NextTestInv ==
    ASSUME Inv, NEW t \in {"main", "reader"}, NextTest(t)
    PROVE  Inv'
<1>1. /\ Len(queue) \in Nat /\ pos \in Int
      /\ ~removed /\ ~overlapped /\ ~Fresh =>
            (Main.at \notin {"install", "name"} => Within(queue, pos))
  BY LookupFacts
<1>2. th[t].at = "next" /\ th[t].at \in Lookups
  BY LabelsKnown DEF NextTest
<1>3. ~removed /\ ~overlapped /\ ~Fresh => Within(queue, pos)
  BY <1>1, <1>2, NotInstalling
<1>4. CASE pos + 1 < Len(queue) /\ Reads(t, At("add"))
  <2>1. At("add") \in Frames /\ At("add").at = "add"
    BY FrameAt, LabelsKnown
  <2>2. ~Fresh
    <3>1. CASE queue = << >>
      BY <1>4, <3>1 DEF Fresh
    <3> QED  BY <3>1 DEF Fresh
  <2>3. Fits(At("add")) /\ Follows(At("add"))
    BY <1>4, <2>1 DEF Fits, Follows
  <2> QED  BY <1>2, <1>4, <2>1, <2>2, <2>3, LookupInv, LabelsKnown
<1>5. CASE /\ pos + 1 >= Len(queue) /\ repeat = REPEAT_ALL
           /\ Reads(t, Holding("put", 0))
  <2>1. /\ Holding("put", 0) \in Frames /\ Holding("put", 0).at = "put"
        /\ Holding("put", 0).p = 0
    BY FrameHolding, LabelsKnown, 0 \in Int
  <2>2. ~Fresh
    BY <1>5 DEF Fresh, REPEAT_OFF, REPEAT_ALL
  <2>3. ~removed /\ ~overlapped /\ ~Fresh => Fits(Holding("put", 0))
    BY <1>1, <1>3, <2>1 DEF Fits, Within
  <2>4. Follows(Holding("put", 0))
    BY <2>1 DEF Follows
  <2> QED  BY <1>2, <1>5, <2>1, <2>2, <2>3, <2>4, LookupInv, LabelsKnown
<1>6. CASE /\ pos + 1 >= Len(queue) /\ repeat # REPEAT_ALL
           /\ Reads(t, At("hand"))
  <2>1. /\ At("hand") \in Frames /\ At("hand").at = "hand"
        /\ At("hand").id = Null
    BY FrameAt, LabelsKnown
  <2>2. Fits(At("hand")) /\ Follows(At("hand"))
    BY <2>1 DEF Fits, Follows
  <2> QED  BY <1>2, <1>6, <2>1, <2>2, LookupInv, LabelsKnown
<1> QED  BY <1>4, <1>5, <1>6 DEF NextTest

\* The increment of a position that was not the last.
LEMMA NextAddInv ==
    ASSUME Inv, NEW t \in {"main", "reader"}, NextAdd(t)
    PROVE  Inv'
<1> DEFINE f == Holding("put", pos + 1)
<1>1. /\ Len(queue) \in Nat /\ pos \in Int /\ ~Fresh
      /\ ~removed /\ ~overlapped /\ ~Fresh =>
            /\ Fits(th[t])
            /\ Main.at \notin {"install", "name"} => Within(queue, pos)
  BY LookupFacts DEF NextAdd
<1>2. th[t].at = "add" /\ th[t].at \in Lookups /\ Reads(t, f)
  BY LabelsKnown DEF NextAdd
<1>3. f \in Frames /\ f.at = "put" /\ f.p = pos + 1
  <2>1. pos + 1 \in Int
    BY <1>1
  <2> QED  BY <2>1, FrameHolding, LabelsKnown
<1> HIDE DEF f
<1>4. ~removed /\ ~overlapped /\ ~Fresh => Fits(f)
  BY <1>1, <1>2, <1>3, NotInstalling DEF Fits, Within
<1>5. Follows(f)
  BY <1>3 DEF Follows
<1> QED  BY <1>1, <1>2, <1>3, <1>4, <1>5, LookupInv, LabelsKnown

\* The second test of a skip back: the reader may have moved the position.
LEMMA PrevTestInv == ASSUME Inv, PrevTest PROVE Inv'
<1>1. th["main"].at = "prev" /\ "main" \in {"main", "reader"}
  BY DEF PrevTest, Main
<1>2. CASE pos > 0 /\ Reads("main", At("sub"))
  <2>1. At("sub") \in Frames /\ At("sub").at = "sub"
    BY FrameAt, LabelsKnown
  <2>2. ~Fresh
    BY <1>1, LookupFacts
  <2>3. Fits(At("sub")) /\ Follows(At("sub"))
    BY <1>2, <2>1 DEF Fits, Follows
  <2> QED  BY <1>1, <1>2, <2>1, <2>2, <2>3, LookupInv, LabelsKnown
<1>3. CASE pos <= 0 /\ Reads("main", At("hand"))
  <2>1. /\ At("hand") \in Frames /\ At("hand").at = "hand"
        /\ At("hand").id = Null
    BY FrameAt, LabelsKnown
  <2>2. Fits(At("hand")) /\ Follows(At("hand"))
    BY <2>1 DEF Fits, Follows
  <2> QED  BY <1>1, <1>3, <2>1, <2>2, LookupInv, LabelsKnown
<1> QED  BY <1>2, <1>3 DEF PrevTest

\* The decrement of a position that was not the first.
LEMMA PrevSubInv == ASSUME Inv, PrevSub PROVE Inv'
<1> DEFINE f == Holding("put", pos - 1)
<1>1. th["main"].at = "sub" /\ "main" \in {"main", "reader"} /\ Reads("main", f)
      /\ Main.at = "sub" /\ Main = th["main"]
  BY DEF PrevSub, Main
<1>2. /\ Len(queue) \in Nat /\ pos \in Int /\ ~Fresh
      /\ ~removed /\ ~overlapped /\ ~Fresh =>
            /\ Fits(th["main"])
            /\ Main.at \notin {"install", "name"} => Within(queue, pos)
  BY <1>1, LookupFacts
<1>3. f \in Frames /\ f.at = "put" /\ f.p = pos - 1
  <2>1. pos - 1 \in Int
    BY <1>2
  <2> QED  BY <2>1, FrameHolding, LabelsKnown
<1> HIDE DEF f
<1>4. ~removed /\ ~overlapped /\ ~Fresh => Fits(f)
  BY <1>1, <1>2, <1>3 DEF Fits, Within
<1>5. Follows(f)
  BY <1>3 DEF Follows
<1> QED  BY <1>1, <1>2, <1>3, <1>4, <1>5, LookupInv, LabelsKnown

\* The argument of getTrackIdAt is the position as it is now.
LEMMA ArgumentInv ==
    ASSUME Inv, NEW t \in {"main", "reader"}, Argument(t)
    PROVE  Inv'
<1> DEFINE f == Holding("check", pos)
<1>1. th[t].at = "argument" /\ th[t].at \in Lookups /\ Reads(t, f)
  BY LabelsKnown DEF Argument
<1>2. /\ pos \in Int /\ ~Fresh
      /\ ~removed /\ ~overlapped /\ ~Fresh =>
            (Main.at \notin {"install", "name"} => Within(queue, pos))
      /\ ~overlapped => Follows(th[t])
  BY <1>1, LookupFacts
<1>3. f \in Frames /\ f.at = "check" /\ f.p = pos
  BY <1>2, FrameHolding, LabelsKnown
<1> HIDE DEF f
<1>4. ~removed /\ ~overlapped /\ ~Fresh => Fits(f)
  BY <1>1, <1>2, <1>3, NotInstalling DEF Fits
<1>5. ~overlapped => Follows(f)
  BY <1>1, <1>2, <1>3 DEF Follows
<1> QED  BY <1>1, <1>2, <1>3, <1>4, <1>5, LookupInv, LabelsKnown

\* The check of getTrackIdAt, and its look at shuffle.
LEMMA CheckInv ==
    ASSUME Inv, NEW t \in {"main", "reader"}, Check(t)
    PROVE  Inv'
<1> DEFINE p == th[t].p
<1>1. th[t].at = "check" /\ th[t].at \in Lookups
  BY LabelsKnown DEF Check
<1>2. /\ p \in Int /\ ~Fresh
      /\ ~removed /\ ~overlapped /\ ~Fresh => Fits(th[t])
      /\ ~overlapped => Follows(th[t])
  BY <1>1, LookupFacts
<1>3. CASE Reads(t, At("hand"))
  <2>1. /\ At("hand") \in Frames /\ At("hand").at = "hand"
        /\ At("hand").id = Null
    BY FrameAt, LabelsKnown
  <2>2. Fits(At("hand")) /\ Follows(At("hand"))
    BY <2>1 DEF Fits, Follows
  <2> QED  BY <1>1, <1>3, <2>1, <2>2, LookupInv, LabelsKnown
<1>4. CASE shuffle /\ Reads(t, Holding("order", p))
  <2> DEFINE f == Holding("order", p)
  <2>1. f \in Frames /\ f.at = "order" /\ f.p = p
    BY <1>2, FrameHolding, LabelsKnown
  <2>2. Reads(t, f) /\ shuffle
    BY <1>4
  <2> HIDE DEF f
  <2>3. ~removed /\ ~overlapped /\ ~Fresh => Fits(f)
    BY <1>1, <1>2, <2>1 DEF Fits
  <2>4. ~overlapped => Follows(f)
    BY <1>1, <1>2, <2>1, <2>2 DEF Follows
  <2> QED  BY <1>1, <1>2, <2>1, <2>2, <2>3, <2>4, LookupInv, LabelsKnown
<1>5. CASE ~shuffle /\ Reads(t, Holding("fetch", p))
  <2> DEFINE f == Holding("fetch", p)
  <2>1. f \in Frames /\ f.at = "fetch" /\ f.p = p
    BY <1>2, FrameHolding, LabelsKnown
  <2>2. Reads(t, f) /\ ~shuffle
    BY <1>5
  <2> HIDE DEF f
  <2>3. ~removed /\ ~overlapped /\ ~Fresh => Fits(f)
    BY <1>1, <1>2, <2>1 DEF Fits
  <2>4. ~overlapped => Follows(f)
    BY <1>1, <1>2, <2>1, <2>2 DEF Follows
  <2> QED  BY <1>1, <1>2, <2>1, <2>2, <2>3, <2>4, LookupInv, LabelsKnown
<1> QED  BY <1>3, <1>4, <1>5 DEF Check

\* The look into the shuffled order: an order that fits holds rows.
LEMMA OrderInv ==
    ASSUME Inv, NEW t \in {"main", "reader"}, Order(t)
    PROVE  Inv'
<1> DEFINE p == th[t].p
<1>1. th[t].at = "order" /\ th[t].at \in Lookups
  BY LabelsKnown DEF Order
<1>2. /\ p \in Int /\ ~Fresh /\ Len(queue) \in Nat
      /\ ~removed /\ ~overlapped /\ ~Fresh =>
            /\ Fits(th[t])
            /\ Main.at \notin {"install", "flag"} => OrderFits
      /\ ~overlapped => Follows(th[t])
  BY <1>1, LookupFacts
<1>3. ~removed /\ ~overlapped =>
         /\ Within(queue, p) /\ shuffle /\ shuffled # Null
         /\ Len(shuffled) = Len(queue)
         /\ \A i \in 1..Len(queue) : shuffled[i] < Len(queue)
  BY <1>1, <1>2, NotInstalling DEF Fits, Follows, OrderFits
<1>4. CASE InOrder(p) /\ Reads(t, Holding("fetch", Ordered(p)))
  <2> DEFINE f == Holding("fetch", Ordered(p))
  <2>1. /\ Ordered(p) \in Int
        /\ ~removed /\ ~overlapped => Within(queue, Ordered(p))
    <3>1. CASE shuffled = Null
      BY <1>3, <3>1 DEF Ordered
    <3>2. CASE shuffled # Null
      <4>1. shuffled \in Seq(Nat) /\ Within(shuffled, p)
        BY <1>4, <3>2 DEF Inv, TypeOK, InOrder
      <4>2. p + 1 \in 1..Len(shuffled)
        BY <1>2, <4>1 DEF Within
      <4>3. shuffled[p + 1] \in Nat
        BY <4>1, <4>2
      <4>4. ~removed /\ ~overlapped => shuffled[p + 1] < Len(queue)
        BY <1>3, <4>2
      <4> QED  BY <3>2, <4>3, <4>4 DEF Ordered, Within
    <3> QED  BY <3>1, <3>2
  <2>2. f \in Frames /\ f.at = "fetch" /\ f.p = Ordered(p)
    BY <2>1, FrameHolding, LabelsKnown
  <2>3. Reads(t, f)
    BY <1>4
  <2> HIDE DEF f
  <2>4. ~removed /\ ~overlapped /\ ~Fresh => Fits(f)
    BY <2>1, <2>2 DEF Fits
  <2>5. ~overlapped => Follows(f)
    BY <1>1, <1>2, <2>2 DEF Follows
  <2> QED  BY <1>1, <1>2, <2>2, <2>3, <2>4, <2>5, LookupInv, LabelsKnown
<1>5. CASE ~InOrder(p) /\ Throws
  <2>1. removed \/ overlapped
    BY <1>3, <1>5 DEF InOrder, Within
  <2> QED  BY <1>5, <2>1, ThrowsInv
<1> QED  BY <1>4, <1>5 DEF Order

\* The look into the queue finds the track at the position, or throws.
LEMMA FetchInv ==
    ASSUME Inv, NEW t \in {"main", "reader"}, Fetch(t)
    PROVE  Inv'
<1> DEFINE p == th[t].p
<1>1. th[t].at = "fetch" /\ th[t].at \in Lookups
  BY LabelsKnown DEF Fetch
<1>2. /\ p \in Int /\ ~Fresh /\ queue \in Seq(Tracks)
      /\ ~removed /\ ~overlapped /\ ~Fresh => Fits(th[t])
      /\ ~overlapped => Follows(th[t])
  BY <1>1, LookupFacts
<1>3. CASE Within(queue, p) /\ Reads(t, Bearing("hand", queue[p + 1]))
  <2> DEFINE f == Bearing("hand", queue[p + 1])
  <2>1. p + 1 \in 1..Len(queue) /\ queue[p + 1] \in Tracks
    BY <1>2, <1>3 DEF Within
  <2>2. f \in Frames /\ f.at = "hand" /\ f.id = queue[p + 1]
    BY <2>1, FrameBearing, LabelsKnown
  <2>3. Reads(t, f)
    BY <1>3
  <2> HIDE DEF f
  <2>4. Fits(f)
    BY <2>2 DEF Fits
  <2>5. ~overlapped => Follows(f)
    <3>1. ~overlapped => ~direct /\ (~shuffle => p = pos)
      BY <1>1, <1>2 DEF Follows
    <3> QED  BY <1>3, <2>2, <3>1 DEF Follows
  <2> QED  BY <1>1, <1>2, <2>2, <2>3, <2>4, <2>5, LookupInv, LabelsKnown
<1>4. CASE ~Within(queue, p) /\ Throws
  <2>1. removed \/ overlapped
    BY <1>1, <1>2, <1>4 DEF Fits
  <2> QED  BY <1>4, <2>1, ThrowsInv
<1> QED  BY <1>3, <1>4 DEF Fetch

(***************************************************************************)
(* The writes of the position.  A thread that writes it while no call      *)
(* overlaps its own is the only one that holds a position.                 *)
(***************************************************************************)
\* What a write of the position leaves of the invariant's simpler parts.
LEMMA PutsKept ==
    ASSUME Inv, NEW t \in {"main", "reader"}, NEW f \in Frames, NEW p \in Int,
           Puts(t, f, p), UNCHANGED <<removed, overlapped, attended>>,
           direct' \in BOOLEAN, direct' => direct,
           t = "main" => f.at \in {"argument", "hand", "forget", "idle"}
                           /\ Main.at \notin {"idle", "install", "flag"}
                           /\ (f.at = "forget" => shuffle),
           t = "reader" => f.at = "argument" /\ ReaderInside
    PROVE  /\ TypeOK' /\ Rowed' /\ Alone' /\ Unshuffled' /\ NoReader'
           /\ OnlyRemovalOrRaceCrashes' /\ Sorted'
           /\ UNCHANGED <<queue, shuffled, shuffle, queued, current>>
           /\ pos' = p
           /\ t = "main" => Main' = f /\ Reader' = Reader
           /\ t = "reader" => Reader' = f /\ Main' = Main
<1>1. /\ UNCHANGED <<queue, shuffled, shuffle, repeat, queued, current, crashed,
                     removed, overlapped, attended>>
      /\ pos' = p /\ Becomes(t, f)
  BY DEF Puts, tracks
<1>2. TypeOK /\ Main.at \in MainLabels /\ Reader.at \in ReaderLabels
  BY DEF Inv, TypeOK
<1>3. /\ th' \in [{"main", "reader"} -> Frames]
      /\ t = "main" => Main' = f /\ Reader' = Reader
      /\ t = "reader" => Reader' = f /\ Main' = Main
  BY <1>1, <1>2, OneFrame
<1>4. Main'.at \in MainLabels /\ Reader'.at \in ReaderLabels
  BY <1>2, <1>3 DEF MainLabels, ReaderLabels, ReaderCalls, Lookups
<1>5. TypeOK'
  BY <1>1, <1>2, <1>3, <1>4 DEF TypeOK, Frames, Labels
<1>6. Rowed'
  BY <1>1, <1>3 DEF Inv, Rowed, Within
<1>7. Alone'
  BY <1>1, <1>3 DEF Inv, Alone, MainInside, ReaderInside
<1>8. Unshuffled' /\ NoReader'
  BY <1>1, <1>3 DEF Inv, Unshuffled, NoReader
<1>9. OnlyRemovalOrRaceCrashes'
  BY <1>1 DEF Inv, OnlyRemovalOrRaceCrashes
<1>10. Sorted'
  <2>1. UNCHANGED OrderFits
    BY <1>1 DEF OrderFits
  <2>2. Main'.at \notin {"install", "flag"} => Main.at \notin {"install", "flag"}
    BY <1>3
  <2> QED  BY <1>1, <2>1, <2>2 DEF Inv, Sorted
<1> QED  BY <1>1, <1>3, <1>5, <1>6, <1>7, <1>8, <1>9, <1>10

LEMMA PutsInv ==
    ASSUME Inv, NEW t \in {"main", "reader"}, NEW f \in Frames, NEW p \in Int,
           Puts(t, f, p), UNCHANGED <<removed, overlapped, attended>>,
           direct' \in BOOLEAN, direct' => direct, ~Fresh,
           t = "main" => f.at \in {"argument", "hand", "forget", "idle"}
                           /\ Main.at \notin {"idle", "install", "flag"}
                           /\ (f.at = "forget" => shuffle),
           t = "reader" => f.at = "argument" /\ ReaderInside,
           ~removed /\ ~overlapped => Within(queue, p),
           direct' /\ ~overlapped => Here(p),
           f.at = "argument" => ~direct',
           f.at = "hand" /\ ~overlapped =>
               ~direct' /\ Within(queue, p) /\ queue[p + 1] = f.id
    PROVE  Inv'
<1>1. /\ TypeOK' /\ Rowed' /\ Alone' /\ Unshuffled' /\ NoReader'
      /\ OnlyRemovalOrRaceCrashes' /\ Sorted'
      /\ UNCHANGED <<queue, shuffled, shuffle, queued, current, removed,
                     overlapped>>
      /\ pos' = p
      /\ t = "main" => Main' = f /\ Reader' = Reader
      /\ t = "reader" => Reader' = f /\ Main' = Main
  BY PutsKept
<1>2. /\ t = "main" => MainInside
      /\ ~overlapped /\ t = "main" => Reader.at \in Outside
      /\ ~overlapped /\ t = "reader" => Main.at = "idle"
  BY DEF Inv, TypeOK, Alone, MainInside, ReaderInside, ReaderLabels, Outside
<1>3. Placed'
  <2> SUFFICES ASSUME ~removed, ~overlapped PROVE Placed'
    BY <1>1 DEF Placed
  <2>1. Within(queue, pos)'
    BY <1>1 DEF Within
  <2>2. Fits(Main)' /\ Fits(Reader)'
    BY <1>1, <1>2 DEF Fits, Outside
  <2> QED  BY <2>1, <2>2 DEF Placed
<1>4. UNCHANGED Coming
  BY <1>1 DEF Coming, ReaderInside, ReaderCalls, Lookups
<1>5. Bound'
  <2> SUFFICES ASSUME direct', ~overlapped PROVE Bound'
    BY <1>1 DEF Bound
  <2>1. t = "main" /\ Main'.at \notin Dragging
    BY <1>1 DEF Dragging
  <2>2. Here(pos)'
    BY <1>1, <1>4 DEF Here, Within
  <2> QED  BY <2>1, <2>2 DEF Bound, Dragging
<1>6. Borne'
  <2> SUFFICES ASSUME ~overlapped PROVE Borne'
    BY <1>1 DEF Borne
  <2>1. Follows(Main)' /\ Follows(Reader)'
    BY <1>1, <1>2 DEF Follows, Within, Outside
  <2> QED  BY <2>1 DEF Borne
<1> QED  BY <1>1, <1>3, <1>5, <1>6 DEF Inv

\* getNextTrack and getPrevTrack write the position they computed.
LEMMA PutInv ==
    ASSUME Inv, NEW t \in {"main", "reader"}, Put(t)
    PROVE  Inv'
<1> DEFINE p == th[t].p
<1>1. /\ th[t].at = "put" /\ th[t].at \in Lookups
      /\ Puts(t, At("argument"), p) /\ direct' = FALSE
      /\ UNCHANGED <<removed, overlapped, attended>>
  BY LabelsKnown DEF Put
<1>2. /\ p \in Int /\ ~Fresh
      /\ ~removed /\ ~overlapped /\ ~Fresh => Fits(th[t])
  BY <1>1, LookupFacts
<1>3. ~removed /\ ~overlapped => Within(queue, p)
  BY <1>1, <1>2 DEF Fits
<1>4. At("argument") \in Frames /\ At("argument").at = "argument"
  BY FrameAt, LabelsKnown
<1>5. /\ t = "main" => Main.at \notin {"idle", "install", "flag"}
      /\ t = "reader" => ReaderInside
  BY <1>1 DEF Main, Reader, ReaderInside, ReaderCalls
<1> HIDE DEF p
<1> QED  BY <1>1, <1>2, <1>3, <1>4, <1>5, PutsInv

\* What a step of a call of the main thread alone relies on.
LEMMA MainFacts ==
    ASSUME Inv
    PROVE  /\ TypeOK /\ queue \in Seq(Tracks) /\ Len(queue) \in Nat /\ pos \in Int
           /\ Main = th["main"] /\ Reader = th["reader"]
           /\ Main \in Frames /\ Main.p \in Int /\ Main.q \in Int
           /\ Main.id \in Tracks \cup {Null}
           /\ Main.at \notin {"idle", "next", "hand"} => ~Fresh
           /\ ~removed /\ ~overlapped /\ ~Fresh =>
                 /\ Fits(Main) /\ Fits(Reader)
                 /\ Main.at \notin {"install", "name"} => Within(queue, pos)
                 /\ Main.at \notin {"install", "flag"} => OrderFits
           /\ ~overlapped => Follows(Main) /\ Follows(Reader)
           /\ ~overlapped /\ Main.at # "idle" => Reader.at \in Outside
<1>1. TypeOK /\ queue \in Seq(Tracks) /\ Len(queue) \in Nat /\ pos \in Int
  BY DEF Inv, TypeOK
<1>2. /\ Main = th["main"] /\ Reader = th["reader"]
      /\ Main \in Frames /\ Main.p \in Int /\ Main.q \in Int
      /\ Main.id \in Tracks \cup {Null}
  BY <1>1, FramesTyped
<1>3. /\ Main.at \notin {"idle", "next", "hand"} => ~Fresh
      /\ ~removed /\ ~overlapped /\ ~Fresh =>
            /\ Fits(Main) /\ Fits(Reader)
            /\ Main.at \notin {"install", "name"} => Within(queue, pos)
            /\ Main.at \notin {"install", "flag"} => OrderFits
      /\ ~overlapped => Follows(Main) /\ Follows(Reader)
  BY DEF Inv, Sorted, Placed, Fresh, Borne
<1>4. ~overlapped /\ Main.at # "idle" => Reader.at \in Outside
  BY DEF Inv, TypeOK, Alone, MainInside, ReaderInside, ReaderLabels, Outside
<1> QED  BY <1>1, <1>2, <1>3, <1>4

\* The setter of shuffle writes the position it found in the order.
LEMMA FoundInv == ASSUME Inv, Found PROVE Inv'
<1>1. /\ Main.at = "found" /\ Puts("main", At("forget"), Main.p)
      /\ UNCHANGED <<removed, overlapped, direct, attended>>
  BY DEF Found, history
<1>2. shuffle /\ ~direct /\ direct \in BOOLEAN
  BY <1>1 DEF Inv, Unshuffled, TypeOK
<1>3. Main.p \in Int /\ ~Fresh
      /\ (~removed /\ ~overlapped => Within(queue, Main.p))
  BY <1>1, MainFacts DEF Fits
<1>4. At("forget") \in Frames /\ At("forget").at = "forget"
  <2>1. "forget" \in Labels
    BY DEF Labels, MainLabels
  <2> QED  BY <2>1, FrameAt
<1> QED  BY <1>1, <1>2, <1>3, <1>4, PutsInv

\* A drag or a removal moves the position along with its track.
LEMMA SettleInv == ASSUME Inv, Settle PROVE Inv'
<1>1. /\ Main.at = "settle" /\ Puts("main", At("idle"), Main.p)
      /\ UNCHANGED <<removed, overlapped, direct, attended>>
  BY DEF Settle, history
<1>2. direct \in BOOLEAN /\ (direct /\ ~overlapped => Here(Main.p))
  BY <1>1 DEF Inv, TypeOK, Bound
<1>3. Main.p \in Int /\ ~Fresh
      /\ (~removed /\ ~overlapped => Within(queue, Main.p))
  BY <1>1, MainFacts DEF Fits
<1>4. At("idle") \in Frames /\ At("idle").at = "idle"
  <2>1. "idle" \in Labels
    BY DEF Labels, MainLabels
  <2> QED  BY <2>1, FrameAt
<1> QED  BY <1>1, <1>2, <1>3, <1>4, PutsInv

\* A position the listener named is that of the track handed over.
LEMMA NameInv == ASSUME Inv, Name PROVE Inv'
<1> DEFINE f == Bearing("hand", queue[Main.p + 1])
<1>1. /\ Main.at = "name" /\ Puts("main", f, Main.p)
      /\ UNCHANGED <<removed, overlapped, direct, attended>>
  BY DEF Name, history
<1>2. Within(queue, Main.p) /\ direct \in BOOLEAN
  BY <1>1 DEF Inv, Rowed, TypeOK
<1>3. /\ Main.p \in Int /\ ~Fresh /\ queue \in Seq(Tracks)
      /\ ~overlapped => ~direct
  BY <1>1, MainFacts DEF Follows
<1>4. f \in Frames /\ f.at = "hand" /\ f.id = queue[Main.p + 1]
  <2>1. Main.p + 1 \in 1..Len(queue)
    BY <1>2, <1>3 DEF Within
  <2>2. queue[Main.p + 1] \in Tracks
    BY <1>3, <2>1
  <2> QED  BY <2>2, FrameBearing, LabelsKnown
<1> HIDE DEF f
<1>5. direct' = direct
  BY <1>1
<1> QED  BY <1>1, <1>2, <1>3, <1>4, <1>5, PutsInv

-----------------------------------------------------------------------------
(***************************************************************************)
(* The reads of a drag or a removal under way.                             *)
(***************************************************************************)
\* A read of a drag keeps the row the track moves to.
LEMMA DragInv ==
    ASSUME Inv, NEW f \in Frames, Reads("main", f),
           Main.at \in {"moved", "movedTo", "removed", "lower"},
           f.at \in {"idle", "movedTo", "lower", "settle"},
           f.at = "movedTo" => Within(queue, f.p) /\ Within(queue, f.q),
           f.at = "lower" => removed,
           ~removed /\ ~overlapped => Fits(f),
           direct /\ ~overlapped =>
               /\ f.at = "idle" => Here(pos)
               /\ f.at = "movedTo" =>
                     pos # f.p /\ Here(IF pos = f.q THEN f.p ELSE pos)
               /\ f.at = "lower" => Here(pos - 1)
               /\ f.at = "settle" => Here(f.p)
    PROVE  Inv'
<1>1. UNCHANGED <<queue, pos, queued, current, overlapped, direct>>
      /\ Becomes("main", f)
  BY DEF Reads, fields, tracks, history
<1>2. Main' = f /\ Reader' = Reader /\ ~Fresh
  BY <1>1, OneFrame, MainFacts
<1>3. UNCHANGED Coming
  BY <1>1, <1>2 DEF Coming
<1>4. Bound'
  BY <1>1, <1>2, <1>3 DEF Bound, Here, Within, Dragging
<1>5. Follows(f)
  BY DEF Follows
<1>6. f.at \in MainLabels
  BY DEF MainLabels
<1> QED  BY <1>2, <1>4, <1>5, <1>6, ReadsInv

\* onTrackMoved compares the position with the row dragged from.
LEMMA MovedInv == ASSUME Inv, Moved PROVE Inv'
<1>1. /\ Main.at = "moved" /\ Main.p \in Int /\ Main.q \in Int
      /\ Within(queue, Main.p) /\ Within(queue, Main.q)
  BY MainFacts DEF Moved, Inv, Rowed
<1>2. direct /\ ~overlapped => Here(Swapped(pos, Main.p, Main.q))
  BY <1>1 DEF Inv, Bound
<1>3. CASE pos = Main.p /\ Reads("main", Holding("settle", Main.q))
  <2> DEFINE f == Holding("settle", Main.q)
  <2>1. f \in Frames /\ f.at = "settle" /\ f.p = Main.q
    <3>1. "settle" \in Labels
      BY DEF Labels, MainLabels
    <3> QED  BY <1>1, <3>1, FrameHolding
  <2>2. Reads("main", f)
    BY <1>3
  <2> HIDE DEF f
  <2>3. Fits(f)
    BY <1>1, <2>1 DEF Fits
  <2>4. direct /\ ~overlapped => Here(f.p)
    BY <1>2, <1>3, <2>1 DEF Swapped
  <2> QED  BY <1>1, <2>1, <2>2, <2>3, <2>4, DragInv
<1>4. CASE /\ pos # Main.p
           /\ Reads("main", Frame("movedTo", Main.p, Main.q, Null))
  <2> DEFINE f == Frame("movedTo", Main.p, Main.q, Null)
  <2>1. f \in Frames /\ f.at = "movedTo" /\ f.p = Main.p /\ f.q = Main.q
    <3>1. "movedTo" \in Labels
      BY DEF Labels, MainLabels
    <3> QED  BY <1>1, <3>1, FrameHolds
  <2>2. Reads("main", f)
    BY <1>4
  <2> HIDE DEF f
  <2>3. Fits(f)
    BY <2>1 DEF Fits
  <2>4. direct /\ ~overlapped => Here(IF pos = f.q THEN f.p ELSE pos)
    BY <1>2, <1>4, <2>1 DEF Swapped
  <2> QED  BY <1>1, <1>4, <2>1, <2>2, <2>3, <2>4, DragInv
<1> QED  BY <1>3, <1>4 DEF Moved

\* onTrackMoved compares the position with the row dragged to.
LEMMA MovedToInv == ASSUME Inv, MovedTo PROVE Inv'
<1>1. /\ Main.at = "movedTo" /\ Main.p \in Int
      /\ Within(queue, Main.p)
  BY MainFacts DEF MovedTo, Inv, Rowed
<1>2. direct /\ ~overlapped => Here(IF pos = Main.q THEN Main.p ELSE pos)
  BY <1>1 DEF Inv, Bound
<1>3. CASE pos = Main.q /\ Reads("main", Holding("settle", Main.p))
  <2> DEFINE f == Holding("settle", Main.p)
  <2>1. f \in Frames /\ f.at = "settle" /\ f.p = Main.p
    <3>1. "settle" \in Labels
      BY DEF Labels, MainLabels
    <3> QED  BY <1>1, <3>1, FrameHolding
  <2>2. Reads("main", f)
    BY <1>3
  <2> HIDE DEF f
  <2>3. Fits(f)
    BY <1>1, <2>1 DEF Fits
  <2> QED  BY <1>1, <1>2, <1>3, <2>1, <2>2, <2>3, DragInv
<1>4. CASE pos # Main.q /\ Reads("main", At("idle"))
  <2>1. At("idle") \in Frames /\ At("idle").at = "idle"
    <3>1. "idle" \in Labels
      BY DEF Labels, MainLabels
    <3> QED  BY <3>1, FrameAt
  <2>2. Fits(At("idle"))
    BY <2>1 DEF Fits
  <2> QED  BY <1>1, <1>2, <1>4, <2>1, <2>2, DragInv
<1> QED  BY <1>3, <1>4 DEF MovedTo

\* onTrackRemoved compares the removed row with the position.
LEMMA RemovedInv == ASSUME Inv, Removed PROVE Inv'
<1>1. /\ Main.at = "removed" /\ Main.p \in Int /\ pos \in Int /\ removed
      /\ direct /\ ~overlapped => Here(IF Main.p < pos THEN pos - 1 ELSE pos)
  BY MainFacts DEF Removed, Inv, Rowed, Bound
<1>2. ASSUME NEW l \in {"lower", "idle"}, Reads("main", At(l)),
             l = "lower" => Main.p < pos, l = "idle" => ~(Main.p < pos)
      PROVE  Inv'
  <2>1. At(l) \in Frames /\ At(l).at = l
    <3>1. l \in Labels
      BY DEF Labels, MainLabels
    <3> QED  BY <3>1, FrameAt
  <2>2. Fits(At(l))
    BY <2>1 DEF Fits
  <2>3. direct /\ ~overlapped =>
           (l = "idle" => Here(pos)) /\ (l = "lower" => Here(pos - 1))
    BY <1>1, <1>2
  <2> QED  BY <1>1, <1>2, <2>1, <2>2, <2>3, DragInv
<1>3. CASE Main.p < pos /\ Reads("main", At("lower"))
  BY <1>2, <1>3
<1>4. CASE Main.p >= pos /\ Reads("main", At("idle"))
  <2>1. ~(Main.p < pos)
    BY <1>1, <1>4
  <2> QED  BY <1>2, <1>4, <2>1
<1> QED  BY <1>3, <1>4 DEF Removed

\* onTrackRemoved computes the position one row up.
LEMMA LowerInv == ASSUME Inv, Lower PROVE Inv'
<1> DEFINE f == Holding("settle", pos - 1)
<1>1. /\ Main.at = "lower" /\ pos \in Int /\ Reads("main", f)
      /\ direct /\ ~overlapped => Here(pos - 1)
  BY MainFacts DEF Lower, Inv, Bound
<1>2. f \in Frames /\ f.at = "settle" /\ f.p = pos - 1
  <2>1. "settle" \in Labels /\ pos - 1 \in Int
    BY <1>1 DEF Labels, MainLabels
  <2> QED  BY <2>1, FrameHolding
<1> HIDE DEF f
<1>3. ~removed /\ ~overlapped => Fits(f)
  BY <1>1 DEF Inv, Rowed
<1> QED  BY <1>1, <1>2, <1>3, DragInv

-----------------------------------------------------------------------------
(***************************************************************************)
(* The steps that write the queued track, the playing track or only the    *)
(* frames: the queue, its order and the position stay as they are.         *)
(***************************************************************************)
LEMMA TracksInv ==
    ASSUME Inv,
           th' \in [{"main", "reader"} -> Frames],
           Main'.at \in MainLabels, Reader'.at \in ReaderLabels,
           UNCHANGED <<queue, pos, shuffled, shuffle, repeat, crashed, removed,
                       attended>>,
           queued' \in Tracks \cup {Null}, current' \in Tracks \cup {Null},
           overlapped' \in BOOLEAN, direct' \in BOOLEAN,
           overlapped => overlapped',
           \/ Main' = Main
           \/ /\ Main.at \in {"idle", "hand", "start"}
              /\ Main'.at \in {"idle", "start"},
           Reader' = Reader \/ Reader'.at \in Outside \cup {"repeat", "finish"},
           Main'.at # "idle" /\ Reader'.at \in ReaderCalls => overlapped',
           direct' => ~shuffle,
           Reader'.at = "off" => queued' = Null,
           Fresh => Fresh',
           ~overlapped' /\ direct' =>
               \/ direct /\ Coming' = Coming
               \/ /\ Within(queue, pos) /\ queue[pos + 1] = Coming'
                  /\ Main'.at \in {"idle", "start"} /\ Reader'.at \in Outside
    PROVE  Inv'
<1>1. TypeOK'
  <2>1. TypeOK
    BY DEF Inv
  <2>2. shuffle \in BOOLEAN /\ crashed \in BOOLEAN /\ removed \in BOOLEAN
        /\ attended \in BOOLEAN
    BY <2>1 DEF TypeOK
  <2>3. /\ shuffle' \in BOOLEAN /\ crashed' \in BOOLEAN
        /\ removed' \in BOOLEAN /\ attended' \in BOOLEAN
    BY <2>2
  <2>4. /\ queue' \in Seq(Tracks) /\ pos' \in Int
        /\ shuffled' \in Seq(Nat) \cup {Null}
        /\ repeat' \in {REPEAT_OFF, REPEAT_ALL, REPEAT_ONE}
    BY <2>1 DEF TypeOK
  <2> QED  BY <2>3, <2>4 DEF TypeOK, Frames, Labels
<1>2. Rowed' /\ Alone' /\ Unshuffled' /\ NoReader'
  <2>1. Rowed'
    BY DEF Inv, Rowed, Within
  <2>2. Alone' /\ Unshuffled' /\ NoReader'
    BY DEF Inv, Unshuffled, Alone, MainInside, ReaderInside, NoReader
  <2> QED  BY <2>1, <2>2
<1>3. OnlyRemovalOrRaceCrashes'
  BY DEF Inv, OnlyRemovalOrRaceCrashes
<1>4. Placed'
  <2> SUFFICES ASSUME ~removed, ~overlapped', ~Fresh PROVE Placed'
    BY DEF Placed
  <2>1. /\ Main.at \notin {"install", "name"} => Within(queue, pos)
        /\ Fits(Main) /\ Fits(Reader)
    BY DEF Inv, Placed
  <2>2. Within(queue, pos) => Within(queue, pos)'
    BY DEF Within
  <2>3. Fits(Main)' /\ Fits(Reader)'
    BY <2>1 DEF Fits, Within, Outside
  <2> QED  BY <2>1, <2>2, <2>3 DEF Placed
<1>5. Bound'
  <2> SUFFICES ASSUME direct', ~overlapped' PROVE Bound'
    BY DEF Bound
  <2>1. CASE direct /\ Coming' = Coming
    BY <2>1 DEF Inv, Bound, Here, Within, Swapped, Dragging
  <2>2. CASE /\ Within(queue, pos) /\ queue[pos + 1] = Coming'
             /\ Main'.at \in {"idle", "start"}
    BY <2>2 DEF Bound, Here, Within, Dragging
  <2> QED  BY <2>1, <2>2
<1>6. Borne'
  <2> SUFFICES ASSUME ~overlapped' PROVE Borne'
    BY DEF Borne
  <2>1. Follows(Main) /\ Follows(Reader)
    BY DEF Inv, Borne
  <2>2. \/ direct' => direct
        \/ Main'.at \in {"idle", "start"} /\ Reader'.at \in Outside
    OBVIOUS
  <2>3. Follows(Main)' /\ Follows(Reader)'
    BY <2>1, <2>2 DEF Follows, Within, Outside
  <2> QED  BY <2>3 DEF Borne
<1>7. Sorted'
  <2>1. UNCHANGED OrderFits
    BY DEF OrderFits
  <2>2. Main'.at \notin {"install", "flag"} => Main.at \notin {"install", "flag"}
    OBVIOUS
  <2> QED  BY <2>1, <2>2 DEF Inv, Sorted
<1> QED  BY <1>1, <1>2, <1>3, <1>4, <1>5, <1>6, <1>7 DEF Inv

\* A reader that runs is past the start of the app.
LEMMA NotFresh == ASSUME Reader.at # "off" PROVE ~Fresh
BY DEF Fresh

\* The reader takes the queued track, which is the one to come.
LEMMA TakeInv == ASSUME Inv, Take PROVE Inv'
<1> DEFINE f == Bearing("load", queued)
<1>1. /\ Reader.at \in {"top", "play"} /\ queued # Null /\ Reads("reader", f)
      /\ queued \in Tracks \cup {Null}
  BY DEF Take, Inv, TypeOK
<1>2. f \in Frames /\ f.at = "load" /\ f.id = queued
  <2>1. "load" \in Labels
    BY DEF Labels, ReaderLabels
  <2> QED  BY <1>1, <2>1, FrameBearing
<1> HIDE DEF f
<1>3. Reader' = f /\ UNCHANGED <<queued, current>>
  BY <1>1, <1>2, OneFrame DEF Reads, Inv, tracks
<1>4. UNCHANGED Coming
  BY <1>1, <1>2, <1>3 DEF Coming
<1>5. Fits(f) /\ Follows(f)
  BY <1>2 DEF Fits, Follows
<1>6. f.at \in ReaderLabels \ {"off"} /\ f.at \notin ReaderCalls
  BY <1>2 DEF ReaderLabels, ReaderCalls, Lookups
<1> QED  BY <1>1, <1>2, <1>4, <1>5, <1>6, ReadsInv

\* The reader goes on with its track, or with its call.
LEMMA GoesOnInv ==
    ASSUME Inv, NEW l \in {"play", "next"}, Reads("reader", At(l)),
           Reader.at \in {"top", "repeat"}, l = "next" => Reader.at = "repeat"
    PROVE  Inv'
<1>1. At(l) \in Frames /\ At(l).at = l
  <2>1. l \in Labels
    BY DEF Labels, ReaderLabels, ReaderCalls, Lookups
  <2> QED  BY <2>1, FrameAt
<1>2. Reader' = At(l) /\ UNCHANGED <<queued, current>>
  BY <1>1, OneFrame DEF Reads, Inv, tracks
<1>3. UNCHANGED Coming
  BY <1>1, <1>2 DEF Coming
<1>4. Fits(At(l)) /\ Follows(At(l))
  BY <1>1 DEF Fits, Follows
<1>5. /\ l \in ReaderLabels \ {"off"}
      /\ l \in ReaderCalls => ReaderInside
  BY DEF ReaderLabels, ReaderCalls, Lookups, ReaderInside
<1> QED  BY <1>1, <1>3, <1>4, <1>5, ReadsInv

\* What a step of the reader that writes more than its frame relies on.
LEMMA ReaderStepFacts ==
    ASSUME Inv, NEW f \in Frames, Becomes("reader", f),
           f.at \in ReaderLabels
    PROVE  /\ TypeOK
           /\ th' \in [{"main", "reader"} -> Frames]
           /\ Main' = Main /\ Reader' = f
           /\ Main'.at \in MainLabels /\ Reader'.at \in ReaderLabels
           /\ queued \in Tracks \cup {Null} /\ current \in Tracks \cup {Null}
           /\ Reader.id \in Tracks \cup {Null}
           /\ shuffle \in BOOLEAN /\ overlapped \in BOOLEAN /\ direct \in BOOLEAN
           /\ direct => ~shuffle
           /\ Reader.at \in ReaderCalls /\ Main.at # "idle" => overlapped
<1>1. TypeOK
  BY DEF Inv
<1>2. /\ th' \in [{"main", "reader"} -> Frames]
      /\ Main' = Main /\ Reader' = f
  BY <1>1, OneFrame
<1>3. Reader.id \in Tracks \cup {Null}
  BY <1>1, FramesTyped
<1>4. /\ Main.at \in MainLabels
      /\ queued \in Tracks \cup {Null} /\ current \in Tracks \cup {Null}
      /\ shuffle \in BOOLEAN /\ overlapped \in BOOLEAN /\ direct \in BOOLEAN
  BY <1>1 DEF TypeOK
<1>5. /\ direct => ~shuffle
      /\ Reader.at \in ReaderCalls /\ Main.at # "idle" => overlapped
  BY DEF Inv, Unshuffled, Alone, MainInside, ReaderInside
<1> QED  BY <1>1, <1>2, <1>3, <1>4, <1>5

\* A frame of the reader's loop that holds nothing.
LEMMA LoopFrame ==
    ASSUME NEW l \in Outside \cup {"repeat", "finish"}
    PROVE  /\ At(l) \in Frames /\ At(l).at = l /\ l \in ReaderLabels
           /\ l \in ReaderCalls => l \in {"repeat", "finish"}
<1>1. l \in Labels /\ l \in ReaderLabels
      /\ (l \in ReaderCalls => l \in {"repeat", "finish"})
  BY DEF Labels, ReaderLabels, ReaderCalls, Lookups, Outside
<1> QED  BY <1>1, FrameAt

\* The reader loads the track it took.
LEMMA LoadInv == ASSUME Inv, Load PROVE Inv'
<1>1. /\ Reader.at = "load" /\ current' = Reader.id /\ Becomes("reader", At("clear"))
      /\ UNCHANGED <<queue, pos, shuffled, shuffle, repeat, queued, crashed,
                     removed, overlapped, direct, attended>>
  BY DEF Load, fields, history
<1>2. /\ At("clear") \in Frames /\ At("clear").at = "clear"
      /\ "clear" \in ReaderLabels /\ "clear" \notin ReaderCalls /\ "clear" \in Outside
  BY LoopFrame DEF Outside
<1>3. UNCHANGED Coming
  BY <1>1, <1>2, ReaderStepFacts DEF Coming
<1> QED  BY <1>1, <1>2, <1>3, ReaderStepFacts, NotFresh, TracksInv

\* The reader clears its queued track, whatever it has become.
LEMMA ClearInv == ASSUME Inv, Clear PROVE Inv'
<1>1. /\ Reader.at = "clear" /\ queued' = Null /\ Becomes("reader", At("play"))
      /\ UNCHANGED <<queue, pos, shuffled, shuffle, repeat, current, crashed,
                     removed, overlapped, direct, attended>>
  BY DEF Clear, fields, history
<1>2. /\ At("play") \in Frames /\ At("play").at = "play"
      /\ "play" \in ReaderLabels /\ "play" \notin ReaderCalls /\ "play" \in Outside
  BY LoopFrame DEF Outside
<1>3. UNCHANGED Coming
  BY <1>1, <1>2, ReaderStepFacts DEF Coming
<1> QED  BY <1>1, <1>2, <1>3, ReaderStepFacts, NotFresh, TracksInv

\* The end of a track begins a call of the reader.
LEMMA TrackOverInv == ASSUME Inv, TrackOver PROVE Inv'
<1> DEFINE l == IF isNextTrackAvailable THEN "repeat" ELSE "finish"
<1>1. /\ Reader.at = "play" /\ Becomes("reader", At(l))
      /\ overlapped' = (overlapped \/ MainInside)
      /\ UNCHANGED <<queue, pos, shuffled, shuffle, repeat, queued, current,
                     crashed, removed, direct, attended>>
  BY DEF TrackOver, fields, tracks
<1>2. l \in {"repeat", "finish"}
  OBVIOUS
<1> HIDE DEF l
<1>3. At(l) \in Frames /\ At(l).at = l /\ l \in ReaderLabels
  BY <1>2, LoopFrame
<1>4. UNCHANGED Coming
  BY <1>1, <1>2, <1>3, ReaderStepFacts DEF Coming
<1>5. overlapped' \in BOOLEAN /\ (Main.at # "idle" => overlapped')
  BY <1>1, ReaderStepFacts DEF MainInside
<1> QED  BY <1>1, <1>2, <1>3, <1>4, <1>5, ReaderStepFacts, NotFresh, TracksInv

\* Repeat-one queues the playing track again.
LEMMA RepeatInv == ASSUME Inv, Repeat PROVE Inv'
<1>1. Reader.at = "repeat" /\ "repeat" \in ReaderCalls
  BY DEF Repeat, ReaderCalls
<1>2. CASE Reads("reader", At("next"))
  BY <1>1, <1>2, GoesOnInv
<1>3. CASE /\ queued' = current
           /\ Becomes("reader", At("top"))
           /\ direct' = (direct /\ queued = Null)
           /\ UNCHANGED <<fields, current, crashed, removed, overlapped, attended>>
  <2>1. /\ At("top") \in Frames /\ At("top").at = "top"
        /\ "top" \in ReaderLabels /\ "top" \notin ReaderCalls /\ "top" \in Outside
    BY LoopFrame DEF Outside
  <2>2. UNCHANGED <<queue, pos, shuffled, shuffle, repeat, current, crashed,
                    removed, overlapped, attended>>
    BY <1>3 DEF fields
  <2>3. direct' => direct /\ Coming' = Coming
    BY <1>1, <1>3, <2>1, ReaderStepFacts DEF Coming
  <2>4. direct' \in BOOLEAN
    BY <1>3
  <2> QED  BY <1>1, <1>3, <2>1, <2>2, <2>3, <2>4, ReaderStepFacts, NotFresh,
              TracksInv
<1> QED  BY <1>2, <1>3 DEF Repeat

\* The end of the playlist lets go of the Reader and of what is queued.
LEMMA FinishInv == ASSUME Inv, Finish PROVE Inv'
<1>1. /\ Reader.at = "finish" /\ queued' = Null /\ Becomes("reader", At("off"))
      /\ direct' = (direct /\ queued = Null)
      /\ UNCHANGED <<queue, pos, shuffled, shuffle, repeat, current, crashed,
                     removed, overlapped, attended>>
  BY DEF Finish, fields
<1>2. /\ At("off") \in Frames /\ At("off").at = "off"
      /\ "off" \in ReaderLabels /\ "off" \notin ReaderCalls /\ "off" \in Outside
  BY LoopFrame DEF Outside
<1>3. direct' => direct /\ Coming' = Coming
  BY <1>1, <1>2, ReaderStepFacts DEF Coming
<1>4. direct' \in BOOLEAN
  BY <1>1
<1> QED  BY <1>1, <1>2, <1>3, <1>4, ReaderStepFacts, NotFresh, TracksInv

\* The reader queues the track at the position it moved to.
LEMMA ReaderHandInv == ASSUME Inv, ReaderHand PROVE Inv'
<1>1. /\ Reader.at = "hand" /\ queued' = Reader.id /\ Becomes("reader", At("top"))
      /\ direct' = IF Reader.id = Null THEN direct /\ queued = Null ELSE ~shuffle
      /\ UNCHANGED <<queue, pos, shuffled, shuffle, repeat, current, crashed,
                     removed, overlapped, attended>>
  BY DEF ReaderHand, fields
<1>2. /\ At("top") \in Frames /\ At("top").at = "top"
      /\ "top" \in ReaderLabels /\ "top" \notin ReaderCalls /\ "top" \in Outside
  BY LoopFrame DEF Outside
<1>3. "hand" \in ReaderCalls
  BY DEF ReaderCalls, Lookups
<1>4. /\ ~overlapped => Follows(Reader)
      /\ direct' \in BOOLEAN /\ (direct' => ~shuffle)
  BY <1>1, <1>2, ReaderStepFacts DEF Inv, Borne
<1>5. ~overlapped /\ direct' =>
         \/ direct /\ Coming' = Coming
         \/ /\ Within(queue, pos) /\ queue[pos + 1] = Coming'
            /\ Main'.at \in {"idle", "start"} /\ Reader'.at \in Outside
  <2> SUFFICES ASSUME ~overlapped, direct'
               PROVE  \/ direct /\ Coming' = Coming
                      \/ /\ Within(queue, pos) /\ queue[pos + 1] = Coming'
                         /\ Main'.at \in {"idle", "start"}
                         /\ Reader'.at \in Outside
    OBVIOUS
  <2>1. CASE Reader.id = Null
    BY <1>1, <1>2, <2>1, ReaderStepFacts DEF Coming
  <2>2. CASE Reader.id # Null
    <3>1. Within(queue, pos) /\ queue[pos + 1] = Reader.id
      BY <1>1, <1>4, <2>2 DEF Follows
    <3>2. Coming' = Reader.id
      BY <1>1, <1>2, <2>2, ReaderStepFacts DEF Coming
    <3> QED  BY <1>1, <1>2, <1>3, <3>1, <3>2, ReaderStepFacts
  <2> QED  BY <2>1, <2>2
<1> QED  BY <1>1, <1>2, <1>4, <1>5, ReaderStepFacts, NotFresh, TracksInv

\* What a step of the main thread that hands a track over relies on.
LEMMA HandFacts ==
    ASSUME Inv
    PROVE  /\ TypeOK /\ th \in [{"main", "reader"} -> Frames]
           /\ Main = th["main"] /\ Reader = th["reader"]
           /\ Main.at \in MainLabels /\ Reader.at \in ReaderLabels
           /\ queued \in Tracks \cup {Null} /\ current \in Tracks \cup {Null}
           /\ Main.id \in Tracks \cup {Null}
           /\ shuffle \in BOOLEAN /\ overlapped \in BOOLEAN /\ direct \in BOOLEAN
           /\ direct => ~shuffle
           /\ Reader.at \in ReaderCalls /\ Main.at # "idle" => overlapped
           /\ Reader.at = "off" => queued = Null
           /\ Reader.at = "top" => "top" \in Outside
           /\ Fresh => Reader.at = "off" /\ current = Null /\ Main.id = Null
<1>1. TypeOK
  BY DEF Inv
<1>2. th \in [{"main", "reader"} -> Frames] /\ Main.id \in Tracks \cup {Null}
      /\ Main = th["main"] /\ Reader = th["reader"]
  BY <1>1, FramesTyped
<1>3. /\ Main.at \in MainLabels /\ Reader.at \in ReaderLabels
      /\ queued \in Tracks \cup {Null} /\ current \in Tracks \cup {Null}
      /\ shuffle \in BOOLEAN /\ overlapped \in BOOLEAN /\ direct \in BOOLEAN
  BY <1>1 DEF TypeOK
<1>4. /\ direct => ~shuffle
      /\ Reader.at \in ReaderCalls /\ Main.at # "idle" => overlapped
      /\ Reader.at = "off" => queued = Null
  BY DEF Inv, Unshuffled, Alone, MainInside, ReaderInside, NoReader
<1>5. Fresh => Reader.at = "off" /\ current = Null /\ Main.id = Null
  BY DEF Fresh
<1> QED  BY <1>1, <1>2, <1>3, <1>4, <1>5 DEF Outside

\* The frames of the main thread between calls, and of a reader that starts.
LEMMA RestFrames ==
    /\ At("idle") \in Frames /\ At("idle").at = "idle" /\ At("idle").id = Null
    /\ At("start") \in Frames /\ At("start").at = "start"
    /\ At("top") \in Frames /\ At("top").at = "top"
    /\ "idle" \in MainLabels /\ "start" \in MainLabels /\ "top" \in ReaderLabels
    /\ "top" \in Outside /\ "top" \notin ReaderCalls
<1>1. "idle" \in Labels /\ "start" \in Labels /\ "top" \in Labels
  BY DEF Labels, MainLabels, ReaderLabels
<1>2. /\ "idle" \in MainLabels /\ "start" \in MainLabels
      /\ "top" \in ReaderLabels /\ "top" \in Outside /\ "top" \notin ReaderCalls
  BY DEF MainLabels, ReaderLabels, Outside, ReaderCalls, Lookups
<1> QED  BY <1>1, <1>2, FrameAt

\* A restart without a Reader plays the playing track, which is to come.
LEMMA RestartsInv ==
    ASSUME Inv, Reader.at = "off", Main.at \in {"idle", "hand", "start"},
           RestartWith(At("idle")),
           UNCHANGED <<queue, pos, shuffled, shuffle, repeat, current, crashed,
                       removed, overlapped, direct, attended>>
    PROVE  Inv'
<1>1. CASE /\ current = Null
           /\ th' = [th EXCEPT !["main"] = At("idle")] /\ UNCHANGED queued
  <2>1. Main' = At("idle") /\ Reader' = Reader
        /\ th' \in [{"main", "reader"} -> Frames]
    BY <1>1, HandFacts, RestFrames DEF Main, Reader
  <2>2. UNCHANGED Coming
    BY <1>1, <2>1 DEF Coming
  <2>3. Fresh => Fresh'
    BY <1>1, <2>1, RestFrames DEF Fresh
  <2> QED  BY <1>1, <2>1, <2>2, <2>3, HandFacts, RestFrames, TracksInv
<1>2. CASE /\ current # Null
           /\ th' = [th EXCEPT !["main"] = At("idle"), !["reader"] = At("top")]
           /\ queued' = current
  <2>1. Main' = At("idle") /\ Reader' = At("top")
        /\ th' \in [{"main", "reader"} -> Frames]
    BY <1>2, HandFacts, RestFrames DEF Main, Reader
  <2>2. UNCHANGED Coming
    BY <1>2, <2>1, HandFacts, RestFrames DEF Coming
  <2>3. ~Fresh
    BY <1>2, HandFacts
  <2> QED  BY <1>2, <2>1, <2>2, <2>3, HandFacts, RestFrames, TracksInv
<1> QED  BY <1>1, <1>2 DEF RestartWith

\* The main thread hands the track it looked up to the player.
LEMMA HandOverInv == ASSUME Inv, HandOver PROVE Inv'
<1>1. /\ Main.at = "hand"
      /\ UNCHANGED <<queue, pos, shuffled, shuffle, repeat, current, crashed,
                     removed, overlapped, attended>>
      /\ ~overlapped => Follows(Main) /\ Reader.at \in Outside
  BY MainFacts DEF HandOver, fields
<1>2. CASE /\ Reader.at # "off"
           /\ queued' = Main.id
           /\ Becomes("main", At("start"))
           /\ direct' = IF Main.id = Null
                        THEN direct /\ (queued = Null \/ Loading)
                        ELSE ~shuffle /\ ~Loading
  <2>1. Main' = At("start") /\ Reader' = Reader
        /\ th' \in [{"main", "reader"} -> Frames]
    BY <1>2, OneFrame, HandFacts, RestFrames
  <2>2. direct' \in BOOLEAN /\ (direct' => ~shuffle)
    BY <1>2, HandFacts
  <2>3. ~overlapped /\ direct' =>
           \/ direct /\ Coming' = Coming
           \/ Within(queue, pos) /\ queue[pos + 1] = Coming'
    <3>1. CASE Main.id = Null
      BY <1>1, <1>2, <2>1, <3>1 DEF Coming, Loading
    <3>2. CASE Main.id # Null
      <4>1. direct' => Coming' = Main.id
        BY <1>1, <1>2, <2>1, <3>2 DEF Coming, Loading
      <4>2. ~overlapped /\ direct' =>
                Within(queue, pos) /\ queue[pos + 1] = Main.id
        BY <1>1, <2>2, <3>2 DEF Follows
      <4> QED  BY <4>1, <4>2
    <3> QED  BY <3>1, <3>2
  <2> QED  BY <1>1, <1>2, <2>1, <2>2, <2>3, HandFacts, RestFrames, NotFresh,
              TracksInv
<1>3. CASE /\ Reader.at = "off" /\ Main.id # Null
           /\ queued' = Main.id
           /\ th' = [th EXCEPT !["main"] = At("idle"), !["reader"] = At("top")]
           /\ direct' = ~shuffle
  <2>1. Main' = At("idle") /\ Reader' = At("top")
        /\ th' \in [{"main", "reader"} -> Frames]
    BY <1>3, HandFacts, RestFrames DEF Main, Reader
  <2>2. direct' \in BOOLEAN /\ (direct' => ~shuffle)
    BY <1>3, HandFacts
  <2>3. Coming' = Main.id
    BY <1>3, <2>1, RestFrames DEF Coming
  <2>4. ~overlapped /\ direct' => Within(queue, pos) /\ queue[pos + 1] = Coming'
    BY <1>1, <1>3, <2>2, <2>3 DEF Follows
  <2> QED  BY <1>1, <1>3, <2>1, <2>2, <2>4, HandFacts, RestFrames, TracksInv
<1>4. CASE Reader.at = "off" /\ RestartWith(At("idle")) /\ UNCHANGED direct
  BY <1>1, <1>4, RestartsInv
<1> QED  BY <1>2, <1>3, <1>4 DEF HandOver

\* start(null) after the hand-over restarts a player that has ended.
LEMMA StartAgainInv == ASSUME Inv, StartAgain PROVE Inv'
<1>1. /\ Main.at = "start"
      /\ UNCHANGED <<queue, pos, shuffled, shuffle, repeat, current, crashed,
                     removed, overlapped, direct, attended>>
  BY DEF StartAgain, fields, history
<1>2. CASE Reader.at = "off" /\ RestartWith(At("idle"))
  BY <1>1, <1>2, RestartsInv
<1>3. CASE /\ Reader.at # "off" /\ Becomes("main", At("idle"))
           /\ UNCHANGED queued
  <2>1. Main' = At("idle") /\ Reader' = Reader
        /\ th' \in [{"main", "reader"} -> Frames]
    BY <1>3, OneFrame, HandFacts, RestFrames
  <2>2. UNCHANGED Coming
    BY <1>1, <1>3, <2>1 DEF Coming
  <2> QED  BY <1>1, <1>3, <2>1, <2>2, HandFacts, RestFrames, NotFresh, TracksInv
<1> QED  BY <1>2, <1>3 DEF StartAgain

\* A play button restarts a player that has ended.
LEMMA RestartInv == ASSUME Inv, Restart PROVE Inv'
<1>1. Main.at = "idle"
  BY DEF Restart, User, MainInside
<1> QED  BY <1>1, RestartsInv DEF Restart, fields, history

-----------------------------------------------------------------------------
(***************************************************************************)
(* The calls of the listener.                                              *)
(***************************************************************************)
\* What the first step of a call leaves of the invariant's simpler parts.
LEMMA CallKept ==
    ASSUME Inv, NEW f \in Frames, User, Becomes("main", f),
           UNCHANGED <<pos, shuffled, shuffle, repeat, tracks, crashed, attended>>,
           f.at \in MainLabels \ {"forget", "flag", "lower"},
           f.at = "removed" => removed',
           f.at = "found" => shuffle,
           f.at \in {"install", "name"} => Within(queue', f.p),
           f.at \in {"moved", "movedTo"} =>
              Within(queue', f.p) /\ Within(queue', f.q),
           queue' \in Seq(Tracks),
           removed' \in BOOLEAN, overlapped' \in BOOLEAN, direct' \in BOOLEAN,
           direct' => direct, ReaderInside => overlapped'
    PROVE  /\ TypeOK' /\ Rowed' /\ Alone' /\ Unshuffled' /\ NoReader'
           /\ OnlyRemovalOrRaceCrashes'
           /\ Main.at = "idle" /\ Main' = f /\ Reader' = Reader
           /\ ~overlapped' => Reader.at \in Outside
           /\ UNCHANGED <<Coming, pos, shuffled, shuffle, repeat, queued, current>>
<1>1. /\ Main.at = "idle" /\ ~crashed
      /\ UNCHANGED <<pos, shuffled, shuffle, repeat, queued, current, crashed,
                     attended>>
  BY DEF User, MainInside, tracks
<1>2. TypeOK /\ Reader.at \in ReaderLabels
  BY DEF Inv, TypeOK
<1>3. /\ th' \in [{"main", "reader"} -> Frames]
      /\ Main' = f /\ Reader' = Reader
  BY <1>2, OneFrame
<1>4. f.at \in MainLabels
  BY DEF MainLabels
<1>5. TypeOK'
  BY <1>1, <1>2, <1>3, <1>4 DEF TypeOK, Frames, Labels
<1>6. Rowed'
  BY <1>3 DEF Rowed, Within, MainLabels
<1>7. Alone' /\ (~overlapped' => Reader.at \in Outside)
  BY <1>2, <1>3 DEF Alone, MainInside, ReaderInside, ReaderLabels, Outside
<1>8. Unshuffled' /\ NoReader'
  BY <1>1, <1>3 DEF Inv, Unshuffled, NoReader
<1>9. OnlyRemovalOrRaceCrashes'
  BY <1>1 DEF OnlyRemovalOrRaceCrashes
<1>10. UNCHANGED Coming
  BY <1>1, <1>3 DEF Coming
<1> QED  BY <1>1, <1>3, <1>5, <1>6, <1>7, <1>8, <1>9, <1>10

\* The first step of a call keeps the invariant when the rows it holds are
\* rows, and the track to come is where the call will find it.
LEMMA CallInv ==
    ASSUME Inv, NEW f \in Frames, User, Becomes("main", f),
           UNCHANGED <<pos, shuffled, shuffle, repeat, tracks, crashed, attended>>,
           f.at \in {"install", "name", "next", "prev", "found", "moved", "removed"},
           queue' \in Seq(Tracks),
           removed' \in BOOLEAN, overlapped' \in BOOLEAN, direct' \in BOOLEAN,
           direct' => direct, ReaderInside => overlapped',
           f.at \in {"install", "name"} => Within(queue', f.p) /\ ~direct',
           f.at \notin {"install", "name"} /\ overlapped => overlapped',
           f.at \notin {"install", "removed"} =>
               Len(queue') = Len(queue) /\ removed' = removed,
           f.at \in {"next", "prev", "found"} => UNCHANGED queue,
           f.at = "next" => f.id = Null,
           f.at \in {"prev", "found", "moved"} => ~Fresh,
           f.at = "found" => shuffle /\ (~removed /\ ~overlapped => Within(queue, f.p)),
           f.at = "moved" =>
              Within(queue', f.p) /\ Within(queue', f.q),
           f.at = "removed" => removed',
           direct' /\ ~overlapped' =>
              /\ f.at = "moved" =>
                    /\ Within(queue', Swapped(pos, f.p, f.q))
                    /\ queue'[Swapped(pos, f.p, f.q) + 1] = Coming
              /\ f.at = "removed" =>
                    LET n == IF f.p < pos THEN pos - 1 ELSE pos
                    IN  Within(queue', n) /\ queue'[n + 1] = Coming
    PROVE  Inv'
<1>0. f.at \in MainLabels \ {"forget", "flag", "lower"}
  <2>1. {"install", "name", "next", "prev", "found", "moved", "removed"}
            \subseteq MainLabels \ {"forget", "flag", "lower"}
    BY DEF MainLabels, Lookups
  <2> QED  BY <2>1
<1>1. /\ TypeOK' /\ Rowed' /\ Alone' /\ Unshuffled' /\ NoReader'
      /\ OnlyRemovalOrRaceCrashes'
      /\ Main.at = "idle" /\ Main' = f /\ Reader' = Reader
      /\ ~overlapped' => Reader.at \in Outside
      /\ UNCHANGED <<Coming, pos, shuffled, shuffle, repeat, queued, current>>
  <2>1. f.at \in {"moved", "movedTo"} => Within(queue', f.p) /\ Within(queue', f.q)
    OBVIOUS
  <2>2. f.at = "found" => shuffle
    OBVIOUS
  <2>3. f.at \in {"install", "name"} => Within(queue', f.p)
    OBVIOUS
  <2> QED  BY <1>0, <2>1, <2>2, <2>3, CallKept
<1>2. /\ Len(queue) \in Nat /\ pos \in Int
      /\ ~removed /\ ~Fresh /\ ~overlapped => Within(queue, pos)
      /\ ~removed => OrderFits
  BY <1>1, MainFacts DEF Inv, Sorted
<1>3. Sorted'
  <2> SUFFICES ASSUME ~removed', f.at # "install" PROVE OrderFits'
    BY <1>1 DEF Sorted
  <2>1. Len(queue') = Len(queue) /\ OrderFits
    BY <1>2
  <2> QED  BY <1>1, <2>1 DEF OrderFits
<1>4. Placed'
  <2> SUFFICES ASSUME ~removed', ~overlapped' PROVE Placed'
    BY DEF Placed
  <2>1. CASE f.at \in {"install", "name"}
    BY <1>1, <2>1 DEF Placed, Fits, Outside
  <2>2. CASE Fresh /\ f.at = "next"
    BY <1>1, <2>2 DEF Placed, Fresh
  <2>3. CASE ~Fresh /\ f.at \notin {"install", "name"}
    <3>1. Within(queue, pos) /\ Len(queue') = Len(queue)
      BY <1>2, <2>3
    <3>2. Within(queue, pos)' /\ Fits(Main)' /\ Fits(Reader)'
      BY <1>1, <2>3, <3>1 DEF Fits, Outside, Within
    <3> QED  BY <3>2 DEF Placed
  <2> QED  BY <2>1, <2>2, <2>3
<1>5. Bound'
  <2> SUFFICES ASSUME direct', ~overlapped' PROVE Bound'
    BY DEF Bound
  <2>1. CASE f.at \in {"next", "prev", "found"}
    <3>1. Here(pos)
      BY <1>1, <2>1 DEF Inv, Bound, Dragging
    <3> QED  BY <1>1, <2>1, <3>1 DEF Bound, Here, Within, Dragging
  <2>2. CASE f.at = "moved"
    BY <1>1, <2>2 DEF Bound, Here, Within, Dragging
  <2>3. CASE f.at = "removed"
    BY <1>1, <2>3 DEF Bound, Here, Within, Dragging
  <2> QED  BY <2>1, <2>2, <2>3
<1>6. Borne'
  BY <1>1 DEF Borne, Follows, Outside
<1> QED  BY <1>1, <1>3, <1>4, <1>5, <1>6 DEF Inv

\* What every call relies on.
LEMMA UserFacts ==
    ASSUME Inv, User
    PROVE  /\ TypeOK /\ queue \in Seq(Tracks) /\ Len(queue) \in Nat /\ pos \in Int
           /\ shuffled \in Seq(Nat) \cup {Null} /\ shuffle \in BOOLEAN
           /\ removed \in BOOLEAN /\ overlapped \in BOOLEAN /\ direct \in BOOLEAN
           /\ Main.at = "idle" /\ Coming \in Tracks \cup {Null}
           /\ ~removed /\ ~overlapped /\ ~Fresh => Within(queue, pos)
           /\ ~removed => OrderFits
           /\ direct => ~shuffle
           /\ direct /\ ~overlapped => Here(pos)
<1>1. TypeOK /\ Main.at = "idle" /\ (direct => ~shuffle)
  BY DEF Inv, User, MainInside, Unshuffled
<1>2. Coming \in Tracks \cup {Null}
  BY <1>1, FramesTyped DEF Coming, TypeOK
<1>3. /\ queue \in Seq(Tracks) /\ Len(queue) \in Nat /\ pos \in Int
      /\ shuffled \in Seq(Nat) \cup {Null} /\ shuffle \in BOOLEAN
      /\ removed \in BOOLEAN /\ overlapped \in BOOLEAN /\ direct \in BOOLEAN
  BY <1>1 DEF TypeOK
<1>4. /\ ~removed /\ ~overlapped /\ ~Fresh => Within(queue, pos)
      /\ ~removed => OrderFits
  BY <1>1 DEF Inv, Placed, Sorted
<1>5. direct /\ ~overlapped => Here(pos)
  BY <1>1 DEF Inv, Bound, Dragging
<1> QED  BY <1>1, <1>2, <1>3, <1>4, <1>5

\* A new queue is installed at a row of it.
LEMMA PlayQueueInv ==
    ASSUME Inv, NEW q \in Lists, NEW p \in 0..(Len(q) - 1), PlayQueue(q, p)
    PROVE  Inv'
<1> DEFINE f == Holding("install", p)
<1>1. /\ User /\ Becomes("main", f) /\ overlapped' = ReaderInside
      /\ queue' = q /\ removed' = FALSE /\ direct' = FALSE
      /\ UNCHANGED <<pos, shuffled, shuffle, repeat, tracks, crashed, attended>>
  BY DEF PlayQueue, Names
<1>2. q \in Seq(Tracks) /\ Within(q, p)
  BY ListAssumption DEF Within
<1>3. f \in Frames /\ f.at = "install" /\ f.p = p
  <2>1. "install" \in Labels /\ p \in Int
    BY DEF Labels, MainLabels
  <2> QED  BY <2>1, FrameHolding
<1> HIDE DEF f
<1>4. overlapped' \in BOOLEAN /\ direct' \in BOOLEAN /\ removed' \in BOOLEAN
  <2>1. ReaderInside \in BOOLEAN
    BY DEF ReaderInside
  <2> QED  BY <1>1, <2>1
<1> QED  BY <1>1, <1>2, <1>3, <1>4, CallInv

\* The listener taps a row of the queue.
LEMMA PlayInv ==
    ASSUME Inv, NEW p \in Rows, Play(p)
    PROVE  Inv'
<1> DEFINE f == Holding("name", p)
<1>1. /\ User /\ Becomes("main", f) /\ overlapped' = ReaderInside
      /\ UNCHANGED <<queue, removed>> /\ direct' = FALSE
      /\ UNCHANGED <<pos, shuffled, shuffle, repeat, tracks, crashed, attended>>
  BY DEF Play, Names
<1>2. queue \in Seq(Tracks) /\ Within(queue, p) /\ removed \in BOOLEAN
  BY <1>1, UserFacts DEF Within, Rows
<1>3. f \in Frames /\ f.at = "name" /\ f.p = p
  <2>1. "name" \in Labels /\ p \in Int
    BY DEF Labels, MainLabels, Rows
  <2> QED  BY <2>1, FrameHolding
<1> HIDE DEF f
<1>4. overlapped' \in BOOLEAN /\ direct' \in BOOLEAN
  <2>1. ReaderInside \in BOOLEAN
    BY DEF ReaderInside
  <2> QED  BY <1>1, <2>1
<1> QED  BY <1>1, <1>2, <1>3, <1>4, CallInv

\* skipToNext and skipToPrev start to look up the track next to the current.
LEMMA SkipInv ==
    ASSUME Inv, NEW l \in {"next", "prev"}, Begins(At(l)),
           UNCHANGED <<queue, removed, direct>>, l = "prev" => pos > 0
    PROVE  Inv'
<1>1. /\ User /\ Becomes("main", At(l))
      /\ overlapped' = (overlapped \/ ReaderInside)
      /\ UNCHANGED <<pos, shuffled, shuffle, repeat, tracks, crashed, attended>>
  BY DEF Begins
<1>2. /\ queue \in Seq(Tracks) /\ removed \in BOOLEAN /\ direct \in BOOLEAN
      /\ overlapped \in BOOLEAN
  BY <1>1, UserFacts
<1>3. At(l) \in Frames /\ At(l).at = l /\ At(l).id = Null
  <2>1. l \in Labels
    BY DEF Labels, MainLabels, Lookups
  <2> QED  BY <2>1, FrameAt
<1>4. l = "prev" => ~Fresh
  BY DEF Fresh
<1>5. overlapped' \in BOOLEAN /\ (ReaderInside => overlapped')
  BY <1>1, <1>2 DEF ReaderInside
<1> QED  BY <1>1, <1>2, <1>3, <1>4, <1>5, CallInv

LEMMA SkipToNextInv == ASSUME Inv, SkipToNext PROVE Inv'
BY SkipInv DEF SkipToNext

LEMMA SkipToPrevInv == ASSUME Inv, SkipToPrev PROVE Inv'
BY SkipInv DEF SkipToPrev

\* The setter of shuffle reads the position to go back to.
LEMMA ShuffleOffInv == ASSUME Inv, ShuffleOff PROVE Inv'
<1>1. shuffle
  BY DEF ShuffleOff
<1>2. CASE /\ InOrder(pos)
           /\ Begins(Holding("found", Ordered(pos)))
           /\ UNCHANGED <<queue, removed, direct>>
  <2> DEFINE f == Holding("found", Ordered(pos))
  <2>1. /\ User /\ Becomes("main", f)
        /\ overlapped' = (overlapped \/ ReaderInside)
        /\ UNCHANGED <<pos, shuffled, shuffle, repeat, tracks, crashed, attended>>
    BY <1>2 DEF Begins
  <2>2. /\ queue \in Seq(Tracks) /\ removed \in BOOLEAN /\ direct \in BOOLEAN
        /\ overlapped \in BOOLEAN /\ ~direct /\ ~Fresh
    BY <1>1, <2>1, UserFacts DEF Fresh
  <2>3. /\ Ordered(pos) \in Int
        /\ ~removed /\ ~overlapped => Within(queue, Ordered(pos))
    <3>1. CASE shuffled = Null
      BY <1>1, <2>1, <2>2, <3>1, UserFacts DEF Ordered, OrderFits
    <3>2. CASE shuffled # Null
      <4>1. shuffled \in Seq(Nat) /\ Within(shuffled, pos) /\ pos \in Int
        BY <1>2, <2>1, <3>2, UserFacts DEF InOrder
      <4>2. pos + 1 \in 1..Len(shuffled)
        BY <4>1 DEF Within
      <4>3. shuffled[pos + 1] \in Nat
        BY <4>1, <4>2
      <4>4. ~removed => shuffled[pos + 1] < Len(queue)
        BY <1>1, <2>1, <4>2, UserFacts DEF OrderFits
      <4> QED  BY <3>2, <4>3, <4>4 DEF Ordered, Within
    <3> QED  BY <3>1, <3>2
  <2>4. f \in Frames /\ f.at = "found" /\ f.p = Ordered(pos)
    <3>1. "found" \in Labels
      BY DEF Labels, MainLabels
    <3> QED  BY <2>3, <3>1, FrameHolding
  <2> HIDE DEF f
  <2>5. overlapped' \in BOOLEAN /\ (ReaderInside => overlapped')
    BY <2>1, <2>2 DEF ReaderInside
  <2> QED  BY <1>1, <1>2, <2>1, <2>2, <2>3, <2>4, <2>5, CallInv
<1>3. CASE ~InOrder(pos) /\ User /\ Throws
  <2>1. ~removed /\ ~overlapped => InOrder(pos)
    <3>1. ~Fresh
      BY <1>1 DEF Fresh
    <3> QED  BY <1>1, <1>3, <3>1, UserFacts DEF InOrder, OrderFits, Within
  <2> QED  BY <1>3, <2>1, ThrowsInv DEF Inv, TypeOK
<1> QED  BY <1>2, <1>3 DEF ShuffleOff

-----------------------------------------------------------------------------
(***************************************************************************)
(* The later steps of the calls that write the shuffled order or its flag, *)
(* and the calls of one step.                                              *)
(***************************************************************************)
\* A new order, if one is made, is an order of the installed queue.
LEMMA OrderMade ==
    ASSUME Inv, shuffled' \in Shuffles(Len(queue)), UNCHANGED queue
    PROVE  shuffled' \in Seq(Nat) /\ OrderFits'
<1>1. Len(queue) \in Nat
  BY MainFacts
<1>2. /\ shuffled' \in Seq(Nat) /\ Len(shuffled') = Len(queue)
      /\ \A i \in 1..Len(queue) : (shuffled')[i] < Len(queue)
  BY <1>1, ShufflesFit
<1>3. shuffled' # Null
  BY <1>2, ListAssumption
<1> QED  BY <1>2, <1>3 DEF OrderFits

\* A step of the main thread that writes nothing but its frame, the shuffled
\* order and the shuffle flag.
LEMMA OrdersInv ==
    ASSUME Inv, NEW f \in Frames, Becomes("main", f),
           UNCHANGED <<queue, pos, repeat, queued, current, crashed, removed,
                       overlapped, attended>>,
           Main.at \in {"install", "forget", "flag"},
           f.at \in {"name", "flag", "idle"},
           f.at = "name" <=> Main.at = "install",
           f.at = "name" => f.p = Main.p,
           shuffled' \in Seq(Nat) \cup {Null}, shuffle' \in BOOLEAN,
           f.at = "flag" => shuffle',
           f.at # "flag" => OrderFits',
           shuffle' => shuffle, UNCHANGED direct
    PROVE  Inv'
<1>1. /\ th' \in [{"main", "reader"} -> Frames] /\ Main' = f /\ Reader' = Reader
      /\ TypeOK /\ Reader.at \in ReaderLabels /\ f.at \in MainLabels
  BY OneFrame DEF Inv, TypeOK, MainLabels
<1>2. TypeOK'
  BY <1>1 DEF TypeOK, Frames, Labels
<1>3. Rowed' /\ Alone' /\ NoReader' /\ OnlyRemovalOrRaceCrashes'
  <2>1. Rowed'
    BY <1>1 DEF Inv, Rowed, Within
  <2>2. Alone' /\ NoReader' /\ OnlyRemovalOrRaceCrashes'
    BY <1>1 DEF Inv, Alone, MainInside, ReaderInside, NoReader,
                OnlyRemovalOrRaceCrashes
  <2> QED  BY <2>1, <2>2
<1>4. Unshuffled'
  BY <1>1 DEF Inv, Unshuffled
<1>5. Sorted'
  BY <1>1 DEF Sorted
<1>6. ~overlapped => Reader.at \in Outside
  BY MainFacts
<1>7. Placed'
  <2> SUFFICES ASSUME ~removed, ~overlapped PROVE Placed'
    BY DEF Placed
  <2>1. f.at # "name" => Within(queue, pos)
    BY MainFacts
  <2>2. Fits(Main)' /\ Fits(Reader)'
    BY <1>1, <1>6 DEF Fits, Outside
  <2> QED  BY <1>1, <2>1, <2>2 DEF Placed, Within
<1>8. UNCHANGED Coming
  BY <1>1 DEF Coming
<1>9. Bound'
  BY <1>1, <1>8 DEF Inv, Bound, Here, Within, Dragging
<1>10. Borne'
  <2> SUFFICES ASSUME ~overlapped PROVE Borne'
    BY DEF Borne
  <2>1. f.at = "name" => ~direct
    BY MainFacts DEF Follows
  <2> QED  BY <1>1, <1>6, <2>1 DEF Borne, Follows, Outside
<1> QED  BY <1>2, <1>3, <1>4, <1>5, <1>7, <1>9, <1>10 DEF Inv

\* The setter of playbackQueue makes an order for the new queue.
LEMMA InstallInv == ASSUME Inv, Install PROVE Inv'
<1> DEFINE f == Holding("name", Main.p)
<1>1. /\ Main.at = "install" /\ Becomes("main", f)
      /\ IF shuffle THEN shuffled' \in Shuffles(Len(queue)) ELSE UNCHANGED shuffled
      /\ UNCHANGED <<queue, pos, shuffle, repeat, queued, current, crashed,
                     removed, overlapped, direct, attended>>
  BY DEF Install, tracks, history
<1>2. f \in Frames /\ f.at = "name" /\ f.p = Main.p
  BY MainFacts, FrameHolding DEF Labels, MainLabels
<1> HIDE DEF f
<1>3. shuffled' \in Seq(Nat) \cup {Null} /\ OrderFits'
  <2>1. CASE shuffle
    BY <1>1, <2>1, OrderMade
  <2>2. CASE ~shuffle
    BY <1>1, <2>2 DEF Inv, TypeOK, OrderFits
  <2> QED  BY <2>1, <2>2
<1>4. shuffle \in BOOLEAN
  BY DEF Inv, TypeOK
<1> QED  BY <1>1, <1>2, <1>3, <1>4, OrdersInv

\* The setter of shuffle forgets the order.
LEMMA ForgetInv == ASSUME Inv, Forget PROVE Inv'
<1>1. /\ Main.at = "forget" /\ Becomes("main", At("flag")) /\ shuffled' = Null
      /\ UNCHANGED <<queue, pos, shuffle, repeat, queued, current, crashed,
                     removed, overlapped, direct, attended>>
  BY DEF Forget, tracks, history
<1>2. At("flag") \in Frames /\ At("flag").at = "flag"
  BY FrameAt DEF Labels, MainLabels
<1>3. shuffle /\ shuffle \in BOOLEAN
  BY <1>1 DEF Inv, Unshuffled, TypeOK
<1> QED  BY <1>1, <1>2, <1>3, OrdersInv

\* The setter of shuffle ends, and positions are those of the queue again.
LEMMA FlagInv == ASSUME Inv, Flag PROVE Inv'
<1>1. /\ Main.at = "flag" /\ Becomes("main", At("idle")) /\ shuffle' = FALSE
      /\ UNCHANGED <<queue, pos, shuffled, repeat, queued, current, crashed,
                     removed, overlapped, direct, attended>>
  BY DEF Flag, tracks, history
<1>2. At("idle") \in Frames /\ At("idle").at = "idle"
  BY RestFrames
<1>3. shuffled' \in Seq(Nat) \cup {Null}
  BY <1>1 DEF Inv, TypeOK
<1>4. OrderFits'
  BY <1>1 DEF OrderFits
<1> QED  BY <1>1, <1>2, <1>3, <1>4, OrdersInv

\* toggleShuffle makes an order, and positions are those of the order.
LEMMA ShuffleOnInv == ASSUME Inv, ShuffleOn PROVE Inv'
<1>1. /\ User /\ current # Null /\ ~shuffle
      /\ shuffled' \in Shuffles(Len(queue)) /\ shuffle' = TRUE /\ direct' = FALSE
      /\ UNCHANGED <<queue, pos, repeat, queued, current, th, crashed, removed,
                     overlapped, attended>>
  BY DEF ShuffleOn, tracks
<1>2. UNCHANGED <<Main, Reader>> /\ Main.at = "idle" /\ ~Fresh
  BY <1>1, UserFacts DEF Main, Reader, Fresh
<1>3. shuffled' \in Seq(Nat) /\ OrderFits'
  BY <1>1, OrderMade
<1>4. TypeOK'
  BY <1>1, <1>2, <1>3 DEF Inv, TypeOK
<1>5. /\ Rowed' /\ Alone' /\ Unshuffled' /\ NoReader'
      /\ OnlyRemovalOrRaceCrashes'
  BY <1>1, <1>2 DEF Inv, Rowed, Alone, Unshuffled, NoReader,
                    OnlyRemovalOrRaceCrashes, MainInside, ReaderInside
<1>6. Sorted' /\ Bound'
  BY <1>1, <1>3 DEF Sorted, Bound
<1>7. Placed'
  BY <1>1, <1>2 DEF Inv, Placed, Fits, Within
<1>8. Borne'
  BY <1>1, <1>2 DEF Inv, Borne, Follows
<1> QED  BY <1>4, <1>5, <1>6, <1>7, <1>8 DEF Inv

\* A step that changes neither the queue nor a track nor a frame.
LEMMA IdleInv ==
    ASSUME Inv, repeat' \in {REPEAT_OFF, REPEAT_ALL, REPEAT_ONE},
           attended' \in BOOLEAN, Fresh => UNCHANGED repeat,
           UNCHANGED <<queue, pos, shuffled, shuffle, tracks, th, crashed,
                       removed, overlapped, direct>>
    PROVE  Inv'
<1>1. UNCHANGED <<queued, current, Main, Reader>>
  BY DEF tracks, Main, Reader
<1>2. UNCHANGED <<Coming, OrderFits>>
  BY <1>1 DEF Coming, OrderFits
<1>3. TypeOK'
  BY <1>1 DEF Inv, TypeOK
<1>4. /\ Rowed' /\ Alone' /\ Unshuffled' /\ NoReader'
      /\ OnlyRemovalOrRaceCrashes' /\ Sorted'
  BY <1>1, <1>2 DEF Inv, Rowed, Alone, Unshuffled, NoReader, Sorted, Within,
                    OnlyRemovalOrRaceCrashes, MainInside, ReaderInside
<1>5. Placed'
  BY <1>1 DEF Inv, Placed, Fresh, Fits, Within
<1>6. Bound' /\ Borne'
  <2>1. Bound'
    BY <1>1, <1>2 DEF Inv, Bound, Here, Within, Swapped
  <2>2. Borne'
    BY <1>1 DEF Inv, Borne, Follows, Within
  <2> QED  BY <2>1, <2>2
<1> QED  BY <1>3, <1>4, <1>5, <1>6 DEF Inv

\* toggleRepeat moves on to the next of the three modes.
LEMMA toggleRepeatInv == ASSUME Inv, toggleRepeat PROVE Inv'
<1>1. repeat' \in {REPEAT_OFF, REPEAT_ALL, REPEAT_ONE}
  BY DEF Inv, TypeOK, toggleRepeat, REPEAT_OFF, REPEAT_ALL, REPEAT_ONE
<1>2. ~Fresh
  BY DEF toggleRepeat, Fresh
<1>3. attended' \in BOOLEAN
  BY DEF Inv, TypeOK, toggleRepeat, history
<1> QED  BY <1>1, <1>2, <1>3, IdleInv DEF toggleRepeat, history

\* A drag swaps two rows, and the position moves with its track later.
LEMMA onTrackMovedInv ==
    ASSUME Inv, NEW o \in Rows, NEW d \in Rows, o # d, onTrackMoved(o, d)
    PROVE  Inv'
<1> DEFINE f == Frame("moved", o, d, Null)
<1>1. /\ User /\ Becomes("main", f)
      /\ queue' = [queue EXCEPT ![o + 1] = queue[d + 1], ![d + 1] = queue[o + 1]]
      /\ overlapped' = (overlapped \/ ReaderInside) /\ UNCHANGED <<removed, direct>>
      /\ UNCHANGED <<pos, shuffled, shuffle, repeat, tracks, crashed, attended>>
  BY DEF onTrackMoved, Begins
<1>2. /\ queue \in Seq(Tracks) /\ Len(queue) \in Nat /\ pos \in Int
      /\ removed \in BOOLEAN /\ overlapped \in BOOLEAN /\ direct \in BOOLEAN
      /\ direct /\ ~overlapped => Here(pos)
  BY <1>1, UserFacts
<1>3. /\ o \in Nat /\ d \in Nat
      /\ o + 1 \in 1..Len(queue) /\ d + 1 \in 1..Len(queue)
  BY <1>2 DEF Rows
<1>4. ~Fresh
  <2>1. Len(queue) # 0
    BY <1>2, <1>3
  <2> QED  BY <2>1 DEF Fresh
<1>5. queue[o + 1] \in Tracks /\ queue[d + 1] \in Tracks
  BY <1>2, <1>3
<1>6. /\ queue' \in Seq(Tracks) /\ Len(queue') = Len(queue)
      /\ \A j \in 1..Len(queue) :
           (queue')[j] = IF j = d + 1 THEN queue[o + 1]
                         ELSE IF j = o + 1 THEN queue[d + 1] ELSE queue[j]
  BY <1>1, <1>2, <1>3, <1>5
<1>7. f \in Frames /\ f.at = "moved" /\ f.p = o /\ f.q = d
  <2>1. "moved" \in Labels /\ o \in Int /\ d \in Int
    BY <1>3 DEF Labels, MainLabels
  <2> QED  BY <2>1, FrameHolds
<1> HIDE DEF f
<1>8. Within(queue', o) /\ Within(queue', d)
  BY <1>2, <1>3, <1>6 DEF Within
<1>9. overlapped' \in BOOLEAN /\ (ReaderInside => overlapped')
  BY <1>1, <1>2 DEF ReaderInside
<1>10. direct' /\ ~overlapped' =>
          /\ Within(queue', Swapped(pos, o, d))
          /\ (queue')[Swapped(pos, o, d) + 1] = Coming
  <2> SUFFICES ASSUME direct', ~overlapped'
               PROVE  /\ Within(queue', Swapped(pos, o, d))
                      /\ (queue')[Swapped(pos, o, d) + 1] = Coming
    OBVIOUS
  <2>1. Within(queue, pos) /\ queue[pos + 1] = Coming
    BY <1>1, <1>2 DEF Here
  <2>2. CASE pos = o
    BY <1>3, <1>6, <1>8, <2>1, <2>2 DEF Swapped
  <2>3. CASE pos = d /\ pos # o
    <3>1. o + 1 # d + 1
      BY <1>3
    <3> QED  BY <1>3, <1>6, <1>8, <2>1, <2>3, <3>1 DEF Swapped
  <2>4. CASE pos # o /\ pos # d
    <3>1. pos + 1 \in 1..Len(queue) /\ pos + 1 # o + 1 /\ pos + 1 # d + 1
      BY <1>2, <1>3, <2>1, <2>4 DEF Within
    <3>2. (queue')[pos + 1] = queue[pos + 1]
      BY <1>6, <3>1
    <3>3. Within(queue', pos)
      BY <1>6, <2>1 DEF Within
    <3> QED  BY <2>1, <2>4, <3>2, <3>3 DEF Swapped
  <2> QED  BY <2>2, <2>3, <2>4
<1> QED  BY <1>1, <1>2, <1>4, <1>6, <1>7, <1>8, <1>9, <1>10, CallInv

\* A removal takes a row out, and the position moves up with its track later.
LEMMA onTrackRemovedInv ==
    ASSUME Inv, NEW p \in Rows, onTrackRemoved(p)
    PROVE  Inv'
<1> DEFINE f == Holding("removed", p)
<1>1. /\ User /\ Becomes("main", f) /\ queue' = RemoveAt(queue, p + 1)
      /\ overlapped' = (overlapped \/ ReaderInside)
      /\ removed' = TRUE /\ direct' = (direct /\ p # pos)
      /\ UNCHANGED <<pos, shuffled, shuffle, repeat, tracks, crashed, attended>>
  BY DEF onTrackRemoved, Begins
<1>2. /\ queue \in Seq(Tracks) /\ Len(queue) \in Nat /\ pos \in Int
      /\ overlapped \in BOOLEAN /\ direct \in BOOLEAN
      /\ direct /\ ~overlapped => Here(pos)
  BY <1>1, UserFacts
<1>3. p \in Nat /\ p + 1 \in 1..Len(queue)
  BY <1>2 DEF Rows
<1>4. /\ queue' \in Seq(Tracks) /\ Len(queue') = Len(queue) - 1
      /\ \A j \in 1..(Len(queue) - 1) :
           (queue')[j] = IF j < p + 1 THEN queue[j] ELSE queue[j + 1]
  BY <1>1, <1>2, <1>3, RemoveAtProperties
<1>5. f \in Frames /\ f.at = "removed" /\ f.p = p
  <2>1. "removed" \in Labels /\ p \in Int
    BY <1>3 DEF Labels, MainLabels
  <2> QED  BY <2>1, FrameHolding
<1> HIDE DEF f
<1>6. overlapped' \in BOOLEAN /\ (ReaderInside => overlapped')
  BY <1>1, <1>2 DEF ReaderInside
<1>7. direct' /\ ~overlapped' =>
         LET n == IF p < pos THEN pos - 1 ELSE pos
         IN  Within(queue', n) /\ (queue')[n + 1] = Coming
  <2> SUFFICES ASSUME direct', ~overlapped'
               PROVE  LET n == IF p < pos THEN pos - 1 ELSE pos
                      IN  Within(queue', n) /\ (queue')[n + 1] = Coming
    OBVIOUS
  <2>1. Within(queue, pos) /\ queue[pos + 1] = Coming /\ p # pos
    BY <1>1, <1>2 DEF Here
  <2>2. CASE p < pos
    <3>1. pos \in 1..(Len(queue) - 1)
      BY <1>2, <1>3, <2>1, <2>2 DEF Within
    <3>2. (queue')[pos] = queue[pos + 1]
      BY <1>3, <1>4, <2>2, <3>1
    <3>3. Within(queue', pos - 1) /\ (queue')[(pos - 1) + 1] = Coming
      BY <1>2, <1>4, <2>1, <3>1, <3>2 DEF Within
    <3> QED  BY <2>2, <3>3
  <2>3. CASE ~(p < pos)
    <3>1. pos + 1 \in 1..(Len(queue) - 1) /\ pos + 1 < p + 1
      BY <1>2, <1>3, <2>1, <2>3 DEF Within
    <3>2. (queue')[pos + 1] = queue[pos + 1]
      BY <1>4, <3>1
    <3>3. Within(queue', pos)
      BY <1>2, <1>4, <3>1 DEF Within
    <3> QED  BY <2>1, <2>3, <3>2, <3>3
  <2> QED  BY <2>2, <2>3
<1>8. direct' \in BOOLEAN /\ (direct' => direct)
  BY <1>1, <1>2
<1> QED  BY <1>1, <1>2, <1>4, <1>5, <1>6, <1>7, <1>8, CallInv

-----------------------------------------------------------------------------
\* Every call of the listener keeps the invariant.
LEMMA CallsInv == ASSUME Inv, Call PROVE Inv'
<1>1. ASSUME NEW q \in Lists, NEW p \in 0..(Len(q) - 1), PlayQueue(q, p)
      PROVE  Inv'
  BY <1>1, PlayQueueInv
<1>2. ASSUME NEW p \in Rows, Play(p) PROVE Inv'
  BY <1>2, PlayInv
<1>3. CASE SkipToNext
  BY <1>3, SkipToNextInv
<1>4. CASE SkipToPrev
  BY <1>4, SkipToPrevInv
<1>5. CASE Restart
  BY <1>5, RestartInv
<1>6. CASE ShuffleOn
  BY <1>6, ShuffleOnInv
<1>7. CASE ShuffleOff
  BY <1>7, ShuffleOffInv
<1>8. CASE toggleRepeat
  BY <1>8, toggleRepeatInv
<1>9. ASSUME NEW o \in Rows, NEW d \in Rows, o # d, onTrackMoved(o, d) PROVE Inv'
  BY <1>9, onTrackMovedInv
<1>10. ASSUME NEW p \in Rows, onTrackRemoved(p) PROVE Inv'
  BY <1>10, onTrackRemovedInv
<1>11. CASE Leave
  BY <1>11, IdleInv DEF Leave, Inv, TypeOK, fields
<1> QED  BY <1>1, <1>2, <1>3, <1>4, <1>5, <1>6, <1>7, <1>8, <1>9, <1>10,
            <1>11 DEF Call

\* Every step of a look-up keeps it, in either thread.
LEMMA LooksInv ==
    ASSUME Inv, NEW t \in {"main", "reader"}, Lookup(t) PROVE Inv'
BY NextTestInv, NextAddInv, PutInv, ArgumentInv, CheckInv, OrderInv, FetchInv
   DEF Lookup

\* Every step of a call under way in the main thread keeps it.
LEMMA MainStepInv == ASSUME Inv, MainStep PROVE Inv'
<1>1. CASE Lookup("main")
  BY <1>1, LooksInv
<1>2. CASE PrevTest \/ PrevSub \/ HandOver \/ StartAgain
  BY <1>2, PrevTestInv, PrevSubInv, HandOverInv, StartAgainInv
<1>3. CASE Install \/ Name \/ Found \/ Forget \/ Flag
  BY <1>3, InstallInv, NameInv, FoundInv, ForgetInv, FlagInv
<1>4. CASE Moved \/ MovedTo \/ Removed \/ Lower \/ Settle
  BY <1>4, MovedInv, MovedToInv, RemovedInv, LowerInv, SettleInv
<1> QED  BY <1>1, <1>2, <1>3, <1>4 DEF MainStep

\* Every step of the reader keeps it.
LEMMA ReaderStepInv == ASSUME Inv, ReaderStep PROVE Inv'
<1>1. CASE Lookup("reader")
  BY <1>1, LooksInv
<1>2. CASE ReaderHand \/ Take \/ Load \/ Clear
  BY <1>2, ReaderHandInv, TakeInv, LoadInv, ClearInv
<1>3. CASE NothingQueued
  BY <1>3, GoesOnInv DEF NothingQueued
<1>4. CASE TrackOver \/ Repeat \/ Finish
  BY <1>4, TrackOverInv, RepeatInv, FinishInv
<1> QED  BY <1>1, <1>2, <1>3, <1>4 DEF ReaderStep

LEMMA StepInv == Inv /\ [Next]_vars => Inv'
<1>1. ASSUME Inv, UNCHANGED vars PROVE Inv'
  BY <1>1, IdleInv DEF vars, fields, history, Inv, TypeOK
<1> QED  BY <1>1, CallsInv, MainStepInv, ReaderStepInv DEF Next

\* The invariant holds of every behaviour of Playlist.
LEMMA Invariance == Spec => []Inv
BY InitInv, StepInv, PTL DEF Spec

-----------------------------------------------------------------------------
(***************************************************************************)
(* The fields of Playlist.kt keep their types whatever the listener does   *)
(* while the reader moves on, and wherever a race leaves the position.     *)
(***************************************************************************)
THEOREM TypeCorrect == Spec => []TypeOK
<1>1. Inv => TypeOK
  BY DEF Inv
<1> QED  BY <1>1, Invariance, PTL

(***************************************************************************)
(* onTrackMoved, onTrackRemoved, the skips and the reader's getNextTrack   *)
(* at the end of a track leave the position of an unshuffled queue of any  *)
(* length on the track that plays or is queued to, as long as no two of    *)
(* them overlap.                                                           *)
(***************************************************************************)
THEOREM PositionCorrect == Spec => []PositionFollowsTrack
<1>1. Inv => PositionFollowsTrack
  BY DEF Inv, Bound, Here, PositionFollowsTrack, MainInside, Dragging
<1> QED  BY <1>1, Invariance, PTL

(***************************************************************************)
(* getTrackIdAt and the shuffle setter index outside the queue or the      *)
(* shuffled order only after a row was removed, or calls of the main       *)
(* thread and the reader overlapped.                                       *)
(***************************************************************************)
THEOREM NoCrashAlone == Spec => []OnlyRemovalOrRaceCrashes
<1>1. Inv => OnlyRemovalOrRaceCrashes
  BY DEF Inv
<1> QED  BY <1>1, Invariance, PTL
=============================================================================
