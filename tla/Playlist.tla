------------------------------ MODULE Playlist ------------------------------
(***************************************************************************)
(* The play queue of Chipbox (backend/player/Playlist.kt) with the calls   *)
(* that reach it: Player.play, skipToNext and skipToPrev, the end of a     *)
(* track in Reader.loop, and the shuffle, repeat, drag and swipe gestures  *)
(* of the player and playlist screens.                                     *)
(*                                                                         *)
(* Two threads share it without a lock: the main thread, which runs the    *)
(* listener's calls, and the reader thread, which takes the next track at  *)
(* the end of one.  A step of a thread reads or writes one field the other *)
(* thread writes; the frame th[t] holds where thread t stands (at) and     *)
(* what it has read (p, q, id).                                            *)
(*                                                                         *)
(* Kotlin lists are indexed from 0 and TLA+ sequences from 1: position p   *)
(* of a list is element p + 1 of the sequence.  An index out of range is   *)
(* an uncaught exception, which ends the process: crashed.                 *)
(***************************************************************************)
EXTENDS Integers, FiniteSets, Sequences, SequencesExt

CONSTANTS
    Tracks,     \* track identifiers
    Lists,      \* the lists of tracks the screens play
    Null        \* null: no track, no shuffled order

\* A screen plays a list of tracks of the library: no track twice.
ASSUME ListAssumption ==
    /\ Null \notin Tracks
    /\ Null \notin Seq(Nat)
    /\ Lists \subseteq Seq(Tracks)
    /\ \A q \in Lists : IsInjective(q)

VARIABLES
    queue,      \* playbackQueue
    pos,        \* playbackQueuePosition
    shuffled,   \* shuffledPositionQueue
    shuffle,    \* shuffle
    repeat,     \* repeat
    queued,     \* queuedTrackId of the player's Reader
    current,    \* playingTrackId
    th,         \* the frame of each thread
    crashed,    \* an index was out of range
    removed,    \* history: a track was removed since the queue was installed
    overlapped, \* history: calls overlapped since a position was last named
    direct,     \* history: the track to play was chosen, and is, without shuffle
    attended    \* the listener still touches the screen

fields == <<queue, pos, shuffled, shuffle, repeat>>
tracks == <<queued, current>>
history == <<removed, overlapped, direct, attended>>
vars == <<fields, tracks, th, crashed, history>>

REPEAT_OFF == 0
REPEAT_ALL == 1
REPEAT_ONE == 2

\* Mutant: positions counted from 1.
ShufflesFromOne(n) ==
    {s \in [1..n -> 1..n] : \A i, j \in 1..n : s[i] = s[j] => i = j}

\* The permutations that Collections.shuffle can leave of positions 0..n-1.
Shuffles(n) ==
    {s \in [1..n -> 0..(n - 1)] : \A i, j \in 1..n : s[i] = s[j] => i = j}

Frame(l, p, q, id) == [at |-> l, p |-> p, q |-> q, id |-> id]
At(l) == Frame(l, 0, 0, Null)               \* nothing read yet
Holding(l, p) == Frame(l, p, 0, Null)       \* a position
Bearing(l, id) == Frame(l, 0, 0, id)        \* a track identifier

\* Steps of getNextTrack, getPrevTrack and getTrackIdAt, in either thread.
Lookups == {"next", "add", "put", "argument", "check", "order", "fetch", "hand"}

\* The reader's own calls of the playlist, and its loop outside them.
ReaderCalls == Lookups \cup {"repeat", "finish"}
ReaderLabels == ReaderCalls \cup {"off", "top", "play", "load", "clear"}

MainLabels == Lookups \cup
    {"idle", "install", "name", "prev", "sub", "start", "found", "forget",
     "flag", "moved", "movedTo", "removed", "lower", "settle"}

Main == th["main"]
Reader == th["reader"]
MainInside == Main.at # "idle"
ReaderInside == Reader.at \in ReaderCalls

TypeOK ==
    /\ queue \in Seq(Tracks)
    /\ pos \in Int
    /\ shuffled \in Seq(Nat) \cup {Null}
    /\ repeat \in {REPEAT_OFF, REPEAT_ALL, REPEAT_ONE}
    /\ queued \in Tracks \cup {Null}
    /\ current \in Tracks \cup {Null}
    /\ th \in [{"main", "reader"} ->
                 [at : MainLabels \cup ReaderLabels, p : Int, q : Int,
                  id : Tracks \cup {Null}]]
    /\ Main.at \in MainLabels
    /\ Reader.at \in ReaderLabels
    /\ shuffle \in BOOLEAN
    /\ crashed \in BOOLEAN
    /\ removed \in BOOLEAN
    /\ overlapped \in BOOLEAN
    /\ direct \in BOOLEAN
    /\ attended \in BOOLEAN

Init ==
    /\ queue = << >>
    /\ pos = 0
    /\ shuffled = Null
    /\ shuffle = FALSE
    /\ repeat = REPEAT_OFF
    /\ queued = Null
    /\ current = Null
    /\ th = [t \in {"main", "reader"} |->
                IF t = "main" THEN At("idle") ELSE At("off")]
    /\ crashed = FALSE
    /\ removed = FALSE
    /\ overlapped = FALSE
    /\ direct = FALSE
    /\ attended = TRUE

-----------------------------------------------------------------------------
\* Thread t moves on to frame f.
Becomes(t, f) == th' = [th EXCEPT ![t] = f]

\* The step reads shared fields and writes none.
Reads(t, f) == Becomes(t, f) /\ UNCHANGED <<fields, tracks, crashed, history>>

\* The step writes the position.
Puts(t, f, p) ==
    /\ pos' = p
    /\ Becomes(t, f)
    /\ UNCHANGED <<queue, shuffled, shuffle, repeat, tracks, crashed>>

Throws == crashed' = TRUE /\ UNCHANGED <<fields, tracks, th, history>>

\* The element of list s at position p, if it has one.
Within(s, p) == 0 <= p /\ p < Len(s)

-----------------------------------------------------------------------------
(***************************************************************************)
(* getNextTrack and getPrevTrack: the test of the position, the read and   *)
(* then the write of its increment, and the read of getTrackIdAt's         *)
(* argument.  While the position moves it is no track's: ~direct.          *)
(***************************************************************************)
\* Mutant: repeat-all stays on the last position.
NextStays(t) ==
    /\ th[t].at = "next"
    /\ \/ pos + 1 < Len(queue) /\ Reads(t, At("add"))
       \/ pos + 1 >= Len(queue) /\ repeat = REPEAT_ALL /\ Reads(t, Holding("put", pos))
       \/ pos + 1 >= Len(queue) /\ repeat # REPEAT_ALL /\ Reads(t, At("hand"))

NextTest(t) ==
    /\ th[t].at = "next"
    /\ \/ pos + 1 < Len(queue) /\ Reads(t, At("add"))
       \/ pos + 1 >= Len(queue) /\ repeat = REPEAT_ALL /\ Reads(t, Holding("put", 0))
       \/ pos + 1 >= Len(queue) /\ repeat # REPEAT_ALL /\ Reads(t, At("hand"))

NextAdd(t) == th[t].at = "add" /\ Reads(t, Holding("put", pos + 1))

\* getPrevTrack tests the position that skipToPrev has tested.
PrevTest ==
    /\ Main.at = "prev"
    /\ \/ pos > 0 /\ Reads("main", At("sub"))
       \/ pos <= 0 /\ Reads("main", At("hand"))

PrevSub == Main.at = "sub" /\ Reads("main", Holding("put", pos - 1))

Put(t) ==
    /\ th[t].at = "put"
    /\ Puts(t, At("argument"), th[t].p)
    /\ direct' = FALSE
    /\ UNCHANGED <<removed, overlapped, attended>>

Argument(t) == th[t].at = "argument" /\ Reads(t, Holding("check", pos))

-----------------------------------------------------------------------------
(***************************************************************************)
(* getTrackIdAt(position): the check of the position, the look into the    *)
(* shuffled order, whose entries may be stale, and into the queue.         *)
(***************************************************************************)
Check(t) ==
    /\ th[t].at = "check"
    /\ LET p == th[t].p IN
       \/ p > Len(queue) /\ Reads(t, At("hand"))
       \/ p <= Len(queue) /\ shuffle /\ Reads(t, Holding("order", p))
       \/ p <= Len(queue) /\ ~shuffle /\ Reads(t, Holding("fetch", p))

\* shuffledPositionQueue?.get(p) ?: 0, when it does not throw.
InOrder(p) == shuffled # Null => Within(shuffled, p)
Ordered(p) == IF shuffled = Null THEN 0 ELSE shuffled[p + 1]

Order(t) ==
    /\ th[t].at = "order"
    /\ LET p == th[t].p IN
       \/ InOrder(p) /\ Reads(t, Holding("fetch", Ordered(p)))
       \/ ~InOrder(p) /\ Throws

Fetch(t) ==
    /\ th[t].at = "fetch"
    /\ LET p == th[t].p IN
       \/ Within(queue, p) /\ Reads(t, Bearing("hand", queue[p + 1]))
       \/ ~Within(queue, p) /\ Throws

-----------------------------------------------------------------------------
(***************************************************************************)
(* The track that was looked up goes to the player.  With a Reader it      *)
(* becomes its queued track; Coming is the track the reader plays or is    *)
(* about to play, which handing it null, or a track while it loads one,    *)
(* does not change as the caller meant.                                    *)
(***************************************************************************)
Loading == Reader.at \in {"load", "clear"}

Coming ==
    IF Reader.at = "load" THEN Reader.id
    ELSE IF Reader.at = "clear" \/ queued = Null THEN current
    ELSE queued

\* start(null) without a Reader: the track last played, if any, plays again.
RestartWith(rest) ==
    IF current = Null
    THEN th' = [th EXCEPT !["main"] = rest] /\ UNCHANGED queued
    ELSE /\ th' = [th EXCEPT !["main"] = rest, !["reader"] = At("top")]
         /\ queued' = current

HandOver ==
    /\ Main.at = "hand"
    /\ IF Reader.at # "off"
       THEN /\ queued' = Main.id
            /\ Becomes("main", At("start"))
            /\ direct' = IF Main.id = Null
                         THEN direct /\ (queued = Null \/ Loading)
                         ELSE ~shuffle /\ ~Loading
       ELSE IF Main.id # Null
       THEN /\ queued' = Main.id
            /\ th' = [th EXCEPT !["main"] = At("idle"), !["reader"] = At("top")]
            /\ direct' = ~shuffle
       ELSE RestartWith(At("idle")) /\ UNCHANGED direct
    /\ UNCHANGED <<fields, current, crashed, removed, overlapped, attended>>

\* start(null) after the queued track was set: the reader may have ended.
StartAgain ==
    /\ Main.at = "start"
    /\ IF Reader.at = "off"
       THEN RestartWith(At("idle"))
       ELSE Becomes("main", At("idle")) /\ UNCHANGED queued
    /\ UNCHANGED <<fields, current, crashed, history>>

\* The reader queues the next track for itself.
ReaderHand ==
    /\ Reader.at = "hand"
    /\ queued' = Reader.id
    /\ Becomes("reader", At("top"))
    /\ direct' = IF Reader.id = Null THEN direct /\ queued = Null ELSE ~shuffle
    /\ UNCHANGED <<fields, current, crashed, removed, overlapped, attended>>

-----------------------------------------------------------------------------
(***************************************************************************)
(* The loop of the Reader.  It takes a queued track before it asks the     *)
(* backend whether the track is over (top), loads it, and only then clears *)
(* queuedTrackId; at the end of a track, once the writer has drained the   *)
(* buffers, it stops, plays it again or gets the next one.                 *)
(***************************************************************************)
\* Mutant: the last position counts as one before the last.
isNextTrackAvailableLate == pos < Len(queue) \/ repeat # REPEAT_OFF

isNextTrackAvailable == pos + 1 < Len(queue) \/ repeat # REPEAT_OFF

Take ==
    /\ Reader.at \in {"top", "play"}
    /\ queued # Null
    /\ Reads("reader", Bearing("load", queued))

NothingQueued ==
    Reader.at = "top" /\ queued = Null /\ Reads("reader", At("play"))

Load ==
    /\ Reader.at = "load"
    /\ current' = Reader.id
    /\ Becomes("reader", At("clear"))
    /\ UNCHANGED <<fields, queued, crashed, history>>

Clear ==
    /\ Reader.at = "clear"
    /\ queued' = Null
    /\ Becomes("reader", At("play"))
    /\ UNCHANGED <<fields, current, crashed, history>>

TrackOver ==
    /\ Reader.at = "play"
    /\ Becomes("reader", At(IF isNextTrackAvailable THEN "repeat" ELSE "finish"))
    /\ overlapped' = (overlapped \/ MainInside)
    /\ UNCHANGED <<fields, tracks, crashed, removed, direct, attended>>

Repeat ==
    /\ Reader.at = "repeat"
    /\ \/ repeat # REPEAT_ONE /\ Reads("reader", At("next"))
       \/ /\ repeat = REPEAT_ONE
          /\ queued' = current
          /\ Becomes("reader", At("top"))
          /\ direct' = (direct /\ queued = Null)
          /\ UNCHANGED <<fields, current, crashed, removed, overlapped, attended>>

\* onPlaylistFinished: the player stops and lets go of its Reader.
Finish ==
    /\ Reader.at = "finish"
    /\ queued' = Null
    /\ Becomes("reader", At("off"))
    /\ direct' = (direct /\ queued = Null)
    /\ UNCHANGED <<fields, current, crashed, removed, overlapped, attended>>

-----------------------------------------------------------------------------
User == attended /\ ~crashed /\ ~MainInside

\* A call that moves the position from where it stands.
Begins(f) ==
    /\ User
    /\ Becomes("main", f)
    /\ overlapped' = (overlapped \/ ReaderInside)
    /\ UNCHANGED <<pos, shuffled, shuffle, repeat, tracks, crashed, attended>>

\* A call that names the position.
Names(f) ==
    /\ User
    /\ Becomes("main", f)
    /\ overlapped' = ReaderInside
    /\ direct' = FALSE
    /\ UNCHANGED <<pos, shuffled, shuffle, repeat, tracks, crashed, attended>>

\* Player.play(playbackQueue, position): the setter of playbackQueue makes a
\* new shuffled order when shuffle is on.
PlayQueue(q, p) ==
    /\ Names(Holding("install", p))
    /\ queue' = q
    /\ removed' = FALSE

Install ==
    /\ Main.at = "install"
    /\ IF shuffle THEN shuffled' \in Shuffles(Len(queue)) ELSE UNCHANGED shuffled
    /\ Becomes("main", Holding("name", Main.p))
    /\ UNCHANGED <<queue, pos, shuffle, repeat, tracks, crashed, history>>

\* Player.play(position), from a row of the playlist screen.
Play(p) == Names(Holding("name", p)) /\ UNCHANGED <<queue, removed>>

\* getTrackIdAt(position, true) of a row the main thread alone can move.
Name ==
    /\ Main.at = "name"
    /\ Puts("main", Bearing("hand", queue[Main.p + 1]), Main.p)
    /\ UNCHANGED history

SkipToNext == Begins(At("next")) /\ UNCHANGED <<queue, removed, direct>>

\* At position 0 skipToPrev only seeks.
SkipToPrev == pos > 0 /\ Begins(At("prev")) /\ UNCHANGED <<queue, removed, direct>>

\* start(null) from a play button after the playlist has finished.
Restart ==
    /\ User
    /\ Reader.at = "off"
    /\ RestartWith(At("idle"))
    /\ UNCHANGED <<fields, current, crashed, history>>

\* toggleShuffle, reachable once a track has played.
ShuffleOn ==
    /\ User
    /\ current # Null
    /\ ~shuffle
    /\ shuffled' \in Shuffles(Len(queue))
    /\ shuffle' = TRUE
    /\ direct' = FALSE
    /\ UNCHANGED <<queue, pos, repeat, tracks, th, crashed, removed, overlapped,
                   attended>>

\* The setter looks the position up in the shuffled order it then forgets.
ShuffleOff ==
    /\ shuffle
    /\ \/ /\ InOrder(pos)
          /\ Begins(Holding("found", Ordered(pos)))
          /\ UNCHANGED <<queue, removed, direct>>
       \/ ~InOrder(pos) /\ User /\ Throws

Found ==
    /\ Main.at = "found"
    /\ Puts("main", At("forget"), Main.p)
    /\ UNCHANGED history

Forget ==
    /\ Main.at = "forget"
    /\ shuffled' = Null
    /\ Becomes("main", At("flag"))
    /\ UNCHANGED <<queue, pos, shuffle, repeat, tracks, crashed, history>>

Flag ==
    /\ Main.at = "flag"
    /\ shuffle' = FALSE
    /\ Becomes("main", At("idle"))
    /\ UNCHANGED <<queue, pos, shuffled, repeat, tracks, crashed, history>>

\* Mutant: the modes do not start over.
toggleRepeatOnwards ==
    /\ User
    /\ current # Null
    /\ repeat' = repeat + 1
    /\ UNCHANGED <<queue, pos, shuffled, shuffle, tracks, th, crashed, history>>

toggleRepeat ==
    /\ User
    /\ current # Null
    /\ repeat' = IF repeat >= REPEAT_ONE THEN REPEAT_OFF ELSE repeat + 1
    /\ UNCHANGED <<queue, pos, shuffled, shuffle, tracks, th, crashed, history>>

-----------------------------------------------------------------------------
\* A drag swaps two rows and moves the position if it was on one of them.
onTrackMoved(o, d) ==
    /\ queue' = [queue EXCEPT ![o + 1] = queue[d + 1], ![d + 1] = queue[o + 1]]
    /\ Begins(Frame("moved", o, d, Null))
    /\ UNCHANGED <<removed, direct>>

Moved ==
    /\ Main.at = "moved"
    /\ \/ pos = Main.p /\ Reads("main", Holding("settle", Main.q))
       \/ pos # Main.p /\ Reads("main", Frame("movedTo", Main.p, Main.q, Null))

\* Mutant: only the dragged row moves.
MovedOneWay == Main.at = "movedTo" /\ Reads("main", At("idle"))

MovedTo ==
    /\ Main.at = "movedTo"
    /\ \/ pos = Main.q /\ Reads("main", Holding("settle", Main.p))
       \/ pos # Main.q /\ Reads("main", At("idle"))

\* Removing the current row leaves the position on the row that slides into
\* its place, and the track that plays has no position.
onTrackRemoved(p) ==
    /\ queue' = RemoveAt(queue, p + 1)
    /\ Begins(Holding("removed", p))
    /\ removed' = TRUE
    /\ direct' = (direct /\ p # pos)

Removed ==
    /\ Main.at = "removed"
    /\ \/ Main.p < pos /\ Reads("main", At("lower"))
       \/ Main.p >= pos /\ Reads("main", At("idle"))

Lower == Main.at = "lower" /\ Reads("main", Holding("settle", pos - 1))

Settle ==
    /\ Main.at = "settle"
    /\ Puts("main", At("idle"), Main.p)
    /\ UNCHANGED history

\* The listener puts the phone away: from here on only tracks end.
Leave ==
    /\ User
    /\ attended' = FALSE
    /\ UNCHANGED <<fields, tracks, th, crashed, removed, overlapped, direct>>

-----------------------------------------------------------------------------
Rows == 0..(Len(queue) - 1)

Call ==
    \/ \E q \in Lists : \E p \in 0..(Len(q) - 1) : PlayQueue(q, p)
    \/ \E p \in Rows : Play(p)
    \/ SkipToNext
    \/ SkipToPrev
    \/ Restart
    \/ ShuffleOn
    \/ ShuffleOff
    \/ toggleRepeat
    \/ \E o, d \in Rows : o # d /\ onTrackMoved(o, d)
    \/ \E p \in Rows : onTrackRemoved(p)
    \/ Leave

Lookup(t) ==
    \/ NextTest(t) \/ NextAdd(t) \/ Put(t) \/ Argument(t)
    \/ Check(t) \/ Order(t) \/ Fetch(t)

MainStep ==
    /\ ~crashed
    /\ \/ Lookup("main") \/ PrevTest \/ PrevSub \/ HandOver \/ StartAgain
       \/ Install \/ Name \/ Found \/ Forget \/ Flag
       \/ Moved \/ MovedTo \/ Removed \/ Lower \/ Settle

ReaderStep ==
    /\ ~crashed
    /\ \/ Lookup("reader") \/ ReaderHand
       \/ Take \/ NothingQueued \/ Load \/ Clear \/ TrackOver \/ Repeat \/ Finish

Next == Call \/ MainStep \/ ReaderStep

\* A track ends because its length is finite and the reader keeps reading.
Spec == Init /\ [][Next]_vars /\ WF_vars(ReaderStep)

-----------------------------------------------------------------------------
(***************************************************************************)
(* Without shuffle the position follows the track: whatever rows were      *)
(* dragged, swiped away or skipped since, when neither thread is inside a  *)
(* call, queue position pos holds the track that plays or is queued to     *)
(* (getNextTrack, onTrackMoved and onTrackRemoved adjust it).  It takes    *)
(* that no two calls overlapped since a position was last named, and that  *)
(* the track handed over was not lost on its way: see direct.              *)
(***************************************************************************)
PositionFollowsTrack ==
    direct /\ ~overlapped /\ ~MainInside /\ ~ReaderInside =>
        Within(queue, pos) /\ queue[pos + 1] = Coming

(***************************************************************************)
(* No index is out of range until a row is swiped away or calls of the two *)
(* threads overlap: drags, skips, shuffle and repeat changes in any order  *)
(* never make getTrackIdAt or the shuffle setter throw.                    *)
(***************************************************************************)
OnlyRemovalOrRaceCrashes == crashed => removed \/ overlapped

(***************************************************************************)
(* With repeat-all, and no row removed, every track of the queue is        *)
(* played, shuffled or not, once the listener leaves the queue alone:      *)
(* whatever position a race has left behind.                               *)
(***************************************************************************)
RepeatAllPlaysEverything ==
    \A t \in Tracks :
        (/\ ~attended /\ ~crashed /\ Reader.at \in {"top", "play"}
         /\ repeat = REPEAT_ALL /\ ~removed /\ Contains(queue, t))
            ~> (current = t)

(***************************************************************************)
(* With repeat off an unattended playlist comes to its end and the player  *)
(* stops, unless a stale index brings it down first.                       *)
(***************************************************************************)
RepeatOffFinishes ==
    (~attended /\ Reader.at # "off" /\ repeat = REPEAT_OFF)
        ~> (Reader.at = "off" \/ crashed)
=============================================================================
