------------------------------ MODULE Playback ------------------------------
(***************************************************************************)
(* The playback engine of Chipbox: Player.kt, whose commands run on the    *)
(* main thread, and the two threads every accepted start() spawns, a       *)
(* reader (Reader.kt) that fills audio buffers from the native emulator    *)
(* and a writer (Writer.kt) that plays them.  The threads share the        *)
(* player's fields, a pair of bounded buffer queues, the Reader and Writer *)
(* objects and the process-wide emulator; only the queues are              *)
(* synchronised.                                                           *)
(*                                                                         *)
(* Session s is the s-th start() that spawns threads: reader thread s,     *)
(* writer thread s with its Writer object s, the Reader object s that      *)
(* thread may create and the queue pair s made when there was no reader.   *)
(* Sessions overlap: nothing waits for the threads of an earlier one.      *)
(*                                                                         *)
(* A main-thread command is one step, stop() two.  A thread takes one step *)
(* per access to shared state, except where two accesses in a row can be   *)
(* told apart by no order of the others' steps.  A 10 s timeout may expire *)
(* whenever its wait can: the threads run at any relative speed.           *)
(***************************************************************************)
EXTENDS Integers, FiniteSets, Sequences

CONSTANTS
    N,           \* audioConfig.bufferCount, the capacity of each queue
    MaxStarts,   \* bound: starts that spawn threads
    NumTracks,   \* the play queue is tracks 1..NumTracks, in that order
    TrackLen,    \* buffers of audio in a track
    RepeatAll,   \* repeat is REPEAT_ALL (else REPEAT_OFF)
    Library,     \* the tracks the repository still knows
    BadFiles,    \* the tracks whose file does not load
    Vgm,         \* whether the tracks use the VGM backend: a set of choices
    Commands     \* the commands the listener gives

Tracks == 1..NumTracks
NoTrack == 0
Sessions == 1..MaxStarts
None == 0                       \* a null Reader, Writer or Thread

ASSUME BoundsAssumption ==
    /\ N \in Nat \ {0}
    /\ MaxStarts \in Nat \ {0}
    /\ NumTracks \in Nat \ {0}
    /\ TrackLen \in Nat \ {0}
    /\ RepeatAll \in BOOLEAN
    /\ Vgm \subseteq BOOLEAN
    /\ Library \subseteq Tracks
    /\ BadFiles \subseteq Tracks
    /\ Commands \subseteq {"start", "play", "switch", "replace", "retry",
                           "next", "prev", "seek", "pause", "stop", "leave"}

VARIABLES
    state,         \* Player.state
    reader,        \* Player.reader
    writer,        \* Player.writer
    writerThread,  \* Player.writerThread
    started,       \* sessions so far (readerCount, writerCount)
    silent,        \* history: the last accepted start() had no track to play
    pos,           \* playlist.playbackQueuePosition, from 1
    playingTrack,  \* playlist.playingTrackId
    robj,          \* the Reader objects
    rt,            \* the reader threads
    wt,            \* the writer threads, with their Writer objects
    empty,         \* emptyBuffers of each queue pair
    full,          \* fullBuffers of each queue pair
    native,        \* the emulator: track loaded, buffers left, last error,
                   \* and whether it is VGMPlay
    crashed,       \* an uncaught exception ended the process
    main           \* the main thread: "idle" between two commands, "stop" in
                   \* the middle of stop(), "left" when there are no more

playerVars == <<state, reader, writer, writerThread, started, silent>>
listVars == <<pos, playingTrack>>
queueVars == <<empty, full>>
vars == <<playerVars, listVars, robj, rt, wt, queueVars, native, crashed,
          main>>

(***************************************************************************)
(* A buffer is its timestamp, reduced to -2 (no backend), -1 (cleared, or  *)
(* no emulator) and 0 (valid), and the track its samples come from.        *)
(***************************************************************************)
Buffers == [ts : {-2, -1, 0}, trk : Tracks \cup {NoTrack}]
Cleared == [ts |-> -1, trk |-> NoTrack]
NoBuffer == [ts |-> -3, trk |-> NoTrack]     \* a thread's empty hand

STOPPED == "stopped"
PLAYING == "playing"
PAUSED == "paused"
ERROR == "error"

ReaderPcs == {"unborn", "new", "make", "enter", "top", "reset", "resetOffer",
              "teardown", "load", "notify", "clear", "clearAdd", "seek",
              "seekDone", "over", "ended", "next", "queue", "stop", "poll",
              "stamp", "put", "exit", "exitOffer", "forget", "done"}
WriterPcs == {"unborn", "new", "enter", "top", "wait", "timeout", "played",
              "seekClear", "seekClearAdd", "put", "exit", "exitAdd", "forget",
              "done"}

TypeOK ==
    /\ state \in {STOPPED, PLAYING, PAUSED, ERROR}
    /\ {reader, writer, writerThread} \subseteq Sessions \cup {None}
    /\ started \in 0..MaxStarts
    /\ silent \in BOOLEAN
    /\ pos \in Tracks
    /\ playingTrack \in Tracks \cup {NoTrack}
    /\ robj \in [Sessions -> [queued : Tracks \cup {NoTrack},
                              cur : Tracks \cup {NoTrack},
                              resuming : BOOLEAN, backend : BOOLEAN,
                              seek : BOOLEAN, pair : Sessions \cup {None}]]
    /\ rt \in [Sessions -> [pc : ReaderPcs, obj : Sessions \cup {None},
                            tgt : Tracks \cup {NoTrack},
                            held : Buffers \cup {NoBuffer},
                            clr : Sessions \cup {None}]]
    /\ wt \in [Sessions -> [pc : WriterPcs, obj : Sessions \cup {None},
                            pair : Sessions \cup {None},
                            held : Buffers \cup {NoBuffer},
                            clr : Buffers \cup {NoBuffer},
                            intr : BOOLEAN, seeking : BOOLEAN]]
    /\ empty \in [Sessions -> Seq(Buffers)]
    /\ full \in [Sessions -> Seq(Buffers)]
    /\ \A q \in Sessions : Len(empty[q]) <= N /\ Len(full[q]) <= N
    /\ native \in [track : Tracks \cup {NoTrack}, left : 0..TrackLen,
                   err : BOOLEAN, vgm : BOOLEAN]
    /\ crashed \in BOOLEAN
    /\ main \in {"idle", "stop", "left"}

Init ==
    /\ state = STOPPED
    /\ reader = None
    /\ writer = None
    /\ writerThread = None
    /\ started = 0
    /\ silent = FALSE
    /\ pos = 1
    /\ playingTrack = NoTrack
    /\ robj = [s \in Sessions |->
                 [queued |-> NoTrack, cur |-> NoTrack, resuming |-> FALSE,
                  backend |-> FALSE, seek |-> FALSE, pair |-> None]]
    /\ rt = [s \in Sessions |->
               [pc |-> "unborn", obj |-> None, tgt |-> NoTrack,
                held |-> NoBuffer, clr |-> None]]
    /\ wt = [s \in Sessions |->
               [pc |-> "unborn", obj |-> None, pair |-> None,
                held |-> NoBuffer, clr |-> NoBuffer, intr |-> FALSE,
                seeking |-> FALSE]]
    /\ empty = [s \in Sessions |-> << >>]
    /\ full = [s \in Sessions |-> << >>]
    /\ native \in [track : {NoTrack}, left : {0}, err : {FALSE}, vgm : Vgm]
    /\ crashed = FALSE
    /\ main = "idle"

-----------------------------------------------------------------------------
(***************************************************************************)
(* The GME backend, as the state its calls leave.                          *)
(***************************************************************************)
teardown == [native EXCEPT !.track = NoTrack, !.left = 0]

\* A bad file leaves an error: without an emulator when its type is not
\* known, with one that has nothing to play when it does not load.
loadFile(track) ==
    IF track \in BadFiles
    THEN {[teardown EXCEPT !.err = TRUE],
          [native EXCEPT !.track = track, !.left = 0, !.err = TRUE]}
    ELSE {[native EXCEPT !.track = track, !.left = TrackLen, !.err = FALSE]}

\* The last error is left alone, and the result not looked at.
seek ==
    IF native.track \in {NoTrack} \cup BadFiles
    THEN {native}
    ELSE {[native EXCEPT !.left = l] : l \in 0..TrackLen}

-----------------------------------------------------------------------------
(***************************************************************************)
(* Commands of the main thread.                                            *)
(***************************************************************************)
Command(name) == name \in Commands /\ main = "idle" /\ ~crashed

\* The reader and writer threads that start() creates in session s, for the
\* track first, reusing the queues of the existing Reader if there is one.
Spawn(s, first, resuming, objs) ==
    LET pair == IF reader = None THEN s ELSE objs[reader].pair
    IN  /\ robj' = [objs EXCEPT ![s].queued = first,
                                ![s].resuming = resuming, ![s].pair = pair]
        /\ rt' = [rt EXCEPT ![s].pc = "new"]
        /\ wt' = [wt EXCEPT ![s].pc = "new", ![s].pair = pair]
        /\ writerThread' = s
        /\ started' = s
        /\ silent' = FALSE
        /\ UNCHANGED <<reader, writer>>

\* Player.start(trackId) with the Reader objects in state objs, when audio
\* focus is granted; a refusal changes nothing.  The state becomes PLAYING
\* before it is known whether there is a track.
start(trackId, objs) ==
    LET first == IF trackId # NoTrack THEN trackId ELSE playingTrack
        resuming == state = PAUSED /\ trackId = NoTrack
    IN  \/ /\ state = PLAYING
           /\ robj' = objs
           /\ UNCHANGED <<playerVars, rt, wt>>
        \/ /\ state # PLAYING
           /\ first = NoTrack
           /\ state' = PLAYING
           /\ silent' = TRUE
           /\ robj' = objs
           /\ UNCHANGED <<reader, writer, writerThread, started, rt, wt>>
        \/ /\ state # PLAYING
           /\ first # NoTrack
           /\ started < MaxStarts
           /\ state' = PLAYING
           /\ Spawn(started + 1, first, resuming, objs)

\* reader?.let { it.queuedTrackId = trackId; start(null) } ?: start(trackId)
QueueOrStart(trackId) ==
    IF reader = None
    THEN start(trackId, robj)
    ELSE start(NoTrack, [robj EXCEPT ![reader].queued = trackId])

\* The play button in PAUSED and STOPPED, a media button, focus regained.
Start ==
    /\ Command("start")
    /\ start(NoTrack, robj)
    /\ UNCHANGED <<listVars, queueVars, native, crashed, main>>

\* Player.play(position), or play(queue, position) with the same queue; which
\* of the listener's commands it is depends on the state.
PlayCommand ==
    CASE state = STOPPED -> "play"
      [] state = PLAYING -> "switch"
      [] state = PAUSED -> "replace"
      [] state = ERROR -> "retry"

Play(p) ==
    /\ Command(PlayCommand)
    /\ pos' = p
    /\ QueueOrStart(p)
    /\ UNCHANGED <<playingTrack, queueVars, native, crashed, main>>

\* Mutant: there is a track after the last one.
HasNextAlways == pos <= NumTracks \/ RepeatAll

\* Playlist.getNextTrack: the position it moves to, which names the track.
HasNext == pos < NumTracks \/ RepeatAll
NextPos == IF pos < NumTracks THEN pos + 1 ELSE 1

\* At the end of the queue getNextTrack is null, and null is queued.
SkipToNext ==
    /\ Command("next")
    /\ pos' = IF HasNext THEN NextPos ELSE pos
    /\ QueueOrStart(IF HasNext THEN NextPos ELSE NoTrack)
    /\ UNCHANGED <<playingTrack, queueVars, native, crashed, main>>

Seek ==
    /\ reader # None
    /\ robj' = [robj EXCEPT ![reader].seek = TRUE]
    /\ UNCHANGED <<playerVars, listVars, rt, wt, queueVars, native, crashed,
                   main>>

\* playbackTimePosition is never written, so only the position decides.
SkipToPrev ==
    /\ Command("prev")
    /\ \/ /\ pos > 1
          /\ pos' = pos - 1
          /\ QueueOrStart(pos - 1)
          /\ UNCHANGED <<playingTrack, queueVars, native, crashed, main>>
       \/ pos = 1 /\ Seek

SeekBar == Command("seek") /\ Seek

\* Mutant: the writer is not interrupted.
InterruptForgotten == wt' = wt

\* writerThread?.interrupt(): a finished thread ignores it.
Interrupt ==
    wt' = IF writerThread # None /\ wt[writerThread].pc # "done"
          THEN [wt EXCEPT ![writerThread].intr = TRUE]
          ELSE wt

Pause ==
    /\ Command("pause")
    /\ state = PLAYING
    /\ state' = PAUSED
    /\ Interrupt
    /\ UNCHANGED <<reader, writer, writerThread, started, silent, listVars,
                   robj, rt, queueVars, native, crashed, main>>

\* Player.stop(), on the main thread or on a reader thread at the end of the
\* playlist: the assignment of the state...
stop ==
    /\ state # STOPPED
    /\ state' = STOPPED
    /\ UNCHANGED <<reader, writer, writerThread, started, silent>>

\* ...and the rest.  The emulator is torn down under whoever is using it, or
\* not at all if a reader thread has cleared the reader meanwhile.
StopReader ==
    /\ native' = IF reader # None /\ robj[reader].backend
                 THEN teardown
                 ELSE native
    /\ reader' = None
    /\ Interrupt
    /\ UNCHANGED <<state, writer, writerThread, started, silent>>

Stop ==
    /\ Command("stop")
    /\ stop
    /\ main' = "stop"
    /\ UNCHANGED <<listVars, robj, rt, wt, queueVars, native, crashed>>

StopReturns ==
    /\ main = "stop" /\ ~crashed
    /\ StopReader
    /\ main' = "idle"
    /\ UNCHANGED <<listVars, robj, rt, queueVars, crashed>>

\* The listener puts the phone away.
Leave ==
    /\ Command("leave")
    /\ main' = "left"
    /\ UNCHANGED <<playerVars, listVars, robj, rt, wt, queueVars, native,
                   crashed>>

-----------------------------------------------------------------------------
(***************************************************************************)
(* The reader thread of session s.                                         *)
(***************************************************************************)
Obj(s) == robj[rt[s].obj]
At(s, pc) == rt[s].pc = pc /\ ~crashed
Goto(s, pc) == rt' = [rt EXCEPT ![s].pc = pc]

\* Player.kt:86: there may be a Reader already.
ReaderNew(s) ==
    /\ At(s, "new")
    /\ Goto(s, IF state = STOPPED \/ reader = None THEN "make" ELSE "enter")
    /\ UNCHANGED <<playerVars, listVars, robj, wt, queueVars, native, crashed,
                   main>>

\* Otherwise it is created and published, whatever reader there is by now.
ReaderMake(s) ==
    /\ At(s, "make")
    /\ reader' = s
    /\ Goto(s, "enter")
    /\ UNCHANGED <<state, writer, writerThread, started, silent, listVars,
                   robj, wt, queueVars, native, crashed, main>>

\* What a reader thread does when loop() has returned: see ReaderForget.
AfterLoop == IF state = STOPPED THEN "forget" ELSE "done"

\* reader?.loop(), on the Reader the player has by now, if any.
ReaderEnter(s) ==
    /\ At(s, "enter")
    /\ \/ reader = None /\ Goto(s, AfterLoop)
       \/ /\ reader # None
          /\ rt' = [rt EXCEPT ![s].pc = "top", ![s].obj = reader]
    /\ UNCHANGED <<playerVars, listVars, robj, wt, queueVars, native, crashed,
                   main>>

\* Where the loop goes on when no track is queued.
Unqueued(s) == IF Obj(s).seek THEN "seek" ELSE "over"

\* The loop condition and the queued track.  A track the repository does not
\* know is announced but not loaded; nor is the first one of a resumed Reader.
ReaderTop(s) ==
    /\ At(s, "top")
    /\ LET t == Obj(s).queued
       IN  \/ /\ state # PLAYING
              /\ Goto(s, "exit")
              /\ UNCHANGED robj
           \/ /\ state = PLAYING
              /\ t = NoTrack
              /\ Goto(s, Unqueued(s))
              /\ UNCHANGED robj
           \/ /\ state = PLAYING
              /\ t \in Library
              /\ ~Obj(s).resuming
              /\ rt' = [rt EXCEPT ![s].pc = "reset", ![s].tgt = t]
              /\ UNCHANGED robj
           \/ /\ state = PLAYING
              /\ t \in Library
              /\ Obj(s).resuming
              /\ rt' = [rt EXCEPT ![s].pc = "notify", ![s].tgt = t]
              /\ robj' = [robj EXCEPT ![rt[s].obj].resuming = FALSE]
           \/ /\ state = PLAYING
              /\ t \in Tracks \ Library
              /\ rt' = [rt EXCEPT ![s].pc = "notify", ![s].tgt = t]
              /\ UNCHANGED robj
    /\ UNCHANGED <<playerVars, listVars, wt, queueVars, native, crashed, main>>

(***************************************************************************)
(* resetEmptyBuffers, at a track change and at the end of loop(): while    *)
(* the empty queue has room, take a full buffer or make a new one, and     *)
(* offer it.  If the room is gone by then the buffer is lost and the loop  *)
(* ends.                                                                   *)
(***************************************************************************)
ResetTake(s, here, offering) ==
    /\ At(s, here)
    /\ LET q == Obj(s).pair
       IN  /\ Len(empty[q]) < N
           /\ full' = IF full[q] = << >>
                      THEN full
                      ELSE [full EXCEPT ![q] = Tail(@)]
    /\ rt' = [rt EXCEPT ![s].pc = offering, ![s].held = Cleared]
    /\ UNCHANGED <<playerVars, listVars, robj, wt, empty, native, crashed,
                   main>>

ResetOffer(s, offering, here) ==
    /\ At(s, offering)
    /\ LET q == Obj(s).pair
       IN  /\ Len(empty[q]) < N
           /\ empty' = [empty EXCEPT ![q] = Append(@, rt[s].held)]
    /\ rt' = [rt EXCEPT ![s].pc = here, ![s].held = NoBuffer]
    /\ UNCHANGED <<playerVars, listVars, robj, wt, full, native, crashed,
                   main>>

\* No room at the test, or none left at the offer.
ResetDone(s, here, offering) ==
    /\ At(s, here) \/ At(s, offering)
    /\ Len(empty[Obj(s).pair]) = N

ReaderReset(s) ==
    \/ ResetTake(s, "reset", "resetOffer")
    \/ ResetOffer(s, "resetOffer", "reset")
    \/ /\ ResetDone(s, "reset", "resetOffer")
       /\ rt' = [rt EXCEPT ![s].pc = "teardown", ![s].held = NoBuffer]
       /\ UNCHANGED <<playerVars, listVars, robj, wt, queueVars, native,
                      crashed, main>>

\* backend?.teardown(), then 100 ms of sleep before the load.
ReaderTeardown(s) ==
    /\ At(s, "teardown")
    /\ native' = IF Obj(s).backend
                 THEN teardown
                 ELSE native
    /\ Goto(s, "load")
    /\ UNCHANGED <<playerVars, listVars, robj, wt, queueVars, crashed, main>>

ReaderLoad(s) ==
    /\ At(s, "load")
    /\ robj' = [robj EXCEPT ![rt[s].obj].backend = TRUE]
    /\ native' \in loadFile(rt[s].tgt)
    /\ Goto(s, "notify")
    /\ UNCHANGED <<playerVars, listVars, wt, queueVars, crashed, main>>

\* The end of a track change: field = value, then queuedTrackId = null,
\* whatever was queued meanwhile.
ChangeDone(s) ==
    /\ robj' = [robj EXCEPT ![rt[s].obj].cur = rt[s].tgt,
                            ![rt[s].obj].queued = NoTrack]
    /\ rt' = [rt EXCEPT ![s].pc = Unqueued(s), ![s].tgt = NoTrack,
                        ![s].clr = None, ![s].held = NoBuffer]

\* Mutant: the track is announced, the buffers are not cleared.
ReaderNotifyOnly(s) ==
    /\ At(s, "notify")
    /\ playingTrack' = rt[s].tgt
    /\ ChangeDone(s)
    /\ UNCHANGED <<playerVars, pos, wt, queueVars, native, crashed, main>>

\* Player.onTrackChange: announce the track, clear the buffers of the Writer
\* the player holds at that moment.
ReaderNotify(s) ==
    /\ At(s, "notify")
    /\ playingTrack' = rt[s].tgt
    /\ \/ writer = None /\ ChangeDone(s)
       \/ /\ writer # None
          /\ rt' = [rt EXCEPT ![s].pc = "clear", ![s].clr = writer]
          /\ UNCHANGED robj
    /\ UNCHANGED <<playerVars, pos, wt, queueVars, native, crashed, main>>

\* Writer.clearBuffers, run here by the reader thread on Writer rt[s].clr.
ReaderClear(s) ==
    /\ At(s, "clear")
    /\ LET q == wt[rt[s].clr].pair
       IN  \/ /\ full[q] # << >>
              /\ full' = [full EXCEPT ![q] = Tail(@)]
              /\ rt' = [rt EXCEPT ![s].pc = "clearAdd", ![s].held = Cleared]
              /\ UNCHANGED robj
           \/ full[q] = << >> /\ ChangeDone(s) /\ UNCHANGED full
    /\ UNCHANGED <<playerVars, listVars, wt, empty, native, crashed, main>>

\* emptyBuffers.add throws when there is no room: the buffer is lost, the
\* full queue is emptied and the loop ends.
ReaderClearAdd(s) ==
    /\ At(s, "clearAdd")
    /\ LET q == wt[rt[s].clr].pair
       IN  \/ /\ Len(empty[q]) < N
              /\ empty' = [empty EXCEPT ![q] = Append(@, rt[s].held)]
              /\ rt' = [rt EXCEPT ![s].pc = "clear", ![s].held = NoBuffer]
              /\ UNCHANGED <<full, robj>>
           \/ /\ Len(empty[q]) = N
              /\ full' = [full EXCEPT ![q] = << >>]
              /\ ChangeDone(s)
              /\ UNCHANGED empty
    /\ UNCHANGED <<playerVars, listVars, wt, native, crashed, main>>

\* A queued seek moves the emulator and asks the player's Writer to drop
\* what it has; with no emulator loaded only the latter.
ReaderSeek(s) ==
    /\ At(s, "seek")
    /\ IF Obj(s).backend THEN native' \in seek ELSE UNCHANGED native
    /\ wt' = IF writer = None
             THEN wt
             ELSE [wt EXCEPT ![writer].seeking = TRUE]
    /\ Goto(s, "seekDone")
    /\ UNCHANGED <<playerVars, listVars, robj, queueVars, crashed, main>>

\* queuedSeekPosition = null, whatever was queued meanwhile.
ReaderSeekDone(s) ==
    /\ At(s, "seekDone")
    /\ robj' = [robj EXCEPT ![rt[s].obj].seek = FALSE]
    /\ Goto(s, "over")
    /\ UNCHANGED <<playerVars, listVars, wt, queueVars, native, crashed, main>>

\* isTrackOver: false of the GME backend when it has no emulator.
IsTrackOver == native.track # NoTrack /\ native.left = 0

\* At the end of a track the reader comes back later, until the writer has
\* taken the last full buffer.
ReaderOver(s) ==
    /\ At(s, "over")
    /\ LET over == ~Obj(s).backend \/ IsTrackOver
           drained == full[Obj(s).pair] = << >>
       IN  Goto(s, IF ~over THEN "poll"
                   ELSE IF drained THEN "ended" ELSE "top")
    /\ UNCHANGED <<playerVars, listVars, robj, wt, queueVars, native, crashed,
                   main>>

\* Then it stops the player, unless there is a next track.
ReaderEnded(s) ==
    /\ At(s, "ended")
    /\ \/ HasNext /\ Goto(s, "next") /\ UNCHANGED playerVars
       \/ ~HasNext /\ stop /\ Goto(s, "stop")
       \/ /\ ~HasNext /\ state = STOPPED
          /\ Goto(s, "exit")
          /\ UNCHANGED playerVars
    /\ UNCHANGED <<listVars, robj, wt, queueVars, native, crashed, main>>

\* getNextTrack, from where the list is by now.
ReaderNext(s) ==
    /\ At(s, "next")
    /\ pos' = IF HasNext THEN NextPos ELSE pos
    /\ rt' = [rt EXCEPT ![s].pc = "queue",
                        ![s].tgt = IF HasNext THEN NextPos ELSE NoTrack]
    /\ UNCHANGED <<playerVars, playingTrack, robj, wt, queueVars, native,
                   crashed, main>>

\* The next track is queued, whatever was queued meanwhile, and one more
\* buffer of the finished one is read.
ReaderQueue(s) ==
    /\ At(s, "queue")
    /\ robj' = [robj EXCEPT ![rt[s].obj].queued = rt[s].tgt]
    /\ rt' = [rt EXCEPT ![s].pc = "poll", ![s].tgt = NoTrack]
    /\ UNCHANGED <<playerVars, listVars, wt, queueVars, native, crashed, main>>

\* onPlaylistFinished: the rest of stop(), and the loop is left.
ReaderStops(s) ==
    /\ At(s, "stop")
    /\ StopReader
    /\ Goto(s, "exit")
    /\ UNCHANGED <<listVars, robj, queueVars, crashed, main>>

\* synchronized(playingTrackId): one thread per track identifier.
InMonitor(track) ==
    \E r \in Sessions : rt[r].pc = "stamp" /\ rt[r].tgt = track

\* readNextSamples: every call of the GME backend sets its last error.
ReadNextSamples(o) ==
    IF ~robj[o].backend
    THEN native
    ELSE IF native.track = NoTrack
         THEN [native EXCEPT !.err = TRUE]
         ELSE [native EXCEPT !.err = FALSE,
                             !.left = IF @ > 0 THEN @ - 1 ELSE 0]

\* emptyBuffers.poll(10 s), and the read of the next samples into the buffer
\* it returns.  Without a current track the buffer is dropped.
ReaderPoll(s) ==
    /\ At(s, "poll")
    /\ LET q == Obj(s).pair
       IN  \/ /\ empty[q] # << >>
              /\ Obj(s).cur # NoTrack
              /\ ~InMonitor(Obj(s).cur)
              /\ empty' = [empty EXCEPT ![q] = Tail(@)]
              /\ native' = ReadNextSamples(rt[s].obj)
              /\ rt' = [rt EXCEPT
                          ![s].pc = "stamp",
                          ![s].tgt = Obj(s).cur,
                          ![s].held = [Head(empty[q])
                                         EXCEPT !.trk = native.track]]
           \/ /\ empty[q] # << >>
              /\ Obj(s).cur = NoTrack
              /\ empty' = [empty EXCEPT ![q] = Tail(@)]
              /\ Goto(s, "exit")
              /\ UNCHANGED native
           \/ /\ empty[q] = << >>
              /\ Goto(s, "exit")
              /\ UNCHANGED <<empty, native>>
    /\ UNCHANGED <<playerVars, listVars, robj, wt, full, crashed, main>>

\* backend?.getMillisPlayed() ?: -2L
MillisPlayed(o) ==
    IF ~robj[o].backend THEN -2 ELSE IF native.track = NoTrack THEN -1 ELSE 0

\* Mutant: the backend's error is not looked at.
ReaderStampIgnoresError(s) ==
    /\ At(s, "stamp")
    /\ LET keep == state = PLAYING /\ (native.vgm => ~IsTrackOver)
       IN  rt' = [rt EXCEPT
                    ![s].pc = IF keep THEN "put" ELSE "top",
                    ![s].tgt = NoTrack,
                    ![s].held = IF keep
                                THEN [@ EXCEPT !.ts = MillisPlayed(rt[s].obj)]
                                ELSE NoBuffer]
    /\ UNCHANGED <<playerVars, listVars, robj, wt, queueVars, native, crashed,
                   main>>

\* The timestamp, which ends the monitor; then getLastError, the check of the
\* state made before the put, and the VGM workaround.  A buffer that is not
\* put is dropped.
ReaderStamp(s) ==
    /\ At(s, "stamp")
    /\ LET failed == Obj(s).backend /\ native.err
           keep == ~failed /\ state = PLAYING /\ (native.vgm => ~IsTrackOver)
       IN  rt' = [rt EXCEPT
                    ![s].pc = IF failed THEN "exit"
                              ELSE IF keep THEN "put" ELSE "top",
                    ![s].tgt = NoTrack,
                    ![s].held = IF keep
                                THEN [@ EXCEPT !.ts = MillisPlayed(rt[s].obj)]
                                ELSE NoBuffer]
    /\ UNCHANGED <<playerVars, listVars, robj, wt, queueVars, native, crashed,
                   main>>

\* Mutant: an unbounded full queue.
ReaderPutUnbounded(s) ==
    /\ At(s, "put")
    /\ full' = [full EXCEPT ![Obj(s).pair] = Append(@, rt[s].held)]
    /\ rt' = [rt EXCEPT ![s].pc = "top", ![s].held = NoBuffer]
    /\ UNCHANGED <<playerVars, listVars, robj, wt, empty, native, crashed,
                   main>>

\* fullBuffers.put: blocks while the queue is full, and nothing interrupts it.
ReaderPut(s) ==
    /\ At(s, "put")
    /\ LET q == Obj(s).pair
       IN  /\ Len(full[q]) < N
           /\ full' = [full EXCEPT ![q] = Append(@, rt[s].held)]
    /\ rt' = [rt EXCEPT ![s].pc = "top", ![s].held = NoBuffer]
    /\ UNCHANGED <<playerVars, listVars, robj, wt, empty, native, crashed,
                   main>>

\* After the loop: reset the buffers.
ReaderExit(s) ==
    \/ ResetTake(s, "exit", "exitOffer")
    \/ ResetOffer(s, "exitOffer", "exit")
    \/ /\ ResetDone(s, "exit", "exitOffer")
       /\ rt' = [rt EXCEPT ![s].pc = AfterLoop, ![s].obj = None,
                           ![s].held = NoBuffer]
       /\ UNCHANGED <<playerVars, listVars, robj, wt, queueVars, native,
                      crashed, main>>

\* The player was stopped when it was asked: reader = null, whichever it is
\* by now.
ReaderForget(s) ==
    /\ At(s, "forget")
    /\ reader' = None
    /\ Goto(s, "done")
    /\ UNCHANGED <<state, writer, writerThread, started, silent, listVars,
                   robj, wt, queueVars, native, crashed, main>>

ReaderStep(s) ==
    \/ ReaderNew(s)
    \/ ReaderMake(s)
    \/ ReaderEnter(s)
    \/ ReaderTop(s)
    \/ ReaderReset(s)
    \/ ReaderTeardown(s)
    \/ ReaderLoad(s)
    \/ ReaderNotify(s)
    \/ ReaderClear(s)
    \/ ReaderClearAdd(s)
    \/ ReaderSeek(s)
    \/ ReaderSeekDone(s)
    \/ ReaderOver(s)
    \/ ReaderEnded(s)
    \/ ReaderNext(s)
    \/ ReaderQueue(s)
    \/ ReaderStops(s)
    \/ ReaderPoll(s)
    \/ ReaderStamp(s)
    \/ ReaderPut(s)
    \/ ReaderExit(s)
    \/ ReaderForget(s)

-----------------------------------------------------------------------------
(***************************************************************************)
(* The writer thread of session s.                                         *)
(***************************************************************************)
WAt(s, pc) == wt[s].pc = pc /\ ~crashed
WGoto(s, pc) == wt' = [wt EXCEPT ![s].pc = pc]

\* The queue pair and the seek flag of the Writer that thread s loops on.
WPair(s) == wt[wt[s].obj].pair
Seeking(s) == wt[wt[s].obj].seeking

\* Mutant: the timestamp of a played buffer is left in it.
PlayNextKeepsStamp(s) ==
    LET q == WPair(s)
    IN  /\ full[q] # << >>
        /\ full' = [full EXCEPT ![q] = Tail(@)]
        /\ IF Head(full[q]).ts < 0
           THEN crashed' = TRUE /\ UNCHANGED wt
           ELSE /\ wt' = [wt EXCEPT ![s].pc = "played",
                                    ![s].held = Head(full[q])]
                /\ UNCHANGED crashed

\* A buffer is taken and played.  A negative timestamp is thrown as a
\* RuntimeException that nobody catches.
PlayNext(s) ==
    LET q == WPair(s)
    IN  /\ full[q] # << >>
        /\ full' = [full EXCEPT ![q] = Tail(@)]
        /\ IF Head(full[q]).ts < 0
           THEN crashed' = TRUE /\ UNCHANGED wt
           ELSE /\ wt' = [wt EXCEPT ![s].pc = "played",
                                    ![s].held = Cleared]
                /\ UNCHANGED crashed

\* Player.kt:107-111: the Writer is made, and published, on its own thread.
WriterNew(s) ==
    /\ WAt(s, "new")
    /\ writer' = s
    /\ WGoto(s, "enter")
    /\ UNCHANGED <<state, reader, writerThread, started, silent, listVars,
                   robj, rt, queueVars, native, crashed, main>>

\* writer?.loop(), on the Writer the player has by now, if any.
WriterEnter(s) ==
    /\ WAt(s, "enter")
    /\ \/ writer = None /\ WGoto(s, "forget")
       \/ /\ writer # None
          /\ wt' = [wt EXCEPT ![s].pc = "top", ![s].obj = writer]
    /\ UNCHANGED <<playerVars, listVars, robj, rt, queueVars, native, crashed,
                   main>>

\* The loop condition and fullBuffers.poll(), which does not block.
WriterTop(s) ==
    /\ WAt(s, "top")
    /\ \/ state # PLAYING /\ WGoto(s, "exit") /\ UNCHANGED <<full, crashed>>
       \/ state = PLAYING /\ PlayNext(s)
       \/ /\ state = PLAYING
          /\ full[WPair(s)] = << >>
          /\ WGoto(s, "wait")
          /\ UNCHANGED <<full, crashed>>
    /\ UNCHANGED <<playerVars, listVars, robj, rt, empty, native, main>>

\* fullBuffers.poll(10 s) after an underrun: a buffer, an interrupt, or the
\* timeout.
WriterWait(s) ==
    /\ WAt(s, "wait")
    /\ \/ /\ wt[s].intr
          /\ wt' = [wt EXCEPT ![s].pc = "exit", ![s].intr = FALSE]
          /\ UNCHANGED <<full, crashed>>
       \/ ~wt[s].intr /\ PlayNext(s)
       \/ /\ ~wt[s].intr
          /\ full[WPair(s)] = << >>
          /\ WGoto(s, "timeout")
          /\ UNCHANGED <<full, crashed>>
    /\ UNCHANGED <<playerVars, listVars, robj, rt, empty, native, main>>

\* The timeout sets the player's state, whatever it is by now.
WriterTimesOut(s) ==
    /\ WAt(s, "timeout")
    /\ state' = ERROR
    /\ WGoto(s, "exit")
    /\ UNCHANGED <<reader, writer, writerThread, started, silent, listVars,
                   robj, rt, queueVars, native, crashed, main>>

\* Once the buffer is written: has there been a seek meanwhile?
WriterPlayed(s) ==
    /\ WAt(s, "played")
    /\ WGoto(s, IF Seeking(s) THEN "seekClear" ELSE "put")
    /\ UNCHANGED <<playerVars, listVars, robj, rt, queueVars, native, crashed,
                   main>>

(***************************************************************************)
(* clearBuffers on the writer's own thread, after a seek and at the end of *)
(* loop(): the same loop as ReaderClear.                                   *)
(***************************************************************************)
ClearTake(s, here, adding) ==
    /\ WAt(s, here)
    /\ LET q == WPair(s)
       IN  full[q] # << >> /\ full' = [full EXCEPT ![q] = Tail(@)]
    /\ wt' = [wt EXCEPT ![s].pc = adding, ![s].clr = Cleared]
    /\ UNCHANGED <<playerVars, listVars, robj, rt, empty, native, crashed,
                   main>>

ClearAdd(s, adding, here) ==
    /\ WAt(s, adding)
    /\ LET q == WPair(s)
       IN  /\ Len(empty[q]) < N
           /\ empty' = [empty EXCEPT ![q] = Append(@, wt[s].clr)]
    /\ wt' = [wt EXCEPT ![s].pc = here, ![s].clr = NoBuffer]
    /\ UNCHANGED <<playerVars, listVars, robj, rt, full, native, crashed,
                   main>>

\* Nothing left to clear, or no room for what was taken.
ClearDone(s, here, adding) ==
    LET q == WPair(s)
    IN  /\ \/ WAt(s, here) /\ full[q] = << >>
           \/ WAt(s, adding) /\ Len(empty[q]) = N
        /\ full' = [full EXCEPT ![q] = << >>]

\* After a seek the flag is cleared and the buffer in hand is handed back.
WriterSeekClear(s) ==
    \/ ClearTake(s, "seekClear", "seekClearAdd")
    \/ ClearAdd(s, "seekClearAdd", "seekClear")
    \/ /\ ClearDone(s, "seekClear", "seekClearAdd")
       /\ wt' = [wt EXCEPT ![s].pc = "put", ![s].clr = NoBuffer,
                           ![wt[s].obj].seeking = FALSE]
       /\ UNCHANGED <<playerVars, listVars, robj, rt, empty, native, crashed,
                      main>>

\* Mutant: the played buffer is not handed back.
WriterPutForgets(s) ==
    /\ WAt(s, "put")
    /\ wt' = [wt EXCEPT ![s].pc = IF wt[s].intr THEN "exit" ELSE "top",
                        ![s].intr = FALSE, ![s].held = NoBuffer]
    /\ UNCHANGED <<playerVars, listVars, robj, rt, queueVars, native, crashed,
                   main>>

\* emptyBuffers.put throws if the thread is interrupted, and then the buffer
\* in hand is lost; otherwise it blocks while the queue is full.
WriterPut(s) ==
    /\ WAt(s, "put")
    /\ \/ /\ wt[s].intr
          /\ wt' = [wt EXCEPT ![s].pc = "exit", ![s].intr = FALSE,
                              ![s].held = NoBuffer]
          /\ UNCHANGED empty
       \/ /\ ~wt[s].intr
          /\ LET q == WPair(s)
             IN  /\ Len(empty[q]) < N
                 /\ empty' = [empty EXCEPT ![q] = Append(@, wt[s].held)]
          /\ wt' = [wt EXCEPT ![s].pc = "top", ![s].held = NoBuffer]
    /\ UNCHANGED <<playerVars, listVars, robj, rt, full, native, crashed,
                   main>>

\* writer = null, even if a later session has published its own.
Forget(s) ==
    /\ writer' = None
    /\ wt' = [wt EXCEPT ![s].pc = "done", ![s].obj = None, ![s].clr = NoBuffer,
                        ![s].intr = FALSE]
    /\ UNCHANGED <<state, reader, writerThread, started, silent, listVars,
                   robj, rt, empty, native, crashed, main>>

\* After the loop: clear the buffers, and forget the Writer.
WriterExit(s) ==
    \/ ClearTake(s, "exit", "exitAdd")
    \/ ClearAdd(s, "exitAdd", "exit")
    \/ ClearDone(s, "exit", "exitAdd") /\ Forget(s)

\* There was no Writer to loop on.
WriterForget(s) == WAt(s, "forget") /\ Forget(s) /\ UNCHANGED full

WriterStep(s) ==
    \/ WriterNew(s)
    \/ WriterEnter(s)
    \/ WriterTop(s)
    \/ WriterWait(s)
    \/ WriterTimesOut(s)
    \/ WriterPlayed(s)
    \/ WriterSeekClear(s)
    \/ WriterPut(s)
    \/ WriterExit(s)
    \/ WriterForget(s)

-----------------------------------------------------------------------------
Next ==
    \/ Start
    \/ \E p \in Tracks : Play(p)
    \/ SkipToNext
    \/ SkipToPrev
    \/ SeekBar
    \/ Pause
    \/ Stop
    \/ StopReturns
    \/ Leave
    \/ \E s \in Sessions : ReaderStep(s)
    \/ \E s \in Sessions : WriterStep(s)

\* The threads are scheduled; the listener owes no command.
Fairness ==
    /\ WF_vars(StopReturns)
    /\ \A s \in Sessions : WF_vars(ReaderStep(s)) /\ WF_vars(WriterStep(s))

Spec == Init /\ [][Next]_vars /\ Fairness

-----------------------------------------------------------------------------
(***************************************************************************)
(* Every buffer in an empty queue has had its timestamp cleared, on every  *)
(* path that returns one: Reader.kt:108 never logs "Timestamp not cleared".*)
(***************************************************************************)
EmptyBuffersCleared ==
    \A q \in Sessions : \A i \in 1..Len(empty[q]) : empty[q][i].ts = -1

(***************************************************************************)
(* The writer never meets a buffer whose timestamp is negative             *)
(* (Writer.kt:82 throws "Invalid timestamp").                              *)
(***************************************************************************)
TimestampsValid == ~crashed

OneSession == started <= 1 /\ ~silent

InLoop(s) ==
    rt[s].pc \in {"top", "seek", "seekDone", "over", "ended", "next", "queue",
                  "poll", "stamp", "put"}

(***************************************************************************)
(* Once a track change is complete, everything in the full queue comes     *)
(* from the emulator that is loaded now: resetEmptyBuffers and             *)
(* clearBuffers have removed the audio of the track before, whichever of   *)
(* the two threads ran them and whatever the other did meanwhile.          *)
(***************************************************************************)
QueuedAudioIsCurrent ==
    \A s \in Sessions : OneSession /\ state = PLAYING /\ InLoop(s) =>
        \A i \in 1..Len(full[Obj(s).pair]) :
            full[Obj(s).pair][i].trk = native.track

(***************************************************************************)
(* The buffers in circulation on a queue pair, in the queues and in the    *)
(* hands of the threads.  resetEmptyBuffers replaces a buffer the writer   *)
(* holds, so there can be more than the queue's capacity.                  *)
(***************************************************************************)
Pool(q) ==
    LET readers == {s \in Sessions : rt[s].held # NoBuffer
                        /\ q = IF rt[s].pc = "clearAdd"
                               THEN wt[rt[s].clr].pair ELSE Obj(s).pair}
        writers == {s \in Sessions : wt[s].held # NoBuffer /\ WPair(s) = q}
        clears == {s \in Sessions : wt[s].clr # NoBuffer /\ WPair(s) = q}
    IN  Len(empty[q]) + Len(full[q]) + Cardinality(readers)
            + Cardinality(writers) + Cardinality(clears)

(***************************************************************************)
(* Once a first track has loaded, a reader that waits for an empty buffer  *)
(* has one to wait for, when no track is a VGM file: whoever takes a       *)
(* buffer hands it back, or resetEmptyBuffers replaces it.  (Every skip    *)
(* that leads back to a finished VGM track drops one buffer more.)         *)
(***************************************************************************)
BuffersCirculate ==
    \A s \in Sessions :
        OneSession /\ state = PLAYING /\ rt[s].pc = "poll" /\ Obj(s).backend
            => Pool(Obj(s).pair) > 0

ThreadsGone ==
    \A s \in Sessions :
        rt[s].pc \in {"unborn", "done"} /\ wt[s].pc \in {"unborn", "done"}

(***************************************************************************)
(* Once the player has been paused or stopped, or has failed, and nobody   *)
(* starts it again, all its threads come to their end.                     *)
(***************************************************************************)
ThreadsEnd ==
    (main = "left" /\ state # PLAYING /\ ~silent) ~> (ThreadsGone \/ crashed)

(***************************************************************************)
(* Left alone, playback without repeat comes to an end.                    *)
(***************************************************************************)
PlaybackEnds ==
    (main = "left" /\ state = PLAYING /\ ~silent)
        ~> (state # PLAYING \/ crashed)

-----------------------------------------------------------------------------
(***************************************************************************)
(* At the end of a track the reader waits because "Writer still outputting *)
(* finished track." (Reader.kt:89): the writer does output it.  The code   *)
(* does not keep this.                                                     *)
(***************************************************************************)
DrainCompletes ==
    \A q \in Sessions :
        (/\ main = "left" /\ ~silent
         /\ \E s \in Sessions : /\ rt[s].pc = "over" /\ Obj(s).pair = q
                                /\ IsTrackOver /\ full[q] # << >>)
            ~> (full[q] = << >> \/ state # PLAYING \/ crashed)
=============================================================================
