---------------------------- MODULE PlaybackProofs ----------------------------
(***************************************************************************)
(* What is proved of Playback, for every number of sessions and buffers,   *)
(* every play queue, every set of commands and any choice of unknown and   *)
(* unplayable tracks.                                                      *)
(*                                                                         *)
(* The threads of a session share nothing but queues of buffers and a few  *)
(* fields of their Reader, so the invariant is one predicate per thread    *)
(* and per Reader, and a step of a thread has only its own to reprove.     *)
(* Sound is inductive by itself.  One adds what holds while there has been *)
(* one start(): from the second on, two readers share the one native       *)
(* emulator, and the theorems about one session are false.                 *)
(***************************************************************************)
EXTENDS Playback, FiniteSetTheorems, SequenceTheorems, TLAPS

-----------------------------------------------------------------------------
(***************************************************************************)
(* The invariant of any number of sessions.                                *)
(***************************************************************************)

\* The types of the records, as TypeOK gives them.
ReaderT == [pc : ReaderPcs, obj : Sessions \cup {None},
            tgt : Tracks \cup {NoTrack}, held : Buffers \cup {NoBuffer},
            clr : Sessions \cup {None}]
WriterT == [pc : WriterPcs, obj : Sessions \cup {None},
            pair : Sessions \cup {None}, held : Buffers \cup {NoBuffer},
            clr : Buffers \cup {NoBuffer}, intr : BOOLEAN, seeking : BOOLEAN]
ObjectT == [queued : Tracks \cup {NoTrack}, cur : Tracks \cup {NoTrack},
            resuming : BOOLEAN, backend : BOOLEAN, seek : BOOLEAN,
            pair : Sessions \cup {None}]
NativeT == [track : Tracks \cup {NoTrack}, left : 0..TrackLen,
            err : BOOLEAN, vgm : BOOLEAN]

\* Where a thread uses the Reader or the Writer it found in the player.
ReaderLoop == ReaderPcs \ {"unborn", "new", "make", "enter", "forget", "done"}
WriterLoop == WriterPcs \ {"unborn", "new", "enter", "forget", "done"}

\* Reader thread x, as r, after k starts: what it refers to was made by one of
\* them, and a buffer it is about to hand back to the pool has been cleared.
ReaderOK(r, x, k) ==
    /\ r \in ReaderT
    /\ r.pc = "unborn" <=> x > k
    /\ r.obj \in 0..k /\ r.clr \in 0..k
    /\ r.pc \in ReaderLoop => r.obj # None
    /\ r.pc \in {"clear", "clearAdd"} => r.clr # None
    /\ r.pc \in {"resetOffer", "exitOffer", "clearAdd"} => r.held = Cleared
    /\ r.pc \in {"stamp", "put"} => r.held \in Buffers

\* The same of writer thread x, as w, which has a queue pair once it is born.
WriterOK(w, x, k) ==
    /\ w \in WriterT
    /\ w.pc = "unborn" <=> x > k
    /\ w.obj \in 0..k
    /\ w.pc \in WriterLoop => w.obj # None
    /\ x <= k => w.pair \in 1..k
    /\ w.intr => x <= k
    /\ w.pc \in {"played", "seekClear", "seekClearAdd", "put"} =>
          w.held = Cleared
    /\ w.pc \in {"seekClearAdd", "exitAdd"} => w.clr = Cleared

\* The Reader of session x has a queue pair once the session is started.
ObjectOK(o, x, k) ==
    /\ o \in ObjectT
    /\ x <= k => o.pair \in 1..k

Readers(f, k) ==
    f \in [Sessions -> ReaderT] /\ \A x \in Sessions : ReaderOK(f[x], x, k)
Writers(f, k) ==
    f \in [Sessions -> WriterT] /\ \A x \in Sessions : WriterOK(f[x], x, k)
Objects(f, k) ==
    f \in [Sessions -> ObjectT] /\ \A x \in Sessions : ObjectOK(f[x], x, k)

\* An ArrayBlockingQueue within its capacity, and one of cleared buffers.
Queue(q) == q \in Seq(Buffers) /\ Len(q) <= N
ClearedQueue(q) == Queue(q) /\ \A i \in 1..Len(q) : q[i].ts = -1

Queues ==
    /\ empty \in [Sessions -> Seq(Buffers)]
    /\ full \in [Sessions -> Seq(Buffers)]
    /\ \A q \in Sessions : ClearedQueue(empty[q]) /\ Queue(full[q])

\* The fields of the player and the emulator.
Shared ==
    /\ state \in {STOPPED, PLAYING, PAUSED, ERROR}
    /\ started \in 0..MaxStarts
    /\ {reader, writer, writerThread} \subseteq 0..started
    /\ silent \in BOOLEAN
    /\ pos \in Tracks
    /\ playingTrack \in Tracks \cup {NoTrack}
    /\ native \in NativeT
    /\ crashed \in BOOLEAN
    /\ main \in {"idle", "stop", "left"}

Sound ==
    /\ Shared
    /\ Readers(rt, started)
    /\ Writers(wt, started)
    /\ Objects(robj, started)
    /\ Queues

-----------------------------------------------------------------------------
(***************************************************************************)
(* What holds besides while there has been one start(), about the threads, *)
(* the Reader and the queues of the first session.                         *)
(***************************************************************************)
Reader1 == rt[1]
Writer1 == wt[1]
Object1 == robj[1]
Empty1 == empty[1]
Full1 == full[1]

From(q, track) == \A i \in 1..Len(q) : q[i].trk = track
Timely(q) == \A i \in 1..Len(q) : q[i].ts = 0

\* Where the pool may be filled before the first load, or after the loop.
Filling == {"reset", "resetOffer", "teardown", "load",
            "exit", "exitOffer", "forget", "done"}
\* Where the reader is between two changes of track.
Looping == {"top", "seek", "seekDone", "over", "ended", "next", "queue", "poll",
            "stamp", "put"}
\* Where it works on a change of track.
Changing == {"reset", "resetOffer", "teardown", "load", "notify", "clear",
             "clearAdd"}

\* A change of track has a track, and a Reader with a current track has
\* announced one.
OneAnnounced ==
    /\ Reader1.pc \in Changing => Reader1.tgt # NoTrack
    /\ Reader1.pc \in {"clear", "clearAdd"} => playingTrack # NoTrack
    /\ Object1.cur # NoTrack => playingTrack # NoTrack

\* Nothing circulates before a backend is loaded, a reader with a buffer in
\* hand has a backend and a track, and what it puts has a valid timestamp.
OneSound ==
    /\ ~crashed
    /\ main = "stop" => state # PLAYING
    /\ Reader1.pc \in {"unborn", "new", "make", "enter"} => ~Object1.backend
    /\ ~Object1.backend =>
          /\ Full1 = << >>
          /\ Reader1.pc \notin Filling => Empty1 = << >>
          /\ Reader1.pc # "clearAdd"
          /\ Writer1.pc \notin {"played", "seekClear", "seekClearAdd", "put",
                                "exitAdd"}
    /\ Reader1.pc \in {"stamp", "put"} =>
          Object1.cur # NoTrack /\ Object1.backend
    /\ Reader1.pc = "stamp" /\ state = PLAYING /\ native.track = NoTrack =>
          native.err
    /\ Reader1.pc = "put" => Reader1.held.ts = 0
    /\ Timely(Full1)

\* The buffer the reader has in hand.
Hand ==
    IF Reader1.pc \in {"resetOffer", "exitOffer", "stamp", "put"} THEN 1 ELSE 0

\* While the player plays with no silent restart, the writer is not on its way
\* out, and a reader between two tracks leaves nothing of the old one queued.
\* It finds a Writer to clear the queue with, or there has been none yet: then
\* the buffers are all in the pool and the reader's hand, so that filling the
\* pool up empties the full queue.
OneCurrent ==
    ~silent /\ state = PLAYING =>
        /\ Writer1.pc \notin {"exit", "exitAdd", "forget", "done"}
        /\ ~Writer1.intr
        /\ Reader1.pc # "stop"
        /\ Writer1.pc \notin {"unborn", "new"} => writer # None
        /\ Reader1.pc \in {"clear", "clearAdd"} => writer # None
        /\ writer = None => Len(Empty1) + Len(Full1) + Hand <= N
        /\ Reader1.pc \in {"teardown", "load"} /\ writer = None => Full1 = << >>
        /\ Reader1.pc = "notify" /\ writer = None => From(Full1, native.track)
        /\ Reader1.pc \in Looping => From(Full1, native.track)
        /\ Reader1.pc \in {"stamp", "put"} => Reader1.held.trk = native.track

One == started <= 1 => OneAnnounced /\ OneSound /\ OneCurrent

-----------------------------------------------------------------------------
(***************************************************************************)
(* A step of one thread leaves the others as they were.                    *)
(***************************************************************************)
Only(f, g, s) ==
    /\ g = [x \in Sessions |-> g[x]]
    /\ \A x \in Sessions \ {s} : g[x] = f[x]

LEMMA ReaderFrame ==
    ASSUME NEW k \in Nat, NEW f, NEW g, Readers(f, k), NEW s \in Sessions,
           Only(f, g, s), ReaderOK(g[s], s, k)
    PROVE  Readers(g, k)
  <1>1. \A x \in Sessions : ReaderOK(g[x], x, k)  BY DEF Only, Readers
  <1>2. \A x \in Sessions : g[x] \in ReaderT  BY <1>1 DEF ReaderOK
  <1> QED BY <1>1, <1>2 DEF Only, Readers

LEMMA WriterFrame ==
    ASSUME NEW k \in Nat, NEW f, NEW g, Writers(f, k), NEW s \in Sessions,
           Only(f, g, s), WriterOK(g[s], s, k)
    PROVE  Writers(g, k)
  <1>1. \A x \in Sessions : WriterOK(g[x], x, k)  BY DEF Only, Writers
  <1>2. \A x \in Sessions : g[x] \in WriterT  BY <1>1 DEF WriterOK
  <1> QED BY <1>1, <1>2 DEF Only, Writers

LEMMA ObjectFrame ==
    ASSUME NEW k \in Nat, NEW f, NEW g, Objects(f, k), NEW s \in Sessions,
           Only(f, g, s), ObjectOK(g[s], s, k)
    PROVE  Objects(g, k)
  <1>1. \A x \in Sessions : ObjectOK(g[x], x, k)  BY DEF Only, Objects
  <1>2. \A x \in Sessions : g[x] \in ObjectT  BY <1>1 DEF ObjectOK
  <1> QED BY <1>1, <1>2 DEF Only, Objects

LEMMA ReaderStepOnly ==
    ASSUME Readers(rt, started), NEW s \in Sessions, ReaderStep(s)
    PROVE  Only(rt, rt', s)
  <1> USE DEF Readers, Only, Goto
  <1>1. CASE ReaderNew(s)  BY <1>1 DEF ReaderNew
  <1>2. CASE ReaderEnter(s)  BY <1>2 DEF ReaderEnter
  <1>3. CASE ReaderTop(s)  BY <1>3 DEF ReaderTop
  <1>4. CASE ReaderReset(s)
    BY <1>4 DEF ReaderReset, ResetTake, ResetOffer
  <1>5. CASE ReaderTeardown(s)  BY <1>5 DEF ReaderTeardown
  <1>6. CASE ReaderLoad(s)  BY <1>6 DEF ReaderLoad
  <1>7. CASE ReaderNotify(s)  BY <1>7 DEF ReaderNotify, ChangeDone
  <1>8. CASE ReaderClear(s)  BY <1>8 DEF ReaderClear, ChangeDone
  <1>9. CASE ReaderClearAdd(s)  BY <1>9 DEF ReaderClearAdd, ChangeDone
  <1>10. CASE ReaderSeek(s)  BY <1>10 DEF ReaderSeek
  <1>11. CASE ReaderSeekDone(s)  BY <1>11 DEF ReaderSeekDone
  <1>12. CASE ReaderOver(s)  BY <1>12 DEF ReaderOver
  <1>13. CASE ReaderEnded(s)  BY <1>13 DEF ReaderEnded
  <1>14. CASE ReaderPoll(s)  BY <1>14 DEF ReaderPoll
  <1>15. CASE ReaderStamp(s)  BY <1>15 DEF ReaderStamp
  <1>16. CASE ReaderPut(s)  BY <1>16 DEF ReaderPut
  <1>17. CASE ReaderExit(s)
    BY <1>17 DEF ReaderExit, ResetTake, ResetOffer
  <1>18. CASE ReaderForget(s)  BY <1>18 DEF ReaderForget
  <1>19. CASE ReaderMake(s)  BY <1>19 DEF ReaderMake
  <1>20. CASE ReaderNext(s)  BY <1>20 DEF ReaderNext
  <1>21. CASE ReaderQueue(s)  BY <1>21 DEF ReaderQueue
  <1>22. CASE ReaderStops(s)  BY <1>22 DEF ReaderStops
  <1> QED BY <1>1, <1>2, <1>3, <1>4, <1>5, <1>6, <1>7, <1>8, <1>9, <1>10,
             <1>11, <1>12, <1>13, <1>14, <1>15, <1>16, <1>17, <1>18, <1>19,
             <1>20, <1>21, <1>22
          DEF ReaderStep

-----------------------------------------------------------------------------
(***************************************************************************)
(* The queues. A buffer taken from the head, one added at the tail, and the*)
(* two operations on either queue of a pair.                               *)
(***************************************************************************)
LEMMA CutQueue ==
    ASSUME NEW q, Queue(q), q # << >>
    PROVE  Queue(Tail(q)) /\ Head(q) \in Buffers
           /\ Len(Tail(q)) = Len(q) - 1
           /\ \A i \in 1..Len(Tail(q)) : i + 1 \in 1..Len(q)
                /\ Tail(q)[i] = q[i + 1]
BY BoundsAssumption DEF Queue

LEMMA GrownQueue ==
    ASSUME NEW q, Queue(q), Len(q) < N, NEW b \in Buffers
    PROVE  Queue(Append(q, b))
           /\ Len(Append(q, b)) = Len(q) + 1
           /\ \A i \in 1..Len(Append(q, b)) : Append(q, b)[i] = b
                \/ (i \in 1..Len(q) /\ Append(q, b)[i] = q[i])
BY BoundsAssumption DEF Queue

LEMMA NoQueue == ClearedQueue(<< >>)
BY BoundsAssumption DEF ClearedQueue, Queue

LEMMA FullFrame ==
    ASSUME Queues, NEW q \in Sessions, NEW f, Queue(f),
           full' = [full EXCEPT ![q] = f], empty' = empty
    PROVE  Queues'
  <1>1. f \in Seq(Buffers)  BY DEF Queue
  <1>2. full' \in [Sessions -> Seq(Buffers)]  BY <1>1 DEF Queues
  <1>3. \A x \in Sessions : Queue(full'[x])  BY DEF Queues
  <1> QED BY <1>2, <1>3 DEF Queues

LEMMA EmptyFrame ==
    ASSUME Queues, NEW q \in Sessions, NEW e, ClearedQueue(e),
           empty' = [empty EXCEPT ![q] = e], full' = full
    PROVE  Queues'
  <1>1. e \in Seq(Buffers)  BY DEF Queue, ClearedQueue
  <1>2. empty' \in [Sessions -> Seq(Buffers)]  BY <1>1 DEF Queues
  <1>3. \A x \in Sessions : ClearedQueue(empty'[x])  BY DEF Queues
  <1> QED BY <1>2, <1>3 DEF Queues

LEMMA FullTakes ==
    ASSUME Queues, NEW q \in Sessions, full[q] # << >>,
           full' = [full EXCEPT ![q] = Tail(@)], empty' = empty
    PROVE  Queues' /\ full'[q] = Tail(full[q])
  <1>1. full' = [full EXCEPT ![q] = Tail(full[q])]  OBVIOUS
  <1>2. Queue(full[q])  BY DEF Queues
  <1>3. Queue(Tail(full[q]))  BY <1>2, CutQueue
  <1> QED BY <1>1, <1>3, FullFrame DEF Queues

LEMMA FullAdds ==
    ASSUME Queues, NEW q \in Sessions, Len(full[q]) < N, NEW b \in Buffers,
           full' = [full EXCEPT ![q] = Append(@, b)], empty' = empty
    PROVE  Queues' /\ full'[q] = Append(full[q], b)
  <1>1. full' = [full EXCEPT ![q] = Append(full[q], b)]  OBVIOUS
  <1>2. Queue(full[q])  BY DEF Queues
  <1>3. Queue(Append(full[q], b))  BY <1>2, GrownQueue
  <1> QED BY <1>1, <1>3, FullFrame DEF Queues

LEMMA FullClears ==
    ASSUME Queues, NEW q \in Sessions, full' = [full EXCEPT ![q] = << >>],
           empty' = empty
    PROVE  Queues' /\ full'[q] = << >>
BY NoQueue, FullFrame DEF ClearedQueue, Queues

LEMMA EmptyTakes ==
    ASSUME Queues, NEW q \in Sessions, empty[q] # << >>,
           empty' = [empty EXCEPT ![q] = Tail(@)], full' = full
    PROVE  Queues' /\ empty'[q] = Tail(empty[q])
  <1>1. empty' = [empty EXCEPT ![q] = Tail(empty[q])]  OBVIOUS
  <1>2. ClearedQueue(empty[q])  BY DEF Queues
  <1>3. ClearedQueue(Tail(empty[q]))  BY <1>2, CutQueue DEF ClearedQueue
  <1> QED BY <1>1, <1>3, EmptyFrame DEF Queues

LEMMA EmptyAdds ==
    ASSUME Queues, NEW q \in Sessions, Len(empty[q]) < N,
           empty' = [empty EXCEPT ![q] = Append(@, Cleared)], full' = full
    PROVE  Queues' /\ empty'[q] = Append(empty[q], Cleared)
  <1>1. empty' = [empty EXCEPT ![q] = Append(empty[q], Cleared)]  OBVIOUS
  <1>2. ClearedQueue(empty[q])  BY DEF Queues
  <1>3. Cleared \in Buffers /\ Cleared.ts = -1  BY DEF Cleared, Buffers
  <1>4. ClearedQueue(Append(empty[q], Cleared))
    BY <1>2, <1>3, GrownQueue DEF ClearedQueue
  <1> QED BY <1>1, <1>4, EmptyFrame DEF Queues

-----------------------------------------------------------------------------
(***************************************************************************)
(* Any number of sessions: the steps of a reader thread. First what the    *)
(* invariant gives one that is in its loop: a Reader, its queue pair, and  *)
(* in clearBuffers the Writer it clears for.                               *)
(***************************************************************************)
LEMMA ReaderHas ==
    ASSUME Sound, NEW s \in Sessions
    PROVE  /\ started \in Nat /\ started \in 0..MaxStarts /\ s \in Nat
                /\ s # None
           /\ ReaderOK(rt[s], s, started)
           /\ rt[s].pc \in ReaderLoop =>
                /\ rt[s].obj \in Sessions /\ rt[s].obj \in 1..started
                /\ Obj(s) \in ObjectT
                /\ Obj(s).pair \in Sessions /\ Obj(s).pair \in 1..started
           /\ rt[s].pc \in {"clear", "clearAdd"} =>
                /\ rt[s].clr \in Sessions /\ rt[s].clr \in 1..started
                /\ wt[rt[s].clr].pair \in Sessions
                     /\ wt[rt[s].clr].pair \in 1..started
  <1>1. started \in 0..MaxStarts /\ started \in Nat /\ s \in Nat /\ s # None
    BY BoundsAssumption DEF Sound, Shared, Sessions, None
  <1>2. ReaderOK(rt[s], s, started)  BY DEF Sound, Readers
  <1>3. \A x \in 1..started : x \in Sessions
    BY <1>1, BoundsAssumption DEF Sessions
  <1>4. ASSUME rt[s].pc \in ReaderLoop
        PROVE  /\ rt[s].obj \in Sessions /\ rt[s].obj \in 1..started
                /\ Obj(s) \in ObjectT
                /\ Obj(s).pair \in Sessions /\ Obj(s).pair \in 1..started
    <2>1. rt[s].obj \in 1..started  BY <1>1, <1>2, <1>4 DEF ReaderOK, None
    <2>2. rt[s].obj \in Sessions /\ rt[s].obj <= started  BY <2>1, <1>1, <1>3
    <2>3. ObjectOK(Obj(s), rt[s].obj, started)  BY <2>2 DEF Sound, Objects, Obj
    <2> QED BY <2>1, <2>2, <2>3, <1>3 DEF ObjectOK
  <1>5. ASSUME rt[s].pc \in {"clear", "clearAdd"}
        PROVE  /\ rt[s].clr \in Sessions /\ rt[s].clr \in 1..started
                /\ wt[rt[s].clr].pair \in Sessions
                     /\ wt[rt[s].clr].pair \in 1..started
    <2>1. rt[s].clr \in 1..started  BY <1>1, <1>2, <1>5 DEF ReaderOK, None
    <2>2. rt[s].clr \in Sessions /\ rt[s].clr <= started  BY <2>1, <1>1, <1>3
    <2>3. WriterOK(wt[rt[s].clr], rt[s].clr, started)
      BY <2>2 DEF Sound, Writers
    <2> QED BY <2>1, <2>2, <2>3, <1>3 DEF WriterOK
  <1> QED BY <1>1, <1>2, <1>4, <1>5

\* The track after the one at the list's position.
LEMMA NextIsTrack ==
    ASSUME pos \in Tracks
    PROVE  NextPos \in Tracks
BY BoundsAssumption DEF NextPos, Tracks

\* A reader keeps its own predicate: it takes references from the player and
\* its Reader, and a buffer it offers is the one it has just cleared.
LEMMA ReaderStepReaders ==
    ASSUME Sound, NEW s \in Sessions, ReaderStep(s)
    PROVE  Readers(rt', started)
  <1>1. ReaderOK(rt[s], s, started) /\ started \in Nat /\ s \in Nat
    BY ReaderHas
  <1>2. DOMAIN rt = Sessions  BY DEF Sound, Readers
  <1>ok. SUFFICES ReaderOK(rt'[s], s, started)
    BY <1>1, ReaderStepOnly, ReaderFrame DEF Sound
  <1> DEFINE r == rt[s]
  <1>t. r.obj \in Sessions \cup {None} /\ r.clr \in Sessions \cup {None}
        /\ r.tgt \in Tracks \cup {NoTrack} /\ r.held \in Buffers \cup {NoBuffer}
    BY <1>1 DEF ReaderOK, ReaderT
  <1>c. ASSUME NEW p \in {"seek", "over"}, r.pc \in {"notify", "clear",
               "clearAdd"},
               rt'[s] = [r EXCEPT !.pc = p, !.tgt = NoTrack, !.clr = None,
               !.held = NoBuffer]
        PROVE  ReaderOK(rt'[s], s, started)
    <2>1. rt'[s] \in ReaderT
      BY <1>c, <1>1 DEF ReaderOK, ReaderT, ReaderPcs
    <2>2. /\ rt'[s].pc = p /\ rt'[s].obj = r.obj /\ rt'[s].clr = 0
          /\ rt'[s].held = NoBuffer
      BY <1>c, <1>1 DEF ReaderOK, ReaderT, None
    <2>3. r.obj \in 0..started /\ r.obj # None /\ s <= started
      BY <1>c, <1>1 DEF ReaderOK, ReaderLoop, ReaderPcs
    <2> QED BY <2>1, <2>2, <2>3, <1>1 DEF ReaderOK
  <1>n. Unqueued(s) \in {"seek", "over"}  BY DEF Unqueued
  <1>3. CASE ReaderNew(s)
    <2>1. PICK p \in {"make", "enter"} : rt' = [rt EXCEPT ![s].pc = p]
      BY <1>3 DEF ReaderNew, Goto
    <2>2. rt'[s] = [r EXCEPT !.pc = p] /\ r.pc = "new"
      BY <1>2, <2>1, <1>3 DEF ReaderNew, At
    <2> QED  BY <2>2, <1>1 DEF ReaderOK, ReaderT, ReaderPcs, ReaderLoop
  <1>4. CASE ReaderEnter(s)
    <2>1. CASE reader = None
      <3>1. rt'[s] = [r EXCEPT !.pc = AfterLoop] /\ r.pc = "enter"
        BY <2>1, <1>4, <1>2 DEF ReaderEnter, Goto, At
      <3> QED
        BY <3>1, <1>1 DEF ReaderOK, ReaderT, ReaderPcs, ReaderLoop, AfterLoop
    <2>2. CASE reader # None
      <3>1. rt'[s] = [r EXCEPT !.pc = "top", !.obj = reader] /\ r.pc = "enter"
        BY <2>2, <1>2, <1>4 DEF ReaderEnter, Goto, At
      <3>2. reader \in 0..started /\ started \in 0..MaxStarts
        BY DEF Sound, Shared
      <3>3. reader \in Sessions
        BY <3>2, <2>2, BoundsAssumption DEF Sessions, None
      <3> QED
        BY <3>1, <3>2, <3>3, <2>2, <1>1 DEF ReaderOK, ReaderT, ReaderPcs,
           ReaderLoop
    <2> QED BY <2>1, <2>2
  <1>5. CASE ReaderTop(s)
    <2>1. r.pc = "top" /\ Obj(s).queued \in Tracks \cup {NoTrack}
      BY <1>5, ReaderHas DEF ReaderTop, At, ReaderLoop, ReaderPcs, ObjectT
    <2>2. PICK p \in {"exit", "seek", "over"}, q \in {"reset", "notify"} :
             \/ rt' = [rt EXCEPT ![s].pc = p]
             \/ rt' = [rt EXCEPT ![s].pc = q, ![s].tgt = Obj(s).queued]
      BY <1>5, <1>n DEF ReaderTop, Goto
    <2>3. CASE rt' = [rt EXCEPT ![s].pc = p]
      <3>1. rt'[s] = [r EXCEPT !.pc = p]  BY <2>3, <1>2
      <3> QED BY <3>1, <2>1, <1>1 DEF ReaderOK, ReaderT, ReaderPcs, ReaderLoop
    <2>4. CASE rt' = [rt EXCEPT ![s].pc = q, ![s].tgt = Obj(s).queued]
      <3>1. rt'[s] = [r EXCEPT !.pc = q, !.tgt = Obj(s).queued]  BY <2>4, <1>2
      <3> QED BY <3>1, <2>1, <1>1 DEF ReaderOK, ReaderT, ReaderPcs, ReaderLoop
    <2> QED BY <2>2, <2>3, <2>4
  <1>take. ASSUME NEW here \in {"reset", "exit"},
                  NEW offering \in {"resetOffer", "exitOffer"},
               ResetTake(s, here, offering) \/ ResetOffer(s, offering, here)
        PROVE  ReaderOK(rt'[s], s, started)
    <2>1. CASE ResetTake(s, here, offering)
      <3>1. rt'[s] = [r EXCEPT !.pc = offering, !.held = Cleared] /\ r.pc = here
        BY <2>1, <1>2 DEF ResetTake, At
      <3>2. Cleared \in Buffers  BY DEF Cleared, Buffers
      <3> QED BY <3>1, <3>2, <1>1 DEF ReaderOK, ReaderT, ReaderPcs, ReaderLoop
    <2>2. CASE ResetOffer(s, offering, here)
      <3>1. rt'[s] = [r EXCEPT !.pc = here, !.held = NoBuffer]
            /\ r.pc = offering
        BY <2>2, <1>2 DEF ResetOffer, At
      <3> QED BY <3>1, <1>1 DEF ReaderOK, ReaderT, ReaderPcs, ReaderLoop
    <2> QED BY <1>take, <2>1, <2>2
  <1>6. CASE ReaderReset(s)
    <2>1. CASE ResetDone(s, "reset", "resetOffer")
               /\ rt' = [rt EXCEPT ![s].pc = "teardown", ![s].held = NoBuffer]
      <3>1. rt'[s] = [r EXCEPT !.pc = "teardown", !.held = NoBuffer]
            /\ r.pc \in {"reset", "resetOffer"}
        BY <2>1, <1>2 DEF ResetDone, At
      <3> QED BY <3>1, <1>1 DEF ReaderOK, ReaderT, ReaderPcs, ReaderLoop
    <2> QED BY <2>1, <1>6, <1>take DEF ReaderReset
  <1>7. CASE ReaderTeardown(s)
    <2>1. rt'[s] = [r EXCEPT !.pc = "load"] /\ r.pc = "teardown"
      BY <1>2, <1>7 DEF ReaderTeardown, Goto, At
    <2> QED  BY <2>1, <1>1 DEF ReaderOK, ReaderT, ReaderPcs, ReaderLoop
  <1>8. CASE ReaderLoad(s)
    <2>1. rt'[s] = [r EXCEPT !.pc = "notify"] /\ r.pc = "load"
      BY <1>2, <1>8 DEF ReaderLoad, Goto, At
    <2> QED  BY <2>1, <1>1 DEF ReaderOK, ReaderT, ReaderPcs, ReaderLoop
  <1>9. CASE ReaderNotify(s)
    <2>0. r.pc = "notify"  BY <1>9 DEF ReaderNotify, At
    <2>1. CASE ChangeDone(s)
      <3>1. rt'[s] = [r EXCEPT !.pc = Unqueued(s), !.tgt = NoTrack,
            !.clr = None, !.held = NoBuffer]
        BY <2>1, <1>2 DEF ChangeDone
      <3> QED BY <3>1, <2>0, <1>c, <1>n
    <2>2. CASE writer # None
               /\ rt' = [rt EXCEPT ![s].pc = "clear", ![s].clr = writer]
      <3>1. rt'[s] = [r EXCEPT !.pc = "clear", !.clr = writer]  BY <2>2, <1>2
      <3>2. writer \in 0..started /\ started \in 0..MaxStarts
        BY DEF Sound, Shared
      <3>3. writer \in Sessions
        BY <3>2, <2>2, BoundsAssumption DEF Sessions, None
      <3>4. rt'[s] \in ReaderT
        BY <3>1, <3>3, <1>1 DEF ReaderOK, ReaderT, ReaderPcs
      <3>5. /\ rt'[s].pc = "clear" /\ rt'[s].obj = r.obj /\ rt'[s].clr = writer
        BY <3>1, <1>1 DEF ReaderOK, ReaderT
      <3>6. r.obj \in 0..started /\ r.obj # None /\ s <= started
        BY <2>0, <1>1 DEF ReaderOK, ReaderLoop, ReaderPcs
      <3> QED BY <3>2, <3>4, <3>5, <3>6, <2>2, <1>1 DEF ReaderOK
    <2> QED BY <2>1, <2>2, <1>9 DEF ReaderNotify
  <1>10. CASE ReaderClear(s)
    <2>0. r.pc = "clear"  BY <1>10 DEF ReaderClear, At
    <2>1. CASE ChangeDone(s)
      <3>1. rt'[s] = [r EXCEPT !.pc = Unqueued(s), !.tgt = NoTrack,
            !.clr = None, !.held = NoBuffer]
        BY <2>1, <1>2 DEF ChangeDone
      <3> QED BY <3>1, <2>0, <1>c, <1>n
    <2>2. CASE rt' = [rt EXCEPT ![s].pc = "clearAdd", ![s].held = Cleared]
      <3>1. rt'[s] = [r EXCEPT !.pc = "clearAdd", !.held = Cleared]
        BY <2>2, <1>2
      <3>2. Cleared \in Buffers  BY DEF Cleared, Buffers
      <3> QED
        BY <3>1, <3>2, <2>0, <1>1 DEF ReaderOK, ReaderT, ReaderPcs, ReaderLoop
    <2> QED BY <2>1, <2>2, <1>10 DEF ReaderClear
  <1>11. CASE ReaderClearAdd(s)
    <2>0. r.pc = "clearAdd"  BY <1>11 DEF ReaderClearAdd, At
    <2>1. CASE ChangeDone(s)
      <3>1. rt'[s] = [r EXCEPT !.pc = Unqueued(s), !.tgt = NoTrack,
            !.clr = None, !.held = NoBuffer]
        BY <2>1, <1>2 DEF ChangeDone
      <3> QED BY <3>1, <2>0, <1>c, <1>n
    <2>2. CASE rt' = [rt EXCEPT ![s].pc = "clear", ![s].held = NoBuffer]
      <3>1. rt'[s] = [r EXCEPT !.pc = "clear", !.held = NoBuffer]  BY <2>2, <1>2
      <3> QED BY <3>1, <2>0, <1>1 DEF ReaderOK, ReaderT, ReaderPcs, ReaderLoop
    <2> QED BY <2>1, <2>2, <1>11 DEF ReaderClearAdd
  <1>12. CASE ReaderSeek(s)
    <2>1. rt'[s] = [r EXCEPT !.pc = "seekDone"] /\ r.pc = "seek"
      BY <1>2, <1>12 DEF ReaderSeek, Goto, At
    <2> QED  BY <2>1, <1>1 DEF ReaderOK, ReaderT, ReaderPcs, ReaderLoop
  <1>13. CASE ReaderSeekDone(s)
    <2>1. rt'[s] = [r EXCEPT !.pc = "over"] /\ r.pc = "seekDone"
      BY <1>2, <1>13 DEF ReaderSeekDone, Goto, At
    <2> QED  BY <2>1, <1>1 DEF ReaderOK, ReaderT, ReaderPcs, ReaderLoop
  <1>14. CASE ReaderOver(s)
    <2>1. PICK p \in {"poll", "ended", "top"} : rt' = [rt EXCEPT ![s].pc = p]
      BY <1>14 DEF ReaderOver, Goto
    <2>2. rt'[s] = [r EXCEPT !.pc = p] /\ r.pc = "over"
      BY <1>2, <2>1, <1>14 DEF ReaderOver, At
    <2> QED  BY <2>2, <1>1 DEF ReaderOK, ReaderT, ReaderPcs, ReaderLoop
  <1>15. CASE ReaderEnded(s)
    <2>1. PICK p \in {"next", "stop", "exit"} : rt' = [rt EXCEPT ![s].pc = p]
      BY <1>15 DEF ReaderEnded, Goto
    <2>2. rt'[s] = [r EXCEPT !.pc = p] /\ r.pc = "ended"
      BY <1>2, <2>1, <1>15 DEF ReaderEnded, At
    <2> QED  BY <2>2, <1>1 DEF ReaderOK, ReaderT, ReaderPcs, ReaderLoop
  <1>16. CASE ReaderPoll(s)
    <2>1. r.pc = "poll"  BY <1>16 DEF ReaderPoll, At
    <2>2. CASE Goto(s, "exit")
      <3>1. rt'[s] = [r EXCEPT !.pc = "exit"]  BY <1>2, <2>2 DEF Goto
      <3> QED  BY <3>1, <2>1, <1>1 DEF ReaderOK, ReaderT, ReaderPcs, ReaderLoop
    <2>3. CASE ~Goto(s, "exit")
      <3> DEFINE b == Head(empty[Obj(s).pair])
                 h == [b EXCEPT !.trk = native.track]
      <3>1. rt' = [rt EXCEPT ![s].pc = "stamp", ![s].tgt = Obj(s).cur,
            ![s].held = h] /\ empty[Obj(s).pair] # << >>
        BY <1>16, <2>3 DEF ReaderPoll
      <3>2. Obj(s) \in ObjectT /\ Obj(s).pair \in Sessions
        BY <2>1, ReaderHas DEF ReaderLoop, ReaderPcs
      <3>3. b \in Buffers
        BY <3>1, <3>2, CutQueue DEF Sound, Queues, ClearedQueue
      <3>4. h \in Buffers  BY <3>3 DEF Buffers, Sound, Shared, NativeT
      <3>5. Obj(s).cur \in Tracks \cup {NoTrack}  BY <3>2 DEF ObjectT
      <3> HIDE DEF h
      <3>6. rt'[s] = [r EXCEPT !.pc = "stamp", !.tgt = Obj(s).cur, !.held = h]
        BY <3>1, <1>2
      <3> QED
        BY <3>4, <3>5, <3>6, <2>1, <1>1 DEF ReaderOK, ReaderT, ReaderPcs,
           ReaderLoop
    <2> QED BY <2>2, <2>3
  <1>17. CASE ReaderStamp(s)
    <2>1. r.pc = "stamp" /\ r.held \in Buffers
      BY <1>17, <1>1 DEF ReaderStamp, At, ReaderOK
    <2>2. MillisPlayed(r.obj) \in {-2, -1, 0}  BY DEF MillisPlayed
    <2> DEFINE h == [r.held EXCEPT !.ts = MillisPlayed(r.obj)]
    <2>3. h \in Buffers  BY <2>1, <2>2 DEF Buffers
    <2> HIDE DEF h
    <2>4. \/ rt' = [rt EXCEPT ![s].pc = "exit", ![s].tgt = NoTrack,
               ![s].held = NoBuffer]
          \/ rt' = [rt EXCEPT ![s].pc = "top", ![s].tgt = NoTrack,
               ![s].held = NoBuffer]
          \/ rt' = [rt EXCEPT ![s].pc = "put", ![s].tgt = NoTrack,
               ![s].held = h]
      BY <1>17, <1>2 DEF ReaderStamp, h
    <2>5. \/ rt'[s] = [r EXCEPT !.pc = "exit", !.tgt = NoTrack,
               !.held = NoBuffer]
          \/ rt'[s] = [r EXCEPT !.pc = "top", !.tgt = NoTrack,
               !.held = NoBuffer]
          \/ rt'[s] = [r EXCEPT !.pc = "put", !.tgt = NoTrack, !.held = h]
      BY <2>4, <1>2
    <2>a. PICK p \in {"exit", "top", "put"}, i \in Buffers \cup {NoBuffer} :
             rt'[s] = [r EXCEPT !.pc = p, !.tgt = NoTrack, !.held = i]
      BY <2>3, <2>5
    <2>6. rt'[s] \in ReaderT
      BY <2>a, <1>1 DEF ReaderOK, ReaderT, ReaderPcs
    <2>7. /\ rt'[s].pc \in {"exit", "top", "put"} /\ rt'[s].obj = r.obj
          /\ rt'[s].clr = r.clr
          /\ rt'[s].pc = "put" => rt'[s].held = h
      BY <2>5, <1>1 DEF ReaderOK, ReaderT
    <2>8. r.obj \in 0..started /\ r.obj # None /\ s <= started
          /\ r.clr \in 0..started
      BY <2>1, <1>1 DEF ReaderOK, ReaderLoop, ReaderPcs
    <2> QED BY <2>3, <2>6, <2>7, <2>8, <1>1 DEF ReaderOK
  <1>18. CASE ReaderPut(s)
    <2>1. rt'[s] = [r EXCEPT !.pc = "top", !.held = NoBuffer] /\ r.pc = "put"
      BY <1>2, <1>18 DEF ReaderPut, At
    <2> QED  BY <2>1, <1>1 DEF ReaderOK, ReaderT, ReaderPcs, ReaderLoop
  <1>19. CASE ReaderExit(s)
    <2>1. CASE ResetDone(s, "exit", "exitOffer")
               /\ rt' = [rt EXCEPT ![s].pc = AfterLoop, ![s].obj = None,
                    ![s].held = NoBuffer]
      <3>1. rt'[s] = [r EXCEPT !.pc = AfterLoop, !.obj = None,
            !.held = NoBuffer] /\ r.pc \in {"exit", "exitOffer"}
        BY <2>1, <1>2 DEF ResetDone, At
      <3>2. rt'[s] \in ReaderT
        BY <3>1, <1>1 DEF ReaderOK, ReaderT, ReaderPcs, AfterLoop
      <3>3. /\ rt'[s].pc \in {"forget", "done"} /\ rt'[s].obj = 0
            /\ rt'[s].clr = r.clr
        BY <3>1, <1>1 DEF ReaderOK, ReaderT, AfterLoop, None
      <3>4. r.clr \in 0..started /\ s <= started
        BY <3>1, <1>1 DEF ReaderOK, ReaderLoop, ReaderPcs
      <3> QED BY <3>2, <3>3, <3>4, <1>1 DEF ReaderOK, ReaderLoop
    <2> QED BY <2>1, <1>19, <1>take DEF ReaderExit
  <1>20. CASE ReaderForget(s)
    <2>1. rt'[s] = [r EXCEPT !.pc = "done"] /\ r.pc = "forget"
      BY <1>2, <1>20 DEF ReaderForget, Goto, At
    <2> QED  BY <2>1, <1>1 DEF ReaderOK, ReaderT, ReaderPcs, ReaderLoop
  <1>21. CASE ReaderMake(s)
    <2>1. rt'[s] = [r EXCEPT !.pc = "enter"] /\ r.pc = "make"
      BY <1>2, <1>21 DEF ReaderMake, Goto, At
    <2> QED  BY <2>1, <1>1 DEF ReaderOK, ReaderT, ReaderPcs, ReaderLoop
  <1>22. CASE ReaderNext(s)
    <2>1. PICK t \in Tracks \cup {NoTrack} :
             rt' = [rt EXCEPT ![s].pc = "queue", ![s].tgt = t]
      BY <1>22, NextIsTrack DEF ReaderNext, Sound, Shared
    <2>2. rt'[s] = [r EXCEPT !.pc = "queue", !.tgt = t] /\ r.pc = "next"
      BY <1>2, <2>1, <1>22 DEF ReaderNext, At
    <2> QED  BY <2>2, <1>1 DEF ReaderOK, ReaderT, ReaderPcs, ReaderLoop
  <1>23. CASE ReaderQueue(s)
    <2>1. rt'[s] = [r EXCEPT !.pc = "poll", !.tgt = NoTrack]
          /\ r.pc = "queue"
      BY <1>2, <1>23 DEF ReaderQueue, At
    <2> QED  BY <2>1, <1>1 DEF ReaderOK, ReaderT, ReaderPcs, ReaderLoop
  <1>24. CASE ReaderStops(s)
    <2>1. rt'[s] = [r EXCEPT !.pc = "exit"] /\ r.pc = "stop"
      BY <1>2, <1>24 DEF ReaderStops, Goto, At
    <2> QED  BY <2>1, <1>1 DEF ReaderOK, ReaderT, ReaderPcs, ReaderLoop
  <1> QED BY <1>3, <1>4, <1>5, <1>6, <1>7, <1>8, <1>9, <1>10,
             <1>11, <1>12, <1>13, <1>14, <1>15, <1>16, <1>17, <1>18, <1>19,
             <1>20, <1>21, <1>22, <1>23, <1>24
          DEF ReaderStep

\* The fields of its Reader it assigns: queued and current track, resuming,
\* backend and the request to seek.
LEMMA ReaderStepObjects ==
    ASSUME Sound, NEW s \in Sessions, ReaderStep(s)
    PROVE  Objects(robj', started)
  <1>1. Objects(robj, started) /\ started \in Nat /\ ReaderOK(rt[s], s, started)
    BY ReaderHas DEF Sound
  <1>a. rt[s].tgt \in Tracks \cup {NoTrack}  BY <1>1 DEF ReaderOK, ReaderT
  <1> DEFINE i == rt[s].obj
             o == robj[i]
  <1>ok. SUFFICES ASSUME robj' # robj
                  PROVE  Objects(robj', started)
    BY <1>1
  <1>2. PICK p \in {"top", "load", "notify", "clear", "clearAdd", "seekDone",
     "queue"} :
          /\ rt[s].pc = p
          /\ \/ robj' = [robj EXCEPT ![i].resuming = FALSE]
             \/ robj' = [robj EXCEPT ![i].backend = TRUE]
             \/ robj' = [robj EXCEPT ![i].cur = rt[s].tgt,
                  ![i].queued = NoTrack]
             \/ robj' = [robj EXCEPT ![i].seek = FALSE]
             \/ robj' = [robj EXCEPT ![i].queued = rt[s].tgt]
    BY <1>ok DEF ReaderStep, At, ReaderNew, ReaderEnter, ReaderTop, ReaderReset,
       ResetTake, ResetOffer, ReaderTeardown, ReaderLoad, ReaderNotify,
       ReaderClear, ReaderClearAdd, ChangeDone, ReaderSeek, ReaderSeekDone,
       ReaderOver, ReaderEnded, ReaderPoll, ReaderStamp, ReaderPut, ReaderExit,
       ReaderForget, ReaderMake, ReaderNext,
       ReaderQueue, ReaderStops
  <1>3. i \in Sessions  BY <1>2, ReaderHas DEF ReaderLoop, ReaderPcs
  <1>4. ObjectOK(o, i, started) /\ DOMAIN robj = Sessions
    BY <1>1, <1>3 DEF Objects
  <1>5. Only(robj, robj', i)  BY <1>1, <1>2, <1>3 DEF Only, Objects
  <1>7. ObjectOK(robj'[i], i, started)
    <2>1. \/ robj'[i] = [o EXCEPT !.resuming = FALSE]
          \/ robj'[i] = [o EXCEPT !.backend = TRUE]
          \/ robj'[i] = [o EXCEPT !.cur = rt[s].tgt, !.queued = NoTrack]
          \/ robj'[i] = [o EXCEPT !.seek = FALSE]
          \/ robj'[i] = [o EXCEPT !.queued = rt[s].tgt]
      BY <1>2, <1>3, <1>4
    <2>2. robj'[i] \in ObjectT  BY <2>1, <1>a, <1>4 DEF ObjectOK, ObjectT
    <2>3. robj'[i].pair = o.pair  BY <2>1, <1>4 DEF ObjectOK, ObjectT
    <2> QED BY <2>2, <2>3, <1>4 DEF ObjectOK
  <1> QED BY <1>1, <1>3, <1>5, <1>7, ObjectFrame

\* An interrupt or a request to drop what is queued sets a flag of one writer.
LEMMA WriterFlagged ==
    ASSUME NEW k \in Nat, NEW f, Writers(f, k), NEW x \in Sessions, x <= k,
           NEW b \in BOOLEAN, NEW g,
           g = [f EXCEPT ![x].seeking = b] \/ g = [f EXCEPT ![x].intr = b]
    PROVE  Writers(g, k)
  <1>1. Only(f, g, x)  BY DEF Only, Writers
  <1>2. WriterOK(f[x], x, k)  BY DEF Writers
  <1>3. \/ g[x] = [f[x] EXCEPT !.seeking = b]
        \/ g[x] = [f[x] EXCEPT !.intr = b]
    BY DEF Writers
  <1>4. g[x] \in WriterT  BY <1>2, <1>3 DEF WriterOK, WriterT
  <1>5. /\ g[x].pc = f[x].pc /\ g[x].obj = f[x].obj
        /\ g[x].pair = f[x].pair /\ g[x].held = f[x].held
        /\ g[x].clr = f[x].clr
    BY <1>2, <1>3 DEF WriterOK, WriterT
  <1>6. WriterOK(g[x], x, k)  BY <1>2, <1>4, <1>5 DEF WriterOK
  <1> QED BY <1>1, <1>6, WriterFrame

\* The sessions started so far are sessions.
LEMMA StartedSessions ==
    ASSUME Shared
    PROVE  started \in Nat /\ \A x \in 1..started : x \in Sessions
           /\ x <= started
BY BoundsAssumption DEF Shared, Sessions

\* stop() and pause() interrupt the player's writer thread, which has been
\* born.
LEMMA InterruptSound ==
    ASSUME Sound, Interrupt
    PROVE  Writers(wt', started)
  <1>1. CASE wt' = wt  BY <1>1 DEF Sound
  <1>2. CASE wt' # wt
    <2>1. wt' = [wt EXCEPT ![writerThread].intr = TRUE] /\ writerThread # None
      BY <1>2 DEF Interrupt
    <2>2. writerThread \in 1..started
      BY <2>1, BoundsAssumption DEF Sound, Shared, None
    <2> QED BY <2>1, <2>2, WriterFlagged, StartedSessions DEF Sound
  <1> QED BY <1>1, <1>2

\* Of the writers a reader touches only those flags.
LEMMA ReaderStepWriters ==
    ASSUME Sound, NEW s \in Sessions, ReaderStep(s)
    PROVE  Writers(wt', started)
  <1>ok. SUFFICES ASSUME wt' # wt, ~Interrupt
                  PROVE  Writers(wt', started)
    BY InterruptSound DEF Sound
  <1>2. writer # None /\ wt' = [wt EXCEPT ![writer].seeking = TRUE]
    BY <1>ok DEF ReaderStep, ReaderNew, ReaderEnter, ReaderTop, ReaderReset,
       ResetTake, ResetOffer, ReaderTeardown, ReaderLoad, ReaderNotify,
       ReaderClear, ReaderClearAdd, ReaderSeek, ReaderSeekDone, ReaderOver,
       ReaderEnded, ReaderPoll, ReaderStamp, ReaderPut, ReaderExit,
       ReaderForget, ReaderMake, ReaderNext,
       ReaderQueue, ReaderStops, stop, StopReader
  <1>3. writer \in 1..started
    BY <1>2, BoundsAssumption DEF Sound, Shared, None
  <1> QED BY <1>2, <1>3, WriterFlagged, StartedSessions DEF Sound

\* The fields of the emulator, for any sets they range over.
LEMMA NativeField ==
    ASSUME NEW T, NEW L, NEW n \in [track : T, left : L, err : BOOLEAN,
           vgm : BOOLEAN],
           NEW t \in T, NEW l \in L, NEW e \in BOOLEAN
    PROVE  /\ [n EXCEPT !.track = t, !.left = l] \in [track : T, left : L,
                err : BOOLEAN, vgm : BOOLEAN]
           /\ [n EXCEPT !.track = t, !.left = l, !.err = e] \in [track : T,
                left : L, err : BOOLEAN, vgm : BOOLEAN]
           /\ [n EXCEPT !.err = e, !.left = l] \in [track : T, left : L,
                err : BOOLEAN, vgm : BOOLEAN]
OBVIOUS

\* teardown, loadFile and readNextSamples keep the type of the emulator.
LEMMA NativeOps ==
    ASSUME native \in NativeT
    PROVE  /\ teardown \in NativeT
           /\ \A t \in Tracks \cup {NoTrack} : loadFile(t) \subseteq NativeT
           /\ seek \subseteq NativeT
           /\ \A o \in Sessions : ReadNextSamples(o) \in NativeT
  <1>0. 0 \in 0..TrackLen /\ TrackLen \in 0..TrackLen
    BY BoundsAssumption
  <1>1. teardown \in NativeT  BY <1>0, NativeField DEF teardown, NativeT
  <1>2. ASSUME NEW t \in Tracks \cup {NoTrack}
        PROVE  loadFile(t) \subseteq NativeT
    <2>1. [teardown EXCEPT !.err = TRUE] \in NativeT  BY <1>1 DEF NativeT
    <2>2. [native EXCEPT !.track = t, !.left = 0, !.err = TRUE] \in NativeT
      BY <1>0, NativeField DEF NativeT
    <2>3. [native EXCEPT !.track = t, !.left = TrackLen,
          !.err = FALSE] \in NativeT
      BY <1>0, NativeField DEF NativeT
    <2> QED BY <2>1, <2>2, <2>3 DEF loadFile
  <1>3. seek \subseteq NativeT  BY DEF seek, NativeT
  <1>4. ASSUME NEW o \in Sessions
        PROVE  ReadNextSamples(o) \in NativeT
    <2>1. [native EXCEPT !.err = TRUE] \in NativeT  BY DEF NativeT
    <2>2. native.left \in 0..TrackLen /\ TrackLen \in Nat
      BY BoundsAssumption DEF NativeT
    <2> DEFINE l == IF native.left > 0 THEN native.left - 1 ELSE 0
    <2>3. l \in 0..TrackLen  BY <2>2
    <2> HIDE DEF l
    <2>4. native.track \in Tracks \cup {NoTrack}  BY DEF NativeT
    <2>5. [native EXCEPT !.err = FALSE, !.left = l] \in NativeT
      BY <2>3, <2>4, NativeField DEF NativeT
    <2> QED BY <2>1, <2>5 DEF ReadNextSamples, l
  <1> QED BY <1>1, <1>2, <1>3, <1>4

\* The player's own fields after a step of a reader.
LEMMA ReaderStepShared ==
    ASSUME Sound, NEW s \in Sessions, ReaderStep(s)
    PROVE  Shared' /\ started' = started
  <1>1. /\ native \in NativeT /\ ReaderOK(rt[s], s, started)
        /\ rt[s].tgt \in Tracks \cup {NoTrack} /\ s \in Nat
        /\ started \in 0..MaxStarts
    BY ReaderHas DEF Sound, Shared, ReaderOK, ReaderT
  <1>2. started' = started /\ main' = main /\ silent' = silent
    BY DEF ReaderStep, ReaderNew, ReaderEnter, ReaderTop, ReaderReset,
       ResetTake, ResetOffer, ReaderTeardown, ReaderLoad, ReaderNotify,
       ReaderClear, ReaderClearAdd, ReaderSeek, ReaderSeekDone, ReaderOver,
       ReaderEnded, ReaderPoll, ReaderStamp, ReaderPut, ReaderExit,
       ReaderForget, ReaderMake, ReaderNext,
       ReaderQueue, ReaderStops, stop, StopReader, playerVars, listVars
  <1>3. /\ state' \in {state, STOPPED} /\ writer' = writer
        /\ writerThread' = writerThread /\ crashed' = crashed
        /\ pos' \in {pos, NextPos}
             /\ playingTrack' \in {playingTrack, rt[s].tgt}
    BY DEF ReaderStep, ReaderNew, ReaderEnter, ReaderTop, ReaderReset,
       ResetTake, ResetOffer, ReaderTeardown, ReaderLoad, ReaderNotify,
       ReaderClear, ReaderClearAdd, ReaderSeek, ReaderSeekDone, ReaderOver,
       ReaderEnded, ReaderPoll, ReaderStamp, ReaderPut, ReaderExit,
       ReaderForget, ReaderMake, ReaderNext,
       ReaderQueue, ReaderStops, stop, StopReader, playerVars, listVars
  <1>4. reader' \in {reader, None} \/ (reader' = s /\ rt[s].pc = "make")
    BY DEF ReaderStep, ReaderNew, ReaderEnter, ReaderTop, ReaderReset,
       ResetTake, ResetOffer, ReaderTeardown, ReaderLoad, ReaderNotify,
       ReaderClear, ReaderClearAdd, ReaderSeek, ReaderSeekDone, ReaderOver,
       ReaderEnded, ReaderPoll, ReaderStamp, ReaderPut, ReaderExit,
       ReaderForget, ReaderMake, ReaderNext,
       ReaderQueue, ReaderStops, stop, StopReader, playerVars, listVars, At
  <1>5. NextPos \in Tracks
    BY BoundsAssumption DEF NextPos, Sound, Shared, Tracks
  <1>6. native' \in NativeT
    <2>1. \/ native' \in {native, teardown}
          \/ native' \in loadFile(rt[s].tgt)
          \/ native' \in seek
          \/ rt[s].pc = "poll" /\ native' = ReadNextSamples(rt[s].obj)
      BY DEF ReaderStep, ReaderNew, ReaderEnter, ReaderTop, ReaderReset,
         ResetTake, ResetOffer, ReaderTeardown, ReaderLoad, ReaderNotify,
         ReaderClear, ReaderClearAdd, ReaderSeek, ReaderSeekDone, ReaderOver,
         ReaderEnded, ReaderPoll, ReaderStamp, ReaderPut, ReaderExit,
         ReaderForget, ReaderMake, ReaderNext,
       ReaderQueue, ReaderStops, stop, StopReader, At
    <2>2. rt[s].pc = "poll" => rt[s].obj \in Sessions
      BY ReaderHas DEF ReaderLoop, ReaderPcs
    <2> QED BY <1>1, <2>1, <2>2, NativeOps
  <1>7. reader' \in 0..started
    <2>1. rt[s].pc = "make" => s <= started  BY <1>1 DEF ReaderOK
    <2> QED BY <1>1, <1>4, <2>1 DEF Sound, Shared, None
  <1> QED BY <1>1, <1>2, <1>3, <1>5, <1>6, <1>7 DEF Sound, Shared

\* The queues after a step of a reader: resetEmptyBuffers and clearBuffers take
\* from the full queue and offer cleared buffers, poll takes, put adds what was
\* read.
LEMMA ReaderStepQueues ==
    ASSUME Sound, NEW s \in Sessions, ReaderStep(s)
    PROVE  Queues'
  <1> DEFINE r == rt[s]
             q == Obj(s).pair
  <1>0. Queues /\ ReaderOK(r, s, started)  BY ReaderHas DEF Sound
  <1>1. SUFFICES ASSUME <<empty, full>>' # <<empty, full>>
                 PROVE  Queues'
    BY <1>0 DEF Queues
  <1>2. CASE ReaderReset(s) \/ ReaderExit(s)
    <2>1. PICK here \in {"reset", "exit"}, offering \in {"resetOffer",
       "exitOffer"} :
             ResetTake(s, here, offering) \/ ResetOffer(s, offering, here)
      BY <1>1, <1>2 DEF ReaderReset, ReaderExit, queueVars
    <2>2. r.pc \in ReaderLoop
      BY <2>1 DEF ResetTake, ResetOffer, At, ReaderLoop, ReaderPcs
    <2>3. q \in Sessions  BY <2>2, ReaderHas
    <2>4. CASE ResetTake(s, here, offering)
      <3>1. empty' = empty /\ full[q] # << >>
            /\ full' = [full EXCEPT ![q] = Tail(@)]
        BY <2>4, <1>1 DEF ResetTake
      <3> QED BY <3>1, <2>3, <1>0, FullTakes
    <2>5. CASE ResetOffer(s, offering, here)
      <3>1. r.held = Cleared  BY <2>5, <1>0 DEF ResetOffer, At, ReaderOK
      <3>2. Len(empty[q]) < N /\ full' = full
            /\ empty' = [empty EXCEPT ![q] = Append(@, Cleared)]
        BY <2>5, <3>1 DEF ResetOffer
      <3> QED BY <3>2, <2>3, <1>0, EmptyAdds
    <2> QED BY <2>1, <2>4, <2>5
  <1>3. CASE ReaderClear(s)
    <2> DEFINE c == wt[r.clr].pair
    <2>1. c \in Sessions  BY <1>3, ReaderHas DEF ReaderClear, At
    <2>2. empty' = empty /\ full[c] # << >>
          /\ full' = [full EXCEPT ![c] = Tail(@)]
      BY <1>1, <1>3 DEF ReaderClear
    <2> QED BY <2>1, <2>2, <1>0, FullTakes
  <1>4. CASE ReaderClearAdd(s)
    <2> DEFINE c == wt[r.clr].pair
    <2>1. c \in Sessions /\ r.held = Cleared
      BY <1>4, <1>0, ReaderHas DEF ReaderClearAdd, At, ReaderOK
    <2>2. CASE empty' = empty /\ full' = [full EXCEPT ![c] = << >>]
      BY <2>1, <2>2, <1>0, FullClears
    <2>3. CASE full' = full /\ Len(empty[c]) < N
               /\ empty' = [empty EXCEPT ![c] = Append(@, Cleared)]
      BY <2>1, <2>3, <1>0, EmptyAdds
    <2> QED BY <2>1, <2>2, <2>3, <1>4 DEF ReaderClearAdd
  <1>5. CASE ReaderPoll(s)
    <2>1. q \in Sessions
      BY <1>5, ReaderHas DEF ReaderPoll, At, ReaderLoop, ReaderPcs
    <2>2. full' = full /\ empty[q] # << >>
          /\ empty' = [empty EXCEPT ![q] = Tail(@)]
      BY <1>1, <1>5 DEF ReaderPoll
    <2> QED BY <2>1, <2>2, <1>0, EmptyTakes
  <1>6. CASE ReaderPut(s)
    <2>1. q \in Sessions
      BY <1>6, ReaderHas DEF ReaderPut, At, ReaderLoop, ReaderPcs
    <2>2. r.held \in Buffers  BY <1>6, <1>0 DEF ReaderPut, At, ReaderOK
    <2>3. empty' = empty /\ Len(full[q]) < N
          /\ full' = [full EXCEPT ![q] = Append(@, r.held)]
      BY <1>6 DEF ReaderPut
    <2> QED BY <2>1, <2>2, <2>3, <1>0, FullAdds
  <1> QED BY <1>1, <1>2, <1>3, <1>4, <1>5, <1>6 DEF ReaderStep, ReaderNew,
             ReaderEnter, ReaderTop, ReaderTeardown, ReaderLoad, ReaderNotify,
             ReaderSeek, ReaderSeekDone, ReaderOver, ReaderEnded, ReaderStamp,
             ReaderForget, ReaderMake, ReaderNext, ReaderQueue, ReaderStops,
             queueVars

LEMMA ReaderStepSound ==
    ASSUME Sound, NEW s \in Sessions, ReaderStep(s)
    PROVE  Sound'
BY ReaderStepReaders, ReaderStepWriters, ReaderStepObjects, ReaderStepShared,
   ReaderStepQueues DEF Sound

-----------------------------------------------------------------------------
(***************************************************************************)
(* The same for the steps of a writer thread.                              *)
(***************************************************************************)
LEMMA WriterHas ==
    ASSUME Sound, NEW s \in Sessions
    PROVE  /\ started \in Nat /\ started \in 0..MaxStarts /\ s \in Nat
                /\ s # None
           /\ WriterOK(wt[s], s, started)
           /\ wt[s].pc \in WriterLoop =>
                /\ wt[s].obj \in Sessions /\ wt[s].obj \in 1..started
                /\ WPair(s) \in Sessions /\ WPair(s) \in 1..started
  <1>1. started \in 0..MaxStarts /\ started \in Nat /\ s \in Nat /\ s # None
    BY BoundsAssumption DEF Sound, Shared, Sessions, None
  <1>2. WriterOK(wt[s], s, started)  BY DEF Sound, Writers
  <1>3. ASSUME wt[s].pc \in WriterLoop
        PROVE  /\ wt[s].obj \in Sessions /\ wt[s].obj \in 1..started
               /\ WPair(s) \in Sessions /\ WPair(s) \in 1..started
    <2>1. wt[s].obj \in 1..started  BY <1>1, <1>2, <1>3 DEF WriterOK, None
    <2>2. wt[s].obj \in Sessions /\ wt[s].obj <= started
      BY <2>1, StartedSessions DEF Sound
    <2>3. WriterOK(wt[wt[s].obj], wt[s].obj, started)
      BY <2>2 DEF Sound, Writers
    <2>4. WPair(s) \in 1..started  BY <2>2, <2>3 DEF WriterOK, WPair
    <2> QED BY <2>1, <2>2, <2>4, StartedSessions DEF Sound
  <1> QED BY <1>1, <1>2, <1>3

\* A writer clears a buffer before it puts it back into the pool, whether it
\* has played it, drops it after a seek, or drops it on its way out.
LEMMA WriterStepWriters ==
    ASSUME Sound, NEW s \in Sessions, WriterStep(s)
    PROVE  Writers(wt', started)
  <1> DEFINE w == wt[s]
  <1>1. /\ WriterOK(w, s, started) /\ started \in Nat /\ s \in Nat
        /\ Writers(wt, started)
    BY WriterHas DEF Sound
  <1>2. DOMAIN wt = Sessions  BY <1>1 DEF Writers
  <1>c. Cleared \in Buffers  BY DEF Cleared, Buffers
  <1>f. ASSUME NEW f, Only(wt, f, s), WriterOK(f[s], s, started)
        PROVE  Writers(f, started)
    BY <1>1, <1>f, WriterFrame
  <1> USE DEF WriterOK, WriterT, WriterPcs, WriterLoop
  <1>n. ASSUME PlayNext(s), w.pc \in {"top", "wait"}
        PROVE  Writers(wt', started)
    <2>1. CASE UNCHANGED wt  BY <2>1, <1>1
    <2>2. CASE ~UNCHANGED wt
      <3>1. wt' = [wt EXCEPT ![s].pc = "played", ![s].held = Cleared]
        BY <2>2, <1>n DEF PlayNext
      <3>2. wt'[s] = [w EXCEPT !.pc = "played", !.held = Cleared]
        BY <3>1, <1>2
      <3>3. WriterOK(wt'[s], s, started)  BY <3>2, <1>1, <1>c, <1>n
      <3> QED BY <1>f, <3>1, <3>3, <1>1 DEF Only, Writers
    <2> QED BY <2>1, <2>2
  <1>t. ASSUME NEW here \in {"seekClear", "exit"},
               NEW adding \in {"seekClearAdd", "exitAdd"},
               here = "seekClear" <=> adding = "seekClearAdd",
               ClearTake(s, here, adding) \/ ClearAdd(s, adding, here)
        PROVE  Writers(wt', started)
    <2>1. CASE ClearTake(s, here, adding)
      <3>1. wt' = [wt EXCEPT ![s].pc = adding, ![s].clr = Cleared]
            /\ w.pc = here
        BY <2>1 DEF ClearTake, WAt
      <3>2. wt'[s] = [w EXCEPT !.pc = adding, !.clr = Cleared]  BY <3>1, <1>2
      <3>a. wt'[s] \in WriterT  BY <3>2, <1>1, <1>c
      <3>b. /\ wt'[s].pc = adding /\ wt'[s].obj = w.obj /\ wt'[s].pair = w.pair
            /\ wt'[s].intr = w.intr /\ wt'[s].clr = Cleared
            /\ wt'[s].held = w.held
        BY <3>2, <1>1
      <3>c. adding \in WriterLoop /\ adding \notin {"put", "played", "unborn"}
        BY <1>t
      <3>d. w.pc \in WriterLoop /\ w.pc # "unborn"
        BY <1>t, <3>1
      <3>e. adding \in {"seekClear", "seekClearAdd", "put"}
            => w.pc = "seekClear"
        BY <1>t, <3>1
      <3>3. WriterOK(wt'[s], s, started)
        <4> USE DEF WriterOK
        <4> HIDE DEF WriterT, WriterPcs, WriterLoop
        <4> QED BY <3>a, <3>b, <3>c, <3>d, <3>e, <1>1
      <3> QED BY <1>f, <3>1, <3>3, <1>1 DEF Only, Writers
    <2>2. CASE ClearAdd(s, adding, here)
      <3>1. wt' = [wt EXCEPT ![s].pc = here, ![s].clr = NoBuffer]
            /\ w.pc = adding
        BY <2>2 DEF ClearAdd, WAt
      <3>2. wt'[s] = [w EXCEPT !.pc = here, !.clr = NoBuffer]  BY <3>1, <1>2
      <3>a. wt'[s] \in WriterT  BY <3>2, <1>1
      <3>b. /\ wt'[s].pc = here /\ wt'[s].obj = w.obj /\ wt'[s].pair = w.pair
            /\ wt'[s].intr = w.intr /\ wt'[s].clr = NoBuffer
            /\ wt'[s].held = w.held
        BY <3>2, <1>1
      <3>c. here \in WriterLoop
            /\ here \notin {"put", "played", "unborn", "seekClearAdd",
                            "exitAdd"}
        BY <1>t
      <3>d. w.pc \in WriterLoop /\ w.pc # "unborn"
        BY <1>t, <3>1
      <3>e. here \in {"seekClear", "seekClearAdd", "put"}
            => w.pc = "seekClearAdd"
        BY <1>t, <3>1
      <3>3. WriterOK(wt'[s], s, started)
        <4> USE DEF WriterOK
        <4> HIDE DEF WriterT, WriterPcs, WriterLoop
        <4> QED BY <3>a, <3>b, <3>c, <3>d, <3>e, <1>1
      <3> QED BY <1>f, <3>1, <3>3, <1>1 DEF Only, Writers
    <2> QED BY <1>t, <2>1, <2>2
  <1>o. ASSUME Forget(s), w.pc \in {"exit", "exitAdd", "forget"}
        PROVE  Writers(wt', started)
    <2>1. wt' = [wt EXCEPT ![s].pc = "done", ![s].obj = None,
          ![s].clr = NoBuffer, ![s].intr = FALSE]
      BY <1>o DEF Forget
    <2>2. wt'[s] = [w EXCEPT !.pc = "done", !.obj = None, !.clr = NoBuffer,
          !.intr = FALSE]
      BY <2>1, <1>2
    <2>3. wt'[s] \in WriterT  BY <2>2, <1>1
    <2>4. wt'[s].pc = "done" /\ wt'[s].obj = 0 /\ wt'[s].pair = w.pair
          /\ wt'[s].intr = FALSE
      BY <2>2, <1>1 DEF None
    <2>5. s <= started  BY <1>1, <1>o
    <2>6. WriterOK(wt'[s], s, started)  BY <2>3, <2>4, <2>5, <1>1
    <2> QED BY <1>f, <2>1, <2>6, <1>1 DEF Only, Writers
  <1>x. ASSUME NEW p \in {"enter", "forget", "exit", "wait", "timeout",
                          "seekClear", "put"}, WGoto(s, p),
               p = "enter" => w.pc = "new", p = "forget" => w.pc = "enter",
               p \in {"exit", "wait", "timeout"} =>
                  w.pc \in {"top", "wait", "timeout"},
               p \in {"seekClear", "put"} => w.pc = "played"
        PROVE  Writers(wt', started)
    <2>1. wt'[s] = [w EXCEPT !.pc = p]  BY <1>x, <1>2 DEF WGoto
    <2>2. WriterOK(wt'[s], s, started)  BY <2>1, <1>1, <1>x
    <2> QED BY <1>f, <2>2, <1>x, <1>1 DEF Only, Writers, WGoto
  <1>3. CASE WriterNew(s)  BY <1>3, <1>x DEF WriterNew, WAt
  <1>4. CASE WriterEnter(s)
    <2>0. w.pc = "enter"  BY <1>4 DEF WriterEnter, WAt
    <2>1. CASE WGoto(s, "forget")  BY <2>0, <2>1, <1>x
    <2>2. CASE writer # None
               /\ wt' = [wt EXCEPT ![s].pc = "top", ![s].obj = writer]
      <3>1. wt'[s] = [w EXCEPT !.pc = "top", !.obj = writer]  BY <2>2, <1>2
      <3>2. writer \in 1..started
        BY <2>2, StartedSessions DEF Sound, Shared, None
      <3>3. writer \in Sessions /\ writer \in 0..started
        BY <3>2, StartedSessions DEF Sound
      <3>a. wt'[s] \in WriterT  BY <3>1, <3>3, <1>1
      <3>b. /\ wt'[s].pc = "top" /\ wt'[s].obj = writer
            /\ wt'[s].pair = w.pair /\ wt'[s].intr = w.intr
        BY <3>1, <1>1
      <3>4. WriterOK(wt'[s], s, started)
        <4> HIDE DEF WriterT, WriterPcs
        <4> QED BY <3>a, <3>b, <3>3, <2>0, <2>2, <1>1
      <3> QED BY <1>f, <2>2, <3>4, <1>1 DEF Only, Writers
    <2> QED BY <2>1, <2>2, <1>4 DEF WriterEnter
  <1>5. CASE WriterTop(s)
    <2>1. w.pc = "top"  BY <1>5 DEF WriterTop, WAt
    <2> QED BY <2>1, <1>5, <1>n, <1>x DEF WriterTop
  <1>6. CASE WriterWait(s)
    <2>1. w.pc = "wait"  BY <1>6 DEF WriterWait, WAt
    <2>2. CASE wt' = [wt EXCEPT ![s].pc = "exit", ![s].intr = FALSE]
      <3>1. wt'[s] = [w EXCEPT !.pc = "exit", !.intr = FALSE]  BY <2>2, <1>2
      <3>2. WriterOK(wt'[s], s, started)  BY <3>1, <2>1, <1>1
      <3> QED BY <1>f, <2>2, <3>2, <1>1 DEF Only, Writers
    <2> QED BY <2>1, <2>2, <1>6, <1>n, <1>x DEF WriterWait
  <1>7. CASE WriterSeekClear(s)
    <2>1. CASE ClearDone(s, "seekClear", "seekClearAdd")
               /\ wt' = [wt EXCEPT ![s].pc = "put", ![s].clr = NoBuffer,
                    ![wt[s].obj].seeking = FALSE]
      <3>1. w.pc \in {"seekClear", "seekClearAdd"}  BY <2>1 DEF ClearDone, WAt
      <3> DEFINE f == [wt EXCEPT ![s].pc = "put", ![s].clr = NoBuffer]
      <3>2. f[s] = [w EXCEPT !.pc = "put", !.clr = NoBuffer]  BY <1>2
      <3>3. WriterOK(f[s], s, started)
        <4> HIDE DEF f
        <4> QED BY <3>1, <3>2, <1>1
      <3>4. Only(wt, f, s)  BY <1>1 DEF Only, Writers
      <3>5. wt' = [f EXCEPT ![wt[s].obj].seeking = FALSE]  BY <2>1
      <3> HIDE DEF f
      <3>6. Writers(f, started)  BY <1>f, <3>3, <3>4
      <3>7. wt[s].obj \in Sessions /\ wt[s].obj <= started
        BY <3>1, WriterHas
      <3> QED BY <3>5, <3>6, <3>7, <1>1, WriterFlagged
    <2> QED BY <2>1, <1>7, <1>t DEF WriterSeekClear
  <1>8. CASE WriterPut(s)
    <2>1. w.pc = "put"  BY <1>8 DEF WriterPut, WAt
    <2>2. CASE wt' = [wt EXCEPT ![s].pc = "exit", ![s].intr = FALSE,
               ![s].held = NoBuffer]
      <3>1. wt'[s] = [w EXCEPT !.pc = "exit", !.intr = FALSE, !.held = NoBuffer]
        BY <2>2, <1>2
      <3>2. WriterOK(wt'[s], s, started)  BY <3>1, <2>1, <1>1
      <3> QED BY <1>f, <2>2, <3>2, <1>1 DEF Only, Writers
    <2>3. CASE wt' = [wt EXCEPT ![s].pc = "top", ![s].held = NoBuffer]
      <3>1. wt'[s] = [w EXCEPT !.pc = "top", !.held = NoBuffer]  BY <2>3, <1>2
      <3>2. WriterOK(wt'[s], s, started)  BY <3>1, <2>1, <1>1
      <3> QED BY <1>f, <2>3, <3>2, <1>1 DEF Only, Writers
    <2> QED BY <2>2, <2>3, <1>8 DEF WriterPut
  <1>9. CASE WriterExit(s)
    <2>1. CASE ClearDone(s, "exit", "exitAdd") /\ Forget(s)
      <3>1. w.pc \in {"exit", "exitAdd"}  BY <2>1 DEF ClearDone, WAt
      <3> QED BY <2>1, <3>1, <1>o
    <2> QED BY <2>1, <1>9, <1>t DEF WriterExit
  <1>10. CASE WriterForget(s)  BY <1>10, <1>o DEF WriterForget, WAt
  <1>11. CASE WriterTimesOut(s)  BY <1>11, <1>x DEF WriterTimesOut, WAt
  <1>12. CASE WriterPlayed(s)  BY <1>12, <1>x DEF WriterPlayed, WAt
  <1> QED BY <1>3, <1>4, <1>5, <1>6, <1>7, <1>8, <1>9, <1>10, <1>11, <1>12
          DEF WriterStep

\* A failing output sets ERROR; at its end a writer forgets the Writer.
LEMMA WriterStepShared ==
    ASSUME Sound, NEW s \in Sessions, WriterStep(s)
    PROVE  Shared' /\ started' = started /\ robj' = robj /\ rt' = rt
  <1>1. /\ state' \in {state, ERROR} /\ started' = started /\ reader' = reader
        /\ writerThread' = writerThread /\ silent' = silent
        /\ pos' = pos /\ playingTrack' = playingTrack /\ native' = native
        /\ crashed' \in {crashed, TRUE} /\ main' = main
        /\ robj' = robj /\ rt' = rt
    BY DEF WriterStep, WriterNew, WriterEnter, WriterTop, WriterWait, WriterTimesOut,
       WriterPlayed, PlayNext,
       WriterSeekClear, ClearTake, ClearAdd, WriterPut, WriterExit, Forget,
       WriterForget, playerVars, listVars
  <1>2. writer' \in {writer, None} \/ (writer' = s /\ wt[s].pc = "new")
    BY DEF WriterStep, WriterNew, WriterEnter, WriterTop, WriterWait, WriterTimesOut,
       WriterPlayed, PlayNext,
       WriterSeekClear, ClearTake, ClearAdd, WriterPut, WriterExit, Forget,
       WriterForget, playerVars, listVars, WAt
  <1>3. writer' \in 0..started
    <2>1. wt[s].pc = "new" => s <= started  BY WriterHas DEF WriterOK
    <2> QED BY <1>2, <2>1, WriterHas DEF Sound, Shared, None
  <1> QED BY <1>1, <1>3 DEF Sound, Shared

\* A writer takes from the full queue and adds cleared buffers to the empty
\* one.
LEMMA WriterStepQueues ==
    ASSUME Sound, NEW s \in Sessions, WriterStep(s)
    PROVE  Queues'
  <1> DEFINE w == wt[s]
             q == WPair(s)
  <1>0. Queues /\ WriterOK(w, s, started)  BY WriterHas DEF Sound
  <1>1. SUFFICES ASSUME <<empty, full>>' # <<empty, full>>
                 PROVE  Queues'
    BY <1>0 DEF Queues
  <1>2. w.pc \in WriterLoop
    BY <1>1 DEF WriterStep, WriterNew, WriterEnter, WriterTop, WriterWait, WriterTimesOut,
       WriterPlayed,
       WriterSeekClear, ClearTake, ClearAdd, ClearDone, WriterPut, WriterExit,
       WriterForget, Forget, WAt, queueVars, WriterLoop, WriterPcs
  <1>3. q \in Sessions  BY <1>2, WriterHas
  <1>4. \/ empty' = empty /\ full[q] # << >>
             /\ full' = [full EXCEPT ![q] = Tail(@)]
        \/ empty' = empty /\ full' = [full EXCEPT ![q] = << >>]
        \/ /\ Len(empty[q]) < N /\ full' = full
           /\ \/ w.pc = "put"
                   /\ empty' = [empty EXCEPT ![q] = Append(@, w.held)]
              \/ /\ w.pc \in {"seekClearAdd", "exitAdd"}
                 /\ empty' = [empty EXCEPT ![q] = Append(@, w.clr)]
    BY <1>1 DEF WriterStep, WriterNew, WriterEnter, WriterTop, WriterWait, WriterTimesOut,
       WriterPlayed,
       PlayNext, WriterSeekClear, ClearTake, ClearAdd, ClearDone, WriterPut,
       WriterExit, WriterForget, Forget, WAt, queueVars
  <1>5. CASE empty' = empty /\ full[q] # << >>
             /\ full' = [full EXCEPT ![q] = Tail(@)]
    BY <1>0, <1>3, <1>5, FullTakes
  <1>6. CASE empty' = empty /\ full' = [full EXCEPT ![q] = << >>]
    BY <1>0, <1>3, <1>6, FullClears
  <1>7. CASE Len(empty[q]) < N /\ full' = full
             /\ empty' = [empty EXCEPT ![q] = Append(@, Cleared)]
    BY <1>0, <1>3, <1>7, EmptyAdds
  <1> QED BY <1>0, <1>4, <1>5, <1>6, <1>7 DEF WriterOK

LEMMA WriterStepSound ==
    ASSUME Sound, NEW s \in Sessions, WriterStep(s)
    PROVE  Sound'
BY WriterStepWriters, WriterStepShared, WriterStepQueues DEF Sound

-----------------------------------------------------------------------------
(***************************************************************************)
(* The commands of the main thread. Spawn gives a new session its threads  *)
(* and its Reader, and the queue pair that start() found.                  *)
(***************************************************************************)
LEMMA SpawnSound ==
    ASSUME Sound, NEW objs, Objects(objs, started), started < MaxStarts,
           NEW first \in Tracks, NEW resuming \in BOOLEAN,
           Spawn(started + 1, first, resuming, objs)
    PROVE  Readers(rt', started') /\ Writers(wt', started')
           /\ Objects(robj', started')
  <1> DEFINE s == started + 1
             pair == IF reader = None THEN s ELSE objs[reader].pair
  <1>1. /\ started \in Nat /\ s \in Nat /\ s \in Sessions /\ started' = s
        /\ \A x \in Sessions : x \in Nat /\ x # None
        /\ \A x \in Sessions \ {s} : x > started <=> x > s
        /\ \A x \in 0..started : x \in 0..s
        /\ \A x \in 1..s : x \in Sessions
        /\ ~(s > s) /\ s > started
    BY BoundsAssumption DEF Sound, Shared, Sessions, Spawn, None
  <1>p. pair \in 1..s
    <2>1. reader \in 0..started  BY DEF Sound, Shared
    <2>2. ASSUME reader # None  PROVE reader \in Sessions /\ reader <= started
      BY <2>1, <2>2, <1>1 DEF None
    <2>3. ASSUME reader # None  PROVE ObjectOK(objs[reader], reader, started)
      BY <2>2, <2>3 DEF Objects
    <2> QED BY <2>2, <2>3, <1>1 DEF ObjectOK
  <1> HIDE DEF pair
  <1>2. /\ robj' = [objs EXCEPT ![s].queued = first, ![s].resuming = resuming,
             ![s].pair = pair]
        /\ rt' = [rt EXCEPT ![s].pc = "new"]
        /\ wt' = [wt EXCEPT ![s].pc = "new", ![s].pair = pair]
    BY DEF Spawn, pair
  <1>3. Readers(rt, started) /\ Writers(wt, started)  BY DEF Sound
  <1>4. Readers(rt', s)
    <2>1. ReaderOK(rt[s], s, started)  BY <1>1, <1>3 DEF Readers
    <2>2. rt'[s] = [rt[s] EXCEPT !.pc = "new"]  BY <1>1, <1>2, <1>3 DEF Readers
    <2>3. rt'[s] \in ReaderT  BY <2>1, <2>2 DEF ReaderOK, ReaderT, ReaderPcs
    <2>4. rt'[s].pc = "new" /\ rt'[s].obj = rt[s].obj /\ rt'[s].clr = rt[s].clr
      BY <2>1, <2>2 DEF ReaderOK, ReaderT
    <2>5. ReaderOK(rt'[s], s, s)
      BY <1>1, <2>1, <2>3, <2>4 DEF ReaderOK, ReaderLoop
    <2>6. \A x \in Sessions \ {s} : rt'[x] = rt[x]
          /\ ReaderOK(rt[x], x, started)
      BY <1>2, <1>3, <1>1 DEF Readers
    <2>7. \A x \in Sessions \ {s} : ReaderOK(rt'[x], x, s)
      BY <2>6, <1>1 DEF ReaderOK
    <2>8. rt' = [x \in Sessions |-> rt'[x]]  BY <1>2, <1>3 DEF Readers
    <2>9. \A x \in Sessions : ReaderOK(rt'[x], x, s)  BY <2>5, <2>7
    <2>10. \A x \in Sessions : rt'[x] \in ReaderT  BY <2>9 DEF ReaderOK
    <2> QED BY <2>8, <2>9, <2>10 DEF Readers
  <1>5. Writers(wt', s)
    <2>1. WriterOK(wt[s], s, started)  BY <1>1, <1>3 DEF Writers
    <2>2. wt'[s] = [wt[s] EXCEPT !.pc = "new", !.pair = pair]
      BY <1>1, <1>2, <1>3 DEF Writers
    <2>3. wt'[s] \in WriterT
      BY <1>1, <1>p, <2>1, <2>2 DEF WriterOK, WriterT, WriterPcs
    <2>4. wt'[s].pc = "new" /\ wt'[s].obj = wt[s].obj /\ wt'[s].pair = pair
      BY <2>1, <2>2 DEF WriterOK, WriterT
    <2>5. WriterOK(wt'[s], s, s)
      BY <1>1, <1>p, <2>1, <2>3, <2>4 DEF WriterOK, WriterLoop
    <2>6. \A x \in Sessions \ {s} : wt'[x] = wt[x]
          /\ WriterOK(wt[x], x, started)
      BY <1>2, <1>3, <1>1 DEF Writers
    <2>7. \A x \in Sessions \ {s} : x <= s <=> x <= started
      BY <1>1
    <2>7a. \A y \in 1..started : y \in 1..s
      BY <1>1
    <2>7b. \A x \in Sessions \ {s} : WriterOK(wt'[x], x, s)
      BY <2>6, <2>7, <2>7a, <1>1 DEF WriterOK
    <2>8. wt' = [x \in Sessions |-> wt'[x]]  BY <1>2, <1>3 DEF Writers
    <2>9. \A x \in Sessions : WriterOK(wt'[x], x, s)  BY <2>5, <2>7b
    <2>10. \A x \in Sessions : wt'[x] \in WriterT  BY <2>9 DEF WriterOK
    <2> QED BY <2>8, <2>9, <2>10 DEF Writers
  <1>6. Objects(robj', s)
    <2>1. ObjectOK(objs[s], s, started)  BY <1>1 DEF Objects
    <2>2. robj'[s] = [objs[s] EXCEPT !.queued = first, !.resuming = resuming,
          !.pair = pair]
      BY <1>1, <1>2 DEF Objects
    <2>3. robj'[s] \in ObjectT  BY <1>1, <1>p, <2>1, <2>2 DEF ObjectOK, ObjectT
    <2>4. robj'[s].pair = pair
      BY <2>1, <2>2 DEF ObjectOK, ObjectT
    <2>5. ObjectOK(robj'[s], s, s)
      BY <1>1, <1>p, <2>3, <2>4 DEF ObjectOK
    <2>6. \A x \in Sessions \ {s} : robj'[x] = objs[x]
          /\ ObjectOK(objs[x], x, started)
      BY <1>2, <1>1 DEF Objects
    <2>7. \A x \in Sessions \ {s} : x <= s <=> x <= started
      BY <1>1
    <2>7a. \A y \in 1..started : y \in 1..s
      BY <1>1
    <2>7b. \A x \in Sessions \ {s} : ObjectOK(robj'[x], x, s)
      BY <2>6, <2>7, <2>7a, <1>1 DEF ObjectOK
    <2>8. robj' = [x \in Sessions |-> robj'[x]]  BY <1>2 DEF Objects
    <2>9. \A x \in Sessions : ObjectOK(robj'[x], x, s)  BY <2>5, <2>7b
    <2>10. \A x \in Sessions : robj'[x] \in ObjectT  BY <2>9 DEF ObjectOK
    <2> QED BY <2>8, <2>9, <2>10 DEF Objects
  <1> QED BY <1>1, <1>4, <1>5, <1>6

\* start() leaves a playing player alone, turns it PLAYING without a track to
\* play, or spawns a session.
LEMMA StartSound ==
    ASSUME Sound, NEW objs, Objects(objs, started),
           NEW t \in Tracks \cup {NoTrack}, start(t, objs), pos' \in Tracks,
           UNCHANGED <<playingTrack, queueVars, native, crashed, main>>
    PROVE  Sound'
  <1>1. Queues'  BY DEF Sound, Queues, queueVars
  <1>2. state' \in {state, PLAYING} /\ reader' = reader /\ writer' = writer
        /\ silent' \in {silent, TRUE, FALSE}
        /\ \/ /\ UNCHANGED <<started, writerThread, rt, wt>> /\ robj' = objs
           \/ /\ started < MaxStarts /\ writerThread' = started + 1
                   /\ started' = started + 1
              /\ \E first \in Tracks, resuming \in BOOLEAN : Spawn(started + 1,
                   first, resuming, objs)
    BY DEF start, Spawn, playerVars, Sound, Shared
  <1>3. started \in 0..MaxStarts /\ MaxStarts \in Nat
    BY BoundsAssumption DEF Sound, Shared
  <1>4. Shared'
    <2>1. /\ started' \in 0..MaxStarts
          /\ {reader, writer, writerThread}' \subseteq 0..started'
      <3>1. {reader, writer, writerThread} \subseteq 0..started
        BY DEF Sound, Shared
      <3> QED BY <1>2, <1>3, <3>1
    <2>2. /\ playingTrack' = playingTrack /\ native' = native
          /\ crashed' = crashed /\ main' = main
      OBVIOUS
    <2> QED BY <1>2, <2>1, <2>2 DEF Sound, Shared
  <1>5. Readers(rt', started') /\ Writers(wt', started')
        /\ Objects(robj', started')
    BY <1>2, SpawnSound DEF Sound
  <1> QED BY <1>1, <1>4, <1>5 DEF Sound

\* Queueing a track in the current Reader keeps its type.
LEMMA QueuedSound ==
    ASSUME Sound, reader # None, NEW objs,
           \/ \E t \in Tracks \cup {NoTrack} :
                objs = [robj EXCEPT ![reader].queued = t]
           \/ objs = [robj EXCEPT ![reader].seek = TRUE]
    PROVE  Objects(objs, started)
  <1>1. reader \in Sessions /\ reader <= started /\ started \in Nat
    BY BoundsAssumption DEF Sound, Shared, Sessions, None
  <1>2. ObjectOK(robj[reader], reader, started)  BY <1>1 DEF Sound, Objects
  <1>3. \/ \E t \in Tracks \cup {NoTrack} :
             objs[reader] = [robj[reader] EXCEPT !.queued = t]
        \/ objs[reader] = [robj[reader] EXCEPT !.seek = TRUE]
    BY <1>1 DEF Sound, Objects
  <1>4. objs[reader] \in ObjectT /\ objs[reader].pair = robj[reader].pair
    BY <1>2, <1>3 DEF ObjectOK, ObjectT
  <1>5. ObjectOK(objs[reader], reader, started)  BY <1>2, <1>4 DEF ObjectOK
  <1>6. Only(robj, objs, reader)  BY <1>1 DEF Only, Sound, Objects
  <1> QED BY <1>1, <1>5, <1>6, ObjectFrame DEF Sound

\* A track is queued in the current Reader, and the player started, or it is
\* started with that track.
LEMMA QueueOrStartSound ==
    ASSUME Sound, NEW t \in Tracks \cup {NoTrack}, QueueOrStart(t),
           pos' \in Tracks,
           UNCHANGED <<playingTrack, queueVars, native, crashed, main>>
    PROVE  Sound'
  <1>1. CASE reader = None
    BY <1>1, StartSound DEF QueueOrStart, Sound
  <1>2. CASE reader # None
    <2>1. PICK objs : objs = [robj EXCEPT ![reader].queued = t]
               /\ start(NoTrack, objs)
      BY <1>2 DEF QueueOrStart
    <2>2. Objects(objs, started)  BY <1>2, <2>1, QueuedSound
    <2> QED BY <2>1, <2>2, StartSound
  <1> QED BY <1>1, <1>2

LEMMA SeekSound ==
    ASSUME Sound, Seek
    PROVE  Sound'
  <1>1. Objects(robj', started)  BY QueuedSound DEF Seek
  <1> QED
    BY <1>1 DEF Seek, Sound, Shared, Queues, playerVars, listVars, queueVars

\* Every command keeps the invariant.
LEMMA CommandSound ==
    ASSUME Sound,
           \/ Start \/ (\E p \in Tracks : Play(p)) \/ SkipToNext \/ SkipToPrev
           \/ SeekBar \/ Pause \/ Stop \/ StopReturns \/ Leave
    PROVE  Sound'
  <1>1. pos \in Tracks  BY DEF Sound, Shared
  <1>2. NextPos \in Tracks
    BY BoundsAssumption DEF NextPos, Sound, Shared, Tracks
  <1>3. CASE Start
    BY <1>1, <1>3, StartSound DEF Start, Sound, listVars
  <1>4. ASSUME NEW p \in Tracks, Play(p)  PROVE Sound'
    BY <1>4, QueueOrStartSound DEF Play
  <1>5. CASE SkipToNext
    BY <1>1, <1>2, <1>5, QueueOrStartSound DEF SkipToNext
  <1>6. CASE SkipToPrev
    <2>1. pos > 1 => pos - 1 \in Tracks
      BY <1>1, BoundsAssumption DEF Tracks
    <2> QED BY <1>6, <2>1, QueueOrStartSound, SeekSound DEF SkipToPrev
  <1>7. CASE SeekBar  BY <1>7, SeekSound DEF SeekBar
  <1>8. CASE Pause
    BY <1>8, InterruptSound DEF Pause, Sound, Shared, Queues, listVars,
       queueVars
  <1>9. CASE Stop
    BY <1>9 DEF Stop, stop, Sound, Shared, Queues, listVars, queueVars
  <1>11. CASE StopReturns
    <2>1. Writers(wt', started)
      BY <1>11, InterruptSound DEF StopReturns, StopReader
    <2>2. native' \in NativeT
      BY <1>11, NativeOps DEF StopReturns, StopReader, Sound, Shared
    <2>3. Shared' /\ started' = started
      <3>1. 0 \in 0..started  BY BoundsAssumption DEF Sound, Shared
      <3> QED BY <1>11, <2>2, <3>1
              DEF StopReturns, StopReader, Sound, Shared, listVars, None
    <2> QED BY <1>11, <2>1, <2>3 DEF StopReturns, Sound, Queues, queueVars
  <1>10. CASE Leave
    BY <1>10 DEF Leave, Sound, Shared, Queues, playerVars, listVars, queueVars
  <1> QED BY <1>3, <1>4, <1>5, <1>6, <1>7, <1>8, <1>9, <1>10, <1>11

-----------------------------------------------------------------------------
(***************************************************************************)
(* The invariant of any number of sessions, and what follows from it.      *)
(***************************************************************************)
\* Records whose fields range over smaller sets.
LEMMA RecordsGrow ==
    ASSUME NEW A, NEW B, NEW C, NEW D, NEW T, NEW L, NEW E, NEW V,
           A \subseteq T, B \subseteq L, C \subseteq E, D \subseteq V,
           NEW n \in [track : A, left : B, err : C, vgm : D]
    PROVE  n \in [track : T, left : L, err : E, vgm : V]
OBVIOUS

\* At first there are no threads, no Readers and no buffers.
LEMMA InitSound == Init => Sound
  <1> SUFFICES ASSUME Init PROVE Sound
    OBVIOUS
  <1>1. MaxStarts \in Nat /\ \A x \in Sessions : x \in Nat /\ x > 0
    BY BoundsAssumption DEF Sessions
  <1>2. Shared
    <2>1. native \in NativeT
      <3>1. 0 \in 0..TrackLen /\ Vgm \subseteq BOOLEAN
        BY BoundsAssumption
      <3>2. native \in [track : {NoTrack}, left : {0}, err : {FALSE}, vgm : Vgm]
        BY DEF Init
      <3>3. /\ {NoTrack} \subseteq Tracks \cup {NoTrack}
            /\ {0} \subseteq 0..TrackLen /\ {FALSE} \subseteq BOOLEAN
        BY <3>1
      <3> QED BY <3>1, <3>2, <3>3, RecordsGrow DEF NativeT
    <2>2. /\ state = STOPPED /\ reader = None /\ writer = None
          /\ writerThread = None /\ started = 0 /\ silent = FALSE /\ pos = 1
          /\ playingTrack = NoTrack /\ crashed = FALSE /\ main = "idle"
      BY DEF Init
    <2>3. 0 \in 0..MaxStarts /\ None \in 0..0 /\ 1 \in Tracks
      BY <1>1, BoundsAssumption DEF Tracks, None
    <2> QED BY <2>1, <2>2, <2>3 DEF Shared
  <1>3. Readers(rt, 0)
    BY <1>1 DEF Init, Readers, ReaderOK, ReaderT, ReaderPcs, ReaderLoop, None
  <1>4. Writers(wt, 0)
    BY <1>1 DEF Init, Writers, WriterOK, WriterT, WriterPcs, WriterLoop, None
  <1>5. Objects(robj, 0)
    BY <1>1 DEF Init, Objects, ObjectOK, ObjectT
  <1>6. Queues
    BY NoQueue DEF Init, Queues, ClearedQueue, Queue
  <1> QED BY <1>2, <1>3, <1>4, <1>5, <1>6 DEF Sound, Init

\* Every step keeps Sound.
LEMMA NextSound == Sound /\ [Next]_vars => Sound'
  <1> SUFFICES ASSUME Sound, [Next]_vars PROVE Sound'
    OBVIOUS
  <1>1. CASE UNCHANGED vars
    BY <1>1 DEF vars, playerVars, listVars, queueVars, Sound, Shared, Queues
  <1>2. CASE Next
    BY <1>2, CommandSound, ReaderStepSound, WriterStepSound DEF Next
  <1> QED BY <1>1, <1>2

LEMMA SoundIsInvariant == Spec => []Sound
BY InitSound, NextSound, PTL DEF Spec

(***************************************************************************)
(* Every field of the player, its Readers and Writers and the emulator     *)
(* keeps its type, and no ArrayBlockingQueue exceeds its capacity, whatever*)
(* threads of earlier sessions are still on their way out (Player.kt,      *)
(* Reader.kt, Writer.kt).                                                  *)
(***************************************************************************)
THEOREM TypeCorrect == Spec => []TypeOK
  <1>1. Sound => TypeOK
    <2> SUFFICES ASSUME Sound PROVE TypeOK
      OBVIOUS
    <2>1. \A x \in 0..started : x \in Sessions \cup {None}
      BY BoundsAssumption DEF Sound, Shared, Sessions, None
    <2>2. Shared /\ Queues  BY DEF Sound
    <2>3. rt \in [Sessions -> ReaderT] /\ wt \in [Sessions -> WriterT]
          /\ robj \in [Sessions -> ObjectT]
      BY DEF Sound, Readers, Writers, Objects
    <2> QED BY <2>1, <2>2, <2>3 DEF TypeOK, Shared, Queues, ClearedQueue, Queue,
               ReaderT, WriterT, ObjectT, NativeT
  <1> QED BY <1>1, SoundIsInvariant, PTL

(***************************************************************************)
(* Every buffer in an empty queue has had its timestamp cleared, whichever *)
(* thread returned it (resetEmptyBuffers and clearBuffers in either thread,*)
(* the put after playing), with any number of sessions: Reader.kt:108 never*)
(* logs "Timestamp not cleared".                                           *)
(***************************************************************************)
THEOREM EmptyBuffersAreCleared == Spec => []EmptyBuffersCleared
  <1>1. Sound => EmptyBuffersCleared
    BY DEF Sound, Queues, ClearedQueue, EmptyBuffersCleared
  <1> QED BY <1>1, SoundIsInvariant, PTL

-----------------------------------------------------------------------------
(***************************************************************************)
(* One session. What the queues hold, and what there is of the first       *)
(* session.                                                                *)
(***************************************************************************)
LEMMA FirstSession == 1 \in Sessions
BY BoundsAssumption DEF Sessions

LEMMA QueueFacts ==
    ASSUME NEW q, Queue(q), q # << >>
    PROVE  /\ \A t : From(q, t) => From(Tail(q), t)
           /\ Timely(q) => Timely(Tail(q)) /\ Head(q).ts = 0
           /\ Len(Tail(q)) = Len(q) - 1 /\ Len(q) > 0
  <1>1. Len(q) \in Nat /\ Len(q) > 0 /\ Head(q) = q[1]  BY DEF Queue
  <1> QED BY <1>1, CutQueue DEF From, Timely

LEMMA NoQueueFacts ==
    /\ \A t : From(<< >>, t)
    /\ Timely(<< >>)
    /\ Len(<< >>) = 0
BY DEF From, Timely

LEMMA AppendFacts ==
    ASSUME NEW q, Queue(q), Len(q) < N, NEW b \in Buffers
    PROVE  /\ From(q, b.trk) => From(Append(q, b), b.trk)
           /\ Timely(q) /\ b.ts = 0 => Timely(Append(q, b))
           /\ Len(Append(q, b)) = Len(q) + 1
  <1> QED BY GrownQueue DEF From, Timely

\* What there is while there has been one start().
LEMMA OneHas ==
    ASSUME Sound, started <= 1
    PROVE  /\ Reader1 \in ReaderT /\ Writer1 \in WriterT /\ Object1 \in ObjectT
           /\ ReaderOK(Reader1, 1, started) /\ WriterOK(Writer1, 1, started)
           /\ Queue(Full1) /\ Queue(Empty1) /\ Len(Full1) \in 0..N
                /\ Len(Empty1) \in 0..N
           /\ reader \in {0, 1} /\ writer \in {0, 1} /\ writerThread \in {0, 1}
           /\ \A s \in Sessions : rt[s].pc # "unborn" => s = 1
           /\ \A s \in Sessions : wt[s].pc # "unborn" => s = 1
           /\ Reader1.pc # "unborn" => Object1.pair = 1 /\ Writer1.pair = 1
           /\ Writer1.pc # "unborn" => Object1.pair = 1 /\ Writer1.pair = 1
           /\ Reader1.pc \in ReaderLoop =>
                Reader1.obj = 1 /\ Obj(1) = Object1
           /\ Reader1.pc \in {"clear", "clearAdd"} => Reader1.clr = 1
           /\ Writer1.pc \in WriterLoop => Writer1.obj = 1 /\ WPair(1) = 1
                /\ Seeking(1) = Writer1.seeking
  <1>1. ReaderOK(Reader1, 1, started) /\ WriterOK(Writer1, 1, started)
        /\ ObjectOK(Object1, 1, started) /\ ClearedQueue(Empty1) /\ Queue(Full1)
    BY FirstSession DEF Sound, Readers, Writers, Objects, Queues, Reader1,
       Writer1, Object1, Empty1, Full1
  <1>2. Reader1 \in ReaderT /\ Writer1 \in WriterT /\ Object1 \in ObjectT
        /\ Queue(Full1) /\ Queue(Empty1)
    BY <1>1 DEF ReaderOK, WriterOK, ObjectOK, ClearedQueue
  <1>3. Len(Full1) \in 0..N /\ Len(Empty1) \in 0..N
    BY <1>2, BoundsAssumption DEF Queue
  <1>4. started \in {0, 1}
        /\ {reader, writer, writerThread} \subseteq 0..started
    BY DEF Sound, Shared
  <1>5. reader \in {0, 1} /\ writer \in {0, 1} /\ writerThread \in {0, 1}
    BY <1>4
  <1>6. \A s \in Sessions : (s > started => s # 1 \/ started = 0)
        /\ (~(s > started) => s = 1)
    BY <1>4, BoundsAssumption DEF Sessions
  <1>7. \A s \in Sessions : (rt[s].pc # "unborn" => s = 1)
        /\ (wt[s].pc # "unborn" => s = 1)
    BY <1>6 DEF Sound, Readers, Writers, ReaderOK, WriterOK
  <1>8. ASSUME Reader1.pc # "unborn" \/ Writer1.pc # "unborn"
        PROVE  Object1.pair = 1 /\ Writer1.pair = 1
    <2>1. started = 1  BY <1>1, <1>4, <1>8 DEF ReaderOK, WriterOK
    <2> QED BY <2>1, <1>1 DEF WriterOK, ObjectOK
  <1>9. Reader1.pc \in ReaderLoop => Reader1.obj = 1 /\ Obj(1) = Object1
    BY <1>1, <1>4 DEF ReaderOK, None, Obj, Reader1, Object1
  <1>10. Reader1.pc \in {"clear", "clearAdd"} => Reader1.clr = 1
    BY <1>1, <1>4 DEF ReaderOK, None
  <1>11. ASSUME Writer1.pc \in WriterLoop
         PROVE  Writer1.obj = 1 /\ WPair(1) = 1 /\ Seeking(1) = Writer1.seeking
    <2>1. Writer1.obj = 1  BY <1>1, <1>4, <1>11 DEF WriterOK, None
    <2>2. Writer1.pair = 1  BY <1>8, <1>11 DEF WriterLoop
    <2> QED BY <2>1, <2>2 DEF WPair, Seeking, Writer1
  <1> QED BY <1>1, <1>2, <1>3, <1>5, <1>7, <1>8, <1>9, <1>10, <1>11

-----------------------------------------------------------------------------
(***************************************************************************)
(* One session: the steps of the reader. None of them starts a session, and*)
(* only the end of the playlist touches the player's state or the writer.  *)
(***************************************************************************)
LEMMA OneReaderKeeps ==
    ASSUME Sound, started <= 1, NEW s \in Sessions, ReaderStep(s)
    PROVE  /\ s = 1 /\ Reader1.pc # "unborn"
           /\ started' = started /\ silent' = silent /\ writer' = writer
           /\ crashed' = crashed /\ main' = main /\ Writer1'.pc = Writer1.pc
           /\ state' \in {state, STOPPED}
           /\ ~ReaderEnded(s) => state' = state
           /\ ~ReaderStops(s) => Writer1'.intr = Writer1.intr
  <1>1. s = 1 /\ Reader1.pc # "unborn"
    <2>1. rt[s].pc # "unborn"
      BY DEF ReaderStep, ReaderNew, ReaderEnter, ReaderTop, ReaderReset,
         ResetTake, ResetOffer, ResetDone, ReaderTeardown, ReaderLoad,
         ReaderNotify, ReaderClear, ReaderClearAdd, ReaderSeek, ReaderSeekDone,
         ReaderOver, ReaderEnded, ReaderPoll, ReaderStamp, ReaderPut,
         ReaderExit, ReaderForget, ReaderMake, ReaderNext,
       ReaderQueue, ReaderStops, At
    <2> QED BY <2>1, OneHas DEF Reader1
  <1>2. started' = started /\ silent' = silent /\ writer' = writer
        /\ crashed' = crashed /\ main' = main
    BY DEF ReaderStep, ReaderNew, ReaderEnter, ReaderTop, ReaderReset,
       ResetTake, ResetOffer, ReaderTeardown, ReaderLoad, ReaderNotify,
       ReaderClear, ReaderClearAdd, ReaderSeek, ReaderSeekDone, ReaderOver,
       ReaderEnded, ReaderPoll, ReaderStamp, ReaderPut, ReaderExit,
       ReaderForget, ReaderMake, ReaderNext,
       ReaderQueue, ReaderStops, stop, StopReader, playerVars
  <1>3. /\ state' = state \/ (ReaderEnded(s) /\ state' = STOPPED)
        /\ \/ wt' = wt
           \/ wt' = [wt EXCEPT ![writer].seeking = TRUE]
           \/ ReaderStops(s) /\ wt' = [wt EXCEPT ![writerThread].intr = TRUE]
    BY DEF ReaderStep, ReaderNew, ReaderEnter, ReaderTop, ReaderReset,
       ResetTake, ResetOffer, ReaderTeardown, ReaderLoad, ReaderNotify,
       ReaderClear, ReaderClearAdd, ReaderSeek, ReaderSeekDone, ReaderOver,
       ReaderEnded, ReaderPoll, ReaderStamp, ReaderPut, ReaderExit,
       ReaderForget, ReaderMake, ReaderNext,
       ReaderQueue, ReaderStops, stop, StopReader, Interrupt, playerVars
  <1>4. Writer1 \in WriterT /\ wt \in [Sessions -> WriterT]
    BY OneHas DEF Sound, Writers
  <1>5. Writer1'.pc = Writer1.pc
        /\ ((\E x : wt' = [wt EXCEPT ![x].seeking = TRUE])
             => Writer1'.intr = Writer1.intr)
    BY <1>3, <1>4, FirstSession DEF Writer1, WriterT
  <1> QED BY <1>1, <1>2, <1>3, <1>5 DEF Writer1

\* The top of the loop: a new track to work on, or back to where it was.
LEMMA OneTop ==
    ASSUME Sound, One, started <= 1, NEW s \in Sessions, ReaderTop(s)
    PROVE  One'
  <1>1. s = 1
        /\ UNCHANGED <<started, silent, writer, crashed, main, state, playingTrack,
             native, Full1, Empty1>>
        /\ Writer1'.pc = Writer1.pc /\ Writer1'.intr = Writer1.intr
    BY OneReaderKeeps DEF ReaderStep, ReaderTop, playerVars, listVars,
       queueVars, ReaderEnded, ReaderStops, At, Full1, Empty1, Writer1
  <1>2. Reader1.pc = "top" /\ DOMAIN rt = Sessions /\ DOMAIN robj = Sessions
    BY <1>1 DEF ReaderTop, At, Reader1, Sound, Readers, Objects
  <1>3. Object1'.cur = Object1.cur /\ Object1'.backend = Object1.backend
    BY <1>1, <1>2, OneHas, FirstSession DEF ReaderTop, Object1, Sound, Objects,
       ObjectT
  <1>4. \/ Reader1'.pc \in {"exit", "seek", "over"}
        \/ Reader1'.pc \in {"reset", "notify"} /\ Reader1'.tgt # NoTrack
    BY <1>1, <1>2, OneHas, FirstSession, BoundsAssumption DEF ReaderTop,
       Reader1, ReaderT, Sound, Readers, Goto, Unqueued, NoTrack, Tracks
  <1>e. Reader1'.pc = "exit" => state # PLAYING
    BY <1>1, <1>2, OneHas, FirstSession, BoundsAssumption DEF ReaderTop,
       Reader1, ReaderT, Sound, Readers, Goto, Unqueued
  <1>5. OneAnnounced'  BY <1>1, <1>2, <1>3, <1>4 DEF One, OneAnnounced, Changing
  <1>6. OneSound'  BY <1>1, <1>2, <1>3, <1>4 DEF One, OneSound, Filling
  <1>7. OneCurrent'
    BY <1>1, <1>2, <1>3, <1>4, <1>e DEF One, OneCurrent, Looping, Hand
  <1> QED BY <1>5, <1>6, <1>7 DEF One

\* Before the loop.
LEMMA OneBorn ==
    ASSUME Sound, One, started <= 1, NEW s \in Sessions,
           \/ ReaderNew(s) \/ ReaderMake(s)
           \/ ReaderEnter(s) \/ ReaderForget(s)
    PROVE  One'
  <1>1. s = 1
        /\ UNCHANGED <<started, silent, writer, crashed, main, state, playingTrack,
             native, Full1, Empty1, Object1>>
        /\ Writer1'.pc = Writer1.pc /\ Writer1'.intr = Writer1.intr
    BY OneReaderKeeps DEF ReaderStep, ReaderNew, ReaderMake, ReaderEnter,
       ReaderForget, ReaderEnded, ReaderStops, At, playerVars, listVars, queueVars, Full1, Empty1, Object1
  <1>2. Reader1.pc \in {"new", "make", "enter", "forget"}
        /\ DOMAIN rt = Sessions
    BY <1>1 DEF ReaderNew, ReaderMake, ReaderEnter, ReaderForget, At, Reader1,
       Sound, Readers
  <1>3. \/ Reader1.pc = "new" /\ Reader1'.pc \in {"make", "enter"}
        \/ Reader1.pc = "make" /\ Reader1'.pc = "enter"
        \/ Reader1.pc = "enter" /\ Reader1'.pc \in {"top", "forget", "done"}
        \/ Reader1.pc = "forget" /\ Reader1'.pc = "done"
    BY <1>1, <1>2, OneHas, FirstSession DEF ReaderNew, ReaderMake, ReaderEnter,
       ReaderForget, Reader1, ReaderT, Goto, AfterLoop, At
  <1>4. OneAnnounced'  BY <1>1, <1>3 DEF One, OneAnnounced, Changing
  <1>5. OneSound'  BY <1>1, <1>3 DEF One, OneSound, Filling
  <1>6. OneCurrent'
    BY <1>1, <1>3, NoQueueFacts DEF One, OneSound, OneCurrent, Looping, Hand
  <1> QED BY <1>4, <1>5, <1>6 DEF One

\* resetEmptyBuffers.
LEMMA OneReset ==
    ASSUME Sound, One, started <= 1, NEW s \in Sessions,
           ReaderReset(s) \/ ReaderExit(s)
    PROVE  One'
  <1>1. s = 1
        /\ UNCHANGED <<started, silent, writer, crashed, main, state, playingTrack,
             native, Object1>>
        /\ Writer1'.pc = Writer1.pc /\ Writer1'.intr = Writer1.intr
    BY OneReaderKeeps DEF ReaderStep, ReaderReset, ReaderExit, ResetTake,
       ResetOffer, ResetDone, ReaderEnded, ReaderStops, At, playerVars, listVars, queueVars,
       Object1
  <1>2. /\ DOMAIN rt = Sessions /\ DOMAIN full = Sessions
             /\ DOMAIN empty = Sessions
        /\ Reader1 \in ReaderT /\ Queue(Full1) /\ Queue(Empty1)
        /\ Len(Full1) \in 0..N /\ Len(Empty1) \in 0..N /\ N \in Nat
    BY OneHas, BoundsAssumption DEF Sound, Readers, Queues
  <1>3. /\ Reader1.pc \in {"reset", "resetOffer", "exit", "exitOffer"}
        /\ Obj(1).pair = 1
    <2>1. Reader1.pc \in {"reset", "resetOffer", "exit", "exitOffer"}
      BY <1>1 DEF ReaderReset, ReaderExit, ResetTake, ResetOffer, ResetDone, At,
         Reader1
    <2> QED BY <2>1, OneHas DEF ReaderLoop, ReaderPcs
  <1>t. ASSUME NEW here \in {"reset", "exit"}, NEW offering \in {"resetOffer",
               "exitOffer"},
               here = "reset" <=> offering = "resetOffer",
               ResetTake(1, here, offering)
        PROVE  One'
    <2>1. Reader1.pc = here /\ Reader1'.pc = offering
          /\ Reader1'.tgt = Reader1.tgt
      BY <1>t, <1>2, FirstSession DEF ResetTake, At, Reader1, ReaderT
    <2>2. Len(Empty1) < N /\ Empty1' = Empty1
          /\ Full1' = IF Full1 = << >> THEN << >> ELSE Tail(Full1)
      BY <1>t, <1>2, <1>3, FirstSession DEF ResetTake, Full1, Empty1
    <2>3. /\ Full1 = << >> => Full1' = << >> /\ Len(Full1) = 0
               /\ Len(Full1') = 0
          /\ Full1 # << >> => Len(Full1') = Len(Full1) - 1
          /\ Timely(Full1) => Timely(Full1')
      BY <2>2, <1>2, QueueFacts, NoQueueFacts
    <2>4. OneAnnounced'  BY <1>1, <1>t, <2>1 DEF One, OneAnnounced, Changing
    <2>5. OneSound'  BY <1>1, <1>t, <2>1, <2>2, <2>3 DEF One, OneSound, Filling
    <2>6. OneCurrent'
      <3>1. Hand = 0 /\ Hand' = 1  BY <1>t, <2>1 DEF Hand
      <3>2. Len(Empty1) + Len(Full1) + Hand <= N
              => Len(Empty1') + Len(Full1') + Hand' <= N
        BY <3>1, <2>2, <2>3, <1>2
      <3>3. Reader1'.pc \notin Looping \cup {"teardown", "load", "notify",
         "clear", "clearAdd", "stop"}
        BY <1>t, <2>1 DEF Looping
      <3> QED BY <1>1, <3>2, <3>3 DEF One, OneCurrent, Looping
    <2> QED BY <2>4, <2>5, <2>6, <1>1 DEF One
  <1>o. ASSUME NEW here \in {"reset", "exit"}, NEW offering \in {"resetOffer",
               "exitOffer"},
               here = "reset" <=> offering = "resetOffer",
               ResetOffer(1, offering, here)
        PROVE  One'
    <2>1. Reader1.pc = offering /\ Reader1'.pc = here
          /\ Reader1'.tgt = Reader1.tgt
      BY <1>o, <1>2, FirstSession DEF ResetOffer, At, Reader1, ReaderT
    <2>2. Full1' = Full1 /\ Len(Empty1) < N
          /\ Empty1' = Append(Empty1, Reader1.held)
      BY <1>o, <1>2, <1>3, FirstSession DEF ResetOffer, Full1, Empty1, Reader1
    <2>3. Len(Empty1') = Len(Empty1) + 1
      BY <2>2, <1>2 DEF Queue
    <2>4. OneAnnounced'  BY <1>1, <1>o, <2>1 DEF One, OneAnnounced, Changing
    <2>5. OneSound'  BY <1>1, <1>o, <2>1, <2>2 DEF One, OneSound, Filling
    <2>6. OneCurrent'
      BY <1>1, <1>2, <1>o, <2>1, <2>2, <2>3 DEF One, OneCurrent, Looping, Hand
    <2> QED BY <2>4, <2>5, <2>6, <1>1 DEF One
  <1>d. ASSUME ~(\E here \in {"reset", "exit"}, offering \in {"resetOffer",
               "exitOffer"} :
                   (here = "reset" <=> offering = "resetOffer") /\
                   (ResetTake(1, here, offering)
                   \/ ResetOffer(1, offering, here)))
        PROVE  One'
    <2>1. /\ UNCHANGED <<Full1, Empty1>> /\ Len(Empty1) = N
          /\ \/ Reader1.pc \in {"reset", "resetOffer"}
                  /\ Reader1'.pc = "teardown" /\ Reader1'.tgt = Reader1.tgt
             \/ Reader1.pc \in {"exit", "exitOffer"}
                  /\ Reader1'.pc \in {"forget", "done"}
      BY <1>d, <1>1, <1>2, <1>3, FirstSession DEF ReaderReset, ReaderExit,
         ResetDone, At, AfterLoop, Reader1, ReaderT, Full1, Empty1, queueVars
    <2>2. Len(Full1) = 0 => Full1 = << >>
      BY <1>2 DEF Queue
    <2>4. OneAnnounced'  BY <1>1, <2>1 DEF One, OneAnnounced, Changing
    <2>5. OneSound'  BY <1>1, <2>1 DEF One, OneSound, Filling
    <2>6. OneCurrent'
      BY <1>1, <1>2, <2>1, <2>2 DEF One, OneCurrent, Looping, Hand
    <2> QED BY <2>4, <2>5, <2>6, <1>1 DEF One
  <1> QED BY <1>t, <1>o, <1>d

\* Teardown and load.
LEMMA OneLoad ==
    ASSUME Sound, One, started <= 1, NEW s \in Sessions,
           ReaderTeardown(s) \/ ReaderLoad(s)
    PROVE  One'
  <1>1. s = 1
        /\ UNCHANGED <<started, silent, writer, crashed, main, state, playingTrack,
             Full1, Empty1>>
        /\ Writer1'.pc = Writer1.pc /\ Writer1'.intr = Writer1.intr
    BY OneReaderKeeps DEF ReaderStep, ReaderTeardown, ReaderLoad, ReaderEnded,
       ReaderStops, At, playerVars, listVars, queueVars, Full1, Empty1
  <1>2. /\ Reader1.pc \in {"teardown", "load"} /\ DOMAIN rt = Sessions
             /\ DOMAIN robj = Sessions
        /\ Reader1 \in ReaderT /\ Object1 \in ObjectT
    BY <1>1, OneHas DEF ReaderTeardown, ReaderLoad, At, Reader1, Sound, Readers,
       Objects
  <1>3. /\ \/ Reader1.pc = "teardown" /\ Reader1'.pc = "load"
           \/ Reader1.pc = "load" /\ Reader1'.pc = "notify"
        /\ Reader1'.tgt = Reader1.tgt
    BY <1>1, <1>2, FirstSession DEF ReaderTeardown, ReaderLoad, At, Goto,
       Reader1, ReaderT
  <1>4. Object1'.cur = Object1.cur
        /\ Object1'.backend = (Object1.backend \/ Reader1.pc = "load")
    <2>1. CASE ReaderTeardown(s)
      BY <2>1, <1>1, <1>2 DEF ReaderTeardown, Object1, At, Reader1, ObjectT
    <2>2. CASE ReaderLoad(s)
      <3>1. Reader1.obj = 1 /\ Reader1.pc = "load"
        BY <2>2, <1>1, OneHas DEF ReaderLoad, At, Reader1, ReaderLoop, ReaderPcs
      <3>2. robj' = [robj EXCEPT ![1].backend = TRUE]
        BY <2>2, <3>1, <1>1 DEF ReaderLoad, Reader1
      <3> QED BY <3>1, <3>2, <1>2, FirstSession DEF Object1, ObjectT
    <2> QED BY <2>1, <2>2
  <1>5. OneAnnounced'  BY <1>1, <1>3, <1>4 DEF One, OneAnnounced, Changing
  <1>6. OneSound'  BY <1>1, <1>3, <1>4 DEF One, OneSound, Filling
  <1>7. OneCurrent'
    BY <1>1, <1>3, NoQueueFacts DEF One, OneCurrent, Looping, Hand
  <1> QED BY <1>5, <1>6, <1>7, <1>1 DEF One

\* The last step of a change of track makes it the current one.
LEMMA OneChangeDone ==
    ASSUME Sound, started <= 1, ChangeDone(1), Reader1.pc \in ReaderLoop
    PROVE  /\ Reader1'.pc \in {"seek", "over"}
           /\ Object1'.cur = Reader1.tgt /\ Object1'.backend = Object1.backend
  <1>1. Reader1 \in ReaderT /\ Object1 \in ObjectT /\ Reader1.obj = 1
        /\ DOMAIN rt = Sessions /\ DOMAIN robj = Sessions
    BY OneHas DEF Sound, Readers, Objects
  <1>2. robj' = [robj EXCEPT ![1].cur = Reader1.tgt, ![1].queued = NoTrack]
    BY <1>1 DEF ChangeDone, Reader1
  <1>3. Object1'.cur = Reader1.tgt /\ Object1'.backend = Object1.backend
    BY <1>1, <1>2, FirstSession DEF Object1, ObjectT
  <1>4. Reader1'.pc = Unqueued(1)
    BY <1>1, FirstSession DEF ChangeDone, Reader1, ReaderT
  <1> QED BY <1>3, <1>4 DEF Unqueued

\* The announcement of a track, after which what is queued is from it: by
\* clearBuffers if there is a Writer, or because nothing was queued.
LEMMA OneNotify ==
    ASSUME Sound, One, started <= 1, NEW s \in Sessions, ReaderNotify(s)
    PROVE  One'
  <1>1. s = 1
        /\ UNCHANGED <<started, silent, writer, crashed, main, state, native, Full1,
             Empty1>>
        /\ Writer1'.pc = Writer1.pc /\ Writer1'.intr = Writer1.intr
    BY OneReaderKeeps DEF ReaderStep, ReaderNotify, ReaderEnded, ReaderStops, At, playerVars,
       listVars, queueVars, Full1, Empty1
  <1>2. Reader1.pc = "notify" /\ DOMAIN rt = Sessions /\ Reader1 \in ReaderT
        /\ playingTrack' = Reader1.tgt
    BY <1>1, OneHas DEF ReaderNotify, At, Reader1, Sound, Readers
  <1>3. \/ /\ writer = None /\ Reader1'.pc \in {"seek", "over"}
           /\ Object1'.cur = Reader1.tgt /\ Object1'.backend = Object1.backend
        \/ /\ writer # None /\ Reader1'.pc = "clear"
                /\ Reader1'.tgt = Reader1.tgt
           /\ Object1' = Object1
    <2>1. CASE writer = None /\ ChangeDone(1)
      BY <2>1, <1>2, OneChangeDone DEF ReaderLoop, ReaderPcs
    <2>2. CASE writer # None
               /\ rt' = [rt EXCEPT ![1].pc = "clear", ![1].clr = writer]
                    /\ robj' = robj
      BY <2>2, <1>2, FirstSession DEF Reader1, ReaderT, Object1
    <2> QED BY <1>1, <2>1, <2>2 DEF ReaderNotify
  <1>4. OneAnnounced'  BY <1>1, <1>2, <1>3 DEF One, OneAnnounced, Changing
  <1>5. OneSound'  BY <1>1, <1>2, <1>3 DEF One, OneSound, Filling
  <1>6. OneCurrent'  BY <1>1, <1>2, <1>3 DEF One, OneCurrent, Looping, Hand
  <1> QED BY <1>4, <1>5, <1>6, <1>1 DEF One

\* clearBuffers, taking from the full queue until it is empty.
LEMMA OneClear ==
    ASSUME Sound, One, started <= 1, NEW s \in Sessions, ReaderClear(s)
    PROVE  One'
  <1>1. s = 1
        /\ UNCHANGED <<started, silent, writer, crashed, main, state, playingTrack,
             native, Empty1>>
        /\ Writer1'.pc = Writer1.pc /\ Writer1'.intr = Writer1.intr
    BY OneReaderKeeps DEF ReaderStep, ReaderClear, ReaderEnded, ReaderStops, At, playerVars,
       listVars, Empty1
  <1>2. Reader1.pc = "clear" /\ DOMAIN rt = Sessions /\ Reader1 \in ReaderT
        /\ DOMAIN full = Sessions
    BY <1>1, OneHas DEF ReaderClear, At, Reader1, Sound, Readers, Queues
  <1>3. wt[rt[1].clr].pair = 1 /\ Queue(Full1)
    BY <1>2, OneHas DEF Writer1, Reader1
  <1>4. \/ /\ Full1 = << >> /\ Full1' = << >>
                /\ Reader1'.pc \in {"seek", "over"}
           /\ Object1'.cur = Reader1.tgt /\ Object1'.backend = Object1.backend
        \/ /\ Full1 # << >> /\ Full1' = Tail(Full1)
           /\ Reader1'.pc = "clearAdd" /\ Reader1'.tgt = Reader1.tgt
           /\ Object1' = Object1
    <2>1. CASE full[1] = << >> /\ ChangeDone(1) /\ full' = full
      BY <2>1, <1>2, OneChangeDone DEF ReaderLoop, ReaderPcs, Full1
    <2>2. CASE /\ full[1] # << >> /\ full' = [full EXCEPT ![1] = Tail(@)]
               /\ rt' = [rt EXCEPT ![1].pc = "clearAdd", ![1].held = Cleared]
                    /\ robj' = robj
      BY <2>2, <1>2, FirstSession DEF Reader1, ReaderT, Object1, Full1
    <2> QED BY <1>1, <1>3, <2>1, <2>2 DEF ReaderClear
  <1>5. OneAnnounced'  BY <1>1, <1>2, <1>4 DEF One, OneAnnounced, Changing
  <1>6. OneSound'
    BY <1>1, <1>2, <1>3, <1>4, QueueFacts DEF One, OneSound, Filling
  <1>7. OneCurrent'
    BY <1>1, <1>2, <1>4, NoQueueFacts DEF One, OneCurrent, Looping, Hand
  <1> QED BY <1>5, <1>6, <1>7, <1>1 DEF One

\* clearBuffers, which returns a buffer to the pool or drops it.
LEMMA OneClearAdd ==
    ASSUME Sound, One, started <= 1, NEW s \in Sessions, ReaderClearAdd(s)
    PROVE  One'
  <1>1. s = 1
        /\ UNCHANGED <<started, silent, writer, crashed, main, state, playingTrack,
             native>>
        /\ Writer1'.pc = Writer1.pc /\ Writer1'.intr = Writer1.intr
    BY OneReaderKeeps DEF ReaderStep, ReaderClearAdd, ReaderEnded, ReaderStops, At,
       playerVars, listVars
  <1>2. Reader1.pc = "clearAdd" /\ DOMAIN rt = Sessions /\ Reader1 \in ReaderT
        /\ DOMAIN full = Sessions /\ DOMAIN empty = Sessions
    BY <1>1, OneHas DEF ReaderClearAdd, At, Reader1, Sound, Readers, Queues
  <1>3. wt[rt[1].clr].pair = 1
    BY <1>2, OneHas DEF Writer1, Reader1
  <1>4. \/ /\ Full1' = << >> /\ Reader1'.pc \in {"seek", "over"}
           /\ Object1'.cur = Reader1.tgt /\ Object1'.backend = Object1.backend
        \/ /\ Full1' = Full1
           /\ Reader1'.pc = "clear" /\ Reader1'.tgt = Reader1.tgt
           /\ Object1' = Object1
    <2>1. CASE ChangeDone(1) /\ full' = [full EXCEPT ![1] = << >>]
      BY <2>1, <1>2, OneChangeDone, FirstSession DEF ReaderLoop, ReaderPcs,
         Full1
    <2>2. CASE /\ full' = full /\ robj' = robj
               /\ rt' = [rt EXCEPT ![1].pc = "clear", ![1].held = NoBuffer]
      BY <2>2, <1>2, FirstSession DEF Reader1, ReaderT, Object1, Full1
    <2> QED BY <1>1, <1>3, <2>1, <2>2 DEF ReaderClearAdd
  <1>5. OneAnnounced'  BY <1>1, <1>2, <1>4 DEF One, OneAnnounced, Changing
  <1>6. OneSound'  BY <1>1, <1>2, <1>4, NoQueueFacts DEF One, OneSound, Filling
  <1>7. OneCurrent'
    BY <1>1, <1>2, <1>4, NoQueueFacts DEF One, OneCurrent, Looping, Hand
  <1> QED BY <1>5, <1>6, <1>7, <1>1 DEF One

\* Between a track change and the next buffer, or the end of the playlist.
LEMMA OneBetween ==
    ASSUME Sound, One, started <= 1, NEW s \in Sessions,
           \/ ReaderSeek(s) \/ ReaderSeekDone(s) \/ ReaderOver(s)
           \/ ReaderEnded(s) \/ ReaderNext(s) \/ ReaderQueue(s)
           \/ ReaderStops(s)
    PROVE  One'
  <1> USE DEF ReaderSeek, ReaderSeekDone, ReaderOver, ReaderEnded, ReaderNext,
          ReaderQueue, ReaderStops
  <1>1. s = 1
        /\ UNCHANGED <<started, silent, writer, crashed, main, playingTrack,
             Full1, Empty1>>
        /\ Writer1'.pc = Writer1.pc
        /\ state' \in {state, STOPPED}
    BY OneReaderKeeps DEF ReaderStep, playerVars, listVars, queueVars, Full1,
       Empty1, StopReader
  <1>2. /\ Reader1.pc \in {"seek", "seekDone", "over", "ended", "next",
                            "queue", "stop"}
        /\ DOMAIN rt = Sessions /\ Reader1 \in ReaderT
        /\ DOMAIN robj = Sessions /\ Object1 \in ObjectT
    BY <1>1, OneHas DEF At, Reader1, Sound, Readers, Objects
  <1>i. Reader1.pc # "stop" => Writer1'.intr = Writer1.intr
    BY <1>1, OneReaderKeeps DEF ReaderStep, At, Reader1
  <1>3. Reader1.obj = 1  BY <1>2, OneHas DEF ReaderLoop, ReaderPcs
  <1>4. Object1'.cur = Object1.cur /\ Object1'.backend = Object1.backend
    <2>1. \/ robj' = robj
          \/ robj' = [robj EXCEPT ![1].seek = FALSE]
          \/ robj' = [robj EXCEPT ![1].queued = rt[1].tgt]
      BY <1>1, <1>3 DEF Reader1
    <2> QED BY <2>1, <1>2, FirstSession DEF Object1, ObjectT
  <1>5. \/ Reader1'.pc \in {"seekDone", "over", "poll", "ended", "next", "queue",
                            "top"}
        \/ Reader1'.pc \in {"stop", "exit"}
             /\ (state' # PLAYING \/ Reader1.pc = "stop")
    <2> DEFINE P == {"seekDone", "over", "poll", "ended", "next", "queue",
                     "top"}
    <2>1. CASE ReaderSeek(1) \/ ReaderSeekDone(1) \/ ReaderOver(1)
      <3>1. \E p \in P : rt' = [rt EXCEPT ![1].pc = p]
        BY <2>1 DEF Goto
      <3> QED BY <3>1, <1>2, FirstSession DEF Reader1, ReaderT
    <2>2. CASE ReaderEnded(1)
      <3>1. \/ rt' = [rt EXCEPT ![1].pc = "next"]
            \/ rt' = [rt EXCEPT ![1].pc = "stop"] /\ state' = STOPPED
            \/ rt' = [rt EXCEPT ![1].pc = "exit"] /\ state' = STOPPED
        BY <2>2 DEF Goto, stop, playerVars
      <3> QED BY <3>1, <1>2, FirstSession DEF Reader1, ReaderT, STOPPED,
                 PLAYING
    <2>3. CASE ReaderNext(1) \/ ReaderQueue(1)
      <3>1. CASE ReaderNext(1)
        <4>1. PICK t : rt' = [rt EXCEPT ![1].pc = "queue", ![1].tgt = t]
          BY <3>1
        <4> QED BY <4>1, <1>2, FirstSession DEF Reader1, ReaderT
      <3>2. CASE ReaderQueue(1)
        <4>1. rt' = [rt EXCEPT ![1].pc = "poll", ![1].tgt = NoTrack]
          BY <3>2
        <4> QED BY <4>1, <1>2, FirstSession DEF Reader1, ReaderT
      <3> QED BY <2>3, <3>1, <3>2
    <2>4. CASE ReaderStops(1)
      <3>1. rt' = [rt EXCEPT ![1].pc = "exit"] /\ Reader1.pc = "stop"
        BY <2>4 DEF Goto, At, Reader1
      <3> QED BY <3>1, <1>2, FirstSession DEF Reader1, ReaderT
    <2> QED BY <2>1, <2>2, <2>3, <2>4, <1>1
  <1>6. native'.track = native.track \/ Reader1.pc = "stop"
    <2>1. native' = native \/ native' \in seek \/ Reader1.pc = "stop"
      BY <1>1 DEF At, Reader1
    <2>2. native' \in seek => native'.track = native.track
      BY DEF seek, Sound, Shared, NativeT
    <2> QED BY <2>1, <2>2
  <1> HIDE DEF ReaderSeek, ReaderSeekDone, ReaderOver, ReaderEnded, ReaderNext,
           ReaderQueue, ReaderStops
  <1>7. OneAnnounced'  BY <1>1, <1>2, <1>4, <1>5 DEF One, OneAnnounced, Changing
  <1>8. OneSound'
    BY <1>1, <1>2, <1>4, <1>5 DEF One, OneSound, Filling, STOPPED, PLAYING
  <1>9. OneCurrent'
    BY <1>1, <1>2, <1>i, <1>4, <1>5, <1>6 DEF One, OneCurrent, Looping, Hand,
       STOPPED, PLAYING
  <1> QED BY <1>7, <1>8, <1>9, <1>1 DEF One

\* The poll of an empty buffer and the read of the samples into it, which are
\* from the emulator that is loaded.
LEMMA OnePoll ==
    ASSUME Sound, One, started <= 1, NEW s \in Sessions, ReaderPoll(s)
    PROVE  One'
  <1>1. s = 1
        /\ UNCHANGED <<started, silent, writer, crashed, main, state, playingTrack,
             Object1, Full1>>
        /\ Writer1'.pc = Writer1.pc /\ Writer1'.intr = Writer1.intr
    BY OneReaderKeeps DEF ReaderStep, ReaderPoll, ReaderEnded, ReaderStops, At, playerVars,
       listVars, Object1, Full1
  <1>2. /\ Reader1.pc = "poll" /\ DOMAIN rt = Sessions /\ Reader1 \in ReaderT
        /\ DOMAIN empty = Sessions /\ Object1 \in ObjectT
    BY <1>1, OneHas DEF ReaderPoll, At, Reader1, Sound, Readers, Queues
  <1>3. Obj(1) = Object1 /\ Object1.pair = 1 /\ rt[1].obj = 1 /\ Queue(Empty1)
    BY <1>2, OneHas DEF ReaderLoop, ReaderPcs, Reader1
  <1>n. native \in NativeT  BY DEF Sound, Shared
  <1>4. CASE Goto(1, "exit") /\ Object1.cur = NoTrack /\ native' = native
             /\ Empty1 # << >> /\ Empty1' = Tail(Empty1)
    <2>1. Reader1'.pc = "exit"
      BY <1>4, <1>2, FirstSession DEF Goto, Reader1, ReaderT
    <2>2. Len(Empty1') = Len(Empty1) - 1 /\ Len(Empty1) > 0
      BY <1>3, <1>4, QueueFacts
    <2>l. Len(Empty1) \in Nat /\ Len(Full1) \in Nat /\ N \in Nat
      BY OneHas, BoundsAssumption
    <2>3. OneAnnounced'
      BY <1>1, <1>2, <1>4, <2>1 DEF One, OneAnnounced, Changing
    <2>4. OneSound'  BY <1>1, <1>2, <1>4, <2>1 DEF One, OneSound, Filling
    <2>5. OneCurrent'
      BY <1>1, <1>2, <1>4, <2>1, <2>2, <2>l DEF One, OneCurrent, Looping, Hand
    <2> QED BY <2>3, <2>4, <2>5, <1>1 DEF One
  <1>5. CASE Goto(1, "exit") /\ native' = native /\ Empty1' = Empty1
    <2>1. Reader1'.pc = "exit"
      BY <1>5, <1>2, FirstSession DEF Goto, Reader1, ReaderT
    <2>3. OneAnnounced'
      BY <1>1, <1>2, <1>5, <2>1 DEF One, OneAnnounced, Changing
    <2>4. OneSound'  BY <1>1, <1>2, <1>5, <2>1 DEF One, OneSound, Filling
    <2>5. OneCurrent'
      BY <1>1, <1>2, <1>5, <2>1 DEF One, OneCurrent, Looping, Hand
    <2> QED BY <2>3, <2>4, <2>5, <1>1 DEF One
  <1> DEFINE h == [Head(Empty1) EXCEPT !.trk = native.track]
             Reads ==
               /\ Empty1 # << >> /\ Object1.cur # NoTrack
               /\ empty' = [empty EXCEPT ![1] = Tail(@)]
               /\ native' = ReadNextSamples(1)
               /\ rt' = [rt EXCEPT ![1].pc = "stamp", ![1].tgt = Object1.cur,
                    ![1].held = h]
  <1>6. CASE Reads
    <2>1. Reads  BY <1>6
    <2>2. Head(Empty1) \in Buffers  BY <1>3, <2>1, CutQueue
    <2>3. h.trk = native.track  BY <2>2 DEF Buffers
    <2> HIDE DEF h
    <2>4. Reader1'.pc = "stamp" /\ Reader1'.held = h
      BY <2>1, <1>2, FirstSession DEF Reader1, ReaderT
    <2>5. Empty1' = Tail(Empty1)  BY <2>1, <1>2, FirstSession DEF Empty1
    <2>6. Len(Empty1') = Len(Empty1) - 1  BY <1>3, <2>1, <2>5, QueueFacts
    <2>l. Len(Empty1) \in Nat /\ Len(Full1) \in Nat /\ N \in Nat
      BY OneHas, BoundsAssumption
    <2>7. Object1.backend  BY <1>2, <2>1 DEF One, OneSound, Filling
    <2>8. native'.track = native.track
          /\ (native.track = NoTrack => native'.err)
      BY <2>1, <2>7, <1>n DEF ReadNextSamples, NativeT, Object1
    <2>9. OneAnnounced'  BY <1>1, <1>2, <2>4 DEF One, OneAnnounced, Changing
    <2>10. OneSound'
      BY <1>1, <1>2, <2>1, <2>4, <2>7, <2>8 DEF One, OneSound, Filling
    <2>11. OneCurrent'
      BY <1>1, <1>2, <2>3, <2>4, <2>6, <2>8, <2>l DEF One, OneCurrent, Looping,
         Hand
    <2> QED BY <2>9, <2>10, <2>11, <1>1 DEF One
  <1>7. \/ Reads
        \/ /\ Goto(1, "exit") /\ Object1.cur = NoTrack /\ native' = native
           /\ Empty1 # << >> /\ empty' = [empty EXCEPT ![1] = Tail(@)]
        \/ Goto(1, "exit") /\ native' = native /\ empty' = empty
    BY <1>1, <1>3 DEF ReaderPoll, Empty1
  <1>8. empty' = [empty EXCEPT ![1] = Tail(@)] => Empty1' = Tail(Empty1)
    BY <1>2, FirstSession DEF Empty1
  <1>9. empty' = empty => Empty1' = Empty1
    BY DEF Empty1
  <1> QED BY <1>4, <1>5, <1>6, <1>7, <1>8, <1>9

\* The timestamp: valid, for a reader with a track has a backend, and a backend
\* without an emulator has set its error.
LEMMA OneStamp ==
    ASSUME Sound, One, started <= 1, NEW s \in Sessions, ReaderStamp(s)
    PROVE  One'
  <1>1. s = 1
        /\ UNCHANGED <<started, silent, writer, crashed, main, state, playingTrack,
             native, Object1, Full1, Empty1>>
        /\ Writer1'.pc = Writer1.pc /\ Writer1'.intr = Writer1.intr
    BY OneReaderKeeps DEF ReaderStep, ReaderStamp, ReaderEnded, ReaderStops, At, playerVars,
       listVars, queueVars, Object1, Full1, Empty1
  <1>2. /\ Reader1.pc = "stamp" /\ DOMAIN rt = Sessions /\ Reader1 \in ReaderT
        /\ Reader1.held \in Buffers
    BY <1>1, OneHas DEF ReaderStamp, At, Reader1, Sound, Readers, ReaderOK
  <1>3. Obj(1) = Object1 /\ rt[1].obj = 1 /\ Object1.backend
    BY <1>2, OneHas DEF ReaderLoop, ReaderPcs, Reader1, One, OneSound
  <1> DEFINE h == [Reader1.held EXCEPT !.ts = MillisPlayed(1)]
             keep == ~native.err /\ state = PLAYING
                        /\ (native.vgm => ~IsTrackOver)
  <1>4. rt' = [rt EXCEPT ![1].pc = IF native.err THEN "exit"
                                   ELSE IF keep THEN "put" ELSE "top",
                         ![1].tgt = NoTrack,
                         ![1].held = IF keep THEN h ELSE NoBuffer]
    BY <1>1, <1>2, <1>3, FirstSession DEF ReaderStamp, Reader1
  <1>5. keep => native.track # NoTrack  BY <1>1, <1>2 DEF One, OneSound
  <1>6. keep => MillisPlayed(1) = 0  BY <1>3, <1>5 DEF MillisPlayed, Object1
  <1>7. h.trk = Reader1.held.trk /\ h.ts = MillisPlayed(1)  BY <1>2 DEF Buffers
  <1> HIDE DEF h
  <1>8. \/ Reader1'.pc \in {"exit", "top"}
        \/ Reader1'.pc = "put" /\ keep /\ Reader1'.held = h
    BY <1>2, <1>4, FirstSession DEF Reader1, ReaderT
  <1> HIDE DEF keep
  <1>l. Len(Empty1) \in Nat /\ Len(Full1) \in Nat /\ N \in Nat
    BY OneHas, BoundsAssumption
  <1>9. OneAnnounced'  BY <1>1, <1>2, <1>8 DEF One, OneAnnounced, Changing
  <1>10. OneSound'  BY <1>1, <1>2, <1>6, <1>7, <1>8 DEF One, OneSound, Filling
  <1>11. OneCurrent'
    BY <1>1, <1>2, <1>7, <1>8, <1>l DEF One, OneCurrent, Looping, Hand
  <1> QED BY <1>9, <1>10, <1>11, <1>1 DEF One

\* The put of what was read, which is from the loaded emulator and timely.
LEMMA OnePut ==
    ASSUME Sound, One, started <= 1, NEW s \in Sessions, ReaderPut(s)
    PROVE  One'
  <1>1. s = 1
        /\ UNCHANGED <<started, silent, writer, crashed, main, state, playingTrack,
             native, Object1, Empty1>>
        /\ Writer1'.pc = Writer1.pc /\ Writer1'.intr = Writer1.intr
    BY OneReaderKeeps DEF ReaderStep, ReaderPut, ReaderEnded, ReaderStops, At, playerVars,
       listVars, Object1, Empty1
  <1>2. /\ Reader1.pc = "put" /\ DOMAIN rt = Sessions /\ Reader1 \in ReaderT
        /\ Reader1.held \in Buffers /\ DOMAIN full = Sessions
    BY <1>1, OneHas DEF ReaderPut, At, Reader1, Sound, Readers, ReaderOK, Queues
  <1>3. Obj(1).pair = 1 /\ Object1.backend /\ Queue(Full1)
    BY <1>2, OneHas DEF ReaderLoop, ReaderPcs, Reader1, One, OneSound
  <1>4. Reader1'.pc = "top"
    BY <1>1, <1>2, FirstSession DEF ReaderPut, Reader1, ReaderT
  <1>5. Len(Full1) < N /\ Full1' = Append(Full1, Reader1.held)
    BY <1>1, <1>2, <1>3, FirstSession DEF ReaderPut, Full1, Reader1
  <1>6. /\ From(Full1, Reader1.held.trk) => From(Full1', Reader1.held.trk)
        /\ Timely(Full1) /\ Reader1.held.ts = 0 => Timely(Full1')
        /\ Len(Full1') = Len(Full1) + 1
    BY <1>2, <1>3, <1>5, AppendFacts
  <1>l. Len(Empty1) \in Nat /\ Len(Full1) \in Nat /\ N \in Nat
    BY OneHas, BoundsAssumption
  <1>9. OneAnnounced'  BY <1>1, <1>2, <1>4 DEF One, OneAnnounced, Changing
  <1>10. OneSound'  BY <1>1, <1>2, <1>3, <1>4, <1>6 DEF One, OneSound, Filling
  <1>11. OneCurrent'
    BY <1>1, <1>2, <1>4, <1>6, <1>l DEF One, OneCurrent, Looping, Hand
  <1> QED BY <1>9, <1>10, <1>11, <1>1 DEF One

\* Every step of the reader keeps One.
LEMMA OneReaderStep ==
    ASSUME Sound, One, started <= 1, NEW s \in Sessions, ReaderStep(s)
    PROVE  One'
BY OneTop, OneBorn, OneReset, OneLoad, OneNotify, OneClear, OneClearAdd,
   OneBetween, OnePoll, OneStamp, OnePut DEF ReaderStep

-----------------------------------------------------------------------------
(***************************************************************************)
(* One session: the steps of the writer. It meets no buffer with a negative*)
(* timestamp, and while the player plays it does not leave.                *)
(***************************************************************************)
LEMMA OneWriterHas ==
    ASSUME Sound, started <= 1, NEW s \in Sessions, WriterStep(s)
    PROVE  /\ s = 1 /\ Writer1.pc # "unborn" /\ Writer1 \in WriterT
                /\ DOMAIN wt = Sessions
           /\ UNCHANGED <<started, silent, main, playingTrack, native, Reader1,
                Object1>>
           /\ state' \in {state, ERROR}
  <1>1. wt[s].pc # "unborn"
    BY DEF WriterStep, WriterNew, WriterEnter, WriterTop, WriterWait, WriterTimesOut,
       WriterPlayed,
       WriterSeekClear, ClearTake, ClearAdd, ClearDone, WriterPut, WriterExit,
       WriterForget, WAt
  <1>2. s = 1 /\ Writer1 \in WriterT  BY <1>1, OneHas
  <1>3. UNCHANGED <<started, silent, main, playingTrack, native, rt, robj>>
        /\ state' \in {state, ERROR}
    BY DEF WriterStep, WriterNew, WriterEnter, WriterTop, WriterWait, WriterTimesOut,
       WriterPlayed, PlayNext,
       WriterSeekClear, ClearTake, ClearAdd, WriterPut, WriterExit,
       WriterForget, Forget, playerVars, listVars
  <1> QED BY <1>1, <1>2, <1>3 DEF Sound, Writers, Reader1, Object1, Writer1

\* Every step of the writer keeps One.
LEMMA OneWriterStep ==
    ASSUME Sound, One, started <= 1, NEW s \in Sessions, WriterStep(s)
    PROVE  One'
  <1>1. /\ s = 1 /\ Writer1.pc # "unborn" /\ Writer1 \in WriterT
             /\ DOMAIN wt = Sessions
        /\ UNCHANGED <<started, silent, main, playingTrack, native, Reader1,
             Object1>>
        /\ state' \in {state, ERROR}
    BY OneWriterHas
  <1>2. /\ Queue(Full1) /\ DOMAIN full = Sessions /\ DOMAIN empty = Sessions
        /\ Writer1.pc \in WriterLoop => WPair(1) = 1 /\ Writer1.obj = 1
        /\ writer \in {0, 1}
    BY OneHas DEF Sound, Queues
  <1>3. /\ \/ Full1' = Full1
           \/ Full1 # << >> /\ Full1' = Tail(Full1)
           \/ Full1' = << >>
        /\ Empty1' = Empty1 \/ Writer1.pc \in {"put", "seekClearAdd", "exitAdd"}
        /\ crashed' = crashed \/ (Full1 # << >> /\ Head(Full1).ts < 0)
    <2>1. CASE UNCHANGED <<full, empty, crashed>>
      BY <2>1 DEF Full1, Empty1
    <2>2. CASE ~UNCHANGED <<full, empty, crashed>>
      <3>1. Writer1.pc \in WriterLoop
        BY <1>1, <2>2 DEF WriterStep, WriterNew, WriterEnter, WriterTop,
           WriterWait, WriterTimesOut,
       WriterPlayed, WriterSeekClear, ClearTake, ClearAdd, ClearDone,
           WriterPut, WriterExit, WriterForget, Forget, WAt, queueVars,
           WriterLoop, WriterPcs, Writer1
      <3>2. /\ \/ full' = full
               \/ full[1] # << >> /\ full' = [full EXCEPT ![1] = Tail(@)]
               \/ full' = [full EXCEPT ![1] = << >>]
            /\ empty' = empty
                 \/ Writer1.pc \in {"put", "seekClearAdd", "exitAdd"}
            /\ crashed' = crashed \/ (full[1] # << >> /\ Head(full[1]).ts < 0)
        BY <1>1, <1>2, <3>1 DEF WriterStep, WriterNew, WriterEnter, WriterTop,
           WriterWait, WriterTimesOut,
       WriterPlayed, PlayNext, WriterSeekClear, ClearTake, ClearAdd,
           ClearDone, WriterPut, WriterExit, WriterForget, Forget, WAt,
           queueVars, Writer1
      <3> QED BY <1>2, <3>2, FirstSession DEF Full1, Empty1
    <2> QED BY <2>1, <2>2
  <1>4. /\ Writer1'.intr => Writer1.intr
        /\ Writer1'.pc \notin {"unborn", "new"}
        /\ Writer1'.pc \in {"exit", "exitAdd", "forget", "done"} =>
             \/ state' # PLAYING \/ Writer1.intr
             \/ Writer1.pc \in {"exit", "exitAdd", "forget", "done"}
             \/ Writer1.pc = "enter" /\ writer = None
        /\ Writer1'.pc \in {"played", "seekClear", "seekClearAdd", "put",
                             "exitAdd"} =>
             \/ Full1 # << >>
             \/ Writer1.pc \in {"played", "seekClear", "seekClearAdd", "put",
                                "exitAdd"}
    <2> USE <1>1, <1>2, FirstSession DEF Writer1, WriterT, WAt, WGoto
    <2>0. wt[1].pc \in WriterLoop => full[WPair(1)] = Full1 /\ wt[1].obj = 1
      BY DEF Full1
    <2>n. ASSUME PlayNext(1), wt[1].pc \in {"top", "wait"}
          PROVE  Full1 # << >>
                 /\ \/ wt' = wt
                    \/ /\ wt'[1].pc = "played"
                       /\ wt'[1].intr = wt[1].intr
      BY <2>n, <2>0 DEF PlayNext, WriterLoop, WriterPcs
    <2>1. CASE WriterNew(1)  BY <2>1 DEF WriterNew
    <2>2. CASE WriterEnter(1)  BY <2>2 DEF WriterEnter
    <2>3. CASE WriterTop(1)
      <3>1. CASE PlayNext(1)  BY <2>3, <3>1, <2>n DEF WriterTop
      <3>2. CASE ~PlayNext(1)  BY <2>3, <3>2 DEF WriterTop, playerVars
      <3> QED BY <3>1, <3>2
    <2>4. CASE WriterWait(1)
      <3>1. CASE PlayNext(1)  BY <2>4, <3>1, <2>n DEF WriterWait
      <3>2. CASE ~PlayNext(1)  BY <2>4, <3>2 DEF WriterWait, ERROR, PLAYING
      <3> QED BY <3>1, <3>2
    <2>5. CASE WriterSeekClear(1)
      <3>1. CASE ClearTake(1, "seekClear", "seekClearAdd")
        BY <3>1 DEF ClearTake
      <3>2. CASE ClearAdd(1, "seekClearAdd", "seekClear")  BY <3>2 DEF ClearAdd
      <3>3. CASE /\ ClearDone(1, "seekClear", "seekClearAdd")
                 /\ wt' = [wt EXCEPT ![1].pc = "put", ![1].clr = NoBuffer,
                      ![wt[1].obj].seeking = FALSE]
        BY <3>3, <2>0 DEF ClearDone, WriterLoop, WriterPcs
      <3> QED BY <2>5, <3>1, <3>2, <3>3 DEF WriterSeekClear
    <2>6. CASE WriterPut(1)  BY <2>6 DEF WriterPut
    <2>7. CASE WriterExit(1)
      <3>1. CASE ClearTake(1, "exit", "exitAdd")
        BY <3>1, <2>0 DEF ClearTake, WriterLoop, WriterPcs
      <3>2. CASE ClearAdd(1, "exitAdd", "exit")  BY <3>2 DEF ClearAdd
      <3>3. CASE ClearDone(1, "exit", "exitAdd") /\ Forget(1)
        BY <3>3 DEF ClearDone, Forget
      <3> QED BY <2>7, <3>1, <3>2, <3>3 DEF WriterExit
    <2>8. CASE WriterForget(1)  BY <2>8 DEF WriterForget, Forget
    <2>9. CASE WriterTimesOut(1)
      BY <2>9 DEF WriterTimesOut, ERROR, PLAYING
    <2>10. CASE WriterPlayed(1)  BY <2>10 DEF WriterPlayed
    <2> QED BY <2>1, <2>2, <2>3, <2>4, <2>5, <2>6, <2>7, <2>8, <2>9, <2>10
            DEF WriterStep
  <1>5. /\ Writer1.pc = "new" => writer' # None
        /\ writer' = None
             => writer = None \/ Writer1.pc \in {"exit", "exitAdd", "forget"}
    BY <1>1, FirstSession DEF WriterStep, WriterNew, WriterEnter, WriterTop,
       WriterWait, WriterTimesOut,
       WriterPlayed, PlayNext, WriterSeekClear, ClearTake, ClearAdd, ClearDone,
       WriterPut, WriterExit, WriterForget, Forget, playerVars, WAt, Writer1,
       None
  <1>6. /\ Timely(Full1) => Timely(Full1')
             /\ (Full1 # << >> => ~(Head(Full1).ts < 0))
        /\ Full1 = << >> => Full1' = << >>
        /\ \A t : From(Full1, t) => From(Full1', t)
    <2>1. Full1 # << >> =>
            /\ \A t : From(Full1, t) => From(Tail(Full1), t)
            /\ Timely(Full1) => Timely(Tail(Full1)) /\ Head(Full1).ts = 0
      BY <1>2, QueueFacts
    <2>2. Timely(Full1) => (Full1 # << >> => ~(Head(Full1).ts < 0))
      BY <2>1
    <2>3. CASE Full1' = Full1  BY <2>2, <2>3
    <2>4. CASE Full1 # << >> /\ Full1' = Tail(Full1)  BY <2>1, <2>2, <2>4
    <2>5. CASE Full1' = << >>  BY <2>2, <2>5, NoQueueFacts
    <2> QED BY <1>3, <2>3, <2>4, <2>5
  <1>7. OneAnnounced'  BY <1>1 DEF One, OneAnnounced
  <1>8. OneSound'  BY <1>1, <1>3, <1>4, <1>6 DEF One, OneSound, PLAYING, ERROR
  <1>9. OneCurrent'
    BY <1>1, <1>4, <1>5, <1>6 DEF One, OneCurrent, PLAYING, ERROR
  <1> QED BY <1>1, <1>7, <1>8, <1>9 DEF One

-----------------------------------------------------------------------------
(***************************************************************************)
(* One session: the commands.                                              *)
(***************************************************************************)
\* The first start() finds nothing queued.
LEMMA OneSpawn ==
    ASSUME Sound, One, started = 0, NEW objs, Objects(objs, 0),
           objs[1].cur = Object1.cur, objs[1].backend = Object1.backend,
           NEW first, NEW resuming, Spawn(1, first, resuming, objs),
           main = "idle",
           UNCHANGED <<playingTrack, queueVars, native, crashed, main>>
    PROVE  One'
  <1>1. /\ Reader1 \in ReaderT /\ Writer1 \in WriterT /\ objs[1] \in ObjectT
        /\ Reader1.pc = "unborn" /\ ~Writer1.intr
        /\ DOMAIN rt = Sessions /\ DOMAIN wt = Sessions
             /\ DOMAIN objs = Sessions
    BY OneHas, FirstSession DEF Sound, Readers, Writers, Objects, ReaderOK,
       WriterOK
  <1>2. /\ Reader1'.pc = "new" /\ Writer1'.pc = "new" /\ ~Writer1'.intr
        /\ Object1'.cur = Object1.cur /\ Object1'.backend = Object1.backend
    <2> DEFINE pair == IF reader = None THEN 1 ELSE objs[reader].pair
    <2> HIDE DEF pair
    <2>1. /\ robj' = [objs EXCEPT ![1].queued = first,
               ![1].resuming = resuming, ![1].pair = pair]
          /\ rt' = [rt EXCEPT ![1].pc = "new"]
          /\ wt' = [wt EXCEPT ![1].pc = "new", ![1].pair = pair]
      BY DEF Spawn, pair
    <2>2. Reader1'.pc = "new"  BY <1>1, <2>1, FirstSession DEF Reader1, ReaderT
    <2>3. Writer1'.pc = "new" /\ Writer1'.intr = Writer1.intr
      BY <1>1, <2>1, FirstSession DEF Writer1, WriterT
    <2>4. Object1'.cur = objs[1].cur /\ Object1'.backend = objs[1].backend
      BY <1>1, <2>1, FirstSession DEF Object1, ObjectT
    <2> QED BY <1>1, <2>2, <2>3, <2>4
  <1>3. Full1' = << >> /\ Empty1' = << >> /\ ~Object1.backend
    BY <1>1 DEF One, OneSound, Filling, Full1, Empty1, queueVars
  <1>4. Len(Empty1') + Len(Full1') <= N  BY <1>3, BoundsAssumption
  <1>5. OneAnnounced'  BY <1>2 DEF One, OneAnnounced, Changing
  <1>6. OneSound'  BY <1>1, <1>2, <1>3, NoQueueFacts DEF One, OneSound
  <1>7. OneCurrent'
    BY <1>2, <1>4, BoundsAssumption, NoQueueFacts, <1>3 DEF One, OneCurrent,
       Looping, Hand
  <1> QED BY <1>5, <1>6, <1>7 DEF One

\* start() spawns the first session, or makes none: it leaves a playing player
\* alone or turns it PLAYING without a track, which OneCurrent excepts.
LEMMA OneStart ==
    ASSUME Sound, One, NEW objs, Objects(objs, started),
           objs[1].cur = Object1.cur, objs[1].backend = Object1.backend,
           NEW t \in Tracks \cup {NoTrack}, start(t, objs),
           main = "idle",
           UNCHANGED <<playingTrack, queueVars, native, crashed, main>>
    PROVE  One'
  <1>0. SUFFICES ASSUME started' <= 1 PROVE One'
    BY DEF One
  <1>s. started \in Nat  BY StartedSessions DEF Sound
  <1>1. CASE \E first, resuming : Spawn(started + 1, first, resuming, objs)
    <2>1. started = 0  BY <1>0, <1>1, <1>s DEF Spawn
    <2>2. 0 + 1 = 1  OBVIOUS
    <2> QED BY <1>1, <2>1, <2>2, OneSpawn
  <1>2. CASE ~\E first, resuming : Spawn(started + 1, first, resuming, objs)
    <2>1. UNCHANGED <<started, writer, Reader1, Writer1, Full1, Empty1, native,
       crashed, main, playingTrack>>
      BY <1>2 DEF start, playerVars, queueVars, Reader1, Writer1, Full1, Empty1
    <2>2. Object1'.cur = Object1.cur /\ Object1'.backend = Object1.backend
      BY <1>2 DEF start, Object1
    <2>3. \/ state' = state /\ silent' = silent
          \/ state # PLAYING /\ silent' = TRUE /\ playingTrack = NoTrack
      BY <1>2 DEF start, playerVars
    <2>4. OneAnnounced'  BY <1>0, <2>1, <2>2 DEF One, OneAnnounced
    <2>5. OneSound'  BY <1>0, <2>1, <2>2, <2>3 DEF One, OneAnnounced, OneSound
    <2>6. OneCurrent'  BY <1>0, <2>1, <2>2, <2>3 DEF One, OneCurrent, Hand
    <2> QED BY <2>4, <2>5, <2>6 DEF One
  <1> QED BY <1>1, <1>2

\* Queueing a track in the current Reader.
LEMMA OneQueueOrStart ==
    ASSUME Sound, One, NEW t \in Tracks \cup {NoTrack}, QueueOrStart(t),
           main = "idle",
           UNCHANGED <<playingTrack, queueVars, native, crashed, main>>
    PROVE  One'
  <1>1. CASE reader = None
    BY <1>1, OneStart DEF QueueOrStart, Sound, Object1
  <1>2. CASE reader # None
    <2>1. PICK objs : objs = [robj EXCEPT ![reader].queued = t]
               /\ start(NoTrack, objs)
      BY <1>2 DEF QueueOrStart
    <2>2. Objects(objs, started)  BY <1>2, <2>1, QueuedSound
    <2>3. objs[1].cur = Object1.cur /\ objs[1].backend = Object1.backend
      <3>1. Object1 \in ObjectT /\ DOMAIN robj = Sessions
        BY FirstSession DEF Sound, Objects, Object1
      <3> QED BY <2>1, <3>1, FirstSession DEF Object1, ObjectT
    <2> QED BY <2>1, <2>2, <2>3, OneStart
  <1> QED BY <1>1, <1>2

\* A request to seek.
LEMMA OneSeek ==
    ASSUME Sound, One, Seek
    PROVE  One'
  <1>1. Object1'.cur = Object1.cur /\ Object1'.backend = Object1.backend
    <2>1. Object1 \in ObjectT /\ DOMAIN robj = Sessions
      BY FirstSession DEF Sound, Objects, Object1
    <2> QED BY <2>1, FirstSession DEF Seek, Object1, ObjectT
  <1>2. UNCHANGED <<started, silent, writer, state, Reader1, Writer1, Full1,
     Empty1, native, crashed, main, playingTrack>>
    BY DEF Seek, playerVars, listVars, queueVars, Reader1, Writer1, Full1,
       Empty1
  <1> QED BY <1>1, <1>2 DEF One, OneAnnounced, OneSound, OneCurrent, Hand

\* The commands that end the playing.
LEMMA OneStops ==
    ASSUME Sound, One, Pause \/ Stop \/ StopReturns
    PROVE  One'
  <1>1. UNCHANGED <<started, Reader1, Object1, Full1, Empty1, crashed,
             playingTrack>>
        /\ (started <= 1 => state' # PLAYING)
    BY DEF Pause, Stop, stop, StopReturns, StopReader, STOPPED, PAUSED,
       PLAYING, listVars, queueVars, Reader1, Object1, Full1, Empty1, One,
       OneSound
  <1>2. Writer1'.pc = Writer1.pc
    <2>1. Interrupt \/ wt' = wt
      BY DEF Pause, Stop, StopReturns, StopReader
    <2>2. Writer1 \in WriterT /\ DOMAIN wt = Sessions
      BY FirstSession DEF Sound, Writers, Writer1
    <2> QED BY <2>1, <2>2, FirstSession DEF Interrupt, Writer1, WriterT
  <1> QED BY <1>1, <1>2 DEF One, OneAnnounced, OneSound, OneCurrent

\* Every command keeps One.
LEMMA OneCommand ==
    ASSUME Sound, One,
           \/ Start \/ (\E p \in Tracks : Play(p)) \/ SkipToNext \/ SkipToPrev
           \/ SeekBar \/ Pause \/ Stop \/ StopReturns \/ Leave
    PROVE  One'
  <1>1. pos \in Tracks  BY DEF Sound, Shared
  <1>2. NextPos \in Tracks
    BY BoundsAssumption DEF NextPos, Sound, Shared, Tracks
  <1>3. CASE Start
    BY <1>3, OneStart DEF Start, Command, Sound, listVars, Object1
  <1>4. ASSUME NEW p \in Tracks, Play(p)  PROVE One'
    BY <1>4, OneQueueOrStart DEF Play, Command
  <1>5. CASE SkipToNext
    BY <1>2, <1>5, OneQueueOrStart DEF SkipToNext, Command
  <1>6. CASE SkipToPrev
    <2>1. pos > 1 => pos - 1 \in Tracks
      BY <1>1, BoundsAssumption DEF Tracks
    <2> QED BY <1>6, <2>1, OneQueueOrStart, OneSeek
            DEF SkipToPrev, Command
  <1>7. CASE SeekBar  BY <1>7, OneSeek DEF SeekBar
  <1>8. CASE Pause \/ Stop \/ StopReturns  BY <1>8, OneStops
  <1>9. CASE Leave
    BY <1>9 DEF Leave, Command, playerVars, listVars, queueVars, One, OneAnnounced,
       OneSound, OneCurrent, Hand, Reader1, Writer1, Object1, Full1, Empty1
  <1> QED BY <1>3, <1>4, <1>5, <1>6, <1>7, <1>8, <1>9

-----------------------------------------------------------------------------
(***************************************************************************)
(* The invariant of one session, and what follows from it.                 *)
(***************************************************************************)
\* Nothing has been started.
LEMMA InitOne == Init => One
  <1> SUFFICES ASSUME Init PROVE One
    OBVIOUS
  <1>1. /\ Reader1.pc = "unborn" /\ Writer1.pc = "unborn"
             /\ Object1.backend = FALSE
        /\ Object1.cur = NoTrack /\ Full1 = << >> /\ Empty1 = << >>
        /\ state = STOPPED /\ crashed = FALSE /\ main = "idle"
    BY FirstSession DEF Init, Reader1, Writer1, Object1, Full1, Empty1
  <1> QED
    BY <1>1, NoQueueFacts DEF One, OneAnnounced, OneSound, OneCurrent, Changing,
       STOPPED, PLAYING

\* Every step keeps One.
LEMMA NextOne == Sound /\ One /\ [Next]_vars => One'
  <1> SUFFICES ASSUME Sound, One, [Next]_vars PROVE One'
    OBVIOUS
  <1>1. CASE UNCHANGED vars
    BY <1>1 DEF vars, playerVars, listVars, queueVars, One, OneAnnounced,
       OneSound, OneCurrent, Hand, Reader1, Writer1, Object1, Full1, Empty1
  <1>2. ASSUME NEW s \in Sessions, ReaderStep(s)  PROVE One'
    <2>1. started' = started  BY <1>2, ReaderStepShared
    <2> QED BY <1>2, <2>1, OneReaderStep DEF One
  <1>3. ASSUME NEW s \in Sessions, WriterStep(s)  PROVE One'
    <2>1. started' = started  BY <1>3, WriterStepShared
    <2> QED BY <1>3, <2>1, OneWriterStep DEF One
  <1> QED BY <1>1, <1>2, <1>3, OneCommand DEF Next

LEMMA OneIsInvariant == Spec => [](Sound /\ One)
  <1>1. Init => Sound /\ One  BY InitSound, InitOne
  <1>2. Sound /\ One /\ [Next]_vars => Sound' /\ One'  BY NextSound, NextOne
  <1> QED BY <1>1, <1>2, PTL DEF Spec

(***************************************************************************)
(* While start() has made one session, the writer never meets a negative   *)
(* timestamp, and so never throws "Invalid timestamp" (Writer.kt:82):      *)
(* whatever is skipped, sought, paused or fails to load. With a second     *)
(* session it can be thrown, for then two readers share the emulator.      *)
(***************************************************************************)
THEOREM OneSessionIsTimely == Spec => [](started <= 1 => TimestampsValid)
  <1>1. Sound /\ One => (started <= 1 => TimestampsValid)
    BY DEF One, OneSound, TimestampsValid
  <1> QED BY <1>1, OneIsInvariant, PTL

(***************************************************************************)
(* While one session plays, a reader that is not changing tracks has only  *)
(* audio of the loaded emulator in the full queue, for every number of     *)
(* buffers: resetEmptyBuffers and clearBuffers have removed the rest,      *)
(* whichever thread ran them and whatever the other did meanwhile          *)
(* (Reader.kt, Writer.kt).                                                 *)
(***************************************************************************)
THEOREM QueuedAudioStaysCurrent == Spec => []QueuedAudioIsCurrent
  <1>1. Sound /\ One => QueuedAudioIsCurrent
    <2> SUFFICES ASSUME Sound, One, NEW s \in Sessions,
                        started <= 1, ~silent, state = PLAYING, InLoop(s)
                 PROVE  \A i \in 1..Len(full[Obj(s).pair]) :
                            full[Obj(s).pair][i].trk = native.track
      BY DEF QueuedAudioIsCurrent, OneSession
    <2>1. s = 1 /\ Reader1.pc \in Looping /\ Reader1.pc \in ReaderLoop
      BY OneHas DEF InLoop, Reader1, Looping, ReaderLoop, ReaderPcs
    <2>2. Obj(s).pair = 1
      <3>1. Reader1.pc # "unborn"  BY <2>1 DEF Looping
      <3> QED BY <2>1, <3>1, OneHas
    <2>3. From(Full1, native.track)  BY <2>1 DEF One, OneCurrent
    <2> QED BY <2>2, <2>3 DEF From, Full1
  <1> QED BY <1>1, OneIsInvariant, PTL
-----------------------------------------------------------------------------
(***************************************************************************)
(* The circulation of the buffers, while there has been one start().       *)
(***************************************************************************)
\* A buffer is in a queue or in the hand of a thread that hands it on.
Somewhere ==
    \/ Empty1 # << >> \/ Full1 # << >>
    \/ Reader1.pc \in {"clearAdd", "stamp", "put"}
    \/ Writer1.pc \in {"played", "seekClear", "seekClearAdd", "put"}

\* Where the reader relies on one: from a reset of the pool, which fills it,
\* to the end of its loop.
Carrying ==
    \/ Reader1.pc \in {"teardown", "load"}
    \/ /\ Object1.backend
       /\ Reader1.pc \in Looping \cup {"notify", "clear", "clearAdd"}

OneCirculates ==
    started <= 1 /\ ~silent /\ state = PLAYING /\ ~native.vgm /\ Carrying
        => Somewhere

\* Which backend it is never changes.
LEMMA SameBackend ==
    ASSUME Sound, [Next]_vars
    PROVE  native'.vgm = native.vgm
  <1>0. native \in NativeT
    BY DEF Sound, Shared
  <1>1. teardown.vgm = native.vgm
    BY <1>0 DEF teardown, NativeT
  <1>2. ASSUME NEW t, native' \in loadFile(t)
        PROVE  native'.vgm = native.vgm
    <2>1. [teardown EXCEPT !.err = TRUE].vgm = native.vgm
      BY <1>0 DEF teardown, NativeT
    <2>2. /\ [native EXCEPT !.track = t, !.left = 0, !.err = TRUE].vgm
               = native.vgm
          /\ [native EXCEPT !.track = t, !.left = TrackLen,
                            !.err = FALSE].vgm = native.vgm
      BY <1>0 DEF NativeT
    <2> QED
      BY <1>2, <2>1, <2>2 DEF loadFile
  <1>3. native' \in seek => native'.vgm = native.vgm
    BY <1>0 DEF seek, NativeT
  <1>4. ASSUME NEW o, native' = ReadNextSamples(o)
        PROVE  native'.vgm = native.vgm
    BY <1>0, <1>4 DEF ReadNextSamples, NativeT
  <1>5. ASSUME NEW s \in Sessions, ReaderStep(s)
        PROVE  native'.vgm = native.vgm
    <2>1. \/ native' = native \/ native' = teardown \/ native' \in seek
          \/ \E t : native' \in loadFile(t)
          \/ \E o : native' = ReadNextSamples(o)
      BY <1>5 DEF ReaderStep, ReaderNew, ReaderEnter, ReaderTop, ReaderReset,
         ResetTake, ResetOffer, ReaderTeardown, ReaderLoad, ReaderNotify,
         ReaderClear, ReaderClearAdd, ReaderSeek, ReaderSeekDone, ReaderOver,
         ReaderEnded, ReaderPoll, ReaderStamp, ReaderPut, ReaderExit,
         ReaderForget, ReaderMake, ReaderNext,
       ReaderQueue, ReaderStops, stop, StopReader
    <2> QED
      BY <2>1, <1>1, <1>2, <1>3, <1>4
  <1>6. ASSUME NEW s \in Sessions, WriterStep(s)
        PROVE  native' = native
    BY <1>6 DEF WriterStep, WriterNew, WriterEnter, WriterTop, WriterWait, WriterTimesOut,
       WriterPlayed,
       WriterSeekClear, ClearTake, ClearAdd, WriterPut, WriterExit,
       WriterForget, Forget
  <1>7. ASSUME \/ Start \/ (\E p \in Tracks : Play(p)) \/ SkipToNext
               \/ SkipToPrev \/ SeekBar \/ Pause \/ Stop \/ StopReturns
               \/ Leave
        PROVE  native' = native \/ native' = teardown
    BY <1>7 DEF Start, Play, SkipToNext, SkipToPrev, SeekBar, Seek, Pause,
       Stop, StopReturns, StopReader, Leave
  <1> QED
    BY <1>1, <1>5, <1>6, <1>7 DEF Next, vars

(***************************************************************************)
(* The steps of the reader.  A step takes a buffer in hand, fills a queue, *)
(* ends the loop, or leaves alone what OneCirculates is about.             *)
(***************************************************************************)
Waits ==
    /\ UNCHANGED <<Empty1, Full1>>
    /\ Writer1'.pc = Writer1.pc
    /\ Reader1.pc \notin {"clearAdd", "stamp", "put"}
    /\ Carrying' => Carrying

\* What a step of the reader does.
Circulating ==
    \/ state' # PLAYING \/ native.vgm
    \/ ~Carrying'
    \/ Somewhere'
    \/ Waits

\* The top of the loop, where a queued track starts a change.
LEMMA CirculatesTop ==
    ASSUME Sound, One, started <= 1, NEW s \in Sessions,
           \/ ReaderTop(s) \/ ReaderNew(s) \/ ReaderMake(s)
           \/ ReaderEnter(s) \/ ReaderForget(s)
    PROVE  Circulating
  <1>1. s = 1 /\ UNCHANGED <<Full1, Empty1>> /\ Writer1'.pc = Writer1.pc
        /\ state' = state
    BY OneReaderKeeps DEF ReaderStep, ReaderTop, ReaderNew, ReaderMake,
       ReaderEnter, ReaderForget, ReaderEnded, ReaderStops, At, queueVars, Full1, Empty1
  <1>2. DOMAIN rt = Sessions /\ DOMAIN robj = Sessions /\ Reader1 \in ReaderT
        /\ Object1 \in ObjectT
    BY OneHas DEF Sound, Readers, Objects
  <1>3. CASE ReaderTop(s)
    <2>1. Reader1.pc = "top"  BY <1>1, <1>3 DEF ReaderTop, At, Reader1
    <2>2. Object1'.backend = Object1.backend
      BY <1>1, <1>2, <1>3, <2>1, OneHas, FirstSession
      DEF ReaderTop, Object1, ObjectT
    <2>3. \/ Reader1'.pc = "exit" /\ state # PLAYING
          \/ Reader1'.pc \in {"seek", "over", "reset", "notify"}
      BY <1>1, <1>2, <1>3, FirstSession
      DEF ReaderTop, Reader1, ReaderT, Goto, Unqueued
    <2> QED BY <1>1, <2>1, <2>2, <2>3 DEF Circulating, Carrying, Waits, Looping
  <1>4. CASE ~ReaderTop(s)
    <2>1. Object1' = Object1
      BY <1>4 DEF ReaderNew, ReaderMake, ReaderEnter, ReaderForget, Object1
    <2>2. \/ Reader1'.pc \in {"make", "enter", "forget", "done"}
          \/ Reader1.pc = "enter" /\ Reader1'.pc = "top"
      BY <1>1, <1>2, <1>4, FirstSession DEF ReaderNew, ReaderMake, ReaderEnter,
         ReaderForget, Reader1, ReaderT, Goto, AfterLoop, At
    <2> QED BY <2>1, <2>2 DEF Circulating, Carrying, Looping, One, OneSound
  <1> QED BY <1>3, <1>4

\* resetEmptyBuffers fills the pool before it ends.
LEMMA CirculatesReset ==
    ASSUME Sound, One, started <= 1, NEW s \in Sessions,
           ReaderReset(s) \/ ReaderExit(s)
    PROVE  Circulating
  <1>1. s = 1
    BY OneReaderKeeps DEF ReaderStep
  <1>2. DOMAIN rt = Sessions /\ Reader1 \in ReaderT /\ Queue(Empty1)
        /\ N \in Nat /\ N # 0
    BY OneHas, BoundsAssumption DEF Sound, Readers
  <1>3. Reader1.pc \in {"reset", "resetOffer", "exit", "exitOffer"}
    BY <1>1 DEF ReaderReset, ReaderExit, ResetTake, ResetOffer, ResetDone, At,
       Reader1
  <1>4. Obj(1).pair = 1  BY <1>3, OneHas DEF ReaderLoop, ReaderPcs
  <1>5. \/ Reader1'.pc \in {"reset", "resetOffer", "exit", "exitOffer",
                            "forget", "done"}
        \/ Len(Empty1) = N /\ Empty1' = Empty1
    BY <1>1, <1>2, <1>4, FirstSession DEF ReaderReset, ReaderExit, ResetTake,
       ResetOffer, ResetDone, AfterLoop, Reader1, ReaderT, Empty1, queueVars
  <1>6. Len(Empty1) = N => Empty1 # << >>  BY <1>2 DEF Queue
  <1> QED BY <1>5, <1>6 DEF Circulating, Carrying, Somewhere, Looping

\* The change of track: teardown, load, and its announcement.
LEMMA CirculatesChange ==
    ASSUME Sound, One, started <= 1, NEW s \in Sessions,
           ReaderTeardown(s) \/ ReaderLoad(s) \/ ReaderNotify(s)
    PROVE  Circulating
  <1>1. s = 1 /\ UNCHANGED <<Full1, Empty1>> /\ Writer1'.pc = Writer1.pc
    BY OneReaderKeeps DEF ReaderStep, ReaderTeardown, ReaderLoad, ReaderNotify,
       queueVars, Full1, Empty1
  <1>2. DOMAIN rt = Sessions /\ Reader1 \in ReaderT
    BY OneHas DEF Sound, Readers
  <1>3. CASE ReaderTeardown(s) \/ ReaderLoad(s)
    <2>1. Reader1.pc \in {"teardown", "load"}
      BY <1>1, <1>3 DEF ReaderTeardown, ReaderLoad, At, Reader1
    <2> QED BY <1>1, <2>1 DEF Circulating, Waits, Carrying
  <1>4. CASE ReaderNotify(s)
    <2>1. Reader1.pc = "notify"  BY <1>1, <1>4 DEF ReaderNotify, At, Reader1
    <2>2. Object1'.backend = Object1.backend
          /\ Reader1'.pc \in {"seek", "over", "clear"}
      <3>1. CASE ChangeDone(1)
        BY <2>1, <3>1, OneChangeDone DEF ReaderLoop, ReaderPcs
      <3>2. CASE rt' = [rt EXCEPT ![1].pc = "clear", ![1].clr = writer]
                 /\ robj' = robj
        BY <3>2, <1>2, FirstSession DEF Reader1, ReaderT, Object1
      <3> QED BY <1>1, <1>4, <3>1, <3>2 DEF ReaderNotify
    <2> QED BY <1>1, <2>1, <2>2 DEF Circulating, Waits, Carrying, Looping
  <1> QED BY <1>3, <1>4

\* clearBuffers hands a buffer back, or drops it when the pool is full.
LEMMA CirculatesClear ==
    ASSUME Sound, One, started <= 1, NEW s \in Sessions,
           ReaderClear(s) \/ ReaderClearAdd(s)
    PROVE  Circulating
  <1>1. s = 1 /\ Writer1'.pc = Writer1.pc
    BY OneReaderKeeps DEF ReaderStep
  <1>2. DOMAIN rt = Sessions /\ Reader1 \in ReaderT /\ DOMAIN full = Sessions
        /\ DOMAIN empty = Sessions /\ Queue(Empty1) /\ N \in Nat /\ N # 0
    BY OneHas, BoundsAssumption DEF Sound, Readers, Queues
  <1>3. Reader1.pc \in {"clear", "clearAdd"}
    BY <1>1 DEF ReaderClear, ReaderClearAdd, At, Reader1
  <1>4. wt[rt[1].clr].pair = 1 /\ Reader1.pc \in ReaderLoop
    BY <1>3, OneHas DEF Writer1, Reader1, ReaderLoop, ReaderPcs
  <1>5. CASE ReaderClear(s)
    <2>1. Reader1.pc = "clear" /\ Empty1' = Empty1
      BY <1>1, <1>5 DEF ReaderClear, At, Reader1, Empty1
    <2>2. CASE ChangeDone(1) /\ full' = full
      <3>1. Object1'.backend = Object1.backend /\ Full1' = Full1
        BY <1>4, <2>2, OneChangeDone DEF Full1
      <3>2. Reader1'.pc \in {"seek", "over"}  BY <1>4, <2>2, OneChangeDone
      <3> QED BY <1>1, <2>1, <3>1, <3>2
              DEF Circulating, Waits, Carrying, Looping
    <2>3. CASE rt' = [rt EXCEPT ![1].pc = "clearAdd", ![1].held = Cleared]
      <3>1. Reader1'.pc = "clearAdd"
        BY <2>3, <1>2, FirstSession DEF Reader1, ReaderT
      <3> QED BY <3>1 DEF Circulating, Somewhere
    <2> QED BY <1>1, <1>5, <2>2, <2>3 DEF ReaderClear
  <1>6. CASE ReaderClearAdd(s)
    <2>1. \/ Empty1' = Append(Empty1, Reader1.held)
          \/ Empty1' = Empty1 /\ Len(Empty1) = N
      BY <1>1, <1>2, <1>4, <1>6, FirstSession DEF ReaderClearAdd, Empty1,
         Reader1
    <2>2. Empty1' # << >>  BY <1>2, <2>1 DEF Queue
    <2> QED BY <2>2 DEF Circulating, Somewhere
  <1> QED BY <1>5, <1>6

\* Between a track change and the next buffer.
LEMMA CirculatesBetween ==
    ASSUME Sound, One, started <= 1, NEW s \in Sessions,
           \/ ReaderSeek(s) \/ ReaderSeekDone(s) \/ ReaderOver(s)
           \/ ReaderEnded(s) \/ ReaderNext(s) \/ ReaderQueue(s)
           \/ ReaderStops(s)
    PROVE  Circulating
  <1> USE DEF ReaderSeek, ReaderSeekDone, ReaderOver, ReaderEnded, ReaderNext,
          ReaderQueue, ReaderStops
  <1>1. s = 1 /\ UNCHANGED <<Full1, Empty1>> /\ Writer1'.pc = Writer1.pc
    BY OneReaderKeeps DEF ReaderStep, queueVars, Full1, Empty1
  <1>2. /\ Reader1.pc \in {"seek", "seekDone", "over", "ended", "next",
                            "queue", "stop"}
        /\ DOMAIN rt = Sessions /\ Reader1 \in ReaderT
        /\ DOMAIN robj = Sessions /\ Object1 \in ObjectT
    BY <1>1, OneHas DEF At, Reader1, Sound, Readers, Objects
  <1>3. Reader1.obj = 1  BY <1>2, OneHas DEF ReaderLoop, ReaderPcs
  <1>4. Object1'.backend = Object1.backend
    <2>1. \/ robj' = robj
          \/ robj' = [robj EXCEPT ![1].seek = FALSE]
          \/ robj' = [robj EXCEPT ![1].queued = rt[1].tgt]
      BY <1>1, <1>3 DEF Reader1
    <2> QED BY <2>1, <1>2, FirstSession DEF Object1, ObjectT
  <1>5. \/ Reader1'.pc \in {"stop", "exit"}
        \/ Reader1.pc # "stop"
             /\ Reader1'.pc \in {"seekDone", "over", "poll", "ended", "next",
                                "queue", "top"}
    <2>1. PICK p, t :
            /\ \/ p \in {"stop", "exit"}
               \/ Reader1.pc # "stop"
                    /\ p \in {"seekDone", "over", "poll", "ended", "next",
                              "queue", "top"}
            /\ \/ rt' = [rt EXCEPT ![1].pc = p]
               \/ rt' = [rt EXCEPT ![1].pc = p, ![1].tgt = t]
      <3>1. CASE ReaderStops(1)  BY <3>1 DEF Goto
      <3>2. CASE ReaderNext(1)  BY <3>2 DEF At, Reader1
      <3>3. CASE ReaderQueue(1)  BY <3>3 DEF At, Reader1
      <3>4. CASE ReaderEnded(1)  BY <3>4 DEF Goto, At, Reader1
      <3>5. CASE ReaderSeek(1) \/ ReaderSeekDone(1) \/ ReaderOver(1)
        BY <3>5 DEF Goto, At, Reader1
      <3> HIDE DEF ReaderSeek, ReaderSeekDone, ReaderOver, ReaderEnded,
               ReaderNext, ReaderQueue, ReaderStops
      <3> QED BY <1>1, <3>1, <3>2, <3>3, <3>4, <3>5
    <2> QED BY <2>1, <1>2, FirstSession DEF Reader1, ReaderT
  <1> HIDE DEF ReaderSeek, ReaderSeekDone, ReaderOver, ReaderEnded, ReaderNext,
           ReaderQueue, ReaderStops
  <1> QED BY <1>1, <1>2, <1>4, <1>5
          DEF Circulating, Waits, Carrying, Looping

\* A reader that gets a buffer has it in hand, and one that gets none leaves.
LEMMA CirculatesPoll ==
    ASSUME Sound, One, started <= 1, NEW s \in Sessions, ReaderPoll(s)
    PROVE  Circulating
  <1>1. s = 1  BY OneReaderKeeps DEF ReaderStep
  <1>2. DOMAIN rt = Sessions /\ Reader1 \in ReaderT
    BY OneHas DEF Sound, Readers
  <1>3. ASSUME NEW h, NEW t,
               rt' = [rt EXCEPT ![1].pc = "stamp", ![1].tgt = t, ![1].held = h]
        PROVE  Reader1'.pc = "stamp"
    BY <1>2, <1>3, FirstSession DEF Reader1, ReaderT
  <1>4. Goto(1, "exit") => Reader1'.pc = "exit"
    BY <1>2, FirstSession DEF Goto, Reader1, ReaderT
  <1>5. Reader1'.pc \in {"stamp", "exit"}
    BY <1>1, <1>3, <1>4 DEF ReaderPoll
  <1> QED BY <1>5 DEF Circulating, Carrying, Somewhere, Looping

\* A buffer is dropped only when the player has been stopped, after a failure,
\* which ends the loop, or by the VGM workaround.
LEMMA CirculatesStamp ==
    ASSUME Sound, One, started <= 1, NEW s \in Sessions, ReaderStamp(s)
    PROVE  Circulating
  <1>1. s = 1 /\ state' = state
    BY OneReaderKeeps DEF ReaderStep, ReaderStamp, ReaderEnded, ReaderStops, At
  <1>2. DOMAIN rt = Sessions /\ Reader1 \in ReaderT
    BY OneHas DEF Sound, Readers
  <1>3. PICK p, h :
          /\ \/ p \in {"exit", "put"}
             \/ p = "top" /\ (state # PLAYING \/ native.vgm)
          /\ rt' = [rt EXCEPT ![1].pc = p, ![1].tgt = NoTrack, ![1].held = h]
    BY <1>1 DEF ReaderStamp
  <1>4. Reader1'.pc = p
    BY <1>2, <1>3, FirstSession DEF Reader1, ReaderT
  <1> QED BY <1>1, <1>3, <1>4 DEF Circulating, Carrying, Somewhere, Looping

\* The put fills the full queue.
LEMMA CirculatesPut ==
    ASSUME Sound, One, started <= 1, NEW s \in Sessions, ReaderPut(s)
    PROVE  Circulating
  <1>1. s = 1  BY OneReaderKeeps DEF ReaderStep
  <1>2. Queue(Full1) /\ DOMAIN full = Sessions
    BY OneHas DEF Sound, Queues
  <1>3. Obj(1).pair = 1
    <2>1. Reader1.pc = "put"  BY <1>1 DEF ReaderPut, At, Reader1
    <2> QED BY <2>1, OneHas DEF ReaderLoop, ReaderPcs
  <1>4. Full1' = Append(Full1, Reader1.held)
    BY <1>1, <1>2, <1>3, FirstSession DEF ReaderPut, Full1, Reader1
  <1>5. Full1' # << >>  BY <1>2, <1>4 DEF Queue
  <1> QED BY <1>5 DEF Circulating, Somewhere

\* Every step of the reader keeps the buffers in circulation.
LEMMA CirculatesReader ==
    ASSUME Sound, One, OneCirculates, started <= 1, NEW s \in Sessions,
           ReaderStep(s)
    PROVE  OneCirculates'
  <1>1. Circulating
    BY CirculatesTop, CirculatesReset, CirculatesChange, CirculatesClear,
       CirculatesBetween, CirculatesPoll, CirculatesStamp, CirculatesPut
    DEF ReaderStep
  <1>2. started' = started /\ silent' = silent
        /\ state' \in {state, STOPPED}
    BY OneReaderKeeps
  <1>3. native'.vgm = native.vgm  BY SameBackend DEF Next
  <1>4. Waits /\ Somewhere => Somewhere'  BY DEF Waits, Somewhere
  <1> QED BY <1>1, <1>2, <1>3, <1>4
          DEF OneCirculates, Circulating, Waits, STOPPED, PLAYING

\* Every step of the writer does: while the player plays it is not on its way
\* out, and it hands back what it takes.
LEMMA CirculatesWriter ==
    ASSUME Sound, One, OneCirculates, started <= 1, NEW s \in Sessions,
           WriterStep(s)
    PROVE  OneCirculates'
  <1>1. /\ s = 1 /\ Writer1 \in WriterT /\ DOMAIN wt = Sessions
        /\ UNCHANGED <<started, silent, native, Reader1, Object1>>
        /\ state' \in {state, ERROR}
    BY OneWriterHas
  <1>2. SUFFICES ASSUME ~silent, state = PLAYING, state' = PLAYING,
                        Somewhere
                 PROVE  Somewhere'
    BY <1>1 DEF OneCirculates, Carrying, PLAYING, ERROR
  <1>3. Writer1.pc \notin {"exit", "exitAdd", "forget", "done"}
        /\ ~Writer1.intr /\ Timely(Full1)
    BY <1>2 DEF One, OneCurrent, OneSound
  <1>4. /\ Queue(Empty1) /\ Queue(Full1)
        /\ DOMAIN full = Sessions /\ DOMAIN empty = Sessions
        /\ Writer1.pc \in WriterLoop => WPair(1) = 1 /\ Writer1.obj = 1
    BY OneHas DEF Sound, Queues
  <1>5. Full1 # << >> => Head(Full1).ts = 0  BY <1>3, <1>4, QueueFacts
  <1>6. CASE WriterNew(1) \/ WriterEnter(1)
    <2>1. Writer1.pc \in {"new", "enter"} /\ UNCHANGED <<Empty1, Full1>>
      BY <1>6 DEF WriterNew, WriterEnter, WAt, Writer1, queueVars, Empty1,
         Full1
    <2> QED BY <1>1, <1>2, <2>1 DEF Somewhere
  <1>7. CASE WriterTop(1) \/ WriterWait(1)
    <2>1. Writer1.pc \in {"top", "wait"} /\ Empty1' = Empty1
      BY <1>7 DEF WriterTop, WriterWait, WAt, Writer1, Empty1
    <2>2. WPair(1) = 1  BY <1>4, <2>1 DEF WriterLoop, WriterPcs
    <2>3. CASE PlayNext(1)
      <3>1. Full1 # << >>  BY <2>2, <2>3 DEF PlayNext, Full1
      <3>2. wt' = [wt EXCEPT ![1].pc = "played", ![1].held = Cleared]
        BY <2>2, <2>3, <1>5, <3>1 DEF PlayNext, Full1
      <3>3. Writer1'.pc = "played"
        BY <3>2, <1>1, FirstSession DEF Writer1, WriterT
      <3> QED BY <3>3 DEF Somewhere
    <2>4. CASE ~PlayNext(1)
      <3>1. Full1' = Full1
        BY <1>2, <1>3, <1>7, <2>4
        DEF WriterTop, WriterWait, Full1, PLAYING, ERROR, Writer1
      <3> QED BY <1>1, <1>2, <2>1, <3>1 DEF Somewhere
    <2> QED BY <2>3, <2>4
  <1>8. CASE WriterSeekClear(1)
    <2>1. Writer1.pc \in {"seekClear", "seekClearAdd"}
      BY <1>8 DEF WriterSeekClear, ClearTake, ClearAdd, ClearDone, WAt, Writer1
    <2>2. wt[1].obj = 1  BY <1>4, <2>1 DEF WriterLoop, WriterPcs, Writer1
    <2>3. CASE ClearTake(1, "seekClear", "seekClearAdd")
      <3>1. Writer1'.pc = "seekClearAdd"
        BY <2>3, <1>1, FirstSession DEF ClearTake, Writer1, WriterT
      <3> QED BY <3>1 DEF Somewhere
    <2>4. CASE ClearAdd(1, "seekClearAdd", "seekClear")
      <3>1. Writer1'.pc = "seekClear"
        BY <2>4, <1>1, FirstSession DEF ClearAdd, Writer1, WriterT
      <3> QED BY <3>1 DEF Somewhere
    <2>5. CASE wt' = [wt EXCEPT ![1].pc = "put", ![1].clr = NoBuffer,
                                ![wt[1].obj].seeking = FALSE]
      <3>1. Writer1'.pc = "put"
        BY <2>2, <2>5, <1>1, FirstSession DEF Writer1, WriterT
      <3> QED BY <3>1 DEF Somewhere
    <2> QED BY <1>8, <2>3, <2>4, <2>5 DEF WriterSeekClear
  <1>9. CASE WriterPut(1)
    <2>1. Writer1.pc = "put"  BY <1>9 DEF WriterPut, WAt, Writer1
    <2>2. WPair(1) = 1  BY <1>4, <2>1 DEF WriterLoop, WriterPcs
    <2>3. Empty1' = Append(Empty1, Writer1.held)
      BY <1>3, <1>4, <1>9, <2>2, FirstSession DEF WriterPut, Empty1, Writer1
    <2>4. Empty1' # << >>  BY <1>4, <2>3 DEF Queue
    <2> QED BY <2>4 DEF Somewhere
  <1>10. ~WriterExit(1) /\ ~WriterForget(1)
    BY <1>3 DEF WriterExit, WriterForget, ClearTake, ClearAdd, ClearDone, WAt,
       Writer1
  <1>11. ~WriterTimesOut(1)  BY <1>2 DEF WriterTimesOut, ERROR, PLAYING
  <1>12. CASE WriterPlayed(1)
    <2>1. Writer1'.pc \in {"seekClear", "put"}
      BY <1>1, <1>12, FirstSession DEF WriterPlayed, WGoto, Writer1, WriterT
    <2> QED BY <2>1 DEF Somewhere
  <1> QED BY <1>1, <1>6, <1>7, <1>8, <1>9, <1>10, <1>11, <1>12 DEF WriterStep

(***************************************************************************)
(* The commands.  A start() spawns a reader with nothing in its hands; no  *)
(* other command touches a thread's place, a queue or a backend.           *)
(***************************************************************************)
LEMMA CirculatesStart ==
    ASSUME Sound, OneCirculates, NEW objs, Objects(objs, started),
           objs[1].backend = Object1.backend,
           NEW t \in Tracks \cup {NoTrack}, start(t, objs),
           UNCHANGED <<queueVars, native>>
    PROVE  OneCirculates'
  <1>0. SUFFICES ASSUME started' <= 1 PROVE OneCirculates'
    BY DEF OneCirculates
  <1>s. started \in Nat  BY StartedSessions DEF Sound
  <1>1. ASSUME NEW first, NEW resuming,
               Spawn(started + 1, first, resuming, objs)
        PROVE  OneCirculates'
    <2>1. started + 1 = 1  BY <1>0, <1>1, <1>s DEF Spawn
    <2>2. rt' = [rt EXCEPT ![1].pc = "new"]  BY <1>1, <2>1 DEF Spawn
    <2>3. Reader1'.pc = "new"
      BY <2>2, FirstSession DEF Reader1, ReaderT, Sound, Readers
    <2> QED BY <2>3 DEF OneCirculates, Carrying, Looping
  <1>2. CASE ~\E first, resuming : Spawn(started + 1, first, resuming, objs)
    <2>1. UNCHANGED <<started, Reader1, Writer1, Full1, Empty1, native>>
      BY <1>2 DEF start, playerVars, queueVars, Reader1, Writer1, Full1, Empty1
    <2>2. Object1'.backend = Object1.backend
      BY <1>2 DEF start, Object1
    <2>3. (state' = state /\ silent' = silent) \/ silent' = TRUE
      BY <1>2 DEF start, playerVars
    <2> QED BY <1>0, <2>1, <2>2, <2>3 DEF OneCirculates, Carrying, Somewhere
  <1> QED BY <1>1, <1>2

\* Queueing a track in the current Reader.
LEMMA CirculatesQueue ==
    ASSUME Sound, OneCirculates, NEW t \in Tracks \cup {NoTrack},
           QueueOrStart(t), UNCHANGED <<queueVars, native>>
    PROVE  OneCirculates'
  <1>1. CASE reader = None
    BY <1>1, CirculatesStart DEF QueueOrStart, Sound, Object1
  <1>2. CASE reader # None
    <2>1. PICK objs : objs = [robj EXCEPT ![reader].queued = t]
               /\ start(NoTrack, objs)
      BY <1>2 DEF QueueOrStart
    <2>2. Objects(objs, started)  BY <1>2, <2>1, QueuedSound
    <2>3. objs[1].backend = Object1.backend
      <3>1. Object1 \in ObjectT /\ DOMAIN robj = Sessions
        BY FirstSession DEF Sound, Objects, Object1
      <3> QED BY <2>1, <3>1, FirstSession DEF Object1, ObjectT
    <2> QED BY <2>1, <2>2, <2>3, CirculatesStart
  <1> QED BY <1>1, <1>2

\* A request to seek.
LEMMA CirculatesSeek ==
    ASSUME Sound, OneCirculates, Seek
    PROVE  OneCirculates'
  <1>1. Object1'.backend = Object1.backend
    <2>1. Object1 \in ObjectT /\ DOMAIN robj = Sessions
      BY FirstSession DEF Sound, Objects, Object1
    <2> QED BY <2>1, FirstSession DEF Seek, Object1, ObjectT
  <1>2. UNCHANGED <<started, silent, state, Reader1, Writer1, Full1, Empty1,
                    native>>
    BY DEF Seek, playerVars, listVars, queueVars, Reader1, Writer1, Full1,
       Empty1
  <1> QED BY <1>1, <1>2 DEF OneCirculates, Carrying, Somewhere

\* Every command.
LEMMA CirculatesCommand ==
    ASSUME Sound, One, OneCirculates,
           \/ Start \/ (\E p \in Tracks : Play(p)) \/ SkipToNext \/ SkipToPrev
           \/ SeekBar \/ Pause \/ Stop \/ StopReturns \/ Leave
    PROVE  OneCirculates'
  <1>1. pos \in Tracks  BY DEF Sound, Shared
  <1>2. NextPos \in Tracks
    BY BoundsAssumption DEF NextPos, Sound, Shared, Tracks
  <1>3. CASE Start
    BY <1>3, CirculatesStart DEF Start, Sound, Object1
  <1>4. ASSUME NEW p \in Tracks, Play(p)  PROVE OneCirculates'
    BY <1>4, CirculatesQueue DEF Play
  <1>5. CASE SkipToNext
    BY <1>2, <1>5, CirculatesQueue DEF SkipToNext
  <1>6. CASE SkipToPrev
    <2>1. pos > 1 => pos - 1 \in Tracks
      BY <1>1, BoundsAssumption DEF Tracks
    <2> QED BY <1>6, <2>1, CirculatesQueue, CirculatesSeek DEF SkipToPrev
  <1>7. CASE SeekBar  BY <1>7, CirculatesSeek DEF SeekBar
  <1>8. CASE Pause \/ Stop
    BY <1>8 DEF Pause, Stop, stop, OneCirculates, STOPPED, PAUSED, PLAYING
  <1>9. CASE Leave
    BY <1>9 DEF Leave, playerVars, listVars, queueVars, OneCirculates,
       Carrying, Somewhere, Reader1, Writer1, Object1, Full1, Empty1
  <1>10. CASE StopReturns
    BY <1>10 DEF StopReturns, StopReader, OneCirculates, One, OneSound
  <1> QED BY <1>3, <1>4, <1>5, <1>6, <1>7, <1>8, <1>9, <1>10

-----------------------------------------------------------------------------
\* Nothing has been started.
LEMMA InitCirculates == Init => OneCirculates
BY DEF Init, OneCirculates, STOPPED, PLAYING

\* Every step keeps a buffer in circulation.
LEMMA NextCirculates ==
    Sound /\ One /\ OneCirculates /\ [Next]_vars => OneCirculates'
  <1> SUFFICES ASSUME Sound, One, OneCirculates, [Next]_vars
               PROVE  OneCirculates'
    OBVIOUS
  <1>1. CASE UNCHANGED vars
    BY <1>1 DEF vars, playerVars, queueVars, OneCirculates, Carrying,
       Somewhere, Reader1, Writer1, Object1, Full1, Empty1
  <1>2. ASSUME NEW s \in Sessions, ReaderStep(s)  PROVE OneCirculates'
    <2>1. started' = started  BY <1>2, ReaderStepShared
    <2> QED BY <1>2, <2>1, CirculatesReader DEF OneCirculates
  <1>3. ASSUME NEW s \in Sessions, WriterStep(s)  PROVE OneCirculates'
    <2>1. started' = started  BY <1>3, WriterStepShared
    <2> QED BY <1>3, <2>1, CirculatesWriter DEF OneCirculates
  <1> QED BY <1>1, <1>2, <1>3, CirculatesCommand DEF Next

LEMMA CirculatesIsInvariant == Spec => [](Sound /\ One /\ OneCirculates)
  <1>1. Init => OneCirculates  BY InitCirculates
  <1>2. Sound /\ One /\ OneCirculates /\ [Next]_vars => OneCirculates'
    BY NextCirculates
  <1> QED BY <1>1, <1>2, OneIsInvariant, PTL DEF Spec

\* A set of sessions that has the first in it counts at least one.
LEMMA SomeSession ==
    ASSUME NEW S \in SUBSET Sessions
    PROVE  Cardinality(S) \in Nat /\ (1 \in S => Cardinality(S) > 0)
  <1>1. IsFiniteSet(Sessions)
    BY FS_Interval, BoundsAssumption DEF Sessions
  <1>2. IsFiniteSet(S)  BY <1>1, FS_Subset
  <1> QED BY <1>2, FS_CardinalityType, FS_EmptySet

(***************************************************************************)
(* While one session plays without VGM files, a reader that has loaded a   *)
(* track and waits for an empty buffer (Reader.kt:99) has one to wait for, *)
(* in a queue or in the writer's hand, for every number of buffers:        *)
(* whatever is skipped, sought, paused or fails to load, nobody drops the  *)
(* last of them and plays on.  The VGM workaround (Reader.kt:123) does.    *)
(***************************************************************************)
THEOREM BuffersGoRound == Spec => [](~native.vgm => BuffersCirculate)
  <1>1. Sound /\ One /\ OneCirculates => (~native.vgm => BuffersCirculate)
    <2> SUFFICES ASSUME Sound, One, OneCirculates, ~native.vgm,
                        NEW s \in Sessions, started <= 1, ~silent,
                        state = PLAYING, rt[s].pc = "poll", Obj(s).backend
                 PROVE  Pool(Obj(s).pair) > 0
      BY DEF BuffersCirculate, OneSession
    <2>1. s = 1 /\ Reader1.pc = "poll"  BY OneHas DEF Reader1
    <2>2. Obj(s).pair = 1 /\ Object1.backend
      BY <2>1, OneHas DEF ReaderLoop, ReaderPcs
    <2>3. Somewhere  BY <2>1, <2>2 DEF OneCirculates, Carrying, Looping
    <2>4. \/ Empty1 # << >> \/ Full1 # << >>
          \/ Writer1.pc \in {"played", "seekClear", "seekClearAdd", "put"}
      BY <2>1, <2>3 DEF Somewhere
    <2> DEFINE readers == {x \in Sessions : rt[x].held # NoBuffer
                              /\ 1 = IF rt[x].pc = "clearAdd"
                                     THEN wt[rt[x].clr].pair ELSE Obj(x).pair}
               writers == {x \in Sessions : wt[x].held # NoBuffer
                                                /\ WPair(x) = 1}
               clears == {x \in Sessions : wt[x].clr # NoBuffer
                                               /\ WPair(x) = 1}
    <2>5. /\ Cardinality(readers) \in Nat /\ Cardinality(writers) \in Nat
          /\ Cardinality(clears) \in Nat
          /\ 1 \in writers => Cardinality(writers) > 0
      BY SomeSession
    <2>6. /\ Len(Empty1) \in Nat /\ Len(Full1) \in Nat
          /\ Empty1 # << >> => Len(Empty1) > 0
          /\ Full1 # << >> => Len(Full1) > 0
      BY OneHas DEF Queue
    <2>7. Writer1.pc \in {"played", "seekClear", "seekClearAdd", "put"}
             => 1 \in writers
      <3>1. Cleared # NoBuffer  BY DEF Cleared, NoBuffer
      <3> QED BY <3>1, OneHas, FirstSession
              DEF WriterOK, WriterLoop, WriterPcs, Writer1
    <2>8. Pool(1) = Len(Empty1) + Len(Full1) + Cardinality(readers)
                       + Cardinality(writers) + Cardinality(clears)
      BY DEF Pool, Empty1, Full1
    <2> HIDE DEF readers, writers, clears
    <2> QED BY <2>2, <2>4, <2>5, <2>6, <2>7, <2>8
  <1> QED BY <1>1, CirculatesIsInvariant, PTL
=============================================================================
