---------------------------- MODULE PlayerSession ----------------------------
(***************************************************************************)
(* The player and the Android service that keeps it alive: Player's state  *)
(* and audio focus, PlayerService with its life cycle and noisy receiver,  *)
(* and MediaNotificationManager, which follows the state through two       *)
(* queues of the main looper: the StateEvents of UiUpdater, and the        *)
(* callbacks of the media session its handler of StateEvents writes to.    *)
(*                                                                         *)
(* The main thread runs one message at a time.  Every start() spawns a     *)
(* reader and a writer, and does not wait for those of the start before.   *)
(* A reader that comes to the end of the playlist calls stop() itself, and *)
(* a writer that gets no buffer for ten seconds puts the player in ERROR,  *)
(* both between any two steps of the main thread.  What the threads play   *)
(* is the module Playback.                                                 *)
(*                                                                         *)
(* The services of Android are external: the life cycle of a service, the  *)
(* stack of audio focus, the loopers.                                      *)
(***************************************************************************)
EXTENDS Naturals, SequencesExt

CONSTANTS
    Readers, Writers,   \* the threads that may run at the same time
    MaxCommands         \* bound: the listener's commands, focus changes, ends
                        \* of the playlist and writers that time out

ASSUME SessionAssumption ==
    /\ "main" \notin Readers \cup Writers /\ "none" \notin Writers
    /\ Readers \cap Writers = {}
    /\ MaxCommands \in Nat

STOPPED == "stopped"
PLAYING == "playing"
PAUSED == "paused"
ERROR == "error"

VARIABLES
    state,           \* Player.state
    focusLossPaused, \* Player.focusLossPaused
    focus,           \* what the system has granted
    backendView,     \* whether Player.backendView is set
    svc,             \* PlayerService and its MediaNotificationManager
    pc,              \* where the main thread, the readers and writers are
    writerThread,    \* Player.writerThread
    overtaken,       \* the last start came before all of what preceded it
                     \* had reached the service
    orphaned,        \* the service came up for a player already stopped
    count            \* what MaxCommands bounds

vars == <<state, focusLossPaused, focus, backendView, svc, pc,
          writerThread, overtaken, orphaned, count>>

States == {STOPPED, PLAYING, PAUSED, ERROR}
Threads == {"main"} \cup Readers \cup Writers

\* The setter of Player.state assigns, then sends; stop() goes on to abandon
\* the focus and to call the view.
Steps == {"idle", "loop",
          "startState", "startSend", "startView",
          "pauseState", "pauseSend", "pauseView",
          "stopState", "stopSend", "abandon", "stopView",
          "errorState", "errorSend"}

NoService == [phase |-> "none", noisy |-> FALSE, notified |-> FALSE,
              foreground |-> FALSE, tracking |-> FALSE, events |-> << >>,
              callbacks |-> << >>, stopSent |-> FALSE]

Services == [phase : {"none", "starting", "created", "up", "stopping"},
             noisy : BOOLEAN, notified : BOOLEAN, foreground : BOOLEAN,
             tracking : BOOLEAN, events : Seq(States),
             callbacks : Seq(States), stopSent : BOOLEAN]

\* The last conjunct: the player knows the service exactly from its first
\* onStartCommand to its onDestroy.
TypeOK ==
    /\ state \in States
    /\ focusLossPaused \in BOOLEAN /\ backendView \in BOOLEAN
    /\ overtaken \in BOOLEAN /\ orphaned \in BOOLEAN
    /\ focus \in {"none", "held", "transient", "ducked"}
    /\ svc \in Services
    /\ pc \in [Threads -> Steps]
    /\ writerThread \in Writers \cup {"none"}
    /\ backendView <=> svc.phase \in {"up", "stopping"}

Init ==
    /\ state = STOPPED /\ focusLossPaused = FALSE
    /\ focus = "none"
    /\ backendView = FALSE /\ svc = NoService
    /\ pc = [t \in Threads |-> "idle"]
    /\ writerThread = "none"
    /\ overtaken = FALSE /\ orphaned = FALSE
    /\ count = 0

Subscribed == svc.phase \in {"created", "up", "stopping"}

\* updater.send of the setter of Player.state: the event, with the value that
\* was assigned, waits for the main looper of who is subscribed now.
Announced(new) ==
    [svc EXCEPT !.events = IF Subscribed THEN Append(@, new) ELSE @]

-----------------------------------------------------------------------------
(***************************************************************************)
(* MediaNotificationManager, as functions on the state of the service.     *)
(***************************************************************************)
\* updateState: setPlaybackState, of which a registered callback will hear.
updateState(s, new) ==
    [s EXCEPT !.callbacks = IF s.tracking THEN Append(@, new) ELSE @]

startNotification(s, force) ==
    IF s.notified /\ ~force THEN s
    ELSE [updateState(s, state) EXCEPT !.foreground = TRUE, !.notified = TRUE]

\* The controller callback is unregistered, and never registered again.
stopNotification(s) ==
    IF ~s.notified THEN s
    ELSE [s EXCEPT !.notified = FALSE, !.tracking = FALSE,
                   !.callbacks = << >>, !.foreground = FALSE]

\* Mutant: a paused player stays in the foreground.
onPlaybackStateChangedStays(s, new) ==
    IF new = STOPPED THEN stopNotification(s) ELSE s

onPlaybackStateChanged(s, new) ==
    IF new = STOPPED THEN stopNotification(s)
    ELSE IF new = PAUSED THEN [s EXCEPT !.foreground = FALSE] ELSE s

(***************************************************************************)
(* The BackendView methods of PlayerService.                               *)
(***************************************************************************)
\* Mutant: a notification that exists is not made new.
view_playUnforced(s) == [startNotification(s, FALSE) EXCEPT !.noisy = TRUE]

view_play(s) == [startNotification(s, TRUE) EXCEPT !.noisy = TRUE]

view_pause(s) == [s EXCEPT !.noisy = FALSE]

\* Mutant: the service is not told to stop.
view_stopStays(s) == stopNotification([s EXCEPT !.noisy = FALSE])

view_stop(s) ==
    [stopNotification([s EXCEPT !.noisy = FALSE]) EXCEPT !.phase = "stopping"]

-----------------------------------------------------------------------------
(***************************************************************************)
(* Player.  Each of start, pause and stop is cut where a step of another   *)
(* thread could come between.                                              *)
(***************************************************************************)
Idle == pc["main"] = "idle"
At(t, step) == pc' = [pc EXCEPT ![t] = step]

Counted ==
    /\ count < MaxCommands
    /\ count' = count + 1

Command == Idle /\ Counted

\* A thread is inside stop().
Stopping(t) == pc[t] \in {"stopState", "stopSend", "abandon", "stopView"}

\* Neither a pause nor a stop is among what waits in the queue.
OnlyPlaying(q) == {PAUSED, STOPPED} \cap Range(q) = {}

\* Something of an earlier pause or stop has yet to reach the service.
Unsettled ==
    \/ svc.phase = "stopping" \/ svc.stopSent
    \/ \E t \in Threads : Stopping(t)
    \/ ~OnlyPlaying(svc.events) \/ ~OnlyPlaying(svc.callbacks)

\* start: requestAudioFocus, which may be refused.
start ==
    \/ UNCHANGED <<focus, pc>>
    \/ /\ state # PLAYING
       /\ focus' = "held"
       /\ At("main", "startState")

\* The play button, a chosen track, a skip.
Start ==
    /\ Command /\ start
    /\ UNCHANGED <<state, focusLossPaused, backendView, svc, writerThread,
                   overtaken, orphaned>>

StartState ==
    /\ pc["main"] = "startState"
    /\ state' = PLAYING
    /\ overtaken' = (Unsettled \/ focus = "none")
    /\ At("main", "startSend")
    /\ UNCHANGED <<focusLossPaused, focus, backendView, svc, writerThread,
                   orphaned, count>>

\* A new reader and a new writer, unless there is no track to play.
Spawned(r, w) == [pc EXCEPT !["main"] = "idle", ![r] = "loop", ![w] = "loop"]

\* PlayerService.start or backendView.play, then the threads.
StartView ==
    /\ pc["main"] = "startView"
    /\ svc' = IF backendView THEN view_play(svc)
              ELSE IF svc.phase = "none" THEN [svc EXCEPT !.phase = "starting"]
              ELSE svc
    /\ \/ At("main", "idle") /\ UNCHANGED writerThread
       \/ \E r \in Readers, w \in Writers :
            /\ pc[r] = "idle" /\ pc[w] = "idle"
            /\ pc' = Spawned(r, w)
            /\ writerThread' = w
    /\ UNCHANGED <<state, focusLossPaused, focus, backendView, overtaken,
                   orphaned, count>>

pause ==
    \/ state # PLAYING /\ UNCHANGED pc
    \/ state = PLAYING /\ At("main", "pauseState")

\* The listener, or headphones that are pulled out.
Pause ==
    /\ Command /\ pause
    /\ UNCHANGED <<state, focusLossPaused, focus, backendView, svc,
                   writerThread, overtaken, orphaned>>

PauseState ==
    /\ pc["main"] = "pauseState"
    /\ state' = PAUSED
    /\ At("main", "pauseSend")
    /\ UNCHANGED <<focusLossPaused, focus, backendView, svc, writerThread,
                   overtaken, orphaned, count>>

\* t is done, and the current writer, if it waits for a buffer, is
\* interrupted: it leaves its loop and never times out.
DoneInterrupting(t) ==
    pc' = [u \in Threads |-> IF u = t \/ (u = writerThread /\ pc[u] = "loop")
                             THEN "idle" ELSE pc[u]]

PauseView ==
    /\ pc["main"] = "pauseView"
    /\ svc' = IF backendView THEN view_pause(svc) ELSE svc
    /\ DoneInterrupting("main")
    /\ UNCHANGED <<state, focusLossPaused, focus, backendView, writerThread,
                   overtaken, orphaned, count>>

stop(t) ==
    \/ state = STOPPED /\ At(t, "idle")
    \/ state # STOPPED /\ At(t, "stopState")

Stop ==
    /\ Command /\ stop("main")
    /\ UNCHANGED <<state, focusLossPaused, focus, backendView, svc,
                   writerThread, overtaken, orphaned>>

StopState(t) ==
    /\ pc[t] = "stopState"
    /\ state' = STOPPED
    /\ At(t, "stopSend")
    /\ UNCHANGED <<focusLossPaused, focus, backendView, svc, writerThread,
                   overtaken, orphaned, count>>

Abandon(t) ==
    /\ pc[t] = "abandon"
    /\ focus' = "none"
    /\ At(t, "stopView")
    /\ UNCHANGED <<state, focusLossPaused, backendView, svc, writerThread,
                   overtaken, orphaned, count>>

StopView(t) ==
    /\ pc[t] = "stopView"
    /\ svc' = IF backendView THEN view_stop(svc) ELSE svc
    /\ DoneInterrupting(t)
    /\ UNCHANGED <<state, focusLossPaused, focus, backendView, writerThread,
                   overtaken, orphaned, count>>

\* The second half of the setter, after each of its four assignments; sent[p]
\* is the value a thread at p has assigned, after[p] where it goes on.
sent == [startSend |-> PLAYING, pauseSend |-> PAUSED, stopSend |-> STOPPED,
         errorSend |-> ERROR]
after == [startSend |-> "startView", pauseSend |-> "pauseView",
          stopSend |-> "abandon", errorSend |-> "idle"]

Send(t) ==
    /\ pc[t] \in {"startSend", "pauseSend", "stopSend", "errorSend"}
    /\ svc' = Announced(sent[pc[t]])
    /\ At(t, after[pc[t]])
    /\ UNCHANGED <<state, focusLossPaused, focus, backendView, writerThread,
                   overtaken, orphaned, count>>

-----------------------------------------------------------------------------
(***************************************************************************)
(* The reader and writer threads, as the session sees them.                *)
(***************************************************************************)
\* A reader at the end of the playlist: onPlaylistFinished.
ReaderFinishes(r) ==
    /\ Counted /\ pc[r] = "loop"
    /\ stop(r)
    /\ UNCHANGED <<state, focusLossPaused, focus, backendView, svc,
                   writerThread, overtaken, orphaned>>

\* The state has changed, or an error that is only logged ends the loop.
ReaderLeaves(r) ==
    /\ pc[r] = "loop"
    /\ At(r, "idle")
    /\ UNCHANGED <<state, focusLossPaused, focus, backendView, svc,
                   writerThread, overtaken, orphaned, count>>

WriterLeaves(w) ==
    /\ pc[w] = "loop" /\ state # PLAYING
    /\ At(w, "idle")
    /\ UNCHANGED <<state, focusLossPaused, focus, backendView, svc,
                   writerThread, overtaken, orphaned, count>>

\* No full buffer for ten seconds, whatever has become of the state since.
WriterTimesOut(w) ==
    /\ Counted /\ pc[w] = "loop"
    /\ At(w, "errorState")
    /\ UNCHANGED <<state, focusLossPaused, focus, backendView, svc,
                   writerThread, overtaken, orphaned>>

ErrorState(w) ==
    /\ pc[w] = "errorState"
    /\ state' = ERROR
    /\ At(w, "errorSend")
    /\ UNCHANGED <<focusLossPaused, focus, backendView, svc, writerThread,
                   overtaken, orphaned, count>>

-----------------------------------------------------------------------------
(***************************************************************************)
(* onAudioFocusChange, when another app takes the focus or gives it back.  *)
(***************************************************************************)
FocusLoss ==
    /\ Command /\ focus # "none"
    /\ focus' = "none"
    /\ pause
    /\ UNCHANGED <<state, focusLossPaused, backendView, svc, writerThread,
                   overtaken, orphaned>>

FocusLossTransient ==
    /\ Command /\ focus \in {"held", "ducked"}
    /\ focus' = "transient"
    /\ focusLossPaused' = (focusLossPaused \/ state = PLAYING)
    /\ pause
    /\ UNCHANGED <<state, backendView, svc, writerThread, overtaken, orphaned>>

\* Ducking only scales the volume.
FocusDuck ==
    /\ Command /\ focus = "held"
    /\ focus' = "ducked"
    /\ UNCHANGED <<state, focusLossPaused, backendView, svc, pc, writerThread,
                   overtaken, orphaned>>

\* start(null) if it was the loss that paused; it may be refused.
FocusGain ==
    /\ Command /\ focus \in {"transient", "ducked"}
    /\ focus' = "held"
    /\ focusLossPaused' = FALSE
    /\ \/ focusLossPaused /\ state # PLAYING /\ At("main", "startState")
       \/ UNCHANGED pc
    /\ UNCHANGED <<state, backendView, svc, writerThread, overtaken, orphaned>>

-----------------------------------------------------------------------------
(***************************************************************************)
(* The messages of the main looper.                                        *)
(***************************************************************************)
\* onCreate.
Create ==
    /\ Idle /\ svc.phase = "starting"
    /\ svc' = startNotification([NoService EXCEPT !.phase = "created",
                                                  !.tracking = TRUE], FALSE)
    /\ UNCHANGED <<state, focusLossPaused, focus, backendView, pc,
                   writerThread, overtaken, orphaned, count>>

\* onStartCommand of a service the player does not know yet.
StartCommand ==
    /\ Idle /\ svc.phase = "created"
    /\ backendView' = TRUE
    /\ svc' = [view_play(svc) EXCEPT !.phase = "up"]
    /\ orphaned' = (state = STOPPED)
    /\ UNCHANGED <<state, focusLossPaused, focus, pc, writerThread, overtaken,
                   count>>

\* onStartCommand with KEYCODE_MEDIA_STOP; the session hears of it later.
Swipe ==
    /\ Command /\ svc.phase = "up"
    /\ svc' = [stopNotification(startNotification(svc, TRUE))
                 EXCEPT !.stopSent = TRUE]
    /\ UNCHANGED <<state, focusLossPaused, focus, backendView, pc,
                   writerThread, overtaken, orphaned>>

\* SessionCallback.onStop.
OnStop ==
    /\ Idle /\ svc.stopSent
    /\ svc' = [svc EXCEPT !.stopSent = FALSE]
    /\ stop("main")
    /\ UNCHANGED <<state, focusLossPaused, focus, backendView, writerThread,
                   overtaken, orphaned, count>>

\* Mutant: the player keeps the view of a service that is gone.
DestroyKeepsView ==
    /\ Idle /\ svc.phase = "stopping"
    /\ svc' = NoService
    /\ orphaned' = FALSE
    /\ UNCHANGED <<state, focusLossPaused, focus, backendView, pc,
                   writerThread, overtaken, count>>

\* onDestroy: the session is released, the subscription ends; the system
\* unregisters a receiver the service has left behind.
Destroy ==
    /\ Idle /\ svc.phase = "stopping"
    /\ backendView' = FALSE
    /\ svc' = NoService
    /\ orphaned' = FALSE
    /\ UNCHANGED <<state, focusLossPaused, focus, pc, writerThread, overtaken,
                   count>>

\* The manager's subscription to UiUpdater.
DeliverEvent ==
    /\ Idle /\ svc.events # << >>
    /\ svc' = [updateState(svc, Head(svc.events)) EXCEPT !.events = Tail(@)]
    /\ UNCHANGED <<state, focusLossPaused, focus, backendView, pc,
                   writerThread, overtaken, orphaned, count>>

DeliverCallback ==
    /\ Idle /\ svc.callbacks # << >>
    /\ svc' = onPlaybackStateChanged([svc EXCEPT !.callbacks = Tail(@)],
                                     Head(svc.callbacks))
    /\ UNCHANGED <<state, focusLossPaused, focus, backendView, pc,
                   writerThread, overtaken, orphaned, count>>

Next ==
    \/ Start \/ StartState \/ StartView \/ Pause \/ PauseState \/ PauseView
    \/ Stop
    \/ \E t \in Threads : StopState(t) \/ Abandon(t) \/ StopView(t) \/ Send(t)
    \/ \E r \in Readers : ReaderFinishes(r) \/ ReaderLeaves(r)
    \/ \E w \in Writers : WriterLeaves(w) \/ WriterTimesOut(w) \/ ErrorState(w)
    \/ FocusLoss \/ FocusLossTransient \/ FocusDuck \/ FocusGain
    \/ Create \/ StartCommand \/ Swipe \/ OnStop \/ Destroy
    \/ DeliverEvent \/ DeliverCallback

Spec == Init /\ [][Next]_vars

-----------------------------------------------------------------------------
\* Nothing is under way.
AtRest ==
    /\ \A t \in Threads : pc[t] \in {"idle", "loop"}
    /\ svc.phase \in {"none", "up"}
    /\ svc.events = << >> /\ svc.callbacks = << >> /\ ~svc.stopSent

(***************************************************************************)
(* A player that has stopped, by the listener, a swipe or the end of the   *)
(* playlist on the thread of a reader, in the end holds no audio focus,    *)
(* and of its service nothing is left, neither notification nor receiver.  *)
(* The exception is a stop that came before the service had its first      *)
(* onStartCommand: it does not reach the service, which then comes up for  *)
(* the stopped player, in the foreground and with the receiver registered  *)
(* (PlayerService.onStartCommand, Player.stop).                            *)
(***************************************************************************)
StoppedLetsGo ==
    AtRest /\ state = STOPPED =>
      focus = "none" /\ (svc = NoService \/ orphaned)

(***************************************************************************)
(* The service of a paused player is not in the foreground, so that the    *)
(* listener can dismiss the notification (onPlaybackStateChanged), however *)
(* pauses and resumes, the start of the service, the errors of writers and *)
(* the two queues interleave, as long as the manager still follows the     *)
(* session.  A player in ERROR does not play either, but its service stays *)
(* in the foreground: the property does not hold of it.                    *)
(***************************************************************************)
PausedIsDismissible ==
    AtRest /\ state = PAUSED /\ svc.tracking => ~svc.foreground

(***************************************************************************)
(* While the player plays its service is up and in the foreground, pulled  *)
(* headphones pause it, and it has the audio focus: unless it was started  *)
(* while an earlier pause or stop was on its way (Player.start, the play   *)
(* of PlayerService, startNotification).  A start after an error counts.   *)
(***************************************************************************)
PlayingIsForeground ==
    AtRest /\ state = PLAYING /\ ~overtaken =>
      /\ svc.phase = "up" /\ svc.foreground /\ svc.noisy
      /\ focus \in {"held", "ducked"}
=============================================================================
