------------------------- MODULE PlayerSessionProofs -------------------------
(***************************************************************************)
(* TypeOK, StoppedLetsGo, PausedIsDismissible and PlayingIsForeground of   *)
(* PlayerSession, for any number of readers, writers, commands, changes of *)
(* focus and errors.                                                       *)
(*                                                                         *)
(* StoppedLetsGo speaks of a player at rest.  Between, a stopped player    *)
(* may hold the focus or have a service, as long as some thread is on its  *)
(* way to take them away: LetsGoInv names where those threads are.         *)
(***************************************************************************)
EXTENDS PlayerSession, SequenceTheorems, TLAPS

\* A thread is past the assignment of STOPPED and has not told the service.
Leaving == \E t \in Threads : pc[t] \in {"stopSend", "abandon", "stopView"}

LetsGoInv ==
    /\ state = STOPPED /\ focus # "none" =>
         \/ pc["main"] = "startState"
         \/ \E t \in Threads : pc[t] \in {"stopSend", "abandon"}
    /\ state = STOPPED /\ svc.phase = "up" => orphaned \/ Leaving
    /\ svc.phase = "none" => svc = NoService

-----------------------------------------------------------------------------
(***************************************************************************)
(* The methods of the manager and of the view take a service to a service, *)
(* and only stop() changes its phase.                                      *)
(***************************************************************************)
LEMMA UpdateStateFacts ==
    ASSUME NEW s \in Services, NEW new \in States
    PROVE  updateState(s, new) \in Services
           /\ updateState(s, new).phase = s.phase
  <1>1. Append(s.callbacks, new) \in Seq(States)
    BY DEF Services
  <1> QED
    BY <1>1 DEF updateState, Services

LEMMA StartNotificationFacts ==
    ASSUME NEW s \in Services, NEW force \in BOOLEAN, state \in States
    PROVE  startNotification(s, force) \in Services
           /\ startNotification(s, force).phase = s.phase
  <1> DEFINE u == updateState(s, state)
  <1>1. u \in Services /\ u.phase = s.phase
    BY UpdateStateFacts
  <1> HIDE DEF u
  <1>2. startNotification(s, force) =
          IF s.notified /\ ~force THEN s
          ELSE [u EXCEPT !.foreground = TRUE, !.notified = TRUE]
    BY DEF startNotification, u
  <1> QED
    BY <1>1, <1>2 DEF Services

LEMMA StopNotificationFacts ==
    ASSUME NEW s \in Services
    PROVE  stopNotification(s) \in Services
           /\ stopNotification(s).phase = s.phase
  <1>1. << >> \in Seq(States)
    OBVIOUS
  <1> QED
    BY <1>1 DEF stopNotification, Services

LEMMA CallbackFacts ==
    ASSUME NEW s \in Services, NEW new \in States
    PROVE  onPlaybackStateChanged(s, new) \in Services
           /\ onPlaybackStateChanged(s, new).phase = s.phase
  <1>1. stopNotification(s) \in Services /\ stopNotification(s).phase = s.phase
    BY StopNotificationFacts
  <1>2. [s EXCEPT !.foreground = FALSE] \in Services
        /\ [s EXCEPT !.foreground = FALSE].phase = s.phase
    BY DEF Services
  <1> QED
    BY <1>1, <1>2 DEF onPlaybackStateChanged

LEMMA ViewFacts ==
    ASSUME NEW s \in Services, state \in States
    PROVE  /\ view_play(s) \in Services /\ view_play(s).phase = s.phase
           /\ view_pause(s) \in Services /\ view_pause(s).phase = s.phase
           /\ view_stop(s) \in Services /\ view_stop(s).phase = "stopping"
  <1> DEFINE n == startNotification(s, TRUE)
             q == [s EXCEPT !.noisy = FALSE]
             e == stopNotification(q)
  <1>1. n \in Services /\ n.phase = s.phase
    BY StartNotificationFacts
  <1>2. q \in Services /\ q.phase = s.phase
    BY DEF Services
  <1>3. e \in Services
    <2> HIDE DEF q
    <2> QED
      BY <1>2, StopNotificationFacts
  <1>4. /\ view_play(s) = [n EXCEPT !.noisy = TRUE]
        /\ view_pause(s) = q
        /\ view_stop(s) = [e EXCEPT !.phase = "stopping"]
    BY DEF view_play, view_pause, view_stop
  <1> HIDE DEF n, q, e
  <1> QED
    BY <1>1, <1>2, <1>3, <1>4 DEF Services

LEMMA AnnouncedFacts ==
    ASSUME svc \in Services, NEW new \in States
    PROVE  Announced(new) \in Services /\ Announced(new).phase = svc.phase
  <1>1. Append(svc.events, new) \in Seq(States)
    BY DEF Services
  <1> QED
    BY <1>1 DEF Announced, Services

-----------------------------------------------------------------------------
LEMMA NoServiceFacts == NoService \in Services /\ NoService.phase = "none"
  <1>1. << >> \in Seq(States)
    OBVIOUS
  <1> QED
    BY <1>1 DEF NoService, Services

LEMMA TypeInit == Init => TypeOK
  <1>1. STOPPED \in States
    BY DEF States
  <1> QED
    BY <1>1, NoServiceFacts DEF Init, TypeOK, Steps

USE DEF At, Idle, Counted, Command

LEMMA ThreadFacts ==
    /\ "main" \in Threads /\ Readers \subseteq Threads /\ Writers \subseteq Threads
    /\ \A t \in Readers \cup Writers : t # "main"
  BY SessionAssumption DEF Threads

\* What a thread that has assigned the state sends, and where it goes on.
LEMMA SendFacts ==
    ASSUME NEW t \in Threads, Send(t)
    PROVE  /\ sent[pc[t]] \in States /\ after[pc[t]] \in Steps
           /\ pc[t] = "startSend" =>
                sent[pc[t]] = PLAYING /\ after[pc[t]] = "startView"
           /\ pc[t] = "pauseSend" =>
                sent[pc[t]] = PAUSED /\ after[pc[t]] = "pauseView"
           /\ pc[t] = "stopSend" =>
                sent[pc[t]] = STOPPED /\ after[pc[t]] = "abandon"
           /\ pc[t] = "errorSend" =>
                sent[pc[t]] = ERROR /\ after[pc[t]] = "idle"
           /\ pc[t] \in {"startSend", "pauseSend", "stopSend", "errorSend"}
  BY DEF Send, sent, after, States, Steps

(***************************************************************************)
(* The commands only move the program counters and the focus.              *)
(***************************************************************************)
LEMMA TypeCommands ==
    ASSUME TypeOK,
           Start \/ Pause \/ Stop
           \/ FocusLoss \/ FocusLossTransient \/ FocusDuck \/ FocusGain
    PROVE  TypeOK'
  <1> USE ThreadFacts DEF TypeOK, Steps
  <1>1. CASE Start
    BY <1>1 DEF Start, start
  <1>2. CASE Pause
    BY <1>2 DEF Pause, pause
  <1>3. CASE Stop
    BY <1>3 DEF Stop, stop
  <1>4. CASE FocusLoss
    BY <1>4 DEF FocusLoss, pause
  <1>5. CASE FocusLossTransient
    BY <1>5 DEF FocusLossTransient, pause
  <1>6. CASE FocusDuck
    BY <1>6 DEF FocusDuck
  <1>7. CASE FocusGain
    BY <1>7 DEF FocusGain
  <1> QED
    BY <1>1, <1>2, <1>3, <1>4, <1>5, <1>6, <1>7

(***************************************************************************)
(* The steps that assign the state, send it, or call the view.             *)
(***************************************************************************)
LEMMA TypePlayer ==
    ASSUME TypeOK,
           \/ StartState \/ StartView \/ PauseState \/ PauseView
           \/ \E t \in Threads :
                StopState(t) \/ Abandon(t) \/ StopView(t) \/ Send(t)
    PROVE  TypeOK'
  <1>1. STOPPED \in States /\ PLAYING \in States /\ PAUSED \in States
    BY DEF States
  <1>2. state \in States /\ svc \in Services
    BY DEF TypeOK
  <1>3. \A new \in States : Announced(new) \in Services
                            /\ Announced(new).phase = svc.phase
    BY <1>2, AnnouncedFacts
  <1>4. /\ view_play(svc) \in Services /\ view_play(svc).phase = svc.phase
        /\ view_pause(svc) \in Services /\ view_pause(svc).phase = svc.phase
        /\ view_stop(svc) \in Services /\ view_stop(svc).phase = "stopping"
    BY <1>2, ViewFacts
  <1> USE ThreadFacts
  <1>5. CASE StartState
    BY <1>1, <1>5 DEF StartState, TypeOK, Steps, Unsettled
  <1>6. CASE StartView
    <2>1. svc' \in Services /\ (backendView <=> svc'.phase \in {"up", "stopping"})
      BY <1>4, <1>6 DEF StartView, TypeOK, Services
    <2>2. pc' \in [Threads -> Steps] /\ writerThread' \in Writers \cup {"none"}
      BY <1>6 DEF StartView, Spawned, TypeOK, Steps
    <2> QED
      BY <2>1, <2>2, <1>6 DEF StartView, TypeOK
  <1>7. CASE PauseState
    BY <1>1, <1>7 DEF PauseState, TypeOK, Steps
  <1>8. CASE PauseView
    <2>1. pc' \in [Threads -> Steps]
      BY <1>8 DEF PauseView, DoneInterrupting, TypeOK, Steps
    <2> QED
      BY <1>4, <1>8, <2>1 DEF PauseView, TypeOK
  <1>9. ASSUME NEW t \in Threads, StopState(t)
        PROVE  TypeOK'
    BY <1>1, <1>9 DEF StopState, TypeOK, Steps
  <1>10. ASSUME NEW t \in Threads, Abandon(t)
         PROVE  TypeOK'
    BY <1>10 DEF Abandon, TypeOK, Steps
  <1>11. ASSUME NEW t \in Threads, StopView(t)
         PROVE  TypeOK'
    <2>1. pc' \in [Threads -> Steps]
      BY <1>11 DEF StopView, DoneInterrupting, TypeOK, Steps
    <2> QED
      BY <1>4, <1>11, <2>1 DEF StopView, TypeOK
  <1>12. ASSUME NEW t \in Threads, Send(t)
         PROVE  TypeOK'
    <2>1. sent[pc[t]] \in States /\ after[pc[t]] \in Steps
      BY <1>12, SendFacts
    <2> QED
      BY <1>3, <1>12, <2>1 DEF Send, TypeOK
  <1> QED
    BY <1>5, <1>6, <1>7, <1>8, <1>9, <1>10, <1>11, <1>12

(***************************************************************************)
(* The steps of the readers and the writers.                               *)
(***************************************************************************)
LEMMA TypeWorkers ==
    ASSUME TypeOK,
           \/ \E r \in Readers : ReaderFinishes(r) \/ ReaderLeaves(r)
           \/ \E w \in Writers :
                WriterLeaves(w) \/ WriterTimesOut(w) \/ ErrorState(w)
    PROVE  TypeOK'
  <1> USE ThreadFacts DEF TypeOK, Steps
  <1>1. ASSUME NEW r \in Readers, ReaderFinishes(r) \/ ReaderLeaves(r)
        PROVE  TypeOK'
    BY <1>1 DEF ReaderFinishes, ReaderLeaves, stop
  <1>2. ASSUME NEW w \in Writers, WriterLeaves(w) \/ WriterTimesOut(w)
        PROVE  TypeOK'
    BY <1>2 DEF WriterLeaves, WriterTimesOut
  <1>3. ASSUME NEW w \in Writers, ErrorState(w)
        PROVE  TypeOK'
    BY <1>3 DEF ErrorState, States
  <1> QED
    BY <1>1, <1>2, <1>3

(***************************************************************************)
(* The messages of the main looper.                                        *)
(***************************************************************************)
LEMMA TypeLooper ==
    ASSUME TypeOK,
           Create \/ StartCommand \/ Swipe \/ OnStop \/ Destroy
           \/ DeliverEvent \/ DeliverCallback
    PROVE  TypeOK'
  <1>1. state \in States /\ svc \in Services
    BY DEF TypeOK
  <1>2. NoService \in Services /\ NoService.phase = "none"
    BY NoServiceFacts
  <1>3. CASE Create
    <2> DEFINE s == [NoService EXCEPT !.phase = "created", !.tracking = TRUE]
    <2>1. s \in Services /\ s.phase = "created"
      BY <1>2 DEF Services
    <2>2. svc' = startNotification(s, FALSE)
      BY <1>3 DEF Create
    <2> HIDE DEF s
    <2>3. svc' \in Services /\ svc'.phase = "created"
      BY <1>1, <2>1, <2>2, StartNotificationFacts
    <2>4. svc.phase = "starting"
      BY <1>3 DEF Create
    <2> QED
      BY <1>3, <2>3, <2>4 DEF Create, TypeOK
  <1>4. CASE StartCommand
    <2>1. view_play(svc) \in Services
      BY <1>1, ViewFacts
    <2>2. svc' \in Services /\ svc'.phase = "up"
      BY <1>4, <2>1 DEF StartCommand, Services
    <2> QED
      BY <1>4, <2>2 DEF StartCommand, TypeOK
  <1>5. CASE Swipe
    <2> DEFINE n == startNotification(svc, TRUE)
               e == stopNotification(n)
    <2>1. n \in Services /\ n.phase = svc.phase
      BY <1>1, StartNotificationFacts
    <2>2. svc' = [e EXCEPT !.stopSent = TRUE]
      BY <1>5 DEF Swipe
    <2> HIDE DEF n
    <2>3. e \in Services /\ e.phase = svc.phase
      BY <2>1, StopNotificationFacts
    <2> HIDE DEF e
    <2>4. svc' \in Services /\ svc'.phase = svc.phase
      BY <2>2, <2>3 DEF Services
    <2> QED
      BY <1>5, <2>4 DEF Swipe, TypeOK
  <1>6. CASE OnStop
    <2>1. svc' \in Services /\ svc'.phase = svc.phase
      BY <1>1, <1>6 DEF OnStop, Services
    <2> QED
      BY <1>6, <2>1, ThreadFacts DEF OnStop, stop, TypeOK, Steps
  <1>7. CASE Destroy
    BY <1>2, <1>7 DEF Destroy, TypeOK
  <1>8. CASE DeliverEvent
    <2> DEFINE u == updateState(svc, Head(svc.events))
    <2>1. Head(svc.events) \in States /\ Tail(svc.events) \in Seq(States)
      BY <1>1, <1>8 DEF DeliverEvent, Services
    <2>2. u \in Services /\ u.phase = svc.phase /\ u.events = svc.events
      <3>1. u \in Services /\ u.phase = svc.phase
        BY <1>1, <2>1, UpdateStateFacts
      <3>2. u.events = svc.events
        BY <1>1 DEF updateState, Services
      <3> QED
        BY <3>1, <3>2
    <2>3. svc' = [u EXCEPT !.events = Tail(@)]
      BY <1>8 DEF DeliverEvent
    <2> HIDE DEF u
    <2>4. svc' \in Services /\ svc'.phase = svc.phase
      BY <2>1, <2>2, <2>3 DEF Services
    <2> QED
      BY <1>8, <2>4 DEF DeliverEvent, TypeOK
  <1>9. CASE DeliverCallback
    <2> DEFINE s == [svc EXCEPT !.callbacks = Tail(@)]
    <2>1. Head(svc.callbacks) \in States /\ Tail(svc.callbacks) \in Seq(States)
      BY <1>1, <1>9 DEF DeliverCallback, Services
    <2>2. s \in Services /\ s.phase = svc.phase
      BY <1>1, <2>1 DEF Services
    <2>3. svc' = onPlaybackStateChanged(s, Head(svc.callbacks))
      BY <1>9 DEF DeliverCallback
    <2> HIDE DEF s
    <2>4. svc' \in Services /\ svc'.phase = svc.phase
      BY <2>1, <2>2, <2>3, CallbackFacts
    <2> QED
      BY <1>9, <2>4 DEF DeliverCallback, TypeOK
  <1> QED
    BY <1>3, <1>4, <1>5, <1>6, <1>7, <1>8, <1>9

(***************************************************************************)
(* The state of the player and of its service keeps its type, and the      *)
(* player has a view exactly while the service has been commanded and not  *)
(* destroyed.                                                              *)
(***************************************************************************)
THEOREM SessionTypeCorrect == Spec => []TypeOK
  <1>1. TypeOK /\ [Next]_vars => TypeOK'
    <2> SUFFICES ASSUME TypeOK, [Next]_vars PROVE TypeOK'
      OBVIOUS
    <2>1. CASE UNCHANGED vars
      BY <2>1 DEF vars, TypeOK
    <2>2. CASE Next
      BY <2>2, TypeCommands, TypePlayer, TypeWorkers, TypeLooper DEF Next
    <2> QED
      BY <2>1, <2>2
  <1> QED
    BY TypeInit, <1>1, PTL DEF Spec

-----------------------------------------------------------------------------
(***************************************************************************)
(* What the commands do to LetsGoInv: a focus that is granted or changed   *)
(* is one that a thread will abandon, or that a start is about to use.     *)
(***************************************************************************)
LEMMA LetsGoCommands ==
    ASSUME TypeOK, LetsGoInv,
           Start \/ Pause \/ Stop
           \/ FocusLoss \/ FocusLossTransient \/ FocusDuck \/ FocusGain
    PROVE  LetsGoInv'
  <1> USE ThreadFacts
      DEF LetsGoInv, Leaving, TypeOK, STOPPED, PLAYING, PAUSED
  <1>1. CASE Start
    BY <1>1 DEF Start, start
  <1>2. CASE Pause
    BY <1>2 DEF Pause, pause
  <1>3. CASE Stop
    BY <1>3 DEF Stop, stop
  <1>4. CASE FocusLoss
    BY <1>4 DEF FocusLoss, pause
  <1>5. CASE FocusLossTransient
    BY <1>5 DEF FocusLossTransient, pause
  <1>6. CASE FocusDuck
    BY <1>6 DEF FocusDuck
  <1>7. CASE FocusGain
    BY <1>7 DEF FocusGain
  <1> QED
    BY <1>1, <1>2, <1>3, <1>4, <1>5, <1>6, <1>7

(***************************************************************************)
(* A stop sends its event, abandons the focus and then stops the service,  *)
(* whichever thread runs it and whatever the others do between.            *)
(***************************************************************************)
LEMMA LetsGoPlayer ==
    ASSUME TypeOK, LetsGoInv,
           \/ StartState \/ StartView \/ PauseState \/ PauseView
           \/ \E t \in Threads :
                StopState(t) \/ Abandon(t) \/ StopView(t) \/ Send(t)
    PROVE  LetsGoInv'
  <1>1. state \in States /\ svc \in Services /\ pc \in [Threads -> Steps]
    BY DEF TypeOK
  <1>2. /\ view_play(svc).phase = svc.phase
        /\ view_pause(svc).phase = svc.phase
        /\ view_stop(svc).phase = "stopping"
    BY <1>1, ViewFacts
  <1>3. svc.phase = "none" => ~backendView
    BY DEF TypeOK
  <1> USE ThreadFacts DEF LetsGoInv, Leaving
  <1>4. CASE StartState
    BY <1>1, <1>4 DEF StartState, STOPPED, PLAYING
  <1>5. CASE StartView
    <2>1. /\ svc'.phase = "up" => svc.phase = "up"
          /\ svc'.phase = "none" => FALSE
      BY <1>1, <1>2, <1>3, <1>5 DEF StartView, Services
    <2>2. /\ UNCHANGED <<state, focus, orphaned>>
          /\ pc["main"] = "startView"
          /\ \A t \in Threads : pc[t] # "idle" /\ t # "main" => pc'[t] = pc[t]
      BY <1>1, <1>5 DEF StartView, Spawned
    <2> QED
      BY <2>1, <2>2
  <1>6. CASE PauseState
    BY <1>1, <1>6 DEF PauseState, STOPPED, PAUSED
  <1>7. CASE PauseView
    <2>1. /\ svc'.phase = svc.phase
          /\ svc.phase = "none" => svc' = svc
      BY <1>2, <1>3, <1>7 DEF PauseView
    <2>2. /\ UNCHANGED <<state, focus, orphaned>>
          /\ pc["main"] = "pauseView"
          /\ \A t \in Threads :
               pc[t] # "loop" /\ t # "main" => pc'[t] = pc[t]
      BY <1>1, <1>7 DEF PauseView, DoneInterrupting
    <2> QED
      BY <2>1, <2>2
  <1>8. ASSUME NEW t \in Threads, StopState(t)
        PROVE  LetsGoInv'
    BY <1>1, <1>8 DEF StopState
  <1>9. ASSUME NEW t \in Threads, Abandon(t)
        PROVE  LetsGoInv'
    BY <1>1, <1>9 DEF Abandon
  <1>10. ASSUME NEW t \in Threads, StopView(t)
         PROVE  LetsGoInv'
    <2>1. svc'.phase # "up" /\ (svc'.phase = "none" => svc' = svc)
      BY <1>2, <1>3, <1>10 DEF StopView, TypeOK
    <2>2. /\ UNCHANGED <<state, focus, orphaned>>
          /\ pc[t] = "stopView"
          /\ \A u \in Threads : pc[u] # "loop" /\ u # t => pc'[u] = pc[u]
      BY <1>1, <1>10 DEF StopView, DoneInterrupting
    <2> QED
      BY <2>1, <2>2
  <1>11. ASSUME NEW t \in Threads, Send(t)
         PROVE  LetsGoInv'
    <2>1. /\ UNCHANGED <<state, focus, orphaned>>
          /\ svc' = Announced(sent[pc[t]]) /\ sent[pc[t]] \in States
          /\ pc[t] = "stopSend" => pc'[t] = "abandon"
          /\ pc[t] \in {"startSend", "pauseSend", "stopSend", "errorSend"}
          /\ \A u \in Threads : u # t => pc'[u] = pc[u]
      BY <1>1, <1>11, SendFacts DEF Send
    <2>2. /\ svc'.phase = svc.phase
          /\ svc.phase = "none" => svc' = svc
      <3>1. svc'.phase = svc.phase
        BY <1>1, <2>1, AnnouncedFacts
      <3>2. ASSUME svc.phase = "none" PROVE svc' = svc
        <4>1. svc' = [svc EXCEPT !.events = svc.events]
          BY <2>1, <3>2 DEF Announced, Subscribed
        <4> QED
          BY <1>1, <4>1 DEF Services
      <3> QED
        BY <3>1, <3>2
    <2> QED
      BY <2>1, <2>2
  <1> QED
    BY <1>4, <1>5, <1>6, <1>7, <1>8, <1>9, <1>10, <1>11

\* A worker that is in its loop, or in an error, is not inside a stop.
LEMMA LetsGoWorkers ==
    ASSUME TypeOK, LetsGoInv,
           \/ \E r \in Readers : ReaderFinishes(r) \/ ReaderLeaves(r)
           \/ \E w \in Writers :
                WriterLeaves(w) \/ WriterTimesOut(w) \/ ErrorState(w)
    PROVE  LetsGoInv'
  <1> USE ThreadFacts DEF LetsGoInv, Leaving, TypeOK
  <1>1. ASSUME NEW r \in Readers, ReaderFinishes(r) \/ ReaderLeaves(r)
        PROVE  LetsGoInv'
    BY <1>1 DEF ReaderFinishes, ReaderLeaves, stop
  <1>2. ASSUME NEW w \in Writers, WriterLeaves(w) \/ WriterTimesOut(w)
        PROVE  LetsGoInv'
    BY <1>2 DEF WriterLeaves, WriterTimesOut
  <1>3. ASSUME NEW w \in Writers, ErrorState(w)
        PROVE  LetsGoInv'
    BY <1>3 DEF ErrorState, STOPPED, ERROR
  <1> QED
    BY <1>1, <1>2, <1>3

(***************************************************************************)
(* Of the messages only the first onStartCommand brings a service up; if   *)
(* the player has stopped by then, the service is an orphan.               *)
(***************************************************************************)
LEMMA LetsGoLooper ==
    ASSUME TypeOK, LetsGoInv,
           Create \/ StartCommand \/ Swipe \/ OnStop \/ Destroy
           \/ DeliverEvent \/ DeliverCallback
    PROVE  LetsGoInv'
  <1> USE ThreadFacts DEF LetsGoInv, Leaving
  <1>1. TypeOK' /\ svc \in Services /\ state \in States
    BY TypeLooper DEF TypeOK
  <1>2. CASE Create
    <2>1. svc'.phase = "created"
      <3> DEFINE n == [NoService EXCEPT !.phase = "created", !.tracking = TRUE]
      <3>1. n \in Services /\ n.phase = "created"
        BY NoServiceFacts DEF Services
      <3>2. svc' = startNotification(n, FALSE)
        BY <1>2 DEF Create
      <3> HIDE DEF n
      <3> QED
        BY <1>1, <3>1, <3>2, StartNotificationFacts
    <2> QED
      BY <1>2, <2>1 DEF Create
  <1>3. CASE StartCommand
    <2>1. svc'.phase = "up"
      BY <1>1, <1>3, ViewFacts DEF StartCommand, Services
    <2> QED
      BY <1>3, <2>1 DEF StartCommand
  <1>4. CASE Swipe
    <2>1. svc.phase = "up" /\ svc'.phase = "up"
      BY <1>1, <1>4 DEF Swipe, startNotification, updateState,
                        stopNotification, Services
    <2> QED
      BY <1>4, <2>1 DEF Swipe
  <1>5. CASE OnStop
    <2>1. svc'.phase = svc.phase /\ svc.phase # "none"
      BY <1>1, <1>5 DEF OnStop, Services, NoService
    <2> QED
      BY <1>5, <2>1 DEF OnStop, stop, TypeOK
  <1>6. CASE Destroy
    <2>1. svc' = NoService /\ svc'.phase = "none"
      BY <1>6, NoServiceFacts DEF Destroy
    <2> QED
      BY <1>6, <2>1 DEF Destroy
  <1>7. CASE DeliverEvent
    <2>1. Head(svc.events) \in States
      BY <1>1, <1>7 DEF DeliverEvent, Services
    <2>2. updateState(svc, Head(svc.events)) \in Services
          /\ updateState(svc, Head(svc.events)).phase = svc.phase
      BY <1>1, <2>1, UpdateStateFacts
    <2>3. svc'.phase = svc.phase
      BY <1>7, <2>2 DEF DeliverEvent, Services
    <2>4. svc.phase # "none"
      BY <1>7 DEF DeliverEvent, NoService
    <2> QED
      BY <1>7, <2>3, <2>4 DEF DeliverEvent
  <1>8. CASE DeliverCallback
    <2> DEFINE s == [svc EXCEPT !.callbacks = Tail(@)]
    <2>1. Head(svc.callbacks) \in States /\ Tail(svc.callbacks) \in Seq(States)
      BY <1>1, <1>8 DEF DeliverCallback, Services
    <2>2. s \in Services /\ s.phase = svc.phase
      BY <1>1, <2>1 DEF Services
    <2>3. svc' = onPlaybackStateChanged(s, Head(svc.callbacks))
      BY <1>8 DEF DeliverCallback
    <2> HIDE DEF s
    <2>4. svc'.phase = svc.phase
      BY <2>1, <2>2, <2>3, CallbackFacts
    <2>5. svc.phase # "none"
      BY <1>8 DEF DeliverCallback, NoService
    <2> QED
      BY <1>8, <2>4, <2>5 DEF DeliverCallback
  <1> QED
    BY <1>2, <1>3, <1>4, <1>5, <1>6, <1>7, <1>8

(***************************************************************************)
(* A stopped player at rest has let go of the audio focus, and nothing is  *)
(* left of its service, notification and noisy receiver included, unless   *)
(* that came up too late to be told.                                       *)
(***************************************************************************)
THEOREM SessionLetsGo == Spec => []StoppedLetsGo
  <1>1. Init => LetsGoInv
    BY DEF Init, LetsGoInv, NoService
  <1>2. TypeOK /\ LetsGoInv /\ [Next]_vars => LetsGoInv'
    <2> SUFFICES ASSUME TypeOK, LetsGoInv, [Next]_vars PROVE LetsGoInv'
      OBVIOUS
    <2>1. CASE UNCHANGED vars
      BY <2>1 DEF vars, LetsGoInv, Leaving
    <2>2. CASE Next
      BY <2>2, LetsGoCommands, LetsGoPlayer, LetsGoWorkers, LetsGoLooper
         DEF Next
    <2> QED
      BY <2>1, <2>2
  <1>3. LetsGoInv => StoppedLetsGo
    BY ThreadFacts DEF LetsGoInv, Leaving, StoppedLetsGo, AtRest
  <1> QED
    BY SessionTypeCorrect, <1>1, <1>2, <1>3, PTL DEF Spec

-----------------------------------------------------------------------------
(***************************************************************************)
(* PausedIsDismissible.  As long as the service of a paused player is in   *)
(* the foreground the PAUSED that takes it out is somewhere on its way:    *)
(* about to be sent, among the events, or among the callbacks.             *)
(***************************************************************************)
DismissInv ==
    /\ svc.foreground => Subscribed
    /\ state = PAUSED /\ svc.tracking /\ svc.foreground =>
         \/ pc["main"] = "pauseSend"
         \/ PAUSED \in Range(svc.events) \cup Range(svc.callbacks)
    /\ pc["main"] \in {"startSend", "startView"} => state # PAUSED

LEMMA RangeAppend ==
    ASSUME NEW q \in Seq(States), NEW x \in States
    PROVE  Range(Append(q, x)) = Range(q) \cup {x}
  <1>1. /\ Len(q) \in Nat /\ DOMAIN q = 1..Len(q)
        /\ DOMAIN Append(q, x) = 1..(Len(q) + 1)
        /\ \A i \in 1..Len(q) : Append(q, x)[i] = q[i]
        /\ Append(q, x)[Len(q) + 1] = x
    OBVIOUS
  <1>2. ASSUME NEW y
        PROVE  y \in Range(Append(q, x)) <=> y \in Range(q) \cup {x}
    BY <1>1 DEF Range
  <1> QED
    BY <1>2

LEMMA RangeTail ==
    ASSUME NEW q \in Seq(States), q # << >>
    PROVE  /\ Head(q) \in Range(q)
           /\ Range(q) = Range(Tail(q)) \cup {Head(q)}
  <1>1. /\ Head(q) = q[1] /\ Len(q) \in Nat /\ Len(q) # 0
        /\ Len(Tail(q)) = Len(q) - 1 /\ Tail(q) \in Seq(States)
        /\ \A i \in 1..Len(Tail(q)) : Tail(q)[i] = q[i + 1]
    BY HeadTailProperties, EmptySeq
  <1>2. DOMAIN q = 1..Len(q) /\ DOMAIN Tail(q) = 1..(Len(q) - 1)
    BY <1>1
  <1>3. ASSUME NEW i \in 1..Len(q)
        PROVE  q[i] \in Range(Tail(q)) \cup {Head(q)}
    <2>1. CASE i = 1
      BY <1>1, <2>1
    <2>2. CASE i # 1
      <3>1. i - 1 \in DOMAIN Tail(q) /\ Tail(q)[i - 1] = q[i]
        BY <1>1, <1>2, <2>2
      <3> QED
        BY <3>1 DEF Range
    <2> QED
      BY <2>1, <2>2
  <1>4. Range(q) \subseteq Range(Tail(q)) \cup {Head(q)}
    BY <1>2, <1>3 DEF Range
  <1>5. ASSUME NEW i \in 1..(Len(q) - 1)
        PROVE  Tail(q)[i] \in Range(q)
    BY <1>1, <1>2 DEF Range
  <1>6. Range(Tail(q)) \subseteq Range(q)
    BY <1>2, <1>5 DEF Range
  <1>7. Head(q) \in Range(q)
    BY <1>1, <1>2 DEF Range
  <1> QED
    BY <1>4, <1>6, <1>7

LEMMA RangeEmpty == Range(<< >>) = {}
  BY DEF Range

(***************************************************************************)
(* What the methods of the view do to the notification and the queues.     *)
(***************************************************************************)
LEMMA PlayFields ==
    ASSUME NEW s \in Services
    PROVE  /\ view_play(s).events = s.events
           /\ view_play(s).tracking = s.tracking
           /\ view_play(s).foreground
           /\ s.tracking => view_play(s).callbacks = Append(s.callbacks, state)
  BY DEF view_play, startNotification, updateState, Services

LEMMA StopFields ==
    ASSUME NEW s \in Services
    PROVE  /\ view_stop(s).events = s.events
           /\ view_stop(s).foreground =>
                s.foreground /\ view_stop(s).callbacks = s.callbacks
                /\ view_stop(s).tracking = s.tracking
  BY DEF view_stop, stopNotification, Services

LEMMA AnnouncedFields ==
    ASSUME svc \in Services, NEW new \in States
    PROVE  /\ Announced(new).events = IF Subscribed THEN Append(svc.events, new)
                                     ELSE svc.events
           /\ Announced(new).foreground = svc.foreground
           /\ Announced(new).tracking = svc.tracking
           /\ Announced(new).callbacks = svc.callbacks
           /\ Announced(new).noisy = svc.noisy
           /\ Announced(new).stopSent = svc.stopSent
  BY DEF Announced, Services

\* The commands leave the service alone, and none of them is a startSend.
LEMMA DismissCommands ==
    ASSUME TypeOK, DismissInv,
           Start \/ Pause \/ Stop
           \/ FocusLoss \/ FocusLossTransient \/ FocusDuck \/ FocusGain
    PROVE  DismissInv'
  <1>1. UNCHANGED <<svc, state>> /\ pc["main"] = "idle"
    BY DEF Start, Pause, Stop, FocusLoss, FocusLossTransient, FocusDuck,
           FocusGain
  <1>2. pc["main"]' \notin {"startSend", "startView"}
    BY <1>1, ThreadFacts DEF Start, Pause, Stop, FocusLoss, FocusLossTransient,
           FocusDuck, FocusGain, start, pause, stop, TypeOK
  <1> QED
    BY <1>1, <1>2 DEF DismissInv, Subscribed

\* A worker never assigns PAUSED.
LEMMA DismissWorkers ==
    ASSUME TypeOK, DismissInv,
           \/ \E r \in Readers : ReaderFinishes(r) \/ ReaderLeaves(r)
           \/ \E w \in Writers :
                WriterLeaves(w) \/ WriterTimesOut(w) \/ ErrorState(w)
    PROVE  DismissInv'
  <1>1. svc' = svc /\ pc["main"]' = pc["main"] /\ state' \in {state, ERROR}
    BY ThreadFacts DEF ReaderFinishes, ReaderLeaves, WriterLeaves,
           WriterTimesOut, ErrorState, stop, TypeOK
  <1> QED
    BY <1>1 DEF DismissInv, Subscribed, ERROR, PAUSED

LEMMA DismissPlayer ==
    ASSUME TypeOK, DismissInv,
           \/ StartState \/ StartView \/ PauseState \/ PauseView
           \/ \E t \in Threads :
                StopState(t) \/ Abandon(t) \/ StopView(t) \/ Send(t)
    PROVE  DismissInv'
  <1>1. state \in States /\ svc \in Services
    BY DEF TypeOK
  <1>2. PLAYING \in States /\ PAUSED \in States /\ STOPPED \in States
        /\ PLAYING # PAUSED /\ STOPPED # PAUSED
    BY DEF States, PLAYING, PAUSED, STOPPED
  <1>3. pc \in [Threads -> Steps]
    BY DEF TypeOK
  <1> USE ThreadFacts
  <1>4. CASE StartState
    BY <1>2, <1>3, <1>4 DEF StartState, DismissInv, Subscribed
  <1>5. CASE PauseState
    BY <1>2, <1>3, <1>5 DEF PauseState, DismissInv, Subscribed
  <1>6. ASSUME NEW t \in Threads, StopState(t)
        PROVE  DismissInv'
    BY <1>2, <1>3, <1>6 DEF StopState, DismissInv, Subscribed
  <1>7. ASSUME NEW t \in Threads, Abandon(t)
        PROVE  DismissInv'
    BY <1>3, <1>7 DEF Abandon, DismissInv, Subscribed
  <1>8. CASE StartView
    <2>1. state' = state /\ state # PAUSED /\ pc'["main"] = "idle"
      BY <1>3, <1>8 DEF StartView, Spawned, DismissInv
    <2>2. CASE backendView
      <3>1. svc' = view_play(svc)
        BY <1>8, <2>2 DEF StartView
      <3>2. svc'.events = svc.events /\ svc'.phase = svc.phase
        BY <1>1, <3>1, PlayFields, ViewFacts
      <3>3. Subscribed /\ Subscribed'
        BY <2>2, <3>2 DEF TypeOK, Subscribed
      <3> QED
        BY <2>1, <3>2, <3>3 DEF DismissInv
    <2>3. CASE ~backendView
      <3>1. svc'.events = svc.events /\ svc'.foreground = svc.foreground
        BY <1>1, <1>8, <2>3 DEF StartView, Services
      <3>2. Subscribed => svc' = svc
        BY <1>8, <2>3 DEF StartView, Subscribed
      <3> QED
        BY <2>1, <3>1, <3>2 DEF DismissInv, Subscribed
    <2> QED
      BY <2>2, <2>3
  <1>9. CASE PauseView
    <2>1. /\ svc'.events = svc.events /\ svc'.foreground = svc.foreground
          /\ svc'.callbacks = svc.callbacks /\ svc'.tracking = svc.tracking
          /\ svc'.phase = svc.phase
      BY <1>1, <1>9 DEF PauseView, view_pause, Services
    <2>2. state' = state /\ pc["main"] = "pauseView" /\ pc'["main"] = "idle"
      BY <1>3, <1>9 DEF PauseView, DoneInterrupting
    <2> QED
      BY <2>1, <2>2 DEF DismissInv, Subscribed
  <1>10. ASSUME NEW t \in Threads, StopView(t)
         PROVE  DismissInv'
    <2>1. state' = state
      BY <1>10 DEF StopView
    <2>2. pc'["main"] \in {pc["main"], "idle"} /\ (pc["main"] = "pauseSend" =>
                                                   pc'["main"] = "pauseSend")
      BY <1>3, <1>10 DEF StopView, DoneInterrupting
    <2>3. CASE backendView
      <3>1. svc' = view_stop(svc)
        BY <1>10, <2>3 DEF StopView
      <3>2. Subscribed'
        BY <1>1, <3>1, ViewFacts DEF Subscribed
      <3>3. /\ svc'.events = svc.events
            /\ svc'.foreground =>
                 svc.foreground /\ svc'.callbacks = svc.callbacks
                 /\ svc'.tracking = svc.tracking
        BY <1>1, <3>1, StopFields
      <3> QED
        BY <2>1, <2>2, <3>2, <3>3 DEF DismissInv
    <2>4. CASE ~backendView
      <3>1. svc' = svc
        BY <1>10, <2>4 DEF StopView
      <3> QED
        BY <2>1, <2>2, <3>1 DEF DismissInv, Subscribed
    <2> QED
      BY <2>3, <2>4
  \* PAUSED reaches the queue of who is subscribed.
  <1>11. ASSUME NEW t \in Threads, Send(t)
         PROVE  DismissInv'
    <2> DEFINE v == sent[pc[t]]
    <2>1. /\ v \in States /\ svc' = Announced(v) /\ state' = state
          /\ pc[t] = "pauseSend" => v = PAUSED
          /\ pc'["main"] = "startView" => pc["main"] \in {"startSend", "startView"}
          /\ pc'["main"] # "startSend"  \/ pc["main"] = "startSend"
          /\ pc["main"] = "pauseSend" => t = "main" \/ pc'["main"] = "pauseSend"
      BY <1>3, <1>11, SendFacts DEF Send
    <2>2. /\ svc'.events = IF Subscribed THEN Append(svc.events, v) ELSE svc.events
          /\ svc'.foreground = svc.foreground /\ svc'.tracking = svc.tracking
          /\ svc'.callbacks = svc.callbacks
      BY <1>1, <2>1, AnnouncedFields
    <2>3. Subscribed' = Subscribed
      BY <1>1, <2>1, AnnouncedFacts DEF Subscribed
    <2>4. Range(Append(svc.events, v)) = Range(svc.events) \cup {v}
      BY <1>1, <2>1, RangeAppend DEF Services
    <2> HIDE DEF v
    <2> QED
      BY <2>1, <2>2, <2>3, <2>4 DEF DismissInv
  <1> QED
    BY <1>4, <1>5, <1>6, <1>7, <1>8, <1>9, <1>10, <1>11

LEMMA DismissLooper ==
    ASSUME TypeOK, DismissInv,
           Create \/ StartCommand \/ Swipe \/ OnStop \/ Destroy
           \/ DeliverEvent \/ DeliverCallback
    PROVE  DismissInv'
  <1>1. state \in States /\ svc \in Services
    BY DEF TypeOK
  <1>2. state' = state
    BY DEF Create, StartCommand, Swipe, OnStop, Destroy, DeliverEvent,
           DeliverCallback
  <1>3. pc["main"] = "idle" /\ pc'["main"] \in {"idle", "stopState"}
    BY ThreadFacts DEF Create, StartCommand, Swipe, OnStop, Destroy,
           DeliverEvent, DeliverCallback, stop, TypeOK
  <1>4. PAUSED \in States /\ PAUSED # STOPPED
    BY DEF States, PAUSED, STOPPED
  <1>5. CASE Create
    <2>1. /\ svc'.events = << >> /\ svc'.phase = "created"
          /\ svc'.callbacks = Append(<< >>, state)
      BY <1>5 DEF Create, NoService, startNotification, updateState
    <2>2. state \in Range(svc'.callbacks)
      <3>1. << >> \in Seq(States)
        OBVIOUS
      <3> QED
        BY <1>1, <2>1, <3>1, RangeAppend
    <2> QED
      BY <1>2, <1>3, <2>1, <2>2 DEF DismissInv, Subscribed
  <1>6. CASE StartCommand
    <2>1. view_play(svc) \in Services
      BY <1>1, ViewFacts
    <2>2. /\ svc'.events = view_play(svc).events /\ svc'.phase = "up"
          /\ svc'.callbacks = view_play(svc).callbacks
          /\ svc'.tracking = view_play(svc).tracking
      BY <1>6, <2>1 DEF StartCommand, Services
    <2>3. /\ svc'.events = svc.events
          /\ svc'.tracking => svc'.callbacks = Append(svc.callbacks, state)
      BY <1>1, <2>2, PlayFields
    <2>4. state \in Range(Append(svc.callbacks, state))
      BY <1>1, RangeAppend DEF Services
    <2> QED
      BY <1>2, <1>3, <2>2, <2>3, <2>4 DEF DismissInv, Subscribed
  <1>7. CASE Swipe
    <2>1. svc'.events = svc.events /\ svc'.phase = svc.phase /\ ~svc'.foreground
      BY <1>1, <1>7 DEF Swipe, startNotification, updateState,
                        stopNotification, Services
    <2> QED
      BY <1>2, <1>3, <2>1 DEF DismissInv, Subscribed
  <1>8. CASE OnStop
    <2>1. /\ svc'.events = svc.events /\ svc'.phase = svc.phase
          /\ svc'.foreground = svc.foreground /\ svc'.tracking = svc.tracking
          /\ svc'.callbacks = svc.callbacks
      BY <1>1, <1>8 DEF OnStop, Services
    <2> QED
      BY <1>2, <1>3, <2>1 DEF DismissInv, Subscribed
  <1>9. CASE Destroy
    <2>1. svc'.events = << >> /\ ~svc'.foreground
      BY <1>9 DEF Destroy, NoService
    <2> QED
      BY <1>2, <1>3, <2>1 DEF DismissInv
  <1>10. CASE DeliverEvent
    <2> DEFINE e == Head(svc.events)
    <2>1. svc.events \in Seq(States) /\ svc.events # << >>
      BY <1>1, <1>10 DEF DeliverEvent, Services
    <2>2. e \in States /\ Range(svc.events) = Range(Tail(svc.events)) \cup {e}
      BY <2>1, RangeTail
    <2>3. /\ svc'.events = Tail(svc.events) /\ svc'.phase = svc.phase
          /\ svc'.foreground = svc.foreground /\ svc'.tracking = svc.tracking
          /\ svc.tracking => svc'.callbacks = Append(svc.callbacks, e)
      BY <1>1, <1>10 DEF DeliverEvent, updateState, Services
    <2>4. Range(Append(svc.callbacks, e)) = Range(svc.callbacks) \cup {e}
      BY <1>1, <2>2, RangeAppend DEF Services
    <2> HIDE DEF e
    <2> QED
      BY <1>2, <1>3, <2>2, <2>3, <2>4 DEF DismissInv, Subscribed
  <1>11. CASE DeliverCallback
    <2> DEFINE h == Head(svc.callbacks)
               s == [svc EXCEPT !.callbacks = Tail(@)]
    <2>1. svc.callbacks \in Seq(States) /\ svc.callbacks # << >>
      BY <1>1, <1>11 DEF DeliverCallback, Services
    <2>2. /\ s.events = svc.events /\ s.phase = svc.phase
          /\ s.foreground = svc.foreground /\ s.tracking = svc.tracking
          /\ s.callbacks = Tail(svc.callbacks)
      BY <1>1 DEF Services
    <2>3. s \in Services
      <3>1. Tail(svc.callbacks) \in Seq(States)
        BY <2>1
      <3> QED
        BY <1>1, <3>1 DEF Services
    <2>4. svc' = onPlaybackStateChanged(s, h)
      BY <1>11 DEF DeliverCallback
    <2> HIDE DEF s, h
    <2>5. /\ svc'.events = s.events /\ svc'.phase = s.phase
          /\ svc'.foreground =>
               /\ svc.foreground /\ h # PAUSED
               /\ svc'.tracking = svc.tracking
               /\ svc'.callbacks = Tail(svc.callbacks)
      BY <1>4, <2>2, <2>3, <2>4 DEF onPlaybackStateChanged, stopNotification,
                                    Services
    <2>6. Range(svc.callbacks) = Range(Tail(svc.callbacks)) \cup {h}
      BY <2>1, RangeTail DEF h
    <2> QED
      BY <1>2, <1>3, <2>2, <2>5, <2>6 DEF DismissInv, Subscribed
  <1> QED
    BY <1>5, <1>6, <1>7, <1>8, <1>9, <1>10, <1>11

(***************************************************************************)
(* A paused player at rest is not in the foreground while the manager      *)
(* follows the session, for any number of pauses, resumes, focus changes   *)
(* and any length of the two queues.                                       *)
(***************************************************************************)
THEOREM SessionDismissible == Spec => []PausedIsDismissible
  <1>1. Init => DismissInv
    BY ThreadFacts DEF Init, DismissInv, NoService, STOPPED, PAUSED
  <1>2. TypeOK /\ DismissInv /\ [Next]_vars => DismissInv'
    <2> SUFFICES ASSUME TypeOK, DismissInv, [Next]_vars PROVE DismissInv'
      OBVIOUS
    <2>1. CASE UNCHANGED vars
      BY <2>1 DEF vars, DismissInv, Subscribed
    <2>2. CASE Next
      BY <2>2, DismissCommands, DismissPlayer, DismissWorkers, DismissLooper
         DEF Next
    <2> QED
      BY <2>1, <2>2
  <1>3. DismissInv => PausedIsDismissible
    BY RangeEmpty, ThreadFacts DEF DismissInv, PausedIsDismissible, AtRest
  <1> QED
    BY SessionTypeCorrect, <1>1, <1>2, <1>3, PTL DEF Spec

-----------------------------------------------------------------------------
(***************************************************************************)
(* PlayingIsForeground.  After a start that overtook nothing the two       *)
(* queues hold neither PAUSED nor STOPPED, and the service is in the       *)
(* foreground, or will be when it is commanded or the view is told to      *)
(* play; what takes the focus or the foreground away goes on to pause or   *)
(* to stop the player, and what an error sends takes nothing away.         *)
(***************************************************************************)
Playing ==
    /\ svc.phase # "stopping"
    /\ svc.phase = "none" => pc["main"] \in {"startSend", "startView"}
    /\ OnlyPlaying(svc.events) /\ OnlyPlaying(svc.callbacks)
    /\ focus \in {"held", "ducked"} \/ pc["main"] = "pauseState"
    /\ svc.phase = "up" =>
         \/ svc.foreground /\ svc.noisy
         \/ pc["main"] \in {"startSend", "startView", "stopState"}
         \/ svc.stopSent

PlayInv ==
    /\ state = PLAYING =>
         pc["main"] \notin {"startState", "pauseSend", "pauseView"}
    /\ pc["main"] = "startState" => focus \in {"held", "none"}
    /\ \A t \in Threads : pc[t] = "pauseSend" => t = "main"
    /\ state = PLAYING /\ ~overtaken =>
         /\ \A t \in Threads : pc[t] \notin {"stopSend", "abandon", "stopView"}
         /\ Playing

LEMMA OnlyPlayingQueues ==
    ASSUME NEW q \in Seq(States), OnlyPlaying(q)
    PROVE  /\ \A x \in {PLAYING, ERROR} : OnlyPlaying(Append(q, x))
           /\ q # << >> => Head(q) \notin {PAUSED, STOPPED} /\ OnlyPlaying(Tail(q))
  <1>1. \A x \in {PLAYING, ERROR} : Range(Append(q, x)) = Range(q) \cup {x}
    BY RangeAppend DEF States
  <1>2. q # << >> =>
          Head(q) \in Range(q) /\ Range(q) = Range(Tail(q)) \cup {Head(q)}
    BY RangeTail
  <1> QED
    BY <1>1, <1>2 DEF OnlyPlaying, PLAYING, PAUSED, STOPPED, ERROR

\* A command leaves the service alone; one that takes the focus pauses.
LEMMA PlayCommands ==
    ASSUME TypeOK, PlayInv,
           Start \/ Pause \/ Stop
           \/ FocusLoss \/ FocusLossTransient \/ FocusDuck \/ FocusGain
    PROVE  PlayInv'
  <1>1. UNCHANGED <<svc, state, overtaken>>
    BY DEF Start, Pause, Stop, FocusLoss, FocusLossTransient, FocusDuck,
           FocusGain
  <1>2. /\ OnlyPlaying(svc.events)' <=> OnlyPlaying(svc.events)
        /\ OnlyPlaying(svc.callbacks)' <=> OnlyPlaying(svc.callbacks)
    BY <1>1
  <1> USE ThreadFacts DEF PlayInv, Playing, TypeOK, STOPPED, PLAYING, PAUSED
  <1>3. CASE Start
    BY <1>1, <1>2, <1>3 DEF Start, start
  <1>4. CASE Pause
    BY <1>1, <1>2, <1>4 DEF Pause, pause
  <1>5. CASE Stop
    BY <1>1, <1>2, <1>5 DEF Stop, stop
  <1>6. CASE FocusLoss
    BY <1>1, <1>2, <1>6 DEF FocusLoss, pause
  <1>7. CASE FocusLossTransient
    BY <1>1, <1>2, <1>7 DEF FocusLossTransient, pause
  <1>8. CASE FocusDuck
    BY <1>1, <1>2, <1>8 DEF FocusDuck
  <1>9. CASE FocusGain
    BY <1>1, <1>2, <1>9 DEF FocusGain
  <1> QED
    BY <1>3, <1>4, <1>5, <1>6, <1>7, <1>8, <1>9

\* Before a reader is past the assignment of STOPPED it changes nothing, and
\* a player in ERROR does not play.
LEMMA PlayWorkers ==
    ASSUME TypeOK, PlayInv,
           \/ \E r \in Readers : ReaderFinishes(r) \/ ReaderLeaves(r)
           \/ \E w \in Writers :
                WriterLeaves(w) \/ WriterTimesOut(w) \/ ErrorState(w)
    PROVE  PlayInv'
  <1>1. /\ UNCHANGED <<svc, overtaken, focus>> /\ pc["main"]' = pc["main"]
        /\ state' = state \/ state' = ERROR
        /\ \A t \in Threads :
             \/ pc'[t] = pc[t]
             \/ pc'[t] \notin {"pauseSend", "stopSend", "abandon", "stopView"}
    BY ThreadFacts DEF ReaderFinishes, ReaderLeaves, WriterLeaves,
           WriterTimesOut, ErrorState, stop, TypeOK
  <1>2. /\ OnlyPlaying(svc.events)' <=> OnlyPlaying(svc.events)
        /\ OnlyPlaying(svc.callbacks)' <=> OnlyPlaying(svc.callbacks)
    BY <1>1
  <1> QED
    BY <1>1, <1>2 DEF PlayInv, Playing, PLAYING, ERROR

LEMMA PlayPlayer ==
    ASSUME TypeOK, PlayInv,
           \/ StartState \/ StartView \/ PauseState \/ PauseView
           \/ \E t \in Threads :
                StopState(t) \/ Abandon(t) \/ StopView(t) \/ Send(t)
    PROVE  PlayInv'
  <1>1. state \in States /\ svc \in Services /\ pc \in [Threads -> Steps]
    BY DEF TypeOK
  <1>2. PLAYING # PAUSED /\ PLAYING # STOPPED /\ PLAYING \in States
    BY DEF States, PLAYING, PAUSED, STOPPED
  <1> USE ThreadFacts
  \* The start that overtakes nothing.
  <1>3. CASE StartState
    <2>1. SUFFICES ASSUME ~overtaken'
                   PROVE  /\ \A t \in Threads :
                               pc[t]' \notin {"stopSend", "abandon", "stopView"}
                          /\ Playing'
      BY <1>1, <1>3 DEF StartState, PlayInv
    <2>2. ~Unsettled /\ focus = "held" /\ svc' = svc /\ focus' = focus
      BY <1>3, <2>1 DEF StartState, PlayInv
    <2>3. /\ svc.phase # "stopping"
          /\ \A t \in Threads : pc[t] \notin {"stopSend", "abandon", "stopView"}
          /\ OnlyPlaying(svc.events) /\ OnlyPlaying(svc.callbacks)
      BY <2>2 DEF Unsettled, Stopping
    <2>4. OnlyPlaying(svc.events)' /\ OnlyPlaying(svc.callbacks)'
      BY <2>2, <2>3
    <2>5. pc' = [pc EXCEPT !["main"] = "startSend"]
      BY <1>3 DEF StartState
    <2> QED
      BY <1>1, <2>2, <2>3, <2>4, <2>5 DEF Playing
  <1>4. CASE StartView
    <2>1. /\ UNCHANGED <<state, focus, overtaken>>
          /\ pc["main"]' = "idle" /\ pc["main"] = "startView"
          /\ \A t \in Threads : pc'[t] \in {pc[t], "loop", "idle"}
      BY <1>1, <1>4 DEF StartView, Spawned
    <2>2. SUFFICES ASSUME state = PLAYING, ~overtaken
                   PROVE  Playing'
      BY <2>1 DEF PlayInv
    <2>3. Playing
      BY <2>2 DEF PlayInv
    <2>4. CASE backendView
      <3>1. svc' = view_play(svc)
        BY <1>4, <2>4 DEF StartView
      <3>2. /\ svc'.events = svc.events /\ svc'.phase = svc.phase
            /\ svc'.foreground
        BY <1>1, <3>1, PlayFields, ViewFacts
      <3>3. svc'.noisy /\ (svc'.callbacks = svc.callbacks
                           \/ svc'.callbacks = Append(svc.callbacks, PLAYING))
        BY <1>1, <2>2, <3>1 DEF view_play, startNotification, updateState,
                                Services
      <3>4. OnlyPlaying(svc.callbacks)'
        BY <1>1, <2>3, <3>3, OnlyPlayingQueues DEF Playing, Services
      <3>5. svc.phase = "up"
        BY <2>3, <2>4 DEF TypeOK, Playing
      <3>6. OnlyPlaying(svc.events)'
        BY <2>3, <3>2 DEF Playing
      <3> QED
        BY <2>1, <2>3, <3>2, <3>3, <3>4, <3>5, <3>6 DEF Playing
    <2>5. CASE ~backendView
      <3>1. /\ svc'.events = svc.events /\ svc'.callbacks = svc.callbacks
            /\ svc'.phase = IF svc.phase = "none" THEN "starting" ELSE svc.phase
        BY <1>1, <1>4, <2>5 DEF StartView, Services
      <3>2. svc.phase # "up"
        BY <2>5 DEF TypeOK
      <3>3. OnlyPlaying(svc.events)' /\ OnlyPlaying(svc.callbacks)'
        BY <2>3, <3>1 DEF Playing
      <3> QED
        BY <2>1, <2>3, <3>1, <3>2, <3>3 DEF Playing
    <2> QED
      BY <2>4, <2>5
  <1>5. CASE PauseState
    BY <1>1, <1>2, <1>5 DEF PauseState, PlayInv
  <1>6. CASE PauseView
    BY <1>1, <1>2, <1>6 DEF PauseView, DoneInterrupting, PlayInv
  <1>7. ASSUME NEW t \in Threads, StopState(t)
        PROVE  PlayInv'
    BY <1>1, <1>2, <1>7 DEF StopState, PlayInv
  <1>8. ASSUME NEW t \in Threads, Abandon(t) \/ StopView(t)
        PROVE  PlayInv'
    <2>1. ~(state = PLAYING /\ ~overtaken)
      BY <1>8 DEF Abandon, StopView, PlayInv
    <2>2. /\ UNCHANGED <<state, overtaken>> /\ focus' \in {focus, "none"}
          /\ \A u \in Threads : pc'[u] \in {pc[u], "stopView", "idle"}
      BY <1>1, <1>8 DEF Abandon, StopView, DoneInterrupting
    <2> QED
      BY <2>1, <2>2 DEF PlayInv
  <1>9. ASSUME NEW t \in Threads, Send(t)
        PROVE  PlayInv'
    <2> DEFINE v == sent[pc[t]]
    <2>1. /\ UNCHANGED <<state, overtaken, focus>>
          /\ v \in States /\ svc' = Announced(v)
          /\ \A u \in Threads : u # t => pc'[u] = pc[u]
          /\ \/ pc[t] = "startSend" /\ pc'[t] = "startView" /\ v = PLAYING
             \/ pc[t] = "pauseSend" /\ pc'[t] = "pauseView"
             \/ pc[t] = "stopSend" /\ pc'[t] = "abandon"
             \/ pc[t] = "errorSend" /\ pc'[t] = "idle" /\ v = ERROR
      BY <1>1, <1>9, SendFacts DEF Send
    <2>2. SUFFICES ASSUME state = PLAYING, ~overtaken
                   PROVE  /\ \A u \in Threads :
                               pc'[u] \notin {"stopSend", "abandon", "stopView"}
                          /\ Playing'
      BY <1>1, <2>1 DEF PlayInv
    <2>3. /\ \A u \in Threads : pc[u] \notin {"stopSend", "abandon", "stopView"}
          /\ Playing /\ pc["main"] # "pauseSend"
      BY <2>2 DEF PlayInv
    <2>4. CASE pc[t] \in {"startSend", "errorSend"}
      <3>1. v \in {PLAYING, ERROR}
            /\ pc'[t] \notin {"stopSend", "abandon", "stopView"}
        BY <2>1, <2>4
      <3>2. /\ svc'.events = IF Subscribed THEN Append(svc.events, v)
                             ELSE svc.events
            /\ svc'.foreground = svc.foreground /\ svc'.noisy = svc.noisy
            /\ svc'.callbacks = svc.callbacks /\ svc'.stopSent = svc.stopSent
            /\ svc'.phase = svc.phase
        BY <1>1, <2>1, AnnouncedFields, AnnouncedFacts
      <3>3. OnlyPlaying(svc.events)' /\ OnlyPlaying(svc.callbacks)'
        BY <1>1, <2>3, <3>1, <3>2, OnlyPlayingQueues DEF Playing, Services
      <3>4. \/ pc'["main"] = pc["main"]
            \/ pc["main"] = "startSend" /\ pc'["main"] = "startView"
            \/ pc["main"] = "errorSend" /\ pc'["main"] = "idle"
        BY <2>1, <2>4
      <3> HIDE DEF v
      <3> QED
        BY <2>1, <2>3, <3>1, <3>2, <3>3, <3>4 DEF Playing
    <2>5. pc[t] # "pauseSend"
      BY <2>3 DEF PlayInv
    <2> QED
      BY <2>1, <2>3, <2>4, <2>5
  <1> QED
    BY <1>3, <1>4, <1>5, <1>6, <1>7, <1>8, <1>9

LEMMA PlayLooper ==
    ASSUME TypeOK, PlayInv,
           Create \/ StartCommand \/ Swipe \/ OnStop \/ Destroy
           \/ DeliverEvent \/ DeliverCallback
    PROVE  PlayInv'
  <1>1. state \in States /\ svc \in Services
    BY DEF TypeOK
  <1>2. UNCHANGED <<state, focus, overtaken>> /\ pc["main"] = "idle"
        /\ pc["main"]' \in {"idle", "stopState"}
        /\ \A t \in Threads : t # "main" => pc'[t] = pc[t]
    BY ThreadFacts DEF Create, StartCommand, Swipe, OnStop, Destroy,
           DeliverEvent, DeliverCallback, stop, TypeOK
  <1>3. SUFFICES ASSUME state = PLAYING, ~overtaken
                 PROVE  Playing'
    BY <1>2, ThreadFacts DEF PlayInv
  <1>4. Playing /\ svc.phase # "stopping" /\ focus' \in {"held", "ducked"}
    BY <1>2, <1>3 DEF PlayInv, Playing
  <1>5. PLAYING # PAUSED /\ PLAYING # STOPPED
    BY DEF PLAYING, PAUSED, STOPPED
  <1>6. CASE Create
    <2>1. /\ svc'.events = << >> /\ svc'.phase = "created"
          /\ svc'.callbacks = Append(<< >>, PLAYING)
      BY <1>3, <1>6 DEF Create, NoService, startNotification, updateState
    <2>2. OnlyPlaying(<< >>) /\ << >> \in Seq(States)
      BY RangeEmpty DEF OnlyPlaying
    <2>3. OnlyPlaying(svc.events)' /\ OnlyPlaying(svc.callbacks)'
      BY <2>1, <2>2, OnlyPlayingQueues
    <2> QED
      BY <1>4, <2>1, <2>3 DEF Playing
  <1>7. CASE StartCommand
    <2> DEFINE v == view_play(svc)
    <2>1. v \in Services /\ v.events = svc.events /\ v.foreground
      BY <1>1, ViewFacts, PlayFields
    <2>2. v.noisy /\ (v.callbacks = svc.callbacks
                      \/ v.callbacks = Append(svc.callbacks, PLAYING))
      BY <1>1, <1>3 DEF view_play, startNotification, updateState, Services
    <2>3. svc' = [v EXCEPT !.phase = "up"]
      BY <1>7 DEF StartCommand
    <2> HIDE DEF v
    <2>4. /\ svc'.phase = "up" /\ svc'.foreground /\ svc'.noisy
          /\ svc'.events = svc.events
          /\ svc'.callbacks = svc.callbacks
               \/ svc'.callbacks = Append(svc.callbacks, PLAYING)
      BY <2>1, <2>2, <2>3 DEF Services
    <2>5. OnlyPlaying(svc.events)' /\ OnlyPlaying(svc.callbacks)'
      BY <1>1, <1>4, <2>4, OnlyPlayingQueues DEF Playing, Services
    <2> QED
      BY <1>4, <2>4, <2>5 DEF Playing
  <1>8. CASE Swipe
    <2>1. /\ svc'.events = svc.events /\ svc'.phase = svc.phase
          /\ svc'.callbacks = << >> /\ svc'.stopSent
      BY <1>1, <1>8 DEF Swipe, startNotification, updateState,
                        stopNotification, Services
    <2>2. OnlyPlaying(<< >>)
      BY RangeEmpty DEF OnlyPlaying
    <2> QED
      BY <1>2, <1>4, <2>1, <2>2 DEF Playing
  <1>9. CASE OnStop
    <2>1. /\ svc'.events = svc.events /\ svc'.callbacks = svc.callbacks
          /\ svc'.phase = svc.phase
      BY <1>1, <1>9 DEF OnStop, Services
    <2>2. pc["main"]' = "stopState"
      BY <1>3, <1>5, <1>9, ThreadFacts DEF OnStop, stop, TypeOK
    <2> QED
      BY <1>2, <1>4, <2>1, <2>2 DEF Playing
  <1>10. CASE Destroy
    BY <1>4, <1>10 DEF Destroy
  <1>11. CASE DeliverEvent
    <2>1. Head(svc.events) \in {PLAYING, ERROR} /\ OnlyPlaying(Tail(svc.events))
      <3>1. svc.events \in Seq(States) /\ svc.events # << >>
        BY <1>1, <1>11 DEF DeliverEvent, Services
      <3>2. Head(svc.events) \in States
        BY <3>1
      <3> QED
        BY <1>4, <3>1, <3>2, OnlyPlayingQueues DEF Playing, States
    <2>2. /\ svc'.events = Tail(svc.events) /\ svc'.phase = svc.phase
          /\ svc'.foreground = svc.foreground /\ svc'.noisy = svc.noisy
          /\ svc'.stopSent = svc.stopSent
          /\ svc'.callbacks = svc.callbacks
               \/ \E x \in {PLAYING, ERROR} :
                    svc'.callbacks = Append(svc.callbacks, x)
      BY <1>1, <1>11, <2>1 DEF DeliverEvent, updateState, Services
    <2>3. OnlyPlaying(svc.callbacks)'
      BY <1>1, <1>4, <2>2, OnlyPlayingQueues DEF Playing, Services
    <2> QED
      BY <1>2, <1>4, <2>1, <2>2, <2>3 DEF Playing
  <1>12. CASE DeliverCallback
    <2>1. /\ Head(svc.callbacks) \notin {PAUSED, STOPPED}
          /\ OnlyPlaying(Tail(svc.callbacks))
      BY <1>1, <1>4, <1>12, OnlyPlayingQueues
         DEF DeliverCallback, Playing, Services
    <2>2. svc' = [svc EXCEPT !.callbacks = Tail(@)]
      BY <1>12, <2>1 DEF DeliverCallback, onPlaybackStateChanged
    <2>3. /\ svc'.events = svc.events /\ svc'.phase = svc.phase
          /\ svc'.foreground = svc.foreground /\ svc'.noisy = svc.noisy
          /\ svc'.stopSent = svc.stopSent
          /\ svc'.callbacks = Tail(svc.callbacks)
      BY <1>1, <2>2 DEF Services
    <2> QED
      BY <1>2, <1>4, <2>1, <2>3 DEF Playing
  <1> QED
    BY <1>6, <1>7, <1>8, <1>9, <1>10, <1>11, <1>12

(***************************************************************************)
(* A playing player at rest has its service up and in the foreground, the  *)
(* noisy receiver registered and the audio focus, unless it was started    *)
(* while an earlier pause or stop was on its way (Player.start, the play   *)
(* of PlayerService), for any number of commands.                          *)
(***************************************************************************)
THEOREM SessionInForeground == Spec => []PlayingIsForeground
  <1>1. Init => PlayInv
    BY ThreadFacts DEF Init, PlayInv, STOPPED, PLAYING
  <1>2. TypeOK /\ PlayInv /\ [Next]_vars => PlayInv'
    <2> SUFFICES ASSUME TypeOK, PlayInv, [Next]_vars PROVE PlayInv'
      OBVIOUS
    <2>1. CASE UNCHANGED vars
      BY <2>1 DEF vars, PlayInv, Playing, OnlyPlaying
    <2>2. CASE Next
      BY <2>2, PlayCommands, PlayPlayer, PlayWorkers, PlayLooper DEF Next
    <2> QED
      BY <2>1, <2>2
  <1>3. PlayInv => PlayingIsForeground
    BY ThreadFacts DEF PlayInv, Playing, PlayingIsForeground, AtRest
  <1> QED
    BY SessionTypeCorrect, <1>1, <1>2, <1>3, PTL DEF Spec
=============================================================================
