--------------------------- MODULE PsfStreamProofs ---------------------------
(***************************************************************************)
(* PsfStream for every rate, buffer length, word width, block size, set of *)
(* commands and failures, and for either backend: types, memory, audio,    *)
(* fade and seek.                                                          *)
(*                                                                         *)
(* MemorySafeInPlainUse alone is not inductive.  Whether a teardown frees  *)
(* the ring twice depends on g_initialized; whether the Reader, a stop or  *)
(* a seek tears down an instance that is loaded depends on whose backend   *)
(* it is and on the state of the player.  SafeInv ties the three together. *)
(* StreamInv adds the types and what a native call in progress still owes: *)
(* with it FadeInv ties the last buffer to the clock, and FollowInv, with  *)
(* SafeInv, the audio in the FIFO and in the call to the clock.  OrderInv  *)
(* needs no clock: through seeks too, what was heard, what a read holds,   *)
(* what the FIFO has and what comes next stay in the order of the track.   *)
(***************************************************************************)
EXTENDS PsfStream, SequenceTheorems, TLAPS

Fields == {"lib", "open", "pos", "initialized", "rate", "lengthMs",
           "fadeStart", "fadeLen", "buf", "played", "error", "fifo", "mem",
           "fault"}

\* The globals are a record; what most of them hold does not matter here.
Globals(n) ==
    /\ n = [f \in Fields |-> n[f]]
    /\ n.initialized \in BOOLEAN /\ n.open \in BOOLEAN

\* The ring, and the state of the USF emulator, are allocated exactly while
\* a file is loaded, and a loaded file has set the rate.
RingFollowsFlag(n) ==
    /\ n.initialized <=> n.mem = "live"
    /\ n.lib = "usf" => (n.initialized <=> n.open)
    /\ n.initialized => n.rate = Rate

\* In plain use nothing has gone wrong; the Reader's own backend is loaded
\* until the player stops, and it stops only when the loop has ended.
PlainUse ==
    /\ native.fault = "none"
    /\ mine /\ state # "stopped" => native.initialized
    /\ pc # "exited" => state # "stopped"

SafeInv ==
    /\ Globals(native)
    /\ RingFollowsFlag(native)
    /\ pc \in {"loaded", "seek", "over", "read", "generate", "stamp"} => mine
    /\ hist = [seeked |-> hist.seeked, disturbed |-> hist.disturbed]
    /\ hist.disturbed \in BOOLEAN
    /\ ~hist.disturbed => PlainUse

-----------------------------------------------------------------------------
(***************************************************************************)
(* teardownInternal leaves nothing loaded, keeps the rate, and fails only  *)
(* when the ring was freed before and is not allocated.                    *)
(***************************************************************************)
LEMMA TeardownFacts ==
    ASSUME NEW n, Globals(n), RingFollowsFlag(n)
    PROVE  LET t == teardownInternal(n)
           IN  /\ Globals(t) /\ RingFollowsFlag(t)
               /\ ~t.initialized
               /\ n.initialized => t.fault = n.fault
  <1>1. CASE n.lib = "usf"
    BY <1>1 DEF teardownInternal, usf_teardownInternal, Globals,
                RingFollowsFlag, Fields
  <1>2. CASE n.lib # "usf"
    BY <1>2 DEF teardownInternal, psf_teardownInternal, Globals,
                RingFollowsFlag, Fields
  <1> QED
    BY <1>1, <1>2

(***************************************************************************)
(* loadFileInternal loads exactly when the file does, and clears an        *)
(* instance that is still loaded without a fault.                          *)
(***************************************************************************)
LEMMA LoadFacts ==
    ASSUME NEW n, Globals(n), RingFollowsFlag(n),
           NEW ok \in BOOLEAN, NEW ms
    PROVE  LET t == loadFileInternal(n, ok, ms)
           IN  /\ Globals(t) /\ RingFollowsFlag(t)
               /\ ok => t.initialized
               /\ t.fault = n.fault
  <1> DEFINE c == IF n.initialized THEN teardownInternal(n) ELSE n
  <1>1. Globals(c) /\ RingFollowsFlag(c) /\ ~c.initialized
        /\ c.fault = n.fault
    BY TeardownFacts DEF Globals
  <1> HIDE DEF c
  <1>2. loadFileInternal(n, ok, ms) =
          IF ok
          THEN [c EXCEPT
                  !.lengthMs = ms,
                  !.open = TRUE,
                  !.pos = 0,
                  !.initialized = TRUE,
                  !.rate = Rate,
                  !.buf = Buf,
                  !.fadeStart = convert_ms_to_samples(Rate,
                                                      Word(ms - FadeTime)),
                  !.fadeLen = convert_ms_to_samples(Rate, FadeTime),
                  !.fifo = << >>,
                  !.mem = "live"]
          ELSE [c EXCEPT !.lengthMs = ms, !.open = FALSE, !.error = "load"]
    BY Zenon DEF loadFileInternal, c
  <1>3. CASE ok
    BY <1>1, <1>2, <1>3 DEF Globals, RingFollowsFlag, Fields
  <1>4. CASE ~ok
    BY <1>1, <1>2, <1>4 DEF Globals, RingFollowsFlag, Fields
  <1> QED
    BY <1>3, <1>4

-----------------------------------------------------------------------------
(***************************************************************************)
(* A step of the audio path changes neither the flag, the ring, the rate   *)
(* nor the fault.                                                          *)
(***************************************************************************)
Steady(n, m) ==
    /\ Globals(m)
    /\ m.initialized = n.initialized /\ m.mem = n.mem
    /\ m.rate = n.rate /\ m.fault = n.fault
    /\ m.lib = n.lib
    /\ n.lib = "usf" => m.open = n.open

\* A ring that follows the flag still does after such a step.
LEMMA SteadyFacts ==
    ASSUME NEW n, NEW m, RingFollowsFlag(n), Steady(n, m)
    PROVE  RingFollowsFlag(m)
  BY DEF RingFollowsFlag, Steady

(***************************************************************************)
(* fifo_get moves only the read position.                                  *)
(***************************************************************************)
LEMMA FifoGetSteady ==
    ASSUME NEW n, Globals(n), NEW count
    PROVE  Steady(n, fifo_get(n, count))
  BY DEF fifo_get, Steady, Globals, Fields

(***************************************************************************)
(* fifo_put moves only the write position.                                 *)
(***************************************************************************)
LEMMA FifoPutSteady ==
    ASSUME NEW n, Globals(n), NEW block
    PROVE  Steady(n, fifo_put(n, block))
  BY DEF fifo_put, Steady, Globals, Fields

InCall == {"loaded", "seek", "over", "read", "generate", "stamp"}

(***************************************************************************)
(* A step that leaves the globals steady, the owner and the history alone, *)
(* and goes on inside the loop, keeps SafeInv.                             *)
(***************************************************************************)
LEMMA SteadyStep ==
    ASSUME SafeInv, Steady(native, native'), UNCHANGED <<mine, hist>>,
           state' = state \/ (state' = "paused" /\ state = "playing"),
           pc' \in InCall => pc \in InCall \/ mine,
           pc' # "exited" => pc # "exited"
    PROVE  SafeInv'
  <1>1. Globals(native') /\ RingFollowsFlag(native')
    BY SteadyFacts DEF SafeInv, Steady
  <1>2. pc' \in InCall => mine'
    BY DEF SafeInv, InCall
  <1>3. ~hist'.disturbed => PlainUse'
    BY DEF SafeInv, PlainUse, Steady
  <1> QED
    BY <1>1, <1>2, <1>3 DEF SafeInv, InCall

-----------------------------------------------------------------------------
(***************************************************************************)
(* Every action keeps SafeInv: first the steps that touch neither the flag *)
(* nor the ring, together.                                                 *)
(***************************************************************************)
LEMMA QuietSteps ==
    ASSUME SafeInv,
           \/ Skip \/ Pause \/ LoopEnds
           \/ SeekBlock \/ SeekDone \/ ReadRefused \/ ReadNoArray
           \/ SeekAdvance \/ ReadCut \/ usf_RenderFails
    PROVE  SafeInv'
  <1>1. Steady(native, native')
    <2>1. CASE UNCHANGED native
      BY <2>1 DEF SafeInv, Steady
    <2>2. CASE ReadRefused \/ ReadNoArray \/ usf_RenderFails
      <3>1. \E e : native' = [native EXCEPT !.error = e]
        BY <2>2 DEF ReadRefused, ReadNoArray, usf_RenderFails
      <3> QED
        BY <3>1 DEF SafeInv, Steady, Globals, Fields
    <2>3. CASE SeekAdvance
      <3>1. \E w : native' = [native EXCEPT !.played = w]
        BY <2>3 DEF SeekAdvance
      <3> QED
        BY <3>1 DEF SafeInv, Steady, Globals, Fields
    <2> QED
      BY <2>1, <2>2, <2>3
         DEF Skip, Pause, LoopEnds, SeekBlock, SeekDone, ReadCut
  <1>2. UNCHANGED <<mine, hist>>
    BY DEF Skip, Pause, LoopEnds, SeekBlock, SeekDone, ReadRefused,
           ReadNoArray, SeekAdvance, ReadCut, usf_RenderFails
  <1>3. state' = state \/ (state' = "paused" /\ state = "playing")
    BY DEF Skip, Pause, LoopEnds, SeekBlock, SeekDone, ReadRefused,
           ReadNoArray, SeekAdvance, ReadCut, usf_RenderFails
  <1>4. /\ pc' \in InCall => pc \in InCall
        /\ pc' # "exited" => pc # "exited"
    BY DEF Skip, Pause, LoopEnds, SeekBlock, SeekDone, ReadRefused,
           ReadNoArray, SeekAdvance, ReadCut, usf_RenderFails, InCall, At
  <1> QED
    BY <1>1, <1>2, <1>3, <1>4, SteadyStep

\* Player.start, from STATE_STOPPED and from STATE_PAUSED, keeps SafeInv.
LEMMA StartSafe ==
    ASSUME SafeInv, Start \/ Resume
    PROVE  SafeInv'
  BY DEF SafeInv, PlainUse, Start, Resume, At, Alive

(***************************************************************************)
(* Player.stop between two starts tears down a loaded instance.            *)
(***************************************************************************)
LEMMA StopFacts ==
    ASSUME SafeInv, stop
    PROVE  /\ Globals(native') /\ RingFollowsFlag(native')
           /\ ~hist.disturbed => native'.fault = "none"
           /\ state' = "stopped"
  <1>1. CASE mine /\ state # "stopped"
    <2>1. native' = teardownInternal(native) /\ state' = "stopped"
      BY <1>1 DEF stop
    <2> QED
      BY <1>1, <2>1, TeardownFacts DEF SafeInv, PlainUse
  <1>2. CASE ~(mine /\ state # "stopped")
    BY <1>2 DEF stop, SafeInv, PlainUse
  <1> QED
    BY <1>1, <1>2

\* Player.stop keeps SafeInv: under a running reader it disturbs.
LEMMA StopSafe ==
    ASSUME SafeInv, Stop
    PROVE  SafeInv'
  <1>1. stop
    BY DEF Stop
  <1>2. /\ hist' = [hist EXCEPT !.disturbed = @ \/ pc # "exited"]
        /\ pc' = pc /\ mine' = mine
    BY DEF Stop
  <1>3. /\ hist' = [seeked |-> hist'.seeked, disturbed |-> hist'.disturbed]
        /\ hist'.disturbed = (hist.disturbed \/ pc # "exited")
    BY <1>2 DEF SafeInv
  <1> QED
    BY <1>1, <1>2, <1>3, StopFacts DEF SafeInv, PlainUse

(***************************************************************************)
(* The clock divides by zero only after something has gone wrong.          *)
(***************************************************************************)
LEMMA DivideFacts ==
    ASSUME SafeInv, DivideTraps(native), mine, pc # "exited"
    PROVE  Globals(native') /\ RingFollowsFlag(native') /\ hist.disturbed
  <1>1. Rate # 0
    BY StreamAssumption
  <1>2. native.rate = 0 /\ native' = [native EXCEPT !.fault = "divide"]
    BY DEF DivideTraps
  <1>3. hist.disturbed
    BY <1>1, <1>2 DEF SafeInv, PlainUse, RingFollowsFlag
  <1> QED
    BY <1>2, <1>3 DEF SafeInv, Globals, RingFollowsFlag, Fields

\* The end-of-track test of Reader.loop keeps SafeInv, with its stop too.
LEMMA CheckOverSafe ==
    ASSUME SafeInv, CheckOver
    PROVE  SafeInv'
  <1>1. mine /\ pc # "exited"
    BY DEF CheckOver, InBody, At, SafeInv
  <1>2. CASE UNCHANGED <<native, state>> /\ pc' = "read"
    <2>1. UNCHANGED <<mine, hist>>
      BY DEF CheckOver
    <2>2. Steady(native, native')
      BY <1>2 DEF SafeInv, Steady
    <2> QED
      BY <1>1, <1>2, <2>1, <2>2, SteadyStep
  <1>3. CASE stop /\ pc' = "exited"
    <2>1. UNCHANGED <<mine, hist>>
      BY DEF CheckOver
    <2> QED
      BY <1>1, <1>3, <2>1, StopFacts DEF SafeInv, PlainUse
  <1>4. CASE DivideTraps(native) /\ UNCHANGED <<pc, state>>
    <2>1. UNCHANGED <<mine, hist>>
      BY DEF CheckOver
    <2> QED
      BY <1>1, <1>4, <2>1, DivideFacts DEF SafeInv
  <1> QED
    BY <1>2, <1>3, <1>4 DEF CheckOver

-----------------------------------------------------------------------------
(***************************************************************************)
(* The loads.  A failed one disturbs; after any other the instance is      *)
(* loaded, and what was torn down before it was loaded too.                *)
(***************************************************************************)
LEMMA LoadTrackSafe ==
    ASSUME SafeInv, LoadTrack
    PROVE  SafeInv'
  <1>1. PICK ok \in BOOLEAN, tag \in Tags :
          /\ native' = loadFileInternal(
                         IF mine THEN teardownInternal(native) ELSE native,
                         ok, getFileTrackLength(tag))
          /\ hist' = [hist EXCEPT !.seeked = FALSE, !.disturbed = @ \/ ~ok]
    BY DEF LoadTrack, LoadResults
  <1> DEFINE c == IF mine THEN teardownInternal(native) ELSE native
  <1>2. /\ Globals(c) /\ RingFollowsFlag(c)
        /\ ~hist.disturbed => c.fault = "none"
    BY TeardownFacts DEF LoadTrack, SafeInv, PlainUse
  <1> HIDE DEF c
  <1>3. native' = loadFileInternal(c, ok, getFileTrackLength(tag))
    BY <1>1 DEF c
  <1>4. /\ Globals(native') /\ RingFollowsFlag(native')
        /\ ok => native'.initialized
        /\ native'.fault = c.fault
    BY <1>2, <1>3, LoadFacts
  <1>5. /\ hist' = [seeked |-> hist'.seeked, disturbed |-> hist'.disturbed]
        /\ hist'.disturbed = (hist.disturbed \/ ~ok)
    BY <1>1 DEF SafeInv
  <1>6. mine' /\ state' = "playing"
    BY DEF LoadTrack
  <1> QED
    BY <1>2, <1>4, <1>5, <1>6 DEF SafeInv, PlainUse

\* A change to a track of another backend keeps SafeInv.
LEMMA LoadOtherSafe ==
    ASSUME SafeInv, LoadOther
    PROVE  SafeInv'
  <1>1. /\ Globals(native') /\ RingFollowsFlag(native')
        /\ ~hist.disturbed => native'.fault = "none"
    <2>1. CASE mine
      <3>1. native' = teardownInternal(native) /\ state # "stopped"
        BY <2>1 DEF LoadOther
      <3> QED
        BY <2>1, <3>1, TeardownFacts DEF SafeInv, PlainUse
    <2>2. CASE ~mine
      BY <2>2 DEF LoadOther, SafeInv, PlainUse
    <2> QED
      BY <2>1, <2>2
  <1>2. /\ ~mine' /\ pc = "top" /\ UNCHANGED <<pc, state, hist>>
    BY DEF LoadOther, At
  <1> QED
    BY <1>1, <1>2 DEF SafeInv, PlainUse

\* seek, with the load it does to go back, keeps SafeInv.
LEMMA SeekSafe ==
    ASSUME SafeInv, Seek
    PROVE  SafeInv'
  <1>1. mine /\ pc # "exited" /\ UNCHANGED <<mine, state>> /\ pc' = "seek"
    BY DEF Seek, InBody, At, SafeInv
  <1>2. PICK ok \in BOOLEAN, back \in BOOLEAN :
          /\ ~back => ok
          /\ native' = IF back
                       THEN loadFileInternal(teardownInternal(native), ok,
                                             native.lengthMs)
                       ELSE native
          /\ hist' = [hist EXCEPT !.seeked = TRUE, !.disturbed = @ \/ ~ok]
    <2>1. PICK t \in 0..native.lengthMs, ok \in LoadResults :
            LET target == convert_ms_to_samples(native.rate, t)
                back == target <= native.played
            IN  /\ ~back => ok
                /\ native' = IF back
                             THEN loadFileInternal(teardownInternal(native),
                                                   ok, native.lengthMs)
                             ELSE native
                /\ hist' = [hist EXCEPT !.seeked = TRUE,
                                        !.disturbed = @ \/ ~ok]
      BY Zenon DEF Seek
    <2>2. ok \in BOOLEAN
      BY DEF LoadResults
    <2>3. CASE convert_ms_to_samples(native.rate, t) <= native.played
      BY <2>1, <2>2, <2>3, Zenon
    <2>4. CASE ~(convert_ms_to_samples(native.rate, t) <= native.played)
      BY <2>1, <2>2, <2>4, Zenon
    <2> QED
      BY <2>3, <2>4
  <1>3. /\ hist' = [seeked |-> hist'.seeked, disturbed |-> hist'.disturbed]
        /\ hist'.disturbed = (hist.disturbed \/ ~ok)
    BY <1>2 DEF SafeInv
  <1>4. CASE back
    <2> DEFINE c == teardownInternal(native)
    <2>1. /\ Globals(c) /\ RingFollowsFlag(c)
          /\ ~hist.disturbed => c.fault = "none"
      BY <1>1, TeardownFacts DEF SafeInv, PlainUse
    <2> HIDE DEF c
    <2>2. native' = loadFileInternal(c, ok, native.lengthMs)
      BY <1>2, <1>4 DEF c
    <2>3. /\ Globals(native') /\ RingFollowsFlag(native')
          /\ ok => native'.initialized
          /\ native'.fault = c.fault
      BY <2>1, <2>2, LoadFacts
    <2> QED
      BY <1>1, <1>3, <2>1, <2>3 DEF SafeInv, PlainUse
  <1>5. CASE ~back
    BY <1>1, <1>2, <1>3, <1>5 DEF SafeInv, PlainUse
  <1> QED
    BY <1>4, <1>5

-----------------------------------------------------------------------------
(***************************************************************************)
(* The read.  In plain use the instance is loaded, so that there are       *)
(* buffers for the left-over audio and a rate to divide by.                *)
(***************************************************************************)
LEMMA ReadLeftOverSafe ==
    ASSUME SafeInv, ReadLeftOver
    PROVE  SafeInv'
  <1>1. /\ mine /\ pc = "read" /\ pc' = "generate"
        /\ UNCHANGED <<mine, state, hist>>
    BY DEF ReadLeftOver, At, SafeInv
  <1>2. \/ native' = fifo_get(native, native.buf)
        \/ /\ ~native.initialized
           /\ native' = [native EXCEPT !.fault = "unallocated"]
    BY Zenon DEF ReadLeftOver
  <1>3. CASE native' = fifo_get(native, native.buf)
    <2>1. Steady(native, native')
      BY <1>3, FifoGetSteady DEF SafeInv
    <2> QED
      BY <1>1, <2>1, SteadyStep
  <1>4. CASE /\ ~native.initialized
             /\ native' = [native EXCEPT !.fault = "unallocated"]
    <2>1. hist.disturbed
      BY <1>1, <1>4 DEF SafeInv, PlainUse
    <2>2. Globals(native') /\ RingFollowsFlag(native')
      BY <1>4 DEF SafeInv, Globals, RingFollowsFlag, Fields
    <2> QED
      BY <1>1, <2>1, <2>2 DEF SafeInv
  <1> QED
    BY <1>2, <1>3, <1>4

\* A round of generateAudio keeps SafeInv.
LEMMA ExecuteSafe ==
    ASSUME SafeInv, Execute
    PROVE  SafeInv'
  <1>1. UNCHANGED <<pc, mine, state, hist>> /\ native.lib = "psf"
    BY DEF Execute
  <1>2. \/ \E block, w : native' = [fifo_put(native, block) EXCEPT !.pos = w]
        \/ native' = [native EXCEPT !.open = FALSE]
    BY Zenon DEF Execute
  <1>3. Steady(native, native')
    <2>1. CASE native' = [native EXCEPT !.open = FALSE]
      BY <1>1, <2>1 DEF SafeInv, Steady, Globals, Fields
    <2>2. ASSUME NEW block, NEW w,
                 native' = [fifo_put(native, block) EXCEPT !.pos = w]
          PROVE  Steady(native, native')
      <3> DEFINE m == fifo_put(native, block)
      <3>1. Steady(native, m)
        BY FifoPutSteady DEF SafeInv
      <3> HIDE DEF m
      <3>2. native' = [m EXCEPT !.pos = w]
        BY <2>2 DEF m
      <3> QED
        BY <3>1, <3>2 DEF Steady, Globals, Fields
    <2> QED
      BY <1>2, <2>1, <2>2
  <1> QED
    BY <1>1, <1>3, SteadyStep

\* The USF emulator's render keeps SafeInv: in plain use it has a state.
LEMMA RenderSafe ==
    ASSUME SafeInv, usf_Render
    PROVE  SafeInv'
  <1>1. /\ UNCHANGED <<pc, mine, state, hist>> /\ native.lib = "usf"
        /\ pc = "generate" /\ mine
    BY DEF usf_Render, At, SafeInv
  <1>2. CASE native.open
    <2>1. \E w : native' = [native EXCEPT !.pos = w]
      BY <1>2 DEF usf_Render
    <2>2. Steady(native, native')
      BY <2>1 DEF SafeInv, Steady, Globals, Fields
    <2> QED
      BY <1>1, <2>2, SteadyStep
  <1>3. CASE ~native.open
    <2>1. native' = [native EXCEPT !.fault = "unallocated"]
      BY <1>3 DEF usf_Render
    <2>2. hist.disturbed
      BY <1>1, <1>3 DEF SafeInv, PlainUse, RingFollowsFlag
    <2>3. Globals(native') /\ RingFollowsFlag(native')
      BY <2>1 DEF SafeInv, Globals, RingFollowsFlag, Fields
    <2> QED
      BY <1>1, <2>2, <2>3 DEF SafeInv
  <1> QED
    BY <1>2, <1>3

\* The end of readNextSamples keeps SafeInv.
LEMMA ReadFinishSafe ==
    ASSUME SafeInv, ReadFinish
    PROVE  SafeInv'
  <1>1. /\ UNCHANGED <<mine, state, hist>>
        /\ pc \in InCall /\ pc # "exited"
    BY DEF ReadFinish, At, InCall
  <1> DEFINE m == fifo_get(native, call.want)
  <1>2. Steady(native, m)
    BY FifoGetSteady DEF SafeInv
  <1>3. PICK w : native' = [m EXCEPT !.played = w]
    BY Zenon DEF ReadFinish
  <1> HIDE DEF m
  <1>4. Steady(native, native')
    BY <1>2, <1>3 DEF Steady, Globals, Fields
  <1> QED
    BY <1>1, <1>4, SteadyStep

\* getMillisPlayed and getLastError keep SafeInv: plain use has a rate.
LEMMA StampSafe ==
    ASSUME SafeInv, Stamp
    PROVE  SafeInv'
  <1>1. /\ UNCHANGED <<mine, state, hist>>
        /\ pc = "stamp" /\ pc' \in {"top", "exited"}
    BY DEF Stamp, At
  <1>2. CASE UNCHANGED native
    <2>1. Steady(native, native')
      BY <1>2 DEF SafeInv, Steady
    <2>2. pc' \notin InCall
      BY <1>1 DEF InCall
    <2> QED
      BY <1>1, <2>1, <2>2, SteadyStep
  <1>3. CASE DivideTraps(native)
    <2>1. mine
      BY <1>1 DEF SafeInv
    <2> QED
      BY <1>1, <1>3, <2>1, DivideFacts DEF SafeInv
  <1> QED
    BY <1>2, <1>3 DEF Stamp

-----------------------------------------------------------------------------
\* The globals as the process starts satisfy SafeInv.
LEMMA InitSafe == Init => SafeInv
  BY DEF Init, SafeInv, Globals, Fields, RingFollowsFlag, PlainUse

\* Every step keeps SafeInv.
LEMMA NextSafe == SafeInv /\ [Next]_vars => SafeInv'
  <1> SUFFICES ASSUME SafeInv, [Next]_vars
               PROVE  SafeInv'
    OBVIOUS
  <1>1. CASE UNCHANGED vars
    BY <1>1 DEF vars, SafeInv, PlainUse
  <1>2. CASE Next
    BY <1>2, QuietSteps, StartSafe, StopSafe, CheckOverSafe, LoadTrackSafe,
       LoadOtherSafe, SeekSafe, ReadLeftOverSafe, ExecuteSafe, RenderSafe,
       ReadFinishSafe, StampSafe
       DEF Next, ReaderStep
  <1> QED
    BY <1>1, <1>2

(***************************************************************************)
(* Backend.cpp and its callers: until a load fails or a stop reaches a     *)
(* running reader the ring is not freed twice, no buffer or emulator is    *)
(* used that is not there, and the clock divides by a rate, in any         *)
(* sequence of calls, for all sizes and for both backends.                 *)
(***************************************************************************)
THEOREM MemorySafe == Spec => []MemorySafeInPlainUse
  <1>1. SafeInv => MemorySafeInPlainUse
    BY DEF SafeInv, PlainUse, MemorySafeInPlainUse
  <1> QED
    BY <1>1, InitSafe, NextSafe, PTL DEF Spec
-----------------------------------------------------------------------------
(***************************************************************************)
(* The audio.  Words first: their range stays a name, so that the provers  *)
(* see linear arithmetic.                                                  *)
(***************************************************************************)
M == 2^Width

LEMMA SizeFacts == Buf \in Nat \ {0} /\ Rate \in Nat \ {0}
  BY StreamAssumption

LEMMA WordRange == M \in Nat \ {0} /\ Words = 0..(M - 1)
  BY StreamAssumption DEF M, Words

LEMMA WordIsRemainder == \A a : Word(a) = (a % M)
  BY Zenon DEF M, Word

\* A remainder lies below its divisor, and is the number if that does.
LEMMA RemainderFacts ==
    ASSUME NEW m \in Nat \ {0}, NEW a \in Int
    PROVE  (a % m) \in 0..(m - 1) /\ (a \in 0..(m - 1) => (a % m) = a)
  OBVIOUS

LEMMA WordIsWord ==
    ASSUME NEW a \in Int
    PROVE  Word(a) \in Words /\ Word(a) \in Nat
  <1>1. PICK m \in Nat \ {0} : m = M
    BY WordRange
  <1>2. (a % m) \in 0..(m - 1)
    BY RemainderFacts
  <1>3. (a % m) \in Nat
    BY <1>2
  <1> QED
    BY <1>1, <1>2, <1>3, WordRange, WordIsRemainder, Zenon

LEMMA WordOfWord ==
    ASSUME NEW a \in Words
    PROVE  a \in Nat /\ a < M /\ Word(a) = a
  <1>1. PICK m \in Nat \ {0} : m = M
    BY WordRange
  <1>2. a \in 0..(m - 1)
    BY <1>1, WordRange, Zenon
  <1>3. a \in Nat /\ a \in Int /\ a < m
    BY <1>2
  <1>4. (a % m) = a
    BY <1>2, <1>3, RemainderFacts, Zenon
  <1> QED
    BY <1>1, <1>3, <1>4, WordIsRemainder, Zenon

LEMMA SmallIsWord ==
    ASSUME NEW a \in Nat, a < M
    PROVE  a \in Words
  <1>1. PICK m \in Nat \ {0} : m = M
    BY WordRange
  <1>2. a \in 0..(m - 1)
    BY <1>1
  <1> QED
    BY <1>1, <1>2, WordRange, Zenon

\* The remainder is unique.
LEMMA RemainderIsUnique ==
    ASSUME NEW m \in Nat \ {0}, NEW a \in Int, NEW q \in Int,
           NEW r \in 0..(m - 1), a = m * q + r
    PROVE  (a % m) = r
  OBVIOUS

\* A sum may be reduced on the way.
LEMMA WordOfSum ==
    ASSUME NEW a \in Int, NEW b \in Int
    PROVE  Word(Word(a) + b) = Word(a + b)
  <1>1. PICK m \in Nat \ {0} : m = M
    BY WordRange
  <1>2. PICK q \in Int, r \in 0..(m - 1) : a = m * q + r /\ (a % m) = r
    <2>1. /\ (a \div m) \in Int /\ (a % m) \in 0..(m - 1)
          /\ a = m * (a \div m) + (a % m)
      BY <1>1
    <2> QED
      BY <2>1
  <1>3. PICK p \in Int, s \in 0..(m - 1) :
          r + b = m * p + s /\ ((r + b) % m) = s
    <2> DEFINE c == r + b
    <2>1. c \in Int
      BY <1>1
    <2> HIDE DEF c
    <2>2. /\ (c \div m) \in Int /\ (c % m) \in 0..(m - 1)
          /\ c = m * (c \div m) + (c % m)
      BY <1>1, <2>1
    <2> QED
      BY <2>2 DEF c
  <1>4. a + b = m * (q + p) + s
    BY <1>1, <1>2, <1>3
  <1>5. ((a + b) % m) = s
    BY <1>1, <1>4, a + b \in Int, q + p \in Int, RemainderIsUnique, Zenon
  <1>6. Word(a) = r /\ Word(r + b) = s /\ Word(a + b) = s
    BY <1>1, <1>2, <1>3, <1>5, WordIsRemainder, Zenon
  <1> QED
    BY <1>6

\* The quotient of a word by two or more is at most half as large.
LEMMA HalfOfWord ==
    ASSUME NEW w \in Words, NEW d \in Nat, d > 1
    PROVE  (w \div d) \in Words /\ 2 * (w \div d) < M
  <1> DEFINE q == w \div d
  <1>1. w \in Nat /\ w < M /\ M \in Nat
    BY WordOfWord, WordRange
  <1>2. q \in Nat /\ d * q <= w
    BY <1>1
  <1> HIDE DEF q
  <1>3. 2 * q <= d * q
    BY <1>2
  <1>4. 2 * q <= w /\ q <= w
    BY <1>1, <1>2, <1>3
  <1>5. 2 * q < M /\ q < M
    BY <1>1, <1>2, <1>4
  <1> QED
    BY <1>2, <1>5, SmallIsWord DEF q

LEMMA ConversionFits ==
    ASSUME NEW ms \in Words
    PROVE  /\ convert_ms_to_samples(Rate, ms) \in Words
           /\ 2 * convert_ms_to_samples(Rate, ms) < M
           /\ convert_ms_to_samples(0, ms) \in Words
  <1>1. ms \in Int /\ Rate \in Int /\ Second \in Nat /\ Second > 1
    BY WordOfWord, StreamAssumption
  <1>2. Rate * ms \in Int /\ 0 * ms \in Int
    BY <1>1
  <1>3. Word(Rate * ms) \in Words /\ Word(0 * ms) \in Words
    BY <1>2, WordIsWord
  <1> QED
    BY <1>1, <1>3, HalfOfWord DEF convert_ms_to_samples

\* The length a file is given is a word, as its tag is.
LEMMA LengthIsWord ==
    ASSUME NEW tag \in Tags
    PROVE  getFileTrackLength(tag) \in Words
  <1>1. /\ tag \in Nat /\ tag < M /\ DefaultLength \in Nat /\ DefaultLength < M
        /\ Second \in Nat \ {0}
    BY StreamAssumption DEF M
  <1> DEFINE whole == (tag \div Second) * Second
  <1>2. whole \in Nat /\ whole <= tag
    BY <1>1
  <1> HIDE DEF whole
  <1>3. getFileTrackLength(tag) = IF whole > 0 THEN whole ELSE DefaultLength
    BY DEF getFileTrackLength, whole
  <1> QED
    BY <1>1, <1>2, <1>3, WordRange, SmallIsWord

LEMMA LesserOfTwo ==
    ASSUME NEW a \in Int, NEW b \in Int
    PROVE  Min({a, b}) = IF a <= b THEN a ELSE b
  <1>1. \E x \in {a, b} : \A y \in {a, b} : x =< y
    OBVIOUS
  <1> QED
    BY <1>1 DEF Min

-----------------------------------------------------------------------------
(***************************************************************************)
(* What the FIFO does to a sequence of samples.                            *)
(***************************************************************************)
LEMMA FirstSamples ==
    ASSUME NEW s \in Samples, NEW k \in 0..Len(s)
    PROVE  /\ SubSeq(s, 1, k) \in Samples /\ Len(SubSeq(s, 1, k)) = k
           /\ \A i \in 1..k : SubSeq(s, 1, k)[i] = s[i]
  BY LenProperties DEF Samples

LEMMA LastSamples ==
    ASSUME NEW s \in Samples, NEW k \in 0..Len(s)
    PROVE  /\ SubSeq(s, k + 1, Len(s)) \in Samples
           /\ Len(SubSeq(s, k + 1, Len(s))) = Len(s) - k
           /\ \A i \in 1..(Len(s) - k) : SubSeq(s, k + 1, Len(s))[i] = s[k + i]
  BY LenProperties DEF Samples

LEMMA JoinedSamples ==
    ASSUME NEW s \in Samples, NEW t \in Samples
    PROVE  /\ s \o t \in Samples /\ Len(s \o t) = Len(s) + Len(t)
           /\ \A i \in 1..(Len(s) + Len(t)) :
                (s \o t)[i] = IF i <= Len(s) THEN s[i] ELSE t[i - Len(s)]
  BY ConcatProperties DEF Samples

\* A run of the emulator: size consecutive samples.
Run(pos, size) == [i \in 1..size |-> Word(pos + i - 1)]

LEMMA RunIsSamples ==
    ASSUME NEW pos \in Int, NEW size \in Nat
    PROVE  /\ Run(pos, size) \in Samples /\ Len(Run(pos, size)) = size
           /\ \A i \in 1..size : Run(pos, size)[i] = Word(pos + i - 1)
  <1>1. \A i \in 1..size : pos + i - 1 \in Int
    OBVIOUS
  <1>2. \A i \in 1..size : Word(pos + i - 1) \in Words
    BY <1>1, WordIsWord
  <1> QED
    BY <1>2 DEF Run, Samples

-----------------------------------------------------------------------------
(***************************************************************************)
(* What every operation keeps of the globals: their types; a file that is  *)
(* open is loaded, and one that was loaded has set the rate and the length *)
(* of the buffer; USF leaves the FIFO empty; and, as a second has more     *)
(* than one millisecond, the end of the track is still a word.             *)
(***************************************************************************)
NativeT ==
    [lib : Libraries, open : BOOLEAN, pos : Words, initialized : BOOLEAN,
     rate : {0, Rate}, lengthMs : Words, fadeStart : Words,
     fadeLen : Words, buf : {0, Buf}, played : Words,
     error : {"none", "load", "init", "array", "render"},
     fifo : Samples, mem : {"null", "live", "freed"},
     fault : {"none", "doubleFree", "unallocated", "divide"}]

NativeOK(n) ==
    /\ n \in NativeT
    /\ Len(n.fifo) <= 2 * Buf
    /\ n.open => n.initialized
    /\ n.initialized => n.rate # 0
    /\ n.rate # 0 => n.buf = Buf
    /\ n.lib = "usf" => n.fifo = << >>
    /\ 2 * n.fadeStart < M /\ 2 * n.fadeLen < M

\* The end of the track, in samples.
End(n) == n.fadeStart + n.fadeLen

\* What only a load changes.
SameTrack(n, m) ==
    /\ m.lib = n.lib /\ m.rate = n.rate /\ m.buf = n.buf
    /\ m.lengthMs = n.lengthMs
    /\ m.fadeStart = n.fadeStart /\ m.fadeLen = n.fadeLen

\* What the audio path does not change of a track but by the field it names.
SameState(n, m) == m.initialized = n.initialized /\ m.fault = n.fault

LEMMA EndIsWord ==
    ASSUME NEW n, NativeOK(n)
    PROVE  /\ n.fadeStart \in Nat /\ n.fadeLen \in Nat /\ n.played \in Nat
           /\ n.pos \in Nat /\ n.lengthMs \in Nat
           /\ End(n) \in Nat /\ End(n) < M /\ n.played < M
  <1>1. /\ n.fadeStart \in Words /\ n.fadeLen \in Words /\ n.played \in Words
        /\ n.pos \in Words /\ n.lengthMs \in Words
    BY DEF NativeOK, NativeT
  <1>2. /\ n.fadeStart \in Nat /\ n.fadeLen \in Nat /\ n.played \in Nat
        /\ n.pos \in Nat /\ n.lengthMs \in Nat /\ n.played < M
    BY <1>1, WordOfWord
  <1>3. 2 * n.fadeStart < M /\ 2 * n.fadeLen < M /\ M \in Nat
    BY WordRange DEF NativeOK
  <1> QED
    BY <1>2, <1>3 DEF End

LEMMA ErrorKeeps ==
    ASSUME NEW n, NativeOK(n), NEW e \in {"init", "array", "render"}
    PROVE  LET m == [n EXCEPT !.error = e]
           IN  /\ NativeOK(m) /\ SameTrack(n, m) /\ SameState(n, m)
               /\ m.played = n.played /\ m.fifo = n.fifo /\ m.open = n.open
               /\ m.pos = n.pos
  BY DEF NativeOK, NativeT, SameTrack, SameState

LEMMA FaultKeeps ==
    ASSUME NEW n, NativeOK(n), NEW f \in {"unallocated", "divide"}
    PROVE  LET m == [n EXCEPT !.fault = f]
           IN  /\ NativeOK(m) /\ SameTrack(n, m)
               /\ m.initialized = n.initialized /\ m.fault = f
               /\ m.played = n.played /\ m.fifo = n.fifo /\ m.open = n.open
               /\ m.pos = n.pos
  BY DEF NativeOK, NativeT, SameTrack

LEMMA PlayedKeeps ==
    ASSUME NEW n, NativeOK(n), NEW w \in Words
    PROVE  LET m == [n EXCEPT !.played = w]
           IN  /\ NativeOK(m) /\ SameTrack(n, m) /\ SameState(n, m)
               /\ m.played = w /\ m.fifo = n.fifo /\ m.open = n.open
               /\ m.pos = n.pos
  BY DEF NativeOK, NativeT, SameTrack, SameState

LEMMA PosKeeps ==
    ASSUME NEW n, NativeOK(n), NEW w \in Words
    PROVE  LET m == [n EXCEPT !.pos = w]
           IN  /\ NativeOK(m) /\ SameTrack(n, m) /\ SameState(n, m)
               /\ m.played = n.played /\ m.fifo = n.fifo /\ m.open = n.open
               /\ m.pos = w
  BY DEF NativeOK, NativeT, SameTrack, SameState

LEMMA CloseKeeps ==
    ASSUME NEW n, NativeOK(n)
    PROVE  LET m == [n EXCEPT !.open = FALSE]
           IN  /\ NativeOK(m) /\ SameTrack(n, m) /\ SameState(n, m)
               /\ m.played = n.played /\ m.fifo = n.fifo /\ m.open = FALSE
               /\ m.pos = n.pos
  BY DEF NativeOK, NativeT, SameTrack, SameState

LEMMA FifoKeeps ==
    ASSUME NEW n, NativeOK(n), NEW q \in Samples, Len(q) <= 2 * Buf,
           n.lib = "usf" => q = << >>
    PROVE  LET m == [n EXCEPT !.fifo = q]
           IN  /\ NativeOK(m) /\ SameTrack(n, m) /\ SameState(n, m)
               /\ m.played = n.played /\ m.fifo = q /\ m.open = n.open
               /\ m.pos = n.pos
  BY DEF NativeOK, NativeT, SameTrack, SameState

\* fifo_get takes the first samples, at most count.
LEMMA GetKeeps ==
    ASSUME NEW n, NativeOK(n), NEW count \in Nat
    PROVE  LET m == fifo_get(n, count)
               k == IF count <= Len(n.fifo) THEN count ELSE Len(n.fifo)
           IN  /\ NativeOK(m) /\ SameTrack(n, m) /\ SameState(n, m)
               /\ m.played = n.played /\ m.open = n.open /\ m.pos = n.pos
               /\ Len(m.fifo) = Len(n.fifo) - k
               /\ \A i \in 1..Len(m.fifo) : m.fifo[i] = n.fifo[k + i]
               /\ fifo_peek(n, count) \in Samples
               /\ Len(fifo_peek(n, count)) = k
               /\ \A i \in 1..k : fifo_peek(n, count)[i] = n.fifo[i]
  <1> DEFINE q == n.fifo
  <1>1. q \in Samples /\ Len(q) \in Nat /\ Len(q) <= 2 * Buf
        /\ (n.lib = "usf" => q = << >>)
    BY LenProperties DEF NativeOK, NativeT, Samples
  <1> DEFINE k == IF count <= Len(q) THEN count ELSE Len(q)
  <1>2. k \in 0..Len(q) /\ Min({count, Len(q)}) = k
    <2>1. count \in Int /\ Len(q) \in Int
      BY <1>1
    <2>2. Min({count, Len(q)}) = k
      BY <2>1, LesserOfTwo, Zenon
    <2> QED
      BY <1>1, <2>2
  <1>3. /\ fifo_get(n, count) = [n EXCEPT !.fifo = SubSeq(q, k + 1, Len(q))]
        /\ fifo_peek(n, count) = SubSeq(q, 1, k)
    BY <1>2 DEF fifo_get, fifo_peek
  <1> HIDE DEF q, k
  <1> DEFINE r == SubSeq(q, k + 1, Len(q))
  <1>4. /\ r \in Samples /\ Len(r) = Len(q) - k
        /\ \A i \in 1..(Len(q) - k) : r[i] = q[k + i]
    BY <1>1, <1>2, LastSamples
  <1>5. n.lib = "usf" => r = << >>
    <2>1. CASE n.lib = "usf"
      <3>1. q = << >> /\ Len(q) = 0
        BY <1>1, <2>1
      <3>2. Len(r) = 0
        BY <1>2, <1>4, <3>1
      <3> QED
        BY <1>4, <3>2, EmptySeq DEF Samples
    <2> QED
      BY <2>1
  <1> HIDE DEF r
  <1>6. Len(r) <= 2 * Buf
    BY <1>1, <1>2, <1>4, SizeFacts
  <1> DEFINE m == [n EXCEPT !.fifo = r]
  <1>7. /\ NativeOK(m) /\ SameTrack(n, m) /\ SameState(n, m)
        /\ m.played = n.played /\ m.fifo = r /\ m.open = n.open
        /\ m.pos = n.pos
    BY <1>4, <1>5, <1>6, FifoKeeps
  <1>8. fifo_get(n, count) = m
    BY <1>3 DEF r
  <1> HIDE DEF m
  <1>9. /\ SubSeq(q, 1, k) \in Samples /\ Len(SubSeq(q, 1, k)) = k
        /\ \A i \in 1..k : SubSeq(q, 1, k)[i] = q[i]
    BY <1>1, <1>2, FirstSamples
  <1> QED
    BY <1>3, <1>4, <1>7, <1>8, <1>9 DEF q, k

\* The queue r is what was in q and then the block b.
Joined(q, b, r) ==
    /\ Len(r) = Len(q) + Len(b)
    /\ \A i \in 1..Len(q) : r[i] = q[i]
    /\ \A i \in 1..Len(b) : r[Len(q) + i] = b[i]

Fits(q, b) == Len(q) + Len(b) <= 2 * Buf

\* A block of the PSF emulator goes into the FIFO whole if there is room, and
\* as far as there is otherwise.
LEMMA PutKeeps ==
    ASSUME NEW n, NativeOK(n), n.lib = "psf", NEW b \in Samples,
           NEW w \in Words, NEW m, m = [fifo_put(n, b) EXCEPT !.pos = w]
    PROVE  /\ NativeOK(m) /\ SameTrack(n, m) /\ SameState(n, m)
           /\ m.played = n.played /\ m.open = n.open /\ m.pos = w
           /\ Fits(n.fifo, b) => Joined(n.fifo, b, m.fifo)
           /\ \E k \in 0..Len(b) : Joined(n.fifo, SubSeq(b, 1, k), m.fifo)
  <1> DEFINE q == n.fifo
             size == Len(b)
  <1>1. q \in Samples /\ Len(q) \in Nat /\ Len(q) <= 2 * Buf
    BY LenProperties DEF NativeOK, NativeT, Samples
  <1>3. size \in Nat
    BY LenProperties DEF Samples
  <1> DEFINE room == 2 * Buf - Len(q)
             k == IF size <= room THEN size ELSE room
  <1>4. room \in Nat /\ k \in 0..size /\ Min({Len(b), room}) = k
    <2>1. room \in Nat
      BY <1>1, SizeFacts
    <2>2. k \in 0..size
      BY <2>1
    <2> HIDE DEF room
    <2>3. Min({size, room}) = k
      <3>1. size \in Int /\ room \in Int
        BY <1>3, <2>1
      <3> HIDE DEF size
      <3> QED
        BY <3>1, LesserOfTwo, Zenon
    <2> QED
      BY <1>3, <2>1, <2>2, <2>3
  <1>5. fifo_put(n, b) = [n EXCEPT !.fifo = q \o SubSeq(b, 1, k)]
    BY <1>4 DEF fifo_put, Capacity
  <1> HIDE DEF q
  <1> DEFINE c == SubSeq(b, 1, k)
  <1>6. /\ c \in Samples /\ Len(c) = k
        /\ \A i \in 1..k : c[i] = b[i]
    BY <1>3, <1>4, FirstSamples
  <1> HIDE DEF c, size
  <1> DEFINE r == q \o c
  <1>7. /\ r \in Samples /\ Len(r) = Len(q) + k
        /\ \A i \in 1..(Len(q) + k) :
             r[i] = IF i <= Len(q) THEN q[i] ELSE c[i - Len(q)]
    <2>1. q \in Samples /\ c \in Samples /\ Len(c) = k
      BY <1>1, <1>6
    <2>2. /\ q \o c \in Samples /\ Len(q \o c) = Len(q) + Len(c)
          /\ \A i \in 1..(Len(q) + Len(c)) :
               (q \o c)[i] = IF i <= Len(q) THEN q[i] ELSE c[i - Len(q)]
      BY <2>1, JoinedSamples
    <2> QED
      BY <2>1, <2>2
  <1>8. Len(r) <= 2 * Buf
    BY <1>1, <1>4, <1>7, SizeFacts
  <1> HIDE DEF r
  <1> DEFINE l == [n EXCEPT !.fifo = r]
  <1>9. /\ NativeOK(l) /\ SameTrack(n, l) /\ SameState(n, l)
        /\ l.played = n.played /\ l.fifo = r /\ l.open = n.open
    BY <1>7, <1>8, FifoKeeps
  <1>10. fifo_put(n, b) = l
    BY <1>5 DEF c, r
  <1> HIDE DEF l
  <1> DEFINE o == [l EXCEPT !.pos = w]
  <1>11. /\ NativeOK(o) /\ SameTrack(l, o) /\ SameState(l, o)
         /\ o.played = l.played /\ o.fifo = l.fifo /\ o.open = l.open
         /\ o.pos = w
    BY <1>9, PosKeeps
  <1>14. m = o
    BY <1>10
  <1> HIDE DEF o
  <1>12. /\ NativeOK(m) /\ SameTrack(n, m) /\ SameState(n, m)
         /\ m.played = n.played /\ m.open = n.open /\ m.pos = w /\ m.fifo = r
    BY <1>9, <1>11, <1>14 DEF SameTrack, SameState
  <1>13. ASSUME Len(q) + size <= 2 * Buf
         PROVE  /\ Len(r) = Len(q) + size
                /\ \A i \in 1..Len(q) : r[i] = q[i]
                /\ \A i \in 1..size : r[Len(q) + i] = b[i]
    <2>1. k = size
      BY <1>1, <1>3, <1>13, SizeFacts
    <2>2. \A i \in 1..Len(q) : r[i] = q[i]
      BY <1>1, <1>4, <1>7
    <2>3. \A i \in 1..size : r[Len(q) + i] = c[i]
      BY <1>1, <1>3, <1>7, <2>1
    <2> QED
      BY <1>3, <1>6, <1>7, <2>1, <2>2, <2>3
  <1>15. Joined(q, c, r)
    <2>1. \A i \in 1..Len(q) : r[i] = q[i]
      BY <1>1, <1>4, <1>7
    <2>2. ASSUME NEW i \in 1..k PROVE r[Len(q) + i] = c[i]
      <3>1. k \in Nat
        BY <1>3, <1>4
      <3> DEFINE j == Len(q) + i
      <3>2. j \in 1..(Len(q) + k) /\ ~(j <= Len(q)) /\ j - Len(q) = i
        <4> HIDE DEF k
        <4> QED
          BY <1>1, <2>2, <3>1
      <3> HIDE DEF j, k
      <3>3. r[j] = c[j - Len(q)]
        BY <1>7, <3>2
      <3> QED
        BY <3>2, <3>3 DEF j
    <2> QED
      BY <1>6, <1>7, <2>1, <2>2 DEF Joined
  <1>16. \E j \in 0..size : Joined(q, SubSeq(b, 1, j), r)
    BY <1>4, <1>15 DEF c
  <1> QED
    BY <1>12, <1>13, <1>16 DEF q, size, Joined, Fits

\* teardownInternal stops the clock and leaves what the FIFO holds.
LEMMA TeardownKeeps ==
    ASSUME NEW n, NativeOK(n)
    PROVE  LET m == teardownInternal(n)
           IN  /\ NativeOK(m) /\ SameTrack(n, m)
               /\ ~m.initialized /\ ~m.open /\ m.played = 0
  <1>1. 0 \in Words
    BY SmallIsWord, WordRange
  <1>2. CASE n.lib = "usf"
    BY <1>1, <1>2 DEF teardownInternal, usf_teardownInternal, NativeOK,
                      NativeT, SameTrack
  <1>3. CASE n.lib # "usf"
    BY <1>1, <1>3 DEF teardownInternal, psf_teardownInternal, NativeOK,
                      NativeT, SameTrack
  <1> QED
    BY <1>2, <1>3

\* loadFileInternal starts the clock anew if it tears down a loaded file.
LEMMA LoadKeeps ==
    ASSUME NEW n, NativeOK(n), NEW ok \in BOOLEAN, NEW ms \in Words
    PROVE  LET m == loadFileInternal(n, ok, ms)
           IN  /\ NativeOK(m) /\ m.lib = n.lib
               /\ m.initialized = ok /\ m.open = ok
               /\ m.played = IF n.initialized THEN 0 ELSE n.played
               /\ ok => m.fifo = << >> /\ m.pos = 0
  <1> DEFINE c == IF n.initialized THEN teardownInternal(n) ELSE n
  <1>1. /\ NativeOK(c) /\ c.lib = n.lib /\ ~c.initialized
        /\ c.played = IF n.initialized THEN 0 ELSE n.played
    <2>1. CASE n.initialized
      BY <2>1, TeardownKeeps DEF SameTrack
    <2>2. CASE ~n.initialized
      BY <2>2
    <2> QED
      BY <2>1, <2>2
  <1> DEFINE start == convert_ms_to_samples(Rate, Word(ms - FadeTime))
             length == convert_ms_to_samples(Rate, FadeTime)
  <1>2. /\ start \in Words /\ 2 * start < M
        /\ length \in Words /\ 2 * length < M
    <2>1. ms \in Int /\ FadeTime \in Int /\ Second \in Nat /\ Second > 1
          /\ Rate \in Int
      BY WordOfWord, StreamAssumption
    <2>2. ms - FadeTime \in Int /\ Rate * FadeTime \in Int
      BY <2>1
    <2>3. Word(ms - FadeTime) \in Words /\ Word(Rate * FadeTime) \in Words
      BY <2>2, WordIsWord
    <2> QED
      BY <2>1, <2>3, HalfOfWord, ConversionFits DEF convert_ms_to_samples
  <1>3. loadFileInternal(n, ok, ms) =
          IF ok
          THEN [c EXCEPT
                  !.lengthMs = ms,
                  !.open = TRUE,
                  !.pos = 0,
                  !.initialized = TRUE,
                  !.rate = Rate,
                  !.buf = Buf,
                  !.fadeStart = start,
                  !.fadeLen = length,
                  !.fifo = << >>,
                  !.mem = "live"]
          ELSE [c EXCEPT !.lengthMs = ms, !.open = FALSE, !.error = "load"]
    BY Zenon DEF loadFileInternal, c, start, length
  <1> HIDE DEF c, start, length
  <1>4. 0 \in Words /\ << >> \in Samples /\ Len(<< >>) = 0
    BY SmallIsWord, WordRange DEF Samples
  <1>5. Rate # 0 /\ 0 <= 2 * Buf
    BY SizeFacts
  <1>6. CASE ok
    <2> DEFINE zero == 0
               none == << >>
               yes == TRUE
               live == "live"
               m == [c EXCEPT !.lengthMs = ms, !.open = yes, !.pos = zero,
                              !.initialized = yes, !.rate = Rate, !.buf = Buf,
                              !.fadeStart = start, !.fadeLen = length,
                              !.fifo = none, !.mem = live]
    <2>1. loadFileInternal(n, ok, ms) = m
      BY <1>3, <1>6
    <2>2. /\ zero \in Words /\ none \in Samples /\ yes \in BOOLEAN
          /\ live \in {"null", "live", "freed"}
      BY <1>4
    <2> HIDE DEF zero, none, yes, live
    <2>3. m \in NativeT
      BY <1>1, <1>2, <2>2 DEF NativeOK, NativeT
    <2>4. /\ m.open = yes /\ m.initialized = yes /\ m.rate = Rate
          /\ m.buf = Buf /\ m.fadeStart = start /\ m.fadeLen = length
          /\ m.fifo = none /\ m.pos = zero /\ m.lib = c.lib
          /\ m.played = c.played
      BY <1>1 DEF NativeOK, NativeT
    <2> HIDE DEF m
    <2>5. NativeOK(m)
      BY <1>2, <1>4, <1>5, <2>3, <2>4 DEF NativeOK, none, yes
    <2> QED
      BY <1>1, <1>6, <2>1, <2>4, <2>5 DEF zero, none, yes
  <1>7. CASE ~ok
    <2> DEFINE no == FALSE
               e == "load"
               m == [c EXCEPT !.lengthMs = ms, !.open = no, !.error = e]
    <2>1. loadFileInternal(n, ok, ms) = m
      BY <1>3, <1>7
    <2>2. no \in BOOLEAN /\ e \in {"none", "load", "init", "array", "render"}
      OBVIOUS
    <2>3. ~no
      OBVIOUS
    <2> HIDE DEF no, e
    <2>4. m \in NativeT
      BY <1>1, <2>2 DEF NativeOK, NativeT
    <2>5. /\ m.open = no /\ m.initialized = c.initialized
          /\ m.rate = c.rate /\ m.buf = c.buf /\ m.fifo = c.fifo
          /\ m.fadeStart = c.fadeStart /\ m.fadeLen = c.fadeLen
          /\ m.lib = c.lib /\ m.played = c.played
      BY <1>1 DEF NativeOK, NativeT
    <2> HIDE DEF m
    <2>6. NativeOK(m)
      BY <1>1, <2>3, <2>4, <2>5 DEF NativeOK
    <2>7. m.initialized = FALSE /\ m.open = FALSE /\ ok = FALSE
      BY <1>1, <1>7, <2>3, <2>4, <2>5 DEF NativeT
    <2> QED
      BY <1>1, <1>7, <2>1, <2>5, <2>6, <2>7
  <1> QED
    BY <1>6, <1>7

-----------------------------------------------------------------------------
(***************************************************************************)
(* The invariant of the native calls.  A read has in hand what it has left *)
(* to generate: with what it holds, the buffer; what the PSF emulator has  *)
(* made is in the FIFO, USF holds it.  Without a file there is nothing to  *)
(* finish it with.  A seek has its target ahead by what remains.           *)
(***************************************************************************)
CallT == [held : Samples, want : 0..Buf, made : Nat, toRead : 0..Buf,
          remaining : Words, target : Words, seeking : BOOLEAN]

ReadOK(n, c) ==
    /\ n.rate # 0
    /\ c.toRead = Min({Word(End(n) - n.played), Buf})
    /\ ~n.initialized => c.made < c.want
    /\ n.lib = "psf" => /\ Len(c.held) + c.want = Buf
                        /\ c.want > 0 => Len(n.fifo) = c.made
    /\ n.lib = "usf" => /\ c.want = Buf /\ c.made \in {0, Buf}
                        /\ Len(c.held) = c.made

SeekOK(n, c) == c.seeking /\ n.played + c.remaining = c.target

CallOK(n, c, p) ==
    /\ p = "generate" /\ ~c.seeking => ReadOK(n, c)
    /\ p = "generate" /\ c.seeking => SeekOK(n, c) /\ c.want <= c.remaining
    /\ p = "seek" => SeekOK(n, c)

StreamInv ==
    /\ NativeOK(native)
    /\ out.start \in Words /\ {out.data, out.gain} \subseteq Samples
    /\ pc \in Pcs
    /\ call \in CallT
    /\ {mine, queued} \subseteq BOOLEAN
    /\ state \in {"stopped", "playing", "paused"}
    /\ hist \in [seeked : BOOLEAN, disturbed : BOOLEAN]
    /\ Alive => CallOK(native, call, pc)

LEMMA SilenceType ==
    Silence.start \in Words /\ {Silence.data, Silence.gain} \subseteq Samples
  BY SmallIsWord, WordRange DEF Silence, Samples

LEMMA NoCallType == NoCall \in CallT
  <1>1. 0 \in Words /\ 0 \in 0..Buf
    BY SmallIsWord, WordRange, SizeFacts
  <1> QED
    BY <1>1 DEF NoCall, CallT, Samples

-----------------------------------------------------------------------------
(***************************************************************************)
(* The steps outside a native call keep StreamInv.                         *)
(***************************************************************************)
LEMMA ListenerKeeps ==
    ASSUME StreamInv, Start \/ Resume \/ Skip \/ Pause
    PROVE  StreamInv'
  <1>1. UNCHANGED <<native, out, call, hist>>
    BY DEF Start, Resume, Skip, Pause
  <1>2. pc' = pc \/ pc' = "top"
    BY DEF Start, Resume, Skip, Pause
  <1>3. /\ {mine, queued}' \subseteq BOOLEAN
        /\ state' \in {"stopped", "playing", "paused"}
    BY DEF StreamInv, Start, Resume, Skip, Pause
  <1> QED
    BY <1>1, <1>2, <1>3 DEF StreamInv, Pcs, CallOK, Alive

LEMMA StopKeeps ==
    ASSUME StreamInv, stop
    PROVE  /\ NativeOK(native') /\ SameTrack(native, native')
           /\ \/ UNCHANGED native
              \/ mine /\ ~native'.initialized /\ native'.played = 0
           /\ mine /\ state # "stopped" =>
                ~native'.initialized /\ native'.played = 0
           /\ state' = "stopped"
  <1>1. CASE mine /\ state # "stopped"
    <2>1. native' = teardownInternal(native) /\ state' = "stopped"
      BY <1>1 DEF stop
    <2> QED
      BY <1>1, <2>1, TeardownKeeps DEF StreamInv
  <1>2. CASE ~(mine /\ state # "stopped")
    BY <1>2 DEF stop, StreamInv, SameTrack
  <1> QED
    BY <1>1, <1>2

LEMMA StopStream ==
    ASSUME StreamInv, Stop
    PROVE  StreamInv'
  <1>1. stop /\ BetweenCalls /\ UNCHANGED <<out, pc, call, mine, queued>>
    BY DEF Stop
  <1>2. hist' \in [seeked : BOOLEAN, disturbed : BOOLEAN]
    BY DEF Stop, StreamInv
  <1> QED
    BY <1>1, <1>2, StopKeeps DEF StreamInv, BetweenCalls, CallOK

LEMMA LoopStream ==
    ASSUME StreamInv, LoopEnds \/ LoadOther
    PROVE  StreamInv'
  <1>1. CASE LoopEnds
    BY <1>1 DEF LoopEnds, StreamInv, Pcs, CallOK
  <1>2. CASE LoadOther
    <2>1. NativeOK(native')
      BY <1>2, TeardownKeeps DEF LoadOther, StreamInv
    <2>2. UNCHANGED <<out, pc, call, state, hist>> /\ pc = "top"
          /\ queued' = FALSE /\ mine' = FALSE
      BY <1>2 DEF LoadOther, At
    <2> QED
      BY <2>1, <2>2 DEF StreamInv, CallOK
  <1> QED
    BY <1>1, <1>2

LEMMA LoadTrackStream ==
    ASSUME StreamInv, LoadTrack
    PROVE  StreamInv'
  <1>1. PICK ok \in BOOLEAN, tag \in Tags :
          /\ native' = loadFileInternal(
                         IF mine THEN teardownInternal(native) ELSE native,
                         ok, getFileTrackLength(tag))
          /\ hist' = [hist EXCEPT !.seeked = FALSE, !.disturbed = @ \/ ~ok]
    BY DEF LoadTrack, LoadResults
  <1> DEFINE c == IF mine THEN teardownInternal(native) ELSE native
             ms == getFileTrackLength(tag)
  <1>2. NativeOK(c) /\ ms \in Words
    BY TeardownKeeps, LengthIsWord DEF StreamInv
  <1>3. native' = loadFileInternal(c, ok, ms)
    BY <1>1
  <1> HIDE DEF c, ms
  <1>4. NativeOK(native')
    BY <1>2, <1>3, LoadKeeps
  <1>5. hist' \in [seeked : BOOLEAN, disturbed : BOOLEAN]
    BY <1>1 DEF StreamInv
  <1>6. /\ out' = Silence /\ pc' = "loaded" /\ queued' = FALSE /\ mine' = TRUE
        /\ UNCHANGED <<call, state>>
    BY DEF LoadTrack
  <1> QED
    BY <1>4, <1>5, <1>6, SilenceType DEF StreamInv, Pcs, CallOK

-----------------------------------------------------------------------------
(***************************************************************************)
(* seek.  Back, it loads the file again; ahead, the target lies ahead.     *)
(***************************************************************************)
LEMMA SeekFacts ==
    ASSUME StreamInv, Seek
    PROVE  /\ NativeOK(native') /\ call' \in CallT /\ SeekOK(native', call')
           /\ mine' = mine /\ queued' = queued /\ state' = state
           /\ pc' = "seek"
           /\ hist' = [seeked |-> TRUE, disturbed |-> hist'.disturbed]
           /\ hist'.disturbed \in BOOLEAN
           /\ hist.disturbed => hist'.disturbed
           /\ \/ UNCHANGED <<native, out>>
              \/ /\ out' = Silence /\ native'.played = 0
                 /\ native'.initialized \/ hist'.disturbed
  <1>1. PICK t \in 0..native.lengthMs, ok \in LoadResults :
          LET target == convert_ms_to_samples(native.rate, t)
              back == target <= native.played
              n == IF back
                   THEN loadFileInternal(teardownInternal(native), ok,
                                         native.lengthMs)
                   ELSE native
          IN  /\ ~back => ok
              /\ native' = n
              /\ out' = IF back THEN Silence ELSE out
              /\ call' = [NoCall EXCEPT !.seeking = TRUE, !.target = target,
                             !.remaining = Word(target - n.played)]
              /\ hist' = [hist EXCEPT !.seeked = TRUE, !.disturbed = @ \/ ~ok]
    BY Zenon DEF Seek
  <1> DEFINE target == convert_ms_to_samples(native.rate, t)
             ms == native.lengthMs
  <1>2. /\ native.rate \in {0, Rate} /\ native.played \in Words /\ ms \in Words
        /\ NativeOK(native)
    BY DEF StreamInv, NativeOK, NativeT
  <1>3. t \in Words
    <2>1. ms \in Nat /\ ms < M
      BY <1>2, WordOfWord
    <2>2. t \in Nat /\ t <= ms
      BY <2>1
    <2>3. t < M
      BY <2>1, <2>2, WordRange
    <2> QED
      BY <2>2, <2>3, SmallIsWord
  <1>4. target \in Words
    BY <1>2, <1>3, ConversionFits
  <1>5. /\ ok \in BOOLEAN /\ mine' = mine /\ queued' = queued
        /\ state' = state /\ pc' = "seek"
    BY DEF Seek, LoadResults
  <1>6. /\ hist' = [seeked |-> TRUE, disturbed |-> hist'.disturbed]
        /\ hist'.disturbed = (hist.disturbed \/ ~ok)
        /\ hist'.disturbed \in BOOLEAN
    BY <1>1, <1>5 DEF StreamInv
  <1>7. /\ \/ /\ native.played < target /\ UNCHANGED <<native, out>>
           \/ /\ out' = Silence
              /\ native' = loadFileInternal(teardownInternal(native), ok, ms)
        /\ call' = [NoCall EXCEPT !.seeking = TRUE, !.target = target,
                          !.remaining = Word(target - native'.played)]
    <2>1. target \in Nat /\ native.played \in Nat
      BY <1>2, <1>4, WordOfWord
    <2>2. CASE target <= native.played
      BY <1>1, <2>2, Zenon
    <2>3. CASE ~(target <= native.played)
      <3> DEFINE x == target
                 y == native.played
      <3>1. y < x
        <4> HIDE DEF x, y
        <4> QED
          BY <2>1, <2>3 DEF x, y
      <3>2. /\ UNCHANGED <<native, out>>
            /\ call' = [NoCall EXCEPT !.seeking = TRUE, !.target = target,
                           !.remaining = Word(target - native.played)]
        BY <1>1, <2>3, Zenon
      <3> QED
        BY <3>1, <3>2
    <2> QED
      BY <2>2, <2>3
  <1> HIDE DEF target, ms
  <1>8. /\ NativeOK(native')
        /\ native'.played \in Words /\ native'.played \in Nat
        /\ target \in Nat /\ target < M /\ native'.played <= target
        /\ \/ UNCHANGED <<native, out>>
           \/ /\ out' = Silence /\ native'.played = 0
              /\ native'.initialized \/ hist'.disturbed
    <2>1. target \in Nat /\ target < M /\ native.played \in Nat
      BY <1>2, <1>4, WordOfWord
    <2>2. CASE native.played < target /\ UNCHANGED <<native, out>>
      BY <1>2, <2>1, <2>2
    <2>3. CASE /\ out' = Silence
               /\ native' = loadFileInternal(teardownInternal(native), ok, ms)
      <3> DEFINE c == teardownInternal(native)
      <3>1. NativeOK(c) /\ ~c.initialized /\ c.played = 0
        BY <1>2, TeardownKeeps
      <3> HIDE DEF c
      <3>2. native' = loadFileInternal(c, ok, ms)
        BY <2>3 DEF c
      <3>3. /\ NativeOK(native') /\ native'.initialized = ok
            /\ native'.played = 0
        BY <1>2, <1>5, <3>1, <3>2, LoadKeeps
      <3>4. 0 \in Words
        BY SmallIsWord, WordRange
      <3>5. native'.initialized \/ hist'.disturbed
        BY <1>6, <3>3
      <3> QED
        BY <2>1, <2>3, <3>3, <3>4, <3>5
    <2> QED
      BY <1>7, <2>2, <2>3
  <1>9. call' \in CallT /\ SeekOK(native', call')
    <2> DEFINE left == target - native'.played
    <2>1. left \in Nat /\ left < M
      BY <1>8, WordRange
    <2>2. left \in Words /\ Word(left) = left
      BY <2>1, SmallIsWord, WordOfWord
    <2>3. call' = [NoCall EXCEPT !.seeking = TRUE, !.target = target,
                                 !.remaining = left]
      BY <1>7, <2>2
    <2>4. native'.played + left = target
      BY <1>8
    <2> HIDE DEF left
    <2> DEFINE yes == TRUE
    <2>5. call' = [NoCall EXCEPT !.seeking = yes, !.target = target,
                                 !.remaining = left]
      BY <2>3
    <2>6. yes \in BOOLEAN
      OBVIOUS
    <2> HIDE DEF yes
    <2>7. /\ call' \in CallT /\ call'.seeking = yes
          /\ call'.target = target /\ call'.remaining = left
      BY <1>4, <2>2, <2>5, <2>6, NoCallType DEF CallT
    <2> QED
      BY <2>4, <2>7 DEF SeekOK, yes
  <1> QED
    BY <1>5, <1>6, <1>8, <1>9

LEMMA SeekStream ==
    ASSUME StreamInv, Seek
    PROVE  StreamInv'
  <1>1. hist' \in [seeked : BOOLEAN, disturbed : BOOLEAN]
    <2>1. /\ hist' = [seeked |-> TRUE, disturbed |-> hist'.disturbed]
          /\ hist'.disturbed \in BOOLEAN
      BY SeekFacts, Zenon
    <2> DEFINE yes == TRUE
               d == hist'.disturbed
    <2>2. hist' = [seeked |-> yes, disturbed |-> d] /\ d \in BOOLEAN
          /\ yes \in BOOLEAN
      BY <2>1
    <2> HIDE DEF yes, d
    <2> QED
      BY <2>2
  <1>2. out'.start \in Words /\ {out'.data, out'.gain} \subseteq Samples
    BY SeekFacts, SilenceType DEF StreamInv
  <1>3. CallOK(native', call', pc')
    BY SeekFacts DEF CallOK
  <1>4. /\ pc' \in Pcs /\ {mine, queued}' \subseteq BOOLEAN
        /\ state' \in {"stopped", "playing", "paused"}
    BY SeekFacts DEF StreamInv, Pcs
  <1> QED
    BY SeekFacts, <1>1, <1>2, <1>3, <1>4 DEF StreamInv

\* One round of its loop asks for no more than remains.
LEMMA SeekBlockStream ==
    ASSUME StreamInv, SeekBlock \/ SeekDone
    PROVE  StreamInv'
  <1>1. CASE SeekDone
    BY <1>1, NoCallType DEF SeekDone, StreamInv, CallOK, Pcs
  <1>2. CASE SeekBlock
    <2> DEFINE want == Min({call.remaining, native.buf})
               none == 0
    <2>1. /\ call.remaining \in Nat /\ native.buf \in 0..Buf
          /\ call \in CallT
      BY WordOfWord, SizeFacts DEF StreamInv, NativeOK, NativeT, CallT
    <2>2. want \in 0..Buf /\ want <= call.remaining
      <3> DEFINE r == call.remaining
                 b == native.buf
      <3> HIDE DEF r, b
      <3>1. r \in Nat /\ b \in 0..Buf
        BY <2>1 DEF r, b
      <3>2. Min({r, b}) = IF r <= b THEN r ELSE b
        BY <3>1, LesserOfTwo
      <3>3. Min({r, b}) \in 0..Buf /\ Min({r, b}) <= r
        BY <3>1, <3>2, SizeFacts
      <3> QED
        BY <3>3 DEF r, b
    <2>3. call' = [call EXCEPT !.want = want, !.made = none]
      BY <1>2 DEF SeekBlock
    <2>4. none \in Nat
      OBVIOUS
    <2> HIDE DEF want, none
    <2>5. /\ call' \in CallT /\ call'.want = want
          /\ call'.seeking = call.seeking /\ call'.target = call.target
          /\ call'.remaining = call.remaining
      BY <2>1, <2>2, <2>3, <2>4 DEF CallT
    <2>6. SeekOK(native, call)
      BY <1>2 DEF SeekBlock, At, StreamInv, CallOK
    <2>7. /\ pc' = "generate"
          /\ UNCHANGED <<native, out, mine, queued, state, hist>>
      BY <1>2 DEF SeekBlock
    <2>8. CallOK(native', call', pc')
      BY <2>2, <2>5, <2>6, <2>7 DEF CallOK, SeekOK
    <2> QED
      BY <2>5, <2>7, <2>8 DEF StreamInv, Pcs
  <1> QED
    BY <1>1, <1>2

\* SeekAdvance comes nearer to the target by what was asked for.
LEMMA SeekAdvanceFacts ==
    ASSUME StreamInv, SeekAdvance
    PROVE  /\ NativeOK(native') /\ SameTrack(native, native')
           /\ SameState(native, native') /\ native'.open = native.open
           /\ native.played <= native'.played
           /\ call' \in CallT /\ SeekOK(native', call') /\ pc' = "seek"
           /\ UNCHANGED <<out, mine, queued, state, hist>>
           /\ call.seeking
  <1>1. /\ call \in CallT /\ call.want \in Nat /\ call.remaining \in Nat
        /\ call.target \in Nat /\ call.target < M
        /\ native.played \in Nat /\ native.played \in Words
    BY WordOfWord, SizeFacts DEF StreamInv, NativeOK, NativeT, CallT
  <1>2. call.seeking /\ Alive /\ pc = "generate"
    BY DEF SeekAdvance, At
  <1>3. /\ SeekOK(native, call) /\ call.want <= call.remaining
    BY <1>2 DEF StreamInv, CallOK
  <1> DEFINE p == native.played + call.want
             r == call.remaining - call.want
  <1>4. /\ p \in Nat /\ r \in Nat /\ p + r = call.target
        /\ p < M /\ r < M /\ native.played <= p
    BY <1>1, <1>3, WordRange DEF SeekOK
  <1>5. /\ native' = [native EXCEPT !.played = p]
        /\ call' = [call EXCEPT !.remaining = r]
        /\ p \in Words /\ r \in Words
    BY <1>4, SmallIsWord, WordOfWord DEF SeekAdvance
  <1> HIDE DEF p, r
  <1>6. /\ NativeOK(native') /\ SameTrack(native, native')
        /\ SameState(native, native') /\ native'.open = native.open
        /\ native'.played = p
    BY <1>5, PlayedKeeps DEF StreamInv
  <1>7. /\ call' \in CallT /\ call'.remaining = r /\ call'.target = call.target
        /\ call'.seeking = call.seeking
    BY <1>1, <1>5 DEF CallT
  <1> QED
    BY <1>2, <1>4, <1>6, <1>7 DEF SeekOK, SeekAdvance

LEMMA SeekAdvanceStream ==
    ASSUME StreamInv, SeekAdvance
    PROVE  StreamInv'
  <1>1. CallOK(native', call', pc')
    BY SeekAdvanceFacts DEF CallOK
  <1> QED
    BY <1>1, SeekAdvanceFacts DEF StreamInv, Pcs

\* The clock divides by a rate that is still zero.
LEMMA DivideKeeps ==
    ASSUME StreamInv, DivideTraps(native)
    PROVE  NativeOK(native') /\ ~Alive'
  <1>1. native' = [native EXCEPT !.fault = "divide"]
    BY DEF DivideTraps
  <1> QED
    BY <1>1, FaultKeeps DEF StreamInv, Alive

LEMMA CheckOverStream ==
    ASSUME StreamInv, CheckOver
    PROVE  StreamInv'
  <1>1. UNCHANGED <<out, call, mine, hist>>
    BY DEF CheckOver
  <1>2. queued' \in BOOLEAN
    BY DEF CheckOver, StreamInv, isTrackOver, psf_isTrackOver, usf_isTrackOver
  <1>3. CASE pc' = "read" /\ UNCHANGED <<native, state>>
    BY <1>1, <1>2, <1>3 DEF StreamInv, Pcs, CallOK
  <1>4. CASE pc' = "exited" /\ stop
    BY <1>1, <1>2, <1>4, StopKeeps DEF StreamInv, Pcs, CallOK
  <1>5. CASE DivideTraps(native) /\ UNCHANGED <<queued, pc, state>>
    BY <1>1, <1>2, <1>5, DivideKeeps DEF StreamInv
  <1> QED
    BY <1>3, <1>4, <1>5 DEF CheckOver

LEMMA StampStream ==
    ASSUME StreamInv, Stamp
    PROVE  StreamInv'
  <1>1. UNCHANGED <<out, call, mine, queued, state, hist>>
        /\ pc' \in {"top", "exited"}
    BY DEF Stamp
  <1>2. CASE UNCHANGED native
    BY <1>1, <1>2 DEF StreamInv, Pcs, CallOK
  <1>3. CASE DivideTraps(native)
    BY <1>1, <1>3, DivideKeeps DEF StreamInv, Pcs
  <1> QED
    BY <1>2, <1>3 DEF Stamp

\* A read that is refused, or ends early, sets an error at most.
LEMMA RefusedStream ==
    ASSUME StreamInv, ReadRefused \/ ReadNoArray \/ ReadCut
    PROVE  StreamInv'
  <1>1. /\ pc' = "stamp" /\ UNCHANGED <<out, mine, queued, state, hist>>
        /\ call' = call \/ call' = NoCall
    BY DEF ReadRefused, ReadNoArray, ReadCut
  <1>2. NativeOK(native')
    <2>1. CASE ReadCut
      BY <2>1 DEF ReadCut, StreamInv
    <2>2. CASE ReadRefused \/ ReadNoArray
      <3>1. PICK e \in {"init", "array"} : native' = [native EXCEPT !.error = e]
        BY <2>2 DEF ReadRefused, ReadNoArray
      <3> QED
        BY <3>1, ErrorKeeps DEF StreamInv
    <2> QED
      BY <2>1, <2>2
  <1> QED
    BY <1>1, <1>2, NoCallType DEF StreamInv, Pcs, CallOK

-----------------------------------------------------------------------------
(***************************************************************************)
(* readNextSamples.  The left-over audio is what the FIFO has, a buffer at *)
(* most; the emulator has the rest of the buffer to make.                  *)
(***************************************************************************)
LEMMA ReadLeftOverFacts ==
    ASSUME StreamInv, ReadLeftOver
    PROVE  LET k == IF Buf <= Len(native.fifo) THEN Buf ELSE Len(native.fifo)
           IN  /\ NativeOK(native') /\ SameTrack(native, native')
               /\ native'.open = native.open /\ native'.pos = native.pos
               /\ native'.played = native.played
               /\ native'.initialized = native.initialized
               /\ k \in Nat /\ k <= Len(native.fifo)
               /\ call' \in CallT /\ ~call'.seeking
               /\ Len(call'.held) = k
               /\ \A i \in 1..k : call'.held[i] = native.fifo[i]
               /\ call'.want = Buf - k /\ call'.made = 0
               /\ Alive' => /\ ReadOK(native', call')
                            /\ Len(native'.fifo) = Len(native.fifo) - k
                            /\ \A i \in 1..Len(native'.fifo) :
                                 native'.fifo[i] = native.fifo[k + i]
  <1> DEFINE k == IF Buf <= Len(native.fifo) THEN Buf ELSE Len(native.fifo)
             left == fifo_peek(native, native.buf)
             remaining == Word(End(native) - native.played)
             toRead == Min({remaining, Buf})
             got == fifo_get(native, native.buf)
  <1>1. /\ NativeOK(native) /\ native.rate # 0 /\ native.buf = Buf
        /\ pc = "read" /\ Alive
    BY DEF ReadLeftOver, At, StreamInv, NativeOK
  <1>2. /\ call' = [NoCall EXCEPT !.held = left, !.want = Buf - Len(left),
                                  !.toRead = toRead]
        /\ native' = IF left # << >> /\ ~native.initialized
                     THEN [native EXCEPT !.fault = "unallocated"] ELSE got
    <2>1. call' = [NoCall EXCEPT !.held = left,
                     !.want = native.buf - Len(left),
                     !.toRead = Min({Word(native.fadeStart + native.fadeLen
                                            - native.played), native.buf})]
      BY DEF ReadLeftOver
    <2>2. native' = IF left # << >> /\ ~native.initialized
                    THEN [native EXCEPT !.fault = "unallocated"] ELSE got
      BY DEF ReadLeftOver
    <2> HIDE DEF left, got
    <2>3. toRead = Min({Word(native.fadeStart + native.fadeLen
                               - native.played), native.buf})
      <3> HIDE DEF End
      <3>1. End(native) - native.played =
              native.fadeStart + native.fadeLen - native.played
        BY <1>1, EndIsWord DEF End
      <3>2. native.buf = Buf
        BY <1>1
      <3> QED
        BY <3>1, <3>2, Zenon
    <2> HIDE DEF toRead
    <2> QED
      BY <1>1, <2>1, <2>2, <2>3
  <1>3. /\ NativeOK(got) /\ SameTrack(native, got) /\ SameState(native, got)
        /\ got.played = native.played /\ got.open = native.open
        /\ got.pos = native.pos
        /\ Len(got.fifo) = Len(native.fifo) - k
        /\ \A i \in 1..Len(got.fifo) : got.fifo[i] = native.fifo[k + i]
        /\ left \in Samples /\ Len(left) = k
        /\ \A i \in 1..k : left[i] = native.fifo[i]
    BY <1>1, GetKeeps, SizeFacts
  <1>4. Len(native.fifo) \in Nat
    BY <1>1, LenProperties DEF NativeOK, NativeT, Samples
  <1>5. k \in Nat /\ k <= Len(native.fifo) /\ k <= Buf
    BY <1>4, SizeFacts
  <1>6. toRead \in 0..Buf
    <2>1. End(native) \in Nat /\ native.played \in Nat
      BY <1>1, EndIsWord
    <2>2. remaining \in Nat
      BY <2>1, WordIsWord
    <2> HIDE DEF remaining
    <2>3. Min({remaining, Buf}) = IF remaining <= Buf THEN remaining ELSE Buf
      BY <2>2, LesserOfTwo, SizeFacts
    <2> QED
      BY <2>2, <2>3, SizeFacts
  <1> HIDE DEF k, left, toRead, got
  <1>7. /\ call' \in CallT /\ call'.held = left /\ call'.want = Buf - k
        /\ call'.toRead = toRead /\ call'.made = 0 /\ call'.seeking = FALSE
    <2> DEFINE want == Buf - Len(left)
    <2>1. want \in 0..Buf /\ want = Buf - k
      BY <1>3, <1>5, SizeFacts
    <2> HIDE DEF want
    <2>2. call' = [NoCall EXCEPT !.held = left, !.want = want,
                                 !.toRead = toRead]
      BY <1>2 DEF want
    <2>3. NoCall.made = 0 /\ NoCall.seeking = FALSE
      BY DEF NoCall
    <2> QED
      BY <1>3, <1>6, <2>1, <2>2, <2>3, NoCallType DEF CallT
  <1>8. CASE left # << >> /\ ~native.initialized
    <2>1. native' = [native EXCEPT !.fault = "unallocated"]
      BY <1>2, <1>8
    <2>2. /\ NativeOK(native') /\ SameTrack(native, native') /\ ~Alive'
          /\ native'.open = native.open /\ native'.pos = native.pos
          /\ native'.played = native.played
          /\ native'.initialized = native.initialized
      BY <1>1, <2>1, FaultKeeps DEF Alive
    <2> QED
      BY <1>3, <1>5, <1>7, <2>2 DEF k
  <1>9. CASE ~(left # << >> /\ ~native.initialized)
    <2>1. native' = got
      BY <1>2, <1>9
    <2>2. ReadOK(native', call')
      <3>1. /\ native'.rate # 0 /\ call'.toRead = toRead
            /\ toRead = Min({Word(End(native') - native'.played), Buf})
        BY <1>1, <1>3, <1>7, <2>1 DEF toRead, SameTrack, End
      <3>2. ~native'.initialized => call'.made < call'.want
        <4>1. left = << >> => k = 0
          BY <1>3
        <4> QED
          BY <1>3, <1>7, <1>9, <2>1, <4>1, SizeFacts DEF SameState
      <3>3. /\ Len(call'.held) + call'.want = Buf
            /\ call'.want > 0 => Len(native'.fifo) = call'.made
        <4> DEFINE l == Len(native.fifo)
        <4>1. /\ Len(call'.held) = k /\ call'.want = Buf - k
              /\ call'.made = 0 /\ Len(native'.fifo) = l - k
          BY <1>3, <1>7, <2>1
        <4>2. l \in Nat /\ k = IF Buf <= l THEN Buf ELSE l
          BY <1>4 DEF k
        <4> HIDE DEF l
        <4> QED
          BY <4>1, <4>2, SizeFacts
      <3>4. native'.lib = "usf" =>
              /\ call'.want = Buf /\ call'.made \in {0, Buf}
              /\ Len(call'.held) = call'.made
        <4>1. native.lib = "usf" => Len(native.fifo) = 0
          BY <1>1 DEF NativeOK
        <4> QED
          BY <1>3, <1>5, <1>7, <2>1, <4>1, SizeFacts DEF SameTrack
      <3> QED
        BY <3>1, <3>2, <3>3, <3>4 DEF ReadOK
    <2> QED
      BY <1>3, <1>5, <1>7, <2>1, <2>2 DEF k, SameState
  <1> QED
    BY <1>8, <1>9

LEMMA ReadLeftOverStream ==
    ASSUME StreamInv, ReadLeftOver
    PROVE  StreamInv'
  <1>1. /\ NativeOK(native') /\ call' \in CallT /\ ~call'.seeking
        /\ Alive' => ReadOK(native', call')
    BY ReadLeftOverFacts
  <1>2. pc' = "generate" /\ UNCHANGED <<out, mine, queued, state, hist>>
    BY DEF ReadLeftOver
  <1>3. Alive' => CallOK(native', call', pc')
    BY <1>1, <1>2 DEF CallOK
  <1> QED
    BY <1>1, <1>2, <1>3 DEF StreamInv, Pcs

(***************************************************************************)
(* A round of the PSF emulator.  It makes a block for which, in a read,    *)
(* there is room, as a block is hardly longer than a buffer; or it closes. *)
(***************************************************************************)
LEMMA ExecuteFacts ==
    ASSUME StreamInv, Execute
    PROVE  /\ NativeOK(native') /\ SameTrack(native, native')
           /\ SameState(native, native') /\ native'.played = native.played
           /\ native.lib = "psf" /\ native.open /\ pc = "generate" /\ Alive
           /\ native.initialized
           /\ UNCHANGED <<out, pc, mine, queued, state, hist>>
           /\ \/ /\ call' = call /\ ~native'.open
                 /\ native'.fifo = native.fifo
              \/ \E size \in Nat :
                   /\ call' \in CallT /\ call' = [call EXCEPT !.made = @ + size]
                   /\ native'.open
                   /\ native'.pos = Word(native.pos + size)
                   /\ ~call.seeking =>
                        /\ Len(native'.fifo) = Len(native.fifo) + size
                        /\ \A i \in 1..Len(native.fifo) :
                             native'.fifo[i] = native.fifo[i]
                        /\ \A i \in 1..size :
                             native'.fifo[Len(native.fifo) + i] =
                                 Word(native.pos + i - 1)
  <1>1. /\ native.lib = "psf" /\ native.open /\ pc = "generate" /\ Alive
        /\ call.made < call.want
        /\ UNCHANGED <<out, pc, mine, queued, state, hist>>
    BY DEF Execute, At
  <1>2. NativeOK(native) /\ native.initialized
    BY <1>1 DEF StreamInv, NativeOK
  <1>3. CASE native' = [native EXCEPT !.open = FALSE] /\ UNCHANGED call
    BY <1>1, <1>2, <1>3, CloseKeeps
  <1>4. ASSUME NEW size \in Blocks,
               native' = [fifo_put(native, [i \in 1..size |->
                                              Word(native.pos + i - 1)])
                            EXCEPT !.pos = Word(@ + size)],
               call' = [call EXCEPT !.made = @ + size]
        PROVE  /\ NativeOK(native') /\ SameTrack(native, native')
               /\ SameState(native, native') /\ native'.played = native.played
               /\ size \in Nat
               /\ call' \in CallT
               /\ native'.open
               /\ native'.pos = Word(native.pos + size)
               /\ ~call.seeking =>
                    /\ Len(native'.fifo) = Len(native.fifo) + size
                    /\ \A i \in 1..Len(native.fifo) :
                         native'.fifo[i] = native.fifo[i]
                    /\ \A i \in 1..size :
                         native'.fifo[Len(native.fifo) + i] =
                             Word(native.pos + i - 1)
    <2> DEFINE block == Run(native.pos, size)
               w == Word(native.pos + size)
    <2>1. size \in Nat /\ size <= Buf + 1
      BY StreamAssumption
    <2>2. w \in Words
      BY <1>2, <2>1, EndIsWord, WordIsWord
    <2>3. fifo_put(native, block).pos = native.pos
      BY <1>2 DEF fifo_put, NativeOK, NativeT
    <2>4. native' = [fifo_put(native, block) EXCEPT !.pos = w]
      <3>1. native' = [fifo_put(native, block) EXCEPT
                         !.pos = Word(fifo_put(native, block).pos + size)]
        BY <1>4, Zenon DEF Run
      <3> QED
        BY <2>3, <3>1
    <2>0. /\ block \in Samples /\ Len(block) = size
          /\ \A i \in 1..size : block[i] = Word(native.pos + i - 1)
      <3>1. native.pos \in Int
        BY <1>2, EndIsWord
      <3> QED
        BY <2>1, <3>1, RunIsSamples
    <2>5. /\ NativeOK(native') /\ SameTrack(native, native')
          /\ SameState(native, native') /\ native'.played = native.played
          /\ native'.open = native.open /\ native'.pos = w
          /\ Len(native.fifo) + size <= 2 * Buf =>
               /\ Len(native'.fifo) = Len(native.fifo) + size
               /\ \A i \in 1..Len(native.fifo) :
                    native'.fifo[i] = native.fifo[i]
               /\ \A i \in 1..size :
                    native'.fifo[Len(native.fifo) + i] =
                        Word(native.pos + i - 1)
      <3> HIDE DEF block, w
      <3>1. /\ NativeOK(native') /\ SameTrack(native, native')
            /\ SameState(native, native') /\ native'.played = native.played
            /\ native'.open = native.open /\ native'.pos = w
            /\ Fits(native.fifo, block) =>
                 Joined(native.fifo, block, native'.fifo)
        <4>1. block \in Samples /\ native.lib = "psf" /\ NativeOK(native)
          BY <1>1, <1>2, <2>0
        <4>2. NativeOK(native') /\ SameTrack(native, native')
          BY <2>2, <2>4, <4>1, PutKeeps
        <4>3. SameState(native, native')
          BY <2>2, <2>4, <4>1, PutKeeps
        <4>4. native'.played = native.played
          BY <2>4, <4>1 DEF fifo_put, NativeOK, NativeT
        <4>5. native'.open = native.open
          BY <2>4, <4>1 DEF fifo_put, NativeOK, NativeT
        <4>6. native'.pos = w
          BY <2>2, <2>4, <4>1, PutKeeps
        <4>7. Fits(native.fifo, block) =>
                 Joined(native.fifo, block, native'.fifo)
          BY <2>2, <2>4, <4>1, PutKeeps
        <4> QED
          BY <4>2, <4>3, <4>4, <4>5, <4>6, <4>7
      <3> QED
        BY <2>0, <3>1 DEF Joined, Fits
    <2>6. call \in CallT /\ call.made \in Nat /\ call.want \in 0..Buf
      BY DEF StreamInv, CallT
    <2>7. call' \in CallT
      <3> DEFINE made == call.made + size
      <3>1. made \in Nat /\ call' = [call EXCEPT !.made = made]
        BY <1>4, <2>1, <2>6
      <3> HIDE DEF made
      <3> QED
        BY <2>6, <3>1 DEF CallT
    <2>8. ~call.seeking => Len(native.fifo) + size <= 2 * Buf
      <3>1. ASSUME ~call.seeking PROVE Len(native.fifo) = call.made
        <4>1. ReadOK(native, call)
          BY <1>1, <3>1 DEF StreamInv, CallOK
        <4> QED
          BY <1>1, <2>6, <4>1 DEF ReadOK
      <3> QED
        BY <1>1, <2>1, <2>6, <3>1, SizeFacts
    <2> HIDE DEF block
    <2> QED
      BY <1>1, <2>1, <2>5, <2>7, <2>8
  <1> QED
    BY <1>1, <1>2, <1>3, <1>4 DEF Execute

LEMMA ExecuteStream ==
    ASSUME StreamInv, Execute
    PROVE  StreamInv'
  <1>1. CallOK(native, call, "generate")
    BY ExecuteFacts DEF StreamInv
  <1>2. call' \in CallT /\ CallOK(native', call', "generate")
    <2>1. CASE call' = call /\ native'.fifo = native.fifo
      <3>1. ~call.seeking => ReadOK(native', call')
        BY <1>1, <2>1, ExecuteFacts
           DEF CallOK, ReadOK, SameTrack, SameState, End
      <3>2. call.seeking => /\ SeekOK(native', call')
                            /\ call'.want <= call'.remaining
        BY <1>1, <2>1, ExecuteFacts DEF CallOK, SeekOK
      <3> QED
        BY <2>1, <3>1, <3>2 DEF CallOK, StreamInv
    <2>2. ASSUME NEW size \in Nat, call' \in CallT,
                 call' = [call EXCEPT !.made = @ + size],
                 ~call.seeking => Len(native'.fifo) = Len(native.fifo) + size
          PROVE  CallOK(native', call', "generate")
      <3>1. /\ call'.made = call.made + size /\ call'.held = call.held
            /\ call'.want = call.want /\ call'.toRead = call.toRead
            /\ call'.remaining = call.remaining /\ call'.target = call.target
            /\ call'.seeking = call.seeking /\ call.made \in Nat
        BY <2>2 DEF StreamInv, CallT
      <3>2. ~call.seeking => ReadOK(native', call')
        <4> SUFFICES ASSUME ~call.seeking PROVE ReadOK(native', call')
          OBVIOUS
        <4>1. ReadOK(native, call)
          BY <1>1 DEF CallOK
        <4>2. /\ native'.rate # 0
              /\ call'.toRead = Min({Word(End(native') - native'.played), Buf})
              /\ native'.initialized /\ native'.lib = "psf"
          BY <3>1, <4>1, ExecuteFacts DEF ReadOK, SameTrack, SameState, End
        <4>3. /\ Len(call'.held) + call'.want = Buf
              /\ call'.want > 0 => Len(native'.fifo) = call'.made
          BY <2>2, <3>1, <4>1, ExecuteFacts DEF ReadOK
        <4> QED
          BY <4>2, <4>3 DEF ReadOK
      <3>3. call.seeking => /\ SeekOK(native', call')
                            /\ call'.want <= call'.remaining
        BY <1>1, <3>1, ExecuteFacts DEF CallOK, SeekOK
      <3> QED
        BY <3>1, <3>2, <3>3 DEF CallOK
    <2> QED
      BY <2>1, <2>2, ExecuteFacts DEF StreamInv
  <1> QED
    BY <1>2, ExecuteFacts DEF StreamInv

(***************************************************************************)
(* The USF emulator renders a whole buffer, which the call then holds.     *)
(***************************************************************************)
LEMMA RenderFacts ==
    ASSUME StreamInv, usf_Render
    PROVE  /\ NativeOK(native') /\ SameTrack(native, native')
           /\ native'.initialized = native.initialized
           /\ native'.open = native.open
           /\ native'.played = native.played /\ native'.fifo = native.fifo
           /\ native.lib = "usf" /\ pc = "generate" /\ Alive
           /\ call.made < call.want
           /\ UNCHANGED <<out, pc, mine, queued, state, hist>>
           /\ \/ ~Alive' /\ ~native.open /\ call' = call
              \/ /\ native.open /\ native.buf = Buf
                 /\ native'.pos = Word(native.pos + Buf)
                 /\ native'.fault = native.fault
                 /\ call' \in CallT
                 /\ call'.made = call.want /\ call'.want = call.want
                 /\ call'.held = Run(native.pos, Buf)
                 /\ call'.toRead = call.toRead
                 /\ call'.remaining = call.remaining
                 /\ call'.target = call.target
                 /\ call'.seeking = call.seeking
  <1>1. /\ native.lib = "usf" /\ pc = "generate" /\ Alive
        /\ call.made < call.want
        /\ UNCHANGED <<out, pc, mine, queued, state, hist>>
    BY DEF usf_Render, At
  <1>2. NativeOK(native) /\ call \in CallT
    BY DEF StreamInv
  <1>3. CASE ~native.open
    <2>1. native' = [native EXCEPT !.fault = "unallocated"] /\ call' = call
      BY <1>3 DEF usf_Render
    <2>2. /\ NativeOK(native') /\ SameTrack(native, native')
          /\ native'.initialized = native.initialized
          /\ native'.fault = "unallocated"
          /\ native'.played = native.played /\ native'.fifo = native.fifo
          /\ native'.open = native.open
      BY <1>2, <2>1, FaultKeeps
    <2> QED
      BY <1>1, <1>3, <2>1, <2>2 DEF Alive
  <1>4. CASE native.open
    <2>1. native.buf = Buf
      BY <1>2, <1>4 DEF NativeOK
    <2> DEFINE w == Word(native.pos + Buf)
               run == Run(native.pos, Buf)
               made == call.want
    <2>2. /\ native' = [native EXCEPT !.pos = w]
          /\ call' = [call EXCEPT !.made = made, !.held = run]
      BY <1>4, <2>1 DEF usf_Render, Run
    <2>3. w \in Words /\ run \in Samples /\ made \in Nat
      <3>1. native.pos \in Int /\ Buf \in Nat
        BY <1>2, EndIsWord, SizeFacts
      <3>2. native.pos + Buf \in Int
        BY <3>1
      <3>3. made \in 0..Buf
        BY <1>2 DEF CallT
      <3>4. w \in Words
        BY <3>2, WordIsWord
      <3>5. run \in Samples
        BY <3>1, RunIsSamples
      <3>6. made \in Nat
        BY <3>1, <3>3
      <3> QED
        BY <3>4, <3>5, <3>6
    <2> HIDE DEF w, run, made
    <2>4. /\ NativeOK(native') /\ SameTrack(native, native')
          /\ SameState(native, native')
          /\ native'.played = native.played /\ native'.fifo = native.fifo
          /\ native'.open = native.open /\ native'.pos = w
      BY <1>2, <2>2, <2>3, PosKeeps
    <2>5. /\ call' \in CallT /\ call'.made = made /\ call'.held = run
          /\ call'.want = call.want /\ call'.toRead = call.toRead
          /\ call'.remaining = call.remaining
          /\ call'.target = call.target /\ call'.seeking = call.seeking
      BY <1>2, <2>2, <2>3 DEF CallT
    <2> QED
      BY <1>1, <1>4, <2>1, <2>4, <2>5 DEF w, run, made, SameState
  <1> QED
    BY <1>3, <1>4

LEMMA RenderStream ==
    ASSUME StreamInv, usf_Render
    PROVE  StreamInv'
  <1>1. ASSUME Alive'
        PROVE  CallOK(native', call', "generate")
    <2>1. /\ CallOK(native, call, "generate")
          /\ native.open /\ native.initialized /\ call'.made = call.want
          /\ call'.want = call.want /\ call'.toRead = call.toRead
          /\ call'.held = Run(native.pos, Buf)
          /\ call'.remaining = call.remaining
          /\ call'.target = call.target /\ call'.seeking = call.seeking
      BY <1>1, RenderFacts DEF StreamInv, NativeOK
    <2>2. CASE ~call.seeking
      <3>1. ReadOK(native, call)
        BY <2>1, <2>2 DEF CallOK
      <3>2. Len(call'.held) = Buf /\ call'.want = Buf /\ call'.made = Buf
        <4>1. native.pos \in Int /\ Buf \in Nat
          BY EndIsWord, SizeFacts DEF StreamInv
        <4>2. Len(Run(native.pos, Buf)) = Buf
          BY <4>1, RunIsSamples
        <4> QED
          BY <2>1, <3>1, <4>2, RenderFacts DEF ReadOK
      <3>3. /\ native'.rate = native.rate /\ native'.lib = "usf"
            /\ native'.initialized /\ End(native') = End(native)
            /\ native'.played = native.played
        BY <2>1, RenderFacts DEF SameTrack, End
      <3>4. ReadOK(native', call')
        BY <2>1, <3>1, <3>2, <3>3 DEF ReadOK
      <3> QED
        BY <2>1, <2>2, <3>4 DEF CallOK
    <2>3. CASE call.seeking
      <3>1. SeekOK(native, call) /\ call.want <= call.remaining
        BY <2>1, <2>3 DEF CallOK
      <3> QED
        BY <2>1, <2>3, <3>1, RenderFacts DEF CallOK, SeekOK
    <2> QED
      BY <2>2, <2>3
  <1>2. call' \in CallT
    BY RenderFacts DEF StreamInv
  <1> QED
    BY <1>1, <1>2, RenderFacts DEF StreamInv

\* The emulator reports an error; a seek counts the buffer all the same.
LEMMA RenderFailsFacts ==
    ASSUME StreamInv, usf_RenderFails
    PROVE  /\ NativeOK(native') /\ SameTrack(native, native')
           /\ SameState(native, native') /\ native'.open = native.open
           /\ native'.played = native.played /\ native'.pos = native.pos
           /\ native'.fifo = native.fifo
           /\ UNCHANGED <<out, mine, queued, state, hist>>
           /\ native.lib = "usf" /\ pc = "generate" /\ Alive
           /\ \/ ~call.seeking /\ call' = NoCall /\ pc' = "stamp"
              \/ /\ call.seeking /\ pc' = pc /\ call' \in CallT
                 /\ call' = [call EXCEPT !.made = call.want]
  <1>1. /\ native' = [native EXCEPT !.error = "render"]
        /\ call' = IF call.seeking THEN [call EXCEPT !.made = call.want]
                   ELSE NoCall
        /\ pc' = IF call.seeking THEN pc ELSE "stamp"
        /\ native.lib = "usf" /\ pc = "generate" /\ Alive
        /\ UNCHANGED <<out, mine, queued, state, hist>>
    BY DEF usf_RenderFails, At
  <1>2. call.want \in Nat /\ call \in CallT
    BY SizeFacts DEF StreamInv, CallT
  <1>3. [call EXCEPT !.made = call.want] \in CallT
    BY <1>2 DEF CallT
  <1>4. /\ NativeOK(native') /\ SameTrack(native, native')
        /\ SameState(native, native') /\ native'.open = native.open
        /\ native'.played = native.played /\ native'.pos = native.pos
        /\ native'.fifo = native.fifo
    BY <1>1, ErrorKeeps DEF StreamInv
  <1> QED
    BY <1>1, <1>3, <1>4

LEMMA RenderFailsStream ==
    ASSUME StreamInv, usf_RenderFails
    PROVE  StreamInv'
  <1>1. CASE ~call.seeking /\ call' = NoCall /\ pc' = "stamp"
    BY <1>1, RenderFailsFacts, NoCallType DEF StreamInv, Pcs, CallOK
  <1>2. CASE call.seeking /\ pc' = pc /\ call' \in CallT
             /\ call' = [call EXCEPT !.made = call.want]
    <2>1. SeekOK(native, call) /\ call.want <= call.remaining
      BY <1>2, RenderFailsFacts DEF StreamInv, CallOK
    <2>2. /\ call'.want = call.want /\ call'.remaining = call.remaining
          /\ call'.target = call.target /\ call'.seeking
      BY <1>2 DEF StreamInv, CallT
    <2>3. CallOK(native', call', pc')
      BY <1>2, <2>1, <2>2, RenderFailsFacts DEF CallOK, SeekOK
    <2> QED
      BY <1>2, <2>3, RenderFailsFacts DEF StreamInv
  <1> QED
    BY <1>1, <1>2, RenderFailsFacts

(***************************************************************************)
(* The end of a read.  What the call holds and what it takes from the FIFO *)
(* make a buffer; the clock advances by what was before the end of track.  *)
(***************************************************************************)
LEMMA FadeIsSamples ==
    ASSUME NEW n, NativeOK(n), n.buf = Buf
    PROVE  /\ processFadeOut(n) \in Samples /\ Len(processFadeOut(n)) = Buf
           /\ \A i \in 1..Buf :
                processFadeOut(n)[i] =
                  IF n.played < n.fadeStart THEN n.fadeLen
                  ELSE Word(End(n) - (n.played + i - 1))
  <1> DEFINE g(i) == IF n.played < n.fadeStart THEN n.fadeLen
                     ELSE Word(End(n) - (n.played + i - 1))
  <1>1. /\ n.fadeStart \in Nat /\ n.fadeLen \in Nat /\ n.played \in Nat
        /\ End(n) \in Nat /\ n.fadeLen \in Words
    BY EndIsWord DEF NativeOK, NativeT
  <1>2. ASSUME NEW i \in 1..Buf
        PROVE  /\ g(i) \in Words
               /\ g(i) = IF n.played < n.fadeStart THEN n.fadeLen
                         ELSE Word(n.fadeStart + n.fadeLen
                                     - (n.played + i - 1))
    <2>1. /\ End(n) - (n.played + i - 1) \in Int
          /\ n.fadeStart + n.fadeLen - (n.played + i - 1)
               = End(n) - (n.played + i - 1)
      BY <1>1, SizeFacts DEF End
    <2>2. Word(End(n) - (n.played + i - 1)) \in Words
      <3> DEFINE d == End(n) - (n.played + i - 1)
      <3>1. d \in Int
        BY <2>1
      <3> HIDE DEF d
      <3>2. Word(d) \in Words
        BY <3>1, WordIsWord
      <3> QED
        BY <3>2 DEF d
    <2> QED
      BY <1>1, <2>1, <2>2
  <1>3. processFadeOut(n) = [i \in 1..Buf |-> g(i)]
    BY <1>2 DEF processFadeOut
  <1> HIDE DEF g
  <1>4. /\ processFadeOut(n) \in Samples /\ Len(processFadeOut(n)) = Buf
        /\ \A i \in 1..Buf : processFadeOut(n)[i] = g(i)
    BY <1>2, <1>3, SizeFacts DEF Samples
  <1> QED
    BY <1>4 DEF g

LEMMA ReadFinishFacts ==
    ASSUME StreamInv, ReadFinish
    PROVE  /\ native.initialized /\ native.buf = Buf /\ Alive
           /\ pc = "generate" /\ ~call.seeking /\ call.made >= call.want
           /\ NativeOK(native') /\ SameTrack(native, native')
           /\ SameState(native, native') /\ native'.open = native.open
           /\ native'.pos = native.pos
           /\ call.toRead = Min({Word(End(native) - native.played), Buf})
           /\ native'.played = Word(native.played + call.toRead)
           /\ out'.start = native.played /\ out'.gain = processFadeOut(native)
           /\ out'.data \in Samples /\ Len(out'.data) = Buf
           /\ Len(call.held) \in Nat
           /\ \E k \in Nat :
                /\ Len(call.held) + k = Buf /\ k <= Len(native.fifo)
                /\ \A i \in 1..Buf :
                     out'.data[i] = IF i <= Len(call.held) THEN call.held[i]
                                    ELSE native.fifo[i - Len(call.held)]
                /\ Len(native'.fifo) = Len(native.fifo) - k
                /\ \A i \in 1..Len(native'.fifo) :
                     native'.fifo[i] = native.fifo[k + i]
           /\ pc' = "stamp" /\ call' = NoCall
           /\ UNCHANGED <<mine, queued, state, hist>>
  <1>1. /\ pc = "generate" /\ Alive /\ ~call.seeking
        /\ call.made >= call.want
        /\ pc' = "stamp" /\ call' = NoCall
        /\ UNCHANGED <<mine, queued, state, hist>>
    BY DEF ReadFinish, At, Generated
  <1>2. /\ NativeOK(native) /\ call \in CallT /\ ReadOK(native, call)
        /\ call.want \in Nat /\ call.made \in Nat /\ call.held \in Samples
        /\ Len(call.held) \in Nat
    BY <1>1, SizeFacts, LenProperties DEF StreamInv, CallOK, CallT, Samples
  <1>3. native.initialized /\ native.buf = Buf
    BY <1>1, <1>2 DEF ReadOK, NativeOK
  <1> DEFINE l == Len(native.fifo)
             k == IF call.want <= l THEN call.want ELSE l
             left == fifo_peek(native, call.want)
             got == fifo_get(native, call.want)
             played == Word(native.played + call.toRead)
  <1>4. l \in Nat /\ k \in Nat /\ k <= l
    BY <1>2, LenProperties DEF NativeOK, NativeT, Samples
  <1>5. Len(call.held) + k = Buf
    <2>1. CASE native.lib = "psf"
      BY <1>1, <1>2, <1>4, <2>1 DEF ReadOK
    <2>2. CASE native.lib = "usf"
      <3>1. l = 0 /\ call.want = Buf /\ Len(call.held) = call.made
            /\ call.made \in {0, Buf}
        BY <1>2, <2>2 DEF ReadOK, NativeOK
      <3> QED
        BY <1>1, <1>4, <3>1, SizeFacts
    <2>3. native.lib \in {"psf", "usf"}
      BY <1>2, StreamAssumption DEF NativeOK, NativeT
    <2> QED
      BY <2>1, <2>2, <2>3
  <1>6. /\ NativeOK(got) /\ SameTrack(native, got) /\ SameState(native, got)
        /\ got.played = native.played /\ got.open = native.open
        /\ got.pos = native.pos
        /\ Len(got.fifo) = l - k
        /\ \A i \in 1..Len(got.fifo) : got.fifo[i] = native.fifo[k + i]
        /\ left \in Samples /\ Len(left) = k
        /\ \A i \in 1..k : left[i] = native.fifo[i]
    BY <1>2, GetKeeps
  <1>7. played \in Words
    <2>1. native.played \in Nat /\ call.toRead \in Nat
      BY <1>2, EndIsWord, SizeFacts DEF CallT
    <2>2. native.played + call.toRead \in Int
      BY <2>1
    <2> QED
      BY <2>2, WordIsWord
  <1>8. native' = [got EXCEPT !.played = played]
    <2>1. native' = [got EXCEPT !.played = Word(got.played + call.toRead)]
      BY Zenon DEF ReadFinish
    <2> HIDE DEF got
    <2> QED
      BY <1>6, <2>1
  <1>9. out' = [start |-> native.played, data |-> call.held \o left,
                gain |-> processFadeOut(native)]
    BY DEF ReadFinish
  <1> HIDE DEF got, left, played, k, l
  <1>10. /\ NativeOK(native') /\ SameTrack(got, native')
         /\ SameState(got, native') /\ native'.played = played
         /\ native'.fifo = got.fifo /\ native'.open = got.open
         /\ native'.pos = got.pos
    BY <1>6, <1>7, <1>8, PlayedKeeps
  <1>11. /\ SameTrack(native, native') /\ SameState(native, native')
         /\ native'.open = native.open /\ native'.pos = native.pos
         /\ Len(native'.fifo) = l - k
         /\ \A i \in 1..Len(native'.fifo) : native'.fifo[i] = native.fifo[k + i]
    BY <1>6, <1>10 DEF SameTrack, SameState
  <1>12. /\ call.held \o left \in Samples
         /\ Len(call.held \o left) = Buf
         /\ \A i \in 1..Buf :
              (call.held \o left)[i] = IF i <= Len(call.held) THEN call.held[i]
                                       ELSE native.fifo[i - Len(call.held)]
    <2> DEFINE d == call.held \o left
               h == Len(call.held)
    <2>1. /\ d \in Samples /\ Len(d) = h + k
          /\ \A i \in 1..(h + k) :
               d[i] = IF i <= h THEN call.held[i] ELSE left[i - h]
      BY <1>2, <1>6, JoinedSamples
    <2> HIDE DEF d
    <2>2. h \in Nat /\ h + k = Buf
      BY <1>2, <1>5
    <2> HIDE DEF h
    <2>3. \A i \in 1..Buf : ~(i <= h) => i - h \in 1..k
      BY <1>4, <2>2
    <2>4. \A i \in 1..Buf : d[i] = IF i <= h THEN call.held[i]
                                   ELSE native.fifo[i - h]
      BY <1>6, <2>1, <2>2, <2>3
    <2> QED
      BY <2>1, <2>2, <2>4 DEF d, h
  <1>13. out'.start = native.played /\ out'.gain = processFadeOut(native)
         /\ out'.data = call.held \o left
    BY <1>9
  <1>14. call.toRead = Min({Word(End(native) - native.played), Buf})
    BY <1>2 DEF ReadOK
  <1> HIDE DEF End
  <1> QED
    BY <1>1, <1>2, <1>3, <1>4, <1>5, <1>10, <1>11, <1>12, <1>13, <1>14
       DEF l, played

LEMMA ReadFinishStream ==
    ASSUME StreamInv, ReadFinish
    PROVE  StreamInv'
  <1>1. /\ NativeOK(native') /\ native.buf = Buf /\ NativeOK(native)
        /\ out'.start = native.played /\ out'.gain = processFadeOut(native)
        /\ out'.data \in Samples /\ pc' = "stamp" /\ call' = NoCall
        /\ UNCHANGED <<mine, queued, state, hist>>
    BY ReadFinishFacts DEF StreamInv
  <1>2. out'.start \in Words /\ {out'.data, out'.gain} \subseteq Samples
    BY <1>1, FadeIsSamples DEF NativeOK, NativeT
  <1> QED
    BY <1>1, <1>2, NoCallType DEF StreamInv, Pcs, CallOK

-----------------------------------------------------------------------------
LEMMA InitStream == ASSUME Init PROVE StreamInv
  <1>1. PICK lib \in Libraries :
          native = [lib |-> lib, open |-> FALSE, pos |-> 0,
                    initialized |-> FALSE, rate |-> 0, lengthMs |-> 0,
                    fadeStart |-> 0, fadeLen |-> 0, buf |-> 0, played |-> 0,
                    error |-> "none", fifo |-> << >>, mem |-> "null",
                    fault |-> "none"]
    BY DEF Init
  <1> DEFINE zero == 0
             none == << >>
  <1>2. /\ zero \in Words /\ none \in Samples /\ Len(none) = 0
        /\ 0 <= 2 * Buf /\ 2 * zero < M
    BY SmallIsWord, WordRange, SizeFacts DEF Samples
  <1>3. zero = 0 /\ none = << >>
    OBVIOUS
  <1> HIDE DEF zero, none
  <1>4. native = [lib |-> lib, open |-> FALSE, pos |-> zero,
                  initialized |-> FALSE, rate |-> 0, lengthMs |-> zero,
                  fadeStart |-> zero, fadeLen |-> zero, buf |-> 0,
                  played |-> zero, error |-> "none", fifo |-> none,
                  mem |-> "null", fault |-> "none"]
    BY <1>1, <1>3
  <1>5. native \in NativeT
    BY <1>2, <1>4 DEF NativeT
  <1>6. /\ ~native.open /\ ~native.initialized /\ native.rate = 0
        /\ native.fifo = none /\ native.fadeStart = zero
        /\ native.fadeLen = zero
    BY <1>4
  <1>7. NativeOK(native)
    BY <1>2, <1>3, <1>5, <1>6 DEF NativeOK
  <1>8. /\ out = Silence /\ pc = "exited" /\ call = NoCall /\ mine = FALSE
        /\ queued = FALSE /\ state = "stopped"
        /\ hist = [seeked |-> FALSE, disturbed |-> FALSE]
    BY DEF Init
  <1> QED
    BY <1>7, <1>8, SilenceType, NoCallType DEF StreamInv, Pcs, CallOK

LEMMA NextStream ==
    ASSUME StreamInv, [Next]_vars
    PROVE  StreamInv'
  <1>1. CASE UNCHANGED vars
    BY <1>1 DEF vars, StreamInv, CallOK, Alive
  <1>2. CASE Start \/ Resume \/ Skip \/ Pause
    BY <1>2, ListenerKeeps
  <1>3. CASE Stop
    BY <1>3, StopStream
  <1>4. CASE LoopEnds \/ LoadOther
    BY <1>4, LoopStream
  <1>5. CASE LoadTrack
    BY <1>5, LoadTrackStream
  <1>6. CASE Seek
    BY <1>6, SeekStream
  <1>7. CASE SeekBlock \/ SeekDone
    BY <1>7, SeekBlockStream
  <1>8. CASE SeekAdvance
    BY <1>8, SeekAdvanceStream
  <1>9. CASE CheckOver
    BY <1>9, CheckOverStream
  <1>10. CASE Stamp
    BY <1>10, StampStream
  <1>11. CASE ReadRefused \/ ReadNoArray \/ ReadCut
    BY <1>11, RefusedStream
  <1>12. CASE ReadLeftOver
    BY <1>12, ReadLeftOverStream
  <1>13. CASE Execute
    BY <1>13, ExecuteStream
  <1>14. CASE usf_Render
    BY <1>14, RenderStream
  <1>15. CASE usf_RenderFails
    BY <1>15, RenderFailsStream
  <1>16. CASE ReadFinish
    BY <1>16, ReadFinishStream
  <1> QED
    BY <1>1, <1>2, <1>3, <1>4, <1>5, <1>6, <1>7, <1>8, <1>9, <1>10, <1>11,
       <1>12, <1>13, <1>14, <1>15, <1>16 DEF Next, ReaderStep

LEMMA StreamInvType == StreamInv => TypeOK
  <1> SUFFICES ASSUME StreamInv PROVE TypeOK
    OBVIOUS
  <1>1. native \in NativeT /\ Len(native.fifo) <= 2 * Buf /\ call \in CallT
    BY DEF StreamInv, NativeOK
  <1> QED
    BY <1>1 DEF StreamInv, TypeOK, NativeT, CallT

(***************************************************************************)
(* The globals, the buffers and the locals of a native call stay in their  *)
(* types; the FIFO never holds more than two buffers, and the end of the   *)
(* track, the sum of two words, never wraps.                               *)
(***************************************************************************)
THEOREM StreamTypeCorrect == Spec => []TypeOK
  <1>1. Init => StreamInv
    BY InitStream
  <1>2. StreamInv /\ [Next]_vars => StreamInv'
    BY NextStream
  <1> QED
    BY <1>1, <1>2, StreamInvType, PTL DEF Spec

-----------------------------------------------------------------------------
(***************************************************************************)
(* The fade.  As long as the track it belongs to is loaded, the last       *)
(* buffer, up to the end of the track, is behind the clock, and each gain  *)
(* is that of its position in the track.                                   *)
(***************************************************************************)
GainAt(n, start, i) ==
    IF start < n.fadeStart THEN n.fadeLen ELSE End(n) - (start + i - 1)

FadeOK(n, o) ==
    \A i \in 1..Len(o.gain) :
        o.start + i - 1 < End(n) =>
            o.start + i - 1 < n.played /\ o.gain[i] = GainAt(n, o.start, i)

FadeInv == native.initialized => FadeOK(native, out)

\* A step that is not the end of a read leaves the buffer or clears it, and
\* the clock never runs back under a buffer that stays.
ClockKept(n, m) ==
    /\ SameTrack(n, m) /\ n.played <= m.played
    /\ m.initialized => n.initialized

Rests == \/ out' = Silence
         \/ out' = out /\ (~native'.initialized \/ ClockKept(native, native'))

LEMMA KeptFromSame ==
    ASSUME NEW n, NEW m, NativeOK(n), SameTrack(n, m),
           m.initialized = n.initialized, m.played = n.played
    PROVE  ClockKept(n, m)
  <1>1. n.played \in Nat
    BY EndIsWord
  <1> QED
    BY <1>1 DEF ClockKept

LEMMA UnchangedIsKept ==
    ASSUME NativeOK(native), UNCHANGED native
    PROVE  ClockKept(native, native')
  <1>1. SameTrack(native, native')
    BY DEF SameTrack
  <1>2. native.played \in Nat
    BY EndIsWord
  <1> QED
    BY <1>1, <1>2 DEF ClockKept

LEMMA StepRests ==
    ASSUME StreamInv, [Next]_vars, ~ReadFinish
    PROVE  Rests
  <1>0. NativeOK(native)
    BY DEF StreamInv
  <1> USE <1>0
  <1>1. CASE UNCHANGED <<native, out>>
    BY <1>1, UnchangedIsKept DEF Rests
  <1>2. CASE Stop
    <2>1. stop /\ out' = out
      BY <1>2 DEF Stop
    <2> QED
      BY <2>1, StopKeeps, UnchangedIsKept DEF Rests
  <1>3. CASE LoadOther
    <2>1. CASE mine
      <3>1. native' = teardownInternal(native) /\ out' = out
        BY <1>3, <2>1 DEF LoadOther
      <3> QED
        BY <3>1, TeardownKeeps DEF Rests
    <2>2. CASE ~mine
      BY <1>1, <1>3, <2>2 DEF LoadOther
    <2> QED
      BY <2>1, <2>2
  <1>4. CASE LoadTrack
    BY <1>4 DEF LoadTrack, Rests
  <1>5. CASE Seek
    <2>1. UNCHANGED <<native, out>> \/ out' = Silence
      BY <1>5, SeekFacts
    <2> QED
      BY <1>1, <2>1 DEF Rests
  <1>6. CASE SeekAdvance
    BY <1>6, SeekAdvanceFacts DEF Rests, ClockKept, SameState
  <1>7. CASE CheckOver
    <2>1. out' = out
      BY <1>7 DEF CheckOver
    <2>2. CASE stop
      BY <2>1, <2>2, StopKeeps, UnchangedIsKept DEF Rests
    <2>3. CASE UNCHANGED native
      BY <1>1, <2>1, <2>3
    <2>4. CASE DivideTraps(native)
      <3>1. native' = [native EXCEPT !.fault = "divide"]
        BY <2>4 DEF DivideTraps
      <3>2. /\ SameTrack(native, native')
            /\ native'.initialized = native.initialized
            /\ native'.played = native.played
        BY <3>1, FaultKeeps
      <3> QED
        BY <2>1, <3>2, KeptFromSame DEF Rests
    <2> QED
      BY <1>7, <2>2, <2>3, <2>4 DEF CheckOver
  <1>8. CASE Stamp
    <2>1. out' = out
      BY <1>8 DEF Stamp
    <2>2. CASE UNCHANGED native
      BY <1>1, <2>1, <2>2
    <2>3. CASE DivideTraps(native)
      <3>1. native' = [native EXCEPT !.fault = "divide"]
        BY <2>3 DEF DivideTraps
      <3>2. /\ SameTrack(native, native')
            /\ native'.initialized = native.initialized
            /\ native'.played = native.played
        BY <3>1, FaultKeeps
      <3> QED
        BY <2>1, <3>2, KeptFromSame DEF Rests
    <2> QED
      BY <1>8, <2>2, <2>3 DEF Stamp
  <1>9. CASE ReadRefused \/ ReadNoArray
    <2>1. PICK e \in {"init", "array"} : native' = [native EXCEPT !.error = e]
      BY <1>9 DEF ReadRefused, ReadNoArray
    <2>2. /\ SameTrack(native, native') /\ SameState(native, native')
          /\ native'.played = native.played
      BY <2>1, ErrorKeeps
    <2>3. out' = out
      BY <1>9 DEF ReadRefused, ReadNoArray
    <2> QED
      BY <2>2, <2>3, KeptFromSame DEF Rests, SameState
  <1>10. CASE ReadLeftOver
    <2>1. out' = out
      BY <1>10 DEF ReadLeftOver
    <2> QED
      BY <1>10, <2>1, ReadLeftOverFacts, KeptFromSame DEF Rests
  <1>11. CASE Execute
    BY <1>11, ExecuteFacts, KeptFromSame DEF Rests, SameState
  <1>12. CASE usf_Render
    BY <1>12, RenderFacts, KeptFromSame DEF Rests
  <1>13. CASE usf_RenderFails
    BY <1>13, RenderFailsFacts, KeptFromSame DEF Rests, SameState
  <1>14. CASE UNCHANGED vars \/ Start \/ Resume \/ Skip \/ Pause \/ LoopEnds
              \/ SeekBlock \/ SeekDone \/ ReadCut
    <2>1. UNCHANGED <<native, out>>
      BY <1>14 DEF vars, Start, Resume, Skip, Pause, LoopEnds, SeekBlock,
                   SeekDone, ReadCut
    <2> QED
      BY <1>1, <2>1
  <1> QED
    BY <1>2, <1>3, <1>4, <1>5, <1>6, <1>7, <1>8, <1>9, <1>10, <1>11, <1>12,
       <1>13, <1>14 DEF Next, ReaderStep

LEMMA FadeKept ==
    ASSUME StreamInv, FadeInv, Rests, NativeOK(native')
    PROVE  FadeInv'
  <1> SUFFICES ASSUME native'.initialized PROVE FadeOK(native', out')
    BY DEF FadeInv
  <1>1. CASE out' = Silence
    <2>1. Len(out'.gain) = 0
      BY <1>1 DEF Silence
    <2> QED
      BY <2>1 DEF FadeOK
  <1>2. CASE out' = out /\ ClockKept(native, native')
    <2>1. FadeOK(native, out)
      BY <1>2 DEF FadeInv, ClockKept
    <2>2. /\ native'.fadeStart = native.fadeStart
          /\ native'.fadeLen = native.fadeLen /\ End(native') = End(native)
          /\ native.played <= native'.played
          /\ native.played \in Nat /\ native'.played \in Nat
      BY <1>2, EndIsWord DEF ClockKept, SameTrack, End, StreamInv
    <2>3. /\ out'.gain = out.gain /\ out'.start = out.start
          /\ out.start \in Nat
      BY <1>2, WordOfWord DEF StreamInv
    <2>4. ASSUME NEW i \in 1..Len(out.gain), out.start + i - 1 < End(native)
          PROVE  /\ out.start + i - 1 < native'.played
                 /\ out.gain[i] = GainAt(native', out.start, i)
      <3>1. /\ out.start + i - 1 < native.played
            /\ out.gain[i] = GainAt(native, out.start, i)
        BY <2>1, <2>4 DEF FadeOK
      <3>2. GainAt(native', out.start, i) = GainAt(native, out.start, i)
        BY <2>2 DEF GainAt
      <3>3. out.start + i - 1 \in Int
        BY <2>3
      <3> QED
        BY <2>2, <3>1, <3>2, <3>3
    <2> QED
      BY <2>2, <2>3, <2>4 DEF FadeOK
  <1> QED
    BY <1>1, <1>2 DEF Rests

\* The end of a read, up to the end of the track: the gain does not wrap, and
\* the clock passes over what was filled.
LEMMA ReadFinishFade ==
    ASSUME StreamInv, ReadFinish
    PROVE  /\ FadeOK(native', out') /\ Len(out'.gain) = Buf
           /\ native.played <= End(native) =>
                /\ native'.played <= End(native)
                /\ \/ native'.played = End(native)
                   \/ native'.played = native.played + Buf
  <1> DEFINE p == native.played
             e == End(native)
             r == call.toRead
             g == processFadeOut(native)
  <1>1. /\ NativeOK(native) /\ native.buf = Buf /\ SameTrack(native, native')
        /\ NativeOK(native')
        /\ r = Min({Word(e - p), Buf}) /\ native'.played = Word(p + r)
        /\ out'.start = p /\ out'.gain = g
    BY ReadFinishFacts DEF StreamInv
  <1>2. /\ p \in Nat /\ p < M /\ e \in Nat /\ e < M /\ M \in Nat
        /\ Buf \in Nat \ {0}
    BY <1>1, EndIsWord, WordRange, SizeFacts
  <1>3. /\ Len(g) = Buf
        /\ \A i \in 1..Buf : g[i] = IF p < native.fadeStart THEN native.fadeLen
                                    ELSE Word(e - (p + i - 1))
    BY <1>1, FadeIsSamples
  <1>4. End(native') = e
    BY <1>1 DEF SameTrack, End
  <1>5. native'.fadeStart = native.fadeStart
        /\ native'.fadeLen = native.fadeLen
    BY <1>1 DEF SameTrack
  <1> HIDE DEF p, e, r, g
  <1>6. CASE p < e
    <2>1. Word(e - p) = e - p
      <3> DEFINE d == e - p
      <3>1. d \in Nat /\ d < M
        BY <1>2, <1>6
      <3> HIDE DEF d
      <3>2. Word(d) = d
        BY <3>1, SmallIsWord, WordOfWord
      <3> QED
        BY <3>2 DEF d
    <2>2. r = IF e - p <= Buf THEN e - p ELSE Buf
      <3> DEFINE d == e - p
      <3>1. d \in Int /\ Buf \in Int /\ r = Min({d, Buf})
        BY <1>1, <1>2, <2>1
      <3> HIDE DEF d
      <3>2. r = IF d <= Buf THEN d ELSE Buf
        BY <3>1, LesserOfTwo
      <3> QED
        BY <3>2 DEF d
    <2>3. Word(p + r) = p + r
      <3> DEFINE d == p + r
      <3>1. d \in Nat /\ d < M
        BY <1>2, <1>6, <2>2
      <3> HIDE DEF d
      <3>2. Word(d) = d
        BY <3>1, SmallIsWord, WordOfWord
      <3> QED
        BY <3>2 DEF d
    <2>4. native'.played = p + r
      BY <1>1, <2>3
    <2>5. ASSUME NEW i \in 1..Buf, p + i - 1 < e
          PROVE  p + i - 1 < native'.played /\ g[i] = GainAt(native', p, i)
      <3>1. p + i - 1 < p + r
        BY <1>2, <1>6, <2>2, <2>5
      <3>2. Word(e - (p + i - 1)) = e - (p + i - 1)
        <4> DEFINE d == e - (p + i - 1)
        <4>1. d \in Nat /\ d < M
          BY <1>2, <2>5
        <4> HIDE DEF d
        <4>2. Word(d) = d
          BY <4>1, SmallIsWord, WordOfWord
        <4> QED
          BY <4>2 DEF d
      <3>3. GainAt(native', p, i) =
              IF p < native.fadeStart THEN native.fadeLen
              ELSE e - (p + i - 1)
        BY <1>4, <1>5 DEF GainAt
      <3> QED
        BY <1>3, <2>4, <3>1, <3>2, <3>3
    <2>6. FadeOK(native', out')
      BY <1>1, <1>3, <1>4, <2>5 DEF FadeOK
    <2>7. native'.played <= e /\ native'.played \in {e, p + Buf}
      BY <1>2, <1>6, <2>2, <2>4
    <2> QED
      BY <1>1, <1>3, <2>6, <2>7 DEF e, p
  <1>7. CASE p >= e
    <2>1. ASSUME NEW i \in 1..Buf
          PROVE  ~(p + i - 1 < e)
      BY <1>2, <1>7
    <2>2. FadeOK(native', out')
      BY <1>1, <1>3, <1>4, <2>1 DEF FadeOK
    <2>3. ASSUME p <= e
          PROVE  native'.played = e
      <3>1. p = e /\ e - p = 0 /\ 0 < M
        BY <1>2, <1>7, <2>3, WordRange
      <3>2. Word(0) = 0 /\ Word(e) = e
        BY <1>2, <3>1, SmallIsWord, WordOfWord
      <3>3. r = 0
        BY <1>1, <1>2, <3>1, <3>2, LesserOfTwo
      <3>4. p + r = e
        BY <1>2, <3>1, <3>3
      <3> QED
        BY <1>1, <3>2, <3>4
    <2> QED
      BY <1>1, <1>2, <1>3, <2>2, <2>3 DEF e, p
  <1> QED
    BY <1>2, <1>6, <1>7

LEMMA FadeStep ==
    ASSUME StreamInv, FadeInv, [Next]_vars
    PROVE  FadeInv'
  <1>1. StreamInv'
    BY NextStream
  <1>2. CASE ReadFinish
    BY <1>2, ReadFinishFade DEF FadeInv
  <1>3. CASE ~ReadFinish
    BY <1>1, <1>3, StepRests, FadeKept DEF StreamInv
  <1> QED
    BY <1>2, <1>3

LEMMA WithinIsBefore ==
    ASSUME StreamInv
    PROVE  Within(out) = {i \in 1..Len(out.gain) :
                            out.start + i - 1 < End(native)}
  BY DEF StreamInv, Samples, Within, End

LEMMA WithinIsBeforeNext ==
    ASSUME StreamInv'
    PROVE  Within(out)' = {i \in 1..Len(out'.gain) :
                             out'.start + i - 1 < End(native')}
  BY DEF StreamInv, Samples, Within, End

\* A gain that follows its position falls with it.
LEMMA LaterIsLower ==
    ASSUME StreamInv, FadeInv, ReadFinish, NEW j \in Within(out)'
    PROVE  /\ \A i \in Within(out) : out'.gain[j] <= out.gain[i]
           /\ \A i \in 1..j : out'.gain[j] <= out'.gain[i]
  <1>1. /\ native.initialized /\ FadeOK(native, out) /\ FadeOK(native', out')
        /\ SameTrack(native, native') /\ out'.start = native.played
        /\ Len(out'.gain) = Buf
    BY ReadFinishFacts, ReadFinishFade DEF FadeInv
  <1>2. StreamInv'
    BY NextStream DEF Next, ReaderStep
  <1> DEFINE p == native.played
             e == End(native)
             f == native.fadeStart
             l == native.fadeLen
  <1>3. /\ p \in Nat /\ f \in Nat /\ l \in Nat /\ e = f + l
        /\ out.start \in Nat /\ Buf \in Nat
    BY EndIsWord, WordOfWord, SizeFacts DEF StreamInv, End
  <1>4. /\ native'.fadeStart = f /\ native'.fadeLen = l /\ End(native') = e
    BY <1>1 DEF SameTrack, End
  <1>5. /\ Within(out) = {i \in 1..Len(out.gain) : out.start + i - 1 < e}
        /\ Within(out)' = {i \in 1..Buf : p + i - 1 < e}
    <2>1. Within(out)' = {i \in 1..Len(out'.gain) :
                            out'.start + i - 1 < End(native')}
      BY <1>2, WithinIsBeforeNext
    <2> QED
      BY <1>1, <1>4, <2>1, WithinIsBefore
  <1>6. ASSUME NEW i \in Within(out)
        PROVE  /\ i \in Int /\ out.start + i - 1 < p
               /\ out.gain[i] = IF out.start < f THEN l
                                ELSE e - (out.start + i - 1)
    BY <1>1, <1>5 DEF FadeOK, GainAt
  <1>7. ASSUME NEW i \in Within(out)'
        PROVE  /\ i \in 1..Buf /\ p + i - 1 < e
               /\ out'.gain[i] = IF p < f THEN l ELSE e - (p + i - 1)
    BY <1>1, <1>4, <1>5 DEF FadeOK, GainAt
  <1> HIDE DEF p, e, f, l
  <1>8. j \in 1..Buf /\ p + j - 1 < e
    BY <1>7
  <1>9. out'.gain[j] = IF p < f THEN l ELSE e - (p + j - 1)
    BY <1>7
  <1>10. ASSUME NEW i \in Within(out)
         PROVE  out'.gain[j] <= out.gain[i]
    BY <1>3, <1>6, <1>8, <1>9
  <1>11. ASSUME NEW i \in 1..j
         PROVE  out'.gain[j] <= out'.gain[i]
    <2>1. i \in Within(out)'
      BY <1>3, <1>5, <1>8
    <2>2. out'.gain[i] = IF p < f THEN l ELSE e - (p + i - 1)
      BY <1>7, <2>1
    <2> QED
      BY <1>3, <1>8, <1>9, <2>2
  <1> QED
    BY <1>10, <1>11

(***************************************************************************)
(* processFadeOut over many buffers: up to the end of the track the volume *)
(* never rises again, within a buffer, from one to the next and over a     *)
(* seek ahead; a load or a seek back starts with no buffer.                *)
(***************************************************************************)
THEOREM FadeOnlyFalls == Spec => FadeNeverRises
  <1>1. Init => StreamInv /\ FadeInv
    <2>1. Init => ~native.initialized
      BY DEF Init
    <2> QED
      BY <2>1, InitStream DEF FadeInv
  <1>2. StreamInv /\ FadeInv /\ [Next]_vars => StreamInv' /\ FadeInv'
    BY NextStream, FadeStep
  <1> DEFINE Falls == \A j \in Within(out)' :
                        /\ \A i \in Within(out) : out'.gain[j] <= out.gain[i]
                        /\ \A i \in 1..j : out'.gain[j] <= out'.gain[i]
  <1>3. ASSUME StreamInv, FadeInv, [Next]_vars, out' # out
        PROVE  Falls
    <2>1. CASE ReadFinish
      <3>1. \A j \in Within(out)' :
               /\ \A i \in Within(out) : out'.gain[j] <= out.gain[i]
               /\ \A i \in 1..j : out'.gain[j] <= out'.gain[i]
        BY <1>3, <2>1, LaterIsLower
      <3> QED
        BY <3>1
    <2>2. CASE ~ReadFinish
      <3>1. out' = Silence
        BY <1>3, <2>2, StepRests DEF Rests
      <3>2. Within(out)' = {}
        <4>1. Len(out'.gain) = 0
          BY <3>1 DEF Silence
        <4>2. \A i \in 1..Len(out'.gain) : FALSE
          BY <4>1
        <4>3. StreamInv'
          BY <1>3, NextStream
        <4>4. Within(out)' = {i \in 1..Len(out'.gain) :
                                out'.start + i - 1 < End(native')}
          BY <4>3, WithinIsBeforeNext
        <4> QED
          BY <4>2, <4>4
      <3> QED
        BY <3>2
    <2> QED
      BY <2>1, <2>2
  <1>4. StreamInv /\ FadeInv /\ [Next]_vars => [out' # out => Falls]_vars
    BY <1>3
  <1> QED
    BY <1>1, <1>2, <1>4, PTL DEF Spec, FadeNeverRises

-----------------------------------------------------------------------------
(***************************************************************************)
(* Buffers and clock.  Until a seek the samples of a loaded file are in    *)
(* step: what the read holds, and then the FIFO, continue from the clock,  *)
(* and the emulator, while it is open, continues from them.  It goes on    *)
(* like this up to the end of the track, where the clock stands still; or  *)
(* the PSF emulator has closed, and what is left makes no buffer any more. *)
(***************************************************************************)
SamplesFrom(s, p) == \A i \in 1..Len(s) : s[i] = Word(p + i - 1)

InStep(n, held) ==
    \/ n.played >= End(n)
    \/ /\ SamplesFrom(held, n.played)
       /\ SamplesFrom(n.fifo, n.played + Len(held))
       /\ n.open => n.pos = Word(n.played + Len(held) + Len(n.fifo))

Spent(n, c, p) ==
    /\ n.lib = "psf" /\ ~n.open
    /\ IF p = "generate" THEN c.made < c.want ELSE Len(n.fifo) < Buf

InTrack(n, c, p) ==
    /\ n.played <= End(n)
    /\ \/ InStep(n, IF p = "generate" THEN c.held ELSE << >>)
       \/ Spent(n, c, p)

AsPlayed(n, o) ==
    /\ Len(o.data) = Len(o.gain)
    /\ \A i \in 1..Len(o.gain) :
         o.start + i - 1 < End(n) => o.data[i] = o.start + i - 1

NotSeeking(c, p) == p # "seek" /\ (p = "generate" => ~c.seeking)

\* A clock that is not of a loaded file stands at zero.
ClockRests(n, h) == ~h.disturbed /\ ~n.initialized => n.played = 0

FollowInv ==
    /\ ClockRests(native, hist)
    /\ ~(hist.seeked \/ hist.disturbed) =>
         /\ NotSeeking(call, pc)
         /\ AsPlayed(native, out)
         /\ native.initialized => InTrack(native, call, pc)

\* A step outside the native calls that touches nothing of the audio.
LEMMA FollowSame ==
    ASSUME FollowInv, UNCHANGED <<out, hist>>, SameTrack(native, native'),
           native'.initialized = native.initialized,
           native'.open = native.open, native'.pos = native.pos,
           native'.played = native.played, native'.fifo = native.fifo,
           pc \notin {"seek", "generate"}, pc' \notin {"seek", "generate"}
    PROVE  FollowInv'
  <1>1. End(native') = End(native)
    BY DEF SameTrack, End
  <1>2. ClockRests(native', hist') /\ NotSeeking(call', pc')
    BY DEF FollowInv, ClockRests, NotSeeking
  <1>3. AsPlayed(native, out) => AsPlayed(native', out')
    BY <1>1 DEF AsPlayed
  <1>4. InTrack(native, call, pc) => InTrack(native', call', pc')
    BY <1>1 DEF InTrack, InStep, Spent, SameTrack
  <1> QED
    BY <1>2, <1>3, <1>4 DEF FollowInv

\* A teardown outside the native calls.
LEMMA FollowTorn ==
    ASSUME FollowInv, out' = out, SameTrack(native, native'),
           ~native'.initialized, native'.played = 0,
           hist'.seeked = hist.seeked, hist.disturbed => hist'.disturbed,
           pc' \notin {"seek", "generate"}
    PROVE  FollowInv'
  <1>1. End(native') = End(native)
    BY DEF SameTrack, End
  <1>2. ClockRests(native', hist') /\ NotSeeking(call', pc')
    BY DEF ClockRests, NotSeeking
  <1>3. AsPlayed(native, out) => AsPlayed(native', out')
    BY <1>1 DEF AsPlayed
  <1> QED
    BY <1>2, <1>3 DEF FollowInv

\* After a seek only the clock matters.
LEMMA FollowSeeked ==
    ASSUME hist'.seeked \/ hist'.disturbed, ClockRests(native', hist')
    PROVE  FollowInv'
  BY DEF FollowInv

LEMMA UnchangedSame ==
    ASSUME UNCHANGED native
    PROVE  /\ SameTrack(native, native')
           /\ native'.initialized = native.initialized
           /\ native'.open = native.open /\ native'.pos = native.pos
           /\ native'.played = native.played /\ native'.fifo = native.fifo
  BY DEF SameTrack

LEMMA ListenerFollow ==
    ASSUME StreamInv, FollowInv,
           Start \/ Resume \/ Skip \/ Pause \/ LoopEnds
    PROVE  FollowInv'
  <1>1. /\ UNCHANGED <<native, out, call, hist>>
        /\ pc \notin {"seek", "generate"} /\ pc' \notin {"seek", "generate"}
    BY DEF Start, Resume, Skip, Pause, LoopEnds, At, BetweenCalls
  <1> QED
    BY <1>1, UnchangedSame, FollowSame

LEMMA StopFollow ==
    ASSUME StreamInv, FollowInv, Stop
    PROVE  FollowInv'
  <1>1. /\ stop /\ out' = out /\ UNCHANGED call /\ pc' = pc
        /\ pc \notin {"seek", "generate"}
    BY DEF Stop, BetweenCalls
  <1>2. /\ hist'.seeked = hist.seeked
        /\ hist.disturbed => hist'.disturbed
    BY DEF Stop, StreamInv
  <1>3. CASE ~native'.initialized /\ native'.played = 0
    BY <1>1, <1>2, <1>3, StopKeeps, FollowTorn
  <1>4. CASE UNCHANGED native
    BY <1>1, <1>2, <1>4 DEF FollowInv, ClockRests
  <1> QED
    BY <1>1, <1>3, <1>4, StopKeeps

LEMMA DivideSame ==
    ASSUME StreamInv, DivideTraps(native)
    PROVE  /\ SameTrack(native, native')
           /\ native'.initialized = native.initialized
           /\ native'.open = native.open /\ native'.pos = native.pos
           /\ native'.played = native.played /\ native'.fifo = native.fifo
  <1>1. native' = [native EXCEPT !.fault = "divide"]
    BY DEF DivideTraps
  <1> QED
    BY <1>1, FaultKeeps DEF StreamInv

LEMMA CheckOverFollow ==
    ASSUME StreamInv, FollowInv, CheckOver
    PROVE  FollowInv'
  <1>1. /\ UNCHANGED <<out, call, mine, hist>>
        /\ pc \notin {"seek", "generate"} /\ pc' \notin {"seek", "generate"}
    BY DEF CheckOver, InBody, At
  <1>2. CASE UNCHANGED native
    BY <1>1, <1>2, UnchangedSame, FollowSame
  <1>3. CASE stop
    <2>1. CASE ~native'.initialized /\ native'.played = 0
      BY <1>1, <1>3, <2>1, StopKeeps, FollowTorn
    <2> QED
      BY <1>2, <1>3, <2>1, StopKeeps
  <1>4. CASE DivideTraps(native)
    BY <1>1, <1>4, DivideSame, FollowSame
  <1> QED
    BY <1>2, <1>3, <1>4 DEF CheckOver

LEMMA StampFollow ==
    ASSUME StreamInv, FollowInv, Stamp
    PROVE  FollowInv'
  <1>1. /\ UNCHANGED <<out, hist>>
        /\ pc \notin {"seek", "generate"} /\ pc' \notin {"seek", "generate"}
    BY DEF Stamp, At
  <1>2. CASE UNCHANGED native
    BY <1>1, <1>2, UnchangedSame, FollowSame
  <1>3. CASE DivideTraps(native)
    BY <1>1, <1>3, DivideSame, FollowSame
  <1> QED
    BY <1>2, <1>3 DEF Stamp

LEMMA RefusedFollow ==
    ASSUME StreamInv, FollowInv, ReadRefused \/ ReadNoArray
    PROVE  FollowInv'
  <1>1. PICK e \in {"init", "array"} : native' = [native EXCEPT !.error = e]
    BY DEF ReadRefused, ReadNoArray
  <1>2. /\ SameTrack(native, native') /\ SameState(native, native')
        /\ native'.open = native.open /\ native'.pos = native.pos
        /\ native'.played = native.played /\ native'.fifo = native.fifo
    BY <1>1, ErrorKeeps DEF StreamInv
  <1>3. /\ UNCHANGED <<out, hist>>
        /\ pc \notin {"seek", "generate"} /\ pc' \notin {"seek", "generate"}
    BY DEF ReadRefused, ReadNoArray, At
  <1> QED
    BY <1>2, <1>3, FollowSame DEF SameState

LEMMA LoadOtherFollow ==
    ASSUME StreamInv, FollowInv, LoadOther
    PROVE  FollowInv'
  <1>1. /\ UNCHANGED <<out, hist>>
        /\ pc \notin {"seek", "generate"} /\ pc' \notin {"seek", "generate"}
        /\ native' = IF mine THEN teardownInternal(native) ELSE native
    BY DEF LoadOther, At
  <1>2. CASE mine
    <2>1. native' = teardownInternal(native) /\ NativeOK(native)
      BY <1>1, <1>2 DEF StreamInv
    <2> QED
      BY <1>1, <2>1, TeardownKeeps, FollowTorn
  <1>3. CASE ~mine
    <2>1. UNCHANGED native
      BY <1>1, <1>3
    <2> QED
      BY <1>1, <2>1, UnchangedSame, FollowSame
  <1> QED
    BY <1>2, <1>3

LEMMA LoadTrackFollow ==
    ASSUME StreamInv, FollowInv, LoadTrack
    PROVE  FollowInv'
  <1>1. PICK ok \in BOOLEAN, tag \in Tags :
          /\ native' = loadFileInternal(
                         IF mine THEN teardownInternal(native) ELSE native,
                         ok, getFileTrackLength(tag))
          /\ hist' = [hist EXCEPT !.seeked = FALSE, !.disturbed = @ \/ ~ok]
    BY DEF LoadTrack, LoadResults
  <1> DEFINE c == IF mine THEN teardownInternal(native) ELSE native
             ms == getFileTrackLength(tag)
  <1>2. /\ NativeOK(c) /\ ms \in Words
        /\ \/ c.played = 0
           \/ c.played = native.played /\ c.initialized = native.initialized
    <2>1. CASE mine
      BY <2>1, TeardownKeeps, LengthIsWord DEF StreamInv
    <2>2. CASE ~mine
      BY <2>2, LengthIsWord DEF StreamInv
    <2> QED
      BY <2>1, <2>2
  <1>3. native' = loadFileInternal(c, ok, ms)
    BY <1>1
  <1> HIDE DEF c, ms
  <1>4. /\ NativeOK(native') /\ native'.initialized = ok
        /\ native'.played = IF c.initialized THEN 0 ELSE c.played
        /\ ok => native'.fifo = << >> /\ native'.pos = 0
    BY <1>2, <1>3, LoadKeeps
  <1>5. /\ hist'.disturbed = (hist.disturbed \/ ~ok)
        /\ out' = Silence /\ pc' = "loaded"
    BY <1>1 DEF StreamInv, LoadTrack
  <1>6. CASE hist'.disturbed
    BY <1>6, FollowSeeked DEF ClockRests
  <1>7. CASE ~hist'.disturbed
    <2>1. ok /\ ~hist.disturbed
      BY <1>5, <1>7
    <2>2. native'.played = 0
      BY <1>2, <1>4, <2>1 DEF FollowInv, ClockRests
    <2>3. /\ End(native') \in Nat /\ Len(native'.fifo) = 0
          /\ native'.pos = 0 /\ Word(0) = 0
      <3>1. 0 < M /\ 0 \in Nat
        BY WordRange
      <3> QED
        BY <1>4, <2>1, <3>1, EndIsWord, SmallIsWord, WordOfWord
    <2>4. InTrack(native', call', pc')
      <3>1. InStep(native', << >>)
        BY <2>2, <2>3 DEF InStep, SamplesFrom
      <3> QED
        BY <1>5, <2>2, <2>3, <3>1 DEF InTrack
    <2>5. AsPlayed(native', out')
      BY <1>5 DEF AsPlayed, Silence
    <2>6. NotSeeking(call', pc') /\ ClockRests(native', hist')
      BY <1>5, <2>2 DEF NotSeeking, ClockRests
    <2> QED
      BY <2>4, <2>5, <2>6 DEF FollowInv
  <1> QED
    BY <1>6, <1>7

LEMMA SeekFollow ==
    ASSUME StreamInv, FollowInv, Seek
    PROVE  FollowInv'
  <1>1. /\ hist'.seeked
        /\ hist.disturbed => hist'.disturbed
        /\ \/ UNCHANGED native
           \/ native'.played = 0
    BY SeekFacts
  <1>2. ClockRests(native', hist')
    BY <1>1 DEF FollowInv, ClockRests
  <1> QED
    BY <1>1, <1>2, FollowSeeked

LEMMA SeekBlockFollow ==
    ASSUME StreamInv, FollowInv, SeekBlock \/ SeekDone
    PROVE  FollowInv'
  <1>1. pc = "seek" /\ UNCHANGED <<native, hist>>
    BY DEF SeekBlock, SeekDone, At
  <1>2. hist.seeked \/ hist.disturbed
    BY <1>1 DEF FollowInv, NotSeeking
  <1>3. ClockRests(native', hist')
    BY <1>1 DEF FollowInv, ClockRests
  <1> QED
    BY <1>1, <1>2, <1>3, FollowSeeked

\* In plain use a native call finds its file loaded.
LEMMA CallIsLoaded ==
    ASSUME SafeInv, ~hist.disturbed, pc = "generate"
    PROVE  native.initialized /\ Alive
  BY DEF SafeInv, PlainUse, Alive

LEMMA SeekAdvanceFollow ==
    ASSUME StreamInv, SafeInv, FollowInv, SeekAdvance
    PROVE  FollowInv'
  <1>1. /\ pc = "generate" /\ call.seeking /\ hist' = hist
        /\ native'.initialized = native.initialized
    BY SeekAdvanceFacts DEF SeekAdvance, At, SameState
  <1>2. hist.seeked \/ hist.disturbed
    BY <1>1 DEF FollowInv, NotSeeking
  <1>3. ClockRests(native', hist')
    BY <1>1, CallIsLoaded DEF ClockRests
  <1> QED
    BY <1>1, <1>2, <1>3, FollowSeeked

\* What the rounds of the emulator, and the refusals of a read, do not touch.
LEMMA FollowCall ==
    ASSUME FollowInv, UNCHANGED <<out, hist>>, SameTrack(native, native'),
           native'.initialized = native.initialized,
           native'.played = native.played,
           ~hist.disturbed => native.initialized,
           NotSeeking(call, pc) => NotSeeking(call', pc'),
           ~(hist.seeked \/ hist.disturbed) =>
             (InTrack(native, call, pc) => InTrack(native', call', pc'))
    PROVE  FollowInv'
  <1>1. End(native') = End(native)
    BY DEF SameTrack, End
  <1>2. ClockRests(native', hist')
    BY DEF FollowInv, ClockRests
  <1>3. AsPlayed(native, out) => AsPlayed(native', out')
    BY <1>1 DEF AsPlayed
  <1> QED
    BY <1>2, <1>3 DEF FollowInv

LEMMA ReadCutFollow ==
    ASSUME StreamInv, FollowInv, ReadCut
    PROVE  FollowInv'
  <1>1. /\ UNCHANGED <<native, out, hist>> /\ pc = "generate" /\ Alive
        /\ pc' = "stamp" /\ ~call.seeking
        /\ native.lib = "psf" /\ ~native.open /\ ~(call.made >= call.want)
    BY DEF ReadCut, At, GenerateFailed, Generated
  <1>2. SameTrack(native, native') /\ NotSeeking(call', pc')
    BY <1>1 DEF SameTrack, NotSeeking
  <1>3. Spent(native', call', pc')
    <2>1. ReadOK(native, call)
      BY <1>1 DEF StreamInv, CallOK
    <2>2. call.made \in Nat /\ call.want \in 0..Buf
      BY DEF StreamInv, CallT
    <2>3. Len(native.fifo) = call.made /\ call.made < call.want
      BY <1>1, <2>1, <2>2, SizeFacts DEF ReadOK
    <2> QED
      BY <1>1, <2>2, <2>3, SizeFacts DEF Spent
  <1>4. InTrack(native, call, pc) => InTrack(native', call', pc')
    BY <1>1, <1>3 DEF InTrack
  <1>5. ClockRests(native', hist')
    BY <1>1 DEF FollowInv, ClockRests
  <1>6. AsPlayed(native, out) => AsPlayed(native', out')
    BY <1>1 DEF AsPlayed
  <1> QED
    BY <1>1, <1>2, <1>4, <1>5, <1>6 DEF FollowInv

LEMMA FifoLength ==
    ASSUME NEW n, NativeOK(n)
    PROVE  Len(n.fifo) \in Nat
  BY LenProperties DEF NativeOK, NativeT, Samples

\* What was left over continues from the clock, and the FIFO after it.
LEMMA ReadLeftOverTrack ==
    ASSUME StreamInv, ReadLeftOver, InTrack(native, call, pc), Alive'
    PROVE  InTrack(native', call', pc')
  <1> DEFINE l == Len(native.fifo)
             k == IF Buf <= l THEN Buf ELSE l
             p == native.played
  <1>1. /\ SameTrack(native, native') /\ native'.open = native.open
        /\ native'.pos = native.pos /\ native'.played = p
        /\ Len(call'.held) = k
        /\ \A i \in 1..k : call'.held[i] = native.fifo[i]
        /\ call'.want = Buf - k /\ call'.made = 0
        /\ Len(native'.fifo) = l - k
        /\ \A i \in 1..Len(native'.fifo) : native'.fifo[i] = native.fifo[k + i]
    BY ReadLeftOverFacts
  <1>2. l \in Nat /\ p \in Nat /\ Buf \in Nat \ {0}
    BY FifoLength, EndIsWord, SizeFacts DEF StreamInv
  <1>3. k \in Nat /\ k <= l
    BY <1>2
  <1>4. End(native') = End(native) /\ native'.lib = native.lib
    BY <1>1 DEF SameTrack, End
  <1>5. pc = "read" /\ pc' = "generate"
    BY DEF ReadLeftOver, At
  <1>6. CASE native.played >= End(native)
    BY <1>1, <1>4, <1>5, <1>6 DEF InTrack, InStep
  <1>7. CASE /\ SamplesFrom(native.fifo, p)
             /\ native.open => native.pos = Word(p + l)
    <2>1. SamplesFrom(call'.held, p)
      BY <1>1, <1>2, <1>3, <1>7 DEF SamplesFrom
    <2> HIDE DEF k, l, p
    <2>2. ASSUME NEW i \in 1..Len(native'.fifo)
          PROVE  native'.fifo[i] = Word(p + k + i - 1)
      <3>1. k + i \in 1..l /\ p + (k + i) - 1 = p + k + i - 1
        BY <1>1, <1>2, <1>3
      <3>2. native.fifo[k + i] = Word(p + (k + i) - 1)
        BY <1>7, <3>1 DEF SamplesFrom, l
      <3> QED
        BY <1>1, <3>1, <3>2
    <2>3. p + k + Len(native'.fifo) = p + l
      BY <1>1, <1>2, <1>3
    <2>4. InStep(native', call'.held)
      BY <1>1, <1>7, <2>1, <2>2, <2>3 DEF InStep, SamplesFrom
    <2> QED
      BY <1>1, <1>4, <1>5, <2>4 DEF InTrack, p
  <1>8. CASE Spent(native, call, pc)
    <2>1. l < Buf /\ native.lib = "psf" /\ ~native.open
      BY <1>5, <1>8 DEF Spent
    <2>2. call'.made < call'.want
      BY <1>1, <1>2, <2>1
    <2> QED
      BY <1>1, <1>4, <1>5, <2>1, <2>2 DEF Spent, InTrack
  <1>9. Len(<< >>) = 0 /\ p + 0 = p
    BY <1>2
  <1> QED
    BY <1>5, <1>6, <1>7, <1>8, <1>9 DEF InTrack, InStep

LEMMA ReadLeftOverFollow ==
    ASSUME StreamInv, SafeInv, SafeInv', FollowInv, ReadLeftOver
    PROVE  FollowInv'
  <1>1. /\ UNCHANGED <<out, hist>> /\ pc = "read" /\ pc' = "generate"
    BY DEF ReadLeftOver, At
  <1>2. /\ SameTrack(native, native') /\ ~call'.seeking
        /\ native'.initialized = native.initialized
        /\ native'.played = native.played
    BY ReadLeftOverFacts
  <1>3. ~hist.disturbed => native.initialized /\ Alive'
    BY <1>1, <1>2 DEF SafeInv, PlainUse, Alive
  <1>4. NotSeeking(call', pc')
    BY <1>1, <1>2 DEF NotSeeking
  <1> QED
    BY <1>1, <1>2, <1>3, <1>4, ReadLeftOverTrack, FollowCall

\* A run that starts where the samples before it end continues them.
LEMMA RunContinues ==
    ASSUME NEW a \in Int, NEW w, w = Word(a), NEW i \in Int
    PROVE  Word(w + i) = Word(a + i) /\ Word(w + i - 1) = Word(a + i - 1)
  <1>1. Word(w + i) = Word(a + i)
    BY WordOfSum
  <1> DEFINE j == i - 1
  <1>2. j \in Int /\ w \in Int /\ w + i - 1 = w + j /\ a + i - 1 = a + j
    BY WordIsWord
  <1> HIDE DEF j
  <1>3. Word(w + j) = Word(a + j)
    BY <1>2, WordOfSum
  <1> QED
    BY <1>1, <1>2, <1>3

\* A block follows the samples before it; a close leaves less than a buffer.
LEMMA ExecuteTrack ==
    ASSUME StreamInv, Execute, ~call.seeking, InTrack(native, call, pc)
    PROVE  InTrack(native', call', pc')
  <1> DEFINE p == native.played
             h == Len(call.held)
             l == Len(native.fifo)
  <1>1. /\ SameTrack(native, native') /\ native'.played = p
        /\ native.lib = "psf" /\ native.open
        /\ pc = "generate" /\ pc' = pc
    BY ExecuteFacts
  <1>2. End(native') = End(native) /\ native'.lib = "psf"
    BY <1>1 DEF SameTrack, End
  <1>3. p \in Nat /\ h \in Nat /\ l \in Nat
    BY FifoLength, EndIsWord, LenProperties DEF StreamInv, CallT, Samples
  <1>4. CASE native.played >= End(native) /\ call'.held = call.held
    BY <1>1, <1>2, <1>4 DEF InTrack, InStep
  <1>5. CASE call' = call /\ ~native'.open
    <2>1. call.made < call.want
      BY DEF Execute
    <2> QED
      BY <1>1, <1>2, <1>5, <2>1 DEF InTrack, Spent
  <1>6. ASSUME NEW size \in Nat,
               call' \in CallT, call' = [call EXCEPT !.made = @ + size],
               native'.pos = Word(native.pos + size),
               Len(native'.fifo) = l + size,
               \A i \in 1..l : native'.fifo[i] = native.fifo[i],
               \A i \in 1..size :
                 native'.fifo[l + i] = Word(native.pos + i - 1)
        PROVE  InTrack(native', call', pc')
    <2>1. call'.held = call.held
      BY <1>6 DEF StreamInv, CallT
    <2>2. CASE native.played >= End(native)
      BY <1>4, <2>1, <2>2
    <2>3. CASE ~(native.played >= End(native))
      <3>1. /\ SamplesFrom(call.held, p)
            /\ SamplesFrom(native.fifo, p + h)
            /\ native.pos = Word(p + h + l)
        BY <1>1, <2>3 DEF InTrack, InStep, Spent
      <3> DEFINE a == p + h + l
                 w == native.pos
      <3>2. a \in Int /\ w = Word(a)
        BY <1>3, <3>1
      <3> HIDE DEF w, p, h, l
      <3>3. \A i \in Int : /\ Word(w + i) = Word(a + i)
                           /\ Word(w + i - 1) = Word(a + i - 1)
        <4> HIDE DEF a
        <4> QED
          BY <3>2, RunContinues
      <3>4. ASSUME NEW i \in 1..(l + size)
            PROVE  native'.fifo[i] = Word(p + h + i - 1)
        <4>1. CASE i <= l
          <5>1. i \in 1..l
            BY <1>3, <4>1
          <5> QED
            BY <1>6, <3>1, <5>1 DEF SamplesFrom, l
        <4>2. CASE ~(i <= l)
          <5>1. PICK j \in 1..size : i = l + j
            <6>1. i - l \in 1..size /\ i = l + (i - l)
              BY <1>3, <4>2
            <6> QED
              BY <6>1
          <5>2. native'.fifo[i] = Word(w + j - 1)
            BY <1>6, <5>1 DEF w
          <5>3. a + j - 1 = p + h + i - 1
            BY <1>3, <5>1
          <5> QED
            BY <3>3, <5>2, <5>3
        <4> QED
          BY <4>1, <4>2
      <3>5. a + size = p + h + (l + size)
        BY <1>3
      <3>6. native'.pos = Word(p + h + (l + size))
        BY <1>6, <3>3, <3>5 DEF w
      <3>7. InStep(native', call'.held)
        BY <1>1, <1>6, <2>1, <3>1, <3>4, <3>6 DEF InStep, SamplesFrom, p, h
      <3> QED
        BY <1>1, <1>2, <3>7 DEF InTrack, p
    <2> QED
      BY <2>2, <2>3
  <1> QED
    BY <1>5, <1>6, ExecuteFacts

LEMMA ExecuteFollow ==
    ASSUME StreamInv, SafeInv, FollowInv, Execute
    PROVE  FollowInv'
  <1>1. /\ SameTrack(native, native') /\ UNCHANGED <<out, hist, pc>>
        /\ pc = "generate" /\ native'.initialized = native.initialized
        /\ native'.played = native.played
    BY ExecuteFacts DEF SameState
  <1>2. CASE ~call.seeking
    <2>1. call'.seeking = call.seeking
      BY ExecuteFacts DEF StreamInv, CallT
    <2>2. NotSeeking(call, pc) => NotSeeking(call', pc')
      BY <1>1, <2>1 DEF NotSeeking
    <2> QED
      BY <1>1, <1>2, <2>2, CallIsLoaded, ExecuteTrack, FollowCall
  <1>3. CASE call.seeking
    <2>1. hist.seeked \/ hist.disturbed
      BY <1>1, <1>3 DEF FollowInv, NotSeeking
    <2>2. ClockRests(native', hist')
      BY <1>1 DEF FollowInv, ClockRests
    <2> QED
      BY <1>1, <2>1, <2>2, FollowSeeked
  <1> QED
    BY <1>2, <1>3

\* USF has nothing left over; its buffer starts at the clock.
LEMMA RenderTrack ==
    ASSUME StreamInv, usf_Render, ~call.seeking, native.open,
           InTrack(native, call, pc)
    PROVE  InTrack(native', call', pc')
  <1> DEFINE p == native.played
             w == native.pos
  <1>1. /\ SameTrack(native, native') /\ native'.played = p
        /\ native.lib = "usf" /\ pc = "generate" /\ pc' = pc
        /\ native'.fifo = native.fifo /\ Alive
        /\ call'.held = Run(w, Buf) /\ native'.pos = Word(w + Buf)
        /\ call.made < call.want
    BY RenderFacts
  <1>2. End(native') = End(native) /\ native'.lib = "usf"
    BY <1>1 DEF SameTrack, End
  <1>3. CASE native.played >= End(native)
    BY <1>1, <1>2, <1>3 DEF InTrack, InStep
  <1>4. CASE ~(native.played >= End(native))
    <2>1. Len(native.fifo) = 0 /\ Len(call.held) = 0
      <3>1. ReadOK(native, call) /\ native.fifo = << >>
        BY <1>1 DEF StreamInv, CallOK, NativeOK
      <3>2. call.made \in {0, Buf} /\ call.want = Buf
            /\ Len(call.held) = call.made
        BY <1>1, <3>1 DEF ReadOK
      <3> QED
        BY <1>1, <3>1, <3>2, SizeFacts
    <2>2. p \in Nat /\ w \in Nat /\ Buf \in Nat
      BY EndIsWord, SizeFacts DEF StreamInv
    <2>3. p \in Int /\ w = Word(p)
      <3>1. native.pos = Word(p + Len(call.held) + Len(native.fifo))
        BY <1>1, <1>4 DEF InTrack, InStep, Spent
      <3>2. p + Len(call.held) + Len(native.fifo) = p
        BY <2>1, <2>2
      <3> QED
        BY <2>2, <3>1, <3>2
    <2> HIDE DEF p, w
    <2>4. \A i \in Int : /\ Word(w + i) = Word(p + i)
                         /\ Word(w + i - 1) = Word(p + i - 1)
      BY <2>3, RunContinues
    <2>5. /\ Len(call'.held) = Buf
          /\ \A i \in 1..Buf : call'.held[i] = Word(p + i - 1)
      <3>1. /\ Len(Run(w, Buf)) = Buf
            /\ \A i \in 1..Buf : Run(w, Buf)[i] = Word(w + i - 1)
        BY <2>2, RunIsSamples
      <3>2. \A i \in 1..Buf : Word(w + i - 1) = Word(p + i - 1)
        BY <2>2, <2>4
      <3> QED
        BY <1>1, <3>1, <3>2
    <2>6. native'.pos = Word(p + Buf + 0)
      <3>1. p + Buf + 0 = p + Buf
        BY <2>2
      <3> QED
        BY <1>1, <2>2, <2>4, <3>1
    <2>7. InStep(native', call'.held)
      BY <1>1, <2>1, <2>5, <2>6 DEF InStep, SamplesFrom
    <2> QED
      BY <1>1, <1>2, <2>7 DEF InTrack, p
  <1> QED
    BY <1>3, <1>4

LEMMA RenderFollow ==
    ASSUME StreamInv, SafeInv, SafeInv', FollowInv, usf_Render
    PROVE  FollowInv'
  <1>1. /\ SameTrack(native, native') /\ UNCHANGED <<out, hist, pc>>
        /\ pc = "generate" /\ native'.initialized = native.initialized
        /\ native'.played = native.played
    BY RenderFacts
  <1>2. ~hist.disturbed => native.open
    <2>1. ~hist.disturbed => Alive'
      BY <1>1 DEF SafeInv, PlainUse, Alive
    <2> QED
      BY <2>1, RenderFacts
  <1>3. CASE ~call.seeking
    <2>1. call'.seeking = call.seeking
      BY RenderFacts
    <2>2. NotSeeking(call, pc) => NotSeeking(call', pc')
      BY <1>1, <2>1 DEF NotSeeking
    <2> QED
      BY <1>1, <1>2, <1>3, <2>2, CallIsLoaded, RenderTrack, FollowCall
  <1>4. CASE call.seeking
    <2>1. hist.seeked \/ hist.disturbed
      BY <1>1, <1>4 DEF FollowInv, NotSeeking
    <2>2. ClockRests(native', hist')
      BY <1>1 DEF FollowInv, ClockRests
    <2> QED
      BY <1>1, <2>1, <2>2, FollowSeeked
  <1> QED
    BY <1>3, <1>4

LEMMA RenderFailsTrack ==
    ASSUME StreamInv, usf_RenderFails, ~call.seeking, InTrack(native, call, pc)
    PROVE  InTrack(native', call', pc')
  <1> DEFINE p == native.played
  <1>1. /\ SameTrack(native, native') /\ native'.played = p
        /\ native.lib = "usf" /\ pc = "generate" /\ pc' = "stamp"
        /\ native'.fifo = native.fifo /\ Alive
        /\ native'.pos = native.pos /\ native'.open = native.open
    BY RenderFailsFacts
  <1>2. End(native') = End(native)
    BY <1>1 DEF SameTrack, End
  <1>3. Len(native.fifo) = 0 /\ Len(call.held) = 0
    <2>1. ReadOK(native, call) /\ native.fifo = << >>
      BY <1>1 DEF StreamInv, CallOK, NativeOK
    <2>2. /\ call.made \in {0, Buf} /\ call.want = Buf
          /\ Len(call.held) = call.made /\ call.made < call.want
      BY <1>1, <2>1 DEF ReadOK, usf_RenderFails
    <2> QED
      BY <2>1, <2>2, SizeFacts
  <1>4. InStep(native, call.held) => InStep(native', << >>)
    BY <1>1, <1>2, <1>3 DEF InStep, SamplesFrom
  <1> QED
    BY <1>1, <1>2, <1>4 DEF InTrack, Spent

LEMMA RenderFailsFollow ==
    ASSUME StreamInv, SafeInv, FollowInv, usf_RenderFails
    PROVE  FollowInv'
  <1>1. /\ SameTrack(native, native') /\ UNCHANGED <<out, hist>>
        /\ pc = "generate" /\ native'.initialized = native.initialized
        /\ native'.played = native.played
    BY RenderFailsFacts DEF SameState
  <1>2. CASE ~call.seeking
    <2>1. NotSeeking(call', pc')
      BY <1>2, RenderFailsFacts DEF NotSeeking
    <2> QED
      BY <1>1, <1>2, <2>1, CallIsLoaded, RenderFailsTrack, FollowCall
  <1>3. CASE call.seeking
    <2>1. hist.seeked \/ hist.disturbed
      BY <1>1, <1>3 DEF FollowInv, NotSeeking
    <2>2. ClockRests(native', hist')
      BY <1>1 DEF FollowInv, ClockRests
    <2> QED
      BY <1>1, <2>1, <2>2, FollowSeeked
  <1> QED
    BY <1>2, <1>3

\* The buffer is what the read held and the FIFO had, from the clock on, and
\* the clock goes on behind it.
LEMMA ReadFinishTrack ==
    ASSUME StreamInv, ReadFinish, InTrack(native, call, pc)
    PROVE  InTrack(native', call', pc') /\ AsPlayed(native', out')
  <1> DEFINE p == native.played
             h == Len(call.held)
             e == End(native)
             l == Len(native.fifo)
  <1>1. /\ SameTrack(native, native') /\ native'.open = native.open
        /\ native'.pos = native.pos /\ out'.start = p
        /\ Len(out'.data) = Buf /\ pc = "generate" /\ pc' = "stamp"
        /\ call.made >= call.want /\ h \in Nat
    BY ReadFinishFacts
  <1>2. PICK k \in Nat :
          /\ h + k = Buf /\ k <= l
          /\ \A i \in 1..Buf :
               out'.data[i] = IF i <= h THEN call.held[i]
                              ELSE native.fifo[i - h]
          /\ Len(native'.fifo) = l - k
          /\ \A i \in 1..Len(native'.fifo) :
               native'.fifo[i] = native.fifo[k + i]
    BY ReadFinishFacts
  <1>3. p \in Nat /\ l \in Nat /\ e \in Nat /\ e < M /\ Buf \in Nat \ {0}
        /\ M \in Nat
    BY FifoLength, EndIsWord, SizeFacts, WordRange DEF StreamInv
  <1>4. Len(out'.gain) = Buf
    BY ReadFinishFade
  <1>5. /\ p <= e
        /\ \/ p >= e
           \/ /\ SamplesFrom(call.held, p)
              /\ SamplesFrom(native.fifo, p + h)
              /\ native.open => native.pos = Word(p + h + l)
    <2>1. ~Spent(native, call, pc)
      <3>1. call.made \in Nat /\ call.want \in Nat
        BY SizeFacts DEF StreamInv, CallT
      <3> QED
        BY <1>1, <3>1 DEF Spent
    <2> QED
      BY <1>1, <2>1 DEF InTrack, InStep
  <1>6. native'.played <= e /\ native'.played \in {e, p + Buf}
    BY <1>5, ReadFinishFade
  <1>7. End(native') = e
    BY <1>1 DEF SameTrack, End
  <1> HIDE DEF p, h, l, e
  <1>8. AsPlayed(native', out')
    <2>1. ASSUME NEW i \in 1..Buf, p + i - 1 < e
          PROVE  out'.data[i] = p + i - 1
      <3>1. /\ SamplesFrom(call.held, p)
            /\ SamplesFrom(native.fifo, p + h)
        BY <1>3, <1>5, <2>1
      <3>2. out'.data[i] = Word(p + i - 1)
        <4>1. CASE i <= h
          <5>1. i \in 1..h
            BY <1>1, <4>1
          <5> QED
            BY <1>2, <3>1, <4>1, <5>1 DEF SamplesFrom, h
        <4>2. CASE ~(i <= h)
          <5>1. PICK j \in 1..l : i = h + j
            <6>1. i - h \in 1..l /\ i = h + (i - h)
              BY <1>1, <1>2, <1>3, <4>2
            <6> QED
              BY <6>1
          <5>2. i - h = j /\ p + h + j - 1 = p + i - 1
            BY <1>1, <1>3, <5>1
          <5>3. out'.data[i] = native.fifo[j]
            BY <1>2, <4>2, <5>2
          <5>4. native.fifo[j] = Word(p + h + j - 1)
            BY <3>1 DEF SamplesFrom, l
          <5> QED
            BY <5>2, <5>3, <5>4
        <4> QED
          BY <4>1, <4>2
      <3>3. Word(p + i - 1) = p + i - 1
        <4> DEFINE d == p + i - 1
        <4>1. d \in Nat /\ d < M
          BY <1>3, <2>1
        <4> HIDE DEF d
        <4>2. Word(d) = d
          BY <4>1, SmallIsWord, WordOfWord
        <4> QED
          BY <4>2 DEF d
      <3> QED
        BY <3>2, <3>3
    <2> QED
      BY <1>1, <1>4, <1>7, <2>1 DEF AsPlayed
  <1>9. InStep(native', << >>)
    <2>1. CASE native'.played = e
      BY <1>3, <1>7, <2>1 DEF InStep
    <2>2. CASE native'.played # e
      <3>1. native'.played = p + Buf /\ p < e
        BY <1>3, <1>6, <2>2
      <3>2. /\ SamplesFrom(native.fifo, p + h)
            /\ native.open => native.pos = Word(p + h + l)
        BY <1>3, <1>5, <3>1
      <3>3. ASSUME NEW i \in 1..Len(native'.fifo)
            PROVE  native'.fifo[i] = Word(p + Buf + 0 + i - 1)
        <4>1. k + i \in 1..l /\ p + h + (k + i) - 1 = p + Buf + 0 + i - 1
          BY <1>1, <1>2, <1>3
        <4>2. native.fifo[k + i] = Word(p + h + (k + i) - 1)
          BY <3>2, <4>1 DEF SamplesFrom, l
        <4> QED
          BY <1>2, <4>1, <4>2
      <3>4. p + h + l = p + Buf + 0 + Len(native'.fifo)
        <4>1. /\ h + k = Buf /\ Len(native'.fifo) = l - k
              /\ h \in Nat /\ k \in Nat /\ l \in Nat /\ p \in Nat
          BY <1>1, <1>2, <1>3
        <4> QED
          BY <4>1
      <3>5. Len(<< >>) = 0
        OBVIOUS
      <3> QED
        BY <1>1, <3>1, <3>2, <3>3, <3>4, <3>5 DEF InStep, SamplesFrom
    <2> QED
      BY <2>1, <2>2
  <1> QED
    BY <1>1, <1>6, <1>7, <1>8, <1>9 DEF InTrack

LEMMA ReadFinishFollow ==
    ASSUME StreamInv, FollowInv, ReadFinish
    PROVE  FollowInv'
  <1>1. /\ native.initialized /\ native'.initialized /\ hist' = hist
        /\ pc' = "stamp"
    BY ReadFinishFacts DEF SameState
  <1>2. ClockRests(native', hist') /\ NotSeeking(call', pc')
    BY <1>1 DEF ClockRests, NotSeeking
  <1> QED
    BY <1>1, <1>2, ReadFinishTrack DEF FollowInv

LEMMA InitFollow == Init => FollowInv
  <1> SUFFICES ASSUME Init PROVE FollowInv
    OBVIOUS
  <1>1. /\ ~native.initialized /\ native.played = 0 /\ pc = "exited"
        /\ out = Silence
    BY DEF Init
  <1> QED
    BY <1>1 DEF FollowInv, ClockRests, NotSeeking, AsPlayed, Silence

LEMMA NextFollow ==
    ASSUME StreamInv, SafeInv, FollowInv, [Next]_vars
    PROVE  FollowInv'
  <1>1. CASE UNCHANGED vars
    BY <1>1 DEF vars, FollowInv, ClockRests, NotSeeking, AsPlayed, InTrack,
                InStep, Spent, SamplesFrom, End
  <1>2. CASE Next
    <2>1. SafeInv'
      BY NextSafe
    <2> QED
      BY <1>2, <2>1, ListenerFollow, StopFollow, CheckOverFollow,
         StampFollow, RefusedFollow, LoadOtherFollow, LoadTrackFollow,
         SeekFollow, SeekBlockFollow, SeekAdvanceFollow, ReadCutFollow,
         ReadLeftOverFollow, ExecuteFollow, RenderFollow, RenderFailsFollow,
         ReadFinishFollow
         DEF Next, ReaderStep
  <1> QED
    BY <1>1, <1>2

(***************************************************************************)
(* Until a seek, the buffers readNextSamples fills are the track without a *)
(* gap or a repetition, in step with the clock, for every size of block up *)
(* to one sample more than a buffer: the FIFO, two buffers long, drops     *)
(* nothing, and the two copies of a read, of what was left over and of     *)
(* what is new, join without a seam.                                       *)
(***************************************************************************)
THEOREM AudioIsTheTrack == Spec => []BuffersFollowTheClock
  <1>1. Init => StreamInv /\ SafeInv /\ FollowInv
    BY InitStream, InitSafe, InitFollow
  <1>2. StreamInv /\ SafeInv /\ FollowInv /\ [Next]_vars
          => StreamInv' /\ SafeInv' /\ FollowInv'
    BY NextStream, NextSafe, NextFollow
  <1>3. StreamInv /\ FollowInv => BuffersFollowTheClock
    <2> SUFFICES ASSUME StreamInv, FollowInv PROVE BuffersFollowTheClock
      OBVIOUS
    <2> QED
      BY WithinIsBefore DEF FollowInv, AsPlayed, BuffersFollowTheClock
  <1> QED
    BY <1>1, <1>2, <1>3, PTL DEF Spec

(***************************************************************************)
(* A seek that comes to its end has the clock at its target, whatever the  *)
(* emulator did on the way: the safety half of SeekLands.                  *)
(***************************************************************************)
THEOREM SeekEndsAtTarget ==
    Spec => [][pc = "seek" /\ pc' = "over" => native.played = call.target]_vars
  <1>1. Init => StreamInv
    BY InitStream
  <1>2. StreamInv /\ [Next]_vars => StreamInv'
    BY NextStream
  <1>3. StreamInv /\ [Next]_vars
          => [pc = "seek" /\ pc' = "over" => native.played = call.target]_vars
    <2> SUFFICES ASSUME StreamInv, Next, pc = "seek", pc' = "over"
                 PROVE  native.played = call.target
      BY DEF vars
    <2>1. SeekDone
      BY DEF Next, ReaderStep, Start, Resume, Skip, Pause, Stop, Seek,
             LoopEnds, LoadTrack, LoadOther, SeekBlock, CheckOver, InBody,
             ReadRefused, ReadNoArray, ReadLeftOver, Execute, usf_Render,
             usf_RenderFails, SeekAdvance, ReadCut, ReadFinish, Stamp, At,
             BetweenCalls
    <2>2. native.played + call.remaining = call.target
      BY <2>1 DEF StreamInv, CallOK, SeekOK, SeekDone, At
    <2>3. call.remaining = 0 /\ native.played \in Nat
      BY <2>1, EndIsWord DEF StreamInv, SeekDone
    <2> QED
      BY <2>2, <2>3
  <1> QED
    BY <1>1, <1>2, <1>3, PTL DEF Spec

-----------------------------------------------------------------------------
(***************************************************************************)
(* Audio through seeks.  Whatever was dropped or left over, the buffer     *)
(* that was filled last, what a read holds, what the FIFO has, and what    *)
(* the emulator makes next follow one another in the order of the track.   *)
(***************************************************************************)
Rising(s) == \A i, j \in 1..Len(s) : i < j => s[i] < s[j]
Before(s, t) == \A i \in 1..Len(s) : \A j \in 1..Len(t) : s[i] < t[j]
Below(s, p) == \A i \in 1..Len(s) : s[i] < p

Ordered(last, held, n) ==
    /\ Rising(held) /\ Rising(n.fifo)
    /\ Before(last, held) /\ Before(last, n.fifo) /\ Before(held, n.fifo)
    /\ Below(last, n.pos) /\ Below(held, n.pos) /\ Below(n.fifo, n.pos)

\* What a read holds; a seek has no use for what the call holds.
HeldBy(c, p) == IF p = "generate" /\ ~c.seeking THEN c.held ELSE << >>

OrderInv == Alive => Ordered(out.data, HeldBy(call, pc), native)

\* The emulator has not made so much of the file that its position wraps:
\* the next block, or buffer, still has numbers that are words.
PosFits == native.pos + Buf + 1 < M

\* The samples stay where they are.
Kept(n, m) == m.fifo = n.fifo /\ m.pos = n.pos

LEMMA OrderKept ==
    ASSUME NEW last, NEW held, NEW n, NEW m, Ordered(last, held, n),
           Kept(n, m)
    PROVE  /\ Ordered(last, held, m) /\ Ordered(last, << >>, m)
           /\ Ordered(<< >>, << >>, m)
  <1>1. Len(<< >>) = 0
    OBVIOUS
  <1> DEFINE none == << >>
  <1>2. \A i \in 1..Len(none) : FALSE
    BY <1>1
  <1> HIDE DEF none
  <1>3. /\ Ordered(last, held, m) /\ Ordered(last, none, m)
        /\ Ordered(none, none, m)
    BY <1>2 DEF Ordered, Kept, Rising, Before, Below
  <1> QED
    BY <1>3 DEF none

\* After a load there is nothing to be out of order.
LEMMA OrderCleared ==
    ASSUME NEW m, m.fifo = << >>
    PROVE  Ordered(<< >>, << >>, m)
  <1> DEFINE none == << >>
  <1>1. Len(none) = 0 /\ m.fifo = none
    OBVIOUS
  <1>2. \A i \in 1..Len(none) : FALSE
    BY <1>1
  <1> HIDE DEF none
  <1>3. Ordered(none, none, m)
    BY <1>1, <1>2 DEF Ordered, Rising, Before, Below
  <1> QED
    BY <1>3 DEF none

LEMMA TeardownLeaves ==
    ASSUME NEW n, NativeOK(n)
    PROVE  Kept(n, teardownInternal(n))
  <1>1. CASE n.lib = "usf"
    BY <1>1 DEF teardownInternal, usf_teardownInternal, NativeOK, NativeT,
                Kept
  <1>2. CASE n.lib # "usf"
    BY <1>2 DEF teardownInternal, psf_teardownInternal, NativeOK, NativeT,
                Kept
  <1> QED
    BY <1>1, <1>2

\* A load empties the FIFO; one that fails leaves it.
LEMMA LoadLeaves ==
    ASSUME NEW n, NativeOK(n), NEW ok \in BOOLEAN, NEW ms \in Words,
           NEW m, m = loadFileInternal(n, ok, ms)
    PROVE  m.fifo = << >> \/ Kept(n, m)
  <1>1. CASE ok
    <2> DEFINE l == loadFileInternal(n, ok, ms)
    <2>1. /\ NativeOK(l) /\ l.lib = n.lib
          /\ l.initialized = ok /\ l.open = ok
          /\ l.played = IF n.initialized THEN 0 ELSE n.played
          /\ ok => l.fifo = << >> /\ l.pos = 0
      BY LoadKeeps
    <2> HIDE DEF l
    <2>2. l.fifo = << >>
      BY <1>1, <2>1
    <2> QED
      BY <2>2 DEF l
  <1>2. CASE ~ok
    <2> DEFINE c == IF n.initialized THEN teardownInternal(n) ELSE n
    <2>1. NativeOK(c) /\ Kept(n, c)
      BY TeardownKeeps, TeardownLeaves DEF Kept
    <2>2. m = [c EXCEPT !.lengthMs = ms, !.open = FALSE, !.error = "load"]
      BY <1>2, Zenon DEF loadFileInternal
    <2> HIDE DEF c
    <2>3. m.fifo = c.fifo /\ m.pos = c.pos
      BY <2>1, <2>2 DEF NativeOK, NativeT
    <2> QED
      BY <2>1, <2>3 DEF Kept
  <1> QED
    BY <1>1, <1>2

\* The steps that move no sample, but for the ones that load.
LEMMA StillOrder ==
    ASSUME OrderInv, Alive, Kept(native, native'),
           \/ out' = out /\ HeldBy(call', pc') = HeldBy(call, pc)
           \/ out' = out /\ HeldBy(call', pc') = << >>
           \/ out' = Silence /\ HeldBy(call', pc') = << >>
    PROVE  OrderInv'
  <1>1. Ordered(out.data, HeldBy(call, pc), native)
    BY DEF OrderInv
  <1>2. /\ Ordered(out.data, HeldBy(call, pc), native')
        /\ Ordered(out.data, << >>, native')
        /\ Ordered(<< >>, << >>, native')
    BY <1>1, OrderKept
  <1>3. Silence.data = << >>
    BY DEF Silence
  <1> QED
    BY <1>2, <1>3, Zenon DEF OrderInv

LEMMA ListenerOrder ==
    ASSUME StreamInv, OrderInv, Start \/ Resume \/ Skip \/ Pause
    PROVE  OrderInv'
  <1>1. UNCHANGED <<native, out, call>> /\ Alive
    BY DEF Start, Resume, Skip, Pause, At, BetweenCalls
  <1>2. pc' = pc \/ pc' = "top"
    BY DEF Start, Resume, Skip, Pause
  <1>3. HeldBy(call', pc') = HeldBy(call, pc) \/ HeldBy(call', pc') = << >>
    BY <1>1, <1>2 DEF HeldBy
  <1> QED
    BY <1>1, <1>3, StillOrder DEF Kept

\* A stop, or a change of backend, leaves the samples where they are.
LEMMA StopOrder ==
    ASSUME StreamInv, stop
    PROVE  Kept(native, native')
  <1>1. CASE mine /\ state # "stopped"
    <2>1. native' = teardownInternal(native)
      BY <1>1 DEF stop
    <2> QED
      BY <2>1, TeardownLeaves DEF StreamInv
  <1>2. CASE ~(mine /\ state # "stopped")
    BY <1>2 DEF stop, Kept
  <1> QED
    BY <1>1, <1>2

LEMMA DivideOrder ==
    ASSUME StreamInv, DivideTraps(native)
    PROVE  Kept(native, native')
  <1>1. native' = [native EXCEPT !.fault = "divide"]
    BY DEF DivideTraps
  <1> QED
    BY <1>1, FaultKeeps DEF StreamInv, Kept

LEMMA LoopOrder ==
    ASSUME StreamInv, OrderInv,
           \/ Stop \/ LoopEnds \/ LoadOther \/ CheckOver \/ Stamp
           \/ ReadRefused \/ ReadNoArray \/ ReadCut
    PROVE  OrderInv'
  <1>1. Kept(native, native')
    <2>1. CASE Stop \/ CheckOver
      <3>1. stop \/ UNCHANGED native \/ DivideTraps(native)
        BY <2>1 DEF Stop, CheckOver
      <3> QED
        BY <3>1, StopOrder, DivideOrder DEF Kept
    <2>2. CASE Stamp
      BY <2>2, DivideOrder DEF Stamp, Kept
    <2>3. CASE LoadOther
      <3>1. native' = teardownInternal(native) \/ UNCHANGED native
        BY <2>3 DEF LoadOther
      <3> QED
        BY <3>1, TeardownLeaves DEF StreamInv, Kept
    <2>4. CASE LoopEnds \/ ReadCut
      BY <2>4 DEF LoopEnds, ReadCut, Kept
    <2>5. CASE ReadRefused \/ ReadNoArray
      <3>1. PICK e \in {"init", "array"} : native' = [native EXCEPT !.error = e]
        BY <2>5 DEF ReadRefused, ReadNoArray
      <3> QED
        BY <3>1, ErrorKeeps DEF StreamInv, Kept
    <2> QED
      BY <2>1, <2>2, <2>3, <2>4, <2>5
  <1>2. Alive /\ out' = out
    BY DEF Stop, LoopEnds, LoadOther, CheckOver, Stamp, ReadRefused,
           ReadNoArray, ReadCut, At, BetweenCalls, InBody
  <1>3. pc' # "generate"
    BY DEF Stop, LoopEnds, LoadOther, CheckOver, Stamp, ReadRefused,
           ReadNoArray, ReadCut, At, BetweenCalls, InBody
  <1>4. HeldBy(call', pc') = << >>
    BY <1>3 DEF HeldBy
  <1> QED
    BY <1>1, <1>2, <1>4, StillOrder

LEMMA LoadTrackOrder ==
    ASSUME StreamInv, OrderInv, LoadTrack
    PROVE  OrderInv'
  <1>1. PICK ok \in BOOLEAN, tag \in Tags :
          native' = loadFileInternal(
                      IF mine THEN teardownInternal(native) ELSE native,
                      ok, getFileTrackLength(tag))
    BY DEF LoadTrack, LoadResults
  <1> DEFINE c == IF mine THEN teardownInternal(native) ELSE native
             ms == getFileTrackLength(tag)
  <1>2. NativeOK(c) /\ ms \in Words /\ Kept(native, c)
    BY TeardownKeeps, TeardownLeaves, LengthIsWord DEF StreamInv, Kept
  <1>3. native' = loadFileInternal(c, ok, ms)
    BY <1>1
  <1> HIDE DEF c, ms
  <1>4. native'.fifo = << >> \/ Kept(native, native')
    BY <1>2, <1>3, LoadLeaves DEF Kept
  <1>5. out' = Silence /\ pc' = "loaded" /\ Alive
    BY DEF LoadTrack, At
  <1>6. HeldBy(call', pc') = << >> /\ out'.data = << >>
    BY <1>5 DEF HeldBy, Silence
  <1>7. CASE native'.fifo = << >>
    BY <1>6, <1>7, OrderCleared DEF OrderInv
  <1>8. CASE Kept(native, native')
    BY <1>5, <1>6, <1>8, StillOrder
  <1> QED
    BY <1>4, <1>7, <1>8

\* A seek loads the file again, or leaves everything in its place.
LEMMA SeekOrder ==
    ASSUME StreamInv, OrderInv, Seek
    PROVE  OrderInv'
  <1>1. PICK t \in 0..native.lengthMs, ok \in LoadResults :
          LET target == convert_ms_to_samples(native.rate, t)
              back == target <= native.played
          IN  /\ native' = IF back
                           THEN loadFileInternal(teardownInternal(native), ok,
                                                 native.lengthMs)
                           ELSE native
              /\ out' = IF back THEN Silence ELSE out
    BY Zenon DEF Seek
  <1>2. /\ Alive /\ pc' = "seek" /\ ok \in BOOLEAN
        /\ NativeOK(native) /\ native.lengthMs \in Words
    BY DEF Seek, InBody, At, LoadResults, StreamInv, NativeOK, NativeT
  <1>3. HeldBy(call', pc') = << >>
    BY <1>2 DEF HeldBy
  <1>4. CASE UNCHANGED <<native, out>>
    BY <1>2, <1>3, <1>4, StillOrder DEF Kept
  <1>5. CASE /\ native' = loadFileInternal(teardownInternal(native), ok,
                                           native.lengthMs)
             /\ out' = Silence
    <2> DEFINE c == teardownInternal(native)
               ms == native.lengthMs
    <2>1. NativeOK(c) /\ Kept(native, c) /\ ms \in Words
      BY <1>2, TeardownKeeps, TeardownLeaves
    <2>2. native' = loadFileInternal(c, ok, ms)
      BY <1>5
    <2> HIDE DEF c, ms
    <2>3. native'.fifo = << >> \/ Kept(native, native')
      BY <1>2, <2>1, <2>2, LoadLeaves DEF Kept
    <2>4. out'.data = << >>
      BY <1>5 DEF Silence
    <2>5. CASE native'.fifo = << >>
      BY <1>3, <2>4, <2>5, OrderCleared DEF OrderInv
    <2>6. CASE Kept(native, native')
      BY <1>2, <1>3, <1>5, <2>6, StillOrder
    <2> QED
      BY <2>3, <2>5, <2>6
  <1>6. \/ UNCHANGED <<native, out>>
        \/ /\ native' = loadFileInternal(teardownInternal(native), ok,
                                         native.lengthMs)
           /\ out' = Silence
    <2>1. CASE convert_ms_to_samples(native.rate, t) <= native.played
      BY <1>1, <2>1, Zenon
    <2>2. CASE ~(convert_ms_to_samples(native.rate, t) <= native.played)
      BY <1>1, <2>2, Zenon
    <2> QED
      BY <2>1, <2>2
  <1> QED
    BY <1>4, <1>5, <1>6

\* The loop of a seek moves the clock, not the samples.
LEMMA SeekLoopOrder ==
    ASSUME StreamInv, OrderInv,
           SeekBlock \/ SeekDone \/ SeekAdvance \/ usf_RenderFails
    PROVE  OrderInv'
  <1>1. CASE SeekBlock
    <2>1. /\ Alive /\ pc = "seek" /\ pc' = "generate"
          /\ UNCHANGED <<native, out>>
      BY <1>1 DEF SeekBlock, At
    <2>2. call.seeking /\ call \in CallT
      BY <2>1 DEF StreamInv, CallOK, SeekOK
    <2>3. call'.seeking
      BY <1>1, <2>2 DEF SeekBlock, CallT
    <2>4. HeldBy(call', pc') = << >>
      BY <2>3 DEF HeldBy
    <2> QED
      BY <2>1, <2>4, StillOrder DEF Kept
  <1>2. CASE SeekDone
    <2>1. Alive /\ pc' = "over" /\ UNCHANGED <<native, out>>
      BY <1>2 DEF SeekDone, At
    <2>2. HeldBy(call', pc') = << >>
      BY <2>1 DEF HeldBy
    <2> QED
      BY <2>1, <2>2, StillOrder DEF Kept
  <1>3. CASE SeekAdvance
    <2>1. /\ Alive /\ pc' = "seek" /\ out' = out
          /\ \E w : native' = [native EXCEPT !.played = w]
      BY <1>3 DEF SeekAdvance, At
    <2>2. Kept(native, native')
      BY <2>1 DEF StreamInv, NativeOK, NativeT, Kept
    <2>3. HeldBy(call', pc') = << >>
      BY <2>1 DEF HeldBy
    <2> QED
      BY <2>1, <2>2, <2>3, StillOrder
  <1>4. CASE usf_RenderFails
    <2>1. /\ Kept(native, native') /\ Alive /\ out' = out
          /\ \/ pc' = "stamp"
             \/ call.seeking /\ call' = [call EXCEPT !.made = call.want]
      BY <1>4, RenderFailsFacts DEF Kept
    <2>2. pc' = "stamp" \/ call'.seeking
      BY <2>1 DEF StreamInv, CallT
    <2>3. HeldBy(call', pc') = << >>
      BY <2>2 DEF HeldBy
    <2> QED
      BY <2>1, <2>3, StillOrder
  <1> QED
    BY <1>1, <1>2, <1>3, <1>4

-----------------------------------------------------------------------------
(***************************************************************************)
(* The steps that move samples: from the FIFO to the read, from the        *)
(* emulator to the FIFO or to the read, from both to the buffer.           *)
(***************************************************************************)
LEMMA SplitOrder ==
    ASSUME NEW last, NEW held, NEW n, NEW m, NEW k \in Nat,
           Ordered(last, << >>, n), Len(n.fifo) \in Nat, k <= Len(n.fifo),
           Len(held) = k, \A i \in 1..k : held[i] = n.fifo[i],
           Len(m.fifo) = Len(n.fifo) - k,
           \A i \in 1..Len(m.fifo) : m.fifo[i] = n.fifo[k + i],
           m.pos = n.pos
    PROVE  Ordered(last, held, m)
  <1> DEFINE q == n.fifo
             r == m.fifo
             l == Len(q)
             s == Len(r)
  <1>1. /\ Rising(q) /\ Before(last, q) /\ Below(last, n.pos)
        /\ Below(q, n.pos)
    BY DEF Ordered
  <1>2. /\ l \in Nat /\ k <= l /\ s = l - k /\ s \in Nat
        /\ \A i \in 1..k : i \in 1..l
        /\ \A i \in 1..s : k + i \in 1..l
        /\ \A i \in 1..s : r[i] = q[k + i]
        /\ \A i \in 1..k : held[i] = q[i]
    OBVIOUS
  <1> HIDE DEF q, r, l, s
  <1>3. Rising(held) /\ Before(last, held) /\ Below(held, n.pos)
    BY <1>1, <1>2 DEF Rising, Before, Below, l
  <1>4. Rising(r)
    <2>1. ASSUME NEW i \in 1..s, NEW j \in 1..s, i < j
          PROVE  r[i] < r[j]
      <3>1. k + i \in 1..l /\ k + j \in 1..l /\ k + i < k + j
        BY <1>2, <2>1
      <3>2. q[k + i] < q[k + j]
        BY <1>1, <3>1 DEF Rising, l
      <3> QED
        BY <1>2, <3>2
    <2> QED
      BY <2>1 DEF Rising, s
  <1>5. Before(last, r) /\ Below(r, n.pos)
    BY <1>1, <1>2 DEF Before, Below, l, s
  <1>6. Before(held, r)
    <2>1. ASSUME NEW i \in 1..k, NEW j \in 1..s
          PROVE  held[i] < r[j]
      <3>1. i \in 1..l /\ k + j \in 1..l /\ i < k + j
        BY <1>2
      <3>2. q[i] < q[k + j]
        BY <1>1, <3>1 DEF Rising, l
      <3> QED
        BY <1>2, <3>2
    <2> QED
      BY <2>1 DEF Before, s
  <1> QED
    BY <1>1, <1>3, <1>4, <1>5, <1>6 DEF Ordered, r

LEMMA ReadLeftOverOrder ==
    ASSUME StreamInv, OrderInv, ReadLeftOver
    PROVE  OrderInv'
  <1> SUFFICES ASSUME Alive' PROVE OrderInv'
    BY DEF OrderInv
  <1>1. /\ pc = "read" /\ Alive /\ pc' = "generate" /\ out' = out
    BY DEF ReadLeftOver, At
  <1> DEFINE k == IF Buf <= Len(native.fifo) THEN Buf ELSE Len(native.fifo)
  <1>2. /\ native'.pos = native.pos /\ ~call'.seeking
        /\ k \in Nat /\ k <= Len(native.fifo)
        /\ Len(call'.held) = k
        /\ \A i \in 1..k : call'.held[i] = native.fifo[i]
        /\ Len(native'.fifo) = Len(native.fifo) - k
        /\ \A i \in 1..Len(native'.fifo) : native'.fifo[i] = native.fifo[k + i]
    BY ReadLeftOverFacts
  <1> HIDE DEF k
  <1>3. Ordered(out.data, << >>, native)
    <2>1. HeldBy(call, pc) = << >>
      BY <1>1 DEF HeldBy
    <2> QED
      BY <1>1, <2>1 DEF OrderInv
  <1>4. Len(native.fifo) \in Nat
    BY FifoLength DEF StreamInv
  <1>5. Ordered(out.data, call'.held, native')
    BY <1>2, <1>3, <1>4, SplitOrder
  <1>6. HeldBy(call', pc') = call'.held
    BY <1>1, <1>2 DEF HeldBy
  <1> QED
    BY <1>1, <1>5, <1>6 DEF OrderInv

\* The samples of a queue are numbers.
LEMMA SamplesAreNumbers ==
    ASSUME NEW s \in Samples
    PROVE  Len(s) \in Nat /\ \A i \in 1..Len(s) : s[i] \in Nat
  <1>1. /\ Len(s) \in Nat
        /\ \A i \in 1..Len(s) : s[i] \in Words
    BY LenProperties DEF Samples
  <1> QED
    BY <1>1, WordOfWord

\* What the emulator makes comes after everything that there is.
LEMMA MadeOrder ==
    ASSUME NEW last \in Samples, NEW held \in Samples, NEW n, NEW m,
           n.fifo \in Samples, n.pos \in Nat, Ordered(last, held, n),
           NEW size \in Nat, NEW k \in 0..size, m.pos = n.pos + size,
           Len(m.fifo) = Len(n.fifo) + k,
           \A i \in 1..Len(n.fifo) : m.fifo[i] = n.fifo[i],
           \A i \in 1..k : m.fifo[Len(n.fifo) + i] = n.pos + i - 1
    PROVE  Ordered(last, held, m)
  <1> DEFINE q == n.fifo
             r == m.fifo
             l == Len(q)
             s == Len(r)
             p == n.pos
  <1>1. /\ Rising(held) /\ Rising(q) /\ Before(last, held)
        /\ Before(last, q) /\ Before(held, q)
        /\ Below(last, p) /\ Below(held, p) /\ Below(q, p)
    BY DEF Ordered
  <1>2. /\ l \in Nat /\ \A i \in 1..l : q[i] \in Nat
        /\ \A i \in 1..Len(last) : last[i] \in Nat
        /\ \A i \in 1..Len(held) : held[i] \in Nat
    BY SamplesAreNumbers
  <1>3. /\ s = l + k /\ p \in Nat /\ m.pos = p + size
        /\ \A i \in 1..l : r[i] = q[i]
        /\ \A i \in 1..k : r[l + i] = p + i - 1
    OBVIOUS
  <1> HIDE DEF q, r, l, s, p
  <1>4. ASSUME NEW j \in 1..s
        PROVE  \/ j \in 1..l /\ r[j] = q[j]
               \/ /\ j \in (l + 1)..s /\ r[j] = p + (j - l) - 1
                  /\ j - l \in 1..k
    <2>1. CASE j <= l
      BY <1>2, <1>3, <2>1
    <2>2. CASE ~(j <= l)
      <3>1. j - l \in 1..k /\ l + (j - l) = j
        BY <1>2, <1>3, <2>2
      <3>2. r[l + (j - l)] = p + (j - l) - 1
        BY <1>3, <3>1
      <3> QED
        BY <1>2, <1>3, <2>2, <3>1, <3>2
    <2> QED
      BY <2>1, <2>2
  <1>5. ASSUME NEW t, \A i \in 1..Len(t) : t[i] \in Nat,
               Before(t, q), Below(t, p)
        PROVE  Before(t, r) /\ Below(t, m.pos)
    <2>1. ASSUME NEW i \in 1..Len(t), NEW j \in 1..s
          PROVE  t[i] < r[j]
      <3>1. t[i] \in Nat /\ t[i] < p
        BY <1>5 DEF Below
      <3>2. CASE j \in 1..l /\ r[j] = q[j]
        BY <1>5, <3>2 DEF Before, l
      <3>3. CASE r[j] = p + (j - l) - 1 /\ j - l \in 1..k
        BY <1>2, <1>3, <3>1, <3>3
      <3> QED
        BY <1>4, <3>2, <3>3
    <2>2. ASSUME NEW i \in 1..Len(t)
          PROVE  t[i] < m.pos
      <3>1. t[i] \in Nat /\ t[i] < p
        BY <1>5 DEF Below
      <3> QED
        BY <1>3, <3>1
    <2> QED
      BY <2>1, <2>2 DEF Before, Below, s
  <1>6. Rising(r)
    <2>1. ASSUME NEW i \in 1..s, NEW j \in 1..s, i < j
          PROVE  r[i] < r[j]
      <3>1. CASE j \in 1..l /\ r[j] = q[j]
        <4>1. i \in 1..l /\ r[i] = q[i]
          BY <1>2, <1>3, <2>1, <3>1
        <4> QED
          BY <1>1, <2>1, <3>1, <4>1 DEF Rising, l
      <3>2. CASE j \in (l + 1)..s /\ r[j] = p + (j - l) - 1
        <4>1. CASE i \in 1..l /\ r[i] = q[i]
          <5>1. q[i] < p /\ q[i] \in Nat
            BY <1>1, <1>2, <4>1 DEF Below, l
          <5> QED
            BY <1>2, <1>3, <3>2, <4>1, <5>1
        <4>2. CASE r[i] = p + (i - l) - 1
          BY <1>2, <1>3, <2>1, <3>2, <4>2
        <4> QED
          BY <1>4, <4>1, <4>2
      <3> QED
        BY <1>4, <3>1, <3>2
    <2> QED
      BY <2>1 DEF Rising, s
  <1>7. Below(r, m.pos)
    <2>1. ASSUME NEW j \in 1..s
          PROVE  r[j] < m.pos
      <3>1. CASE j \in 1..l /\ r[j] = q[j]
        <4>1. q[j] < p /\ q[j] \in Nat
          BY <1>1, <1>2, <3>1 DEF Below, l
        <4> QED
          BY <1>3, <3>1, <4>1
      <3>2. CASE r[j] = p + (j - l) - 1 /\ j - l \in 1..k
        BY <1>2, <1>3, <3>2
      <3> QED
        BY <1>4, <3>1, <3>2
    <2> QED
      BY <2>1 DEF Below, s
  <1>8. Before(last, r) /\ Below(last, m.pos)
    BY <1>1, <1>2, <1>5
  <1>9. Before(held, r) /\ Below(held, m.pos)
    BY <1>1, <1>2, <1>5
  <1> QED
    BY <1>1, <1>6, <1>7, <1>8, <1>9 DEF Ordered, r

\* A block goes into the FIFO as far as there is room, also in a seek, where
\* what others left there is not counted.
LEMMA ExecuteExtends ==
    ASSUME StreamInv, Execute
    PROVE  \/ Kept(native, native') /\ call' = call
           \/ \E size \in Blocks, k \in Nat :
                /\ k <= size /\ call' = [call EXCEPT !.made = @ + size]
                /\ native'.pos = Word(native.pos + size)
                /\ Len(native'.fifo) = Len(native.fifo) + k
                /\ \A i \in 1..Len(native.fifo) :
                     native'.fifo[i] = native.fifo[i]
                /\ \A i \in 1..k : native'.fifo[Len(native.fifo) + i] =
                                     Word(native.pos + i - 1)
  <1>1. NativeOK(native) /\ native.lib = "psf"
    BY DEF StreamInv, Execute
  <1>2. CASE native' = [native EXCEPT !.open = FALSE] /\ UNCHANGED call
    BY <1>1, <1>2, CloseKeeps DEF Kept
  <1>3. ASSUME NEW size \in Blocks,
               native' = [fifo_put(native, [i \in 1..size |->
                                              Word(native.pos + i - 1)])
                            EXCEPT !.pos = Word(@ + size)],
               call' = [call EXCEPT !.made = @ + size]
        PROVE  \E k \in Nat :
                 /\ k <= size
                 /\ native'.pos = Word(native.pos + size)
                 /\ Len(native'.fifo) = Len(native.fifo) + k
                 /\ \A i \in 1..Len(native.fifo) :
                      native'.fifo[i] = native.fifo[i]
                 /\ \A i \in 1..k : native'.fifo[Len(native.fifo) + i] =
                                      Word(native.pos + i - 1)
    <2> DEFINE block == Run(native.pos, size)
               w == Word(native.pos + size)
    <2>1. size \in Nat /\ native.pos \in Int
      BY <1>1, EndIsWord, StreamAssumption
    <2>2. w \in Words
      BY <2>1, WordIsWord
    <2>3. /\ block \in Samples /\ Len(block) = size
          /\ \A i \in 1..size : block[i] = Word(native.pos + i - 1)
      BY <2>1, RunIsSamples
    <2>4. native' = [fifo_put(native, block) EXCEPT !.pos = w]
      <3>1. native' = [fifo_put(native, block) EXCEPT
                         !.pos = Word(fifo_put(native, block).pos + size)]
        BY <1>3, Zenon DEF Run
      <3>2. fifo_put(native, block).pos = native.pos
        BY <1>1 DEF fifo_put, NativeOK, NativeT
      <3> QED
        BY <3>1, <3>2
    <2> HIDE DEF block, w
    <2>5. /\ native'.pos = w
          /\ \E k \in 0..Len(block) :
               Joined(native.fifo, SubSeq(block, 1, k), native'.fifo)
      <3>1. block \in Samples /\ NativeOK(native) /\ native.lib = "psf"
        BY <1>1, <2>3
      <3>2. native'.pos = w
        BY <2>2, <2>4, <3>1, PutKeeps
      <3>3. \E k \in 0..Len(block) :
              Joined(native.fifo, SubSeq(block, 1, k), native'.fifo)
        BY <2>2, <2>4, <3>1, PutKeeps, Zenon
      <3> QED
        BY <3>2, <3>3
    <2>6. PICK k \in 0..size :
            Joined(native.fifo, SubSeq(block, 1, k), native'.fifo)
      BY <2>3, <2>5
    <2> DEFINE first == SubSeq(block, 1, k)
    <2>7. Len(first) = k /\ \A i \in 1..k : first[i] = block[i]
      BY <2>3, <2>6, FirstSamples
    <2> HIDE DEF first
    <2>8. Joined(native.fifo, first, native'.fifo)
      BY <2>6 DEF first
    <2>9. \A i \in 1..k : i \in 1..size
      BY <2>1, <2>6
    <2>10. \A i \in 1..k : native'.fifo[Len(native.fifo) + i] =
                             Word(native.pos + i - 1)
      BY <2>3, <2>7, <2>8, <2>9 DEF Joined
    <2>11. /\ Len(native'.fifo) = Len(native.fifo) + k
           /\ \A i \in 1..Len(native.fifo) : native'.fifo[i] = native.fifo[i]
      BY <2>7, <2>8 DEF Joined
    <2>12. k \in Nat /\ k <= size
      BY <2>1, <2>6
    <2> QED
      BY <2>5, <2>10, <2>11, <2>12 DEF w
  <1>4. \/ native' = [native EXCEPT !.open = FALSE] /\ UNCHANGED call
        \/ \E size \in Blocks :
             /\ native' = [fifo_put(native, [i \in 1..size |->
                                               Word(native.pos + i - 1)])
                             EXCEPT !.pos = Word(@ + size)]
             /\ call' = [call EXCEPT !.made = @ + size]
    BY Zenon DEF Execute
  <1> QED
    BY <1>2, <1>3, <1>4

LEMMA ExecuteOrder ==
    ASSUME StreamInv, OrderInv, PosFits, Execute
    PROVE  OrderInv'
  <1>1. Alive /\ pc' = pc /\ out' = out
    BY DEF Execute, At
  <1> DEFINE held == HeldBy(call, pc)
  <1>2. /\ out.data \in Samples /\ held \in Samples /\ native.fifo \in Samples
        /\ native.pos \in Nat /\ Ordered(out.data, held, native)
        /\ call \in CallT
    <2>1. << >> \in Samples
      BY DEF Samples
    <2>2. call \in CallT /\ call.held \in Samples
      BY DEF StreamInv, CallT
    <2>3. held \in Samples
      BY <2>1, <2>2 DEF HeldBy
    <2> QED
      BY <1>1, <2>2, <2>3, EndIsWord
         DEF StreamInv, NativeOK, NativeT, OrderInv
  <1>3. CASE Kept(native, native') /\ call' = call
    BY <1>1, <1>3, StillOrder
  <1>4. ASSUME NEW size \in Blocks, NEW k \in Nat,
               k <= size, call' = [call EXCEPT !.made = @ + size],
               native'.pos = Word(native.pos + size),
               Len(native'.fifo) = Len(native.fifo) + k,
               \A i \in 1..Len(native.fifo) :
                 native'.fifo[i] = native.fifo[i],
               \A i \in 1..k : native'.fifo[Len(native.fifo) + i] =
                                 Word(native.pos + i - 1)
        PROVE  OrderInv'
    <2>1. size \in Nat /\ size <= Buf + 1 /\ Buf \in Nat
      BY StreamAssumption
    <2>2. native.pos + size \in Nat /\ native.pos + size < M
      BY <1>2, <2>1, WordRange DEF PosFits
    <2>3. native'.pos = native.pos + size
      BY <1>4, <2>2, SmallIsWord, WordOfWord
    <2>4. ASSUME NEW i \in 1..k
          PROVE  Word(native.pos + i - 1) = native.pos + i - 1
      <3> DEFINE a == native.pos + i - 1
      <3>1. a \in Nat /\ a < M
        BY <1>2, <1>4, <2>1, <2>2, WordRange
      <3> HIDE DEF a
      <3>2. Word(a) = a
        BY <3>1, SmallIsWord, WordOfWord
      <3> QED
        BY <3>2 DEF a
    <2>5. \A i \in 1..k : native'.fifo[Len(native.fifo) + i] =
                            native.pos + i - 1
      BY <1>4, <2>4
    <2>6. k \in 0..size
      BY <1>4, <2>1
    <2>7. HeldBy(call', pc') = held
      <3>1. call'.seeking = call.seeking /\ call'.held = call.held
        BY <1>2, <1>4 DEF CallT
      <3> QED
        BY <1>1, <3>1 DEF HeldBy
    <2> HIDE DEF held
    <2>8. Ordered(out.data, held, native')
      BY <1>2, <1>4, <2>1, <2>3, <2>5, <2>6, MadeOrder
    <2> QED
      BY <1>1, <2>7, <2>8 DEF OrderInv
  <1> QED
    BY <1>3, <1>4, ExecuteExtends

\* The USF emulator renders past the FIFO, into the buffer of the read.
LEMMA RenderOrder ==
    ASSUME StreamInv, OrderInv, PosFits, usf_Render
    PROVE  OrderInv'
  <1> SUFFICES ASSUME Alive' PROVE OrderInv'
    BY DEF OrderInv
  <1>1. /\ Alive /\ pc = "generate" /\ pc' = pc /\ out' = out
        /\ native.lib = "usf" /\ native'.fifo = native.fifo
        /\ native'.pos = Word(native.pos + Buf)
        /\ call'.held = Run(native.pos, Buf)
        /\ call'.seeking = call.seeking
    BY RenderFacts
  <1>2. /\ native.fifo = << >> /\ native.pos \in Nat /\ Buf \in Nat
        /\ out.data \in Samples
    BY <1>1, EndIsWord, SizeFacts DEF StreamInv, NativeOK
  <1> DEFINE last == out.data
             p == native.pos
             run == Run(p, Buf)
             none == << >>
  <1>3. p + Buf \in Nat /\ p + Buf < M
    BY <1>2, WordRange DEF PosFits
  <1>4. native'.pos = p + Buf
    BY <1>1, <1>3, SmallIsWord, WordOfWord
  <1>5. /\ Len(run) = Buf
        /\ \A i \in 1..Buf : run[i] = p + i - 1
    <2>1. /\ Len(run) = Buf
          /\ \A i \in 1..Buf : run[i] = Word(p + i - 1)
      <3>1. p \in Int /\ Buf \in Nat
        BY <1>2
      <3> QED
        BY <3>1, RunIsSamples
    <2>2. ASSUME NEW i \in 1..Buf
          PROVE  Word(p + i - 1) = p + i - 1
      <3> DEFINE a == p + i - 1
      <3>1. a \in Nat /\ a < M
        BY <1>2, <1>3, WordRange
      <3> HIDE DEF a
      <3>2. Word(a) = a
        BY <3>1, SmallIsWord, WordOfWord
      <3> QED
        BY <3>2 DEF a
    <2> QED
      BY <2>1, <2>2
  <1>6. /\ Below(last, p)
        /\ \A i \in 1..Len(last) : last[i] \in Nat
    BY <1>1, <1>2, SamplesAreNumbers DEF OrderInv, Ordered
  <1>7. Len(none) = 0 /\ native'.fifo = none
    BY <1>1, <1>2
  <1>8. p \in Nat /\ Buf \in Nat
    BY <1>2
  <1> HIDE DEF run, last, p, none
  <1>9. /\ Rising(run) /\ Before(last, run)
        /\ Below(last, native'.pos) /\ Below(run, native'.pos)
    <2>1. Rising(run)
      BY <1>5, <1>8 DEF Rising
    <2>2. Before(last, run)
      <3>1. ASSUME NEW i \in 1..Len(last), NEW j \in 1..Buf
            PROVE  last[i] < run[j]
        <4>1. last[i] < p /\ last[i] \in Nat
          BY <1>6 DEF Below
        <4>2. run[j] = p + j - 1
          BY <1>5
        <4> QED
          BY <1>8, <4>1, <4>2
      <3> QED
        BY <1>5, <3>1 DEF Before
    <2>3. Below(last, native'.pos)
      <3>1. ASSUME NEW i \in 1..Len(last)
            PROVE  last[i] < native'.pos
        <4>1. last[i] < p /\ last[i] \in Nat
          BY <1>6 DEF Below
        <4> QED
          BY <1>4, <1>8, <4>1
      <3> QED
        BY <3>1 DEF Below
    <2>4. Below(run, native'.pos)
      BY <1>4, <1>5, <1>8 DEF Below
    <2> QED
      BY <2>1, <2>2, <2>3, <2>4
  <1>10. \A i \in 1..Len(none) : FALSE
    BY <1>7
  <1>11. Ordered(last, run, native') /\ Ordered(last, none, native')
    BY <1>7, <1>9, <1>10 DEF Ordered, Rising, Before, Below
  <1>12. HeldBy(call', pc') = run \/ HeldBy(call', pc') = none
    BY <1>1 DEF HeldBy, run, p, none
  <1> QED
    BY <1>1, <1>11, <1>12 DEF OrderInv, last

\* The buffer that a read fills: what it held and the first of the FIFO, in
\* order, after the last buffer and before all that is left.
LEMMA ReadFinishOrder ==
    ASSUME StreamInv, OrderInv, ReadFinish
    PROVE  /\ OrderInv'
           /\ Before(out.data, out'.data) /\ Rising(out'.data)
  <1>1. /\ Alive /\ pc = "generate" /\ ~call.seeking /\ pc' = "stamp"
        /\ native'.pos = native.pos
        /\ Len(out'.data) = Buf /\ Len(call.held) \in Nat
    BY ReadFinishFacts
  <1>2. PICK k \in Nat :
          /\ Len(call.held) + k = Buf /\ k <= Len(native.fifo)
          /\ \A i \in 1..Buf :
               out'.data[i] = IF i <= Len(call.held) THEN call.held[i]
                              ELSE native.fifo[i - Len(call.held)]
          /\ Len(native'.fifo) = Len(native.fifo) - k
          /\ \A i \in 1..Len(native'.fifo) :
               native'.fifo[i] = native.fifo[k + i]
    BY ReadFinishFacts
  <1> DEFINE last == out.data
             new == out'.data
             held == call.held
             q == native.fifo
             r == native'.fifo
             p == native.pos
             h == Len(held)
             l == Len(q)
             s == Len(r)
             none == << >>
  <1>3. HeldBy(call, pc) = held /\ HeldBy(call', pc') = none
    BY <1>1 DEF HeldBy
  <1>4. Ordered(last, held, native)
    BY <1>1, <1>3 DEF OrderInv
  <1>5. /\ Rising(held) /\ Rising(q) /\ Before(last, held)
        /\ Before(last, q) /\ Before(held, q)
        /\ Below(last, p) /\ Below(held, p) /\ Below(q, p)
    BY <1>4 DEF Ordered
  <1>6. l \in Nat
    BY FifoLength DEF StreamInv
  <1>7. /\ h \in Nat /\ h + k = Buf /\ k <= l /\ s = l - k
        /\ Len(new) = Buf /\ native'.pos = p
        /\ \A i \in 1..Buf : new[i] = IF i <= h THEN held[i] ELSE q[i - h]
        /\ \A i \in 1..s : r[i] = q[k + i]
    BY <1>1, <1>2
  <1>8. Len(none) = 0
    OBVIOUS
  <1> HIDE DEF last, new, held, q, r, p, h, l, s, none
  <1>9. ASSUME NEW i \in 1..Buf
        PROVE  \/ i \in 1..h /\ new[i] = held[i]
               \/ ~(i <= h) /\ i - h \in 1..k /\ i - h \in 1..l
                  /\ new[i] = q[i - h]
    BY <1>6, <1>7
  <1>10. Before(last, new)
    <2>1. ASSUME NEW i \in 1..Len(last), NEW j \in 1..Buf
          PROVE  last[i] < new[j]
      BY <1>5, <1>9 DEF Before, h, l
    <2> QED
      BY <1>7, <2>1 DEF Before
  <1>11. Rising(new)
    <2>1. ASSUME NEW i \in 1..Buf, NEW j \in 1..Buf, i < j
          PROVE  new[i] < new[j]
      <3>1. CASE j \in 1..h /\ new[j] = held[j]
        <4>1. i \in 1..h /\ new[i] = held[i]
          BY <1>7, <2>1, <3>1
        <4> QED
          BY <1>5, <2>1, <3>1, <4>1 DEF Rising, h
      <3>2. CASE j - h \in 1..l /\ new[j] = q[j - h]
        <4>1. CASE i \in 1..h /\ new[i] = held[i]
          BY <1>5, <3>2, <4>1 DEF Before, h, l
        <4>2. CASE i - h \in 1..l /\ new[i] = q[i - h]
          <5>1. i - h < j - h
            BY <1>7, <2>1
          <5>2. q[i - h] < q[j - h]
            BY <1>5, <3>2, <4>2, <5>1 DEF Rising, l
          <5> QED
            BY <3>2, <4>2, <5>2
        <4> QED
          BY <1>9, <4>1, <4>2
      <3> QED
        BY <1>9, <3>1, <3>2
    <2> QED
      BY <1>7, <2>1 DEF Rising
  <1>12. Below(new, p)
    <2>1. ASSUME NEW i \in 1..Buf PROVE new[i] < p
      BY <1>5, <1>9 DEF Below, h, l
    <2> QED
      BY <1>7, <2>1 DEF Below
  <1>13. \A i \in 1..s : k + i \in 1..l
    BY <1>6, <1>7
  <1>14. Rising(r)
    <2>1. ASSUME NEW i \in 1..s, NEW j \in 1..s, i < j
          PROVE  r[i] < r[j]
      <3>1. k + i \in 1..l /\ k + j \in 1..l /\ k + i < k + j
        BY <1>13, <2>1
      <3>2. q[k + i] < q[k + j]
        BY <1>5, <3>1 DEF Rising, l
      <3> QED
        BY <1>7, <3>2
    <2> QED
      BY <2>1 DEF Rising, s
  <1>15. Below(r, p)
    BY <1>5, <1>7, <1>13 DEF Below, l, s
  <1>16. Before(new, r)
    <2>1. ASSUME NEW i \in 1..Buf, NEW j \in 1..s
          PROVE  new[i] < r[j]
      <3>1. k + j \in 1..l /\ r[j] = q[k + j]
        BY <1>7, <1>13
      <3>2. CASE i \in 1..h /\ new[i] = held[i]
        BY <1>5, <3>1, <3>2 DEF Before, h, l
      <3>3. CASE i - h \in 1..k /\ i - h \in 1..l /\ new[i] = q[i - h]
        <4>1. i - h < k + j
          BY <1>7, <3>3
        <4>2. q[i - h] < q[k + j]
          BY <1>5, <3>1, <3>3, <4>1 DEF Rising, l
        <4> QED
          BY <3>1, <3>3, <4>2
      <3> QED
        BY <1>9, <3>2, <3>3
    <2> QED
      BY <1>7, <2>1 DEF Before, s
  <1>17. \A i \in 1..Len(none) : FALSE
    BY <1>8
  <1>18. Ordered(new, none, native')
    BY <1>7, <1>12, <1>14, <1>15, <1>16, <1>17
       DEF Ordered, Rising, Before, Below, r
  <1> QED
    BY <1>3, <1>10, <1>11, <1>18 DEF OrderInv, last, new

-----------------------------------------------------------------------------
LEMMA InitOrder == Init => OrderInv
  <1> SUFFICES ASSUME Init PROVE OrderInv
    OBVIOUS
  <1>1. native.fifo = << >> /\ out.data = << >> /\ pc = "exited"
    BY DEF Init, Silence
  <1>2. HeldBy(call, pc) = << >>
    BY <1>1 DEF HeldBy
  <1> QED
    BY <1>1, <1>2, OrderCleared DEF OrderInv

LEMMA NextOrder ==
    ASSUME StreamInv, OrderInv, PosFits, [Next]_vars
    PROVE  OrderInv'
  <1>1. CASE UNCHANGED vars
    <2>1. UNCHANGED <<native, out, call, pc>>
      BY <1>1 DEF vars
    <2> QED
      BY <2>1 DEF OrderInv, Alive
  <1>2. CASE Next
    BY <1>2, ListenerOrder, LoopOrder, LoadTrackOrder, SeekOrder,
       SeekLoopOrder, ReadLeftOverOrder, ExecuteOrder, RenderOrder,
       ReadFinishOrder
       DEF Next, ReaderStep
  <1> QED
    BY <1>1, <1>2

(***************************************************************************)
(* Through seeks, which leave their audio in the FIFO and drop what does   *)
(* not fit, failed loads and emulator errors: every sample of a buffer is  *)
(* later in the track than all of the buffer before it, and than those     *)
(* before it in its own.  The emulator's position must not wrap around, as *)
(* a count of samples in 64 bits does not.                                 *)
(***************************************************************************)
THEOREM AudioMovesOn == Spec /\ []PosFits => AudioNeverRepeats
  <1>1. Init => StreamInv /\ OrderInv
    BY InitStream, InitOrder
  <1>2. StreamInv /\ OrderInv /\ PosFits /\ [Next]_vars
          => StreamInv' /\ OrderInv'
    BY NextStream, NextOrder
  <1> DEFINE Advances ==
               \A j \in DOMAIN out'.data :
                 /\ \A i \in DOMAIN out.data : out.data[i] < out'.data[j]
                 /\ \A i \in 1..(j - 1) : out'.data[i] < out'.data[j]
  <1>3. ASSUME StreamInv, OrderInv, [Next]_vars, out' # out
        PROVE  Advances
    <2>1. StreamInv'
      BY <1>3, NextStream
    <2>2. /\ Len(out.data) \in Nat /\ DOMAIN out.data = 1..Len(out.data)
          /\ Len(out'.data) \in Nat /\ DOMAIN out'.data = 1..Len(out'.data)
      <3>1. out.data \in Samples /\ out'.data \in Samples
        BY <1>3, <2>1 DEF StreamInv
      <3> QED
        BY <3>1, LenProperties DEF Samples
    <2>3. CASE ReadFinish
      <3>1. Before(out.data, out'.data) /\ Rising(out'.data)
        BY <1>3, <2>3, ReadFinishOrder
      <3>2. ASSUME NEW j \in 1..Len(out'.data), NEW i \in 1..(j - 1)
            PROVE  out'.data[i] < out'.data[j]
        <4>1. i \in 1..Len(out'.data) /\ i < j
          BY <2>2, <3>2
        <4> QED
          BY <3>1, <4>1 DEF Rising
      <3> QED
        BY <2>2, <3>1, <3>2 DEF Before
    <2>4. CASE ~ReadFinish
      <3>1. out' = Silence
        BY <1>3, <2>4, StepRests DEF Rests
      <3>2. Len(out'.data) = 0
        BY <3>1 DEF Silence
      <3> QED
        BY <2>2, <3>2
    <2> QED
      BY <2>3, <2>4
  <1>4. StreamInv /\ OrderInv /\ [Next]_vars => [out' # out => Advances]_vars
    BY <1>3
  <1> QED
    BY <1>1, <1>2, <1>4, PTL DEF Spec, AudioNeverRepeats
=============================================================================
