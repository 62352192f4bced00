------------------------------ MODULE PsfStream ------------------------------
(***************************************************************************)
(* The PSF and the USF backend (psf and usf/android/Backend.cpp) under the *)
(* loop of a Reader: load, read, seek and teardown of the native globals,  *)
(* the audio between the emulator, the FIFO and the Java buffer, the clock *)
(* that decides when a track is over, and its fade out.  The two files are *)
(* the same but for the emulator: PSF runs it in blocks into the FIFO, USF *)
(* renders a whole buffer past the FIFO.  native.lib says which one it is. *)
(*                                                                         *)
(* A sample is its number since the file was loaded, a word.  The FIFO is  *)
(* a bounded queue of samples (AudioFifo shows that the ring is one).  The *)
(* time unit and the sample rate are scaled: Rate samples and Second       *)
(* "milliseconds" make a second (44100 and 1000 in the code).              *)
(***************************************************************************)
EXTENDS Integers, Sequences, FiniteSetsExt

CONSTANTS
    Rate,        \* g_sample_rate_track once a file is loaded
    Second,      \* milliseconds in a second
    FadeTime,    \* FADE_TIME, a whole number of seconds
    Buf,         \* g_buffer_length_samples_track
    Width,       \* the width of uint64_t
    Tags,        \* the length tags of the files, in milliseconds, 0 for none
    DefaultLength, \* TRACK_LENGTH_DEFAULT, a whole number of seconds
    Libraries,   \* which backends: "psf", "usf"
    Blocks,      \* the numbers of samples sexy_execute may leave
    Failures,    \* which of "load" (a file), "array" (a Java buffer), "render"
                 \* (the USF emulator) may fail
    Commands     \* which of "skip", "seek", "pause", "stop" are given

\* A length in milliseconds fits its type; a block is what the emulator's
\* SPUendflush hands over as soon as it has more than 1024 bytes, and the
\* buffer, the least AudioTrack works with, is not smaller.
ASSUME StreamAssumption ==
    /\ {Rate, Second, FadeTime, Buf, DefaultLength} \cup Blocks
         \subseteq Nat \ {0}
    /\ Second > 1
    /\ Width \in Nat /\ 2^Width \in Nat \ {0}
    /\ Tags \subseteq Nat
    /\ \A length \in Tags \cup {DefaultLength} : length < 2^Width
    /\ \A size \in Blocks : size <= Buf + 1
    /\ FadeTime % Second = 0
    /\ DefaultLength % Second = 0
    /\ Libraries \subseteq {"psf", "usf"}
    /\ Failures \subseteq {"load", "array", "render"}
    /\ Commands \subseteq {"skip", "seek", "pause", "stop"}

VARIABLES
    native,     \* the globals of Backend.cpp and of the emulator
    out,        \* the buffer the last readNextSamples filled
    pc,         \* where the reader thread is
    call,       \* the locals of the native call it is in
    mine,       \* Reader.backend is this backend
    queued,     \* Reader.queuedTrackId # null
    state,      \* Player.state
    hist        \* history: a seek in this track; a failed load, or a stop
                \* under a running reader, ever

vars == <<native, out, pc, call, mine, queued, state, hist>>

\* Mutant: a difference below zero stays below zero.
WordSigned(n) == n

Word(n) == n % 2^Width
Words == 0..(2^Width - 1)
Samples == Seq(Words)

NoCall == [held |-> << >>, want |-> 0, made |-> 0, toRead |-> 0,
           remaining |-> 0, target |-> 0, seeking |-> FALSE]
Silence == [start |-> 0, data |-> << >>, gain |-> << >>]

Pcs == {"exited", "top", "loaded", "seek", "over", "read",
        "generate", "stamp"}

TypeOK ==
    /\ native \in
         [lib : Libraries, open : BOOLEAN, pos : Words, initialized : BOOLEAN,
          rate : {0, Rate}, lengthMs : Words, fadeStart : Words,
          fadeLen : Words, buf : {0, Buf}, played : Words,
          error : {"none", "load", "init", "array", "render"},
          fifo : Samples, mem : {"null", "live", "freed"},
          fault : {"none", "doubleFree", "unallocated", "divide"}]
    /\ Len(native.fifo) <= 2 * Buf
    /\ out.start \in Words /\ {out.data, out.gain} \subseteq Samples
    /\ pc \in Pcs
    /\ call \in [held : Samples, want : 0..Buf, made : Nat, toRead : 0..Buf,
                 remaining : Words, target : Words, seeking : BOOLEAN]
    /\ {mine, queued} \subseteq BOOLEAN
    /\ state \in {"stopped", "playing", "paused"}
    /\ hist \in [seeked : BOOLEAN, disturbed : BOOLEAN]

-----------------------------------------------------------------------------
(***************************************************************************)
(* The functions of Backend.cpp that the native calls share, as functions  *)
(* of the globals n.                                                       *)
(***************************************************************************)
convert_ms_to_samples(rate, ms) == Word(rate * ms) \div Second

convert_samples_to_ms(rate, samples) == Word(Second * samples) \div rate

\* Mutant: a ring for one buffer.
CapacityOne == Buf

\* fifo_init with twice g_buffer_length_bytes_track
Capacity == 2 * Buf

\* What does not fit is dropped; the result of fifo_put is not looked at.
fifo_put(n, block) ==
    [n EXCEPT !.fifo = @ \o SubSeq(block, 1, Min({Len(block),
                                                  Capacity - Len(@)}))]

fifo_peek(n, count) == SubSeq(n.fifo, 1, Min({count, Len(n.fifo)}))

\* Mutant: the last byte that was copied is not passed over.
fifo_getOneShort(n, count) ==
    [n EXCEPT !.fifo = IF count = 0 \/ @ = << >> THEN @
                       ELSE SubSeq(@, Min({count, Len(@)}), Len(@))]

fifo_get(n, count) ==
    [n EXCEPT !.fifo = SubSeq(@, Min({count, Len(@)}) + 1, Len(@))]

\* Mutant: the instance stays marked as loaded.
psf_teardownKeepsFlag(n) ==
    [n EXCEPT !.fault = IF n.mem = "freed" THEN "doubleFree" ELSE @,
              !.mem = IF @ = "live" THEN "freed" ELSE @,
              !.played = 0,
              !.open = FALSE]

\* The buffers are freed and set to null, but not the ring's: its pointer
\* and its positions stay, and so do the rates, the lengths and the error.
psf_teardownInternal(n) ==
    [n EXCEPT !.fault = IF n.mem = "freed" THEN "doubleFree" ELSE @,
              !.mem = IF @ = "live" THEN "freed" ELSE @,
              !.played = 0,
              !.open = FALSE,
              !.initialized = FALSE]

\* usf_shutdown looks into g_emu_state, which is null after a teardown and
\* dangles after a failed load; then the same buffers are freed.
usf_teardownInternal(n) ==
    [n EXCEPT !.fault = IF ~n.open THEN "unallocated"
                        ELSE IF n.mem = "freed" THEN "doubleFree" ELSE @,
              !.mem = IF @ = "live" THEN "freed" ELSE @,
              !.played = 0,
              !.open = FALSE,
              !.initialized = FALSE]

teardownInternal(n) ==
    IF n.lib = "usf" THEN usf_teardownInternal(n) ELSE psf_teardownInternal(n)

\* loadFileInternal with a file that loads or does not.  open: the cpu of
\* the PSF emulator is; g_emu_state of the USF backend is a live state.
loadFileInternal(n, ok, ms) ==
    LET cleared == IF n.initialized THEN teardownInternal(n) ELSE n
    IN  IF ok
        THEN [cleared EXCEPT
                !.lengthMs = ms,
                !.open = TRUE,
                !.pos = 0,
                !.initialized = TRUE,
                !.rate = Rate,
                !.buf = Buf,
                !.fadeStart = convert_ms_to_samples(Rate,
                                                    Word(ms - FadeTime)),
                !.fadeLen = convert_ms_to_samples(Rate, FadeTime),
                !.fifo = << >>,
                !.mem = "live"]
        ELSE [cleared EXCEPT !.lengthMs = ms, !.open = FALSE,
                             !.error = "load"]

\* getMillisPlayedInternal; a division by zero that does not trap gives 0.
MillisPlayed ==
    IF native.rate = 0 THEN 0
    ELSE convert_samples_to_ms(native.rate, native.played)

\* isTrackOver: only the PSF backend asks whether the emulator is open.
psf_isTrackOver == native.open => MillisPlayed >= native.lengthMs
usf_isTrackOver == MillisPlayed >= native.lengthMs

isTrackOver ==
    IF native.lib = "usf" THEN usf_isTrackOver ELSE psf_isTrackOver

\* The clock has no rate to divide by until a file was loaded.
DivideTraps(n) == n.rate = 0 /\ native' = [n EXCEPT !.fault = "divide"]

\* Mutant: the position in the track is taken for the one in the buffer.
processFadeOutFromBuffer(n) ==
    [i \in 1..n.buf |->
        IF n.played < n.fadeStart THEN n.fadeLen
        ELSE Word(n.fadeStart + n.fadeLen - (n.fadeStart + i - 1))]

\* processFadeOut: the factor of each sample, in units of 1 / fadeLen.  The
\* loop leaves at the first sample before the threshold, so a buffer that
\* begins before it is not faded at all; past the end of the track the
\* unsigned remainder is huge.
processFadeOut(n) ==
    [i \in 1..n.buf |->
        IF n.played < n.fadeStart THEN n.fadeLen
        ELSE Word(n.fadeStart + n.fadeLen - (n.played + i - 1))]

\* Mutant: the fraction of a second is kept.
getFileTrackLengthExact(tag) == IF tag > 0 THEN tag ELSE DefaultLength

\* ScannerImpl.getFileTrackLength: whole seconds; File.kt puts the default
\* in the place of zero.
getFileTrackLength(tag) ==
    LET whole == (tag \div Second) * Second
    IN  IF whole > 0 THEN whole ELSE DefaultLength

-----------------------------------------------------------------------------
Init ==
    /\ \E lib \in Libraries :
         native = [lib |-> lib, open |-> FALSE, pos |-> 0,
                   initialized |-> FALSE, rate |-> 0, lengthMs |-> 0,
                   fadeStart |-> 0, fadeLen |-> 0, buf |-> 0, played |-> 0,
                   error |-> "none", fifo |-> << >>, mem |-> "null",
                   fault |-> "none"]
    /\ out = Silence
    /\ pc = "exited"
    /\ call = NoCall
    /\ mine = FALSE
    /\ queued = FALSE
    /\ state = "stopped"
    /\ hist = [seeked |-> FALSE, disturbed |-> FALSE]

Alive == native.fault = "none"
At(where) == pc = where /\ Alive

LoadResults == IF "load" \in Failures THEN BOOLEAN ELSE {TRUE}

-----------------------------------------------------------------------------
(***************************************************************************)
(* The listener, on the main thread, between two native calls of the       *)
(* reader thread.  (A skip or a pause during a call is seen only after it; *)
(* what a teardown during one does is undefined.)  A stop tears the        *)
(* emulator down at once; the reader thread goes on until it looks at the  *)
(* state again.                                                            *)
(***************************************************************************)
BetweenCalls == Alive /\ pc \notin {"seek", "generate"}

Start ==
    /\ At("exited") /\ state = "stopped"
    /\ pc' = "top"
    /\ state' = "playing"
    /\ queued' = TRUE
    /\ mine' = FALSE
    /\ UNCHANGED <<native, out, call, hist>>

\* Player.start from STATE_PAUSED goes on with the same Reader.
Resume ==
    /\ At("exited") /\ state = "paused"
    /\ pc' = "top"
    /\ state' = "playing"
    /\ UNCHANGED <<native, out, call, mine, queued, hist>>

Skip ==
    /\ "skip" \in Commands
    /\ BetweenCalls /\ state # "stopped"
    /\ queued' = TRUE
    /\ UNCHANGED <<native, out, pc, call, mine, state, hist>>

Pause ==
    /\ "pause" \in Commands
    /\ BetweenCalls /\ state = "playing"
    /\ state' = "paused"
    /\ UNCHANGED <<native, out, pc, call, mine, queued, hist>>

\* Player.stop: reader?.backend?.teardown()
stop ==
    /\ native' = IF mine /\ state # "stopped" THEN teardownInternal(native)
                 ELSE native
    /\ state' = "stopped"

Stop ==
    /\ "stop" \in Commands
    /\ BetweenCalls /\ state # "stopped"
    /\ stop
    /\ hist' = [hist EXCEPT !.disturbed = @ \/ pc # "exited"]
    /\ UNCHANGED <<out, pc, call, mine, queued>>

-----------------------------------------------------------------------------
(***************************************************************************)
(* The loop of the Reader.                                                 *)
(***************************************************************************)
LoopEnds ==
    /\ At("top")
    /\ state # "playing"
    /\ pc' = "exited"
    /\ UNCHANGED <<native, out, call, mine, queued, state, hist>>

LoadTrack ==
    /\ At("top")
    /\ state = "playing" /\ queued
    /\ queued' = FALSE
    /\ mine' = TRUE
    /\ \E ok \in LoadResults, tag \in Tags :
         /\ native' = loadFileInternal(
                        IF mine THEN teardownInternal(native) ELSE native,
                        ok, getFileTrackLength(tag))
         /\ hist' = [hist EXCEPT !.seeked = FALSE, !.disturbed = @ \/ ~ok]
    /\ out' = Silence
    /\ pc' = "loaded"
    /\ UNCHANGED <<call, state>>

\* The queued track is one of another backend, which the Reader then uses.
LoadOther ==
    /\ At("top")
    /\ state = "playing" /\ queued
    /\ queued' = FALSE
    /\ mine' = FALSE
    /\ native' = IF mine THEN teardownInternal(native) ELSE native
    /\ UNCHANGED <<out, pc, call, state, hist>>

\* The loop body from the test for a queued seek on.
InBody ==
    \/ At("loaded")
    \/ At("top") /\ state = "playing" /\ ~queued /\ mine

\* seek up to its loop: the seek bar goes to the length of the track, and a
\* target that is not ahead means to load the file again.
Seek ==
    /\ InBody
    /\ "seek" \in Commands
    /\ \E t \in 0..native.lengthMs, ok \in LoadResults :
         LET target == convert_ms_to_samples(native.rate, t)
             back == target <= native.played
             n == IF back
                  THEN loadFileInternal(teardownInternal(native), ok,
                                        native.lengthMs)
                  ELSE native
         IN  /\ ~back => ok
             /\ native' = n
             /\ out' = IF back THEN Silence ELSE out
             /\ call' = [NoCall EXCEPT !.seeking = TRUE, !.target = target,
                            !.remaining = Word(target - n.played)]
             /\ hist' = [hist EXCEPT !.seeked = TRUE, !.disturbed = @ \/ ~ok]
    /\ pc' = "seek"
    /\ UNCHANGED <<mine, queued, state>>

\* One round of the loop; g_stop_seek is never set.
SeekBlock ==
    /\ At("seek")
    /\ call.remaining > 0
    /\ call' = [call EXCEPT !.want = Min({call.remaining, native.buf}),
                            !.made = 0]
    /\ pc' = "generate"
    /\ UNCHANGED <<native, out, mine, queued, state, hist>>

\* Mutant: what is less than a buffer is not skipped.
SeekDoneEarly ==
    /\ At("seek")
    /\ call.remaining < native.buf
    /\ pc' = "over"
    /\ call' = NoCall
    /\ UNCHANGED <<native, out, mine, queued, state, hist>>

SeekDone ==
    /\ At("seek")
    /\ call.remaining = 0
    /\ pc' = "over"
    /\ call' = NoCall
    /\ UNCHANGED <<native, out, mine, queued, state, hist>>

\* The end-of-track test, once the writer has drained the full buffers: the
\* next track is queued, but a read still follows; or the playlist ends with
\* stop().
CheckOver ==
    /\ InBody \/ At("over")
    /\ \/ /\ queued' = (queued \/ isTrackOver)
          /\ pc' = "read"
          /\ UNCHANGED <<native, state>>
       \/ /\ isTrackOver
          /\ pc' = "exited"
          /\ stop
          /\ UNCHANGED queued
       \/ /\ native.lib = "usf" /\ DivideTraps(native)
          /\ UNCHANGED <<queued, pc, state>>
    /\ UNCHANGED <<out, call, mine, hist>>

-----------------------------------------------------------------------------
(***************************************************************************)
(* readNextSamples and generateAudio.                                      *)
(***************************************************************************)
ReadRefused ==
    /\ At("read")
    /\ native.rate = 0
    /\ native' = [native EXCEPT !.error = "init"]
    /\ pc' = "stamp"
    /\ UNCHANGED <<out, call, mine, queued, state, hist>>

ReadNoArray ==
    /\ At("read")
    /\ "array" \in Failures
    /\ native.rate # 0
    /\ native' = [native EXCEPT !.error = "array"]
    /\ pc' = "stamp"
    /\ UNCHANGED <<out, call, mine, queued, state, hist>>

\* The remaining samples and the left-over audio; without buffers there is
\* no memory to copy it to.
ReadLeftOver ==
    /\ At("read")
    /\ native.rate # 0
    /\ LET left == fifo_peek(native, native.buf)
           remaining == Word(native.fadeStart + native.fadeLen
                                 - native.played)
       IN  /\ call' = [NoCall EXCEPT !.held = left,
                                     !.want = native.buf - Len(left),
                                     !.toRead = Min({remaining, native.buf})]
           /\ native' = IF left # << >> /\ ~native.initialized
                        THEN [native EXCEPT !.fault = "unallocated"]
                        ELSE fifo_get(native, native.buf)
    /\ pc' = "generate"
    /\ UNCHANGED <<out, mine, queued, state, hist>>

\* One round of generateAudio: the emulator, external, leaves a block or
\* comes to the end of its own track and closes.
Execute ==
    /\ At("generate")
    /\ native.lib = "psf"
    /\ call.made < call.want /\ native.open
    /\ \/ \E size \in Blocks :
            /\ native' = [fifo_put(native, [i \in 1..size |->
                                              Word(native.pos + i - 1)])
                            EXCEPT !.pos = Word(@ + size)]
            /\ call' = [call EXCEPT !.made = @ + size]
       \/ /\ native' = [native EXCEPT !.open = FALSE]
          /\ UNCHANGED call
    /\ UNCHANGED <<out, pc, mine, queued, state, hist>>

\* generateAudio of the USF backend: the emulator, external, renders a whole
\* buffer, whatever was asked for; it needs a state to look into.
usf_Render ==
    /\ At("generate")
    /\ native.lib = "usf"
    /\ call.made < call.want
    /\ IF native.open
       THEN /\ native' = [native EXCEPT !.pos = Word(@ + native.buf)]
            /\ call' = [call EXCEPT !.made = call.want,
                          !.held = [i \in 1..native.buf |->
                                      Word(native.pos + i - 1)]]
       ELSE /\ native' = [native EXCEPT !.fault = "unallocated"]
            /\ UNCHANGED call
    /\ UNCHANGED <<out, pc, mine, queued, state, hist>>

\* The emulator reports an error: readNextSamples returns, seek goes on.
usf_RenderFails ==
    /\ At("generate")
    /\ native.lib = "usf" /\ native.open
    /\ "render" \in Failures
    /\ call.made < call.want
    /\ native' = [native EXCEPT !.error = "render"]
    /\ call' = IF call.seeking THEN [call EXCEPT !.made = call.want] ELSE NoCall
    /\ pc' = IF call.seeking THEN pc ELSE "stamp"
    /\ UNCHANGED <<out, mine, queued, state, hist>>

Generated == call.made >= call.want
GenerateFailed == native.lib = "psf" /\ ~Generated /\ ~native.open

\* seek does not look at the result of generateAudio, and leaves what was
\* generated in the FIFO.
SeekAdvance ==
    /\ At("generate")
    /\ call.seeking
    /\ Generated \/ GenerateFailed
    /\ native' = [native EXCEPT !.played = Word(@ + call.want)]
    /\ call' = [call EXCEPT !.remaining = Word(@ - call.want)]
    /\ pc' = "seek"
    /\ UNCHANGED <<out, mine, queued, state, hist>>

\* The emulator has closed: the read returns, the left-over audio is lost.
ReadCut ==
    /\ At("generate")
    /\ ~call.seeking /\ GenerateFailed
    /\ pc' = "stamp"
    /\ call' = NoCall
    /\ UNCHANGED <<native, out, mine, queued, state, hist>>

\* The rest of the buffer, the fade out, and the advance of the clock.
ReadFinish ==
    /\ At("generate")
    /\ ~call.seeking /\ Generated
    /\ out' = [start |-> native.played,
               data |-> call.held \o fifo_peek(native, call.want),
               gain |-> processFadeOut(native)]
    /\ native' = [fifo_get(native, call.want)
                    EXCEPT !.played = Word(@ + call.toRead)]
    /\ pc' = "stamp"
    /\ call' = NoCall
    /\ UNCHANGED <<mine, queued, state, hist>>

\* getMillisPlayed divides by the rate: by zero, with the build's outcome,
\* when no file was ever loaded.  Then the Reader asks for the last error.
Stamp ==
    /\ At("stamp")
    /\ UNCHANGED native \/ DivideTraps(native)
    /\ pc' = IF native.error = "none" THEN "top" ELSE "exited"
    /\ UNCHANGED <<out, call, mine, queued, state, hist>>

-----------------------------------------------------------------------------
ReaderStep ==
    \/ LoopEnds \/ LoadTrack \/ LoadOther
    \/ SeekBlock \/ SeekDone \/ CheckOver
    \/ ReadRefused \/ ReadNoArray \/ ReadLeftOver
    \/ Execute \/ usf_Render \/ usf_RenderFails \/ SeekAdvance \/ ReadCut \/ ReadFinish \/ Stamp

Next == Start \/ Resume \/ Skip \/ Pause \/ Stop \/ Seek \/ ReaderStep

\* The reader thread is scheduled; listeners promise nothing.
Spec == Init /\ [][Next]_vars /\ WF_vars(ReaderStep)

-----------------------------------------------------------------------------
(***************************************************************************)
(* Until a file fails to load or a stop reaches a running reader, no       *)
(* sequence of loads, seeks, skips, changes of backend and ends of the     *)
(* playlist frees the ring twice, reads without buffers or divides by a    *)
(* rate of zero: the flag g_initialized and the four teardowns agree.      *)
(***************************************************************************)
MemorySafeInPlainUse ==
    native.fault # "none" => hist.disturbed

\* The samples of a buffer that are before the end of the track.
Within(o) == {i \in DOMAIN o.gain :
                o.start + i - 1 < native.fadeStart + native.fadeLen}

(***************************************************************************)
(* Until a seek, the buffers readNextSamples fills are the track without a *)
(* gap or a repetition, in step with the clock: the blocks of the emulator *)
(* never overrun the FIFO, whatever was left over.                         *)
(***************************************************************************)
BuffersFollowTheClock ==
    ~(hist.seeked \/ hist.disturbed) =>
        /\ Len(out.data) = Len(out.gain)
        /\ \A i \in Within(out) : out.data[i] = out.start + i - 1

(***************************************************************************)
(* Through seeks, which leave their audio in the FIFO and drop what does   *)
(* not fit, and after an emulator error: a buffer is old audio at worst,   *)
(* never audio out of order or audio that was heard before.                *)
(***************************************************************************)
AudioNeverRepeats ==
    [][out' # out =>
         \A j \in DOMAIN out'.data :
            /\ \A i \in DOMAIN out.data : out.data[i] < out'.data[j]
            /\ \A i \in 1..(j - 1) : out'.data[i] < out'.data[j]]_vars

(***************************************************************************)
(* processFadeOut over many buffers: up to the end of the track the volume *)
(* never rises again, within a buffer, from one to the next and over a     *)
(* seek ahead.                                                             *)
(***************************************************************************)
FadeNeverRises ==
    [][out' # out =>
         \A j \in Within(out)' :
            /\ \A i \in Within(out) : out'.gain[j] <= out.gain[i]
            /\ \A i \in 1..j : out'.gain[j] <= out'.gain[i]]_vars

(***************************************************************************)
(* A seek, ahead or back, ends with the clock at its target, also when the *)
(* emulator closes or fails on the way, and when a PSF file fails to load  *)
(* again.  (With a USF file that does, the seek renders from a freed state.)*)
(***************************************************************************)
SeekLands ==
    /\ (pc = "seek" /\ Alive) ~>
         (pc = "over" \/ (native.lib = "usf" /\ hist.disturbed /\ ~Alive))
    /\ [][pc = "seek" /\ pc' = "over" => native.played = call.target]_vars

(***************************************************************************)
(* A track the listener leaves alone comes to its end: the clock, counted  *)
(* in samples and rounded down twice, reaches the length of the track,     *)
(* although reads stop at the last sample.                                 *)
(***************************************************************************)
TrackEnds ==
    (native.open /\ mine /\ state = "playing") ~>
        (\/ isTrackOver \/ ~Alive
         \/ queued \/ state # "playing" \/ pc \in {"seek", "exited"})
=============================================================================
