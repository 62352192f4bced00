------------------------------ MODULE MusicEmu ------------------------------
(***************************************************************************)
(* The GME backend (gme/android/Backend.cpp) and Music_Emu, the layer of   *)
(* Game_Music_Emu over its emulators: it runs ahead of the listener to     *)
(* look for silence, drops silence at the beginning, ends a track that     *)
(* stays silent, fades a track out, skips and seeks.                       *)
(*                                                                         *)
(* An emulator is external: a track is a sequence of frames (a left and a  *)
(* right sample), loud or silent, that either starts over at its end or    *)
(* fails there, as a SPC can.  The factor stereo drops out of all counts.  *)
(* Times in milliseconds are scaled: Ticks of them are a second.           *)
(***************************************************************************)
EXTENDS Integers, SequencesExt

CONSTANTS
    Rate,         \* sample_rate, frames in a second
    Ticks,        \* 1000
    Buf,          \* g_buffer_size
    buf_size,     \* the buffer Music_Emu looks for silence in
    InitialMax,   \* max_initial_silence, in frames
    SilenceMax,   \* silence_max, in frames
    Lookahead,    \* silence_lookahead
    FadeBlock,    \* fade_block_size
    fade_shift,
    FadeStep,     \* what set_fade gives for fade_step
    Unit,         \* 1 << 14, the gain without a fade
    Width,        \* the width of int
    TempoFade,    \* the 1000000000 ms of setTempo
    Tracks,       \* the tracks that can be played
    Targets       \* the times a listener seeks to

\* What is said of powers is arithmetic; the provers do not interpret ^.
ASSUME EmuAssumption ==
    /\ {Rate, Ticks, Buf, buf_size, SilenceMax, FadeBlock, FadeStep, Unit}
         \subseteq Nat \ {0}
    /\ Width \in Nat \ {0, 1}
    /\ 2^(Width - 1) \in Nat /\ 2^Width = 2 * 2^(Width - 1)
    /\ 2^(Width - 2) \in 0..(2^(Width - 1) - 1)
    /\ buf_size <= SilenceMax       \* 2048 samples and 6 seconds
    /\ {InitialMax, fade_shift, TempoFade} \cup Targets \subseteq Nat
    /\ Lookahead \in Nat \ {0, 1}    \* 3 and 6 in the emulators in use
    /\ \A t \in Tracks : /\ t.loud \in Seq(BOOLEAN) /\ t.loud # << >>
                         /\ t.fails \in BOOLEAN
                         /\ t.length \in Nat

VARIABLES
    track,    \* the track that is played; one in a behaviour, for nothing of
              \* an emulator is left after its teardown
    emu,      \* g_emu
    native,   \* g_fade_time_ms and g_last_error
    heard,    \* the last buffer of a running track: where it began, the
              \* fade_start in force, its frames and the gain of its blocks
    pc,       \* of the reader thread: "top" of its loop, "over" (before
              \* isTrackOver), in "start" (start_track), "play" or "dead"
    target,   \* the samples a seek is on its way to, or Nowhere in a load
    mine,     \* Reader.backend is the GME backend
    queued    \* Reader.queuedTrackId # null

vars == <<track, emu, native, heard, pc, target, mine, queued>>

Silent == -1
Nowhere == -1

\* Signed integers of the width of int.
Signed(n) == ((n + 2^(Width - 1)) % 2^Width) - 2^(Width - 1)

msec_to_samples(ms) ==
    Signed(Rate * (ms \div Ticks) + (Rate * (ms % Ticks)) \div Ticks)

\* A listener seeks within the track, to a time whose samples are an int.
ASSUME TargetsAssumption == \A ms \in Targets : msec_to_samples(ms) \in Nat

\* The frames from fade_start on until int_log would shift by the width of
\* int (half a minute), and until fade_shift halvings are over (8 seconds).
Vanished == FadeBlock * FadeStep * Width
Faint == FadeBlock * (1 + FadeStep * fade_shift)

\* 1 << 14 is a multiple of 1 << fade_shift, no fade is so long that a buffer
\* of it leaves the int, and a listener does not seek past it.
ASSUME FadeAssumption ==
    /\ \A n \in 0..Width : 2^n \in Nat \ {0} /\ 2^(n + 1) = 2 * 2^n
    /\ fade_shift < Width /\ FadeStep <= Unit /\ Unit % 2^fade_shift = 0
    /\ 2 * Buf + Faint <= Vanished /\ Vanished <= 2^(Width - 1)
    /\ \A t \in Tracks :
         /\ msec_to_samples(t.length) \in Nat
         /\ \A ms \in Targets :
              msec_to_samples(ms) + Buf <= msec_to_samples(t.length) + Vanished

NothingHeard == [at |-> 0, start |-> 0, frames |-> << >>, gains |-> << >>]

TypeOK ==
    /\ track \in Tracks
    /\ emu \in [loaded : BOOLEAN, playable : BOOLEAN,
                out_time : Nat, emu_time : Nat, emu_track_ended : BOOLEAN, track_ended : BOOLEAN,
                fade_start : -(2^(Width - 1))..(2^(Width - 1) - 1),
                fade_step : {1, FadeStep}, silence_time : Nat,
                silence_count : Nat, buf_remain : 0..buf_size,
                buf : Nat, pos : Nat]
    /\ native \in [fade : Nat, error : {"none", "load", "not ready"}]
    /\ heard \in [at : Nat, start : Int, frames : Seq(Nat \cup {Silent}),
                  gains : Seq(0..Unit)]
    /\ pc \in {"top", "over", "start", "play", "dead"}
    /\ target \in Nat \cup {Nowhere}
    /\ {mine, queued} \subseteq BOOLEAN

-----------------------------------------------------------------------------
(***************************************************************************)
(* The emulator.                                                           *)
(***************************************************************************)
Loud(p) == /\ p < Len(track.loud) \/ ~track.fails
           /\ track.loud[(p % Len(track.loud)) + 1]

\* play_: n frames on; behind the end of a SPC it returns an error.
play_(e, n) ==
    [e EXCEPT !.pos = @ + n,
              !.emu_track_ended = track.fails /\ e.pos + n > Len(track.loud)]

\* emu_play, and the skip_ of skip: after the end the time goes on alone.
emu_play(e, n) ==
    LET t == [e EXCEPT !.emu_time = @ + n]
    IN  IF e.emu_track_ended THEN t ELSE play_(t, n)

\* How many of the n frames from p are silent at the end.
count_silence(p, n) ==
    n - Max({0} \cup {i \in 1..n : Loud(p + i - 1)})

fill_buf(e) ==
    LET t == emu_play(e, buf_size)
        silence == count_silence(e.pos, buf_size)
    IN  IF e.emu_track_ended
        THEN [e EXCEPT !.silence_count = @ + buf_size]
        ELSE IF silence = buf_size
        THEN [t EXCEPT !.silence_count = @ + buf_size]
        ELSE [t EXCEPT !.silence_time = t.emu_time - silence,
                       !.buf_remain = buf_size, !.buf = e.pos]

\* clear_track_vars.
Cleared(e) ==
    [e EXCEPT !.out_time = 0, !.emu_time = 0, !.emu_track_ended = TRUE,
              !.track_ended = TRUE, !.fade_start = 2^(Width - 2),
              !.fade_step = 1, !.silence_time = 0, !.silence_count = 0,
              !.buf_remain = 0, !.pos = 0]

\* start_track up to its loop.
start_track(e) ==
    [Cleared(e) EXCEPT !.emu_track_ended = FALSE, !.track_ended = FALSE]

set_fade(e, ms) ==
    [e EXCEPT !.fade_step = FadeStep, !.fade_start = msec_to_samples(ms)]

\* Mutant: what was looked ahead is skipped once more.
skipAgain(e, count) ==
    LET n == Min({count, e.silence_count})
        m == Min({count - n, e.buf_remain})
        t == [e EXCEPT !.out_time = @ + count, !.silence_count = @ - n,
                       !.buf_remain = @ - m]
        u == IF count - n > 0 /\ ~e.emu_track_ended
             THEN emu_play(t, count - n) ELSE t
    IN  [u EXCEPT !.track_ended = \/ @
                                  \/ /\ u.emu_track_ended
                                     /\ u.silence_count + u.buf_remain = 0]

\* skip: first what is there of silence and of the buffer, then the emulator.
skip(e, count) ==
    LET n == Min({count, e.silence_count})
        m == Min({count - n, e.buf_remain})
        rest == count - n - m
        t == [e EXCEPT !.out_time = @ + count, !.silence_count = @ - n,
                       !.buf_remain = @ - m]
        u == IF rest > 0 /\ ~e.emu_track_ended THEN emu_play(t, rest) ELSE t
    IN  [u EXCEPT !.track_ended = \/ @
                                  \/ /\ u.emu_track_ended
                                     /\ u.silence_count + u.buf_remain = 0]

-----------------------------------------------------------------------------
Init ==
    /\ track \in Tracks
    /\ emu = [loaded |-> FALSE, playable |-> FALSE, out_time |-> 0,
              emu_time |-> 0, emu_track_ended |-> TRUE, track_ended |-> TRUE,
              fade_start |-> 2^(Width - 2), fade_step |-> 1,
              silence_time |-> 0, silence_count |-> 0, buf_remain |-> 0,
              buf |-> 0, pos |-> 0]
    /\ native = [fade |-> 0, error |-> "none"]
    /\ heard = NothingHeard
    /\ pc = "top"
    /\ target = Nowhere
    /\ mine = FALSE
    /\ queued = TRUE

\* teardown deletes the emulator and forgets the fade.
Deleted(e) == [Cleared(e) EXCEPT !.loaded = FALSE, !.playable = FALSE,
                                 !.buf = 0]
teardown(n) == [n EXCEPT !.fade = 0]

(***************************************************************************)
(* The Reader and the Player, between two native calls.                    *)
(***************************************************************************)
Skip ==
    /\ pc = "top" /\ ~queued
    /\ queued' = TRUE
    /\ UNCHANGED <<track, emu, native, heard, pc, target, mine>>

\* Player.stop, and a start with a new Reader once the old one has ended.
StopAndStart ==
    /\ pc \in {"top", "over", "dead"} /\ mine
    /\ emu' = Deleted(emu)
    /\ native' = teardown(native)
    /\ mine' = FALSE
    /\ queued' = TRUE
    /\ pc' = "top"
    /\ UNCHANGED <<track, heard, target>>

\* The queued track is one of another backend.
LoadOther ==
    /\ pc = "top" /\ queued /\ mine
    /\ emu' = Deleted(emu)
    /\ native' = teardown(native)
    /\ mine' = FALSE
    /\ UNCHANGED <<track, heard, pc, target, queued>>

\* The queued track, with a teardown before, up to the loop of start_track.
LoadFile ==
    /\ pc = "top" /\ queued
    /\ emu' = [start_track(Deleted(emu)) EXCEPT !.loaded = TRUE,
                                               !.playable = TRUE]
    /\ native' = [teardown(native) EXCEPT !.error = "none"]
    /\ heard' = NothingHeard
    /\ target' = Nowhere
    /\ pc' = "start"
    /\ mine' = TRUE
    /\ queued' = FALSE
    /\ UNCHANGED track

\* loadFile returns early: with no emulator when the file is of no known
\* type, with one that has nothing to play when it does not load.
LoadFails ==
    /\ pc = "top" /\ queued
    /\ \E identified \in BOOLEAN :
         emu' = [Deleted(emu) EXCEPT !.loaded = identified]
    /\ native' = [teardown(native) EXCEPT !.error = "load"]
    /\ heard' = NothingHeard
    /\ mine' = TRUE
    /\ queued' = FALSE
    /\ UNCHANGED <<track, pc, target>>

\* seek: ahead at once, back through start_track, which fails where there
\* is nothing to play.  A track that has ended is over behind its end, too.
\* The Reader goes on to isTrackOver.
Seek ==
    /\ pc = "top" /\ mine /\ ~queued
    /\ \E ms \in Targets :
         LET time == msec_to_samples(ms)
             back == time < emu.out_time
         IN  /\ emu' = IF ~emu.loaded THEN emu
                       ELSE IF back /\ emu.playable THEN start_track(emu)
                       ELSE set_fade(IF back THEN Cleared(emu)
                                     ELSE skip(emu, time - emu.out_time),
                                     native.fade)
             /\ IF back /\ emu.playable
                THEN pc' = "start" /\ target' = time
                ELSE pc' = "over" /\ UNCHANGED target
             /\ heard' = IF emu.track_ended /\ ~back THEN heard
                         ELSE NothingHeard
    /\ UNCHANGED <<track, native, mine, queued>>

\* setTempo, on the main thread, at any moment but in a load.
SetTempo ==
    /\ mine /\ emu.loaded
    /\ pc = "start" => target # Nowhere
    /\ emu' = set_fade(emu, TempoFade)
    /\ UNCHANGED <<track, native, heard, pc, target, mine, queued>>

-----------------------------------------------------------------------------
(***************************************************************************)
(* start_track: silence at the beginning is dropped.                       *)
(***************************************************************************)
StartIsSilent == /\ emu.emu_time < InitialMax
                 /\ emu.buf_remain = 0 /\ ~emu.emu_track_ended

DropSilence ==
    /\ pc = "start" /\ StartIsSilent
    /\ emu' = fill_buf(emu)
    /\ UNCHANGED <<track, native, heard, pc, target, mine, queued>>

Started ==
    [emu EXCEPT !.emu_time = emu.buf_remain, !.out_time = 0,
                !.silence_time = 0, !.silence_count = 0]

LoadReturns ==
    /\ pc = "start" /\ ~StartIsSilent /\ target = Nowhere
    /\ emu' = set_fade(Started, track.length)
    /\ native' = [native EXCEPT !.fade = track.length]
    /\ pc' = "top"
    /\ UNCHANGED <<track, heard, target, mine, queued>>

SeekReturns ==
    /\ pc = "start" /\ ~StartIsSilent /\ target # Nowhere
    /\ emu' = set_fade(skip(Started, target), native.fade)
    /\ pc' = "over"
    /\ target' = Nowhere
    /\ UNCHANGED <<track, native, heard, mine, queued>>

-----------------------------------------------------------------------------
(***************************************************************************)
(* isTrackOver and play.                                                   *)
(***************************************************************************)
\* The track is over but its last buffers are still to be written.
WaitForWriter ==
    /\ pc \in {"top", "over"} /\ mine /\ ~queued
    /\ emu.loaded /\ emu.track_ended
    /\ pc' = "top"
    /\ UNCHANGED <<track, emu, native, heard, target, mine, queued>>

\* isTrackOver, after which the next track is queued but one more buffer is
\* read.
ReadNextSamples ==
    /\ pc \in {"top", "over"} /\ mine /\ ~queued
    /\ emu.loaded
    /\ queued' = emu.track_ended
    /\ pc' = "play"
    /\ UNCHANGED <<track, emu, native, heard, target, mine>>

ReadFails ==
    /\ pc \in {"top", "over"} /\ mine /\ ~queued
    /\ ~emu.loaded
    /\ native' = [native EXCEPT !.error = "not ready"]
    /\ pc' = "dead"
    /\ UNCHANGED <<track, emu, heard, target, mine, queued>>

\* Mutant: as far ahead as the buffer that is played.
ahead_timeNear == emu.out_time + Buf

\* In a run of silence the emulator gets ahead of the listener.
ahead_time ==
    Lookahead * (emu.out_time + Buf - emu.silence_time) + emu.silence_time

BehindSilence ==
    /\ ~emu.track_ended /\ emu.silence_count > 0
    /\ emu.emu_time < ahead_time
    /\ emu.buf_remain = 0 /\ ~emu.emu_track_ended

LookAhead ==
    /\ pc = "play" /\ BehindSilence
    /\ emu' = fill_buf(emu)
    /\ UNCHANGED <<track, native, heard, pc, target, mine, queued>>

\* Mutant: a whole buffer of silence is taken off.
QuietAll(e, n) == [e EXCEPT !.silence_count = @ - Buf]

\* play goes through n frames of silence, which ends the track when it has
\* lasted long enough.
Quiet(e, n) ==
    LET t == [e EXCEPT !.silence_count = @ - n]
    IN  IF e.silence_count > 0 /\ e.emu_time - e.silence_time > SilenceMax
        THEN [t EXCEPT !.track_ended = TRUE, !.emu_track_ended = TRUE,
                       !.silence_count = 0, !.buf_remain = 0]
        ELSE t

\* The last n frames come from the emulator; if they are silent the next
\* play looks ahead.
Generated(e, n) ==
    LET t == emu_play(e, n)
        silence == IF e.emu_track_ended THEN n ELSE count_silence(e.pos, n)
        u == [t EXCEPT !.track_ended = @ \/ t.emu_track_ended,
                       !.silence_time = IF silence < n
                                        THEN t.emu_time - silence ELSE @]
    IN  IF n = 0 THEN e
        ELSE IF u.emu_time - u.silence_time >= buf_size THEN fill_buf(u)
        ELSE u

\* int_log: a shift by more than the width of int has no defined result;
\* the processors take it modulo the width or give 0.
Gains(x) ==
    LET shift == x \div emu.fade_step
        fraction == ((x % emu.fade_step) * Unit) \div emu.fade_step
        gain == Unit - fraction + fraction \div 2
    IN  IF shift < Width THEN {gain \div 2^shift}
        ELSE {gain \div 2^(shift % Width), 0}

\* Mutant: every buffer fades from its own beginning.
FadeGainsAnew(at) ==
    IF at <= emu.fade_start THEN {<< >>}
    ELSE LET blocks == 1..((Buf + FadeBlock - 1) \div FadeBlock)
             X(b) == (b - 1)
         IN  {g \in [blocks -> 0..Unit] : \A b \in blocks : g[b] \in Gains(X(b))}

\* handle_fade: the gain of every block of the buffer.
FadeGains(at) ==
    IF at <= emu.fade_start THEN {<< >>}
    ELSE LET blocks == 1..((Buf + FadeBlock - 1) \div FadeBlock)
             X(b) == Signed(at + (b - 1) * FadeBlock - emu.fade_start)
                       \div FadeBlock
         IN  {g \in [blocks -> 0..Unit] : \A b \in blocks : g[b] \in Gains(X(b))}

\* Mutant: the fade goes on to the next halving.
FadedOutLate(gains) ==
    \E b \in DOMAIN gains : gains[b] < Unit \div 2^(fade_shift + 1)

FadedOut(gains) == \E b \in DOMAIN gains : gains[b] < Unit \div 2^fade_shift

\* play returns: silence first, then what was found ahead, then what the
\* emulator makes.  After the end of the track it gives silence.
Play ==
    /\ pc = "play" /\ ~BehindSilence
    /\ IF emu.track_ended
       THEN /\ emu' = [emu EXCEPT !.out_time = @ + Buf]
            /\ UNCHANGED heard
       ELSE LET silent == Min({emu.silence_count, Buf})
                quiet == Quiet(emu, silent)
                kept == Min({quiet.buf_remain, Buf - silent})
                emptied == [quiet EXCEPT !.buf_remain = @ - kept]
                remain == Buf - silent - kept
                frames == [i \in 1..silent |-> Silent]
                    \o [i \in 1..kept |->
                          quiet.buf + buf_size - quiet.buf_remain + i - 1]
                    \o [i \in 1..remain |->
                          IF emptied.emu_track_ended THEN Silent
                          ELSE emptied.pos + i - 1]
            IN  \E gains \in FadeGains(emu.out_time) :
                  LET over == FadedOut(gains)
                  IN  /\ emu' = [Generated(emptied, remain) EXCEPT
                                    !.out_time = @ + Buf,
                                    !.track_ended = @ \/ over,
                                    !.emu_track_ended = @ \/ over]
                      /\ heard' = [at |-> emu.out_time,
                                   start |-> emu.fade_start,
                                   frames |-> frames, gains |-> gains]
    /\ native' = [native EXCEPT !.error = "none"]
    /\ pc' = "top"
    /\ UNCHANGED <<track, target, mine, queued>>

-----------------------------------------------------------------------------
ReaderStep ==
    \/ LoadOther \/ LoadFile \/ LoadFails \/ DropSilence \/ LoadReturns
    \/ SeekReturns \/ ReadNextSamples \/ ReadFails \/ LookAhead \/ Play

Next == \/ Skip \/ StopAndStart \/ Seek \/ SetTempo \/ WaitForWriter
        \/ ReaderStep

Spec == Init /\ [][Next]_vars

-----------------------------------------------------------------------------
\* The frames start_track drops: whole silent buffers, up to InitialMax.
Dropped ==
    buf_size * Min({k \in 0..InitialMax :
                      \/ k * buf_size >= InitialMax
                      \/ \E i \in 0..(buf_size - 1) : Loud(k * buf_size + i)})

(***************************************************************************)
(* play and skip, through any mixture of looking ahead, playing out of the *)
(* buffer, seeking ahead and back: the frame the listener hears at a time  *)
(* is the emulator's frame of that time, no frame twice and none left out, *)
(* and where silence is played the emulator was silent.                    *)
(***************************************************************************)
HeardInOrder ==
    LET begin == Dropped + heard.at - 1
    IN  \A i \in DOMAIN heard.frames :
          \/ heard.frames[i] = begin + i
          \/ heard.frames[i] = Silent /\ ~Loud(begin + i)

(***************************************************************************)
(* A track ends because the emulator failed, because its fade is over, or  *)
(* for silence that the emulator has really produced.  skip leaves         *)
(* silence_time alone, so a seek over loud music counts as silence; only   *)
(* the look ahead then keeps a short pause from ending the track, and of   *)
(* silence_max it guarantees all but one part in silence_lookahead.        *)
(***************************************************************************)
EndsForAReason ==
    emu.track_ended /\ emu.playable =>
        \/ track.fails /\ emu.pos > Len(track.loud)
        \/ FadedOut(heard.gains)
        \/ LET window == SilenceMax - SilenceMax \div Lookahead
           IN  /\ emu.pos >= window
               /\ \A i \in 1..window : ~Loud(emu.pos - i)

(***************************************************************************)
(* handle_fade and int_log: while a track plays on with the same fade, its *)
(* gain never rises, neither within a buffer nor from one to the next.     *)
(***************************************************************************)
NotRising(gains) ==
    \A i, j \in DOMAIN gains : i <= j => gains[i] >= gains[j]

FadeNeverRises ==
    [][LET same == heard'.start = heard.start /\ heard'.at = heard.at + Buf
       IN  NotRising(IF same THEN heard.gains \o heard'.gains
                     ELSE heard'.gains)]_vars

(***************************************************************************)
(* A track is over when its fade is: a buffer that is asked for later than *)
(* fade_shift halvings after fade_start is not played any more, whatever   *)
(* seeks, changes of tempo and silences came before.                       *)
(***************************************************************************)
EndsInTime ==
    pc = "top" /\ ~emu.track_ended =>
        emu.out_time <= emu.fade_start + Buf
                          + FadeBlock * (1 + emu.fade_step * fade_shift)

(***************************************************************************)
(* "Set start time and length of track fade out" (Music_Emu.h): a track    *)
(* does not fade before the time it was given.                             *)
(***************************************************************************)
FadeWaitsForItsTime ==
    heard.gains # << >> =>
        Ticks * (heard.at + Buf) >= Rate * Min({track.length, TempoFade})
=============================================================================
