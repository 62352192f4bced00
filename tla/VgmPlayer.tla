------------------------------ MODULE VgmPlayer ------------------------------
(***************************************************************************)
(* The VGM backend (VGMPlay/android/Backend.cpp) and the player under it   *)
(* (VGMPlay.c): a file of commands that write to chips or wait, read in    *)
(* step with the samples that are produced, its loops, its fade out, seeks *)
(* and changes of tempo.                                                   *)
(*                                                                         *)
(* A file is its commands and the fields of its header.  A command is the  *)
(* number of samples it waits (0: a write to a chip), End or Bad.  The     *)
(* chips themselves are external.  The rates are scaled: SampleRate of the *)
(* device, VGMSampleRate (44100 in the code) of the file.                  *)
(***************************************************************************)
EXTENDS Integers, Sequences, FiniteSetsExt

CONSTANTS
    SampleRate,    \* samples the device plays in a second
    VGMSampleRate, \* samples the commands count in a second
    FadeLen,       \* FadeTime, in samples of the device
    SlowStep,      \* SampleRate / 100
    Buf,           \* g_sample_count
    Width,         \* the width of UINT32
    Files,         \* the files that can be played
    Targets,       \* the samples a listener seeks to
    Full,          \* 100 percent
    Tempos,        \* the percentages a listener sets
    MAX_ACTIVE_CHIPS

End == -1   \* 0x66
Bad == -2   \* a command the player does not know

ASSUME PlayerAssumption ==
    /\ {SampleRate, VGMSampleRate, FadeLen, Buf, Full, MAX_ACTIVE_CHIPS}
         \cup Tempos \subseteq Nat \ {0}
    /\ {SlowStep, Width} \cup Targets \subseteq Nat
    /\ 2^Width \in Nat \ {0}    \* said for the provers, who know nothing of ^
    /\ Files # {}
    /\ \A f \in Files :
         /\ f.cmds \in Seq(Nat \cup {End, Bad}) /\ f.cmds # << >>
         /\ f.loop \in 0..Len(f.cmds)
         /\ {f.total, f.loopSamples} \subseteq Nat
         /\ f.loop # 0 => f.loopSamples # 0    \* OpenVGMFile_Internal
         /\ f.maxLoop \in Nat \ {0}            \* VGMMaxLoopM
         /\ f.chips \in 0..MAX_ACTIVE_CHIPS

VARIABLES
    file,      \* VGMHead and VGMData of the last file that was opened
    vgm,       \* the globals of VGMPlay.c
    native,    \* the globals of Backend.cpp; left is of the history: how many
               \* of its chips a stop left listed when it did not tear down
    call,      \* the locals of the native call the reader thread is in
    pc,        \* "idle", "interpret" (in InterpretFile), or "dead"
    mine,      \* Reader.backend is the VGM backend
    queued,    \* Reader.queuedTrackId # null
    tempo      \* how far setTempo has got in this track: "none", "half", "set"

vars == <<file, vgm, native, call, pc, mine, queued, tempo>>

\* Mutant: the times are signed.
WordSigned(n) == n

Word(n) == n % 2^Width

\* Division of the INT32 functions rounds towards zero.
Quotient(a, b) == IF a >= 0 THEN a \div b ELSE -((-a) \div b)

NoCall == [op |-> "none", count |-> 0, SmplPlayed |-> 0, CurSmpl |-> 0,
           RecalcStep |-> 0, target |-> 0]

Ops == {"none", "load", "read", "restart", "seek"}

TypeOK ==
    /\ file \in Files
    /\ vgm \in [playing : BOOLEAN, open : BOOLEAN, VGMPos : Nat,
                VGMSmplPos : Int, VGMSmplPlayed : Int,
                PlayingTime : 0..(2^Width - 1), FadePlay : BOOLEAN,
                FadeStart : Nat, MasterVol : 0..FadeLen, VGMEnd : BOOLEAN,
                EndPlay : BOOLEAN, VGMCurLoop : Nat, mul : Nat, div : Nat]
    /\ vgm.VGMPos \in 1..(Len(file.cmds) + 1)
    /\ native \in [played : Nat, error : {"none", "load", "buffer", "short"},
                   chips : 0..(2 * MAX_ACTIVE_CHIPS),
                   left : 0..MAX_ACTIVE_CHIPS]
    /\ call \in [op : Ops, count : Nat, SmplPlayed : Int, CurSmpl : 0..Buf,
                 RecalcStep : Nat, target : Nat]
    /\ pc \in {"idle", "interpret", "dead"}
    /\ {mine, queued} \subseteq BOOLEAN
    /\ tempo \in {"none", "half", "set"}

-----------------------------------------------------------------------------
(***************************************************************************)
(* The conversions between the two rates.                                  *)
(***************************************************************************)
SampleVGM2Pbk_I(v, n) == Quotient(n * v.mul, v.div)
SamplePbk2VGM_I(v, n) == Quotient(n * v.div, v.mul)

LoopLength(v) == SampleVGM2Pbk_I(v, file.loopSamples)

\* InterpretFile(count), up to the loop over the commands of an open file:
\* its locals, in a call that is at op.
InterpretFile(v, c, op, count) ==
    [c EXCEPT !.op = op, !.count = count,
              !.SmplPlayed = IF v.open
                             THEN SamplePbk2VGM_I(v, v.VGMSmplPlayed + count)
                             ELSE 0]

\* The rewind PlayVGM and RestartPlaying share.
Rewound(v) ==
    [v EXCEPT !.VGMPos = 1, !.VGMSmplPos = 0, !.VGMSmplPlayed = 0,
              !.VGMEnd = FALSE, !.EndPlay = FALSE, !.VGMCurLoop = 0]

\* No fade: the volume is full.
Unfaded(v) ==
    [v EXCEPT !.FadePlay = FALSE, !.MasterVol = FadeLen, !.FadeStart = 0,
              !.PlayingTime = 0]

PlayVGM(v) ==
    [Unfaded(Rewound(v)) EXCEPT !.playing = TRUE,
                                !.mul = SampleRate, !.div = VGMSampleRate]

\* Mutant: the chips stay listed.
teardownKeepsChips(n) == [n EXCEPT !.left = 0]

\* teardown: the voices go; StopVGM and CloseVGMFile are in Closed.
teardown(n) == [n EXCEPT !.chips = 0, !.left = 0]

\* StopVGM, CloseVGMFile; VGMPlay_Init and Init2 leave the same two modes.
Closed(v) == [v EXCEPT !.playing = FALSE, !.open = FALSE]

\* RecalcFadeVolume: below zero the volume is zero and the track has ended.
RecalcFadeVolume(v) ==
    LET start == IF v.FadeStart = 0 THEN v.PlayingTime ELSE v.FadeStart
        passed == Word(v.PlayingTime - start)
    IN  IF v.FadePlay
        THEN [v EXCEPT !.FadeStart = start,
                       !.MasterVol = FadeLen - Min({FadeLen, passed}),
                       !.VGMEnd = @ \/ passed > FadeLen]
        ELSE v

-----------------------------------------------------------------------------
Init ==
    /\ file = CHOOSE f \in Files : TRUE
    /\ vgm = [playing |-> FALSE, open |-> FALSE, VGMPos |-> 1,
              VGMSmplPos |-> 0, VGMSmplPlayed |-> 0, PlayingTime |-> 0,
              FadePlay |-> FALSE, FadeStart |-> 0, MasterVol |-> 0,
              VGMEnd |-> FALSE, EndPlay |-> FALSE, VGMCurLoop |-> 0,
              mul |-> 0, div |-> 0]
    /\ native = [played |-> 0, error |-> "none", chips |-> 0, left |-> 0]
    /\ call = NoCall
    /\ pc = "idle"
    /\ mine = FALSE
    /\ queued = TRUE
    /\ tempo = "none"

(***************************************************************************)
(* The Reader and the Player, between two native calls.                    *)
(***************************************************************************)
Skip ==
    /\ pc = "idle" /\ ~queued
    /\ queued' = TRUE
    /\ UNCHANGED <<file, vgm, native, call, pc, mine, tempo>>

\* Player.stop, and a start with a new Reader once the old one has ended.
StopAndStart ==
    /\ pc \in {"idle", "dead"}
    /\ vgm' = IF mine THEN Closed(vgm) ELSE vgm
    /\ native' = IF mine THEN teardown(native) ELSE native
    /\ mine' = FALSE
    /\ queued' = TRUE
    /\ pc' = "idle"
    /\ UNCHANGED <<file, call, tempo>>

\* Bound: the list is run over once; what that overwrites is left out.
FitsTheList == native.chips <= MAX_ACTIVE_CHIPS

\* The same, when the thread of the reader sees STOPPED and clears
\* Player.reader before Player.stop gets to the teardown: there is none, and
\* the new Reader has no backend to tear down.
StopWithoutTeardown ==
    /\ pc \in {"idle", "dead"} /\ mine /\ FitsTheList
    /\ native' = [native EXCEPT !.left = native.chips]
    /\ mine' = FALSE
    /\ queued' = TRUE
    /\ pc' = "idle"
    /\ UNCHANGED <<file, vgm, call, tempo>>

\* The queued track is one of another backend.
LoadOther ==
    /\ pc = "idle" /\ queued /\ mine
    /\ vgm' = Closed(vgm)
    /\ native' = teardown(native)
    /\ mine' = FALSE
    /\ UNCHANGED <<file, call, pc, queued, tempo>>

\* Reader.playingTrackId and loadFile, up to InterpretFile(0) of PlayVGM.
LoadFile ==
    /\ pc = "idle" /\ queued
    /\ file' \in Files
    /\ vgm' = PlayVGM([vgm EXCEPT !.open = TRUE])
    /\ native' = [(IF mine THEN teardown(native) ELSE native)
                    EXCEPT !.played = 0]
    /\ call' = InterpretFile(vgm', NoCall, "load", 0)
    /\ pc' = "interpret"
    /\ mine' = TRUE
    /\ queued' = FALSE
    /\ tempo' = "none"

\* Bound: one failure to load or to get the buffer; its error is set for good.
FirstFailure == native.error = "none"

\* A file that does not open: VGMEnd and the rest stay as they were.
LoadFails ==
    /\ pc = "idle" /\ queued /\ FirstFailure
    /\ vgm' = Closed(vgm)
    /\ native' = [(IF mine THEN teardown(native) ELSE native)
                    EXCEPT !.played = 0, !.error = "load"]
    /\ mine' = TRUE
    /\ queued' = FALSE
    /\ UNCHANGED <<file, call, pc, tempo>>

\* SeekVGM, back through RestartPlaying or ahead, up to InterpretFile.
Seek ==
    /\ pc = "idle" /\ mine /\ ~queued
    /\ \E target \in Targets :
         LET here == vgm.VGMCurLoop * LoopLength(vgm) + vgm.VGMSmplPlayed
             c == [NoCall EXCEPT !.target = target]
         IN  IF ~vgm.playing
             THEN /\ native' = [native EXCEPT !.played = target]
                  /\ UNCHANGED <<vgm, call, pc>>
             ELSE /\ vgm' = IF target < here THEN Rewound(vgm) ELSE vgm
                  /\ call' = IF target < here
                             THEN InterpretFile(vgm', c, "restart", 0)
                             ELSE InterpretFile(vgm', c, "seek",
                                                target - here)
                  /\ pc' = "interpret"
                  /\ UNCHANGED native
    /\ UNCHANGED <<file, mine, queued, tempo>>

\* setPlaybackRate, on the main thread: its two assignments at any moment,
\* in the middle of a call too; once in a track here.
SetTempoMul ==
    /\ mine /\ tempo = "none" /\ Tempos # {}
    /\ vgm' = [vgm EXCEPT !.mul = Full * SampleRate]
    /\ tempo' = "half"
    /\ UNCHANGED <<file, native, call, pc, mine, queued>>

SetTempoDiv ==
    /\ tempo = "half"
    /\ \E rate \in Tempos : vgm' = [vgm EXCEPT !.div = rate * SampleRate]
    /\ tempo' = "set"
    /\ UNCHANGED <<file, native, call, pc, mine, queued>>

\* isTrackOver, after which the next track is queued but one more buffer is
\* read; then FillBuffer up to its first InterpretFile(1).
ReadNextSamples ==
    /\ pc = "idle" /\ mine /\ ~queued
    /\ queued' = vgm.VGMEnd
    /\ vgm' = RecalcFadeVolume(vgm)
    /\ call' = InterpretFile(vgm', [NoCall EXCEPT !.RecalcStep =
                               IF vgm.FadePlay
                               THEN SampleRate \div VGMSampleRate ELSE 0],
                             "read", 1)
    /\ pc' = "interpret"
    /\ UNCHANGED <<file, native, mine, tempo>>

\* The Java buffer cannot be had: an error instead of the samples.
ReadFails ==
    /\ pc = "idle" /\ mine /\ ~queued /\ FirstFailure
    /\ queued' = vgm.VGMEnd
    /\ native' = [native EXCEPT !.error = "buffer"]
    /\ pc' = "dead"
    /\ UNCHANGED <<file, vgm, call, mine, tempo>>

-----------------------------------------------------------------------------
(***************************************************************************)
(* InterpretVGM: one command at a time, while it is due.                   *)
(***************************************************************************)
\* Mutant: a command waits until its time is over.
DueLater == vgm.open /\ ~vgm.VGMEnd /\ vgm.VGMSmplPos < call.SmplPlayed

Due == vgm.open /\ ~vgm.VGMEnd /\ vgm.VGMSmplPos <= call.SmplPlayed

\* Behind the last command the file ends.
AtEOF(v) == [v EXCEPT !.VGMEnd = @ \/ v.VGMPos > Len(file.cmds)]

Command == file.cmds[vgm.VGMPos]

Wait ==
    /\ pc = "interpret" /\ Due
    /\ Command >= 0
    /\ vgm' = AtEOF([vgm EXCEPT !.VGMSmplPos = @ + Command, !.VGMPos = @ + 1])
    /\ UNCHANGED <<file, native, call, pc, mine, queued, tempo>>

\* Mutant: the loops are not counted.
LoopedUncounted(v) ==
    [v EXCEPT !.VGMPos = file.loop,
              !.VGMSmplPos = @ - file.loopSamples,
              !.VGMSmplPlayed = @ - LoopLength(v)]

Looped(v) ==
    [v EXCEPT !.VGMPos = file.loop,
              !.VGMSmplPos = @ - file.loopSamples,
              !.VGMSmplPlayed = @ - LoopLength(v),
              !.VGMCurLoop = @ + 1]

\* Mutant: the loop that has just begun is counted in.
FadeTriggerLate(v) ==
    IF v.VGMCurLoop < file.maxLoop THEN v
    ELSE [v EXCEPT !.FadeStart = IF v.FadePlay THEN @ ELSE
                     SampleVGM2Pbk_I(v, file.total
                                + v.VGMCurLoop * file.loopSamples),
                   !.FadePlay = TRUE]

\* The last loop ends, by the header, at the beginning of the fade.
FadeTrigger(v) ==
    IF v.VGMCurLoop < file.maxLoop THEN v
    ELSE [v EXCEPT !.FadeStart = IF v.FadePlay THEN @ ELSE
                     SampleVGM2Pbk_I(v, file.total
                                + (v.VGMCurLoop - 1) * file.loopSamples),
                   !.FadePlay = TRUE]

LoopBack ==
    /\ pc = "interpret" /\ Due
    /\ Command = End /\ file.loop # 0
    /\ vgm' = FadeTrigger(Looped(vgm))
    /\ call' = InterpretFile(vgm', call, call.op, call.count)
    /\ UNCHANGED <<file, native, pc, mine, queued, tempo>>

\* Mutant: without a loop the command is passed over.
EndOfFileIgnored ==
    /\ pc = "interpret" /\ Due
    /\ Command = End /\ file.loop = 0
    /\ UNCHANGED vars

\* The end of a file without a loop; the total in the header is corrected.
EndOfFile ==
    /\ pc = "interpret" /\ Due
    /\ Command = End /\ file.loop = 0
    /\ vgm' = [vgm EXCEPT !.VGMEnd = TRUE]
    /\ UNCHANGED <<file, native, call, pc, mine, queued, tempo>>

BadCommand ==
    /\ pc = "interpret" /\ Due
    /\ Command = Bad
    /\ vgm' = [vgm EXCEPT !.VGMEnd = TRUE, !.EndPlay = TRUE]
    /\ UNCHANGED <<file, native, call, pc, mine, queued, tempo>>

-----------------------------------------------------------------------------
(***************************************************************************)
(* The end of InterpretFile, and how the caller goes on.                   *)
(***************************************************************************)
Interpreted ==
    [vgm EXCEPT !.VGMSmplPlayed = @ + call.count,
                !.PlayingTime = Word(@ + call.count)]

Return(op) == pc = "interpret" /\ ~Due /\ call.op = op

\* loadFile lists the chips of the file.
LoadReturns ==
    /\ Return("load")
    /\ vgm' = Interpreted
    /\ native' = [native EXCEPT !.chips = @ + file.chips]
    /\ call' = NoCall
    /\ pc' = "idle"
    /\ UNCHANGED <<file, mine, queued, tempo>>

\* RestartPlaying returns to SeekVGM.
RestartReturns ==
    /\ Return("restart")
    /\ vgm' = Unfaded(Interpreted)
    /\ call' = InterpretFile(vgm', call, "seek", call.target)
    /\ UNCHANGED <<file, native, pc, mine, queued, tempo>>

SeekReturns ==
    /\ Return("seek")
    /\ vgm' = Interpreted
    /\ native' = [native EXCEPT !.played = call.target]
    /\ call' = NoCall
    /\ pc' = "idle"
    /\ UNCHANGED <<file, mine, queued, tempo>>

\* FillBuffer after a sample: a fade without a start begins here.
FadeBegins == Interpreted.FadePlay /\ Interpreted.FadeStart = 0

RecalcStep == IF FadeBegins THEN SlowStep ELSE call.RecalcStep

AfterSample ==
    LET v == IF FadeBegins
             THEN [Interpreted EXCEPT !.FadeStart = Interpreted.PlayingTime]
             ELSE Interpreted
    IN  IF RecalcStep # 0 /\ call.CurSmpl % RecalcStep = 0
        THEN RecalcFadeVolume(v) ELSE v

\* The end of a track cuts the buffer short, once.
CutShort == AfterSample.VGMEnd /\ ~AfterSample.EndPlay

NextSample ==
    /\ Return("read")
    /\ ~CutShort /\ call.CurSmpl + 1 < Buf
    /\ vgm' = AfterSample
    /\ call' = InterpretFile(vgm', [call EXCEPT !.CurSmpl = @ + 1,
                                                !.RecalcStep = RecalcStep],
                             "read", 1)
    /\ UNCHANGED <<file, native, pc, mine, queued, tempo>>

CreatedSamples == IF CutShort THEN call.CurSmpl ELSE Buf

\* readNextSamples returns; an error, of this call or an earlier one, ends
\* the loop of the Reader.
ReadReturns ==
    /\ Return("read")
    /\ CutShort \/ call.CurSmpl + 1 = Buf
    /\ vgm' = [AfterSample EXCEPT !.EndPlay = @ \/ CutShort]
    /\ native' = [native EXCEPT
                    !.played = @ + CreatedSamples,
                    !.error = IF CreatedSamples # Buf /\ ~AfterSample.VGMEnd
                              THEN "short" ELSE @]
    /\ pc' = IF native'.error = "none" THEN "idle" ELSE "dead"
    /\ call' = NoCall
    /\ UNCHANGED <<file, mine, queued, tempo>>

-----------------------------------------------------------------------------
ReaderStep ==
    \/ LoadFile \/ LoadFails \/ LoadOther \/ ReadNextSamples \/ ReadFails
    \/ Wait \/ LoopBack \/ EndOfFile \/ BadCommand
    \/ LoadReturns \/ RestartReturns \/ SeekReturns
    \/ NextSample \/ ReadReturns

Next ==
    \/ Skip \/ StopAndStart \/ StopWithoutTeardown
    \/ Seek \/ SetTempoMul \/ SetTempoDiv \/ ReaderStep

\* The reader thread is scheduled; listeners promise nothing.
Spec == Init /\ [][Next]_vars /\ WF_vars(ReaderStep)

-----------------------------------------------------------------------------
Loaded == pc = "idle" /\ mine /\ vgm.playing

\* Where the commands of a file stand, in samples of the file; the time of
\* the place behind the last one is there too, and of the one before the
\* first.
Times(cmds) ==
    LET t[p \in 0..(Len(cmds) + 1)] ==
            IF p <= 1 THEN 0 ELSE t[p - 1] + Max({0, cmds[p - 1]})
    IN  t

TimeOf(pos) == Times(file.cmds)[pos]

\* The header tells the truth about the commands, at every End of a file
\* that loops.
TrueHeader ==
    \A p \in DOMAIN file.cmds :
        file.loop # 0 /\ file.cmds[p] = End =>
            /\ file.total = TimeOf(p)
            /\ file.loopSamples = TimeOf(p) - TimeOf(file.loop)

(***************************************************************************)
(* The clock of the backend, g_played_sample_count, and that of VGMPlay,   *)
(* which goes back with every loop, agree through loops and seeks until    *)
(* the track ends, where they are at most a sample apart: otherwise        *)
(* SeekVGM would set out from the wrong place.                             *)
(***************************************************************************)
ClocksAgree ==
    Loaded /\ tempo = "none" =>
        LET apart == vgm.VGMCurLoop * LoopLength(vgm) + vgm.VGMSmplPlayed
                        - native.played
        IN  apart \in (IF vgm.VGMEnd THEN {0, 1} ELSE {0})

(***************************************************************************)
(* InterpretVGM between two calls, however the position was reached (by    *)
(* playing, by a seek, through loops whose length is rounded to the rate   *)
(* of the device): the position in the file and the time agree, no command *)
(* was carried out early and none that is due is left.                     *)
(***************************************************************************)
CommandsOnTime ==
    Loaded /\ tempo = "none" /\ TrueHeader /\ ~vgm.VGMEnd =>
        LET now == SamplePbk2VGM_I(vgm, vgm.VGMSmplPlayed)
        IN  /\ vgm.VGMSmplPos = TimeOf(vgm.VGMPos)
            /\ TimeOf(vgm.VGMPos - 1) <= now
            /\ now < vgm.VGMSmplPos

\* The fade begins at a time the header gives, which counts the loops in
\* full; the clock counts each loop rounded down to a sample of the device.
\* A third loop, or a later one, lets the start run ahead by the fractions.
Drift ==
    IF (file.loopSamples * SampleRate) % VGMSampleRate = 0 \/ file.maxLoop <= 2
    THEN 0
    ELSE file.maxLoop - 2

(***************************************************************************)
(* The fade is counted in unsigned samples from FadeStart, which comes     *)
(* from the header, not from the clock: when RecalcFadeVolume looks, the   *)
(* start is not ahead of the clock by more than Drift.  Ahead at all, the  *)
(* difference wraps around and the track ends at once, with no fade: only  *)
(* a file of three loops or more whose loop has no whole number of samples *)
(* comes to that, and only when a call ends within Drift samples of its    *)
(* last loop.                                                              *)
(***************************************************************************)
FadeHasBegun ==
    Loaded /\ tempo = "none" /\ TrueHeader /\ vgm.FadePlay =>
        vgm.FadeStart <= vgm.PlayingTime + Drift

(***************************************************************************)
(* The voices the backend lists are those of the file that plays, through  *)
(* skips, stops, failures and changes of backend, for a load only appends  *)
(* to the list and relies on a teardown before it.  A stop that did not    *)
(* tear down leaves its voices in front of them, exactly those, and only   *)
(* until the next teardown, however many loads, failures and other stops   *)
(* come between.                                                           *)
(***************************************************************************)
VoicesOfThisFile ==
    Loaded => native.chips = file.chips + native.left

(***************************************************************************)
(* A track the listener leaves alone comes to its end: by its last         *)
(* command, by the end of the file or by the fade after its loops, at any  *)
(* tempo, and with a tempo set in the middle of a loop.                    *)
(***************************************************************************)
TrackEnds ==
    (vgm.playing /\ mine) ~>
        (\/ vgm.VGMEnd \/ queued \/ ~mine \/ pc = "dead"
         \/ call.op \in {"seek", "restart"})
=============================================================================
