---------------------------- MODULE VgmPlayerProofs ----------------------------
(***************************************************************************)
(* The safety properties of VgmPlayer, for every file, every pair of       *)
(* rates, every size of buffer and any seeks and skips: TypeOK,            *)
(* VoicesOfThisFile, ClocksAgree, CommandsOnTime and, while PlayingTime    *)
(* does not wrap around, FadeHasBegun.                                     *)
(***************************************************************************)
EXTENDS VgmPlayer, WellFoundedInduction, TLAPS

(***************************************************************************)
(* What TypeOK needs besides.  The rates are known once a file is open,    *)
(* and there is a command to read until the file has ended.  The voices    *)
(* of a file are counted once: until its load returns there are only those *)
(* that a stop left behind.                                                *)
(***************************************************************************)
InCall == call.op # "none"

Sound ==
    /\ TypeOK
    /\ pc = "interpret" <=> InCall
    /\ vgm.open \/ vgm.playing => vgm.mul # 0 /\ vgm.div # 0
    /\ vgm.VGMPos > Len(file.cmds) => vgm.VGMEnd
    /\ InCall => mine
    /\ call.op = "restart" => vgm.playing
    /\ ~mine \/ call.op = "load" => native.chips = native.left
    /\ mine /\ vgm.playing /\ call.op # "load" =>
         native.chips = file.chips + native.left
    /\ call.op = "load" => vgm.playing

(***************************************************************************)
(* The time of VGMPlay, with the loops it has gone back by, is ahead of    *)
(* the backend's clock by what the call it is in has still to count, and   *)
(* by a sample once the end of the track has cut a buffer short.           *)
(***************************************************************************)
Slack == IF vgm.VGMEnd /\ vgm.EndPlay THEN {0, 1} ELSE {0}

Time == vgm.VGMCurLoop * LoopLength(vgm) + vgm.VGMSmplPlayed

Clocks ==
    mine /\ vgm.playing /\ tempo = "none" =>
        /\ vgm.mul = SampleRate /\ vgm.div = VGMSampleRate
        /\ call.op \in {"load", "restart"} => Time = 0 /\ call.count = 0
        /\ call.op = "load" => native.played = 0
        /\ call.op = "seek" => Time + call.count = call.target
        /\ call.op = "read" =>
              call.count = 1 /\ Time - native.played - call.CurSmpl \in Slack
        /\ call.op = "none" => Time - native.played \in Slack

-----------------------------------------------------------------------------
(***************************************************************************)
(* The records of TypeOK, and what the operators on them return.           *)
(***************************************************************************)
Words == 0..(2^Width - 1)
Volumes == 0..FadeLen
VgmT == [playing : BOOLEAN, open : BOOLEAN, VGMPos : Nat,
         VGMSmplPos : Int, VGMSmplPlayed : Int,
         PlayingTime : Words, FadePlay : BOOLEAN,
         FadeStart : Nat, MasterVol : Volumes, VGMEnd : BOOLEAN,
         EndPlay : BOOLEAN, VGMCurLoop : Nat, mul : Nat, div : Nat]
NativeT == [played : Nat, error : {"none", "load", "buffer", "short"},
            chips : 0..(2 * MAX_ACTIVE_CHIPS), left : 0..MAX_ACTIVE_CHIPS]
CallT == [op : Ops, count : Nat, SmplPlayed : Int, CurSmpl : 0..Buf,
          RecalcStep : Nat, target : Nat]

\* The rates are known if they are needed.
Rated(v) == v.open \/ v.playing => v.mul # 0 /\ v.div # 0

LEMMA QuotientIsInt ==
    ASSUME NEW a \in Int, NEW b \in Nat \ {0}
    PROVE  Quotient(a, b) \in Int /\ (a >= 0 => Quotient(a, b) \in Nat)
BY DEF Quotient

LEMMA ConversionIsInt ==
    ASSUME NEW v \in VgmT, v.mul # 0, v.div # 0, NEW n \in Int
    PROVE  /\ SampleVGM2Pbk_I(v, n) \in Int
           /\ n >= 0 => SampleVGM2Pbk_I(v, n) \in Nat
           /\ SamplePbk2VGM_I(v, n) \in Int
  <1>1. v.mul \in Nat \ {0} /\ v.div \in Nat \ {0}
    BY DEF VgmT
  <1> DEFINE m == v.mul
             d == v.div
  <1> HIDE DEF m, d
  <1>2. m \in Nat \ {0} /\ d \in Nat \ {0}
    BY <1>1 DEF m, d
  <1>3. n * m \in Int /\ n * d \in Int /\ (n >= 0 => n * m >= 0)
    BY <1>2
  <1>4. Quotient(n * m, d) \in Int /\ (n >= 0 => Quotient(n * m, d) \in Nat)
    BY <1>2, <1>3, QuotientIsInt
  <1>5. Quotient(n * d, m) \in Int
    BY <1>2, <1>3, QuotientIsInt
  <1> QED
    BY <1>4, <1>5 DEF SampleVGM2Pbk_I, SamplePbk2VGM_I, m, d

LEMMA WordIsWord ==
    ASSUME NEW n \in Int
    PROVE  Word(n) \in Words
  <1> DEFINE m == 2^Width
  <1> HIDE DEF m
  <1>1. m \in Nat \ {0}
    BY PlayerAssumption DEF m
  <1>2. (n % m) \in 0..(m - 1)
    BY <1>1
  <1> QED
    BY <1>2 DEF Word, Words, m

LEMMA WordsAreNatural == Words \subseteq Nat /\ 0 \in Words
  <1> DEFINE m == 2^Width
  <1> HIDE DEF m
  <1>1. m \in Nat \ {0}
    BY PlayerAssumption DEF m
  <1>2. 0..(m - 1) \subseteq Nat /\ 0 \in 0..(m - 1)
    BY <1>1
  <1> QED
    BY <1>2 DEF Words, m

LEMMA LesserOfTwo ==
    ASSUME NEW a \in Int, NEW b \in Int
    PROVE  Min({a, b}) \in {a, b} /\ Min({a, b}) <= a /\ Min({a, b}) <= b
BY DEF Min

LEMMA InterpretFileCalls ==
    ASSUME NEW v \in VgmT, Rated(v), NEW c \in CallT, NEW op \in Ops,
           NEW count \in Nat
    PROVE  LET d == InterpretFile(v, c, op, count)
           IN  /\ d \in CallT /\ d.op = op /\ d.count = count
               /\ d.CurSmpl = c.CurSmpl /\ d.target = c.target
               /\ v.open => d.SmplPlayed =
                    SamplePbk2VGM_I(v, v.VGMSmplPlayed + count)
  <1> DEFINE t == IF v.open THEN SamplePbk2VGM_I(v, v.VGMSmplPlayed + count)
                  ELSE 0
  <1>1. v.VGMSmplPlayed + count \in Int
    BY DEF VgmT
  <1>2. t \in Int
    BY <1>1, ConversionIsInt DEF Rated
  <1> HIDE DEF t
  <1>3. InterpretFile(v, c, op, count) =
          [c EXCEPT !.op = op, !.count = count, !.SmplPlayed = t]
    BY DEF InterpretFile, t
  <1>4. /\ InterpretFile(v, c, op, count) \in CallT
        /\ InterpretFile(v, c, op, count).op = op
        /\ InterpretFile(v, c, op, count).count = count
        /\ InterpretFile(v, c, op, count).CurSmpl = c.CurSmpl
        /\ InterpretFile(v, c, op, count).target = c.target
        /\ InterpretFile(v, c, op, count).SmplPlayed = t
    BY <1>2, <1>3 DEF CallT
  <1> QED
    BY <1>4 DEF t

\* What neither a fade nor its absence changes of the player.
Kept(v, w) ==
    /\ w.playing = v.playing /\ w.open = v.open
    /\ w.VGMPos = v.VGMPos /\ w.VGMCurLoop = v.VGMCurLoop
    /\ w.VGMSmplPlayed = v.VGMSmplPlayed /\ w.VGMSmplPos = v.VGMSmplPos
    /\ w.EndPlay = v.EndPlay
    /\ w.mul = v.mul /\ w.div = v.div
    /\ v.VGMEnd => w.VGMEnd

LEMMA RecalcFadeVolumeKeeps ==
    ASSUME NEW v \in VgmT
    PROVE  RecalcFadeVolume(v) \in VgmT /\ Kept(v, RecalcFadeVolume(v))
  <1> DEFINE start == IF v.FadeStart = 0 THEN v.PlayingTime ELSE v.FadeStart
             passed == Word(v.PlayingTime - start)
             low == Min({FadeLen, passed})
             e == v.VGMEnd \/ passed > FadeLen
  <1>0. Words \subseteq Nat
    BY WordsAreNatural
  <1>1. v.PlayingTime \in Nat /\ start \in Nat
    BY <1>0 DEF VgmT
  <1>2. passed \in Nat
    <2> HIDE DEF start
    <2>1. v.PlayingTime - start \in Int
      BY <1>1
    <2>2. passed \in Words
      BY <2>1, WordIsWord
    <2> QED BY <1>0, <2>2
  <1>3. FadeLen \in Nat
    BY PlayerAssumption
  <1>4. FadeLen - low \in Volumes
    <2> HIDE DEF passed
    <2>1. low \in Nat /\ low <= FadeLen
      BY <1>2, <1>3, LesserOfTwo
    <2> HIDE DEF low
    <2> QED BY <2>1, <1>3 DEF Volumes
  <1>5. e \in BOOLEAN
    BY DEF VgmT
  <1>6. RecalcFadeVolume(v) =
          IF v.FadePlay
          THEN [v EXCEPT !.FadeStart = start, !.MasterVol = FadeLen - low,
                         !.VGMEnd = e]
          ELSE v
    BY DEF RecalcFadeVolume
  <1>7. v.VGMEnd => e
    OBVIOUS
  <1> HIDE DEF start, passed, low, e
  <1> QED
    BY <1>1, <1>4, <1>5, <1>6, <1>7 DEF VgmT, Kept

LEMMA RewoundPlayer ==
    ASSUME NEW v \in VgmT
    PROVE  /\ Rewound(v) \in VgmT
           /\ Rewound(v).playing = v.playing /\ Rewound(v).open = v.open
           /\ Rewound(v).mul = v.mul /\ Rewound(v).div = v.div
           /\ Rewound(v).VGMPos = 1 /\ Rewound(v).VGMCurLoop = 0
           /\ Rewound(v).VGMSmplPlayed = 0 /\ Rewound(v).VGMSmplPos = 0
           /\ Rewound(v).PlayingTime = v.PlayingTime
  <1>1. PICK one \in Nat, zero \in Nat, no \in BOOLEAN :
          one = 1 /\ zero = 0 /\ no = FALSE
    OBVIOUS
  <1> DEFINE u == [v EXCEPT !.VGMPos = one, !.VGMSmplPos = zero,
                            !.VGMSmplPlayed = zero]
  <1>2. Rewound(v) =
          [u EXCEPT !.VGMEnd = no, !.EndPlay = no, !.VGMCurLoop = zero]
    BY <1>1 DEF Rewound
  <1>3. zero \in Int
    OBVIOUS
  <1>4. /\ u \in VgmT
        /\ u.playing = v.playing /\ u.open = v.open
        /\ u.mul = v.mul /\ u.div = v.div
        /\ u.VGMPos = one /\ u.VGMSmplPlayed = zero
        /\ u.VGMSmplPos = zero /\ u.PlayingTime = v.PlayingTime
    BY <1>3 DEF VgmT
  <1> HIDE DEF u
  <1>5. /\ Rewound(v) \in VgmT
        /\ Rewound(v).playing = v.playing /\ Rewound(v).open = v.open
        /\ Rewound(v).mul = v.mul /\ Rewound(v).div = v.div
        /\ Rewound(v).VGMPos = one /\ Rewound(v).VGMSmplPlayed = zero
        /\ Rewound(v).VGMSmplPos = zero
        /\ Rewound(v).PlayingTime = v.PlayingTime
        /\ Rewound(v).VGMCurLoop = zero
    BY <1>2, <1>4 DEF VgmT
  <1> QED
    BY <1>1, <1>5

LEMMA UnfadedPlayer ==
    ASSUME NEW v \in VgmT
    PROVE  /\ Unfaded(v) \in VgmT /\ Kept(v, Unfaded(v))
           /\ Unfaded(v).PlayingTime = 0 /\ ~Unfaded(v).FadePlay
  <1>1. FadeLen \in Volumes
    <2>1. FadeLen \in Nat
      BY PlayerAssumption
    <2> QED BY <2>1 DEF Volumes
  <1>2. 0 \in Words
    BY WordsAreNatural
  <1> QED
    BY <1>1, <1>2 DEF Unfaded, VgmT, Kept

LEMMA ClosedPlayer ==
    ASSUME NEW v \in VgmT
    PROVE  /\ Closed(v) \in VgmT
           /\ ~Closed(v).playing /\ ~Closed(v).open
           /\ Closed(v).VGMPos = v.VGMPos /\ Closed(v).VGMEnd = v.VGMEnd
  <1>1. PICK no \in BOOLEAN : no = FALSE
    OBVIOUS
  <1>2. Closed(v) = [v EXCEPT !.playing = no, !.open = no]
    BY <1>1 DEF Closed
  <1>3. /\ Closed(v) \in VgmT
        /\ Closed(v).playing = no /\ Closed(v).open = no
        /\ Closed(v).VGMPos = v.VGMPos /\ Closed(v).VGMEnd = v.VGMEnd
    BY <1>2 DEF VgmT
  <1> QED
    BY <1>1, <1>3

\* PlayVGM on a file that has just been opened.
LEMMA PlayVGMPlays ==
    ASSUME NEW v \in VgmT
    PROVE  LET w == PlayVGM([v EXCEPT !.open = TRUE])
           IN  /\ w \in VgmT
               /\ w.playing /\ w.open
               /\ w.mul = SampleRate /\ w.div = VGMSampleRate
               /\ w.VGMPos = 1 /\ w.VGMCurLoop = 0 /\ w.VGMSmplPlayed = 0
               /\ w.VGMSmplPos = 0 /\ w.PlayingTime = 0 /\ ~w.FadePlay
  <1>1. PICK yes \in BOOLEAN : yes = TRUE
    OBVIOUS
  <1> DEFINE o == [v EXCEPT !.open = yes]
             u == Unfaded(Rewound(o))
  <1>2. o \in VgmT /\ o.open = yes
    BY DEF VgmT
  <1>3. /\ u \in VgmT /\ u.open = yes
        /\ u.VGMPos = 1 /\ u.VGMCurLoop = 0 /\ u.VGMSmplPlayed = 0
        /\ u.VGMSmplPos = 0 /\ u.PlayingTime = 0 /\ ~u.FadePlay
    <2> HIDE DEF o
    <2>1. Rewound(o) \in VgmT
      BY <1>2, RewoundPlayer
    <2>2. /\ u \in VgmT /\ Kept(Rewound(o), u)
          /\ u.PlayingTime = 0 /\ ~u.FadePlay
      BY <2>1, UnfadedPlayer
    <2> QED
      BY <1>2, <2>2, RewoundPlayer DEF Kept
  <1>4. PlayVGM([v EXCEPT !.open = TRUE]) =
          [u EXCEPT !.playing = yes, !.mul = SampleRate, !.div = VGMSampleRate]
    BY <1>1 DEF PlayVGM
  <1>5. SampleRate \in Nat /\ VGMSampleRate \in Nat
    BY PlayerAssumption
  <1> HIDE DEF u
  <1> DEFINE w == [u EXCEPT !.playing = yes, !.mul = SampleRate,
                            !.div = VGMSampleRate]
  <1>6. /\ w \in VgmT
        /\ w.playing = yes /\ w.open = u.open
        /\ w.mul = SampleRate /\ w.div = VGMSampleRate
        /\ w.VGMPos = u.VGMPos /\ w.VGMCurLoop = u.VGMCurLoop
        /\ w.VGMSmplPlayed = u.VGMSmplPlayed
        /\ w.VGMSmplPos = u.VGMSmplPos
        /\ w.PlayingTime = u.PlayingTime /\ w.FadePlay = u.FadePlay
    BY <1>3, <1>5 DEF VgmT
  <1> HIDE DEF w
  <1>7. PlayVGM([v EXCEPT !.open = TRUE]) = w
    BY <1>4 DEF w
  <1> QED
    BY <1>1, <1>3, <1>6, <1>7

\* A file of Files.
LEMMA FileFacts ==
    ASSUME NEW f \in Files
    PROVE  /\ f.cmds \in Seq(Nat \cup {End, Bad}) /\ Len(f.cmds) \in Nat
           /\ Len(f.cmds) > 0
           /\ f.loop \in 0..Len(f.cmds)
           /\ f.total \in Nat /\ f.loopSamples \in Nat
           /\ f.maxLoop \in Nat \ {0}
           /\ f.chips \in 0..MAX_ACTIVE_CHIPS
  <1>1. f.cmds \in Seq(Nat \cup {End, Bad}) /\ f.cmds # << >>
    BY PlayerAssumption
  <1> QED
    BY <1>1, PlayerAssumption

LEMMA LoopLengthIsInt ==
    ASSUME file \in Files, NEW v \in VgmT, v.mul # 0, v.div # 0
    PROVE  LoopLength(v) \in Int
  <1>1. file.loopSamples \in Int
    BY FileFacts
  <1> DEFINE n == file.loopSamples
  <1> HIDE DEF n
  <1>2. SampleVGM2Pbk_I(v, n) \in Int
    BY <1>1, ConversionIsInt DEF n
  <1> QED
    BY <1>2 DEF LoopLength, n

LEMMA LoopedPlayer ==
    ASSUME file \in Files, file.loop # 0, NEW v \in VgmT,
           v.mul # 0, v.div # 0
    PROVE  /\ Looped(v) \in VgmT /\ LoopLength(v) \in Int
           /\ Looped(v).playing = v.playing /\ Looped(v).open = v.open
           /\ Looped(v).mul = v.mul /\ Looped(v).div = v.div
           /\ Looped(v).VGMPos = file.loop
           /\ Looped(v).VGMEnd = v.VGMEnd /\ Looped(v).EndPlay = v.EndPlay
           /\ Looped(v).VGMSmplPlayed = v.VGMSmplPlayed - LoopLength(v)
           /\ Looped(v).VGMSmplPos = v.VGMSmplPos - file.loopSamples
           /\ Looped(v).PlayingTime = v.PlayingTime
           /\ Looped(v).FadePlay = v.FadePlay
           /\ Looped(v).FadeStart = v.FadeStart
           /\ Looped(v).VGMCurLoop = v.VGMCurLoop + 1
           /\ Looped(v).VGMCurLoop > 0
  <1>1. file.loop \in Nat /\ file.loopSamples \in Int
    BY FileFacts
  <1>2. LoopLength(v) \in Int
    BY <1>1, ConversionIsInt DEF LoopLength
  <1> DEFINE back == v.VGMSmplPos - file.loopSamples
             time == v.VGMSmplPlayed - LoopLength(v)
             loop == v.VGMCurLoop + 1
             at == file.loop
  <1>3. /\ back \in Int /\ time \in Int /\ loop \in Nat /\ loop > 0
        /\ at \in Nat
    BY <1>1, <1>2 DEF VgmT
  <1>4. Looped(v) = [v EXCEPT !.VGMPos = at, !.VGMSmplPos = back,
                              !.VGMSmplPlayed = time, !.VGMCurLoop = loop]
    BY DEF Looped
  <1> HIDE DEF back, time, loop, at
  <1>5. /\ Looped(v) \in VgmT
        /\ Looped(v).playing = v.playing /\ Looped(v).open = v.open
        /\ Looped(v).mul = v.mul /\ Looped(v).div = v.div
        /\ Looped(v).VGMPos = at
        /\ Looped(v).VGMEnd = v.VGMEnd /\ Looped(v).EndPlay = v.EndPlay
        /\ Looped(v).VGMSmplPlayed = time
        /\ Looped(v).VGMSmplPos = back
        /\ Looped(v).PlayingTime = v.PlayingTime
        /\ Looped(v).FadePlay = v.FadePlay
        /\ Looped(v).FadeStart = v.FadeStart
        /\ Looped(v).VGMCurLoop = loop
    BY <1>3, <1>4 DEF VgmT
  <1> QED
    BY <1>2, <1>3, <1>5 DEF time, loop, at, back

LEMMA FadeTriggerKeeps ==
    ASSUME file \in Files, NEW v \in VgmT, v.mul # 0, v.div # 0
    PROVE  /\ FadeTrigger(v) \in VgmT /\ Kept(v, FadeTrigger(v))
           /\ FadeTrigger(v).VGMEnd = v.VGMEnd
  <1>1. CASE v.VGMCurLoop < file.maxLoop
    BY <1>1 DEF FadeTrigger, Kept
  <1>2. CASE ~(v.VGMCurLoop < file.maxLoop)
    <2>1. v.VGMCurLoop - 1 \in Nat /\ file.loopSamples \in Nat
          /\ file.total \in Nat
      BY <1>2, FileFacts DEF VgmT
    <2> DEFINE n == file.total + (v.VGMCurLoop - 1) * file.loopSamples
    <2>2. n \in Nat
      BY <2>1
    <2> HIDE DEF n
    <2>3. SampleVGM2Pbk_I(v, n) \in Nat
      BY <2>2, ConversionIsInt
    <2> DEFINE start == IF v.FadePlay THEN v.FadeStart
                        ELSE SampleVGM2Pbk_I(v, n)
    <2>4. start \in Nat
      BY <2>3 DEF VgmT
    <2>5. PICK yes \in BOOLEAN : yes = TRUE
      OBVIOUS
    <2>6. FadeTrigger(v) = [v EXCEPT !.FadeStart = start, !.FadePlay = yes]
      BY <1>2, <2>5 DEF FadeTrigger, n
    <2> HIDE DEF start
    <2> QED
      BY <2>4, <2>6 DEF VgmT, Kept
  <1> QED
    BY <1>1, <1>2

LEMMA InterpretedPlayer ==
    ASSUME vgm \in VgmT, call \in CallT
    PROVE  /\ Interpreted \in VgmT
           /\ Interpreted.playing = vgm.playing
           /\ Interpreted.open = vgm.open
           /\ Interpreted.mul = vgm.mul /\ Interpreted.div = vgm.div
           /\ Interpreted.VGMPos = vgm.VGMPos
           /\ Interpreted.VGMEnd = vgm.VGMEnd
           /\ Interpreted.EndPlay = vgm.EndPlay
           /\ Interpreted.VGMCurLoop = vgm.VGMCurLoop
           /\ Interpreted.VGMSmplPlayed = vgm.VGMSmplPlayed + call.count
           /\ Interpreted.VGMSmplPos = vgm.VGMSmplPos
           /\ Interpreted.PlayingTime = Word(vgm.PlayingTime + call.count)
           /\ Interpreted.FadePlay = vgm.FadePlay
           /\ Interpreted.FadeStart = vgm.FadeStart
  <1> DEFINE time == vgm.VGMSmplPlayed + call.count
             word == Word(vgm.PlayingTime + call.count)
  <1>1. vgm.PlayingTime + call.count \in Int
    <2>1. vgm.PlayingTime \in Nat /\ call.count \in Nat
      BY WordsAreNatural DEF VgmT, CallT
    <2> QED
      BY <2>1
  <1>2. time \in Int /\ word \in Words
    BY <1>1, WordIsWord DEF VgmT, CallT
  <1>3. Interpreted = [vgm EXCEPT !.VGMSmplPlayed = time,
                                  !.PlayingTime = word]
    BY DEF Interpreted
  <1> HIDE DEF time, word
  <1>4. /\ Interpreted \in VgmT
        /\ Interpreted.playing = vgm.playing
        /\ Interpreted.open = vgm.open
        /\ Interpreted.mul = vgm.mul /\ Interpreted.div = vgm.div
        /\ Interpreted.VGMPos = vgm.VGMPos
        /\ Interpreted.VGMEnd = vgm.VGMEnd
        /\ Interpreted.EndPlay = vgm.EndPlay
        /\ Interpreted.VGMCurLoop = vgm.VGMCurLoop
        /\ Interpreted.VGMSmplPlayed = time
        /\ Interpreted.VGMSmplPos = vgm.VGMSmplPos
        /\ Interpreted.PlayingTime = word
        /\ Interpreted.FadePlay = vgm.FadePlay
        /\ Interpreted.FadeStart = vgm.FadeStart
    BY <1>2, <1>3 DEF VgmT
  <1> QED
    BY <1>4 DEF time, word

\* FillBuffer after a sample only touches the fade.
LEMMA AfterSamplePlayer ==
    ASSUME vgm \in VgmT, call \in CallT
    PROVE  AfterSample \in VgmT /\ Kept(Interpreted, AfterSample)
  <1> DEFINE i == Interpreted
             v == IF FadeBegins THEN [i EXCEPT !.FadeStart = i.PlayingTime]
                  ELSE i
  <1>1. i \in VgmT
    BY InterpretedPlayer
  <1>2. v \in VgmT /\ Kept(i, v)
    <2> HIDE DEF i
    <2>1. i.PlayingTime \in Nat
      BY <1>1, WordsAreNatural DEF VgmT
    <2> QED
      BY <1>1, <2>1 DEF VgmT, Kept
  <1>3. AfterSample = RecalcFadeVolume(v) \/ AfterSample = v
    BY DEF AfterSample
  <1>4. Kept(i, RecalcFadeVolume(v)) /\ RecalcFadeVolume(v) \in VgmT
    <2> HIDE DEF v
    <2>1. RecalcFadeVolume(v) \in VgmT /\ Kept(v, RecalcFadeVolume(v))
      BY <1>2, RecalcFadeVolumeKeeps
    <2> QED
      BY <1>2, <2>1 DEF Kept
  <1> QED
    BY <1>2, <1>3, <1>4

-----------------------------------------------------------------------------
(***************************************************************************)
(* Every step keeps Sound.                                                 *)
(***************************************************************************)
Typed ==
    /\ file \in Files
    /\ vgm \in VgmT
    /\ vgm.VGMPos \in 1..(Len(file.cmds) + 1)
    /\ native \in NativeT
    /\ call \in CallT
    /\ pc \in {"idle", "interpret", "dead"}
    /\ {mine, queued} \subseteq BOOLEAN
    /\ tempo \in {"none", "half", "set"}

LEMMA TypeParts == (TypeOK <=> Typed) /\ (TypeOK' <=> Typed')
BY DEF TypeOK, Typed, VgmT, NativeT, CallT, Words, Volumes

LEMMA NoCallFacts ==
    /\ NoCall \in CallT
    /\ NoCall.op = "none" /\ NoCall.CurSmpl = 0 /\ NoCall.count = 0
  <1>1. 0 \in 0..Buf
    <2>1. Buf \in Nat
      BY PlayerAssumption
    <2> QED BY <2>1
  <1>2. "none" \in Ops
    BY DEF Ops
  <1> QED
    BY <1>1, <1>2 DEF NoCall, CallT

LEMMA TeardownFacts ==
    ASSUME NEW n \in NativeT
    PROVE  /\ teardown(n) \in NativeT /\ teardown(n).chips = 0
           /\ teardown(n).left = 0
           /\ teardown(n).played = n.played /\ teardown(n).error = n.error
  <1>1. PICK none : none = 0
    OBVIOUS
  <1>2. none \in 0..MAX_ACTIVE_CHIPS /\ none \in 0..(2 * MAX_ACTIVE_CHIPS)
    <2>1. MAX_ACTIVE_CHIPS \in Nat
      BY PlayerAssumption
    <2> QED BY <1>1, <2>1
  <1>3. teardown(n) = [n EXCEPT !.chips = none, !.left = none]
    BY <1>1 DEF teardown
  <1> QED
    BY <1>1, <1>2, <1>3 DEF NativeT

LEMMA InitSound == Init => Sound
  <1> SUFFICES ASSUME Init PROVE Sound
    OBVIOUS
  <1>1. file \in Files
    BY PlayerAssumption DEF Init
  <1>2. vgm \in VgmT /\ vgm.VGMPos = 1 /\ ~vgm.open /\ ~vgm.playing
    <2>1. 0 \in Volumes /\ 0 \in Words
      <3>1. FadeLen \in Nat
        BY PlayerAssumption
      <3> QED
        BY <3>1, WordsAreNatural DEF Volumes
    <2> QED
      BY <2>1 DEF Init, VgmT
  <1>3. native \in NativeT /\ native.chips = native.left
    <2>1. 0 \in 0..MAX_ACTIVE_CHIPS /\ 0 \in 0..(2 * MAX_ACTIVE_CHIPS)
      <3>1. MAX_ACTIVE_CHIPS \in Nat
        BY PlayerAssumption
      <3> QED BY <3>1
    <2> QED
      BY <2>1 DEF Init, NativeT
  <1>4. call \in CallT /\ call.op = "none"
    BY NoCallFacts DEF Init
  <1>5. vgm.VGMPos \in 1..(Len(file.cmds) + 1) /\ ~(vgm.VGMPos > Len(file.cmds))
    BY <1>1, <1>2, FileFacts
  <1>6. TypeOK
    BY <1>1, <1>2, <1>3, <1>4, <1>5, TypeParts DEF Init, Typed
  <1> QED
    BY <1>2, <1>3, <1>4, <1>5, <1>6 DEF Init, Sound, InCall

\* Between two native calls, and a call that gets no buffer.
BetweenCalls ==
    \/ Skip \/ StopAndStart \/ StopWithoutTeardown
    \/ LoadOther \/ LoadFails \/ ReadFails

LEMMA SoundBetween ==
    ASSUME Sound, BetweenCalls
    PROVE  Sound'
  <1>1. /\ file' = file /\ call' = call /\ tempo' = tempo
        /\ pc' \in {"idle", "dead"} /\ pc \in {"idle", "dead"}
        /\ {mine', queued'} \subseteq BOOLEAN
    <2>1. Typed /\ vgm.VGMEnd \in BOOLEAN
      BY TypeParts DEF Typed, Sound, VgmT
    <2> QED
      BY <2>1 DEF Typed, BetweenCalls, Skip, StopAndStart,
         StopWithoutTeardown, LoadOther, LoadFails, ReadFails
  <1>2. vgm \in VgmT /\ native \in NativeT /\ call \in CallT /\ ~InCall
    BY <1>1, TypeParts DEF Typed, Sound
  <1>3. vgm' = vgm \/ vgm' = Closed(vgm)
    BY DEF BetweenCalls, Skip, StopAndStart, StopWithoutTeardown, LoadOther,
           LoadFails, ReadFails
  <1>4. /\ vgm' \in VgmT /\ vgm'.VGMPos = vgm.VGMPos
        /\ vgm'.VGMEnd = vgm.VGMEnd
        /\ vgm'.open \/ vgm'.playing => vgm' = vgm
    BY <1>2, <1>3, ClosedPlayer
  <1>5. /\ native' \in NativeT
        /\ ~mine' => native'.chips = native'.left
        /\ mine' /\ vgm'.playing => native'.chips = file.chips + native'.left
    <2>1. CASE Skip
      BY <2>1, <1>2 DEF Skip, Sound, InCall
    <2>2. CASE StopAndStart \/ LoadOther
      BY <2>2, <1>2, TeardownFacts DEF StopAndStart, LoadOther, Sound
    <2>3. CASE LoadFails
      <3> DEFINE t == IF mine THEN teardown(native) ELSE native
      <3>1. t \in NativeT
        BY <1>2, TeardownFacts
      <3>2. native' = [t EXCEPT !.played = 0, !.error = "load"]
        BY <2>3 DEF LoadFails
      <3> HIDE DEF t
      <3>3. native' \in NativeT
        BY <3>1, <3>2 DEF NativeT
      <3>4. mine' /\ ~vgm'.playing
        BY <2>3, <1>2, ClosedPlayer DEF LoadFails
      <3> QED
        BY <3>3, <3>4
    <2>4. CASE StopWithoutTeardown
      <3> DEFINE n == native.chips
      <3>1. n \in 0..MAX_ACTIVE_CHIPS
        <4>1. MAX_ACTIVE_CHIPS \in Nat
          BY PlayerAssumption
        <4>2. n \in Nat /\ n <= MAX_ACTIVE_CHIPS
          BY <2>4, <1>2, <4>1 DEF StopWithoutTeardown, FitsTheList, NativeT
        <4> HIDE DEF n
        <4> QED
          BY <4>1, <4>2
      <3>2. native' = [native EXCEPT !.left = n] /\ ~mine'
        BY <2>4 DEF StopWithoutTeardown
      <3>3. n = native.chips
        OBVIOUS
      <3> HIDE DEF n
      <3> QED
        BY <1>2, <3>1, <3>2, <3>3 DEF NativeT
    <2>5. CASE ReadFails
      BY <2>5, <1>2 DEF ReadFails, Sound, InCall, NativeT
    <2> QED
      BY <2>1, <2>2, <2>3, <2>4, <2>5 DEF BetweenCalls
  <1>6. TypeOK'
    BY <1>1, <1>2, <1>4, <1>5, TypeParts DEF Typed, Sound
  <1> QED
    BY <1>1, <1>2, <1>4, <1>5, <1>6 DEF Sound, InCall

LEMMA SoundLoadFile ==
    ASSUME Sound, LoadFile
    PROVE  Sound'
  <1>1. vgm \in VgmT /\ native \in NativeT /\ file' \in Files
    BY TypeParts DEF Typed, Sound, LoadFile
  <1>2. /\ vgm' \in VgmT /\ vgm'.playing /\ vgm'.open
        /\ vgm'.mul # 0 /\ vgm'.div # 0 /\ vgm'.VGMPos = 1
    <2>1. SampleRate # 0 /\ VGMSampleRate # 0
      BY PlayerAssumption
    <2> QED
      BY <1>1, <2>1, PlayVGMPlays DEF LoadFile
  <1>3. native' \in NativeT /\ native'.chips = native'.left
    <2> DEFINE t == IF mine THEN teardown(native) ELSE native
    <2>1. t \in NativeT /\ t.chips = t.left
      BY <1>1, TeardownFacts DEF Sound
    <2>2. native' = [t EXCEPT !.played = 0]
      BY DEF LoadFile
    <2> HIDE DEF t
    <2> QED
      BY <2>1, <2>2 DEF NativeT
  <1>4. call' \in CallT /\ call'.op = "load"
    <2>1. "load" \in Ops /\ 0 \in Nat
      BY DEF Ops
    <2>2. Rated(vgm')
      BY <1>2 DEF Rated
    <2>3. call' = InterpretFile(vgm', NoCall, "load", 0)
      BY DEF LoadFile
    <2> QED
      BY <1>2, <2>1, <2>2, <2>3, NoCallFacts, InterpretFileCalls
  <1>5. vgm'.VGMPos \in 1..(Len(file'.cmds) + 1)
        /\ ~(vgm'.VGMPos > Len(file'.cmds))
    BY <1>1, <1>2, FileFacts
  <1>6. TypeOK'
    BY <1>1, <1>2, <1>3, <1>4, <1>5, TypeParts DEF LoadFile, Typed, Sound
  <1> QED
    BY <1>2, <1>3, <1>4, <1>5, <1>6 DEF LoadFile, Sound, InCall

\* The calls of a listener to a file that is loaded.
LEMMA SoundSeek ==
    ASSUME Sound, Seek
    PROVE  Sound'
  <1>1. /\ vgm \in VgmT /\ native \in NativeT /\ file \in Files /\ ~InCall
        /\ call \in CallT
        /\ vgm.VGMPos \in 1..(Len(file.cmds) + 1)
    BY TypeParts DEF Typed, Sound, Seek
  <1>2. PICK target \in Targets :
          LET here == vgm.VGMCurLoop * LoopLength(vgm) + vgm.VGMSmplPlayed
              c == [NoCall EXCEPT !.target = target]
          IN  IF ~vgm.playing
              THEN /\ native' = [native EXCEPT !.played = target]
                   /\ UNCHANGED <<vgm, call, pc>>
              ELSE /\ vgm' = IF target < here THEN Rewound(vgm) ELSE vgm
                   /\ call' = IF target < here
                              THEN InterpretFile(vgm', c, "restart", 0)
                              ELSE InterpretFile(vgm', c, "seek",
                                                 target - here)
                   /\ pc' = "interpret"
                   /\ UNCHANGED native
    BY DEF Seek
  <1>3. target \in Nat
    BY PlayerAssumption
  <1>4. /\ mine /\ mine' = mine /\ file' = file /\ tempo' = tempo
        /\ queued' = queued /\ pc = "idle"
    BY DEF Seek
  <1>5. CASE ~vgm.playing
    <2>1. /\ native' \in NativeT /\ native'.chips = native.chips
          /\ native'.left = native.left
      BY <1>1, <1>2, <1>3, <1>5 DEF NativeT
    <2>2. TypeOK'
      BY <1>1, <1>2, <1>4, <1>5, <2>1, TypeParts DEF Typed, Sound
    <2> QED
      BY <1>1, <1>2, <1>4, <1>5, <2>1, <2>2 DEF Sound, InCall
  <1>6. CASE vgm.playing
    <2> DEFINE here == vgm.VGMCurLoop * LoopLength(vgm) + vgm.VGMSmplPlayed
               c == [NoCall EXCEPT !.target = target]
    <2>1. here \in Int
      <3>1. LoopLength(vgm) \in Int
        BY <1>1, <1>6, LoopLengthIsInt DEF Sound
      <3>2. vgm.VGMCurLoop \in Int /\ vgm.VGMSmplPlayed \in Int
        BY <1>1 DEF VgmT
      <3> HIDE DEF LoopLength
      <3> QED
        BY <3>1, <3>2
    <2>2. c \in CallT
      BY <1>3, NoCallFacts DEF CallT
    <2>3. "seek" \in Ops /\ "restart" \in Ops /\ 0 \in Nat
      BY DEF Ops
    <2>4. /\ vgm' \in VgmT /\ vgm'.playing /\ Rated(vgm')
          /\ vgm'.VGMPos = 1 \/ vgm' = vgm
      BY <1>1, <1>2, <1>6, RewoundPlayer DEF Sound, Rated
    <2>5. call' \in CallT /\ call'.op \in {"restart", "seek"}
      <3> HIDE DEF here, c
      <3>1. CASE target < here
        <4>1. call' = InterpretFile(vgm', c, "restart", 0)
          BY <1>2, <1>6, <3>1 DEF here, c
        <4> QED
          BY <2>2, <2>3, <2>4, <4>1, InterpretFileCalls
      <3>2. CASE ~(target < here)
        <4>1. call' = InterpretFile(vgm', c, "seek", target - here)
          BY <1>2, <1>6, <3>2 DEF here, c
        <4>2. target - here \in Nat
          BY <1>3, <2>1, <3>2
        <4> QED
          BY <2>2, <2>3, <2>4, <4>1, <4>2, InterpretFileCalls
      <3> QED
        BY <3>1, <3>2
    <2>6. /\ vgm'.VGMPos \in 1..(Len(file.cmds) + 1)
          /\ vgm'.VGMPos > Len(file.cmds) => vgm'.VGMEnd
      BY <1>1, <2>4, FileFacts DEF Sound
    <2>7. native' = native /\ pc' = "interpret"
      BY <1>2, <1>6
    <2>8. TypeOK'
      BY <1>1, <1>4, <2>4, <2>5, <2>6, <2>7, TypeParts DEF Typed, Sound
    <2> QED
      BY <1>1, <1>4, <1>6, <2>4, <2>5, <2>6, <2>7, <2>8
         DEF Sound, InCall, Rated
  <1> QED
    BY <1>5, <1>6

LEMMA SoundTempo ==
    ASSUME Sound, SetTempoMul \/ SetTempoDiv
    PROVE  Sound'
  <1>1. vgm \in VgmT
    BY TypeParts DEF Typed, Sound
  <1>2. PICK n \in Nat \ {0} :
          vgm' = [vgm EXCEPT !.mul = n] \/ vgm' = [vgm EXCEPT !.div = n]
    <2>1. Full * SampleRate \in Nat \ {0}
      <3>1. Full \in Nat \ {0} /\ SampleRate \in Nat \ {0}
        BY PlayerAssumption
      <3> QED
        BY <3>1
    <2>2. \A rate \in Tempos : rate * SampleRate \in Nat \ {0}
      <3>1. Tempos \subseteq Nat \ {0} /\ SampleRate \in Nat \ {0}
        BY PlayerAssumption
      <3> QED
        BY <3>1
    <2> QED
      BY <2>1, <2>2 DEF SetTempoMul, SetTempoDiv
  <1>3. /\ vgm' \in VgmT
        /\ vgm'.playing = vgm.playing /\ vgm'.open = vgm.open
        /\ vgm'.VGMPos = vgm.VGMPos /\ vgm'.VGMEnd = vgm.VGMEnd
        /\ Rated(vgm) => Rated(vgm')
    BY <1>1, <1>2 DEF VgmT, Rated
  <1>4. UNCHANGED <<file, native, call, pc, mine, queued>>
        /\ tempo' \in {"half", "set"}
    BY DEF SetTempoMul, SetTempoDiv
  <1>5. TypeOK'
    BY <1>3, <1>4, TypeParts DEF Typed, Sound
  <1> QED
    BY <1>3, <1>4, <1>5 DEF Sound, InCall, Rated

LEMMA SoundRead ==
    ASSUME Sound, ReadNextSamples
    PROVE  Sound'
  <1>1. vgm \in VgmT /\ vgm.VGMPos \in 1..(Len(file.cmds) + 1) /\ Rated(vgm)
    BY TypeParts DEF Typed, Sound, Rated
  <1>2. vgm' \in VgmT /\ Kept(vgm, vgm')
    BY <1>1, RecalcFadeVolumeKeeps DEF ReadNextSamples
  <1>3. call' \in CallT /\ call'.op = "read"
    <2> DEFINE r == IF vgm.FadePlay THEN SampleRate \div VGMSampleRate ELSE 0
               c == [NoCall EXCEPT !.RecalcStep = r]
    <2>1. r \in Nat
      <3>1. SampleRate \in Nat /\ VGMSampleRate \in Nat \ {0}
        BY PlayerAssumption
      <3> QED
        BY <3>1
    <2>2. call' = InterpretFile(vgm', c, "read", 1)
      BY DEF ReadNextSamples
    <2> HIDE DEF r
    <2>3. c \in CallT
      BY <2>1, NoCallFacts DEF CallT
    <2>4. "read" \in Ops /\ 1 \in Nat
      BY DEF Ops
    <2>5. Rated(vgm')
      BY <1>1, <1>2 DEF Kept, Rated
    <2> HIDE DEF c
    <2> QED
      BY <1>2, <2>2, <2>3, <2>4, <2>5, InterpretFileCalls
  <1>4. /\ UNCHANGED <<file, native, mine, tempo>> /\ mine
        /\ pc = "idle" /\ pc' = "interpret" /\ queued' \in BOOLEAN
    BY <1>1 DEF ReadNextSamples, VgmT
  <1>5. call.op = "none"
    BY <1>4 DEF Sound, InCall
  <1>6. TypeOK'
    BY <1>1, <1>2, <1>3, <1>4, TypeParts DEF Typed, Sound, Kept
  <1> QED
    BY <1>1, <1>2, <1>3, <1>4, <1>5, <1>6 DEF Sound, InCall, Kept, Rated


\* A command that is due is one of the file's.
LEMMA DueCommand ==
    ASSUME Sound, Due
    PROVE  /\ vgm.open /\ ~vgm.VGMEnd /\ vgm.mul # 0 /\ vgm.div # 0
           /\ vgm.VGMPos \in 1..Len(file.cmds) /\ Command \in Int
           /\ vgm.VGMPos + 1 \in 1..(Len(file.cmds) + 1)
  <1>1. vgm.open /\ ~vgm.VGMEnd /\ vgm.mul # 0 /\ vgm.div # 0
    BY DEF Due, Sound
  <1>2. /\ file \in Files /\ vgm.VGMPos \in 1..(Len(file.cmds) + 1)
        /\ ~(vgm.VGMPos > Len(file.cmds))
    BY <1>1, TypeParts DEF Typed, Sound
  <1>3. /\ file.cmds \in Seq(Nat \cup {End, Bad})
        /\ Len(file.cmds) \in Nat
    BY <1>2, FileFacts
  <1>4. vgm.VGMPos \in 1..Len(file.cmds)
        /\ vgm.VGMPos + 1 \in 1..(Len(file.cmds) + 1)
    BY <1>2, <1>3
  <1>5. file.cmds[vgm.VGMPos] \in Nat \cup {End, Bad}
    BY <1>3, <1>4
  <1> QED
    BY <1>1, <1>4, <1>5 DEF Command, End, Bad

LEMMA WaitedPlayer ==
    ASSUME Sound, Wait
    PROVE  /\ vgm' \in VgmT
           /\ vgm'.VGMPos = vgm.VGMPos + 1
           /\ vgm'.playing = vgm.playing /\ vgm'.open = vgm.open
           /\ vgm'.mul = vgm.mul /\ vgm'.div = vgm.div
           /\ vgm'.VGMCurLoop = vgm.VGMCurLoop
           /\ vgm'.VGMSmplPlayed = vgm.VGMSmplPlayed
           /\ vgm'.VGMSmplPos = vgm.VGMSmplPos + Command
           /\ vgm'.PlayingTime = vgm.PlayingTime
           /\ vgm'.FadePlay = vgm.FadePlay
           /\ vgm'.FadeStart = vgm.FadeStart
           /\ vgm'.EndPlay = vgm.EndPlay
           /\ vgm'.VGMPos > Len(file.cmds) => vgm'.VGMEnd
  <1> DEFINE at == vgm.VGMPos + 1
             time == vgm.VGMSmplPos + Command
             u == [vgm EXCEPT !.VGMSmplPos = time, !.VGMPos = at]
             e == u.VGMEnd \/ u.VGMPos > Len(file.cmds)
  <1>1. vgm \in VgmT /\ Due
    BY TypeParts DEF Typed, Sound, Wait
  <1>2. at \in Nat /\ time \in Int
    BY <1>1, DueCommand DEF VgmT
  <1>3. vgm' = [u EXCEPT !.VGMEnd = e]
    BY DEF Wait, AtEOF
  <1> HIDE DEF at, time
  <1>4. /\ u \in VgmT /\ u.VGMPos = at
        /\ u.playing = vgm.playing /\ u.open = vgm.open
        /\ u.mul = vgm.mul /\ u.div = vgm.div
        /\ u.VGMCurLoop = vgm.VGMCurLoop
        /\ u.VGMSmplPlayed = vgm.VGMSmplPlayed /\ u.VGMSmplPos = time
        /\ u.PlayingTime = vgm.PlayingTime
        /\ u.FadePlay = vgm.FadePlay /\ u.FadeStart = vgm.FadeStart
        /\ u.EndPlay = vgm.EndPlay
    BY <1>1, <1>2 DEF VgmT
  <1>5. e \in BOOLEAN /\ (at > Len(file.cmds) => e)
    BY <1>4 DEF VgmT
  <1> HIDE DEF u, e
  <1>6. /\ vgm' \in VgmT /\ vgm'.VGMPos = at /\ vgm'.VGMEnd = e
        /\ vgm'.playing = vgm.playing /\ vgm'.open = vgm.open
        /\ vgm'.mul = vgm.mul /\ vgm'.div = vgm.div
        /\ vgm'.VGMCurLoop = vgm.VGMCurLoop
        /\ vgm'.VGMSmplPlayed = vgm.VGMSmplPlayed
        /\ vgm'.VGMSmplPos = time
        /\ vgm'.PlayingTime = vgm.PlayingTime
        /\ vgm'.FadePlay = vgm.FadePlay /\ vgm'.FadeStart = vgm.FadeStart
        /\ vgm'.EndPlay = vgm.EndPlay
    BY <1>3, <1>4, <1>5 DEF VgmT
  <1> QED
    BY <1>5, <1>6 DEF at, time

LEMMA SoundWait ==
    ASSUME Sound, Wait
    PROVE  Sound'
  <1>1. UNCHANGED <<file, native, call, pc, mine, queued, tempo>>
    BY DEF Wait
  <1>2. vgm'.VGMPos \in 1..(Len(file.cmds) + 1)
    BY WaitedPlayer, DueCommand DEF Wait
  <1>3. TypeOK'
    BY <1>1, <1>2, WaitedPlayer, TypeParts DEF Typed, Sound
  <1> QED
    BY <1>1, <1>3, WaitedPlayer DEF Sound, InCall

\* What a loop makes of the player.
LEMMA LoopBackPlayer ==
    ASSUME Sound, LoopBack
    PROVE  /\ vgm' \in VgmT /\ LoopLength(vgm) \in Int
           /\ vgm'.VGMPos = file.loop
           /\ vgm'.playing = vgm.playing /\ vgm'.open = vgm.open
           /\ vgm'.mul = vgm.mul /\ vgm'.div = vgm.div
           /\ vgm'.VGMCurLoop = vgm.VGMCurLoop + 1
           /\ vgm'.VGMSmplPlayed = vgm.VGMSmplPlayed - LoopLength(vgm)
           /\ vgm'.VGMSmplPos = vgm.VGMSmplPos - file.loopSamples
           /\ vgm'.EndPlay = vgm.EndPlay /\ vgm'.VGMEnd = vgm.VGMEnd
  <1> DEFINE l == Looped(vgm)
  <1>1. /\ file \in Files /\ vgm \in VgmT /\ file.loop # 0
        /\ vgm.mul # 0 /\ vgm.div # 0
    BY DueCommand, TypeParts DEF Typed, Sound, LoopBack
  <1>2. /\ l \in VgmT /\ LoopLength(vgm) \in Int
        /\ l.playing = vgm.playing /\ l.open = vgm.open
        /\ l.mul = vgm.mul /\ l.div = vgm.div
        /\ l.VGMPos = file.loop
        /\ l.VGMEnd = vgm.VGMEnd /\ l.EndPlay = vgm.EndPlay
        /\ l.VGMSmplPlayed = vgm.VGMSmplPlayed - LoopLength(vgm)
        /\ l.VGMSmplPos = vgm.VGMSmplPos - file.loopSamples
        /\ l.VGMCurLoop = vgm.VGMCurLoop + 1
    BY <1>1, LoopedPlayer
  <1>3. vgm' = FadeTrigger(l)
    BY DEF LoopBack
  <1> HIDE DEF l
  <1>4. /\ vgm' \in VgmT /\ Kept(l, vgm') /\ vgm'.VGMEnd = l.VGMEnd
    BY <1>1, <1>2, <1>3, FadeTriggerKeeps
  <1> QED
    BY <1>2, <1>4 DEF Kept

LEMMA SoundLoopBack ==
    ASSUME Sound, LoopBack
    PROVE  Sound'
  <1>1. /\ UNCHANGED <<file, native, pc, mine, queued, tempo>>
        /\ call' = InterpretFile(vgm', call, call.op, call.count)
        /\ file.loop # 0 /\ Due /\ file \in Files /\ call \in CallT
    BY TypeParts DEF LoopBack, Typed, Sound
  <1>2. vgm.mul # 0 /\ vgm.div # 0
    BY <1>1, DueCommand
  <1>3. call' \in CallT /\ call'.op = call.op
    <2>1. call.op \in Ops /\ call.count \in Nat
      BY <1>1 DEF CallT
    <2>2. vgm' \in VgmT /\ Rated(vgm')
      BY <1>2, LoopBackPlayer DEF Rated
    <2> QED
      BY <1>1, <2>1, <2>2, InterpretFileCalls
  <1>4. /\ vgm'.VGMPos \in 1..(Len(file.cmds) + 1)
        /\ ~(vgm'.VGMPos > Len(file.cmds))
    BY <1>1, LoopBackPlayer, FileFacts
  <1>5. TypeOK'
    BY <1>1, <1>3, <1>4, LoopBackPlayer, TypeParts DEF Typed, Sound
  <1> QED
    BY <1>1, <1>2, <1>3, <1>4, <1>5, LoopBackPlayer DEF Sound, InCall

\* The end of the commands, by End or by Bad.
LEMMA EndedPlayer ==
    ASSUME Sound, EndOfFile \/ BadCommand
    PROVE  /\ vgm' \in VgmT /\ vgm'.VGMEnd
           /\ vgm'.VGMPos = vgm.VGMPos
           /\ vgm'.playing = vgm.playing /\ vgm'.open = vgm.open
           /\ vgm'.mul = vgm.mul /\ vgm'.div = vgm.div
           /\ vgm'.VGMCurLoop = vgm.VGMCurLoop
           /\ vgm'.VGMSmplPlayed = vgm.VGMSmplPlayed
           /\ vgm'.PlayingTime = vgm.PlayingTime
           /\ vgm'.FadePlay = vgm.FadePlay
           /\ vgm'.FadeStart = vgm.FadeStart
           /\ vgm.EndPlay => vgm'.EndPlay
  <1>1. vgm \in VgmT
    BY TypeParts DEF Typed, Sound
  <1>2. PICK yes \in BOOLEAN : yes = TRUE
    OBVIOUS
  <1>3. \/ vgm' = [vgm EXCEPT !.VGMEnd = yes]
        \/ vgm' = [vgm EXCEPT !.VGMEnd = yes, !.EndPlay = yes]
    BY <1>2 DEF EndOfFile, BadCommand
  <1>4. /\ vgm' \in VgmT /\ vgm'.VGMEnd = yes
        /\ vgm'.VGMPos = vgm.VGMPos
        /\ vgm'.playing = vgm.playing /\ vgm'.open = vgm.open
        /\ vgm'.mul = vgm.mul /\ vgm'.div = vgm.div
        /\ vgm'.VGMCurLoop = vgm.VGMCurLoop
        /\ vgm'.VGMSmplPlayed = vgm.VGMSmplPlayed
        /\ vgm'.PlayingTime = vgm.PlayingTime
        /\ vgm'.FadePlay = vgm.FadePlay /\ vgm'.FadeStart = vgm.FadeStart
        /\ vgm'.EndPlay = vgm.EndPlay \/ vgm'.EndPlay = yes
    BY <1>1, <1>3 DEF VgmT
  <1> QED
    BY <1>2, <1>4

LEMMA SoundEnd ==
    ASSUME Sound, EndOfFile \/ BadCommand
    PROVE  Sound'
  <1>1. UNCHANGED <<file, native, call, pc, mine, queued, tempo>>
    BY DEF EndOfFile, BadCommand
  <1>2. TypeOK'
    BY <1>1, EndedPlayer, TypeParts DEF Typed, Sound
  <1> QED
    BY <1>1, <1>2, EndedPlayer DEF Sound, InCall

\* The calls that return to the Reader after InterpretFile.
LEMMA SoundLoadReturns ==
    ASSUME Sound, LoadReturns
    PROVE  Sound'
  <1>1. /\ file \in Files /\ vgm \in VgmT /\ call \in CallT
        /\ native \in NativeT /\ native.chips = native.left
        /\ call.op = "load" /\ InCall /\ mine
    BY TypeParts DEF Typed, Sound, LoadReturns, Return, InCall
  <1>2. /\ native' \in NativeT
        /\ native'.chips = file.chips + native'.left
    <2> DEFINE n == native.chips + file.chips
    <2>1. MAX_ACTIVE_CHIPS \in Nat /\ file.chips \in 0..MAX_ACTIVE_CHIPS
      BY <1>1, FileFacts, PlayerAssumption
    <2>2. native.left \in 0..MAX_ACTIVE_CHIPS
      BY <1>1 DEF NativeT
    <2>4. n \in 0..(2 * MAX_ACTIVE_CHIPS) /\ n = file.chips + native.left
      BY <1>1, <2>1, <2>2
    <2>3. native' = [native EXCEPT !.chips = n]
      BY DEF LoadReturns
    <2> HIDE DEF n
    <2> QED
      BY <1>1, <2>3, <2>4 DEF NativeT
  <1>3. /\ vgm' = Interpreted /\ call' = NoCall /\ pc' = "idle"
        /\ UNCHANGED <<file, mine, queued, tempo>>
    BY DEF LoadReturns
  <1>4. TypeOK'
    BY <1>1, <1>2, <1>3, InterpretedPlayer, NoCallFacts, TypeParts
       DEF Typed, Sound
  <1> QED
    BY <1>1, <1>2, <1>3, <1>4, InterpretedPlayer, NoCallFacts
       DEF Sound, InCall

LEMMA SoundSeekReturns ==
    ASSUME Sound, SeekReturns
    PROVE  Sound'
  <1>1. /\ vgm \in VgmT /\ call \in CallT /\ native \in NativeT
        /\ call.op = "seek" /\ InCall /\ mine
    BY TypeParts DEF Typed, Sound, SeekReturns, Return, InCall
  <1>2. /\ native' \in NativeT /\ native'.chips = native.chips
        /\ native'.left = native.left
    <2>1. native' = [native EXCEPT !.played = call.target]
      BY DEF SeekReturns
    <2>2. call.target \in Nat
      BY <1>1 DEF CallT
    <2> QED
      BY <1>1, <2>1, <2>2 DEF NativeT
  <1>3. /\ vgm' = Interpreted /\ call' = NoCall /\ pc' = "idle"
        /\ UNCHANGED <<file, mine, queued, tempo>>
    BY DEF SeekReturns
  <1>4. TypeOK'
    BY <1>1, <1>2, <1>3, InterpretedPlayer, NoCallFacts, TypeParts
       DEF Typed, Sound
  <1> QED
    BY <1>1, <1>2, <1>3, <1>4, InterpretedPlayer, NoCallFacts
       DEF Sound, InCall

\* The player a seek goes on with after the rewind.
LEMMA RestartedPlayer ==
    ASSUME Sound, RestartReturns
    PROVE  vgm' \in VgmT /\ Kept(Interpreted, vgm')
  <1>1. vgm \in VgmT /\ call \in CallT
    BY TypeParts DEF Typed, Sound
  <1> QED
    BY <1>1, InterpretedPlayer, UnfadedPlayer DEF RestartReturns

LEMMA SoundRestartReturns ==
    ASSUME Sound, RestartReturns
    PROVE  Sound'
  <1>1. /\ vgm \in VgmT /\ call \in CallT
        /\ call.op = "restart" /\ InCall /\ mine /\ vgm.playing
        /\ vgm.mul # 0 /\ vgm.div # 0
    BY TypeParts DEF Typed, Sound, RestartReturns, Return, InCall
  <1>2. /\ vgm' \in VgmT /\ vgm'.playing
        /\ vgm'.open = vgm.open /\ vgm'.VGMPos = vgm.VGMPos
        /\ vgm.VGMEnd => vgm'.VGMEnd
        /\ vgm'.mul # 0 /\ vgm'.div # 0
    BY <1>1, RestartedPlayer, InterpretedPlayer DEF Kept
  <1>3. call' \in CallT /\ call'.op = "seek"
    <2>1. call' = InterpretFile(vgm', call, "seek", call.target)
      BY DEF RestartReturns
    <2>2. "seek" \in Ops /\ call.target \in Nat /\ Rated(vgm')
      BY <1>1, <1>2 DEF CallT, Ops, Rated
    <2> QED
      BY <1>1, <1>2, <2>1, <2>2, InterpretFileCalls
  <1>4. UNCHANGED <<file, native, pc, mine, queued, tempo>>
    BY DEF RestartReturns
  <1>5. TypeOK'
    BY <1>2, <1>3, <1>4, TypeParts DEF Typed, Sound
  <1> QED
    BY <1>1, <1>2, <1>3, <1>4, <1>5 DEF Sound, InCall

LEMMA SoundNextSample ==
    ASSUME Sound, NextSample
    PROVE  Sound' /\ call'.op = "read" /\ call'.count = 1
                  /\ call'.CurSmpl = call.CurSmpl + 1
  <1>1. /\ vgm \in VgmT /\ call \in CallT
        /\ call.op = "read" /\ InCall /\ mine
    BY TypeParts DEF Typed, Sound, NextSample, Return, InCall
  <1>2. /\ vgm' \in VgmT /\ Kept(Interpreted, vgm')
    BY <1>1, AfterSamplePlayer DEF NextSample
  <1>3. /\ vgm'.playing = vgm.playing
        /\ vgm'.open = vgm.open /\ vgm'.VGMPos = vgm.VGMPos
        /\ vgm.VGMEnd => vgm'.VGMEnd
        /\ vgm'.mul = vgm.mul /\ vgm'.div = vgm.div
    BY <1>1, <1>2, InterpretedPlayer DEF Kept
  <1>4. call' \in CallT /\ call'.op = "read" /\ call'.count = 1
        /\ call'.CurSmpl = call.CurSmpl + 1
    <2> DEFINE n == call.CurSmpl + 1
               r == RecalcStep
               c == [call EXCEPT !.CurSmpl = n, !.RecalcStep = r]
    <2>1. n \in 0..Buf
      <3>1. Buf \in Nat
        BY PlayerAssumption
      <3>2. call.CurSmpl \in 0..Buf /\ call.CurSmpl + 1 < Buf
        BY <1>1 DEF NextSample, CallT
      <3> QED
        BY <3>1, <3>2
    <2>2. r \in Nat
      <3>1. SlowStep \in Nat /\ call.RecalcStep \in Nat
        BY <1>1, PlayerAssumption DEF CallT
      <3> QED
        BY <3>1 DEF RecalcStep
    <2>3. call' = InterpretFile(vgm', c, "read", 1)
      BY DEF NextSample
    <2> HIDE DEF n, r
    <2>4. c \in CallT /\ c.CurSmpl = n
      BY <1>1, <2>1, <2>2 DEF CallT
    <2> HIDE DEF c
    <2>5. "read" \in Ops /\ 1 \in Nat /\ Rated(vgm')
      BY <1>3 DEF Ops, Sound, Rated
    <2>6. call' \in CallT /\ call'.op = "read" /\ call'.count = 1
          /\ call'.CurSmpl = c.CurSmpl
      BY <1>2, <2>3, <2>4, <2>5, InterpretFileCalls
    <2> QED
      BY <2>4, <2>6 DEF n
  <1>5. UNCHANGED <<file, native, pc, mine, queued, tempo>>
    BY DEF NextSample
  <1>6. TypeOK'
    BY <1>2, <1>3, <1>4, <1>5, TypeParts DEF Typed, Sound
  <1> QED
    BY <1>1, <1>2, <1>3, <1>4, <1>5, <1>6 DEF Sound, InCall

\* The player after the last sample of a buffer.
LEMMA ReadPlayer ==
    ASSUME Sound, ReadReturns
    PROVE  /\ vgm' \in VgmT /\ vgm'.playing = vgm.playing
           /\ vgm'.open = vgm.open /\ vgm'.VGMPos = vgm.VGMPos
           /\ vgm'.VGMCurLoop = vgm.VGMCurLoop
           /\ vgm'.VGMSmplPlayed = vgm.VGMSmplPlayed + call.count
           /\ vgm'.VGMSmplPos = vgm.VGMSmplPos
           /\ vgm'.mul = vgm.mul /\ vgm'.div = vgm.div
           /\ vgm.VGMEnd => vgm'.VGMEnd
           /\ vgm'.VGMEnd = AfterSample.VGMEnd
           /\ vgm'.EndPlay <=> vgm.EndPlay \/ CutShort
           /\ AfterSample.EndPlay = vgm.EndPlay
  <1> DEFINE a == AfterSample
             e == AfterSample.EndPlay \/ CutShort
  <1>1. vgm \in VgmT /\ call \in CallT
    BY TypeParts DEF Typed, Sound
  <1>2. a \in VgmT /\ Kept(Interpreted, a)
    BY <1>1, AfterSamplePlayer
  <1>3. /\ a.playing = vgm.playing
        /\ a.open = vgm.open /\ a.VGMPos = vgm.VGMPos
        /\ a.VGMCurLoop = vgm.VGMCurLoop
        /\ a.VGMSmplPlayed = vgm.VGMSmplPlayed + call.count
        /\ a.VGMSmplPos = vgm.VGMSmplPos
        /\ a.EndPlay = vgm.EndPlay
        /\ vgm.VGMEnd => a.VGMEnd
        /\ a.mul = vgm.mul /\ a.div = vgm.div
    BY <1>1, <1>2, InterpretedPlayer DEF Kept
  <1>4. e \in BOOLEAN /\ (e <=> vgm.EndPlay \/ CutShort)
    <2>1. a.EndPlay \in BOOLEAN /\ a.EndPlay = vgm.EndPlay
      BY <1>2, <1>3 DEF VgmT
    <2> QED
      BY <2>1
  <1>5. vgm' = [a EXCEPT !.EndPlay = e]
    BY DEF ReadReturns
  <1>6. a = AfterSample
    OBVIOUS
  <1> HIDE DEF a, e
  <1>7. /\ vgm' \in VgmT /\ vgm'.EndPlay = e
        /\ vgm'.playing = a.playing
        /\ vgm'.open = a.open /\ vgm'.VGMPos = a.VGMPos
        /\ vgm'.VGMCurLoop = a.VGMCurLoop
        /\ vgm'.VGMSmplPlayed = a.VGMSmplPlayed
        /\ vgm'.VGMSmplPos = a.VGMSmplPos
        /\ vgm'.VGMEnd = a.VGMEnd
        /\ vgm'.mul = a.mul /\ vgm'.div = a.div
    BY <1>2, <1>4, <1>5 DEF VgmT
  <1> QED
    BY <1>3, <1>4, <1>6, <1>7

LEMMA SoundReadReturns ==
    ASSUME Sound, ReadReturns
    PROVE  Sound'
  <1>1. /\ vgm \in VgmT /\ call \in CallT /\ native \in NativeT
        /\ call.op = "read" /\ InCall /\ mine
    BY TypeParts DEF Typed, Sound, ReadReturns, Return, InCall
  <1>2. /\ native' \in NativeT /\ native'.chips = native.chips
        /\ native'.left = native.left
    <2> DEFINE p == native.played + CreatedSamples
               e == IF CreatedSamples # Buf /\ ~AfterSample.VGMEnd
                    THEN "short" ELSE native.error
    <2>1. p \in Nat
      <3>1. Buf \in Nat
        BY PlayerAssumption
      <3>2. call.CurSmpl \in Nat /\ native.played \in Nat
        BY <1>1, <3>1 DEF CallT, NativeT
      <3> QED
        BY <3>1, <3>2 DEF CreatedSamples
    <2>2. e \in {"none", "load", "buffer", "short"}
      BY <1>1 DEF NativeT
    <2>3. native' = [native EXCEPT !.played = p, !.error = e]
      BY DEF ReadReturns
    <2> HIDE DEF p, e
    <2> QED
      BY <1>1, <2>1, <2>2, <2>3 DEF NativeT
  <1>3. /\ call' = NoCall /\ pc' \in {"idle", "dead"}
        /\ UNCHANGED <<file, mine, queued, tempo>>
    BY DEF ReadReturns
  <1>4. TypeOK'
    BY <1>2, <1>3, ReadPlayer, NoCallFacts, TypeParts DEF Typed, Sound
  <1> QED
    BY <1>1, <1>2, <1>3, <1>4, ReadPlayer, NoCallFacts DEF Sound, InCall

LEMMA NextSound ==
    ASSUME Sound, [Next]_vars
    PROVE  Sound'
  <1>1. CASE UNCHANGED vars
    BY <1>1, TypeParts
       DEF vars, Sound, Typed, InCall
  <1>2. CASE Next
    BY <1>2, SoundBetween, SoundLoadFile, SoundSeek, SoundTempo, SoundRead,
       SoundWait, SoundLoopBack, SoundEnd, SoundLoadReturns,
       SoundRestartReturns, SoundSeekReturns, SoundNextSample,
       SoundReadReturns
       DEF Next, ReaderStep, BetweenCalls
  <1> QED
    BY <1>1, <1>2

LEMMA SoundIsInvariant == Spec => []Sound
  <1>1. Init => Sound
    BY InitSound
  <1>2. Sound /\ [Next]_vars => Sound'
    BY NextSound
  <1> QED
    BY <1>1, <1>2, PTL DEF Spec

(***************************************************************************)
(* The globals of VGMPlay.c and of Backend.cpp and the locals of the call  *)
(* keep their ranges; the position stays within the file or just behind    *)
(* it, whatever is loaded, sought or ended.                                *)
(***************************************************************************)
THEOREM VgmTypeCorrect == Spec => []TypeOK
  <1>1. Sound => TypeOK
    BY DEF Sound
  <1> QED
    BY <1>1, SoundIsInvariant, PTL

(***************************************************************************)
(* The voices the backend lists are those of the file that plays and,      *)
(* before them, exactly those of a stop whose teardown (Backend.cpp) was   *)
(* skipped, until a teardown clears the list.                              *)
(***************************************************************************)
THEOREM VoicesAreOfTheFile == Spec => []VoicesOfThisFile
  <1>1. Sound => VoicesOfThisFile
    BY DEF Sound, InCall, Loaded, VoicesOfThisFile
  <1> QED
    BY <1>1, SoundIsInvariant, PTL

-----------------------------------------------------------------------------
(***************************************************************************)
(* Every step keeps Clocks.                                                *)
(***************************************************************************)
Timed == mine /\ vgm.playing /\ tempo = "none"

LEMMA LoopCounted ==
    ASSUME NEW c \in Int, NEW l \in Int
    PROVE  (c + 1) * l = c * l + l /\ c * l \in Int
OBVIOUS

LEMMA TimeIsInt ==
    ASSUME Sound, vgm.playing
    PROVE  Time \in Int
  <1>1. LoopLength(vgm) \in Int
    BY LoopLengthIsInt, TypeParts DEF Typed, Sound
  <1>2. vgm.VGMCurLoop \in Int /\ vgm.VGMSmplPlayed \in Int
    BY TypeParts DEF Typed, Sound, VgmT
  <1> DEFINE l == LoopLength(vgm)
  <1> HIDE DEF l
  <1>3. vgm.VGMCurLoop * l + vgm.VGMSmplPlayed \in Int
    BY <1>1, <1>2 DEF l
  <1> QED
    BY <1>3 DEF Time, l

\* Without a loop the time goes on with the samples.
LEMMA TimeGoesOn ==
    ASSUME Sound, vgm.playing, file' = file,
           vgm'.mul = vgm.mul, vgm'.div = vgm.div,
           vgm'.VGMCurLoop = vgm.VGMCurLoop, NEW n \in Int,
           vgm'.VGMSmplPlayed = vgm.VGMSmplPlayed + n
    PROVE  Time' = Time + n /\ Time \in Int
  <1>1. LoopLength(vgm) \in Int
    BY LoopLengthIsInt, TypeParts DEF Typed, Sound
  <1>2. (LoopLength(vgm))' = LoopLength(vgm)
    BY DEF LoopLength, SampleVGM2Pbk_I
  <1>3. vgm.VGMCurLoop \in Int /\ vgm.VGMSmplPlayed \in Int
    BY TypeParts DEF Typed, Sound, VgmT
  <1> DEFINE l == LoopLength(vgm)
             c == vgm.VGMCurLoop
             s == vgm.VGMSmplPlayed
  <1>4. Time = c * l + s /\ Time' = c * l + (s + n)
    BY <1>2 DEF Time
  <1>5. c \in Int /\ l \in Int /\ s \in Int
    BY <1>1, <1>3
  <1> HIDE DEF l, c, s
  <1> QED
    BY <1>4, <1>5, LoopCounted

\* A loop takes from the one what it adds to the other.
LEMMA TimeLoops ==
    ASSUME Sound, vgm.playing, LoopBack
    PROVE  Time' = Time
  <1>1. LoopLength(vgm) \in Int
    BY LoopBackPlayer
  <1>2. (LoopLength(vgm))' = LoopLength(vgm)
    BY LoopBackPlayer DEF LoopBack, LoopLength, SampleVGM2Pbk_I
  <1>3. vgm.VGMCurLoop \in Int /\ vgm.VGMSmplPlayed \in Int
    BY TypeParts DEF Typed, Sound, VgmT
  <1> DEFINE l == LoopLength(vgm)
             c == vgm.VGMCurLoop
             s == vgm.VGMSmplPlayed
  <1>4. Time = c * l + s /\ Time' = (c + 1) * l + (s - l)
    BY <1>2, LoopBackPlayer DEF Time
  <1>5. c \in Int /\ l \in Int /\ s \in Int
    BY <1>1, <1>3
  <1> HIDE DEF l, c, s
  <1>6. (c + 1) * l = c * l + l /\ c * l \in Int
    BY <1>5, LoopCounted
  <1> QED
    BY <1>4, <1>5, <1>6

LEMMA RewoundTime ==
    ASSUME Sound', vgm'.playing, vgm'.VGMCurLoop = 0, vgm'.VGMSmplPlayed = 0
    PROVE  Time' = 0
  <1>1. (LoopLength(vgm))' \in Int
    <2>1. file' \in Files /\ vgm' \in VgmT /\ vgm'.mul # 0 /\ vgm'.div # 0
      BY TypeParts DEF Typed, Sound
    <2>2. file'.loopSamples \in Int
      BY <2>1, FileFacts
    <2> DEFINE n == file'.loopSamples
    <2> HIDE DEF n
    <2>3. SampleVGM2Pbk_I(vgm', n) \in Int
      BY <2>1, <2>2, ConversionIsInt DEF n
    <2> QED
      BY <2>3 DEF LoopLength, n
  <1> DEFINE l == (LoopLength(vgm))'
  <1>2. Time' = 0 * l + 0
    BY DEF Time
  <1> HIDE DEF l
  <1>3. l \in Int
    BY <1>1 DEF l
  <1> QED
    BY <1>2, <1>3

LEMMA InitClocks == Init => Clocks
BY DEF Init, Clocks

LEMMA ClocksBetween ==
    ASSUME Sound, Clocks, BetweenCalls
    PROVE  Clocks'
  <1>1. CASE Skip \/ ReadFails
    <2>1. UNCHANGED <<vgm, call, mine, tempo, file>>
      BY <1>1 DEF Skip, ReadFails
    <2>2. native'.played = native.played
      BY <1>1, TypeParts DEF Skip, ReadFails, Typed, Sound, NativeT
    <2> QED
      BY <2>1, <2>2 DEF Clocks, Slack, Time, LoopLength, SampleVGM2Pbk_I
  <1>2. CASE StopAndStart \/ StopWithoutTeardown \/ LoadOther
    BY <1>2 DEF StopAndStart, StopWithoutTeardown, LoadOther, Clocks
  <1>3. CASE LoadFails
    <2>1. ~vgm'.playing
      BY <1>3, ClosedPlayer, TypeParts DEF LoadFails, Typed, Sound
    <2> QED
      BY <2>1 DEF Clocks
  <1> QED
    BY <1>1, <1>2, <1>3 DEF BetweenCalls

LEMMA ClocksLoadFile ==
    ASSUME Sound, Sound', LoadFile
    PROVE  Clocks'
  <1>1. vgm \in VgmT /\ native \in NativeT
    BY TypeParts DEF Typed, Sound
  <1>2. /\ vgm' \in VgmT /\ vgm'.playing /\ vgm'.open
        /\ vgm'.mul = SampleRate /\ vgm'.div = VGMSampleRate
        /\ vgm'.VGMCurLoop = 0 /\ vgm'.VGMSmplPlayed = 0
    BY <1>1, PlayVGMPlays DEF LoadFile
  <1>3. Time' = 0
    BY <1>2, RewoundTime
  <1>4. native'.played = 0
    <2> DEFINE t == IF mine THEN teardown(native) ELSE native
    <2>1. t \in NativeT
      BY <1>1, TeardownFacts
    <2>2. native' = [t EXCEPT !.played = 0]
      BY DEF LoadFile
    <2> HIDE DEF t
    <2> QED
      BY <2>1, <2>2 DEF NativeT
  <1>5. call'.op = "load" /\ call'.count = 0
    <2>1. "load" \in Ops /\ 0 \in Nat /\ Rated(vgm')
      BY <1>2, PlayerAssumption DEF Ops, Rated
    <2>2. call' = InterpretFile(vgm', NoCall, "load", 0)
      BY DEF LoadFile
    <2> QED
      BY <1>2, <2>1, <2>2, NoCallFacts, InterpretFileCalls
  <1> QED
    BY <1>2, <1>3, <1>4, <1>5 DEF Clocks

LEMMA ClocksSeek ==
    ASSUME Sound, Sound', Clocks, Seek
    PROVE  Clocks'
  <1>1. vgm \in VgmT /\ call \in CallT /\ ~InCall
    BY TypeParts DEF Typed, Sound, Seek
  <1>2. mine /\ UNCHANGED <<file, mine, tempo>>
    BY DEF Seek
  <1>3. CASE ~vgm.playing
    <2>1. vgm' = vgm
      BY <1>3 DEF Seek
    <2> QED
      BY <1>3, <2>1 DEF Clocks
  <1>4. CASE vgm.playing
    <2>1. PICK target \in Targets :
            /\ vgm' = IF target < Time THEN Rewound(vgm) ELSE vgm
            /\ call' = IF target < Time
                       THEN InterpretFile(vgm',
                              [NoCall EXCEPT !.target = target], "restart", 0)
                       ELSE InterpretFile(vgm',
                              [NoCall EXCEPT !.target = target], "seek",
                              target - Time)
      BY <1>4 DEF Seek, Time
    <2> DEFINE c == [NoCall EXCEPT !.target = target]
    <2>2. target \in Nat /\ Time \in Int
      BY <1>4, TimeIsInt, PlayerAssumption
    <2>3. c \in CallT /\ c.target = target
      BY <2>2, NoCallFacts DEF CallT
    <2>4. "seek" \in Ops /\ "restart" \in Ops /\ 0 \in Nat
      BY DEF Ops
    <2>5. /\ vgm' \in VgmT /\ vgm'.playing /\ Rated(vgm')
          /\ vgm'.mul = vgm.mul /\ vgm'.div = vgm.div
      BY <1>1, <1>4, <2>1, RewoundPlayer DEF Sound, Rated
    <2>6. CASE target < Time
      <3>1. vgm'.VGMCurLoop = 0 /\ vgm'.VGMSmplPlayed = 0
        BY <1>1, <2>1, <2>6, RewoundPlayer
      <3>2. Time' = 0
        BY <2>5, <3>1, RewoundTime
      <3>3. call' = InterpretFile(vgm', c, "restart", 0)
        BY <2>1, <2>6
      <3> HIDE DEF c
      <3>4. call'.op = "restart" /\ call'.count = 0
        BY <2>3, <2>4, <2>5, <3>3, InterpretFileCalls
      <3> QED
        BY <1>2, <1>4, <2>5, <3>2, <3>4 DEF Clocks
    <2>7. CASE ~(target < Time)
      <3>1. vgm' = vgm
        BY <2>1, <2>7
      <3>2. Time' = Time
        BY <1>2, <3>1 DEF Time, LoopLength, SampleVGM2Pbk_I
      <3>3. call' = InterpretFile(vgm', c, "seek", target - Time)
        BY <2>1, <2>7
      <3>4. target - Time \in Nat
        BY <2>2, <2>7
      <3> HIDE DEF c
      <3>5. /\ call'.op = "seek" /\ call'.count = target - Time
            /\ call'.target = target
        BY <2>3, <2>4, <2>5, <3>3, <3>4, InterpretFileCalls
      <3>6. Time' + call'.count = call'.target
        BY <2>2, <3>2, <3>5
      <3> QED
        BY <1>2, <1>4, <2>5, <3>5, <3>6 DEF Clocks
    <2> QED
      BY <2>6, <2>7
  <1> QED
    BY <1>3, <1>4

LEMMA ClocksTempo ==
    ASSUME SetTempoMul \/ SetTempoDiv
    PROVE  Clocks'
BY DEF SetTempoMul, SetTempoDiv, Clocks

LEMMA ClocksRead ==
    ASSUME Sound, Clocks, ReadNextSamples
    PROVE  Clocks'
  <1>1. vgm \in VgmT /\ Rated(vgm) /\ native \in NativeT /\ ~InCall
    BY TypeParts DEF Typed, Sound, Rated, ReadNextSamples
  <1>2. vgm' \in VgmT /\ Kept(vgm, vgm')
    BY <1>1, RecalcFadeVolumeKeeps DEF ReadNextSamples
  <1>3. UNCHANGED <<file, native, mine, tempo>>
    BY DEF ReadNextSamples
  <1>4. call'.op = "read" /\ call'.count = 1 /\ call'.CurSmpl = 0
    <2> DEFINE r == IF vgm.FadePlay THEN SampleRate \div VGMSampleRate ELSE 0
               c == [NoCall EXCEPT !.RecalcStep = r]
    <2>1. r \in Nat
      <3>1. SampleRate \in Nat /\ VGMSampleRate \in Nat \ {0}
        BY PlayerAssumption
      <3> QED
        BY <3>1
    <2>2. call' = InterpretFile(vgm', c, "read", 1)
      BY DEF ReadNextSamples
    <2> HIDE DEF r
    <2>3. c \in CallT /\ c.CurSmpl = 0
      BY <2>1, NoCallFacts DEF CallT
    <2>4. "read" \in Ops /\ 1 \in Nat /\ Rated(vgm')
      BY <1>1, <1>2 DEF Ops, Kept, Rated
    <2> HIDE DEF c
    <2> QED
      BY <1>2, <2>2, <2>3, <2>4, InterpretFileCalls
  <1>5. SUFFICES ASSUME Timed'
                 PROVE  Clocks'
    BY DEF Timed, Clocks
  <1>6. Timed /\ call.op = "none"
    BY <1>1, <1>2, <1>3, <1>5 DEF Timed, Kept, InCall
  <1>7. /\ vgm.mul = SampleRate /\ vgm.div = VGMSampleRate
        /\ Time - native.played \in Slack
    BY <1>6 DEF Clocks, Timed
  <1>8. Time' = Time /\ Time \in Int
    <2>1. vgm'.VGMSmplPlayed = vgm.VGMSmplPlayed + 0
      BY <1>1, <1>2 DEF VgmT, Kept
    <2>2. Time' = Time + 0 /\ Time \in Int
      BY <1>2, <1>3, <1>6, <2>1, TimeGoesOn DEF Kept, Timed
    <2> QED
      BY <2>2
  <1>9. Slack \subseteq Slack'
    BY <1>2 DEF Slack, Kept
  <1>10. Time' - native'.played - call'.CurSmpl \in Slack'
    <2>1. native.played \in Int
      BY <1>1 DEF NativeT
    <2>2. Time' - native'.played - call'.CurSmpl = Time - native.played
      BY <1>3, <1>4, <1>8, <2>1
    <2> QED
      BY <1>7, <1>9, <2>2
  <1> QED
    BY <1>2, <1>4, <1>7, <1>10 DEF Clocks, Kept

\* A command changes neither clock, or both by a loop.
LEMMA ClocksCommand ==
    ASSUME Sound, Clocks, Wait \/ EndOfFile \/ BadCommand \/ LoopBack
    PROVE  Clocks'
  <1>1. vgm \in VgmT /\ call \in CallT /\ Due
    BY TypeParts DEF Typed, Sound, Wait, EndOfFile, BadCommand, LoopBack
  <1>2. /\ UNCHANGED <<file, native, mine, tempo>>
        /\ vgm'.playing = vgm.playing
        /\ vgm'.mul = vgm.mul /\ vgm'.div = vgm.div
        /\ vgm'.open = vgm.open /\ vgm' \in VgmT
        /\ vgm.EndPlay => vgm'.EndPlay
    BY WaitedPlayer, EndedPlayer, LoopBackPlayer
       DEF Wait, EndOfFile, BadCommand, LoopBack
  <1>3. /\ call'.op = call.op /\ call'.count = call.count
        /\ call'.CurSmpl = call.CurSmpl /\ call'.target = call.target
    <2>1. CASE LoopBack
      <3>1. call.op \in Ops /\ call.count \in Nat
        BY <1>1 DEF CallT
      <3>2. Rated(vgm')
        BY <1>1, <1>2, DueCommand DEF Rated
      <3> QED
        BY <1>1, <1>2, <2>1, <3>1, <3>2, InterpretFileCalls DEF LoopBack
    <2>2. CASE Wait \/ EndOfFile \/ BadCommand
      BY <2>2 DEF Wait, EndOfFile, BadCommand
    <2> QED
      BY <2>1, <2>2
  <1>4. SUFFICES ASSUME Timed'
                 PROVE  Clocks'
    BY DEF Timed, Clocks
  <1>5. Timed
    BY <1>2, <1>4 DEF Timed
  <1>6. Time' = Time
    <2>1. CASE LoopBack
      BY <1>5, <2>1, TimeLoops DEF Timed
    <2>2. CASE Wait \/ EndOfFile \/ BadCommand
      <3>1. /\ vgm'.VGMCurLoop = vgm.VGMCurLoop
            /\ vgm'.VGMSmplPlayed = vgm.VGMSmplPlayed + 0
        BY <1>1, <2>2, WaitedPlayer, EndedPlayer DEF VgmT
      <3>2. Time' = Time + 0 /\ Time \in Int
        BY <1>2, <1>5, <3>1, TimeGoesOn DEF Timed
      <3> QED
        BY <3>2
    <2> QED
      BY <2>1, <2>2
  <1>7. Slack \subseteq Slack'
    BY <1>1, <1>2 DEF Slack, Due
  <1> QED
    BY <1>2, <1>3, <1>5, <1>6, <1>7 DEF Clocks, Timed

\* A call that returns has counted its samples.
LEMMA ClocksReturn ==
    ASSUME Sound, Clocks, LoadReturns \/ SeekReturns
    PROVE  Clocks'
  <1>1. vgm \in VgmT /\ call \in CallT /\ native \in NativeT
    BY TypeParts DEF Typed, Sound
  <1>2. /\ vgm' = Interpreted /\ call' = NoCall
        /\ UNCHANGED <<file, mine, tempo>>
    BY DEF LoadReturns, SeekReturns
  <1>3. SUFFICES ASSUME Timed'
                 PROVE  Clocks'
    BY DEF Timed, Clocks
  <1>4. Timed /\ vgm'.mul = vgm.mul /\ vgm'.div = vgm.div
    BY <1>1, <1>2, <1>3, InterpretedPlayer DEF Timed
  <1>5. Time' = Time + call.count /\ Time \in Int
    <2>1. call.count \in Int
      BY <1>1 DEF CallT
    <2> QED
      BY <1>1, <1>2, <1>4, <2>1, InterpretedPlayer, TimeGoesOn DEF Timed
  <1>6. Time' = native'.played
    <2>1. CASE LoadReturns
      <3>1. Time = 0 /\ call.count = 0 /\ native.played = 0
        BY <1>4, <2>1 DEF Clocks, Timed, LoadReturns, Return
      <3> DEFINE n == native.chips + file.chips
      <3>2. native' = [native EXCEPT !.chips = n]
        BY <2>1 DEF LoadReturns
      <3> HIDE DEF n
      <3>3. native'.played = native.played
        BY <1>1, <3>2 DEF NativeT
      <3> QED
        BY <1>5, <3>1, <3>3
    <2>2. CASE SeekReturns
      <3>1. Time + call.count = call.target
        BY <1>4, <2>2 DEF Clocks, Timed, SeekReturns, Return
      <3>2. native'.played = call.target
        BY <1>1, <2>2 DEF SeekReturns, NativeT
      <3> QED
        BY <1>5, <3>1, <3>2
    <2> QED
      BY <2>1, <2>2
  <1>7. Time' - native'.played = 0
    <2>1. Time' \in Int
      BY <1>1, <1>5 DEF CallT
    <2> QED
      BY <1>6, <2>1
  <1>8. 0 \in Slack'
    BY DEF Slack
  <1> QED
    BY <1>2, <1>4, <1>7, <1>8, NoCallFacts DEF Clocks, Timed

LEMMA ClocksRestartReturns ==
    ASSUME Sound, Clocks, RestartReturns
    PROVE  Clocks'
  <1>1. /\ vgm \in VgmT /\ call \in CallT /\ call.op = "restart"
        /\ vgm.mul # 0 /\ vgm.div # 0
    BY TypeParts DEF Typed, Sound, RestartReturns, Return
  <1>2. UNCHANGED <<file, mine, tempo>>
    BY DEF RestartReturns
  <1>3. /\ vgm' \in VgmT
        /\ vgm'.playing = vgm.playing /\ vgm'.open = vgm.open
        /\ vgm'.mul = vgm.mul /\ vgm'.div = vgm.div
        /\ vgm'.VGMCurLoop = vgm.VGMCurLoop
        /\ vgm'.VGMSmplPlayed = vgm.VGMSmplPlayed + call.count
    BY <1>1, RestartedPlayer, InterpretedPlayer DEF Kept
  <1>4. call'.op = "seek" /\ call'.count = call.target
        /\ call'.target = call.target
    <2>1. call' = InterpretFile(vgm', call, "seek", call.target)
      BY DEF RestartReturns
    <2>2. "seek" \in Ops /\ call.target \in Nat /\ Rated(vgm')
      BY <1>1, <1>3 DEF CallT, Ops, Rated
    <2> QED
      BY <1>1, <1>3, <2>1, <2>2, InterpretFileCalls
  <1>5. SUFFICES ASSUME Timed'
                 PROVE  Clocks'
    BY DEF Timed, Clocks
  <1>6. Timed
    BY <1>2, <1>3, <1>5 DEF Timed
  <1>7. Time = 0 /\ call.count = 0
    BY <1>1, <1>6 DEF Clocks, Timed
  <1>8. Time' = Time + call.count
    BY <1>1, <1>2, <1>3, <1>6, <1>7, TimeGoesOn DEF Timed
  <1>9. Time' + call'.count = call'.target
    <2>1. call.target \in Nat
      BY <1>1 DEF CallT
    <2> QED
      BY <1>4, <1>7, <1>8, <2>1
  <1> QED
    BY <1>3, <1>4, <1>6, <1>9 DEF Clocks, Timed

LEMMA ClocksNextSample ==
    ASSUME Sound, Clocks, NextSample
    PROVE  Clocks'
  <1>1. /\ vgm \in VgmT /\ call \in CallT /\ native \in NativeT
        /\ call.op = "read"
    BY TypeParts DEF Typed, Sound, NextSample, Return
  <1>2. UNCHANGED <<file, native, mine, tempo>>
    BY DEF NextSample
  <1>3. vgm' \in VgmT /\ Kept(Interpreted, vgm')
    BY <1>1, AfterSamplePlayer DEF NextSample
  <1>4. /\ vgm'.playing = vgm.playing
        /\ vgm'.mul = vgm.mul /\ vgm'.div = vgm.div
        /\ vgm'.VGMCurLoop = vgm.VGMCurLoop
        /\ vgm'.VGMSmplPlayed = vgm.VGMSmplPlayed + call.count
        /\ vgm.VGMEnd => vgm'.VGMEnd
        /\ vgm'.EndPlay = vgm.EndPlay
    BY <1>1, <1>3, InterpretedPlayer DEF Kept
  <1>5. SUFFICES ASSUME Timed'
                 PROVE  Clocks'
    BY DEF Timed, Clocks
  <1>6. Timed
    BY <1>2, <1>4, <1>5 DEF Timed
  <1>7. call.count = 1 /\ Time - native.played - call.CurSmpl \in Slack
    BY <1>1, <1>6 DEF Clocks, Timed
  <1>8. Time' = Time + 1 /\ Time \in Int
    BY <1>2, <1>4, <1>6, <1>7, TimeGoesOn DEF Timed
  <1>9. Time' - native'.played - call'.CurSmpl
          = Time - native.played - call.CurSmpl
    <2>1. native.played \in Int /\ call.CurSmpl \in Int
      BY <1>1, PlayerAssumption DEF NativeT, CallT
    <2> QED
      BY <1>2, <1>8, <2>1, SoundNextSample
  <1>10. Slack \subseteq Slack'
    BY <1>4 DEF Slack
  <1> QED
    BY <1>4, <1>6, <1>7, <1>9, <1>10, SoundNextSample DEF Clocks, Timed

\* A buffer that is cut short by the end of the track has counted a sample
\* that is not in it.
LEMMA ClocksReadReturns ==
    ASSUME Sound, Clocks, ReadReturns
    PROVE  Clocks'
  <1>1. /\ vgm \in VgmT /\ call \in CallT /\ native \in NativeT
        /\ call.op = "read"
    BY TypeParts DEF Typed, Sound, ReadReturns, Return
  <1>2. UNCHANGED <<file, mine, tempo>> /\ call' = NoCall
    BY DEF ReadReturns
  <1>3. SUFFICES ASSUME Timed'
                 PROVE  Clocks'
    BY DEF Timed, Clocks
  <1>4. Timed
    BY <1>2, <1>3, ReadPlayer DEF Timed
  <1>5. call.count = 1 /\ Time - native.played - call.CurSmpl \in Slack
    BY <1>1, <1>4 DEF Clocks, Timed
  <1>6. Time' = Time + 1 /\ Time \in Int
    BY <1>2, <1>4, <1>5, ReadPlayer, TimeGoesOn DEF Timed
  <1>7. native.played \in Int /\ call.CurSmpl \in Int /\ Buf \in Int
    BY <1>1, PlayerAssumption DEF NativeT, CallT
  <1>8. native'.played = native.played + CreatedSamples
    <2> DEFINE p == native.played + CreatedSamples
               e == IF CreatedSamples # Buf /\ ~AfterSample.VGMEnd
                    THEN "short" ELSE native.error
    <2>1. native' = [native EXCEPT !.played = p, !.error = e]
      BY DEF ReadReturns
    <2> HIDE DEF p, e
    <2>2. native'.played = p
      BY <1>1, <2>1 DEF NativeT
    <2> QED
      BY <2>2 DEF p
  <1>9. Time' - native'.played \in Slack'
    <2>1. CASE CutShort
      <3>1. vgm'.VGMEnd /\ vgm'.EndPlay /\ ~vgm.EndPlay
        BY <2>1, ReadPlayer DEF CutShort
      <3>2. Time - native.played - call.CurSmpl = 0
        BY <1>5, <3>1 DEF Slack
      <3>3. native'.played = native.played + call.CurSmpl
        BY <1>8, <2>1 DEF CreatedSamples
      <3>4. Time' - native'.played = 1
        BY <1>6, <1>7, <3>2, <3>3
      <3> QED
        BY <3>1, <3>4 DEF Slack
    <2>2. CASE ~CutShort
      <3>1. call.CurSmpl + 1 = Buf
        BY <2>2 DEF ReadReturns
      <3>2. native'.played = native.played + Buf
        BY <1>8, <2>2 DEF CreatedSamples
      <3>3. Time' - native'.played = Time - native.played - call.CurSmpl
        BY <1>6, <1>7, <3>1, <3>2
      <3>4. Slack \subseteq Slack'
        BY ReadPlayer DEF Slack
      <3> QED
        BY <1>5, <3>3, <3>4
    <2> QED
      BY <2>1, <2>2
  <1> QED
    BY <1>2, <1>4, <1>9, ReadPlayer, NoCallFacts DEF Clocks, Timed

LEMMA NextClocks ==
    ASSUME Sound, Clocks, [Next]_vars
    PROVE  Clocks'
  <1>1. CASE UNCHANGED vars
    BY <1>1 DEF vars, Clocks, Slack, Time, LoopLength, SampleVGM2Pbk_I
  <1>2. CASE Next
    <2>1. Sound'
      BY NextSound
    <2> QED
      BY <1>2, <2>1, ClocksBetween, ClocksLoadFile, ClocksSeek, ClocksTempo,
         ClocksRead, ClocksCommand, ClocksReturn, ClocksRestartReturns,
         ClocksNextSample, ClocksReadReturns
         DEF Next, ReaderStep, BetweenCalls
  <1> QED
    BY <1>1, <1>2

(***************************************************************************)
(* The clock the backend reports and seeks by, g_played_sample_count, and  *)
(* the time of VGMPlay agree whenever the reader thread is between two     *)
(* native calls: exactly while the track plays, and to a sample once it    *)
(* has ended, because FillBuffer counts the sample it does not deliver.    *)
(***************************************************************************)
THEOREM ClocksStayTogether == Spec => []ClocksAgree
  <1>1. Init => Clocks
    BY InitClocks
  <1>2. Sound /\ Clocks /\ [Next]_vars => Clocks'
    BY NextClocks
  <1>3. Sound /\ Clocks => ClocksAgree
    <2>1. SUFFICES ASSUME Sound, Clocks, Loaded, tempo = "none"
                   PROVE  ClocksAgree
      BY DEF ClocksAgree
    <2>2. call.op = "none" /\ mine /\ vgm.playing
      BY <2>1 DEF Loaded, Sound, InCall
    <2>3. Time - native.played \in Slack
      BY <2>1, <2>2 DEF Clocks
    <2>4. LoopLength(vgm) \in Int
      BY <2>1, <2>2, LoopLengthIsInt, TypeParts DEF Typed, Sound
    <2>5. PICK l \in Int : l = LoopLength(vgm)
      BY <2>4
    <2>6. /\ vgm.VGMCurLoop \in Int /\ vgm.VGMSmplPlayed \in Int
          /\ native.played \in Int
      BY <2>1, TypeParts DEF Typed, Sound, VgmT, NativeT
    <2> QED
      BY <2>1, <2>3, <2>5, <2>6 DEF ClocksAgree, Time, Slack
  <1> QED
    BY <1>1, <1>2, <1>3, SoundIsInvariant, PTL DEF Spec

-----------------------------------------------------------------------------
(***************************************************************************)
(* The times of the commands: Times is defined by recursion, and is what   *)
(* its definition says because there is a function that solves it up to    *)
(* any place, and only one.  Both are shown by the least place where they  *)
(* would fail.                                                             *)
(***************************************************************************)
LEMMA GreaterOfTwo ==
    ASSUME NEW a \in Int, NEW b \in Int
    PROVE  Max({a, b}) = IF a >= b THEN a ELSE b
BY DEF Max

\* Every set of naturals that is not empty has a least element.
Below == {ss \in Nat \X Nat : ss[1] < ss[2]}

LEMMA LeastNatural ==
    ASSUME NEW S \in SUBSET Nat, S # {}
    PROVE  \E n \in S : \A m \in S : n <= m
  <1>1. IsWellFoundedOn(Below, Nat)
    BY NatLessThanWellFounded DEF OpToRel, Below
  <1>2. PICK n \in S : \A m \in S : ~(<<m, n>> \in Below)
    BY <1>1, WFMin
  <1>3. SUFFICES ASSUME NEW m \in S PROVE n <= m
    BY <1>2
  <1>4. m \in Nat /\ n \in Nat
    BY <1>2, <1>3
  <1>5. ~(<<m, n>> \in Below)
    BY <1>2, <1>3
  <1>6. <<m, n>> \in Nat \X Nat /\ <<m, n>>[1] = m /\ <<m, n>>[2] = n
    BY <1>4
  <1>7. ~(m < n)
    BY <1>5, <1>6 DEF Below
  <1> QED
    BY <1>4, <1>7

\* A time at every place up to n.
TimeAt(cmds, t, p) == IF p <= 1 THEN 0 ELSE t[p - 1] + Max({0, cmds[p - 1]})

TimesUpTo(cmds, t, n) ==
    /\ t \in [0..n -> Nat]
    /\ \A p \in 0..n : t[p] = TimeAt(cmds, t, p)

LEMMA TimeAtIsTime ==
    ASSUME NEW cmds \in Seq(Nat \cup {End, Bad}), NEW n \in Nat,
           NEW t \in [0..n -> Nat], NEW p \in 0..(n + 1),
           p <= Len(cmds) + 1
    PROVE  TimeAt(cmds, t, p) \in Nat
  <1>1. CASE p <= 1
    BY <1>1 DEF TimeAt
  <1>2. CASE ~(p <= 1)
    <2>1. p - 1 \in 1..Len(cmds) /\ p - 1 \in 0..n
      BY <1>2
    <2>2. cmds[p - 1] \in Nat \cup {End, Bad}
      BY <2>1
    <2>3. cmds[p - 1] \in Int
      BY <2>2 DEF End, Bad
    <2>4. Max({0, cmds[p - 1]}) \in Nat
      <3>1. \A c \in Int : Max({0, c}) \in Nat
        <4>1. SUFFICES ASSUME NEW c \in Int PROVE Max({0, c}) \in Nat
          OBVIOUS
        <4>2. Max({0, c}) = IF 0 >= c THEN 0 ELSE c
          BY GreaterOfTwo
        <4> QED
          BY <4>2
      <3> QED
        BY <2>3, <3>1
    <2>5. t[p - 1] \in Nat
      BY <2>1
    <2> QED
      BY <1>2, <2>4, <2>5 DEF TimeAt
  <1> QED
    BY <1>1, <1>2

LEMMA TimesUpToExist ==
    ASSUME NEW cmds \in Seq(Nat \cup {End, Bad}), NEW n \in 0..(Len(cmds) + 1)
    PROVE  \E t : TimesUpTo(cmds, t, n)
  <1> DEFINE S == {m \in 0..(Len(cmds) + 1) : ~ \E t : TimesUpTo(cmds, t, m)}
  <1>1. SUFFICES ASSUME n \in S PROVE FALSE
    OBVIOUS
  <1>2. S \in SUBSET Nat /\ S # {}
    BY <1>1
  <1>3. PICK m \in S : \A k \in S : m <= k
    <2> HIDE DEF S
    <2> QED BY <1>2, LeastNatural
  <1>4. m \in 0..(Len(cmds) + 1) /\ ~ \E t : TimesUpTo(cmds, t, m)
    BY <1>3
  <1>5. CASE m = 0
    <2> DEFINE t == [p \in 0..0 |-> 0]
    <2>1. TimesUpTo(cmds, t, 0)
      BY DEF TimesUpTo, TimeAt
    <2> QED
      BY <1>4, <1>5, <2>1
  <1>6. CASE m # 0
    <2>1. m - 1 \in 0..(Len(cmds) + 1) /\ m - 1 \in Nat /\ ~(m <= m - 1)
      BY <1>4, <1>6
    <2>2. ~(m - 1 \in S)
      BY <1>3, <2>1
    <2>3. PICK t : TimesUpTo(cmds, t, m - 1)
      BY <2>1, <2>2
    <2> DEFINE s == TimeAt(cmds, t, m)
               u == [p \in 0..m |-> IF p = m THEN s ELSE t[p]]
    <2>4. t \in [0..(m - 1) -> Nat]
          /\ \A p \in 0..(m - 1) : t[p] = TimeAt(cmds, t, p)
      BY <2>3 DEF TimesUpTo
    <2>5. s \in Nat
      <3>1. m \in 0..((m - 1) + 1) /\ m <= Len(cmds) + 1
        BY <1>4
      <3> QED
        BY <2>1, <2>4, <3>1, TimeAtIsTime
    <2> HIDE DEF s
    <2>6. \A p \in 0..(m - 1) : u[p] = t[p]
      BY <1>4
    <2>7. \A p \in 0..m : u[p] = TimeAt(cmds, u, p)
      <3>1. SUFFICES ASSUME NEW p \in 0..m PROVE u[p] = TimeAt(cmds, u, p)
        OBVIOUS
      <3>2. TimeAt(cmds, u, p) = TimeAt(cmds, t, p)
        <4>1. p > 1 => p - 1 \in 0..(m - 1)
          BY <1>4, <3>1
        <4>2. p > 1 => u[p - 1] = t[p - 1]
          BY <2>6, <4>1
        <4> HIDE DEF u
        <4> QED
          BY <3>1, <4>2 DEF TimeAt
      <3>3. CASE p = m
        BY <3>2, <3>3 DEF s
      <3>4. CASE p # m
        BY <1>4, <2>4, <2>6, <3>1, <3>2, <3>4
      <3> QED
        BY <3>3, <3>4
    <2>8. u \in [0..m -> Nat]
      BY <1>4, <2>4, <2>5
    <2>9. TimesUpTo(cmds, u, m)
      <3> HIDE DEF u
      <3> QED
        BY <2>7, <2>8 DEF TimesUpTo
    <2> QED
      BY <1>4, <2>9
  <1> QED
    BY <1>5, <1>6

\* Two solutions of the recursion are the same.
LEMMA TimesAreUnique ==
    ASSUME NEW cmds, NEW n \in Nat, NEW t, TimesUpTo(cmds, t, n),
           NEW u, u = [p \in 0..n |-> TimeAt(cmds, u, p)]
    PROVE  u = t
  <1> DEFINE S == {p \in 0..n : u[p] # t[p]}
  <1>1. \A p \in 0..n : u[p] = TimeAt(cmds, u, p) /\ t[p] = TimeAt(cmds, t, p)
    BY DEF TimesUpTo
  <1>2. S = {}
    <2>1. SUFFICES ASSUME S # {} PROVE FALSE
      OBVIOUS
    <2>2. S \in SUBSET Nat
      OBVIOUS
    <2>3. PICK p \in S : \A q \in S : p <= q
      <3> HIDE DEF S
      <3> QED BY <2>1, <2>2, LeastNatural
    <2>4. p \in 0..n /\ u[p] # t[p]
      BY <2>3
    <2>5. p > 1 => p - 1 \in 0..n /\ ~(p <= p - 1)
      BY <2>4
    <2>6. p > 1 => u[p - 1] = t[p - 1]
      BY <2>3, <2>5
    <2>7. TimeAt(cmds, u, p) = TimeAt(cmds, t, p)
      BY <2>4, <2>6 DEF TimeAt
    <2> QED
      BY <1>1, <2>4, <2>7
  <1>3. \A p \in 0..n : u[p] = t[p]
    BY <1>2
  <1>4. t = [p \in 0..n |-> t[p]]
    BY DEF TimesUpTo
  <1>5. u = [p \in 0..n |-> u[p]]
    OBVIOUS
  <1> QED
    BY <1>3, <1>4, <1>5

\* The recursive definition of Times has the value it says.
LEMMA TimesFacts ==
    ASSUME NEW cmds \in Seq(Nat \cup {End, Bad})
    PROVE  TimesUpTo(cmds, Times(cmds), Len(cmds) + 1)
  <1> DEFINE N == Len(cmds) + 1
             Rec(t) == [p \in 0..N |-> TimeAt(cmds, t, p)]
  <1>1. N \in Nat
    OBVIOUS
  <1>2. PICK t : TimesUpTo(cmds, t, N)
    BY <1>1, TimesUpToExist
  <1>3. t = Rec(t)
    BY <1>2 DEF TimesUpTo
  <1>4. Times(cmds) = CHOOSE u : u = Rec(u)
    BY DEF Times, TimeAt
  <1>5. Times(cmds) = Rec(Times(cmds))
    BY <1>3, <1>4
  <1>6. Times(cmds) = t
    BY <1>1, <1>2, <1>5, TimesAreUnique
  <1> QED
    BY <1>2, <1>6

\* The time at each place of a file, and that it never decreases.
LEMMA TimeFacts ==
    ASSUME NEW cmds \in Seq(Nat \cup {End, Bad})
    PROVE  /\ \A p \in 0..(Len(cmds) + 1) : Times(cmds)[p] \in Nat
           /\ Times(cmds)[0] = 0 /\ Times(cmds)[1] = 0
           /\ \A p \in 1..Len(cmds) :
                /\ cmds[p] >= 0 => Times(cmds)[p + 1] = Times(cmds)[p] + cmds[p]
                /\ Times(cmds)[p - 1] <= Times(cmds)[p]
  <1> DEFINE t == Times(cmds)
             N == Len(cmds) + 1
  <1>1. t \in [0..N -> Nat] /\ \A p \in 0..N : t[p] = TimeAt(cmds, t, p)
    BY TimesFacts DEF TimesUpTo
  <1>2. N \in Nat /\ N >= 1
    OBVIOUS
  <1> HIDE DEF t
  <1>3. \A p \in 0..N : t[p] \in Nat
    BY <1>1
  <1>4. t[0] = 0 /\ t[1] = 0
    <2>1. 0 \in 0..N /\ 1 \in 0..N
      BY <1>2
    <2>2. t[0] = TimeAt(cmds, t, 0) /\ t[1] = TimeAt(cmds, t, 1)
      BY <1>1, <2>1
    <2> QED
      BY <2>2 DEF TimeAt
  <1>5. ASSUME NEW p \in 1..Len(cmds)
        PROVE  /\ t[p + 1] = t[p] + Max({0, cmds[p]})
               /\ cmds[p] \in Int
    <2>1. p + 1 \in 0..N /\ ~(p + 1 <= 1) /\ (p + 1) - 1 = p
      BY <1>5
    <2>2. t[p + 1] = TimeAt(cmds, t, p + 1)
      BY <1>1, <2>1
    <2>3. cmds[p] \in Nat \cup {End, Bad}
      BY <1>5
    <2> QED
      BY <2>1, <2>2, <2>3 DEF TimeAt, End, Bad
  <1>6. \A c \in Int : /\ Max({0, c}) \in Nat
                       /\ c >= 0 => Max({0, c}) = c
    <2>1. SUFFICES ASSUME NEW c \in Int
                   PROVE  /\ Max({0, c}) \in Nat
                          /\ c >= 0 => Max({0, c}) = c
      OBVIOUS
    <2>2. Max({0, c}) = IF 0 >= c THEN 0 ELSE c
      BY GreaterOfTwo
    <2> QED
      BY <2>2
  <1>7. ASSUME NEW p \in 1..Len(cmds)
        PROVE  /\ cmds[p] >= 0 => t[p + 1] = t[p] + cmds[p]
               /\ t[p - 1] <= t[p]
    <2>1. cmds[p] >= 0 => t[p + 1] = t[p] + cmds[p]
      BY <1>5, <1>6, <1>7
    <2>2. CASE p = 1
      BY <1>4, <2>1, <2>2
    <2>3. CASE p # 1
      <3>1. p - 1 \in 1..Len(cmds) /\ (p - 1) + 1 = p /\ p - 1 \in 0..N
        BY <1>7, <2>3
      <3>2. t[(p - 1) + 1] = t[p - 1] + Max({0, cmds[p - 1]})
            /\ cmds[p - 1] \in Int
        BY <1>5, <3>1
      <3>3. Max({0, cmds[p - 1]}) \in Nat /\ t[p - 1] \in Nat
        BY <1>3, <1>6, <3>1, <3>2
      <3>4. \A a \in Nat, b \in Nat : a <= a + b
        OBVIOUS
      <3> QED
        BY <2>1, <3>1, <3>2, <3>3, <3>4
    <2> QED
      BY <2>2, <2>3
  <1> QED
    BY <1>3, <1>4, <1>7 DEF t
-----------------------------------------------------------------------------
(***************************************************************************)
(* Division, which the conversions between the two rates round by.         *)
(***************************************************************************)
LEMMA Division ==
    ASSUME NEW a \in Nat, NEW d \in Nat \ {0}
    PROVE  /\ a \div d \in Nat
           /\ d * (a \div d) <= a
           /\ a < d * (a \div d) + d
OBVIOUS

LEMMA ProductsGrow ==
    ASSUME NEW j \in Nat, NEW k \in Nat, NEW d \in Nat, j <= k
    PROVE  d * j <= d * k /\ d * k \in Nat /\ d * j \in Nat
OBVIOUS

LEMMA DivisionIsGreatest ==
    ASSUME NEW a \in Nat, NEW d \in Nat \ {0}, NEW k \in Nat, d * k <= a
    PROVE  k <= a \div d
  <1> DEFINE q == a \div d
  <1>1. q \in Nat /\ a < d * q + d
    BY Division
  <1> HIDE DEF q
  <1>2. SUFFICES ASSUME q + 1 <= k PROVE FALSE
    BY <1>1 DEF q
  <1>3. d * (q + 1) <= d * k
    BY <1>1, <1>2, ProductsGrow
  <1>4. d * (q + 1) = d * q + d
    BY <1>1
  <1>5. d * q \in Nat /\ d * k \in Nat
    BY <1>1
  <1> QED
    BY <1>1, <1>3, <1>4, <1>5

LEMMA DivisionGrows ==
    ASSUME NEW a \in Nat, NEW b \in Nat, a <= b, NEW d \in Nat \ {0}
    PROVE  a \div d <= b \div d
  <1> DEFINE q == a \div d
  <1>1. q \in Nat /\ d * q <= a /\ d * q \in Nat
    BY Division
  <1> HIDE DEF q
  <1>2. d * q <= b
    BY <1>1
  <1>3. q <= b \div d
    BY <1>1, <1>2, DivisionIsGreatest
  <1> QED
    BY <1>3 DEF q

LEMMA Remainder ==
    ASSUME NEW a \in Nat, NEW d \in Nat \ {0}
    PROVE  a % d \in 0..(d - 1) /\ a = d * (a \div d) + (a % d)
OBVIOUS

LEMMA FactorsCompare ==
    ASSUME NEW j \in Nat, NEW k \in Nat, NEW d \in Nat \ {0}
    PROVE  /\ d * j <= d * k => j <= k
           /\ d * j < d * k => j < k
  <1>1. ASSUME k < j PROVE ~(d * j <= d * k)
    <2>1. d * (k + 1) <= d * j
      BY <1>1, ProductsGrow
    <2>2. d * (k + 1) = d * k + d /\ d * k \in Nat /\ d * j \in Nat
      OBVIOUS
    <2> QED
      BY <2>1, <2>2
  <1>2. ASSUME k <= j PROVE ~(d * j < d * k)
    <2>1. d * k <= d * j /\ d * k \in Nat /\ d * j \in Nat
      BY <1>2, ProductsGrow
    <2> QED
      BY <2>1
  <1> QED
    BY <1>1, <1>2

\* A loop takes off no more time than has gone by, and the command it goes
\* back to is still due.
LEMMA LoopRounds ==
    ASSUME NEW m \in Nat \ {0}, NEW d \in Nat \ {0}, NEW x \in Nat,
           NEW t \in Nat, NEW ls \in Nat, ls <= t,
           t <= (x * d) \div m,
           NEW l, l = (ls * m) \div d
    PROVE  /\ l \in Nat /\ x - l \in Nat
           /\ t - ls <= ((x - l) * d) \div m
  <1>1. x * d \in Nat /\ ls * m \in Nat
    OBVIOUS
  <1>2. l \in Nat /\ d * l <= ls * m
    BY <1>1, Division
  <1>3. m * t <= x * d
    <2> DEFINE q == (x * d) \div m
    <2>1. q \in Nat /\ m * q <= x * d /\ t <= q
      BY <1>1, Division
    <2> HIDE DEF q
    <2>2. m * t <= m * q /\ m * t \in Nat /\ m * q \in Nat
      BY <2>1, ProductsGrow
    <2> QED
      BY <1>1, <2>1, <2>2
  <1>4. m * ls <= m * t /\ m * ls \in Nat /\ m * t \in Nat
    BY ProductsGrow
  <1>5. m * ls = ls * m /\ d * x = x * d /\ d * l \in Nat
    BY <1>2
  <1>6. d * l <= d * x
    BY <1>1, <1>2, <1>3, <1>4, <1>5
  <1>7. l <= x
    BY <1>2, <1>6, FactorsCompare
  <1>8. x - l \in Nat /\ t - ls \in Nat
    BY <1>2, <1>7
  <1>9. m * (t - ls) <= (x - l) * d
    <2>1. m * (t - ls) = m * t - m * ls
      OBVIOUS
    <2>2. (x - l) * d = x * d - d * l
      BY <1>2
    <2> QED
      BY <1>1, <1>2, <1>3, <1>4, <1>5, <2>1, <2>2
  <1>10. (x - l) * d \in Nat
    BY <1>8
  <1>11. t - ls <= ((x - l) * d) \div m
    BY <1>8, <1>9, <1>10, DivisionIsGreatest
  <1> QED
    BY <1>2, <1>8, <1>11

\* How far the start of a fade after k loops, by the header, can be ahead of
\* the clock, which counts each loop rounded down.
LEMMA FadeRounds ==
    ASSUME NEW m \in Nat \ {0}, NEW d \in Nat \ {0}, NEW x \in Nat,
           NEW t \in Nat, NEW ls \in Nat, NEW k \in Nat,
           t <= (x * d) \div m,
           NEW l, l = (ls * m) \div d,
           NEW start, start = ((t + k * ls) * m) \div d
    PROVE  /\ start \in Nat /\ l \in Nat /\ k * l \in Nat
           /\ start <= x + k * l
                + (IF (ls * m) % d = 0 \/ k <= 1 THEN 0 ELSE k - 1)
  <1> DEFINE r == (ls * m) % d
             b == k * l
             e == k * ls
  <1>1. x * d \in Nat /\ ls * m \in Nat /\ e \in Nat
    OBVIOUS
  <1>2. /\ l \in Nat /\ r \in 0..(d - 1) /\ r \in Nat
        /\ ls * m = d * l + r
    <2> DEFINE a == ls * m
    <2>1. a \in Nat
      BY <1>1
    <2> HIDE DEF a
    <2>2. a \div d \in Nat /\ a % d \in 0..(d - 1)
          /\ a = d * (a \div d) + (a % d)
      BY <2>1, Division, Remainder
    <2>3. a \div d = l /\ a % d = r
      BY DEF a
    <2>4. r \in Nat
      BY <2>2, <2>3
    <2> QED
      BY <2>2, <2>3, <2>4 DEF a
  <1>3. m * t <= x * d /\ m * t \in Nat
    <2> DEFINE q == (x * d) \div m
    <2>1. q \in Nat /\ m * q <= x * d /\ t <= q
      BY <1>1, Division
    <2> HIDE DEF q
    <2>2. m * t <= m * q /\ m * t \in Nat /\ m * q \in Nat
      BY <2>1, ProductsGrow
    <2> QED
      BY <1>1, <2>1, <2>2
  <1>4. b \in Nat
    BY <1>2
  <1>5. (t + e) * m \in Nat
    BY <1>1
  <1>6. start \in Nat /\ d * start <= (t + e) * m
    BY <1>1, <1>5, Division
  <1> HIDE DEF r
  <1>7. (t + e) * m = m * t + d * b + k * r
    <2>1. e * m = k * (ls * m)
      OBVIOUS
    <2>2. k * (d * l + r) = d * b + k * r
      BY <1>2
    <2>3. (t + e) * m = m * t + e * m
      BY <1>1
    <2> HIDE DEF e, b
    <2>4. e * m = d * b + k * r
      BY <1>2, <2>1, <2>2
    <2>5. m * t \in Int /\ e * m \in Int /\ d * b \in Int /\ k * r \in Int
      BY <1>1, <1>2, <1>4
    <2> QED
      BY <2>3, <2>4, <2>5
  <1>8. k * r \in Nat /\ d * b \in Nat /\ d * start \in Nat
    BY <1>2, <1>4, <1>6
  <1> HIDE DEF b, e
  <1>9. d * start <= d * (x + b) + k * r
    <2>1. d * (x + b) = x * d + d * b /\ d * (x + b) \in Nat
      BY <1>4
    <2> QED
      BY <1>1, <1>3, <1>6, <1>7, <1>8, <2>1
  <1>10. CASE r = 0 \/ k = 0
    <2>1. k * r = 0
      BY <1>2, <1>10
    <2>2. d * start <= d * (x + b)
      <3>1. d * (x + b) \in Nat
        BY <1>4
      <3> QED
        BY <1>8, <1>9, <2>1, <3>1
    <2>3. start <= x + b
      BY <1>4, <1>6, <2>2, FactorsCompare
    <2> QED
      BY <1>2, <1>4, <1>6, <1>10, <2>3 DEF r, b
  <1>11. CASE ~(r = 0 \/ k = 0)
    <2>1. k * r < d * k
      <3>1. k * (r + 1) <= k * d
        <4>1. r + 1 <= d /\ r + 1 \in Nat
          BY <1>2
        <4> QED
          BY <4>1, ProductsGrow
      <3>2. k * (r + 1) = k * r + k /\ k * d = d * k /\ d * k \in Nat
        BY <1>2
      <3> QED
        BY <1>8, <1>11, <3>1, <3>2
    <2>2. d * start < d * (x + b + k)
      <3>1. d * (x + b + k) = d * (x + b) + d * k /\ d * (x + b) \in Nat
            /\ d * k \in Nat
        BY <1>4
      <3> QED
        BY <1>8, <1>9, <2>1, <3>1
    <2>3. start < x + b + k
      <3>1. x + b + k \in Nat
        BY <1>4
      <3> QED
        BY <1>6, <2>2, <3>1, FactorsCompare
    <2>4. start <= x + b + (k - 1)
      BY <1>4, <1>6, <2>3
    <2>5. ~((ls * m) % d = 0) /\ k # 0
      BY <1>11 DEF r
    <2>6. k <= 1 => k - 1 = 0
      BY <2>5
    <2> QED
      BY <1>2, <1>4, <1>6, <2>4, <2>5, <2>6 DEF b
  <1> QED
    BY <1>10, <1>11

-----------------------------------------------------------------------------
(***************************************************************************)
(* Every step keeps the commands on time.  In a call the commands that are *)
(* done are those before the time the call is to reach, SmplPlayed; between*)
(* two calls those that are due by then are done too.                      *)
(***************************************************************************)
Coming(v, c) == v.VGMSmplPlayed + c.count

Now(v, c) == SamplePbk2VGM_I(v, Coming(v, c))

InTime(f, v, c) ==
    /\ Coming(v, c) >= 0
    /\ v.VGMSmplPos = Times(f.cmds)[v.VGMPos]
    /\ Times(f.cmds)[v.VGMPos - 1] <= Now(v, c)
    /\ c.op # "none" => c.SmplPlayed = Now(v, c)
    /\ c.op = "none" => Now(v, c) < v.VGMSmplPos

OnTime ==
    /\ ~InCall => call.count = 0
    /\ vgm.playing => vgm.open
    /\ Timed /\ TrueHeader /\ ~vgm.VGMEnd => InTime(file, vgm, call)

\* The conversion to the time of the file, from a time that is not negative.
LEMMA NowFacts ==
    ASSUME NEW v \in VgmT, v.mul # 0, v.div # 0, NEW n \in Nat
    PROVE  /\ SamplePbk2VGM_I(v, n) = (n * v.div) \div v.mul
           /\ SamplePbk2VGM_I(v, n) \in Nat
           /\ v.mul \in Nat \ {0} /\ v.div \in Nat \ {0}
  <1> DEFINE m == v.mul
             d == v.div
  <1>1. m \in Nat \ {0} /\ d \in Nat \ {0}
    BY DEF VgmT
  <1> HIDE DEF m, d
  <1>2. n * d \in Nat
    BY <1>1
  <1>3. Quotient(n * d, m) = (n * d) \div m
    BY <1>2 DEF Quotient
  <1>4. (n * d) \div m \in Nat
    BY <1>1, <1>2, Division
  <1> QED
    BY <1>1, <1>3, <1>4 DEF SamplePbk2VGM_I, m, d

LEMMA NowGrows ==
    ASSUME NEW v \in VgmT, v.mul # 0, v.div # 0, NEW n \in Nat, NEW k \in Nat,
           n <= k
    PROVE  SamplePbk2VGM_I(v, n) <= SamplePbk2VGM_I(v, k)
  <1> DEFINE m == v.mul
             d == v.div
  <1>1. m \in Nat \ {0} /\ d \in Nat \ {0}
    BY DEF VgmT
  <1>2. /\ SamplePbk2VGM_I(v, n) = (n * d) \div m
        /\ SamplePbk2VGM_I(v, k) = (k * d) \div m
    BY NowFacts
  <1> HIDE DEF m, d
  <1>3. n * d \in Nat /\ k * d \in Nat /\ n * d <= k * d
    <2>1. d * n <= d * k /\ d * n \in Nat /\ d * k \in Nat
      BY <1>1, ProductsGrow
    <2> QED
      BY <1>1, <2>1
  <1>4. (n * d) \div m <= (k * d) \div m
    BY <1>1, <1>3, DivisionGrows
  <1> QED
    BY <1>2, <1>4

\* The call goes on, or another one begins, with no command carried out.
LEMMA InTimeGoesOn ==
    ASSUME NEW f \in Files, NEW v \in VgmT, NEW w \in VgmT,
           NEW c \in CallT, NEW d \in CallT,
           v.mul # 0, v.div # 0, v.VGMPos \in 1..(Len(f.cmds) + 1),
           InTime(f, v, c),
           w.VGMPos = v.VGMPos, w.VGMSmplPos = v.VGMSmplPos,
           w.mul = v.mul, w.div = v.div,
           Coming(v, c) <= Coming(w, d),
           d.op # "none", d.SmplPlayed = Now(w, d)
    PROVE  InTime(f, w, d)
  <1>1. Coming(v, c) \in Nat /\ Coming(w, d) \in Nat
    <2>1. /\ v.VGMSmplPlayed \in Int /\ c.count \in Int
          /\ w.VGMSmplPlayed \in Int /\ d.count \in Int
      BY DEF VgmT, CallT
    <2>2. Coming(v, c) >= 0
      BY DEF InTime
    <2> QED
      BY <2>1, <2>2 DEF Coming
  <1>2. SamplePbk2VGM_I(v, Coming(v, c)) <= SamplePbk2VGM_I(v, Coming(w, d))
        /\ SamplePbk2VGM_I(v, Coming(v, c)) \in Nat
        /\ SamplePbk2VGM_I(v, Coming(w, d)) \in Nat
    BY <1>1, NowGrows, NowFacts
  <1>3. SamplePbk2VGM_I(v, Coming(w, d)) = SamplePbk2VGM_I(w, Coming(w, d))
    BY DEF SamplePbk2VGM_I
  <1>4. Times(f.cmds)[v.VGMPos - 1] \in Nat
    <2>1. f.cmds \in Seq(Nat \cup {End, Bad}) /\ Len(f.cmds) \in Nat
      BY FileFacts
    <2>2. v.VGMPos - 1 \in 0..(Len(f.cmds) + 1)
      BY <2>1
    <2> QED
      BY <2>1, <2>2, TimeFacts
  <1>5. Now(v, c) <= Now(w, d) /\ Now(v, c) \in Nat /\ Now(w, d) \in Nat
    BY <1>2, <1>3 DEF Now
  <1>6. Times(f.cmds)[v.VGMPos - 1] <= Now(w, d)
    BY <1>4, <1>5 DEF InTime
  <1> QED
    BY <1>1, <1>6 DEF InTime

\* The call returns with no command due.
LEMMA InTimeReturns ==
    ASSUME NEW f, NEW v \in VgmT, NEW w \in VgmT,
           NEW c \in CallT, NEW d \in CallT,
           v.mul # 0, v.div # 0,
           InTime(f, v, c), c.op # "none",
           ~(v.VGMSmplPos <= c.SmplPlayed),
           w.VGMPos = v.VGMPos, w.VGMSmplPos = v.VGMSmplPos,
           w.mul = v.mul, w.div = v.div,
           w.VGMSmplPlayed = v.VGMSmplPlayed + c.count,
           d.op = "none", d.count = 0
    PROVE  InTime(f, w, d)
  <1>1. Coming(w, d) = Coming(v, c) /\ Coming(v, c) \in Nat
    <2>1. v.VGMSmplPlayed \in Int /\ c.count \in Int
      BY DEF VgmT, CallT
    <2>2. Coming(v, c) >= 0
      BY DEF InTime
    <2> QED
      BY <2>1, <2>2 DEF Coming
  <1>2. Now(w, d) = Now(v, c) /\ Now(v, c) \in Int
    <2>1. SamplePbk2VGM_I(v, Coming(v, c)) \in Nat
      BY <1>1, NowFacts
    <2> QED
      BY <1>1, <2>1 DEF Now, SamplePbk2VGM_I
  <1>3. Now(v, c) < v.VGMSmplPos
    <2>1. v.VGMSmplPos \in Int
      BY DEF VgmT
    <2> QED
      BY <1>2, <2>1 DEF InTime
  <1> QED
    BY <1>1, <1>2, <1>3 DEF InTime

\* At the beginning of a file nothing is done and the first command is due.
LEMMA InTimeBegins ==
    ASSUME NEW f \in Files, NEW v \in VgmT, NEW c \in CallT,
           v.mul # 0, v.div # 0,
           v.VGMPos = 1, v.VGMSmplPos = 0, v.VGMSmplPlayed = 0,
           c.count = 0, c.op # "none", c.SmplPlayed = Now(v, c)
    PROVE  InTime(f, v, c)
  <1>1. Coming(v, c) = 0
    BY DEF Coming
  <1>2. Now(v, c) \in Nat
    BY <1>1, NowFacts DEF Now
  <1>3. Times(f.cmds)[1] = 0 /\ Times(f.cmds)[1 - 1] = 0
    <2>1. f.cmds \in Seq(Nat \cup {End, Bad})
      BY FileFacts
    <2>2. 1 - 1 = 0
      OBVIOUS
    <2> QED
      BY <2>1, <2>2, TimeFacts
  <1> QED
    BY <1>1, <1>2, <1>3 DEF InTime

\* A call of InterpretFile by an open file is to reach its own time.
LEMMA CallsInTime ==
    ASSUME NEW v \in VgmT, v.open, v.mul # 0, v.div # 0, NEW c \in CallT,
           NEW op \in Ops, NEW count \in Nat,
           NEW d, d = InterpretFile(v, c, op, count)
    PROVE  /\ d \in CallT /\ d.op = op /\ d.count = count
           /\ d.SmplPlayed = Now(v, d)
  <1>1. Rated(v)
    BY DEF Rated
  <1>2. /\ d \in CallT /\ d.op = op /\ d.count = count
        /\ d.SmplPlayed = SamplePbk2VGM_I(v, v.VGMSmplPlayed + count)
    BY <1>1, InterpretFileCalls
  <1> QED
    BY <1>2 DEF Now, Coming

LEMMA HeaderStays ==
    ASSUME file' = file
    PROVE  TrueHeader' = TrueHeader
BY DEF TrueHeader, TimeOf

LEMMA InitOnTime == Init => OnTime
BY NoCallFacts DEF Init, OnTime, Timed

LEMMA OnTimeBetween ==
    ASSUME Sound, OnTime, BetweenCalls
    PROVE  OnTime'
  <1>1. vgm \in VgmT /\ call' = call /\ file' = file /\ tempo' = tempo
    BY TypeParts
       DEF Typed, Sound, BetweenCalls, Skip, StopAndStart, StopWithoutTeardown,
           LoadOther, LoadFails, ReadFails
  <1>2. (~InCall => call.count = 0)'
    BY <1>1 DEF OnTime, InCall
  <1>3. CASE Skip \/ ReadFails
    <2>1. vgm' = vgm /\ mine' = mine
      BY <1>3 DEF Skip, ReadFails
    <2> QED
      BY <1>1, <1>2, <2>1, HeaderStays DEF OnTime, Timed
  <1>4. CASE StopAndStart \/ StopWithoutTeardown \/ LoadOther
    <2>1. ~mine'
      BY <1>4 DEF StopAndStart, StopWithoutTeardown, LoadOther
    <2>2. vgm' = vgm \/ vgm' = Closed(vgm)
      BY <1>4 DEF StopAndStart, StopWithoutTeardown, LoadOther
    <2>3. vgm'.playing => vgm'.open
      BY <1>1, <2>2, ClosedPlayer DEF OnTime
    <2> QED
      BY <1>2, <2>1, <2>3 DEF OnTime, Timed
  <1>5. CASE LoadFails
    <2>1. ~vgm'.playing
      BY <1>1, <1>5, ClosedPlayer DEF LoadFails
    <2> QED
      BY <1>2, <2>1 DEF OnTime, Timed
  <1> QED
    BY <1>3, <1>4, <1>5 DEF BetweenCalls

LEMMA OnTimeLoadFile ==
    ASSUME Sound, LoadFile
    PROVE  OnTime'
  <1>1. vgm \in VgmT /\ file' \in Files
    BY TypeParts DEF Typed, Sound, LoadFile
  <1>2. /\ vgm' \in VgmT /\ vgm'.playing /\ vgm'.open
        /\ vgm'.mul = SampleRate /\ vgm'.div = VGMSampleRate
        /\ vgm'.VGMPos = 1 /\ vgm'.VGMSmplPos = 0 /\ vgm'.VGMSmplPlayed = 0
    BY <1>1, PlayVGMPlays DEF LoadFile
  <1>3. vgm'.mul # 0 /\ vgm'.div # 0
    BY <1>2, PlayerAssumption
  <1>4. /\ call' \in CallT /\ call'.op = "load" /\ call'.count = 0
        /\ call'.SmplPlayed = Now(vgm', call')
    <2>1. "load" \in Ops /\ 0 \in Nat
      BY DEF Ops
    <2>2. call' = InterpretFile(vgm', NoCall, "load", 0)
      BY DEF LoadFile
    <2> QED
      BY <1>2, <1>3, <2>1, <2>2, NoCallFacts, CallsInTime
  <1>5. InTime(file', vgm', call')
    BY <1>1, <1>2, <1>3, <1>4, InTimeBegins
  <1> QED
    BY <1>2, <1>4, <1>5 DEF OnTime

LEMMA OnTimeSeek ==
    ASSUME Sound, OnTime, Seek
    PROVE  OnTime'
  <1>1. /\ vgm \in VgmT /\ call \in CallT /\ ~InCall /\ file \in Files
        /\ vgm.VGMPos \in 1..(Len(file.cmds) + 1)
    BY TypeParts DEF Typed, Sound, Seek
  <1>2. UNCHANGED <<file, mine, tempo>>
    BY DEF Seek
  <1>3. CASE ~vgm.playing
    <2>1. vgm' = vgm /\ call' = call
      BY <1>3 DEF Seek
    <2> QED
      BY <1>1, <1>3, <2>1 DEF OnTime, Timed, InCall
  <1>4. CASE vgm.playing
    <2>1. PICK target \in Targets :
            /\ vgm' = IF target < Time THEN Rewound(vgm) ELSE vgm
            /\ call' = IF target < Time
                       THEN InterpretFile(vgm',
                              [NoCall EXCEPT !.target = target], "restart", 0)
                       ELSE InterpretFile(vgm',
                              [NoCall EXCEPT !.target = target], "seek",
                              target - Time)
      BY <1>4 DEF Seek, Time
    <2> DEFINE c == [NoCall EXCEPT !.target = target]
    <2>2. target \in Nat /\ Time \in Int
      BY <1>4, TimeIsInt, PlayerAssumption
    <2>3. c \in CallT
      BY <2>2, NoCallFacts DEF CallT
    <2>4. "seek" \in Ops /\ "restart" \in Ops /\ 0 \in Nat
      BY DEF Ops
    <2>5. /\ vgm' \in VgmT /\ vgm'.playing /\ vgm'.open
          /\ vgm'.mul = vgm.mul /\ vgm'.div = vgm.div
          /\ vgm.mul # 0 /\ vgm.div # 0
      BY <1>1, <1>4, <2>1, RewoundPlayer DEF Sound, OnTime
    <2>6. CASE target < Time
      <3>1. call' = InterpretFile(vgm', c, "restart", 0)
        BY <2>1, <2>6
      <3> HIDE DEF c
      <3>2. /\ call' \in CallT /\ call'.op = "restart" /\ call'.count = 0
            /\ call'.SmplPlayed = Now(vgm', call')
        BY <2>3, <2>4, <2>5, <3>1, CallsInTime
      <3>3. vgm'.VGMPos = 1 /\ vgm'.VGMSmplPos = 0 /\ vgm'.VGMSmplPlayed = 0
        BY <1>1, <2>1, <2>6, RewoundPlayer
      <3>4. call'.op # "none"
        BY <3>2
      <3>5. InTime(file', vgm', call')
        BY <1>1, <1>2, <2>5, <3>2, <3>3, <3>4, InTimeBegins
      <3> QED
        BY <2>5, <3>2, <3>4, <3>5 DEF OnTime
    <2>7. CASE ~(target < Time)
      <3>1. vgm' = vgm /\ target - Time \in Nat
        BY <2>1, <2>2, <2>7
      <3>2. call' = InterpretFile(vgm', c, "seek", target - Time)
        BY <2>1, <2>7
      <3> HIDE DEF c
      <3>3. /\ call' \in CallT /\ call'.op = "seek"
            /\ call'.count = target - Time
            /\ call'.SmplPlayed = Now(vgm', call')
        BY <2>3, <2>4, <2>5, <3>1, <3>2, CallsInTime
      <3>4. call'.op # "none" /\ InCall'
        BY <3>3 DEF InCall
      <3>5. SUFFICES ASSUME Timed', TrueHeader', ~vgm'.VGMEnd
                     PROVE  InTime(file', vgm', call')
        BY <2>5, <3>4 DEF OnTime
      <3>6. InTime(file, vgm, call)
        BY <1>2, <3>1, <3>5, HeaderStays DEF OnTime, Timed
      <3>7. Coming(vgm, call) <= Coming(vgm', call')
        <4>1. call.count = 0
          BY <1>1 DEF OnTime
        <4>2. vgm.VGMSmplPlayed \in Int
          BY <1>1 DEF VgmT
        <4> QED
          BY <3>1, <3>3, <4>1, <4>2 DEF Coming
      <3>8. InTime(file, vgm', call')
        BY <1>1, <2>5, <3>1, <3>3, <3>4, <3>6, <3>7, InTimeGoesOn
      <3> QED
        BY <1>2, <3>8
    <2> QED
      BY <2>6, <2>7
  <1> QED
    BY <1>3, <1>4

LEMMA OnTimeTempo ==
    ASSUME Sound, OnTime, SetTempoMul \/ SetTempoDiv
    PROVE  OnTime'
  <1>1. vgm \in VgmT
    BY TypeParts DEF Typed, Sound
  <1>2. vgm'.playing = vgm.playing /\ vgm'.open = vgm.open
    BY <1>1 DEF SetTempoMul, SetTempoDiv, VgmT
  <1>3. call' = call /\ tempo' # "none"
    BY DEF SetTempoMul, SetTempoDiv
  <1> QED
    BY <1>2, <1>3 DEF OnTime, Timed, InCall

LEMMA OnTimeRead ==
    ASSUME Sound, OnTime, ReadNextSamples
    PROVE  OnTime'
  <1>1. /\ vgm \in VgmT /\ Rated(vgm) /\ ~InCall /\ file \in Files
        /\ call \in CallT /\ vgm.VGMPos \in 1..(Len(file.cmds) + 1)
    BY TypeParts DEF Typed, Sound, Rated, ReadNextSamples
  <1>2. vgm' \in VgmT /\ Kept(vgm, vgm')
    BY <1>1, RecalcFadeVolumeKeeps DEF ReadNextSamples
  <1>3. UNCHANGED <<file, mine, tempo>>
    BY DEF ReadNextSamples
  <1> DEFINE r == IF vgm.FadePlay THEN SampleRate \div VGMSampleRate ELSE 0
             c == [NoCall EXCEPT !.RecalcStep = r]
  <1>4. c \in CallT
    <2>1. r \in Nat
      <3>1. SampleRate \in Nat /\ VGMSampleRate \in Nat \ {0}
        BY PlayerAssumption
      <3> QED
        BY <3>1
    <2> HIDE DEF r
    <2> QED
      BY <2>1, NoCallFacts DEF CallT
  <1>5. call' = InterpretFile(vgm', c, "read", 1)
    BY DEF ReadNextSamples
  <1> HIDE DEF c
  <1>6. "read" \in Ops /\ 1 \in Nat /\ Rated(vgm')
    BY <1>1, <1>2 DEF Ops, Kept, Rated
  <1>7. call' \in CallT /\ call'.op = "read" /\ call'.count = 1
    BY <1>2, <1>4, <1>5, <1>6, InterpretFileCalls
  <1>8. call'.op # "none" /\ InCall'
    BY <1>7 DEF InCall
  <1>9. vgm'.playing => vgm'.open
    BY <1>2 DEF Kept, OnTime
  <1>10. SUFFICES ASSUME Timed', TrueHeader', ~vgm'.VGMEnd
                  PROVE  InTime(file', vgm', call')
    BY <1>8, <1>9 DEF OnTime
  <1>11. InTime(file, vgm, call) /\ vgm'.playing
    BY <1>2, <1>3, <1>10, HeaderStays DEF OnTime, Timed, Kept
  <1>12. vgm'.open /\ vgm'.mul # 0 /\ vgm'.div # 0
         /\ vgm.mul # 0 /\ vgm.div # 0
    BY <1>2, <1>6, <1>9, <1>11 DEF Rated, Kept
  <1>13. call'.SmplPlayed = Now(vgm', call')
    BY <1>2, <1>4, <1>5, <1>6, <1>12, CallsInTime
  <1>14. Coming(vgm, call) <= Coming(vgm', call')
    <2>1. call.count = 0
      BY <1>1 DEF OnTime
    <2>2. vgm.VGMSmplPlayed \in Int
      BY <1>1 DEF VgmT
    <2>3. vgm'.VGMSmplPlayed = vgm.VGMSmplPlayed
      BY <1>2 DEF Kept
    <2> QED
      BY <1>7, <2>1, <2>2, <2>3 DEF Coming
  <1>15. InTime(file, vgm', call')
    <2>1. /\ vgm'.VGMPos = vgm.VGMPos /\ vgm'.VGMSmplPos = vgm.VGMSmplPos
          /\ vgm'.mul = vgm.mul /\ vgm'.div = vgm.div
      BY <1>2 DEF Kept
    <2> QED
      BY <1>1, <1>2, <1>7, <1>8, <1>11, <1>12, <1>13, <1>14, <2>1,
         InTimeGoesOn
  <1> QED
    BY <1>3, <1>15

\* A command that is due, of a call that is on time.
LEMMA DueInTime ==
    ASSUME Sound, pc = "interpret", Due, InTime(file, vgm, call)
    PROVE  /\ vgm \in VgmT /\ call \in CallT /\ file \in Files
           /\ call.op # "none"
           /\ vgm.mul \in Nat \ {0} /\ vgm.div \in Nat \ {0}
           /\ vgm.VGMPos \in 1..Len(file.cmds)
           /\ Coming(vgm, call) \in Nat
           /\ Now(vgm, call) = (Coming(vgm, call) * vgm.div) \div vgm.mul
           /\ Now(vgm, call) \in Nat
           /\ vgm.VGMSmplPos \in Nat
           /\ vgm.VGMSmplPos <= Now(vgm, call)
  <1>1. /\ vgm \in VgmT /\ call \in CallT /\ file \in Files
        /\ call.op # "none"
        /\ vgm.mul # 0 /\ vgm.div # 0
        /\ vgm.VGMPos \in 1..Len(file.cmds)
    BY DueCommand, TypeParts DEF Typed, Sound, InCall
  <1>2. Coming(vgm, call) \in Nat
    <2>1. vgm.VGMSmplPlayed \in Int /\ call.count \in Int
      BY <1>1 DEF VgmT, CallT
    <2>2. Coming(vgm, call) >= 0
      BY DEF InTime
    <2> QED
      BY <2>1, <2>2 DEF Coming
  <1>3. /\ Now(vgm, call) = (Coming(vgm, call) * vgm.div) \div vgm.mul
        /\ Now(vgm, call) \in Nat
        /\ vgm.mul \in Nat \ {0} /\ vgm.div \in Nat \ {0}
    BY <1>1, <1>2, NowFacts DEF Now
  <1>4. vgm.VGMSmplPos \in Nat
    <2>1. file.cmds \in Seq(Nat \cup {End, Bad}) /\ Len(file.cmds) \in Nat
      BY <1>1, FileFacts
    <2>2. vgm.VGMPos \in 0..(Len(file.cmds) + 1)
      BY <1>1, <2>1
    <2>3. Times(file.cmds)[vgm.VGMPos] \in Nat
      BY <2>1, <2>2, TimeFacts
    <2> QED
      BY <2>3 DEF InTime
  <1>5. vgm.VGMSmplPos <= Now(vgm, call)
    BY <1>1 DEF Due, InTime
  <1> QED
    BY <1>1, <1>2, <1>3, <1>4, <1>5

LEMMA OnTimeWait ==
    ASSUME Sound, OnTime, Wait
    PROVE  OnTime'
  <1>1. /\ vgm' \in VgmT
        /\ vgm'.VGMPos = vgm.VGMPos + 1
        /\ vgm'.playing = vgm.playing /\ vgm'.open = vgm.open
        /\ vgm'.mul = vgm.mul /\ vgm'.div = vgm.div
        /\ vgm'.VGMSmplPlayed = vgm.VGMSmplPlayed
        /\ vgm'.VGMSmplPos = vgm.VGMSmplPos + Command
    BY WaitedPlayer
  <1>2. /\ UNCHANGED <<file, call, mine, tempo>>
        /\ pc = "interpret" /\ Due /\ Command >= 0
    BY DEF Wait
  <1>3. InCall /\ call.op # "none"
    BY <1>2 DEF Sound, InCall
  <1>4. SUFFICES ASSUME Timed', TrueHeader', ~vgm'.VGMEnd
                 PROVE  InTime(file, vgm', call)
    BY <1>1, <1>2, <1>3 DEF OnTime, InCall
  <1>5. InTime(file, vgm, call)
    BY <1>1, <1>2, <1>4, HeaderStays DEF OnTime, Timed, Due
  <1>6. /\ vgm.VGMSmplPos \in Nat /\ vgm.VGMSmplPos <= Now(vgm, call)
        /\ vgm.VGMPos \in 1..Len(file.cmds) /\ file \in Files
    BY <1>2, <1>5, DueInTime
  <1>7. /\ Coming(vgm', call) = Coming(vgm, call)
        /\ Now(vgm', call) = Now(vgm, call)
    BY <1>1 DEF Coming, Now, SamplePbk2VGM_I
  <1> DEFINE t == Times(file.cmds)
             p == vgm.VGMPos
  <1>8. t[p + 1] = t[p] + file.cmds[p] /\ p = (p + 1) - 1
    <2>1. file.cmds \in Seq(Nat \cup {End, Bad})
      BY <1>6, FileFacts
    <2>2. file.cmds[p] >= 0
      BY <1>2 DEF Command
    <2> HIDE DEF p
    <2>3. p \in 1..Len(file.cmds)
      BY <1>6 DEF p
    <2>4. t[p + 1] = t[p] + file.cmds[p]
      BY <2>1, <2>2, <2>3, TimeFacts
    <2> QED
      BY <2>3, <2>4
  <1>9. vgm.VGMSmplPos = t[p] /\ vgm'.VGMSmplPos = t[p + 1]
    BY <1>1, <1>5, <1>8 DEF InTime, Command
  <1> HIDE DEF t, p
  <1>10. /\ vgm'.VGMSmplPos = t[vgm'.VGMPos]
         /\ t[vgm'.VGMPos - 1] <= Now(vgm', call)
    <2>1. vgm'.VGMPos = p + 1
      BY <1>1 DEF p
    <2>2. t[p] <= Now(vgm', call)
      BY <1>6, <1>7, <1>9
    <2> QED
      BY <1>8, <1>9, <2>1, <2>2
  <1> QED
    BY <1>3, <1>5, <1>7, <1>10 DEF InTime, t

\* The loop takes the time of its commands off the position and the same
\* time, rounded to the rate of the device, off what has been played.
LEMMA OnTimeLoopBack ==
    ASSUME Sound, OnTime, LoopBack
    PROVE  OnTime'
  <1>1. /\ vgm' \in VgmT /\ LoopLength(vgm) \in Int
        /\ vgm'.VGMPos = file.loop
        /\ vgm'.playing = vgm.playing /\ vgm'.open = vgm.open
        /\ vgm'.mul = vgm.mul /\ vgm'.div = vgm.div
        /\ vgm'.VGMSmplPlayed = vgm.VGMSmplPlayed - LoopLength(vgm)
        /\ vgm'.VGMSmplPos = vgm.VGMSmplPos - file.loopSamples
    BY LoopBackPlayer
  <1>2. /\ UNCHANGED <<file, mine, tempo>>
        /\ call' = InterpretFile(vgm', call, call.op, call.count)
        /\ pc = "interpret" /\ Due /\ Command = End /\ file.loop # 0
    BY DEF LoopBack
  <1>3. /\ vgm.open /\ ~vgm.VGMEnd /\ vgm.mul # 0 /\ vgm.div # 0
        /\ call \in CallT /\ file \in Files
    BY <1>2, DueCommand, TypeParts DEF Typed, Sound
  <1>4. /\ call' \in CallT /\ call'.op = call.op /\ call'.count = call.count
        /\ call'.SmplPlayed = Now(vgm', call')
    <2>1. call.op \in Ops /\ call.count \in Nat
      BY <1>3 DEF CallT
    <2>2. vgm' \in VgmT /\ vgm'.open /\ vgm'.mul # 0 /\ vgm'.div # 0
      BY <1>1, <1>3
    <2>3. call' = InterpretFile(vgm', call, call.op, call.count)
      BY <1>2
    <2> QED
      BY <1>3, <2>1, <2>2, <2>3, CallsInTime
  <1>5. call'.op # "none"
    BY <1>2, <1>4 DEF Sound, InCall
  <1>6. SUFFICES ASSUME Timed', TrueHeader', ~vgm'.VGMEnd
                 PROVE  InTime(file, vgm', call')
    BY <1>1, <1>2, <1>3, <1>5 DEF OnTime, InCall
  <1>7. InTime(file, vgm, call) /\ TrueHeader
    BY <1>1, <1>2, <1>3, <1>6, HeaderStays DEF OnTime, Timed
  <1> DEFINE m == vgm.mul
             d == vgm.div
             x == Coming(vgm, call)
             t == vgm.VGMSmplPos
             ls == file.loopSamples
             l == LoopLength(vgm)
  <1>8. /\ m \in Nat \ {0} /\ d \in Nat \ {0} /\ x \in Nat /\ t \in Nat
        /\ Now(vgm, call) = (x * d) \div m /\ t <= Now(vgm, call)
        /\ vgm.VGMPos \in 1..Len(file.cmds)
    BY <1>2, <1>7, DueInTime
  <1>9. /\ file.cmds \in Seq(Nat \cup {End, Bad}) /\ Len(file.cmds) \in Nat
        /\ file.loop \in 1..Len(file.cmds) /\ ls \in Nat
    BY <1>2, <1>3, FileFacts
  <1>10. ls = t - Times(file.cmds)[file.loop]
    <2>1. vgm.VGMPos \in DOMAIN file.cmds
      BY <1>8, <1>9
    <2>2. file.cmds[vgm.VGMPos] = End
      BY <1>2 DEF Command
    <2>3. ls = TimeOf(vgm.VGMPos) - TimeOf(file.loop)
      BY <1>2, <1>7, <2>1, <2>2 DEF TrueHeader
    <2> QED
      BY <1>7, <2>3 DEF InTime, TimeOf
  <1>11. /\ Times(file.cmds)[file.loop] \in Nat
         /\ Times(file.cmds)[file.loop - 1] \in Nat
         /\ Times(file.cmds)[file.loop - 1] <= Times(file.cmds)[file.loop]
    <2>1. /\ file.loop \in 0..(Len(file.cmds) + 1)
          /\ file.loop - 1 \in 0..(Len(file.cmds) + 1)
      BY <1>9
    <2> QED
      BY <1>9, <2>1, TimeFacts
  <1>12. ls <= t /\ t - ls = Times(file.cmds)[file.loop]
    BY <1>8, <1>9, <1>10, <1>11
  <1>13. l = (ls * m) \div d
    <2>1. ls * m \in Nat
      BY <1>8, <1>9
    <2> QED
      BY <2>1 DEF LoopLength, SampleVGM2Pbk_I, Quotient
  <1> HIDE DEF m, d, x, t, ls, l
  <1>14. /\ l \in Nat /\ x - l \in Nat
         /\ t - ls <= ((x - l) * d) \div m
    <2>1. t <= (x * d) \div m
      BY <1>8
    <2> QED
      BY <1>8, <1>9, <1>12, <1>13, <2>1, LoopRounds DEF ls
  <1>15. Coming(vgm', call') = x - l
    <2>1. vgm.VGMSmplPlayed \in Int /\ call.count \in Int
      BY <1>3, TypeParts DEF Typed, Sound, VgmT, CallT
    <2>2. x = vgm.VGMSmplPlayed + call.count
      BY DEF x, Coming
    <2>3. Coming(vgm', call') = (vgm.VGMSmplPlayed - l) + call.count
      BY <1>1, <1>4 DEF l, Coming
    <2> QED
      BY <1>14, <2>1, <2>2, <2>3
  <1>16. Now(vgm', call') = ((x - l) * d) \div m /\ Now(vgm', call') \in Nat
    BY <1>1, <1>3, <1>14, <1>15, NowFacts DEF Now, m, d
  <1>17. /\ vgm'.VGMSmplPos = Times(file.cmds)[vgm'.VGMPos]
         /\ Times(file.cmds)[vgm'.VGMPos - 1] <= Now(vgm', call')
    <2>1. vgm'.VGMSmplPos = t - ls
      BY <1>1 DEF t, ls
    <2>2. Times(file.cmds)[file.loop - 1] <= Now(vgm', call')
      BY <1>11, <1>12, <1>14, <1>16
    <2> QED
      BY <1>1, <1>12, <2>1, <2>2
  <1> QED
    BY <1>4, <1>5, <1>14, <1>15, <1>17 DEF InTime

LEMMA OnTimeEnd ==
    ASSUME Sound, OnTime, EndOfFile \/ BadCommand
    PROVE  OnTime'
  <1>1. vgm'.VGMEnd /\ vgm'.playing = vgm.playing /\ vgm'.open = vgm.open
    BY EndedPlayer
  <1>2. call' = call
    BY DEF EndOfFile, BadCommand
  <1> QED
    BY <1>1, <1>2 DEF OnTime, InCall

\* A call that has nothing left to do, on an open file that goes on.
LEMMA NothingDue ==
    ASSUME NEW op, Return(op), vgm.open, ~vgm.VGMEnd
    PROVE  ~(vgm.VGMSmplPos <= call.SmplPlayed)
BY DEF Return, Due

LEMMA OnTimeReturn ==
    ASSUME Sound, OnTime, LoadReturns \/ SeekReturns \/ ReadReturns
    PROVE  OnTime'
  <1>1. /\ vgm \in VgmT /\ call \in CallT /\ file \in Files
        /\ call.op # "none" /\ \E op : Return(op)
    BY TypeParts DEF Typed, Sound, InCall, LoadReturns, SeekReturns,
                     ReadReturns, Return
  <1>2. /\ vgm' \in VgmT /\ vgm'.playing = vgm.playing
        /\ vgm'.open = vgm.open /\ vgm'.VGMPos = vgm.VGMPos
        /\ vgm'.VGMSmplPos = vgm.VGMSmplPos
        /\ vgm'.VGMSmplPlayed = vgm.VGMSmplPlayed + call.count
        /\ vgm'.mul = vgm.mul /\ vgm'.div = vgm.div
        /\ vgm.VGMEnd => vgm'.VGMEnd
    <2>1. CASE ReadReturns
      BY <2>1, ReadPlayer
    <2>2. CASE LoadReturns \/ SeekReturns
      BY <1>1, <2>2, InterpretedPlayer DEF LoadReturns, SeekReturns
    <2> QED
      BY <2>1, <2>2
  <1>3. UNCHANGED <<file, mine, tempo>> /\ call' = NoCall
    BY DEF LoadReturns, SeekReturns, ReadReturns
  <1>4. call'.op = "none" /\ call'.count = 0 /\ call' \in CallT
    BY <1>3, NoCallFacts
  <1>5. SUFFICES ASSUME Timed', TrueHeader', ~vgm'.VGMEnd
                 PROVE  InTime(file, vgm', call')
    BY <1>2, <1>3, <1>4 DEF OnTime
  <1>6. InTime(file, vgm, call) /\ vgm.open /\ ~vgm.VGMEnd /\ vgm.playing
    BY <1>2, <1>3, <1>5, HeaderStays DEF OnTime, Timed
  <1>7. ~(vgm.VGMSmplPos <= call.SmplPlayed)
    BY <1>1, <1>6, NothingDue
  <1>8. vgm.mul # 0 /\ vgm.div # 0
    BY <1>6 DEF Sound
  <1> QED
    BY <1>1, <1>2, <1>4, <1>6, <1>7, <1>8, InTimeReturns

\* The two calls that go on with another InterpretFile.
LEMMA OnTimeGoesOn ==
    ASSUME Sound, OnTime, RestartReturns \/ NextSample
    PROVE  OnTime'
  <1>1. /\ vgm \in VgmT /\ call \in CallT /\ file \in Files
        /\ vgm.VGMPos \in 1..(Len(file.cmds) + 1)
    BY TypeParts DEF Typed, Sound
  <1>2. vgm' \in VgmT /\ Kept(Interpreted, vgm')
    BY <1>1, RestartedPlayer, AfterSamplePlayer DEF NextSample
  <1>3. /\ vgm'.playing = vgm.playing
        /\ vgm'.open = vgm.open /\ vgm'.VGMPos = vgm.VGMPos
        /\ vgm'.VGMSmplPos = vgm.VGMSmplPos
        /\ vgm'.VGMSmplPlayed = vgm.VGMSmplPlayed + call.count
        /\ vgm'.mul = vgm.mul /\ vgm'.div = vgm.div
        /\ vgm.VGMEnd => vgm'.VGMEnd
    BY <1>1, <1>2, InterpretedPlayer DEF Kept
  <1>4. UNCHANGED <<file, mine, tempo>>
    BY DEF RestartReturns, NextSample
  <1>5. PICK c \in CallT, op \in Ops, n \in Nat :
          call' = InterpretFile(vgm', c, op, n) /\ op # "none"
    <2>1. CASE RestartReturns
      <3>1. call' = InterpretFile(vgm', call, "seek", call.target)
        BY <2>1 DEF RestartReturns
      <3>2. "seek" \in Ops /\ call.target \in Nat
        BY <1>1 DEF CallT, Ops
      <3> QED
        BY <1>1, <3>1, <3>2
    <2>2. CASE NextSample
      <3> DEFINE c == [call EXCEPT !.CurSmpl = @ + 1,
                                   !.RecalcStep = RecalcStep]
      <3>1. call' = InterpretFile(vgm', c, "read", 1)
        BY <2>2 DEF NextSample
      <3>2. c \in CallT
        <4> DEFINE k == call.CurSmpl + 1
                   r == RecalcStep
        <4>1. k \in 0..Buf
          <5>1. Buf \in Nat
            BY PlayerAssumption
          <5>2. call.CurSmpl \in 0..Buf /\ call.CurSmpl + 1 < Buf
            BY <1>1, <2>2 DEF NextSample, CallT
          <5> QED
            BY <5>1, <5>2
        <4>2. r \in Nat
          <5>1. SlowStep \in Nat /\ call.RecalcStep \in Nat
            BY <1>1, PlayerAssumption DEF CallT
          <5> QED
            BY <5>1 DEF RecalcStep
        <4>3. c = [call EXCEPT !.CurSmpl = k, !.RecalcStep = r]
          OBVIOUS
        <4> HIDE DEF c, k, r
        <4> QED
          BY <1>1, <4>1, <4>2, <4>3 DEF CallT
      <3> HIDE DEF c
      <3>3. "read" \in Ops /\ 1 \in Nat
        BY DEF Ops
      <3> QED
        BY <3>1, <3>2, <3>3
    <2> QED
      BY <2>1, <2>2
  <1>6. call'.op # "none"
    <2>1. Rated(vgm')
      BY <1>3 DEF Sound, Rated
    <2> QED
      BY <1>2, <1>5, <2>1, InterpretFileCalls
  <1>7. SUFFICES ASSUME Timed', TrueHeader', ~vgm'.VGMEnd
                 PROVE  InTime(file, vgm', call')
    BY <1>3, <1>4, <1>6 DEF OnTime, InCall
  <1>8. /\ InTime(file, vgm, call) /\ vgm'.open
        /\ vgm.mul # 0 /\ vgm.div # 0
    BY <1>3, <1>4, <1>7, HeaderStays DEF OnTime, Timed, Sound
  <1>9. /\ call' \in CallT /\ call'.count = n
        /\ call'.SmplPlayed = Now(vgm', call')
    BY <1>2, <1>3, <1>5, <1>8, CallsInTime
  <1>10. Coming(vgm, call) <= Coming(vgm', call')
    <2>1. vgm.VGMSmplPlayed \in Int /\ call.count \in Int
      BY <1>1 DEF VgmT, CallT
    <2>2. Coming(vgm', call') = (vgm.VGMSmplPlayed + call.count) + n
      BY <1>3, <1>9 DEF Coming
    <2> QED
      BY <1>5, <2>1, <2>2 DEF Coming
  <1> QED
    BY <1>1, <1>2, <1>3, <1>6, <1>8, <1>9, <1>10, InTimeGoesOn

LEMMA NextOnTime ==
    ASSUME Sound, OnTime, [Next]_vars
    PROVE  OnTime'
  <1>1. CASE UNCHANGED vars
    BY <1>1, HeaderStays DEF vars, OnTime, Timed, InCall
  <1>2. CASE Next
    BY <1>2, OnTimeBetween, OnTimeLoadFile, OnTimeSeek, OnTimeTempo,
       OnTimeRead, OnTimeWait, OnTimeLoopBack, OnTimeEnd, OnTimeReturn,
       OnTimeGoesOn
       DEF Next, ReaderStep, BetweenCalls
  <1> QED
    BY <1>1, <1>2

(***************************************************************************)
(* Between two native calls InterpretVGM has carried out the commands that *)
(* are due and no other, by whatever way the position was reached, for     *)
(* every file whose header tells the truth and every pair of rates: the    *)
(* position is the time of the next command, which is still to come, and   *)
(* the one before was due.                                                 *)
(***************************************************************************)
THEOREM CommandsAreOnTime == Spec => []CommandsOnTime
  <1>1. Init => OnTime
    BY InitOnTime
  <1>2. Sound /\ OnTime /\ [Next]_vars => OnTime'
    BY NextOnTime
  <1>3. Sound /\ OnTime => CommandsOnTime
    <2>1. SUFFICES ASSUME Sound, OnTime,
                          Loaded, tempo = "none", TrueHeader, ~vgm.VGMEnd
                   PROVE  CommandsOnTime
      BY DEF CommandsOnTime
    <2>2. call.op = "none" /\ mine /\ vgm.playing
      BY <2>1 DEF Loaded, Sound, InCall
    <2>3. InTime(file, vgm, call) /\ call.count = 0
      BY <2>1, <2>2 DEF OnTime, Timed, InCall
    <2>4. Coming(vgm, call) = vgm.VGMSmplPlayed
      <3>1. vgm.VGMSmplPlayed \in Int
        BY <2>1, TypeParts DEF Typed, Sound, VgmT
      <3> QED
        BY <2>3, <3>1 DEF Coming
    <2>5. Now(vgm, call) = SamplePbk2VGM_I(vgm, vgm.VGMSmplPlayed)
      BY <2>4 DEF Now
    <2> QED
      BY <2>2, <2>3, <2>5 DEF CommandsOnTime, InTime, TimeOf
  <1> QED
    BY <1>1, <1>2, <1>3, SoundIsInvariant, PTL DEF Spec

-----------------------------------------------------------------------------
(***************************************************************************)
(* Every step keeps the start of the fade from running ahead.  The clock   *)
(* that the fade is counted by is the time of VGMPlay as long as it does   *)
(* not wrap around; in a seek back it is set again when the rewind is done,*)
(* and there is no loop before that.                                       *)
(***************************************************************************)
FadeInTime ==
    /\ vgm.PlayingTime = Time
    /\ vgm.FadePlay => vgm.FadeStart <= Time + call.count + Drift
    /\ ~vgm.FadePlay => vgm.VGMCurLoop < file.maxLoop

Faded ==
    Timed /\ TrueHeader =>
        /\ call.op = "restart" => vgm.VGMCurLoop = 0
        /\ call.op # "restart" => FadeInTime

\* The samples of a playback fit the width of PlayingTime.
CountFits == vgm.PlayingTime + call.count < 2^Width

LEMMA DriftFacts == file \in Files => Drift \in Nat
  <1>1. SUFFICES ASSUME file \in Files PROVE Drift \in Nat
    OBVIOUS
  <1>2. file.maxLoop \in Nat
    BY <1>1, FileFacts
  <1> DEFINE n == file.maxLoop
  <1>3. Drift \in {0, n - 2} /\ (n <= 2 => Drift = 0)
    BY DEF Drift
  <1>4. n \in Nat
    BY <1>2
  <1> HIDE DEF n
  <1> QED
    BY <1>3, <1>4

LEMMA DriftStays ==
    ASSUME file' = file
    PROVE  Drift' = Drift
BY DEF Drift

LEMMA RecalcFades ==
    ASSUME NEW v \in VgmT
    PROVE  /\ RecalcFadeVolume(v).PlayingTime = v.PlayingTime
           /\ RecalcFadeVolume(v).FadePlay = v.FadePlay
           /\ RecalcFadeVolume(v).FadeStart \in {v.FadeStart, v.PlayingTime}
  <1> DEFINE start == IF v.FadeStart = 0 THEN v.PlayingTime ELSE v.FadeStart
             passed == Word(v.PlayingTime - start)
             low == FadeLen - Min({FadeLen, passed})
             e == v.VGMEnd \/ passed > FadeLen
  <1>1. RecalcFadeVolume(v) =
          IF v.FadePlay
          THEN [v EXCEPT !.FadeStart = start, !.MasterVol = low,
                         !.VGMEnd = e]
          ELSE v
    BY DEF RecalcFadeVolume
  <1>2. start \in {v.FadeStart, v.PlayingTime}
    OBVIOUS
  <1> HIDE DEF start, low, e
  <1> QED
    BY <1>1, <1>2 DEF VgmT

LEMMA AfterSampleFades ==
    ASSUME vgm \in VgmT, call \in CallT
    PROVE  /\ AfterSample.PlayingTime = Interpreted.PlayingTime
           /\ AfterSample.FadePlay = Interpreted.FadePlay
           /\ AfterSample.FadeStart
                \in {Interpreted.FadeStart, Interpreted.PlayingTime}
  <1> DEFINE i == Interpreted
             v == IF FadeBegins THEN [i EXCEPT !.FadeStart = i.PlayingTime]
                  ELSE i
  <1>1. i \in VgmT
    BY InterpretedPlayer
  <1>2. /\ v \in VgmT
        /\ v.PlayingTime = i.PlayingTime /\ v.FadePlay = i.FadePlay
        /\ v.FadeStart \in {i.FadeStart, i.PlayingTime}
    <2> HIDE DEF i
    <2>1. i.PlayingTime \in Nat
      BY <1>1, WordsAreNatural DEF VgmT
    <2> QED
      BY <1>1, <2>1 DEF VgmT
  <1>3. AfterSample = RecalcFadeVolume(v) \/ AfterSample = v
    BY DEF AfterSample
  <1> HIDE DEF v
  <1>4. /\ RecalcFadeVolume(v).PlayingTime = v.PlayingTime
        /\ RecalcFadeVolume(v).FadePlay = v.FadePlay
        /\ RecalcFadeVolume(v).FadeStart \in {v.FadeStart, v.PlayingTime}
    BY <1>2, RecalcFades
  <1> QED
    BY <1>2, <1>3, <1>4

LEMMA InitFaded == Init => Faded
BY DEF Init, Faded, Timed

LEMMA FadedBetween ==
    ASSUME Sound, Faded, BetweenCalls
    PROVE  Faded'
  <1>1. CASE Skip \/ ReadFails
    <2>1. UNCHANGED <<file, vgm, call, mine, tempo>>
      BY <1>1 DEF Skip, ReadFails
    <2>2. Time' = Time
      BY <2>1 DEF Time, LoopLength, SampleVGM2Pbk_I
    <2> QED
      BY <2>1, <2>2, HeaderStays, DriftStays DEF Faded, FadeInTime, Timed
  <1>2. CASE StopAndStart \/ StopWithoutTeardown \/ LoadOther
    BY <1>2 DEF StopAndStart, StopWithoutTeardown, LoadOther, Faded, Timed
  <1>3. CASE LoadFails
    <2>1. ~vgm'.playing
      BY <1>3, ClosedPlayer, TypeParts DEF LoadFails, Typed, Sound
    <2> QED
      BY <2>1 DEF Faded, Timed
  <1> QED
    BY <1>1, <1>2, <1>3 DEF BetweenCalls

LEMMA FadedLoadFile ==
    ASSUME Sound, Sound', LoadFile
    PROVE  Faded'
  <1>1. vgm \in VgmT /\ file' \in Files
    BY TypeParts DEF Typed, Sound, LoadFile
  <1>2. /\ vgm' \in VgmT /\ vgm'.playing
        /\ vgm'.VGMCurLoop = 0 /\ vgm'.VGMSmplPlayed = 0
        /\ vgm'.PlayingTime = 0 /\ ~vgm'.FadePlay
        /\ vgm'.mul # 0 /\ vgm'.div # 0
    BY <1>1, PlayVGMPlays, PlayerAssumption DEF LoadFile
  <1>3. Time' = 0
    BY <1>2, RewoundTime
  <1>4. call'.op = "load"
    <2>1. "load" \in Ops /\ 0 \in Nat /\ Rated(vgm')
      BY <1>2 DEF Ops, Rated
    <2>2. call' = InterpretFile(vgm', NoCall, "load", 0)
      BY DEF LoadFile
    <2> QED
      BY <1>2, <2>1, <2>2, NoCallFacts, InterpretFileCalls
  <1>5. 0 < file'.maxLoop
    <2>1. file'.maxLoop \in Nat \ {0}
      BY <1>1, FileFacts
    <2> QED
      BY <2>1
  <1> QED
    BY <1>2, <1>3, <1>4, <1>5 DEF Faded, FadeInTime

LEMMA FadedSeek ==
    ASSUME Sound, Sound', OnTime, Faded, Seek
    PROVE  Faded'
  <1>1. /\ vgm \in VgmT /\ call \in CallT /\ call.op = "none"
        /\ file \in Files
    BY TypeParts DEF Typed, Sound, Seek, InCall
  <1>2. UNCHANGED <<file, mine, tempo>>
    BY DEF Seek
  <1>3. CASE ~vgm.playing
    <2>1. vgm' = vgm
      BY <1>3 DEF Seek
    <2> QED
      BY <1>3, <2>1 DEF Faded, Timed
  <1>4. CASE vgm.playing
    <2>1. PICK target \in Targets :
            /\ vgm' = IF target < Time THEN Rewound(vgm) ELSE vgm
            /\ call' = IF target < Time
                       THEN InterpretFile(vgm',
                              [NoCall EXCEPT !.target = target], "restart", 0)
                       ELSE InterpretFile(vgm',
                              [NoCall EXCEPT !.target = target], "seek",
                              target - Time)
      BY <1>4 DEF Seek, Time
    <2> DEFINE c == [NoCall EXCEPT !.target = target]
    <2>2. target \in Nat /\ Time \in Int
      BY <1>4, TimeIsInt, PlayerAssumption
    <2>3. c \in CallT
      BY <2>2, NoCallFacts DEF CallT
    <2>4. "seek" \in Ops /\ "restart" \in Ops /\ 0 \in Nat
      BY DEF Ops
    <2>5. vgm' \in VgmT /\ Rated(vgm')
      BY <1>1, <1>4, <2>1, RewoundPlayer DEF Sound, Rated
    <2>6. CASE target < Time
      <3>1. vgm'.VGMCurLoop = 0
        BY <1>1, <2>1, <2>6, RewoundPlayer
      <3>2. call' = InterpretFile(vgm', c, "restart", 0)
        BY <2>1, <2>6
      <3> HIDE DEF c
      <3>3. call'.op = "restart"
        BY <2>3, <2>4, <2>5, <3>2, InterpretFileCalls
      <3> QED
        BY <3>1, <3>3 DEF Faded
    <2>7. CASE ~(target < Time)
      <3>1. vgm' = vgm /\ target - Time \in Nat
        BY <2>1, <2>2, <2>7
      <3>2. call' = InterpretFile(vgm', c, "seek", target - Time)
        BY <2>1, <2>7
      <3> HIDE DEF c
      <3>3. call'.op = "seek" /\ call'.count = target - Time
        BY <2>3, <2>4, <2>5, <3>1, <3>2, InterpretFileCalls
      <3>4. SUFFICES ASSUME Timed', TrueHeader' PROVE FadeInTime'
        BY <3>3 DEF Faded
      <3>5. FadeInTime
        BY <1>1, <1>2, <3>1, <3>4, HeaderStays DEF Faded, Timed
      <3>6. Time' = Time /\ Drift' = Drift
        BY <1>2, <3>1, DriftStays DEF Time, LoopLength, SampleVGM2Pbk_I
      <3>7. vgm.FadePlay =>
              vgm.FadeStart <= Time + call'.count + Drift
        <4>1. call.count = 0
          BY <1>1 DEF OnTime, InCall
        <4>2. vgm.FadeStart \in Int /\ Drift \in Nat
          BY <1>1, DriftFacts DEF VgmT
        <4>3. vgm.FadePlay => vgm.FadeStart <= Time + 0 + Drift
          BY <3>5, <4>1 DEF FadeInTime
        <4> QED
          BY <2>2, <3>1, <3>3, <4>2, <4>3
      <3> QED
        BY <1>2, <3>1, <3>5, <3>6, <3>7 DEF FadeInTime
    <2> QED
      BY <2>6, <2>7
  <1> QED
    BY <1>3, <1>4

LEMMA FadedTempo ==
    ASSUME SetTempoMul \/ SetTempoDiv
    PROVE  Faded'
BY DEF SetTempoMul, SetTempoDiv, Faded, Timed

LEMMA FadedRead ==
    ASSUME Sound, OnTime, Faded, ReadNextSamples
    PROVE  Faded'
  <1>1. /\ vgm \in VgmT /\ Rated(vgm) /\ call.op = "none"
        /\ file \in Files
    BY TypeParts DEF Typed, Sound, Rated, ReadNextSamples, InCall
  <1>2. /\ vgm' \in VgmT /\ Kept(vgm, vgm')
        /\ vgm'.PlayingTime = vgm.PlayingTime
        /\ vgm'.FadePlay = vgm.FadePlay
        /\ vgm'.FadeStart \in {vgm.FadeStart, vgm.PlayingTime}
    BY <1>1, RecalcFadeVolumeKeeps, RecalcFades DEF ReadNextSamples
  <1>3. UNCHANGED <<file, mine, tempo>>
    BY DEF ReadNextSamples
  <1>4. call'.op = "read" /\ call'.count = 1
    <2> DEFINE r == IF vgm.FadePlay THEN SampleRate \div VGMSampleRate ELSE 0
               c == [NoCall EXCEPT !.RecalcStep = r]
    <2>1. r \in Nat
      <3>1. SampleRate \in Nat /\ VGMSampleRate \in Nat \ {0}
        BY PlayerAssumption
      <3> QED
        BY <3>1
    <2>2. call' = InterpretFile(vgm', c, "read", 1)
      BY DEF ReadNextSamples
    <2> HIDE DEF r
    <2>3. c \in CallT
      BY <2>1, NoCallFacts DEF CallT
    <2>4. "read" \in Ops /\ 1 \in Nat /\ Rated(vgm')
      BY <1>1, <1>2 DEF Ops, Kept, Rated
    <2> HIDE DEF c
    <2> QED
      BY <1>2, <2>2, <2>3, <2>4, InterpretFileCalls
  <1>5. SUFFICES ASSUME Timed', TrueHeader' PROVE FadeInTime'
    BY <1>4 DEF Faded
  <1>6. Timed /\ TrueHeader
    BY <1>2, <1>3, <1>5, HeaderStays DEF Timed, Kept
  <1>7. FadeInTime
    BY <1>1, <1>6 DEF Faded
  <1>8. Time' = Time /\ Time \in Int /\ Drift' = Drift
    <2>1. vgm'.VGMSmplPlayed = vgm.VGMSmplPlayed + 0
      BY <1>1, <1>2 DEF VgmT, Kept
    <2>2. Time' = Time + 0 /\ Time \in Int
      BY <1>2, <1>3, <1>6, <2>1, TimeGoesOn DEF Kept, Timed
    <2> QED
      BY <1>3, <2>2, DriftStays
  <1>9. vgm.FadePlay => vgm'.FadeStart <= Time + 1 + Drift
    <2>1. call.count = 0
      BY <1>1 DEF OnTime, InCall
    <2>2. vgm.FadeStart \in Int /\ Drift \in Nat
      BY <1>1, DriftFacts DEF VgmT
    <2>3. vgm.FadePlay => vgm.FadeStart <= Time + 0 + Drift
      BY <1>7, <2>1 DEF FadeInTime
    <2>4. vgm'.FadeStart \in {vgm.FadeStart, Time}
      BY <1>2, <1>7 DEF FadeInTime
    <2> QED
      BY <1>8, <2>2, <2>3, <2>4
  <1> QED
    BY <1>2, <1>3, <1>4, <1>7, <1>8, <1>9 DEF FadeInTime, Kept

LEMMA FadedCommand ==
    ASSUME Sound, Faded, Wait \/ EndOfFile \/ BadCommand
    PROVE  Faded'
  <1>1. vgm \in VgmT
    BY TypeParts DEF Typed, Sound
  <1>2. /\ UNCHANGED <<file, call, mine, tempo>>
        /\ vgm'.playing = vgm.playing
        /\ vgm'.mul = vgm.mul /\ vgm'.div = vgm.div
        /\ vgm'.VGMCurLoop = vgm.VGMCurLoop
        /\ vgm'.VGMSmplPlayed = vgm.VGMSmplPlayed
        /\ vgm'.PlayingTime = vgm.PlayingTime
        /\ vgm'.FadePlay = vgm.FadePlay /\ vgm'.FadeStart = vgm.FadeStart
    BY WaitedPlayer, EndedPlayer DEF Wait, EndOfFile, BadCommand
  <1>3. SUFFICES ASSUME Timed', TrueHeader' PROVE Faded'
    BY DEF Faded
  <1>4. Timed /\ TrueHeader
    BY <1>2, <1>3, HeaderStays DEF Timed
  <1>5. Time' = Time /\ Drift' = Drift
    BY <1>2, DriftStays DEF Time, LoopLength, SampleVGM2Pbk_I
  <1> QED
    BY <1>2, <1>4, <1>5 DEF Faded, FadeInTime

LEMMA FadeTriggerFades ==
    ASSUME NEW v \in VgmT
    PROVE  /\ FadeTrigger(v).PlayingTime = v.PlayingTime
           /\ v.VGMCurLoop < file.maxLoop => FadeTrigger(v) = v
           /\ v.FadePlay => /\ FadeTrigger(v).FadePlay
                            /\ FadeTrigger(v).FadeStart = v.FadeStart
           /\ ~v.FadePlay /\ ~(v.VGMCurLoop < file.maxLoop) =>
                /\ FadeTrigger(v).FadePlay
                /\ FadeTrigger(v).FadeStart =
                     SampleVGM2Pbk_I(v, file.total
                                + (v.VGMCurLoop - 1) * file.loopSamples)
  <1>1. CASE v.VGMCurLoop < file.maxLoop
    BY <1>1 DEF FadeTrigger
  <1>2. CASE ~(v.VGMCurLoop < file.maxLoop)
    <2> DEFINE s == SampleVGM2Pbk_I(v, file.total
                                + (v.VGMCurLoop - 1) * file.loopSamples)
               start == IF v.FadePlay THEN v.FadeStart ELSE s
    <2>1. FadeTrigger(v) = [v EXCEPT !.FadeStart = start, !.FadePlay = TRUE]
      BY <1>2 DEF FadeTrigger
    <2> HIDE DEF start
    <2>2. /\ FadeTrigger(v).PlayingTime = v.PlayingTime
          /\ FadeTrigger(v).FadePlay = TRUE
          /\ FadeTrigger(v).FadeStart = start
      BY <2>1 DEF VgmT
    <2> QED
      BY <1>2, <2>2 DEF start
  <1> QED
    BY <1>1, <1>2

\* There is no loop in a rewind: it has no time to go by, and a loop takes
\* some.
LEMMA NoLoopInRewind ==
    ASSUME Sound, Clocks, OnTime, LoopBack, Timed, TrueHeader
    PROVE  call.op # "restart" \/ vgm.VGMCurLoop # 0
  <1>1. SUFFICES ASSUME call.op = "restart", vgm.VGMCurLoop = 0 PROVE FALSE
    OBVIOUS
  <1>2. /\ pc = "interpret" /\ Due /\ Command = End /\ file.loop # 0
        /\ ~vgm.VGMEnd
    BY DEF LoopBack, Due
  <1>3. InTime(file, vgm, call)
    BY <1>2 DEF OnTime
  <1>4. /\ vgm \in VgmT /\ call \in CallT /\ file \in Files
        /\ vgm.mul \in Nat \ {0} /\ vgm.div \in Nat \ {0}
        /\ vgm.VGMPos \in 1..Len(file.cmds)
        /\ Now(vgm, call) = (Coming(vgm, call) * vgm.div) \div vgm.mul
        /\ vgm.VGMSmplPos \in Nat /\ vgm.VGMSmplPos <= Now(vgm, call)
    BY <1>2, <1>3, DueInTime
  <1>5. Coming(vgm, call) = 0
    <2>1. Time = 0 /\ call.count = 0
      BY <1>1 DEF Clocks, Timed
    <2>2. LoopLength(vgm) \in Int /\ vgm.VGMSmplPlayed \in Int
      BY <1>4, LoopBackPlayer DEF VgmT
    <2> DEFINE l == LoopLength(vgm)
    <2> HIDE DEF l
    <2>3. Time = 0 * l + vgm.VGMSmplPlayed
      BY <1>1 DEF Time, l
    <2>4. vgm.VGMSmplPlayed = 0
      BY <2>1, <2>2, <2>3 DEF l
    <2> QED
      BY <2>1, <2>4 DEF Coming
  <1>6. Now(vgm, call) = 0
    <2> DEFINE m == vgm.mul
               d == vgm.div
    <2> HIDE DEF m, d
    <2>1. (0 * d) \div m = 0
      BY <1>4 DEF m, d
    <2> QED
      BY <1>4, <1>5, <2>1 DEF m, d
  <1>7. file.loopSamples = vgm.VGMSmplPos - Times(file.cmds)[file.loop]
    <2>1. vgm.VGMPos \in DOMAIN file.cmds
      BY <1>4, FileFacts
    <2>2. file.loopSamples = TimeOf(vgm.VGMPos) - TimeOf(file.loop)
      BY <1>2, <2>1 DEF TrueHeader, Command
    <2> QED
      BY <1>3, <2>2 DEF InTime, TimeOf
  <1>8. Times(file.cmds)[file.loop] \in Nat
    <2>1. /\ file.cmds \in Seq(Nat \cup {End, Bad}) /\ Len(file.cmds) \in Nat
          /\ file.loop \in 0..(Len(file.cmds) + 1)
      BY <1>4, FileFacts
    <2> QED
      BY <2>1, TimeFacts
  <1>9. file.loopSamples \in Nat /\ file.loopSamples # 0
    BY <1>2, <1>4, PlayerAssumption
  <1> QED
    BY <1>4, <1>6, <1>7, <1>8, <1>9

\* The last loop begins the fade; the clock has lost a fraction in each loop.
LEMMA FadedLoopBack ==
    ASSUME Sound, Clocks, OnTime, Faded, LoopBack
    PROVE  Faded'
  <1> DEFINE u == Looped(vgm)
             m == vgm.mul
             d == vgm.div
             x == Coming(vgm, call)
             t == vgm.VGMSmplPos
             ls == file.loopSamples
             k == vgm.VGMCurLoop
             l == LoopLength(vgm)
  <1>1. /\ UNCHANGED <<file, mine, tempo>>
        /\ call' = InterpretFile(vgm', call, call.op, call.count)
        /\ vgm' = FadeTrigger(u)
        /\ pc = "interpret" /\ Due /\ Command = End /\ file.loop # 0
    BY DEF LoopBack
  <1>2. /\ vgm' \in VgmT /\ vgm'.playing = vgm.playing
        /\ vgm'.mul = vgm.mul /\ vgm'.div = vgm.div
        /\ vgm'.VGMCurLoop = vgm.VGMCurLoop + 1
    BY LoopBackPlayer
  <1>3. /\ file \in Files /\ call \in CallT /\ vgm \in VgmT
        /\ vgm.mul # 0 /\ vgm.div # 0 /\ ~vgm.VGMEnd
    BY <1>1, DueCommand, TypeParts DEF Typed, Sound
  <1>4. call'.op = call.op /\ call'.count = call.count
    <2>1. call.op \in Ops /\ call.count \in Nat /\ Rated(vgm')
      BY <1>2, <1>3 DEF CallT, Rated
    <2> QED
      BY <1>1, <1>2, <1>3, <2>1, InterpretFileCalls
  <1>5. SUFFICES ASSUME Timed', TrueHeader' PROVE Faded'
    BY DEF Faded
  <1>6. Timed /\ TrueHeader
    BY <1>1, <1>2, <1>5, HeaderStays DEF Timed
  <1>7. call.op # "restart"
    BY <1>6, NoLoopInRewind DEF Faded
  <1>8. FadeInTime
    BY <1>6, <1>7 DEF Faded
  <1>9. Time' = Time /\ Drift' = Drift
    BY <1>1, <1>6, TimeLoops, DriftStays DEF Timed
  <1>10. /\ u \in VgmT /\ u.FadePlay = vgm.FadePlay
         /\ u.FadeStart = vgm.FadeStart
         /\ u.PlayingTime = vgm.PlayingTime
         /\ u.mul = vgm.mul /\ u.div = vgm.div
         /\ u.VGMCurLoop = k + 1
    BY <1>1, <1>3, LoopedPlayer
  <1> HIDE DEF u
  <1>11. vgm'.PlayingTime = vgm.PlayingTime
    BY <1>1, <1>10, FadeTriggerFades
  <1>12. /\ vgm'.FadePlay => vgm'.FadeStart <= Time + call.count + Drift
         /\ ~vgm'.FadePlay => k + 1 < file.maxLoop
    <2>1. CASE u.VGMCurLoop < file.maxLoop
      <3>1. vgm' = u
        BY <1>1, <1>10, <2>1, FadeTriggerFades
      <3> QED
        BY <1>8, <1>10, <2>1, <3>1 DEF FadeInTime
    <2>2. CASE vgm.FadePlay
      <3>1. vgm'.FadePlay /\ vgm'.FadeStart = vgm.FadeStart
        BY <1>1, <1>10, <2>2, FadeTriggerFades
      <3> QED
        BY <1>8, <2>2, <3>1 DEF FadeInTime
    <2>3. CASE ~(u.VGMCurLoop < file.maxLoop) /\ ~vgm.FadePlay
      <3>1. vgm'.FadePlay /\ vgm'.FadeStart =
              SampleVGM2Pbk_I(u, file.total + (u.VGMCurLoop - 1) * ls)
        BY <1>1, <1>10, <2>3, FadeTriggerFades
      <3>2. InTime(file, vgm, call)
        BY <1>3, <1>6 DEF OnTime
      <3>3. /\ m \in Nat \ {0} /\ d \in Nat \ {0} /\ x \in Nat /\ t \in Nat
            /\ t <= (x * d) \div m
            /\ vgm.VGMPos \in 1..Len(file.cmds)
        BY <1>1, <3>2, DueInTime
      <3>4. /\ ls \in Nat /\ file.maxLoop \in Nat \ {0} /\ k \in Nat
            /\ file.cmds \in Seq(Nat \cup {End, Bad})
        BY <1>3, FileFacts DEF VgmT
      <3>5. k < file.maxLoop /\ ~(k + 1 < file.maxLoop)
        BY <1>8, <1>10, <2>3 DEF FadeInTime
      <3>6. file.total = t
        <4>1. vgm.VGMPos \in DOMAIN file.cmds
          BY <3>3, <3>4
        <4>2. file.total = TimeOf(vgm.VGMPos)
          BY <1>1, <1>6, <4>1 DEF TrueHeader, Command
        <4> QED
          BY <3>2, <4>2 DEF InTime, TimeOf
      <3>7. m = SampleRate /\ d = VGMSampleRate
        BY <1>6 DEF Clocks, Timed
      <3>8. l = (ls * m) \div d
        <4>1. ls * m \in Nat
          BY <3>3, <3>4
        <4> QED
          BY <4>1 DEF LoopLength, SampleVGM2Pbk_I, Quotient
      <3>9. vgm'.FadeStart = ((t + k * ls) * m) \div d
        <4>1. (u.VGMCurLoop - 1) = k
          BY <1>10, <3>4
        <4>2. vgm'.FadeStart = Quotient((t + k * ls) * m, d)
          BY <1>10, <3>1, <3>6, <4>1 DEF SampleVGM2Pbk_I
        <4> HIDE DEF t, k, ls, m, d
        <4>3. (t + k * ls) * m \in Nat
          BY <3>3, <3>4
        <4> QED
          BY <4>2, <4>3 DEF Quotient
      <3>10. Drift = IF (ls * m) % d = 0 \/ k <= 1 THEN 0 ELSE k - 1
        <4>1. k = file.maxLoop - 1
          BY <3>4, <3>5
        <4>2. (file.maxLoop <= 2 <=> k <= 1) /\ file.maxLoop - 2 = k - 1
          BY <3>4, <4>1
        <4> QED
          BY <3>7, <4>2 DEF Drift
      <3>11. Time + call.count = x + k * l
        <4>1. LoopLength(vgm) \in Int
          BY <1>1, <1>3, LoopedPlayer
        <4> DEFINE s == vgm.VGMSmplPlayed
                   c == call.count
        <4>2. s \in Int /\ c \in Int
          BY <1>3 DEF VgmT, CallT
        <4>3. Time = k * l + s /\ x = s + c
          BY DEF Time, Coming
        <4> HIDE DEF s, c, k, l, x
        <4>4. k \in Int /\ l \in Int
          BY <3>4, <4>1 DEF k, l
        <4>5. k * l \in Int
          BY <4>4
        <4> QED
          BY <4>2, <4>3, <4>5 DEF c
      <3> HIDE DEF m, d, x, t, ls, k, l
      <3>12. /\ k * l \in Nat
             /\ vgm'.FadeStart <= x + k * l
                  + (IF (ls * m) % d = 0 \/ k <= 1 THEN 0 ELSE k - 1)
        BY <3>3, <3>4, <3>8, <3>9, FadeRounds
      <3> QED
        BY <3>1, <3>10, <3>11, <3>12
    <2> QED
      BY <2>1, <2>2, <2>3
  <1>13. FadeInTime'
    BY <1>1, <1>2, <1>4, <1>8, <1>9, <1>11, <1>12 DEF FadeInTime
  <1> QED
    BY <1>4, <1>7, <1>13 DEF Faded

\* A call that returns has counted its samples on both clocks.
LEMMA FadedReturn ==
    ASSUME Sound, Faded, CountFits,
           LoadReturns \/ SeekReturns \/ ReadReturns \/ NextSample
    PROVE  Faded'
  <1>1. /\ vgm \in VgmT /\ call \in CallT /\ file \in Files
        /\ call.op # "none" /\ call.op # "restart"
    BY TypeParts DEF Typed, Sound, InCall, LoadReturns, SeekReturns,
                     ReadReturns, NextSample, Return
  <1>2. /\ Interpreted \in VgmT
        /\ Interpreted.PlayingTime = Word(vgm.PlayingTime + call.count)
        /\ Interpreted.FadePlay = vgm.FadePlay
        /\ Interpreted.FadeStart = vgm.FadeStart
        /\ AfterSample \in VgmT /\ Kept(Interpreted, AfterSample)
    BY <1>1, InterpretedPlayer, AfterSamplePlayer
  <1>3. /\ vgm'.playing = vgm.playing
        /\ vgm'.mul = vgm.mul /\ vgm'.div = vgm.div
        /\ vgm'.VGMCurLoop = vgm.VGMCurLoop
        /\ vgm'.VGMSmplPlayed = vgm.VGMSmplPlayed + call.count
    <2>1. CASE ReadReturns
      BY <2>1, ReadPlayer
    <2>2. CASE LoadReturns \/ SeekReturns
      BY <1>1, <2>2, InterpretedPlayer DEF LoadReturns, SeekReturns
    <2>3. CASE NextSample
      BY <1>1, <1>2, <2>3, InterpretedPlayer DEF NextSample, Kept
    <2> QED
      BY <2>1, <2>2, <2>3
  <1>4. /\ vgm'.PlayingTime = Interpreted.PlayingTime
        /\ vgm'.FadePlay = vgm.FadePlay
        /\ vgm'.FadeStart \in {vgm.FadeStart, Interpreted.PlayingTime}
    <2>1. /\ AfterSample.PlayingTime = Interpreted.PlayingTime
          /\ AfterSample.FadePlay = Interpreted.FadePlay
          /\ AfterSample.FadeStart
               \in {Interpreted.FadeStart, Interpreted.PlayingTime}
      BY <1>1, AfterSampleFades
    <2>2. CASE ReadReturns
      <3> DEFINE a == AfterSample
                 e == AfterSample.EndPlay \/ CutShort
      <3>1. vgm' = [a EXCEPT !.EndPlay = e]
        BY <2>2 DEF ReadReturns
      <3> HIDE DEF a, e
      <3>2. a \in VgmT
        BY <1>2 DEF a
      <3>3. /\ vgm'.PlayingTime = a.PlayingTime
            /\ vgm'.FadePlay = a.FadePlay /\ vgm'.FadeStart = a.FadeStart
        BY <3>1, <3>2 DEF VgmT
      <3> QED
        BY <1>2, <2>1, <3>3 DEF a
    <2>3. CASE NextSample
      BY <1>2, <2>1, <2>3 DEF NextSample
    <2>4. CASE LoadReturns \/ SeekReturns
      BY <1>2, <2>4 DEF LoadReturns, SeekReturns
    <2> QED
      BY <2>2, <2>3, <2>4
  <1>5. UNCHANGED <<file, mine, tempo>>
    BY DEF LoadReturns, SeekReturns, ReadReturns, NextSample
  <1>6. call'.count \in Nat
    <2>1. CASE NextSample
      BY <2>1, SoundNextSample
    <2>2. CASE LoadReturns \/ SeekReturns \/ ReadReturns
      BY <2>2, NoCallFacts DEF LoadReturns, SeekReturns, ReadReturns
    <2> QED
      BY <2>1, <2>2
  <1>7. SUFFICES ASSUME Timed', TrueHeader' PROVE FadeInTime'
    <2>1. CASE NextSample
      BY <2>1, SoundNextSample DEF Faded
    <2>2. CASE LoadReturns \/ SeekReturns \/ ReadReturns
      BY <2>2, NoCallFacts DEF LoadReturns, SeekReturns, ReadReturns, Faded
    <2> QED
      BY <2>1, <2>2
  <1>8. Timed /\ TrueHeader
    BY <1>3, <1>5, <1>7, HeaderStays DEF Timed
  <1>9. FadeInTime
    BY <1>1, <1>8 DEF Faded
  <1>10. Time' = Time + call.count /\ Time \in Int /\ Drift' = Drift
    <2>1. call.count \in Int
      BY <1>1 DEF CallT
    <2> QED
      BY <1>3, <1>5, <1>8, <2>1, TimeGoesOn, DriftStays DEF Timed
  <1>11. Interpreted.PlayingTime = Time'
    <2>1. vgm.PlayingTime \in Nat /\ call.count \in Nat /\ 2^Width \in Nat
      BY <1>1, WordsAreNatural, PlayerAssumption DEF VgmT, CallT
    <2> DEFINE w == 2^Width
               n == vgm.PlayingTime + call.count
    <2> HIDE DEF w
    <2>2. n \in Nat /\ w \in Nat /\ n < w
      BY <2>1 DEF CountFits, w
    <2> HIDE DEF n
    <2>3. n % w = n
      BY <2>2
    <2>4. Word(n) = n
      BY <2>3 DEF Word, w
    <2> QED
      BY <1>2, <1>9, <1>10, <2>4 DEF n, FadeInTime
  <1>12. vgm.FadePlay => vgm'.FadeStart <= Time' + call'.count + Drift
    <2>1. vgm.FadeStart \in Int /\ Drift \in Nat /\ call.count \in Nat
      BY <1>1, DriftFacts DEF VgmT, CallT
    <2>2. vgm'.FadeStart \in {vgm.FadeStart, Time'}
      BY <1>4, <1>11
    <2>3. vgm.FadePlay => vgm.FadeStart <= Time + call.count + Drift
      BY <1>9 DEF FadeInTime
    <2> QED
      BY <1>6, <1>10, <2>1, <2>2, <2>3
  <1> QED
    BY <1>3, <1>4, <1>5, <1>9, <1>10, <1>11, <1>12 DEF FadeInTime

LEMMA FadedRestartReturns ==
    ASSUME Sound, Clocks, Faded, RestartReturns
    PROVE  Faded'
  <1>1. /\ vgm \in VgmT /\ call \in CallT /\ call.op = "restart"
        /\ file \in Files /\ vgm.mul # 0 /\ vgm.div # 0
    BY TypeParts DEF Typed, Sound, RestartReturns, Return
  <1>2. /\ vgm' \in VgmT /\ Kept(Interpreted, vgm')
        /\ vgm'.PlayingTime = 0 /\ ~vgm'.FadePlay
    BY <1>1, RestartedPlayer, InterpretedPlayer, UnfadedPlayer
       DEF RestartReturns
  <1>3. /\ vgm'.playing = vgm.playing
        /\ vgm'.mul = vgm.mul /\ vgm'.div = vgm.div
        /\ vgm'.VGMCurLoop = vgm.VGMCurLoop
        /\ vgm'.VGMSmplPlayed = vgm.VGMSmplPlayed + call.count
    BY <1>1, <1>2, InterpretedPlayer DEF Kept
  <1>4. UNCHANGED <<file, mine, tempo>>
    BY DEF RestartReturns
  <1>5. call'.op = "seek"
    <2>1. call' = InterpretFile(vgm', call, "seek", call.target)
      BY DEF RestartReturns
    <2>2. "seek" \in Ops /\ call.target \in Nat /\ Rated(vgm')
      BY <1>1, <1>3 DEF CallT, Ops, Rated
    <2> QED
      BY <1>1, <1>2, <2>1, <2>2, InterpretFileCalls
  <1>6. SUFFICES ASSUME Timed', TrueHeader' PROVE FadeInTime'
    BY <1>5 DEF Faded
  <1>7. Timed /\ TrueHeader
    BY <1>3, <1>4, <1>6, HeaderStays DEF Timed
  <1>8. Time = 0 /\ call.count = 0 /\ vgm.VGMCurLoop = 0
    BY <1>1, <1>7 DEF Clocks, Timed, Faded
  <1>9. Time' = Time + call.count
    BY <1>3, <1>4, <1>7, <1>8, TimeGoesOn DEF Timed
  <1>10. 0 < file.maxLoop
    <2>1. file.maxLoop \in Nat \ {0}
      BY <1>1, FileFacts
    <2> QED
      BY <2>1
  <1> QED
    BY <1>2, <1>3, <1>4, <1>8, <1>9, <1>10 DEF FadeInTime

LEMMA NextFaded ==
    ASSUME Sound, Clocks, OnTime, Faded, CountFits, [Next]_vars
    PROVE  Faded'
  <1>1. CASE UNCHANGED vars
    <2>1. Time' = Time
      BY <1>1 DEF vars, Time, LoopLength, SampleVGM2Pbk_I
    <2> QED
      BY <1>1, <2>1, HeaderStays, DriftStays
         DEF vars, Faded, FadeInTime, Timed
  <1>2. CASE Next
    <2>1. Sound'
      BY NextSound
    <2> QED
      BY <1>2, <2>1, FadedBetween, FadedLoadFile, FadedSeek, FadedTempo,
         FadedRead, FadedCommand, FadedLoopBack, FadedReturn,
         FadedRestartReturns
         DEF Next, ReaderStep, BetweenCalls
  <1> QED
    BY <1>1, <1>2

(***************************************************************************)
(* The start of the fade, which InterpretVGM takes from the header and     *)
(* RecalcFadeVolume subtracts from the clock without a sign, is ahead of   *)
(* the clock by Drift at the most between two native calls: not at all if  *)
(* a loop has a whole number of samples or is played twice at the most.    *)
(* The hypothesis is that PlayingTime does not wrap around, which it does  *)
(* after 2^32 samples, a day of music.                                     *)
(***************************************************************************)
THEOREM FadesHaveBegun == Spec /\ []CountFits => []FadeHasBegun
  <1>1. Init => Sound /\ Clocks /\ OnTime /\ Faded
    BY InitSound, InitClocks, InitOnTime, InitFaded
  <1>2. /\ Sound /\ Clocks /\ OnTime /\ Faded /\ CountFits /\ [Next]_vars
        => Sound' /\ Clocks' /\ OnTime' /\ Faded'
    BY NextSound, NextClocks, NextOnTime, NextFaded
  <1>3. Sound /\ OnTime /\ Faded => FadeHasBegun
    <2>1. SUFFICES ASSUME Sound, OnTime, Faded, Loaded, tempo = "none",
                          TrueHeader, vgm.FadePlay
                   PROVE  vgm.FadeStart <= vgm.PlayingTime + Drift
      BY DEF FadeHasBegun
    <2>2. call.op = "none" /\ mine /\ vgm.playing
      BY <2>1 DEF Loaded, Sound, InCall
    <2>3. FadeInTime /\ call.count = 0
      BY <2>1, <2>2 DEF Faded, OnTime, Timed, InCall
    <2>4. vgm.FadeStart <= Time + 0 + Drift
      BY <2>1, <2>3 DEF FadeInTime
    <2>5. Time \in Int /\ Drift \in Nat
      BY <2>1, <2>2, TimeIsInt, DriftFacts, TypeParts DEF Typed, Sound
    <2> QED
      BY <2>3, <2>4, <2>5 DEF FadeInTime
  <1> QED
    BY <1>1, <1>2, <1>3, PTL DEF Spec
=============================================================================
