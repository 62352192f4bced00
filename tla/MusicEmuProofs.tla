--------------------------- MODULE MusicEmuProofs ---------------------------
(***************************************************************************)
(* TypeOK, HeardInOrder and EndsForAReason of MusicEmu, and of its fades   *)
(* EndsInTime and FadeNeverRises, for every track, every rate, every size  *)
(* of buffer and any seeks and changes of tempo.                           *)
(***************************************************************************)
EXTENDS MusicEmu, SequenceTheorems, WellFoundedInduction, TLAPS

(***************************************************************************)
(* Minima and maxima.                                                      *)
(***************************************************************************)
LEMMA MinExists ==
    ASSUME NEW S \in SUBSET Nat, S # {}
    PROVE  Min(S) \in S /\ \A x \in S : Min(S) <= x
  <1>1. PICK m \in S : \A y \in S : ~(<<y, m>> \in OpToRel(<, Nat))
    BY NatLessThanWellFounded, WFMin
  <1>2. \A y \in S : m <= y
    <2> TAKE y \in S
    <2>1. <<y, m>> \in Nat \X Nat
      OBVIOUS
    <2>2. ~(y < m)
      BY <1>1, <2>1 DEF OpToRel
    <2> QED
      BY <2>2
  <1> QED
    BY <1>1, <1>2 DEF Min

LEMMA MinOfTwo ==
    ASSUME NEW a \in Nat, NEW b \in Nat
    PROVE  /\ Min({a, b}) \in Nat
           /\ Min({a, b}) <= a /\ Min({a, b}) <= b
           /\ Min({a, b}) = a \/ Min({a, b}) = b
  <1>1. Min({a, b}) \in {a, b} /\ \A x \in {a, b} : Min({a, b}) <= x
    BY MinExists
  <1> QED
    BY <1>1

LEMMA MaxExists ==
    ASSUME NEW n \in Nat, NEW S \in SUBSET (0..n), S # {}
    PROVE  Max(S) \in S /\ \A x \in S : Max(S) >= x
  <1> DEFINE T == {n - x : x \in S}
  <1>1. T \in SUBSET Nat /\ T # {}
    <2>1. \A x \in S : x \in Nat /\ x <= n
      OBVIOUS
    <2>2. \A x \in S : n - x \in Nat
      BY <2>1
    <2> QED
      BY <2>2
  <1>2. PICK d \in T : \A y \in T : d <= y
    BY <1>1, MinExists
  <1>3. PICK m \in S : d = n - m
    BY <1>2
  <1>4. \A x \in S : m >= x
    <2> TAKE x \in S
    <2>1. d <= n - x
      BY <1>2
    <2> QED
      BY <1>3, <2>1
  <1> QED
    BY <1>3, <1>4 DEF Max

LEMMA SilenceFacts ==
    ASSUME NEW p \in Nat, NEW n \in Nat
    PROVE  /\ count_silence(p, n) \in 0..n
           /\ \A i \in 1..count_silence(p, n) : ~Loud(p + n - i)
           /\ count_silence(p, n) = n => \A i \in 0..(n - 1) : ~Loud(p + i)
           /\ count_silence(p, n) < n =>
                \E i \in 0..(n - 1) : Loud(p + i)
  <1> DEFINE S == {0} \cup {i \in 1..n : Loud(p + i - 1)}
             m == Max(S)
             c == count_silence(p, n)
  <1>1. m \in S /\ \A x \in S : m >= x
    <2>1. S \in SUBSET (0..n) /\ S # {}
      OBVIOUS
    <2> HIDE DEF S
    <2> QED
      BY <2>1, MaxExists
  <1>2. c = n - m
    BY DEF count_silence
  <1>3. \A i \in 1..n : i > m => ~Loud(p + i - 1)
    BY <1>1
  <1> HIDE DEF S, m, c
  <1>4. m \in 0..n
    BY <1>1 DEF S
  <1>5. \A i \in 0..(n - 1) : i >= m => ~Loud(p + i)
    <2> SUFFICES ASSUME NEW i \in 0..(n - 1), i >= m PROVE ~Loud(p + i)
      OBVIOUS
    <2>1. i + 1 \in 1..n /\ i + 1 > m /\ p + (i + 1) - 1 = p + i
      BY <1>4
    <2> QED
      BY <1>3, <2>1
  <1>6. \A i \in 1..c : ~Loud(p + n - i)
    <2> SUFFICES ASSUME NEW i \in 1..c PROVE ~Loud(p + n - i)
      OBVIOUS
    <2>1. n - i \in 0..(n - 1) /\ n - i >= m /\ p + (n - i) = p + n - i
      BY <1>2, <1>4
    <2> QED
      BY <1>5, <2>1
  <1>7. c < n => \E i \in 0..(n - 1) : Loud(p + i)
    <2> SUFFICES ASSUME c < n PROVE \E i \in 0..(n - 1) : Loud(p + i)
      OBVIOUS
    <2>1. m > 0
      BY <1>2, <1>4
    <2>2. Loud(p + m - 1)
      BY <1>1, <2>1 DEF S
    <2>3. m - 1 \in 0..(n - 1) /\ p + (m - 1) = p + m - 1
      BY <1>4, <2>1
    <2> QED
      BY <2>2, <2>3
  <1>8. c = n => \A i \in 0..(n - 1) : ~Loud(p + i)
    BY <1>2, <1>4, <1>5
  <1> QED
    BY <1>2, <1>4, <1>6, <1>7, <1>8 DEF c

-----------------------------------------------------------------------------
(***************************************************************************)
(* The constants, and the record of the emulator.                          *)
(***************************************************************************)
LEMMA Sizes ==
    /\ Buf \in Nat /\ Buf > 0
    /\ buf_size \in Nat /\ buf_size > 0
    /\ SilenceMax \in Nat /\ buf_size <= SilenceMax
    /\ FadeBlock \in Nat /\ FadeBlock > 0
    /\ Lookahead \in Nat /\ Lookahead > 1
    /\ InitialMax \in Nat /\ TempoFade \in Nat
    /\ Unit \in Nat /\ FadeStep \in Nat
    /\ Rate \in Nat /\ Ticks \in Nat /\ Ticks > 0
  BY EmuAssumption

Ints == -(2^(Width - 1))..(2^(Width - 1) - 1)

LEMMA SignedType ==
    ASSUME NEW n \in Int
    PROVE  Signed(n) \in Ints
  <1> DEFINE h == 2^(Width - 1)
  <1>1. h \in Nat /\ h > 0 /\ 2^Width = 2 * h
    BY EmuAssumption
  <1> HIDE DEF h
  <1>2. (n + h) % (2 * h) \in 0..(2 * h - 1)
    BY <1>1
  <1>3. ((n + h) % (2 * h)) - h \in -h..(h - 1)
    BY <1>1, <1>2
  <1> QED
    BY <1>1, <1>3 DEF Signed, Ints, h

LEMMA MsecType ==
    ASSUME NEW ms \in Nat
    PROVE  msec_to_samples(ms) \in Ints
  <1>1. Rate * (ms \div Ticks) \in Int /\ Rate * (ms % Ticks) \in Int
    BY Sizes
  <1>2. (Rate * (ms % Ticks)) \div Ticks \in Int
    BY <1>1, Sizes
  <1> QED
    BY <1>1, <1>2, SignedType DEF msec_to_samples

EmuT == [loaded : BOOLEAN, playable : BOOLEAN,
         out_time : Nat, emu_time : Nat, emu_track_ended : BOOLEAN,
         track_ended : BOOLEAN,
         fade_start : Ints, fade_step : {1, FadeStep},
         silence_time : Nat, silence_count : Nat, buf_remain : 0..buf_size,
         buf : Nat, pos : Nat]

LEMMA TrackType ==
    ASSUME track \in Tracks
    PROVE  /\ track.loud \in Seq(BOOLEAN) /\ track.fails \in BOOLEAN
           /\ track.length \in Nat /\ Len(track.loud) \in Nat
  <1>1. \A t \in Tracks : /\ t.loud \in Seq(BOOLEAN) /\ t.fails \in BOOLEAN
                           /\ t.length \in Nat
    BY EmuAssumption, Zenon
  <1> QED
    BY <1>1

\* What no call of the emulator touches.
SameFade(t, e) ==
    /\ t.loaded = e.loaded /\ t.playable = e.playable
    /\ t.fade_start = e.fade_start /\ t.fade_step = e.fade_step

LEMMA EmuPlayFacts ==
    ASSUME NEW e \in EmuT, NEW n \in Nat, track \in Tracks
    PROVE  LET t == emu_play(e, n) IN
           /\ t \in EmuT /\ SameFade(t, e)
           /\ t.out_time = e.out_time /\ t.track_ended = e.track_ended
           /\ t.silence_time = e.silence_time
           /\ t.silence_count = e.silence_count
           /\ t.buf_remain = e.buf_remain /\ t.buf = e.buf
           /\ t.emu_time = e.emu_time + n
           /\ e.emu_track_ended => t.pos = e.pos /\ t.emu_track_ended
           /\ ~e.emu_track_ended =>
                /\ t.pos = e.pos + n
                /\ t.emu_track_ended =>
                     track.fails /\ t.pos > Len(track.loud)
  <1> DEFINE fails == track.fails /\ e.pos + n > Len(track.loud)
             u == [e EXCEPT !.emu_time = e.emu_time + n]
             v == [u EXCEPT !.pos = e.pos + n, !.emu_track_ended = fails]
  <1>1. emu_play(e, n) = IF e.emu_track_ended THEN u ELSE v
    BY DEF emu_play, play_, EmuT
  <1>2. fails \in BOOLEAN
        /\ (fails => track.fails /\ e.pos + n > Len(track.loud))
    OBVIOUS
  <1> HIDE DEF fails
  <1>3. CASE e.emu_track_ended
    BY <1>1, <1>3 DEF EmuT, SameFade
  <1>4. CASE ~e.emu_track_ended
    <2>1. /\ v \in EmuT /\ v.pos = e.pos + n /\ v.emu_track_ended = fails
          /\ v.loaded = e.loaded /\ v.playable = e.playable
          /\ v.fade_start = e.fade_start /\ v.fade_step = e.fade_step
          /\ v.out_time = e.out_time /\ v.track_ended = e.track_ended
          /\ v.silence_time = e.silence_time
          /\ v.silence_count = e.silence_count
          /\ v.buf_remain = e.buf_remain /\ v.buf = e.buf
          /\ v.emu_time = e.emu_time + n
      <3>1. /\ u \in EmuT /\ u.loaded = e.loaded /\ u.playable = e.playable
            /\ u.fade_start = e.fade_start /\ u.fade_step = e.fade_step
            /\ u.out_time = e.out_time /\ u.track_ended = e.track_ended
            /\ u.silence_time = e.silence_time
            /\ u.silence_count = e.silence_count
            /\ u.buf_remain = e.buf_remain /\ u.buf = e.buf
            /\ u.emu_time = e.emu_time + n
        BY DEF EmuT
      <3> DEFINE pos == e.pos + n
      <3>2. pos \in Nat
        BY DEF EmuT
      <3> HIDE DEF u, pos
      <3>3. v = [u EXCEPT !.pos = pos, !.emu_track_ended = fails]
        BY DEF pos
      <3>4. v \in EmuT
        BY <1>2, <3>1, <3>2, <3>3 DEF EmuT
      <3>5. v.pos = pos /\ v.emu_track_ended = fails
        BY <3>1, <3>3 DEF EmuT
      <3>6. /\ v.loaded = u.loaded /\ v.playable = u.playable
            /\ v.fade_start = u.fade_start /\ v.fade_step = u.fade_step
            /\ v.out_time = u.out_time /\ v.track_ended = u.track_ended
            /\ v.silence_time = u.silence_time
            /\ v.silence_count = u.silence_count
            /\ v.buf_remain = u.buf_remain /\ v.buf = u.buf
            /\ v.emu_time = u.emu_time
        BY <3>1, <3>3 DEF EmuT
      <3> HIDE DEF v
      <3> QED
        BY <3>1, <3>4, <3>5, <3>6 DEF pos
    <2>2. emu_play(e, n) = v
      BY <1>1, <1>4
    <2> HIDE DEF v
    <2> QED
      BY <1>2, <1>4, <2>1, <2>2 DEF SameFade
  <1> QED
    BY <1>3, <1>4

LEMMA FillBufFacts ==
    ASSUME NEW e \in EmuT, track \in Tracks
    PROVE  LET t == fill_buf(e) IN
           /\ t \in EmuT /\ SameFade(t, e)
           /\ t.out_time = e.out_time /\ t.track_ended = e.track_ended
           /\ e.emu_track_ended =>
                /\ t.emu_track_ended /\ t.pos = e.pos
                /\ t.silence_count = e.silence_count + buf_size
                /\ t.silence_time = e.silence_time
                /\ t.buf_remain = e.buf_remain /\ t.buf = e.buf
                /\ t.emu_time = e.emu_time
           /\ ~e.emu_track_ended =>
                /\ t.pos = e.pos + buf_size
                /\ t.emu_time = e.emu_time + buf_size
                /\ t.emu_track_ended =>
                     track.fails /\ t.pos > Len(track.loud)
                /\ \/ /\ \A i \in 0..(buf_size - 1) : ~Loud(e.pos + i)
                      /\ t.silence_count = e.silence_count + buf_size
                      /\ t.silence_time = e.silence_time
                      /\ t.buf_remain = e.buf_remain /\ t.buf = e.buf
                   \/ /\ \E i \in 0..(buf_size - 1) : Loud(e.pos + i)
                      /\ t.silence_count = e.silence_count
                      /\ t.buf_remain = buf_size /\ t.buf = e.pos
                      /\ t.emu_time - t.silence_time <= buf_size
  <1> DEFINE p == emu_play(e, buf_size)
             c == count_silence(e.pos, buf_size)
  <1>1. e.pos \in Nat
    BY DEF EmuT
  <1>2. /\ c \in 0..buf_size
        /\ c = buf_size => \A i \in 0..(buf_size - 1) : ~Loud(e.pos + i)
        /\ c < buf_size => \E i \in 0..(buf_size - 1) : Loud(e.pos + i)
    BY <1>1, SilenceFacts, Sizes
  <1>3. /\ p \in EmuT /\ SameFade(p, e)
        /\ p.out_time = e.out_time /\ p.track_ended = e.track_ended
        /\ p.silence_time = e.silence_time
        /\ p.silence_count = e.silence_count
        /\ p.buf_remain = e.buf_remain /\ p.buf = e.buf
        /\ p.emu_time = e.emu_time + buf_size
        /\ ~e.emu_track_ended =>
             /\ p.pos = e.pos + buf_size
             /\ p.emu_track_ended =>
                  track.fails /\ p.pos > Len(track.loud)
    BY EmuPlayFacts, Sizes
  <1>4. fill_buf(e) =
          IF e.emu_track_ended
          THEN [e EXCEPT !.silence_count = e.silence_count + buf_size]
          ELSE IF c = buf_size
          THEN [p EXCEPT !.silence_count = e.silence_count + buf_size]
          ELSE [p EXCEPT !.silence_time = p.emu_time - c,
                         !.buf_remain = buf_size, !.buf = e.pos]
    BY <1>3, Zenon DEF fill_buf
  <1> HIDE DEF p, c
  <1>5. CASE e.emu_track_ended
    BY <1>4, <1>5, Sizes DEF EmuT, SameFade
  <1>6. CASE ~e.emu_track_ended /\ c = buf_size
    <2>1. fill_buf(e) =
            [p EXCEPT !.silence_count = e.silence_count + buf_size]
      BY <1>4, <1>6
    <2> DEFINE t == fill_buf(e)
    <2>2. /\ t \in EmuT /\ SameFade(t, e)
          /\ t.silence_count = e.silence_count + buf_size
      <3>1. e.silence_count + buf_size \in Nat
        BY Sizes DEF EmuT
      <3>2. t \in EmuT /\ t.silence_count = e.silence_count + buf_size
        BY <1>3, <2>1, <3>1 DEF EmuT
      <3>3. SameFade(t, p)
        BY <1>3, <2>1 DEF EmuT, SameFade
      <3> HIDE DEF t
      <3> QED
        BY <1>3, <3>2, <3>3 DEF SameFade
    <2>3. /\ t.out_time = e.out_time /\ t.track_ended = e.track_ended
          /\ t.silence_time = e.silence_time
          /\ t.buf_remain = e.buf_remain /\ t.buf = e.buf
          /\ t.emu_time = e.emu_time + buf_size
          /\ t.pos = e.pos + buf_size
          /\ t.emu_track_ended = p.emu_track_ended
      BY <1>3, <1>6, <2>1 DEF EmuT
    <2> HIDE DEF t
    <2>4. t.emu_track_ended => track.fails /\ t.pos > Len(track.loud)
      BY <1>3, <1>6, <2>3
    <2>5. \A i \in 0..(buf_size - 1) : ~Loud(e.pos + i)
      BY <1>2, <1>6
    <2> QED
      BY <1>6, <2>2, <2>3, <2>4, <2>5 DEF t
  <1>7. CASE ~e.emu_track_ended /\ c # buf_size
    <2>1. fill_buf(e) = [p EXCEPT !.silence_time = p.emu_time - c,
                                  !.buf_remain = buf_size, !.buf = e.pos]
      BY <1>4, <1>7
    <2>2. c \in 0..buf_size /\ e.emu_time \in Nat
          /\ p.emu_time = e.emu_time + buf_size
      BY <1>2, <1>3 DEF EmuT
    <2>3. c < buf_size /\ p.emu_time - c \in Nat
          /\ p.emu_time - (p.emu_time - c) <= buf_size
          /\ buf_size \in 0..buf_size
      BY <1>7, <2>2, Sizes
    <2> DEFINE s == p.emu_time - c
               t == fill_buf(e)
    <2>4. s \in Nat /\ p.emu_time - s <= buf_size
      BY <2>3
    <2> HIDE DEF s
    <2>5. t = [p EXCEPT !.silence_time = s, !.buf_remain = buf_size,
                        !.buf = e.pos]
      BY <2>1 DEF s
    <2>6. /\ t \in EmuT /\ SameFade(t, e)
          /\ t.silence_time = s /\ t.buf_remain = buf_size /\ t.buf = e.pos
      BY <1>1, <1>3, <2>3, <2>4, <2>5 DEF EmuT, SameFade
    <2>7. /\ t.out_time = e.out_time /\ t.track_ended = e.track_ended
          /\ t.silence_count = e.silence_count
          /\ t.emu_time = e.emu_time + buf_size /\ t.emu_time = p.emu_time
          /\ t.pos = e.pos + buf_size
          /\ t.emu_track_ended = p.emu_track_ended
      BY <1>3, <1>7, <2>5 DEF EmuT
    <2> HIDE DEF t
    <2>8. t.emu_track_ended => track.fails /\ t.pos > Len(track.loud)
      BY <1>3, <1>7, <2>7
    <2>9. \E i \in 0..(buf_size - 1) : Loud(e.pos + i)
      BY <1>2, <2>3
    <2>10. t.emu_time - t.silence_time <= buf_size
      BY <2>4, <2>6, <2>7
    <2> QED
      BY <1>7, <2>6, <2>7, <2>8, <2>9, <2>10 DEF t
  <1> QED
    BY <1>5, <1>6, <1>7

LEMMA SkipFacts ==
    ASSUME NEW e \in EmuT, NEW count \in Nat, track \in Tracks
    PROVE  LET t == skip(e, count) IN
           /\ t \in EmuT /\ SameFade(t, e)
           /\ t.out_time = e.out_time + count
           /\ t.silence_time = e.silence_time /\ t.buf = e.buf
           /\ e.track_ended => t.track_ended
           /\ t.track_ended => e.track_ended \/ t.emu_track_ended
           /\ e.emu_track_ended => t.emu_track_ended /\ t.pos = e.pos
           /\ \E n, m, rest \in Nat :
                /\ n + m + rest = count
                /\ t.silence_count = e.silence_count - n
                /\ t.buf_remain = e.buf_remain - m
                /\ m > 0 => n = e.silence_count
                /\ rest > 0 => n = e.silence_count /\ m = e.buf_remain
                /\ rest > 0 /\ e.emu_track_ended => t.track_ended
                /\ \/ /\ rest = 0 \/ e.emu_track_ended
                      /\ t.pos = e.pos /\ t.emu_time = e.emu_time
                      /\ t.emu_track_ended <=> e.emu_track_ended
                   \/ /\ rest > 0
                      /\ t.pos = e.pos + rest
                      /\ t.emu_time = e.emu_time + rest
                      /\ t.emu_track_ended =>
                           track.fails /\ t.pos > Len(track.loud)
  <1> DEFINE n == Min({count, e.silence_count})
             m == Min({count - n, e.buf_remain})
             rest == count - n - m
             a == [e EXCEPT !.out_time = e.out_time + count,
                            !.silence_count = e.silence_count - n,
                            !.buf_remain = e.buf_remain - m]
             u == IF rest > 0 /\ ~e.emu_track_ended
                  THEN emu_play(a, rest) ELSE a
             over == \/ u.track_ended
                     \/ /\ u.emu_track_ended
                        /\ u.silence_count + u.buf_remain = 0
             t == skip(e, count)
  <1>1. e.silence_count \in Nat /\ e.buf_remain \in Nat
        /\ e.buf_remain <= buf_size /\ e.out_time \in Nat
    BY Sizes DEF EmuT
  <1>2. /\ n \in Nat /\ n <= count /\ n <= e.silence_count
        /\ n = count \/ n = e.silence_count
    BY <1>1, MinOfTwo
  <1>3. count - n \in Nat
    BY <1>2
  <1>4. /\ m \in Nat /\ m <= count - n /\ m <= e.buf_remain
        /\ m = count - n \/ m = e.buf_remain
    <2> HIDE DEF n
    <2> QED
      BY <1>1, <1>3, MinOfTwo
  <1>5. t = [u EXCEPT !.track_ended = over]
    BY Zenon DEF skip
  <1> HIDE DEF n, m
  <1>6. rest \in Nat /\ n + m + rest = count
        /\ e.out_time + count \in Nat /\ e.silence_count - n \in Nat
        /\ e.buf_remain - m \in 0..buf_size
        /\ (m > 0 => n = e.silence_count)
        /\ (rest > 0 => n = e.silence_count /\ m = e.buf_remain)
    BY <1>1, <1>2, <1>3, <1>4, Sizes
  <1> HIDE DEF rest
  <1>7. /\ a \in EmuT
        /\ a.out_time = e.out_time + count
        /\ a.silence_count = e.silence_count - n
        /\ a.buf_remain = e.buf_remain - m
    BY <1>6 DEF EmuT
  <1>8. /\ SameFade(a, e)
        /\ a.silence_time = e.silence_time /\ a.buf = e.buf
        /\ a.track_ended = e.track_ended
        /\ a.emu_track_ended = e.emu_track_ended
        /\ a.pos = e.pos /\ a.emu_time = e.emu_time
    BY DEF EmuT, SameFade
  <1> HIDE DEF a
  <1>9. /\ u \in EmuT /\ SameFade(u, a)
        /\ u.out_time = a.out_time /\ u.track_ended = a.track_ended
        /\ u.silence_time = a.silence_time
        /\ u.silence_count = a.silence_count
        /\ u.buf_remain = a.buf_remain /\ u.buf = a.buf
    <2>1. CASE rest > 0 /\ ~e.emu_track_ended
      BY <1>6, <1>7, <2>1, EmuPlayFacts
    <2>2. CASE ~(rest > 0 /\ ~e.emu_track_ended)
      BY <1>7, <2>2 DEF SameFade
    <2> QED
      BY <2>1, <2>2
  <1>10. \/ /\ rest = 0 \/ e.emu_track_ended
            /\ u.pos = a.pos /\ u.emu_time = a.emu_time
            /\ u.emu_track_ended <=> a.emu_track_ended
         \/ /\ rest > 0 /\ ~e.emu_track_ended
            /\ u.pos = a.pos + rest
            /\ u.emu_time = a.emu_time + rest
            /\ u.emu_track_ended =>
                 track.fails /\ u.pos > Len(track.loud)
    <2>1. CASE rest > 0 /\ ~e.emu_track_ended
      BY <1>6, <1>7, <1>8, <2>1, EmuPlayFacts
    <2>2. CASE ~(rest > 0 /\ ~e.emu_track_ended)
      BY <1>6, <2>2
    <2> QED
      BY <2>1, <2>2
  <1>11. over \in BOOLEAN
         /\ (over <=> \/ u.track_ended
                      \/ /\ u.emu_track_ended
                         /\ u.silence_count + u.buf_remain = 0)
    OBVIOUS
  <1> HIDE DEF u, over
  <1>12. /\ t \in EmuT /\ t.track_ended = over
    BY <1>5, <1>9, <1>11 DEF EmuT
  <1>13. /\ SameFade(t, u)
         /\ t.out_time = u.out_time
         /\ t.silence_time = u.silence_time
         /\ t.silence_count = u.silence_count
         /\ t.buf_remain = u.buf_remain /\ t.buf = u.buf
         /\ t.pos = u.pos /\ t.emu_time = u.emu_time
         /\ t.emu_track_ended = u.emu_track_ended
    BY <1>5, <1>9 DEF EmuT, SameFade
  <1> HIDE DEF t
  <1>14. SameFade(t, e)
    BY <1>8, <1>9, <1>13 DEF SameFade
  <1>15. rest > 0 => e.silence_count - n = 0 /\ e.buf_remain - m = 0
    BY <1>1, <1>6
  <1>16. /\ e.track_ended => t.track_ended
         /\ t.track_ended => e.track_ended \/ t.emu_track_ended
         /\ rest > 0 /\ e.emu_track_ended => t.track_ended
    BY <1>7, <1>8, <1>9, <1>10, <1>11, <1>12, <1>13, <1>15
  <1>17. e.emu_track_ended => t.emu_track_ended /\ t.pos = e.pos
    BY <1>8, <1>10, <1>13
  <1>18. \/ /\ rest = 0 \/ e.emu_track_ended
            /\ t.pos = e.pos /\ t.emu_time = e.emu_time
            /\ t.emu_track_ended <=> e.emu_track_ended
         \/ /\ rest > 0
            /\ t.pos = e.pos + rest
            /\ t.emu_time = e.emu_time + rest
            /\ t.emu_track_ended =>
                 track.fails /\ t.pos > Len(track.loud)
    BY <1>8, <1>10, <1>13
  <1>19. /\ t.silence_count = e.silence_count - n
         /\ t.buf_remain = e.buf_remain - m
         /\ t.out_time = e.out_time + count
         /\ t.silence_time = e.silence_time /\ t.buf = e.buf
    BY <1>7, <1>8, <1>9, <1>13
  <1>20. \E n0, m0, rest0 \in Nat :
                /\ n0 + m0 + rest0 = count
                /\ t.silence_count = e.silence_count - n0
                /\ t.buf_remain = e.buf_remain - m0
                /\ m0 > 0 => n0 = e.silence_count
                /\ rest0 > 0 => n0 = e.silence_count /\ m0 = e.buf_remain
                /\ rest0 > 0 /\ e.emu_track_ended => t.track_ended
                /\ \/ /\ rest0 = 0 \/ e.emu_track_ended
                      /\ t.pos = e.pos /\ t.emu_time = e.emu_time
                      /\ t.emu_track_ended <=> e.emu_track_ended
                   \/ /\ rest0 > 0
                      /\ t.pos = e.pos + rest0
                      /\ t.emu_time = e.emu_time + rest0
                      /\ t.emu_track_ended =>
                           track.fails /\ t.pos > Len(track.loud)
    BY <1>2, <1>4, <1>6, <1>16, <1>18, <1>19
  <1> QED
    BY <1>12, <1>14, <1>16, <1>17, <1>19, <1>20 DEF t

\* What setting the fade does not touch.
SameSound(t, e) ==
    /\ t.loaded = e.loaded /\ t.playable = e.playable
    /\ t.out_time = e.out_time /\ t.emu_time = e.emu_time
    /\ t.emu_track_ended = e.emu_track_ended
    /\ t.track_ended = e.track_ended
    /\ t.silence_time = e.silence_time
    /\ t.silence_count = e.silence_count
    /\ t.buf_remain = e.buf_remain /\ t.buf = e.buf /\ t.pos = e.pos

LEMMA SetFadeFacts ==
    ASSUME NEW e \in EmuT, NEW ms \in Nat
    PROVE  set_fade(e, ms) \in EmuT /\ SameSound(set_fade(e, ms), e)
  <1> DEFINE f == msec_to_samples(ms)
  <1>1. f \in Ints
    BY MsecType
  <1> HIDE DEF f
  <1>2. set_fade(e, ms) = [e EXCEPT !.fade_step = FadeStep, !.fade_start = f]
    BY DEF set_fade, f
  <1>3. set_fade(e, ms) \in EmuT
    BY <1>1, <1>2 DEF EmuT
  <1>4. SameSound(set_fade(e, ms), e)
    BY <1>2 DEF EmuT, SameSound
  <1> QED
    BY <1>3, <1>4

LEMMA ClearedFacts ==
    ASSUME NEW e \in EmuT
    PROVE  LET t == Cleared(e) IN
           /\ t \in EmuT /\ t.loaded = e.loaded /\ t.playable = e.playable
           /\ t.out_time = 0 /\ t.emu_time = 0 /\ t.pos = 0
           /\ t.emu_track_ended /\ t.track_ended
           /\ t.buf_remain = 0 /\ t.silence_count = 0
  <1> DEFINE half == 2^(Width - 2)
  <1>1. half \in Ints
    BY EmuAssumption DEF Ints
  <1> HIDE DEF half
  <1>2. Cleared(e) =
          [e EXCEPT !.out_time = 0, !.emu_time = 0, !.emu_track_ended = TRUE,
                    !.track_ended = TRUE, !.fade_start = half,
                    !.fade_step = 1, !.silence_time = 0,
                    !.silence_count = 0, !.buf_remain = 0, !.pos = 0]
    BY DEF Cleared, half
  <1>3. 0 \in 0..buf_size
    BY Sizes
  <1>4. Cleared(e) \in EmuT
    <2> DEFINE yes == TRUE
    <2>1. yes \in BOOLEAN
      OBVIOUS
    <2> DEFINE x == [e EXCEPT !.emu_track_ended = yes]
               y == [x EXCEPT !.track_ended = yes]
               z == [y EXCEPT !.out_time = 0, !.emu_time = 0,
                              !.silence_time = 0, !.silence_count = 0,
                              !.pos = 0]
    <2>2. Cleared(e) = [z EXCEPT !.fade_start = half, !.fade_step = 1,
                                 !.buf_remain = 0]
      BY <1>2 DEF EmuT
    <2> HIDE DEF yes
    <2>3. x \in EmuT
      BY <2>1 DEF EmuT
    <2> HIDE DEF x
    <2>4. y \in EmuT
      BY <2>1, <2>3 DEF EmuT
    <2> HIDE DEF y
    <2>5. z \in EmuT
      BY <2>4 DEF EmuT
    <2> HIDE DEF z
    <2> QED
      BY <1>1, <1>3, <2>2, <2>5 DEF EmuT
  <1>5. /\ Cleared(e).loaded = e.loaded /\ Cleared(e).playable = e.playable
        /\ Cleared(e).out_time = 0 /\ Cleared(e).emu_time = 0
        /\ Cleared(e).pos = 0 /\ Cleared(e).buf_remain = 0
        /\ Cleared(e).silence_count = 0
    BY <1>2 DEF EmuT
  <1>6. Cleared(e).emu_track_ended /\ Cleared(e).track_ended
    BY <1>2 DEF EmuT
  <1> QED
    BY <1>4, <1>5, <1>6

LEMMA StartTrackFacts ==
    ASSUME NEW e \in EmuT
    PROVE  LET t == start_track(e) IN
           /\ t \in EmuT /\ t.loaded = e.loaded /\ t.playable = e.playable
           /\ t.emu_time = 0 /\ t.pos = 0 /\ t.buf_remain = 0
           /\ ~t.emu_track_ended /\ ~t.track_ended
  <1> DEFINE c == Cleared(e)
  <1>1. /\ c \in EmuT /\ c.loaded = e.loaded /\ c.playable = e.playable
        /\ c.emu_time = 0 /\ c.pos = 0 /\ c.buf_remain = 0
    BY ClearedFacts
  <1> HIDE DEF c
  <1>2. start_track(e) = [c EXCEPT !.emu_track_ended = FALSE,
                                   !.track_ended = FALSE]
    BY DEF start_track, c
  <1> QED
    BY <1>1, <1>2 DEF EmuT

LEMMA DeletedFacts ==
    ASSUME NEW e \in EmuT
    PROVE  LET t == Deleted(e) IN
           /\ t \in EmuT /\ ~t.loaded /\ ~t.playable
           /\ t.emu_track_ended /\ t.track_ended
  <1> DEFINE c == Cleared(e)
  <1>1. /\ c \in EmuT /\ c.emu_track_ended /\ c.track_ended
    BY ClearedFacts
  <1> HIDE DEF c
  <1>2. Deleted(e) = [c EXCEPT !.loaded = FALSE, !.playable = FALSE, !.buf = 0]
    BY DEF Deleted, c
  <1>3. Deleted(e) \in EmuT
    <2> DEFINE no == FALSE
    <2>1. no \in BOOLEAN
      OBVIOUS
    <2> DEFINE x == [c EXCEPT !.loaded = no]
               y == [x EXCEPT !.playable = no]
    <2>2. Deleted(e) = [y EXCEPT !.buf = 0]
      BY <1>1, <1>2 DEF EmuT
    <2> HIDE DEF no
    <2>3. x \in EmuT
      BY <1>1, <2>1 DEF EmuT
    <2> HIDE DEF x
    <2>4. y \in EmuT
      BY <2>1, <2>3 DEF EmuT
    <2> HIDE DEF y
    <2> QED
      BY <2>2, <2>4 DEF EmuT
  <1>4. ~Deleted(e).loaded /\ ~Deleted(e).playable
    BY <1>1, <1>2 DEF EmuT
  <1>5. Deleted(e).emu_track_ended /\ Deleted(e).track_ended
    BY <1>1, <1>2 DEF EmuT
  <1> QED
    BY <1>3, <1>4, <1>5

-----------------------------------------------------------------------------
(***************************************************************************)
(* The frames start_track drops.                                           *)
(***************************************************************************)
\* The first k blocks are silent, and the last of them is begun in time.
Lead(k) ==
    \A j \in 0..(k - 1) :
      /\ j * buf_size < InitialMax
      /\ \A i \in 0..(buf_size - 1) : ~Loud(j * buf_size + i)

LEMMA Products ==
    ASSUME NEW j \in Nat
    PROVE  /\ j * buf_size \in Nat /\ j <= j * buf_size
           /\ (j + 1) * buf_size = j * buf_size + buf_size
           /\ \A k \in Nat : j <= k => j * buf_size <= k * buf_size
  <1> DEFINE b == buf_size
  <1>1. b \in Nat /\ b > 0
    BY Sizes
  <1> HIDE DEF b
  <1>2. j * b \in Nat /\ (j + 1) * b = j * b + b
    BY <1>1, SMT
  <1>3. j <= j * b
    BY <1>1, SMT
  <1>4. \A k \in Nat : j <= k => j * b <= k * b
    <2> SUFFICES ASSUME NEW k \in Nat, j <= k PROVE j * b <= k * b
      OBVIOUS
    <2>1. PICK d \in Nat : k = j + d
      <3>1. k - j \in Nat /\ k = j + (k - j)
        OBVIOUS
      <3> QED
        BY <3>1
    <2>2. (j + d) * b = j * b + d * b /\ d * b \in Nat /\ j * b \in Nat
      BY <1>1, SMT
    <2> QED
      BY <2>1, <2>2
  <1> QED
    BY <1>2, <1>3, <1>4 DEF b

LEMMA DroppedFacts ==
    /\ Dropped \in Nat
    /\ \A k \in Nat : Lead(k) => k * buf_size <= Dropped
    /\ \A k \in Nat :
         /\ Lead(k)
         /\ \/ k * buf_size >= InitialMax
            \/ \E i \in 0..(buf_size - 1) : Loud(k * buf_size + i)
         => k * buf_size = Dropped
  <1> DEFINE S == {k \in 0..InitialMax :
                     \/ k * buf_size >= InitialMax
                     \/ \E i \in 0..(buf_size - 1) : Loud(k * buf_size + i)}
             m == Min(S)
  <1>1. InitialMax \in S
    BY Sizes, Products
  <1>2. m \in S /\ \A x \in S : m <= x
    <2>1. S \in SUBSET Nat /\ S # {}
      <3>1. S \subseteq 0..InitialMax /\ 0..InitialMax \subseteq Nat
        BY Sizes
      <3> QED
        BY <1>1, <3>1
    <2> HIDE DEF S
    <2> QED
      BY <2>1, MinExists
  <1>3. Dropped = buf_size * m
    BY Zenon DEF Dropped
  <1>4. m \in Nat
    BY <1>2, Sizes
  <1> HIDE DEF m
  <1>5. Dropped = m * buf_size
    BY <1>3, <1>4, Sizes
  <1>6. ASSUME NEW k \in Nat, Lead(k)
        PROVE  k <= m
    <2> SUFFICES ASSUME m < k PROVE FALSE
      BY <1>4
    <2>1. m \in 0..(k - 1)
      BY <1>4
    <2>2. /\ m * buf_size < InitialMax
          /\ \A i \in 0..(buf_size - 1) : ~Loud(m * buf_size + i)
      BY <1>6, <2>1 DEF Lead
    <2>3. ~(m * buf_size >= InitialMax)
      BY <1>4, <2>2, Products, Sizes
    <2> QED
      BY <1>2, <2>2, <2>3
  <1>7. ASSUME NEW k \in Nat, Lead(k),
               \/ k * buf_size >= InitialMax
               \/ \E i \in 0..(buf_size - 1) : Loud(k * buf_size + i)
        PROVE  k = m
    <2>1. k <= InitialMax
      <3>1. CASE k = 0
        BY <3>1, Sizes
      <3>2. CASE k # 0
        <4>1. k - 1 \in Nat /\ k - 1 \in 0..(k - 1)
          BY <3>2
        <4>2. (k - 1) * buf_size < InitialMax
          BY <1>7, <4>1 DEF Lead
        <4>3. k - 1 <= (k - 1) * buf_size /\ (k - 1) * buf_size \in Nat
          BY <4>1, Products
        <4> QED
          BY <4>2, <4>3, Sizes
      <3> QED
        BY <3>1, <3>2
    <2>2. k \in S
      BY <1>7, <2>1, Sizes
    <2>3. m <= k
      BY <1>2, <2>2
    <2> QED
      BY <1>4, <1>6, <1>7, <2>3
  <1> HIDE DEF S
  <1> QED
    BY <1>4, <1>5, <1>6, <1>7, Products

-----------------------------------------------------------------------------
(***************************************************************************)
(* A track that plays, at the time out.  Its silence is that of the track, *)
(* its buffer holds the frames that follow, and the emulator is behind     *)
(* them, unless it has failed: then there is nothing but silence.          *)
(***************************************************************************)
Failed(e) == track.fails /\ e.pos > Len(track.loud)

Ahead(e, out) == Dropped + out + e.silence_count + e.buf_remain

InStep(e, out) ==
    /\ e.pos <= Ahead(e, out)
    /\ ~e.emu_track_ended =>
         /\ e.pos = Ahead(e, out)
         /\ e.emu_time = out + e.silence_count + e.buf_remain

SilentAhead(e, out) ==
    \A i \in 0..(e.silence_count - 1) : ~Loud(Dropped + out + i)

Buffered(e, out) ==
    e.buf_remain > 0 => /\ e.buf + buf_size = Ahead(e, out)
                        /\ e.emu_time - e.silence_time <= buf_size

Live(e, out) ==
    ~e.track_ended =>
      /\ e.emu_track_ended => Failed(e)
      /\ InStep(e, out) /\ SilentAhead(e, out) /\ Buffered(e, out)

LEMMA FailedIsSilent ==
    ASSUME track \in Tracks, NEW e \in EmuT, Failed(e),
           NEW p \in Nat, p >= e.pos
    PROVE  ~Loud(p)
  <1>1. Len(track.loud) \in Nat /\ e.pos \in Nat
    BY TrackType DEF EmuT
  <1>2. ~(p < Len(track.loud)) /\ track.fails
    BY <1>1 DEF Failed
  <1> QED
    BY <1>2 DEF Loud

LEMMA LiveFillBuf ==
    ASSUME track \in Tracks, NEW e \in EmuT, NEW out \in Nat, Live(e, out),
           e.buf_remain = 0, ~e.emu_track_ended, ~e.track_ended
    PROVE  Live(fill_buf(e), out)
  <1> DEFINE t == fill_buf(e)
  <1>1. /\ t \in EmuT
        /\ t.track_ended = e.track_ended
        /\ t.pos = e.pos + buf_size
        /\ t.emu_time = e.emu_time + buf_size
        /\ t.emu_track_ended => track.fails /\ t.pos > Len(track.loud)
        /\ \/ /\ \A i \in 0..(buf_size - 1) : ~Loud(e.pos + i)
              /\ t.silence_count = e.silence_count + buf_size
              /\ t.buf_remain = e.buf_remain
           \/ /\ t.silence_count = e.silence_count
              /\ t.buf_remain = buf_size /\ t.buf = e.pos
              /\ t.emu_time - t.silence_time <= buf_size
    BY FillBufFacts
  <1> HIDE DEF t
  <1>2. /\ e.pos = Dropped + out + e.silence_count
        /\ e.emu_time = out + e.silence_count
        /\ \A i \in 0..(e.silence_count - 1) : ~Loud(Dropped + out + i)
        /\ Dropped \in Nat /\ e.silence_count \in Nat
        /\ buf_size \in Nat /\ buf_size > 0
    BY DroppedFacts, Sizes DEF Live, InStep, Ahead, SilentAhead, EmuT
  <1>3. InStep(t, out)
    BY <1>1, <1>2 DEF InStep, Ahead
  <1>4. SilentAhead(t, out)
    <2>1. CASE t.silence_count = e.silence_count
      BY <1>2, <2>1 DEF SilentAhead
    <2>2. CASE /\ \A i \in 0..(buf_size - 1) : ~Loud(e.pos + i)
               /\ t.silence_count = e.silence_count + buf_size
      <3> SUFFICES ASSUME NEW i \in 0..(t.silence_count - 1)
                   PROVE  ~Loud(Dropped + out + i)
        BY DEF SilentAhead
      <3>1. CASE i < e.silence_count
        BY <1>2, <3>1
      <3>2. CASE i >= e.silence_count
        <4>1. i - e.silence_count \in 0..(buf_size - 1)
          BY <1>2, <2>2, <3>2
        <4>2. e.pos + (i - e.silence_count) = Dropped + out + i
          BY <1>2
        <4> QED
          BY <2>2, <4>1, <4>2
      <3> QED
        BY <1>2, <3>1, <3>2
    <2> QED
      BY <1>1, <2>1, <2>2
  <1>5. Buffered(t, out)
    BY <1>1, <1>2 DEF Buffered, Ahead
  <1>6. t.emu_track_ended => Failed(t)
    BY <1>1 DEF Failed
  <1> QED
    BY <1>3, <1>4, <1>5, <1>6 DEF Live, t

LEMMA LiveSkip ==
    ASSUME track \in Tracks, NEW e \in EmuT, NEW count \in Nat,
           Live(e, e.out_time)
    PROVE  Live(skip(e, count), e.out_time + count)
  <1> DEFINE t == skip(e, count)
             out == e.out_time
  <1>1. /\ t \in EmuT
        /\ e.track_ended => t.track_ended
        /\ t.silence_time = e.silence_time /\ t.buf = e.buf
    BY SkipFacts
  <1>2. PICK n, m, rest \in Nat :
                /\ n + m + rest = count
                /\ t.silence_count = e.silence_count - n
                /\ t.buf_remain = e.buf_remain - m
                /\ m > 0 => n = e.silence_count
                /\ rest > 0 => n = e.silence_count /\ m = e.buf_remain
                /\ rest > 0 /\ e.emu_track_ended => t.track_ended
                /\ \/ /\ rest = 0 \/ e.emu_track_ended
                      /\ t.pos = e.pos /\ t.emu_time = e.emu_time
                      /\ t.emu_track_ended <=> e.emu_track_ended
                   \/ /\ rest > 0
                      /\ t.pos = e.pos + rest
                      /\ t.emu_time = e.emu_time + rest
                      /\ t.emu_track_ended =>
                           track.fails /\ t.pos > Len(track.loud)
    BY SkipFacts
  <1> HIDE DEF t
  <1> SUFFICES ASSUME ~t.track_ended
               PROVE  /\ t.emu_track_ended => Failed(t)
                      /\ InStep(t, out + count) /\ SilentAhead(t, out + count)
                      /\ Buffered(t, out + count)
    BY DEF Live, t
  <1>3. /\ e.emu_track_ended => Failed(e)
        /\ InStep(e, out) /\ SilentAhead(e, out) /\ Buffered(e, out)
    BY <1>1 DEF Live
  <1>4. /\ out \in Nat /\ Dropped \in Nat /\ e.silence_count \in Nat
        /\ e.buf_remain \in Nat /\ e.pos \in Nat /\ e.emu_time \in Nat
        /\ e.silence_time \in Nat /\ e.buf \in Nat
        /\ t.silence_count \in Nat /\ t.buf_remain \in Nat
    BY <1>1, DroppedFacts, Sizes DEF EmuT
  <1> HIDE DEF out
  <1>5. \/ /\ rest = 0 /\ t.pos = e.pos /\ t.emu_time = e.emu_time
           /\ t.emu_track_ended <=> e.emu_track_ended
        \/ /\ rest > 0
           /\ t.pos = e.pos + rest /\ t.emu_time = e.emu_time + rest
           /\ ~e.emu_track_ended
           /\ t.emu_track_ended => track.fails /\ t.pos > Len(track.loud)
    BY <1>2
  <1>6. t.emu_track_ended => Failed(t)
    BY <1>3, <1>5 DEF Failed
  <1>7. InStep(t, out + count)
    <2>0. /\ n + m + rest = count
          /\ t.silence_count = e.silence_count - n
          /\ t.buf_remain = e.buf_remain - m
      BY <1>2
    <2>1. Ahead(t, out + count) = Ahead(e, out) + rest
      BY <1>4, <2>0 DEF Ahead
    <2>2. Ahead(e, out) \in Nat
      BY <1>4 DEF Ahead
    <2>3. t.pos <= Ahead(t, out + count)
      BY <1>3, <1>4, <1>5, <2>1, <2>2 DEF InStep
    <2>4. ASSUME ~t.emu_track_ended
          PROVE  /\ t.pos = Ahead(t, out + count)
                 /\ t.emu_time = out + count + t.silence_count + t.buf_remain
      <3>1. ~e.emu_track_ended
        BY <1>5, <2>4
      <3>2. e.pos = Ahead(e, out)
            /\ e.emu_time = out + e.silence_count + e.buf_remain
        BY <1>3, <3>1 DEF InStep
      <3>3. t.pos = e.pos + rest /\ t.emu_time = e.emu_time + rest
        BY <1>4, <1>5
      <3>4. t.emu_time = out + count + t.silence_count + t.buf_remain
        BY <1>4, <2>0, <3>2, <3>3
      <3> QED
        BY <2>1, <3>2, <3>3, <3>4
    <2> QED
      BY <2>3, <2>4 DEF InStep
  <1>8. SilentAhead(t, out + count)
    <2> SUFFICES ASSUME NEW i \in 0..(t.silence_count - 1)
                 PROVE  ~Loud(Dropped + (out + count) + i)
      BY DEF SilentAhead
    <2>1. n = count
      BY <1>2, <1>4
    <2>2. /\ n + i \in 0..(e.silence_count - 1)
          /\ Dropped + (out + count) + i = Dropped + out + (n + i)
      BY <1>2, <1>4, <2>1
    <2> QED
      BY <1>3, <2>2 DEF SilentAhead
  <1>9. Buffered(t, out + count)
    <2> SUFFICES ASSUME t.buf_remain > 0
                 PROVE  /\ t.buf + buf_size = Ahead(t, out + count)
                        /\ t.emu_time - t.silence_time <= buf_size
      BY DEF Buffered
    <2>1. rest = 0 /\ e.buf_remain > 0
      BY <1>2, <1>4
    <2>2. t.emu_time = e.emu_time
      BY <1>5, <2>1
    <2>3. Ahead(t, out + count) = Ahead(e, out)
      BY <1>2, <1>4, <2>1 DEF Ahead
    <2> QED
      BY <1>1, <1>3, <2>1, <2>2, <2>3 DEF Buffered
  <1> QED
    BY <1>6, <1>7, <1>8, <1>9

-----------------------------------------------------------------------------
(***************************************************************************)
(* The parts of play.                                                      *)
(***************************************************************************)
\* What the two operators below leave alone.
SameTime(t, e) ==
    /\ t.out_time = e.out_time /\ t.emu_time = e.emu_time
    /\ t.silence_time = e.silence_time /\ t.buf = e.buf /\ t.pos = e.pos

LEMMA QuietFacts ==
    ASSUME NEW e \in EmuT, NEW n \in Nat, n <= e.silence_count
    PROVE  LET t == Quiet(e, n)
               ends == /\ e.silence_count > 0
                       /\ e.emu_time - e.silence_time > SilenceMax
           IN  /\ t \in EmuT /\ SameFade(t, e) /\ SameTime(t, e)
               /\ ends => /\ t.track_ended /\ t.emu_track_ended
                          /\ t.silence_count = 0 /\ t.buf_remain = 0
               /\ ~ends => /\ t.track_ended = e.track_ended
                           /\ t.emu_track_ended = e.emu_track_ended
                           /\ t.silence_count = e.silence_count - n
                           /\ t.buf_remain = e.buf_remain
  <1> DEFINE ends == /\ e.silence_count > 0
                     /\ e.emu_time - e.silence_time > SilenceMax
             yes == TRUE
             u == [e EXCEPT !.silence_count = e.silence_count - n]
             v == [u EXCEPT !.track_ended = yes]
             w == [v EXCEPT !.emu_track_ended = yes]
             x == [w EXCEPT !.silence_count = 0, !.buf_remain = 0]
  <1>1. Quiet(e, n) = IF ends THEN x ELSE u
    BY DEF Quiet, EmuT
  <1>2. yes \in BOOLEAN /\ yes
    OBVIOUS
  <1> HIDE DEF ends, yes
  <1>3. e.silence_count - n \in Nat
    BY DEF EmuT
  <1>4. /\ u \in EmuT /\ SameFade(u, e) /\ SameTime(u, e)
        /\ u.track_ended = e.track_ended
        /\ u.emu_track_ended = e.emu_track_ended
        /\ u.silence_count = e.silence_count - n
        /\ u.buf_remain = e.buf_remain
    BY <1>3 DEF EmuT, SameFade, SameTime
  <1> HIDE DEF u
  <1>5. v \in EmuT /\ SameFade(v, u) /\ SameTime(v, u) /\ v.track_ended = yes
    BY <1>2, <1>4 DEF EmuT, SameFade, SameTime
  <1> HIDE DEF v
  <1>6. /\ w \in EmuT /\ SameFade(w, v) /\ SameTime(w, v)
        /\ w.track_ended = v.track_ended /\ w.emu_track_ended = yes
    BY <1>2, <1>5 DEF EmuT, SameFade, SameTime
  <1> HIDE DEF w
  <1>7. 0 \in 0..buf_size
    BY Sizes
  <1>8. /\ x \in EmuT /\ SameFade(x, w) /\ SameTime(x, w)
        /\ x.silence_count = 0 /\ x.buf_remain = 0
    BY <1>6, <1>7 DEF EmuT, SameFade, SameTime
  <1>9. x.track_ended = w.track_ended /\ x.emu_track_ended = w.emu_track_ended
    BY <1>6 DEF EmuT
  <1> HIDE DEF x
  <1>10. SameFade(x, e) /\ SameTime(x, e) /\ x.track_ended /\ x.emu_track_ended
    BY <1>2, <1>4, <1>5, <1>6, <1>8, <1>9 DEF SameFade, SameTime
  <1>11. CASE ends
    BY <1>1, <1>8, <1>10, <1>11 DEF ends
  <1>12. CASE ~ends
    BY <1>1, <1>4, <1>12 DEF ends
  <1> QED
    BY <1>11, <1>12

LEMMA GeneratedFacts ==
    ASSUME NEW e \in EmuT, NEW n \in Nat, n > 0, track \in Tracks
    PROVE  LET t == Generated(e, n) IN
           /\ t \in EmuT /\ SameFade(t, e) /\ t.out_time = e.out_time
           /\ \/ /\ t.track_ended /\ t.emu_track_ended
                 /\ \/ e.emu_track_ended /\ t.pos = e.pos
                    \/ Failed(t)
              \/ /\ ~e.emu_track_ended
                 /\ \E u \in EmuT :
                      /\ ~u.emu_track_ended /\ u.track_ended = e.track_ended
                      /\ u.pos = e.pos + n /\ u.emu_time = e.emu_time + n
                      /\ u.silence_count = e.silence_count
                      /\ u.buf_remain = e.buf_remain
                      /\ t = u \/ t = fill_buf(u)
  <1> DEFINE p == emu_play(e, n)
             c == IF e.emu_track_ended THEN n ELSE count_silence(e.pos, n)
             over == p.track_ended \/ p.emu_track_ended
             s == IF c < n THEN p.emu_time - c ELSE p.silence_time
             v == [p EXCEPT !.track_ended = over]
             u == [v EXCEPT !.silence_time = s]
             t == Generated(e, n)
  <1>1. /\ p \in EmuT /\ SameFade(p, e)
        /\ p.out_time = e.out_time /\ p.track_ended = e.track_ended
        /\ p.silence_count = e.silence_count
        /\ p.buf_remain = e.buf_remain
        /\ p.emu_time = e.emu_time + n
        /\ e.emu_track_ended => p.pos = e.pos /\ p.emu_track_ended
        /\ ~e.emu_track_ended =>
             /\ p.pos = e.pos + n
             /\ p.emu_track_ended =>
                  track.fails /\ p.pos > Len(track.loud)
    BY EmuPlayFacts
  <1>2. c \in 0..n
    <2>1. e.pos \in Nat
      BY DEF EmuT
    <2>2. count_silence(e.pos, n) \in 0..n
      BY <2>1, SilenceFacts
    <2> QED
      BY <2>2
  <1>3. t = IF u.emu_time - u.silence_time >= buf_size THEN fill_buf(u) ELSE u
    <2>1. u = [p EXCEPT !.track_ended = over, !.silence_time = s]
      BY <1>1 DEF EmuT
    <2> QED
      BY <2>1 DEF Generated
  <1> HIDE DEF p, c
  <1>4. s \in Nat
    BY <1>1, <1>2 DEF EmuT
  <1>5. over \in BOOLEAN /\ (over <=> p.track_ended \/ p.emu_track_ended)
    OBVIOUS
  <1> HIDE DEF s, over
  <1>6. v \in EmuT /\ v.track_ended = over
    BY <1>1, <1>5 DEF EmuT
  <1>7. /\ SameFade(v, p) /\ SameTime(v, p)
        /\ v.emu_track_ended = p.emu_track_ended
        /\ v.silence_count = p.silence_count /\ v.buf_remain = p.buf_remain
    BY <1>1 DEF EmuT, SameFade, SameTime
  <1> HIDE DEF v
  <1>8. u \in EmuT /\ u.track_ended = v.track_ended
    BY <1>4, <1>6 DEF EmuT
  <1>9. /\ SameFade(u, v)
        /\ u.emu_track_ended = v.emu_track_ended
        /\ u.out_time = v.out_time /\ u.emu_time = v.emu_time /\ u.pos = v.pos
        /\ u.silence_count = v.silence_count /\ u.buf_remain = v.buf_remain
    BY <1>6 DEF EmuT, SameFade
  <1> HIDE DEF u
  <1>10. /\ SameFade(u, e) /\ u.out_time = e.out_time
         /\ u.track_ended <=> e.track_ended \/ u.emu_track_ended
         /\ u.silence_count = e.silence_count
         /\ u.buf_remain = e.buf_remain
         /\ u.emu_time = e.emu_time + n
         /\ e.emu_track_ended => u.pos = e.pos /\ u.emu_track_ended
         /\ ~e.emu_track_ended =>
              /\ u.pos = e.pos + n
              /\ u.emu_track_ended => track.fails /\ u.pos > Len(track.loud)
    <2>1. SameFade(u, e)
      BY <1>1, <1>7, <1>9 DEF SameFade
    <2>2. u.track_ended <=> e.track_ended \/ u.emu_track_ended
      BY <1>1, <1>5, <1>6, <1>7, <1>8, <1>9
    <2> QED
      BY <1>1, <1>7, <1>9, <2>1, <2>2 DEF SameTime
  <1>11. t \in EmuT /\ SameFade(t, e) /\ t.out_time = e.out_time
    <2>1. fill_buf(u) \in EmuT /\ SameFade(fill_buf(u), u)
          /\ fill_buf(u).out_time = u.out_time
      BY <1>8, FillBufFacts
    <2> QED
      BY <1>3, <1>8, <1>10, <2>1 DEF SameFade
  <1>12. t = u \/ t = fill_buf(u)
    BY <1>3
  <1>13. CASE u.emu_track_ended
    <2>1. /\ fill_buf(u).track_ended = u.track_ended
          /\ fill_buf(u).emu_track_ended /\ fill_buf(u).pos = u.pos
      BY <1>8, <1>13, FillBufFacts
    <2>2. t.track_ended /\ t.emu_track_ended /\ t.pos = u.pos
      BY <1>10, <1>12, <1>13, <2>1
    <2>3. \/ e.emu_track_ended /\ t.pos = e.pos
          \/ Failed(t)
      BY <1>10, <1>13, <2>2 DEF Failed
    <2> HIDE DEF t
    <2> QED
      BY <1>11, <2>2, <2>3 DEF t
  <1>14. CASE ~u.emu_track_ended
    <2>1. u.track_ended = e.track_ended
      BY <1>8, <1>10, <1>14 DEF EmuT
    <2>2. ~e.emu_track_ended
      BY <1>10, <1>14
    <2> HIDE DEF t
    <2>3. \E w \in EmuT :
            /\ ~w.emu_track_ended /\ w.track_ended = e.track_ended
            /\ w.pos = e.pos + n /\ w.emu_time = e.emu_time + n
            /\ w.silence_count = e.silence_count
            /\ w.buf_remain = e.buf_remain
            /\ t = w \/ t = fill_buf(w)
      BY <1>8, <1>10, <1>12, <1>14, <2>1, <2>2
    <2> QED
      BY <1>11, <2>2, <2>3 DEF t
  <1> QED
    BY <1>13, <1>14

LEMMA TwoParts ==
    ASSUME NEW S, NEW A \in Seq(S), NEW B \in Seq(S)
    PROVE  /\ A \o B \in Seq(S) /\ Len(A \o B) = Len(A) + Len(B)
           /\ \A i \in 1..Len(A \o B) :
                /\ i <= Len(A) => (A \o B)[i] = A[i]
                /\ i > Len(A) => (A \o B)[i] = B[i - Len(A)]
  OBVIOUS

LEMMA ThreeParts ==
    ASSUME NEW S, NEW A \in Seq(S), NEW B \in Seq(S), NEW C \in Seq(S),
           NEW D, D = A \o B \o C
    PROVE  /\ D \in Seq(S) /\ Len(D) = Len(A) + Len(B) + Len(C)
           /\ \A i \in 1..Len(D) :
                /\ i <= Len(A) => D[i] = A[i]
                /\ i > Len(A) /\ i <= Len(A) + Len(B) => D[i] = B[i - Len(A)]
                /\ i > Len(A) + Len(B) => D[i] = C[i - Len(A) - Len(B)]
  <1> DEFINE AB == A \o B
  <1>1. /\ AB \in Seq(S) /\ Len(AB) = Len(A) + Len(B)
        /\ \A i \in 1..Len(AB) :
             /\ i <= Len(A) => AB[i] = A[i]
             /\ i > Len(A) => AB[i] = B[i - Len(A)]
    BY TwoParts
  <1>0. D = AB \o C
    OBVIOUS
  <1> HIDE DEF AB
  <1>2. /\ D \in Seq(S) /\ Len(D) = Len(AB) + Len(C)
        /\ \A i \in 1..Len(D) :
             /\ i <= Len(AB) => D[i] = AB[i]
             /\ i > Len(AB) => D[i] = C[i - Len(AB)]
    <2>1. AB \in Seq(S)
      BY <1>1
    <2>2. /\ AB \o C \in Seq(S) /\ Len(AB \o C) = Len(AB) + Len(C)
          /\ \A i \in 1..Len(AB \o C) :
               /\ i <= Len(AB) => (AB \o C)[i] = AB[i]
               /\ i > Len(AB) => (AB \o C)[i] = C[i - Len(AB)]
      BY <2>1, TwoParts, Zenon
    <2> QED
      BY <1>0, <2>2
  <1>3. Len(A) \in Nat /\ Len(B) \in Nat /\ Len(C) \in Nat
    OBVIOUS
  <1>4. ASSUME NEW i \in 1..Len(D)
        PROVE  /\ i <= Len(A) => D[i] = A[i]
               /\ i > Len(A) /\ i <= Len(A) + Len(B) => D[i] = B[i - Len(A)]
               /\ i > Len(A) + Len(B) => D[i] = C[i - Len(A) - Len(B)]
    <2>1. i > Len(A) + Len(B) => i - Len(AB) = i - Len(A) - Len(B)
      BY <1>1, <1>3
    <2> QED
      BY <1>1, <1>2, <1>3, <2>1
  <1> QED
    BY <1>1, <1>2, <1>4 DEF AB

\* What play gives: s frames of silence, k of the buffer, r of the emulator.
Frames(q, p, s, k, r) ==
    [i \in 1..s |-> Silent]
      \o [i \in 1..k |-> q.buf + buf_size - q.buf_remain + i - 1]
      \o [i \in 1..r |-> IF p.emu_track_ended THEN Silent ELSE p.pos + i - 1]

FramesAre(f, q, p, s, k, r) ==
    /\ f \in Seq(Nat \cup {Silent}) /\ DOMAIN f = 1..(s + k + r)
    /\ \A i \in 1..(s + k + r) :
         \/ i <= s /\ f[i] = Silent
         \/ /\ i > s /\ i <= s + k
            /\ f[i] = q.buf + buf_size - q.buf_remain + (i - s) - 1
         \/ /\ i > s + k /\ p.emu_track_ended /\ f[i] = Silent
         \/ /\ i > s + k /\ ~p.emu_track_ended
            /\ f[i] = p.pos + (i - s - k) - 1

LEMMA FramesFacts ==
    ASSUME NEW q \in EmuT, NEW p \in EmuT,
           NEW s \in Nat, NEW k \in Nat, NEW r \in Nat,
           NEW f, f = Frames(q, p, s, k, r)
    PROVE  FramesAre(f, q, p, s, k, r)
  <1> DEFINE S == Nat \cup {Silent}
             A == [i \in 1..s |-> Silent]
             B == [i \in 1..k |-> q.buf + buf_size - q.buf_remain + i - 1]
             C == [i \in 1..r |-> IF p.emu_track_ended THEN Silent
                                  ELSE p.pos + i - 1]
  <1>1. A \in Seq(S) /\ Len(A) = s /\ \A i \in 1..s : A[i] = Silent
    OBVIOUS
  <1>2. /\ B \in Seq(S) /\ Len(B) = k
        /\ \A i \in 1..k : B[i] = q.buf + buf_size - q.buf_remain + i - 1
    <2>1. q.buf \in Nat /\ buf_size \in Nat /\ q.buf_remain \in Nat
          /\ q.buf_remain <= buf_size
      BY Sizes DEF EmuT
    <2>2. \A i \in 1..k : q.buf + buf_size - q.buf_remain + i - 1 \in Nat
      BY <2>1
    <2> QED
      BY <2>2
  <1>3. /\ C \in Seq(S) /\ Len(C) = r
        /\ \A i \in 1..r : C[i] = IF p.emu_track_ended THEN Silent
                                  ELSE p.pos + i - 1
    <2>1. p.pos \in Nat
      BY DEF EmuT
    <2>2. \A i \in 1..r : (IF p.emu_track_ended THEN Silent
                           ELSE p.pos + i - 1) \in S
      BY <2>1
    <2> QED
      BY <2>2
  <1>4. f = A \o B \o C
    BY DEF Frames
  <1> HIDE DEF A, B, C
  <1>5. /\ f \in Seq(S) /\ Len(f) = s + k + r
        /\ \A i \in 1..(s + k + r) :
             /\ i <= s => f[i] = A[i]
             /\ i > s /\ i <= s + k => f[i] = B[i - s]
             /\ i > s + k => f[i] = C[i - s - k]
    <2> HIDE DEF S
    <2>1. A \in Seq(S) /\ B \in Seq(S) /\ C \in Seq(S)
      BY <1>1, <1>2, <1>3
    <2>0. Len(A) = s /\ Len(B) = k /\ Len(C) = r
      BY <1>1, <1>2, <1>3
    <2>4. /\ f \in Seq(S) /\ Len(f) = Len(A) + Len(B) + Len(C)
          /\ \A i \in 1..Len(f) :
               /\ i <= Len(A) => f[i] = A[i]
               /\ i > Len(A) /\ i <= Len(A) + Len(B) => f[i] = B[i - Len(A)]
               /\ i > Len(A) + Len(B) => f[i] = C[i - Len(A) - Len(B)]
      BY <1>4, <2>1, ThreeParts, SMTT(60)
    <2> QED
      BY <2>0, <2>4
  <1>6. ASSUME NEW i \in 1..(s + k + r)
        PROVE  \/ i <= s /\ f[i] = Silent
               \/ /\ i > s /\ i <= s + k
                  /\ f[i] = q.buf + buf_size - q.buf_remain + (i - s) - 1
               \/ /\ i > s + k /\ p.emu_track_ended /\ f[i] = Silent
               \/ /\ i > s + k /\ ~p.emu_track_ended
                  /\ f[i] = p.pos + (i - s - k) - 1
    <2>1. CASE i <= s
      BY <1>1, <1>5, <2>1
    <2>2. CASE i > s /\ i <= s + k
      <3>1. i - s \in 1..k
        BY <2>2
      <3>2. f[i] = B[i - s]
        BY <1>5, <2>2
      <3>3. B[i - s] = q.buf + buf_size - q.buf_remain + (i - s) - 1
        BY <1>2, <3>1
      <3> QED
        BY <2>2, <3>2, <3>3
    <2>3. CASE i > s + k
      <3>1. i - s - k \in 1..r
        BY <2>3
      <3>2. f[i] = C[i - s - k]
        BY <1>5, <2>3
      <3>3. C[i - s - k] = IF p.emu_track_ended THEN Silent
                           ELSE p.pos + (i - s - k) - 1
        BY <1>3, <3>1
      <3> QED
        BY <2>3, <3>2, <3>3
    <2> QED
      BY <2>1, <2>2, <2>3
  <1>7. DOMAIN f = 1..(s + k + r)
    BY <1>5
  <1> QED
    BY <1>5, <1>6, <1>7 DEF FramesAre

-----------------------------------------------------------------------------
(***************************************************************************)
(* What stays true from step to step.                                      *)
(***************************************************************************)
Window == SilenceMax - SilenceMax \div Lookahead

Reason(e, gains) ==
    \/ Failed(e)
    \/ FadedOut(gains)
    \/ e.pos >= Window /\ \A i \in 1..Window : ~Loud(e.pos - i)

\* start_track has dropped k silent blocks; the next one is not read yet, or
\* it is in the buffer.
Dropping(e) ==
    \E k \in Nat :
      /\ Lead(k)
      /\ \/ e.pos = k * buf_size /\ e.buf_remain = 0
         \/ /\ e.pos = k * buf_size + buf_size /\ e.buf_remain = buf_size
            /\ e.buf = k * buf_size
            /\ \E i \in 0..(buf_size - 1) : Loud(k * buf_size + i)

Starting(e) ==
    /\ e.playable /\ ~e.track_ended /\ e.emu_time = e.pos
    /\ e.emu_track_ended => Failed(e)
    /\ Dropping(e)

InOrder(h) ==
    \A i \in DOMAIN h.frames :
      \/ h.frames[i] = Dropped + h.at - 1 + i
      \/ h.frames[i] = Silent /\ ~Loud(Dropped + h.at - 1 + i)

\* The invariant, of an emulator, of what it has played and of where the
\* reader thread is.
InvOf(e, h, c) ==
    /\ e.track_ended => e.emu_track_ended
    /\ e.playable => e.loaded
    /\ ~e.playable => e.track_ended
    /\ c = "start" => Starting(e)
    /\ c # "start" /\ e.playable => Live(e, e.out_time)
    /\ InOrder(h)
    /\ e.track_ended /\ e.playable => Reason(e, h.gains)

EmuInv == TypeOK /\ InvOf(emu, heard, pc)

LEMMA Types ==
    ASSUME TypeOK
    PROVE  /\ emu \in EmuT /\ track \in Tracks
           /\ heard.gains \in Seq(0..Unit)
           /\ heard.frames \in Seq(Nat \cup {Silent})
           /\ heard.at \in Nat /\ heard.start \in Int
           /\ native.fade \in Nat
           /\ target \in Nat \cup {Nowhere}
  BY DEF TypeOK, EmuT, Ints

\* Of a buffer, s frames are silence, k come from what was looked ahead and r
\* from the emulator; it becomes q, p and g by that.
Played(s, k, r, q, p, g) ==
    /\ s + k + r = Buf /\ s <= emu.silence_count
    /\ s < Buf => s = emu.silence_count
    /\ q = Quiet(emu, s)
    /\ k <= q.buf_remain /\ (r > 0 => k = q.buf_remain)
    /\ p = [q EXCEPT !.buf_remain = q.buf_remain - k]
    /\ g = Generated(p, r)

\* handle_fade, at the end of play.
Faded(g, gains) ==
    [g EXCEPT !.out_time = emu.out_time + Buf,
              !.track_ended = g.track_ended \/ FadedOut(gains),
              !.emu_track_ended = g.emu_track_ended \/ FadedOut(gains)]

LEMMA PlayFacts ==
    ASSUME TypeOK, Play, ~emu.track_ended
    PROVE  \E s, k, r \in Nat : \E q, p, g \in EmuT :
           \E gains \in FadeGains(emu.out_time) :
             /\ Played(s, k, r, q, p, g)
             /\ emu' = Faded(g, gains)
             /\ heard' = [at |-> emu.out_time, start |-> emu.fade_start,
                          frames |-> Frames(q, p, s, k, r), gains |-> gains]
  <1> DEFINE s == Min({emu.silence_count, Buf})
             q == Quiet(emu, s)
             k == Min({q.buf_remain, Buf - s})
             p == [q EXCEPT !.buf_remain = q.buf_remain - k]
             r == Buf - s - k
             g == Generated(p, r)
  <1>0. emu \in EmuT /\ track \in Tracks /\ Buf \in Nat
    BY Types, Sizes
  <1>1. PICK gains \in FadeGains(emu.out_time) :
          /\ emu' = [g EXCEPT
               !.out_time = g.out_time + Buf,
               !.track_ended = g.track_ended \/ FadedOut(gains),
               !.emu_track_ended = g.emu_track_ended \/ FadedOut(gains)]
          /\ heard' = [at |-> emu.out_time, start |-> emu.fade_start,
                       frames |-> Frames(q, p, s, k, r), gains |-> gains]
    BY Zenon DEF Play, Frames
  <1>2. /\ s \in Nat /\ s <= emu.silence_count /\ s <= Buf
        /\ s < Buf => s = emu.silence_count
    <2>1. emu.silence_count \in Nat
      BY <1>0 DEF EmuT
    <2>2. /\ s \in Nat /\ s <= emu.silence_count /\ s <= Buf
          /\ s = emu.silence_count \/ s = Buf
      BY <1>0, <2>1, MinOfTwo
    <2> QED
      BY <1>0, <2>1, <2>2
  <1> HIDE DEF s
  <1>3. q \in EmuT /\ q.out_time = emu.out_time
    BY <1>0, <1>2, QuietFacts DEF SameTime
  <1> HIDE DEF q
  <1>4. /\ k \in Nat /\ k <= q.buf_remain /\ k <= Buf - s
        /\ k = q.buf_remain \/ k = Buf - s
    <2>1. q.buf_remain \in Nat /\ Buf - s \in Nat
      BY <1>0, <1>2, <1>3, Sizes DEF EmuT
    <2> QED
      BY <2>1, MinOfTwo
  <1> HIDE DEF k
  <1>5. r \in Nat /\ s + k + r = Buf /\ (r > 0 => k = q.buf_remain)
    BY <1>0, <1>2, <1>4
  <1> HIDE DEF r
  <1>6. p \in EmuT /\ p.out_time = q.out_time
    <2>1. q.buf_remain - k \in 0..buf_size
      BY <1>3, <1>4, Sizes DEF EmuT
    <2> QED
      BY <1>3, <2>1 DEF EmuT
  <1> HIDE DEF p
  <1>7. g \in EmuT /\ g.out_time = p.out_time
    <2>1. CASE r = 0
      BY <1>6, <2>1 DEF Generated
    <2>2. CASE r > 0
      BY <1>0, <1>5, <1>6, <2>2, GeneratedFacts
    <2> QED
      BY <1>5, <2>1, <2>2
  <1> HIDE DEF g
  <1>8. emu' = Faded(g, gains)
    BY <1>1, <1>3, <1>6, <1>7 DEF Faded
  <1>9. /\ q = Quiet(emu, s)
        /\ p = [q EXCEPT !.buf_remain = q.buf_remain - k]
        /\ g = Generated(p, r)
    BY DEF q, p, g
  <1>10. Played(s, k, r, q, p, g)
    BY <1>2, <1>4, <1>5, <1>9 DEF Played
  <1> QED
    BY <1>1, <1>2, <1>3, <1>4, <1>5, <1>6, <1>7, <1>8, <1>10

(***************************************************************************)
(* The silence that ends a track in play: the emulator is ahead by         *)
(* silence_lookahead times what the listener has heard of it.              *)
(***************************************************************************)
LEMMA AheadOfSilence ==
    ASSUME NEW x \in Int, NEW y \in Int, x > SilenceMax, x >= Lookahead * y
    PROVE  y <= x /\ Window \in Nat /\ x - y >= Window
  <1> DEFINE L == Lookahead
             d == SilenceMax \div L
             m == SilenceMax % L
  <1>1. L \in Nat /\ L > 1 /\ SilenceMax \in Nat /\ SilenceMax > 0
    BY Sizes
  <1>2. d \in Nat /\ m \in Nat /\ m < L /\ SilenceMax = L * d + m
    BY <1>1
  <1>3. Window = SilenceMax - d
    BY DEF Window
  <1>4. x >= L * y
    OBVIOUS
  <1> HIDE DEF L, d, m
  <1>5. L * d >= d /\ L * d \in Nat
    <2>1. PICK c \in Nat : L = 1 + c
      <3>1. L - 1 \in Nat /\ L = 1 + (L - 1)
        BY <1>1
      <3> QED
        BY <3>1
    <2>2. (1 + c) * d = d + c * d /\ c * d \in Nat
      BY <1>2, <2>1, SMT
    <2> QED
      BY <1>2, <2>1, <2>2
  <1>6. Window \in Nat
    BY <1>1, <1>2, <1>3, <1>5
  <1>7. CASE y <= d
    BY <1>1, <1>2, <1>3, <1>5, <1>7
  <1>8. CASE y > d
    <2>1. PICK z \in Nat : y = d + 1 + z
      <3>1. y - d - 1 \in Nat /\ y = d + 1 + (y - d - 1)
        BY <1>2, <1>8
      <3> QED
        BY <3>1
    <2>2. PICK c \in Nat : L = 1 + c
      <3>1. L - 1 \in Nat /\ L = 1 + (L - 1)
        BY <1>1
      <3> QED
        BY <3>1
    <2>3. /\ L * (d + 1 + z) = L * d + L + L * z
          /\ (1 + c) * z = z + c * z /\ c * z \in Nat
      BY <1>1, <1>2, <2>1, <2>2, SMT
    <2>4. L * y = L * d + L + L * z /\ L * z >= z /\ L * z \in Nat
      BY <2>1, <2>2, <2>3
    <2> HIDE DEF L
    <2> QED
      BY <1>1, <1>2, <1>3, <1>4, <1>5, <1>6, <2>1, <2>4
  <1> QED
    BY <1>2, <1>6, <1>7, <1>8

-----------------------------------------------------------------------------
(***************************************************************************)
(* A buffer of a track that plays.                                         *)
(***************************************************************************)
\* What a buffer does to the emulator before the emulator goes on itself.
LEMMA PlayedFacts ==
    ASSUME TypeOK, NEW s \in Nat, NEW k \in Nat, NEW r \in Nat,
           NEW q \in EmuT, NEW p \in EmuT, NEW g \in EmuT,
           Played(s, k, r, q, p, g)
    PROVE  /\ SameFade(p, emu) /\ SameTime(p, emu)
           /\ q.buf = emu.buf
           /\ p.track_ended = q.track_ended
           /\ p.emu_track_ended = q.emu_track_ended
           /\ p.silence_count = q.silence_count
           /\ p.buf_remain = q.buf_remain - k
           /\ r = 0 => g = p
  <1>1. /\ s <= emu.silence_count /\ q = Quiet(emu, s)
        /\ p = [q EXCEPT !.buf_remain = q.buf_remain - k]
        /\ g = Generated(p, r)
    BY DEF Played
  <1>2. SameFade(q, emu) /\ SameTime(q, emu)
    BY <1>1, Types, QuietFacts
  <1>3. /\ SameFade(p, q) /\ SameTime(p, q)
        /\ p.track_ended = q.track_ended
        /\ p.emu_track_ended = q.emu_track_ended
        /\ p.silence_count = q.silence_count
    BY <1>1 DEF EmuT, SameFade, SameTime
  <1>4. p.buf_remain = q.buf_remain - k
    BY <1>1 DEF EmuT
  <1>5. r = 0 => g = p
    BY <1>1 DEF Generated
  <1> QED
    BY <1>2, <1>3, <1>4, <1>5 DEF SameFade, SameTime

Ends == /\ emu.silence_count > 0
        /\ emu.emu_time - emu.silence_time > SilenceMax

LEMMA QuietEnds ==
    ASSUME TypeOK, Live(emu, emu.out_time), ~emu.track_ended, ~BehindSilence,
           Ends,
           NEW s \in Nat, NEW k \in Nat, NEW r \in Nat,
           NEW q \in EmuT, NEW p \in EmuT, NEW g \in EmuT,
           Played(s, k, r, q, p, g)
    PROVE  /\ q.track_ended /\ q.emu_track_ended /\ k = 0
           /\ emu.buf_remain = 0 /\ s <= emu.silence_count
           /\ \/ Failed(emu)
              \/ /\ s = Buf /\ emu.pos >= Window
                 /\ \A i \in 1..Window : ~Loud(emu.pos - i)
  <1> DEFINE out == emu.out_time
             sc == emu.silence_count
             st == emu.silence_time
  <1>0. emu \in EmuT /\ Buf \in Nat /\ Buf > 0
    BY Types, Sizes
  <1>1. /\ s + k + r = Buf /\ s <= sc
        /\ s < Buf => s = sc
        /\ k <= q.buf_remain /\ q = Quiet(emu, s)
    BY DEF Played
  <1>2. q.track_ended /\ q.emu_track_ended /\ q.buf_remain = 0
    BY <1>0, <1>1, QuietFacts DEF Ends
  <1>3. k = 0
    BY <1>1, <1>2
  <1>4. /\ out \in Nat /\ sc \in Nat /\ sc > 0 /\ st \in Nat
        /\ emu.emu_time \in Nat /\ emu.buf_remain \in Nat /\ emu.pos \in Nat
        /\ Dropped \in Nat /\ emu.emu_time - st > SilenceMax
    BY <1>0, DroppedFacts, Sizes DEF EmuT, Ends
  <1>5. /\ emu.emu_track_ended => Failed(emu)
        /\ InStep(emu, out) /\ SilentAhead(emu, out) /\ Buffered(emu, out)
    BY DEF Live
  <1>6. emu.buf_remain = 0
    BY <1>4, <1>5, Sizes DEF Buffered
  <1>7. CASE ~emu.emu_track_ended
    <2>1. /\ emu.pos = Dropped + out + sc /\ emu.emu_time = out + sc
      BY <1>4, <1>5, <1>6, <1>7 DEF InStep, Ahead
    <2>2. emu.emu_time >= Lookahead * (out + Buf - st) + st
      <3>1. ~(emu.emu_time < ahead_time)
        BY <1>4, <1>6, <1>7 DEF BehindSilence
      <3>2. Lookahead * (out + Buf - st) \in Int
        BY <1>0, <1>4, Sizes
      <3> QED
        BY <1>4, <3>1, <3>2 DEF ahead_time
    <2> DEFINE x == emu.emu_time - st
               y == out + Buf - st
    <2>3. x \in Int /\ y \in Int /\ x > SilenceMax /\ x >= Lookahead * y
      <3>1. x \in Int /\ y \in Int /\ x > SilenceMax
        BY <1>0, <1>4
      <3>2. Lookahead * y \in Int
        BY <3>1, Sizes
      <3> QED
        BY <1>4, <2>2, <3>1, <3>2
    <2>4. y <= x /\ Window \in Nat /\ x - y >= Window
      <3> HIDE DEF x, y
      <3> QED
        BY <2>3, AheadOfSilence
    <2>5. sc >= Buf /\ sc >= Window
      BY <1>0, <1>4, <2>1, <2>4
    <2>6. s = Buf
      BY <1>0, <1>1, <2>5
    <2>7. emu.pos >= Window
      BY <1>4, <2>1, <2>4, <2>5
    <2>8. ASSUME NEW i \in 1..Window
          PROVE  ~Loud(emu.pos - i)
      <3>1. /\ sc - i \in 0..(sc - 1)
            /\ emu.pos - i = Dropped + out + (sc - i)
        BY <1>4, <2>1, <2>4, <2>5
      <3> QED
        BY <1>5, <3>1 DEF SilentAhead
    <2> QED
      BY <1>1, <1>2, <1>3, <1>6, <2>6, <2>7, <2>8
  <1>8. CASE emu.emu_track_ended
    BY <1>1, <1>2, <1>3, <1>5, <1>6, <1>8
  <1> QED
    BY <1>7, <1>8

\* Heard is the track, from the time of the buffer on.
LEMMA PlayedInOrder ==
    ASSUME TypeOK, Live(emu, emu.out_time), ~emu.track_ended, ~BehindSilence,
           NEW s \in Nat, NEW k \in Nat, NEW r \in Nat,
           NEW q \in EmuT, NEW p \in EmuT, NEW g \in EmuT,
           Played(s, k, r, q, p, g),
           NEW f, f = Frames(q, p, s, k, r), NEW i \in DOMAIN f
    PROVE  LET b == Dropped + emu.out_time - 1
           IN  \/ f[i] = b + i
               \/ f[i] = Silent /\ ~Loud(b + i)
  <1> DEFINE out == emu.out_time
             sc == emu.silence_count
             br == emu.buf_remain
             b == Dropped + out - 1
  <1>0. emu \in EmuT /\ track \in Tracks /\ Buf \in Nat
    BY Types, Sizes
  <1>1. /\ s + k + r = Buf /\ s <= sc
        /\ s < Buf => s = sc
        /\ k <= q.buf_remain /\ q = Quiet(emu, s)
        /\ r > 0 => k = q.buf_remain
    BY DEF Played
  <1> FramesAre(f, q, p, s, k, r)
    BY FramesFacts, Zenon
  <1>2. i \in 1..(s + k + r)
    BY DEF FramesAre
  <1>3. \/ i <= s /\ f[i] = Silent
        \/ /\ i > s /\ i <= s + k
           /\ f[i] = q.buf + buf_size - q.buf_remain + (i - s) - 1
        \/ /\ i > s + k /\ p.emu_track_ended /\ f[i] = Silent
        \/ /\ i > s + k /\ ~p.emu_track_ended
           /\ f[i] = p.pos + (i - s - k) - 1
    BY <1>2 DEF FramesAre
  <1>4. /\ out \in Nat /\ sc \in Nat /\ br \in Nat /\ Dropped \in Nat
        /\ emu.pos \in Nat /\ emu.buf \in Nat /\ buf_size \in Nat
        /\ i \in Nat /\ i > 0
    BY <1>0, <1>2, DroppedFacts, Sizes DEF EmuT
  <1>5. /\ emu.emu_track_ended => Failed(emu)
        /\ InStep(emu, out) /\ SilentAhead(emu, out) /\ Buffered(emu, out)
    BY DEF Live
  <1>6. /\ p.pos = emu.pos /\ q.buf = emu.buf
        /\ p.emu_track_ended = q.emu_track_ended
    BY PlayedFacts DEF SameTime
  <1>7. CASE i <= s
    <2>1. i - 1 \in 0..(sc - 1) /\ b + i = Dropped + out + (i - 1)
      BY <1>1, <1>4, <1>7
    <2>2. ~Loud(b + i)
      BY <1>5, <2>1 DEF SilentAhead
    <2>3. f[i] = Silent
      BY <1>1, <1>3, <1>4, <1>7
    <2> QED
      BY <2>2, <2>3
  \* Behind the frames that were looked ahead a failed emulator is silent.
  <1>8. ASSUME Failed(emu), b + i >= Dropped + out + sc + br
        PROVE  ~Loud(b + i)
    <2>1. b + i \in Nat /\ b + i >= emu.pos
      BY <1>4, <1>5, <1>8 DEF InStep, Ahead
    <2> QED
      BY <1>0, <1>8, <2>1, FailedIsSilent
  <1>9. CASE i > s /\ Ends
    <2>1. /\ q.emu_track_ended /\ k = 0 /\ br = 0
          /\ \/ Failed(emu)
             \/ s = Buf
      BY <1>9, QuietEnds
    <2>2. s = sc /\ Failed(emu)
      BY <1>0, <1>1, <1>2, <1>4, <1>9, <2>1
    <2>3. b + i >= Dropped + out + sc + br
      BY <1>4, <1>9, <2>1, <2>2
    <2>4. f[i] = Silent
      BY <1>3, <1>4, <1>6, <1>9, <2>1
    <2> QED
      BY <1>8, <2>2, <2>3, <2>4
  <1>10. CASE i > s /\ ~Ends
    <2>1. q.buf_remain = br /\ q.emu_track_ended = emu.emu_track_ended
      BY <1>0, <1>1, <1>10, QuietFacts DEF Ends
    <2>2. s = sc
      BY <1>0, <1>1, <1>2, <1>4, <1>10
    <2>3. CASE i <= s + k
      <3>1. f[i] = emu.buf + buf_size - br + (i - s) - 1
        BY <1>3, <1>4, <1>6, <1>10, <2>1, <2>3
      <3>2. br > 0
        BY <1>1, <1>4, <1>10, <2>1, <2>3
      <3>3. emu.buf + buf_size = Dropped + out + sc + br
        BY <1>5, <3>2 DEF Buffered, Ahead
      <3>4. f[i] = b + i
        BY <1>4, <2>2, <3>1, <3>3
      <3> QED
        BY <3>4
    <2>4. CASE i > s + k /\ emu.emu_track_ended
      <3>1. k = br
        BY <1>1, <1>2, <1>4, <2>1, <2>4
      <3>2. b + i >= Dropped + out + sc + br
        BY <1>4, <2>2, <2>4, <3>1
      <3>3. f[i] = Silent
        BY <1>3, <1>4, <1>6, <1>10, <2>1, <2>4
      <3> QED
        BY <1>5, <1>8, <2>4, <3>2, <3>3
    <2>5. CASE i > s + k /\ ~emu.emu_track_ended
      <3>1. k = br
        BY <1>1, <1>2, <1>4, <2>1, <2>5
      <3>2. f[i] = emu.pos + (i - s - k) - 1
        BY <1>3, <1>4, <1>6, <1>10, <2>1, <2>5
      <3>3. emu.pos = Dropped + out + sc + br
        BY <1>5, <2>5 DEF InStep, Ahead
      <3>4. f[i] = b + i
        BY <1>4, <2>2, <3>1, <3>2, <3>3
      <3> QED
        BY <3>4
    <2> QED
      BY <1>4, <2>3, <2>4, <2>5
  <1> QED
    BY <1>4, <1>7, <1>9, <1>10

\* How the two emulators differ that are the same for the rest of a track.
SamePlace(t, e) ==
    /\ t.emu_time = e.emu_time /\ t.silence_time = e.silence_time
    /\ t.buf = e.buf /\ t.pos = e.pos
    /\ t.silence_count = e.silence_count /\ t.buf_remain = e.buf_remain

LEMMA LiveSame ==
    ASSUME NEW t, NEW e, NEW out, Live(e, out), SamePlace(t, e),
           ~t.track_ended =>
             ~e.track_ended /\ (t.emu_track_ended <=> e.emu_track_ended)
    PROVE  Live(t, out)
  BY DEF Live, SamePlace, InStep, Ahead, SilentAhead, Buffered, Failed

LEMMA ReasonSame ==
    ASSUME NEW t, NEW e, t.pos = e.pos, NEW gains, Reason(e, gains)
    PROVE  Reason(t, gains)
  BY DEF Reason, Failed

LEMMA FadedFacts ==
    ASSUME TypeOK, NEW g \in EmuT, NEW gains
    PROVE  LET h == Faded(g, gains) IN
           /\ h \in EmuT /\ SameFade(h, g) /\ SamePlace(h, g)
           /\ h.out_time = emu.out_time + Buf
           /\ h.track_ended <=> g.track_ended \/ FadedOut(gains)
           /\ h.emu_track_ended <=> g.emu_track_ended \/ FadedOut(gains)
  <1> DEFINE over == FadedOut(gains)
             out == emu.out_time + Buf
             h == Faded(g, gains)
  <1>1. over \in BOOLEAN
    BY DEF FadedOut
  <1>2. out \in Nat
    <2>1. emu \in EmuT
      BY Types
    <2>2. emu.out_time \in Nat
      BY <2>1 DEF EmuT
    <2> QED
      BY <2>2, Sizes
  <1> HIDE DEF over, out
  <1>3. h = [g EXCEPT !.out_time = out,
                      !.track_ended = g.track_ended \/ over,
                      !.emu_track_ended = g.emu_track_ended \/ over]
    BY DEF Faded, over, out
  <1> HIDE DEF h
  <1>4. /\ h \in EmuT /\ SameFade(h, g) /\ h.out_time = out
        /\ h.track_ended <=> g.track_ended \/ over
        /\ h.emu_track_ended <=> g.emu_track_ended \/ over
        /\ h.emu_time = g.emu_time
        /\ h.silence_time = g.silence_time /\ h.buf = g.buf
        /\ h.pos = g.pos /\ h.silence_count = g.silence_count
        /\ h.buf_remain = g.buf_remain
    <2> DEFINE a == g.track_ended \/ over
               b == g.emu_track_ended \/ over
               u == [g EXCEPT !.out_time = out]
               v == [u EXCEPT !.track_ended = a]
               w == [v EXCEPT !.emu_track_ended = b]
    <2>1. h = w
      BY <1>3 DEF EmuT
    <2>2. /\ a \in BOOLEAN /\ (a <=> g.track_ended \/ over)
          /\ b \in BOOLEAN /\ (b <=> g.emu_track_ended \/ over)
      BY <1>1
    <2> HIDE DEF a, b
    <2>3. /\ u \in EmuT /\ SameFade(u, g) /\ u.out_time = out
          /\ u.emu_time = g.emu_time
          /\ u.silence_time = g.silence_time /\ u.buf = g.buf
          /\ u.pos = g.pos /\ u.silence_count = g.silence_count
          /\ u.buf_remain = g.buf_remain
      BY <1>2 DEF EmuT, SameFade
    <2> HIDE DEF u
    <2>4. v \in EmuT /\ v.track_ended = a
      BY <2>2, <2>3 DEF EmuT
    <2>5. /\ SameFade(v, u) /\ SameTime(v, u)
          /\ v.silence_count = u.silence_count /\ v.buf_remain = u.buf_remain
      BY <2>3 DEF EmuT, SameFade, SameTime
    <2> HIDE DEF v
    <2>6. w \in EmuT /\ w.emu_track_ended = b /\ w.track_ended = v.track_ended
      BY <2>2, <2>4 DEF EmuT
    <2>7. /\ SameFade(w, v) /\ SameTime(w, v)
          /\ w.silence_count = v.silence_count /\ w.buf_remain = v.buf_remain
      BY <2>4 DEF EmuT, SameFade, SameTime
    <2> HIDE DEF w
    <2>8. /\ w \in EmuT /\ SameFade(w, g) /\ w.out_time = out
          /\ w.track_ended <=> g.track_ended \/ over
          /\ w.emu_track_ended <=> g.emu_track_ended \/ over
          /\ w.emu_time = g.emu_time
          /\ w.silence_time = g.silence_time /\ w.buf = g.buf
          /\ w.pos = g.pos /\ w.silence_count = g.silence_count
          /\ w.buf_remain = g.buf_remain
      BY <2>2, <2>3, <2>4, <2>5, <2>6, <2>7 DEF SameFade, SameTime
    <2> QED
      BY <2>1, <2>8 DEF a, b
  <1> QED
    BY <1>4 DEF SamePlace, h, over, out

\* The frames the emulator makes at the end of a buffer.
LEMMA LiveGenerated ==
    ASSUME track \in Tracks, NEW e \in EmuT, NEW out \in Nat, NEW n \in Nat,
           n > 0, ~e.track_ended, e.silence_count = 0, e.buf_remain = 0,
           Live(e, out)
    PROVE  LET t == Generated(e, n) IN
           /\ t \in EmuT /\ SameFade(t, e)
           /\ Live(t, out + n)
           /\ t.track_ended => t.emu_track_ended /\ Failed(t)
  <1> DEFINE t == Generated(e, n)
  <1>1. /\ t \in EmuT /\ SameFade(t, e)
        /\ \/ /\ t.track_ended /\ t.emu_track_ended
              /\ \/ e.emu_track_ended /\ t.pos = e.pos
                 \/ Failed(t)
           \/ /\ ~e.emu_track_ended
              /\ \E u \in EmuT :
                   /\ ~u.emu_track_ended /\ u.track_ended = e.track_ended
                   /\ u.pos = e.pos + n /\ u.emu_time = e.emu_time + n
                   /\ u.silence_count = e.silence_count
                   /\ u.buf_remain = e.buf_remain
                   /\ t = u \/ t = fill_buf(u)
    BY GeneratedFacts
  <1> HIDE DEF t
  <1>2. /\ e.emu_track_ended => Failed(e)
        /\ InStep(e, out)
    BY DEF Live
  <1>3. CASE /\ t.track_ended /\ t.emu_track_ended
             /\ \/ e.emu_track_ended /\ t.pos = e.pos
                \/ Failed(t)
    <2>1. Failed(t)
      BY <1>2, <1>3 DEF Failed
    <2> QED
      BY <1>1, <1>3, <2>1 DEF Live, t
  <1>4. CASE /\ ~e.emu_track_ended
             /\ \E u \in EmuT :
                  /\ ~u.emu_track_ended /\ u.track_ended = e.track_ended
                  /\ u.pos = e.pos + n /\ u.emu_time = e.emu_time + n
                  /\ u.silence_count = e.silence_count
                  /\ u.buf_remain = e.buf_remain
                  /\ t = u \/ t = fill_buf(u)
    <2>1. PICK u \in EmuT :
            /\ ~u.emu_track_ended /\ u.track_ended = e.track_ended
            /\ u.pos = e.pos + n /\ u.emu_time = e.emu_time + n
            /\ u.silence_count = e.silence_count
            /\ u.buf_remain = e.buf_remain
            /\ t = u \/ t = fill_buf(u)
      BY <1>4
    <2>2. /\ e.pos = Dropped + out /\ e.emu_time = out
          /\ Dropped \in Nat /\ ~u.track_ended
      BY <1>2, <1>4, <2>1, DroppedFacts DEF InStep, Ahead
    <2>3. InStep(u, out + n)
      BY <2>1, <2>2 DEF InStep, Ahead
    <2>4. SilentAhead(u, out + n) /\ Buffered(u, out + n)
      BY <2>1 DEF SilentAhead, Buffered
    <2>5. Live(u, out + n)
      BY <2>1, <2>3, <2>4 DEF Live
    <2>6. out + n \in Nat
      OBVIOUS
    <2>7. Live(fill_buf(u), out + n)
      BY <2>1, <2>2, <2>5, <2>6, LiveFillBuf
    <2>8. ~fill_buf(u).track_ended
      BY <2>2, FillBufFacts
    <2> QED
      BY <1>1, <2>1, <2>2, <2>5, <2>7, <2>8 DEF t
  <1> QED
    BY <1>1, <1>3, <1>4

\* Behind the buffer the track plays on, or it has ended for a reason.
LEMMA PlayedOn ==
    ASSUME TypeOK, Live(emu, emu.out_time), ~emu.track_ended, ~BehindSilence,
           NEW s \in Nat, NEW k \in Nat, NEW r \in Nat,
           NEW q \in EmuT, NEW p \in EmuT, NEW g \in EmuT,
           Played(s, k, r, q, p, g), NEW gains
    PROVE  LET h == Faded(g, gains) IN
           /\ Live(h, emu.out_time + Buf)
           /\ h.track_ended => h.emu_track_ended /\ Reason(h, gains)
           /\ h.loaded = emu.loaded /\ h.playable = emu.playable
  <1> DEFINE out == emu.out_time
             sc == emu.silence_count
             br == emu.buf_remain
             h == Faded(g, gains)
  <1>0. emu \in EmuT /\ track \in Tracks /\ Buf \in Nat
    BY Types, Sizes
  <1>1. /\ s + k + r = Buf /\ s <= sc
        /\ s < Buf => s = sc
        /\ k <= q.buf_remain /\ q = Quiet(emu, s)
        /\ r > 0 => k = q.buf_remain
        /\ g = Generated(p, r)
    BY DEF Played
  <1>2. /\ out \in Nat /\ sc \in Nat /\ br \in Nat /\ Dropped \in Nat
        /\ emu.pos \in Nat
    BY <1>0, DroppedFacts, Sizes DEF EmuT
  <1>3. /\ emu.emu_track_ended => Failed(emu)
        /\ InStep(emu, out) /\ SilentAhead(emu, out) /\ Buffered(emu, out)
    BY DEF Live
  <1>4. /\ SameFade(p, emu) /\ SameTime(p, emu)
        /\ p.track_ended = q.track_ended
        /\ p.emu_track_ended = q.emu_track_ended
        /\ p.silence_count = q.silence_count
        /\ p.buf_remain = q.buf_remain - k
        /\ r = 0 => g = p
    BY PlayedFacts
  <1>5. /\ SameFade(h, g) /\ SamePlace(h, g)
        /\ h.track_ended <=> g.track_ended \/ FadedOut(gains)
        /\ h.emu_track_ended <=> g.emu_track_ended \/ FadedOut(gains)
    BY FadedFacts
  <1> HIDE DEF h
  <1> SUFFICES /\ Live(g, out + Buf)
               /\ g.track_ended => g.emu_track_ended /\ Reason(g, gains)
               /\ SameFade(g, emu)
    <2>1. ASSUME Live(g, out + Buf)
          PROVE  Live(h, out + Buf)
      BY <1>5, <2>1, LiveSame
    <2>2. ASSUME g.track_ended => g.emu_track_ended /\ Reason(g, gains),
                 h.track_ended
          PROVE  h.emu_track_ended /\ Reason(h, gains)
      <3>1. CASE FadedOut(gains)
        BY <1>5, <3>1 DEF Reason
      <3>2. CASE ~FadedOut(gains)
        <4>1. g.emu_track_ended /\ Reason(g, gains)
          BY <1>5, <2>2, <3>2
        <4>2. h.pos = g.pos
          BY <1>5 DEF SamePlace
        <4> QED
          BY <1>5, <4>1, <4>2, ReasonSame
      <3> QED
        BY <3>1, <3>2
    <2> QED
      BY <1>5, <2>1, <2>2 DEF SameFade, h
  <1>6. r > 0 => g \in EmuT /\ SameFade(g, p)
                 /\ \/ /\ g.track_ended /\ g.emu_track_ended
                       /\ \/ p.emu_track_ended /\ g.pos = p.pos
                          \/ Failed(g)
                    \/ ~p.emu_track_ended
    BY <1>0, <1>1, GeneratedFacts
  <1>7. SameFade(g, emu)
    BY <1>1, <1>4, <1>6 DEF SameFade
  <1>8. CASE Ends
    <2>1. /\ q.track_ended /\ q.emu_track_ended
          /\ \/ Failed(emu)
             \/ /\ emu.pos >= Window
                /\ \A i \in 1..Window : ~Loud(emu.pos - i)
      BY <1>8, QuietEnds
    <2>2. Reason(emu, gains)
      BY <2>1 DEF Reason
    <2>3. /\ g.track_ended /\ g.emu_track_ended
          /\ g.pos = p.pos \/ Failed(g)
      <3>1. p.track_ended /\ p.emu_track_ended
        BY <1>4, <2>1
      <3>2. CASE r = 0
        BY <1>4, <3>1, <3>2
      <3>3. CASE r > 0
        BY <1>6, <3>1, <3>3
      <3> QED
        BY <3>2, <3>3
    <2>4. p.pos = emu.pos
      BY <1>4 DEF SameTime
    <2>5. Reason(g, gains)
      <3>1. CASE Failed(g)
        BY <3>1 DEF Reason
      <3>2. CASE g.pos = p.pos
        BY <2>2, <2>4, <3>2, ReasonSame
      <3> QED
        BY <2>3, <3>1, <3>2
    <2> QED
      BY <1>7, <2>3, <2>5 DEF Live
  <1>9. CASE ~Ends
    <2>1. /\ q.track_ended = emu.track_ended
          /\ q.emu_track_ended = emu.emu_track_ended
          /\ q.silence_count = sc - s /\ q.buf_remain = br
      BY <1>0, <1>1, <1>9, QuietFacts DEF Ends
    <2>2. /\ p.silence_count = sc - s /\ p.buf_remain = br - k
          /\ ~p.track_ended /\ p.emu_track_ended = emu.emu_track_ended
          /\ p.pos = emu.pos /\ p.emu_time = emu.emu_time
          /\ p.silence_time = emu.silence_time /\ p.buf = emu.buf
      BY <1>4, <2>1 DEF SameTime
    <2>3. /\ k > 0 => s = sc
          /\ r > 0 => s = sc /\ k = br
      BY <1>0, <1>1, <1>2, <2>1
    <2> DEFINE t == out + s + k
    <2>4. Live(p, t)
      <3>1. Ahead(p, t) = Ahead(emu, out)
        BY <1>2, <2>2 DEF Ahead
      <3>2. InStep(p, t)
        <4>1. t + p.silence_count + p.buf_remain = out + sc + br
          BY <1>2, <2>2
        <4> HIDE DEF t
        <4> QED
          BY <1>3, <2>2, <3>1, <4>1 DEF InStep
      <3>3. SilentAhead(p, t)
        <4> SUFFICES ASSUME NEW i \in 0..(p.silence_count - 1)
                     PROVE  ~Loud(Dropped + t + i)
          BY DEF SilentAhead
        <4>1. k = 0
          BY <1>2, <2>2, <2>3
        <4>2. /\ s + i \in 0..(sc - 1)
              /\ Dropped + t + i = Dropped + out + (s + i)
          BY <1>2, <2>2, <4>1
        <4> QED
          BY <1>3, <4>2 DEF SilentAhead
      <3>4. Buffered(p, t)
        <4> HIDE DEF t
        <4>1. p.buf_remain > 0 => br > 0
          BY <1>2, <2>2
        <4> QED
          BY <1>3, <2>2, <3>1, <4>1 DEF Buffered
      <3>5. p.emu_track_ended => Failed(p)
        BY <1>3, <2>2 DEF Failed
      <3> QED
        BY <3>2, <3>3, <3>4, <3>5 DEF Live
    <2>5. CASE r = 0
      <3>1. t = out + Buf
        BY <1>0, <1>1, <1>2, <2>5
      <3>2. g = p
        BY <1>4, <2>5
      <3> HIDE DEF t
      <3> QED
        BY <1>7, <2>2, <2>4, <3>1, <3>2
    <2>6. CASE r > 0
      <3>1. p.silence_count = 0 /\ p.buf_remain = 0
        BY <1>2, <2>2, <2>3, <2>6
      <3>2. t \in Nat /\ t + r = out + Buf
        BY <1>0, <1>1, <1>2
      <3> HIDE DEF t
      <3>3. /\ Live(g, t + r)
            /\ g.track_ended => g.emu_track_ended /\ Failed(g)
        BY <1>0, <1>1, <2>2, <2>4, <2>6, <3>1, <3>2, LiveGenerated
      <3> QED
        BY <1>7, <3>2, <3>3 DEF Reason
    <2> QED
      BY <2>5, <2>6
  <1> QED
    BY <1>8, <1>9

-----------------------------------------------------------------------------
(***************************************************************************)
(* The invariant of the next state.  The track is that of the behaviour.   *)
(***************************************************************************)
LEMMA SameTrack ==
    ASSUME track' = track
    PROVE  Dropped' = Dropped /\ \A p : Loud(p)' <=> Loud(p)
  <1>1. \A p : Loud(p)' <=> Loud(p)
    BY DEF Loud
  <1>2. Dropped' = Dropped
    BY DEF Dropped, Loud
  <1> QED
    BY <1>1, <1>2

LEMMA Carried ==
    ASSUME track' = track, TypeOK', InvOf(emu', heard', pc')
    PROVE  EmuInv'
  <1>1. Dropped' = Dropped /\ \A p : Loud(p)' <=> Loud(p)
    BY SameTrack
  <1>2. Live(emu', emu'.out_time) => Live(emu, emu.out_time)'
    BY <1>1 DEF Live, InStep, Ahead, SilentAhead, Buffered, Failed
  <1>3. Starting(emu') => Starting(emu)'
    BY <1>1 DEF Starting, Dropping, Lead, Failed
  <1>4. InOrder(heard') => InOrder(heard)'
    BY <1>1 DEF InOrder
  <1>5. Reason(emu', heard'.gains) => Reason(emu, heard.gains)'
    BY <1>1 DEF Reason, Failed, FadedOut
  <1> QED
    BY <1>2, <1>3, <1>4, <1>5 DEF EmuInv, InvOf

HeardT == [at : Nat, start : Int, frames : Seq(Nat \cup {Silent}),
           gains : Seq(0..Unit)]

LEMMA TypesNext ==
    ASSUME track' \in Tracks, emu' \in EmuT, heard' \in HeardT,
           native' \in [fade : Nat, error : {"none", "load", "not ready"}],
           pc' \in {"top", "over", "start", "play", "dead"},
           target' \in Nat \cup {Nowhere},
           mine' \in BOOLEAN, queued' \in BOOLEAN
    PROVE  TypeOK'
  BY DEF TypeOK, EmuT, Ints, HeardT

LEMMA Nothing == NothingHeard \in HeardT /\ InOrder(NothingHeard)
  <1>1. << >> \in Seq(Nat \cup {Silent}) /\ << >> \in Seq(0..Unit)
    OBVIOUS
  <1>2. NothingHeard \in HeardT
    BY <1>1 DEF NothingHeard, HeardT
  <1>3. DOMAIN NothingHeard.frames = {}
    BY DEF NothingHeard
  <1> QED
    BY <1>2, <1>3 DEF InOrder

LEMMA InvSameSound ==
    ASSUME NEW t, NEW e, NEW h, NEW c, SameSound(t, e), InvOf(e, h, c)
    PROVE  InvOf(t, h, c)
  <1>1. Live(e, e.out_time) => Live(t, t.out_time)
    BY DEF SameSound, Live, InStep, Ahead, SilentAhead, Buffered, Failed
  <1>2. Starting(e) => Starting(t)
    BY DEF SameSound, Starting, Dropping, Failed
  <1>3. Reason(e, h.gains) => Reason(t, h.gains)
    BY DEF SameSound, Reason, Failed
  <1> QED
    BY <1>1, <1>2, <1>3 DEF InvOf, SameSound

\* An emulator with nothing to play.
LEMMA InvOfNone ==
    ASSUME NEW e, NEW h, NEW c, c # "start", InOrder(h),
           ~e.playable, e.track_ended, e.emu_track_ended
    PROVE  InvOf(e, h, c)
  BY DEF InvOf

\* What an action needs of EmuInv.
LEMMA Facts ==
    ASSUME EmuInv
    PROVE  /\ emu \in EmuT /\ track \in Tracks /\ heard \in HeardT
           /\ emu.out_time \in Nat /\ emu.buf_remain \in 0..buf_size
           /\ native \in [fade : Nat, error : {"none", "load", "not ready"}]
           /\ native.fade \in Nat
           /\ pc \in {"top", "over", "start", "play", "dead"}
           /\ target \in Nat \cup {Nowhere}
           /\ mine \in BOOLEAN /\ queued \in BOOLEAN
           /\ InvOf(emu, heard, pc)
  <1>1. /\ emu \in EmuT /\ heard \in HeardT
        /\ native \in [fade : Nat, error : {"none", "load", "not ready"}]
    BY DEF EmuInv, TypeOK, EmuT, Ints, HeardT
  <1> QED
    BY <1>1 DEF EmuInv, TypeOK, EmuT

-----------------------------------------------------------------------------
(***************************************************************************)
(* The actions.                                                            *)
(***************************************************************************)
LEMMA InitInv ==
    ASSUME Init
    PROVE  EmuInv
  <1> DEFINE half == 2^(Width - 2)
  <1>1. half \in Ints
    BY EmuAssumption DEF Ints
  <1>2. 0 \in 0..buf_size
    BY Sizes
  <1> HIDE DEF half
  <1>3. emu \in EmuT
    BY <1>1, <1>2 DEF Init, EmuT, half
  <1>4. TypeOK
    BY <1>3, Nothing DEF Init, TypeOK, EmuT, Ints, HeardT
  <1>5. InvOf(emu, heard, pc)
    <2>1. /\ ~emu.playable /\ emu.track_ended /\ emu.emu_track_ended
          /\ heard = NothingHeard /\ pc = "top"
      BY DEF Init
    <2> QED
      BY <2>1, InvOfNone, Nothing
  <1> QED
    BY <1>4, <1>5 DEF EmuInv

\* The emulator and what was heard are left as they are, outside start_track.
LEMMA IdleInv ==
    ASSUME EmuInv, Skip \/ WaitForWriter \/ ReadNextSamples \/ ReadFails
    PROVE  EmuInv'
  <1>1. /\ track' = track /\ emu' = emu /\ heard' = heard
        /\ pc # "start" /\ pc' # "start"
        /\ pc' \in {"top", "over", "start", "play", "dead"}
        /\ target' = target
    BY Facts DEF Skip, WaitForWriter, ReadNextSamples, ReadFails
  <1>2. queued' \in BOOLEAN /\ mine' \in BOOLEAN
    <2>1. emu.track_ended \in BOOLEAN
      BY Facts DEF EmuT
    <2> QED
      BY <2>1, Facts DEF Skip, WaitForWriter, ReadNextSamples, ReadFails
  <1>3. native' \in [fade : Nat, error : {"none", "load", "not ready"}]
    BY Facts DEF Skip, WaitForWriter, ReadNextSamples, ReadFails
  <1>4. TypeOK'
    BY <1>1, <1>2, <1>3, Facts, TypesNext
  <1>5. InvOf(emu', heard', pc')
    BY <1>1, Facts DEF InvOf
  <1> QED
    BY <1>1, <1>4, <1>5, Carried

LEMMA DeleteInv ==
    ASSUME EmuInv, StopAndStart \/ LoadOther \/ LoadFails
    PROVE  EmuInv'
  <1> DEFINE d == Deleted(emu)
  <1>1. /\ d \in EmuT /\ ~d.loaded /\ ~d.playable
        /\ d.emu_track_ended /\ d.track_ended
    BY Facts, DeletedFacts
  <1> HIDE DEF d
  <1>2. /\ emu' \in EmuT /\ ~emu'.playable
        /\ emu'.track_ended /\ emu'.emu_track_ended
    <2>1. CASE StopAndStart \/ LoadOther
      BY <1>1, <2>1 DEF StopAndStart, LoadOther, d
    <2>2. CASE LoadFails
      <3>1. PICK identified \in BOOLEAN :
              emu' = [d EXCEPT !.loaded = identified]
        BY <2>2 DEF LoadFails, d
      <3>2. emu' \in EmuT
        BY <1>1, <3>1 DEF EmuT
      <3>3. /\ emu'.playable = d.playable
            /\ emu'.track_ended = d.track_ended
            /\ emu'.emu_track_ended = d.emu_track_ended
        BY <1>1, <3>1 DEF EmuT
      <3> QED
        BY <1>1, <3>2, <3>3
    <2> QED
      BY <2>1, <2>2
  <1>3. /\ track' = track /\ pc' # "start"
        /\ pc' \in {"top", "over", "start", "play", "dead"}
        /\ target' = target
        /\ queued' \in BOOLEAN /\ mine' \in BOOLEAN
    BY Facts DEF StopAndStart, LoadOther, LoadFails
  <1>4. heard' \in HeardT /\ InOrder(heard')
    BY Facts, Nothing DEF StopAndStart, LoadOther, LoadFails, InvOf
  <1>5. native' \in [fade : Nat, error : {"none", "load", "not ready"}]
    <2> DEFINE n == teardown(native)
    <2>1. n \in [fade : Nat, error : {"none", "load", "not ready"}]
      BY Facts DEF teardown
    <2> HIDE DEF n
    <2>2. native' = n \/ native' = [n EXCEPT !.error = "load"]
      BY DEF StopAndStart, LoadOther, LoadFails, n
    <2> QED
      BY <2>1, <2>2
  <1>6. TypeOK'
    BY <1>2, <1>3, <1>4, <1>5, Facts, TypesNext
  <1>7. InvOf(emu', heard', pc')
    BY <1>2, <1>3, <1>4, InvOfNone
  <1> QED
    BY <1>3, <1>6, <1>7, Carried

\* start_track, before its first block of silence.
LEMMA StartingFacts ==
    ASSUME NEW u \in EmuT, u.loaded, u.playable, u.emu_time = 0, u.pos = 0,
           u.buf_remain = 0, ~u.emu_track_ended, ~u.track_ended
    PROVE  InvOf(u, NothingHeard, "start")
  <1>1. Dropping(u)
    <2>1. Lead(0) /\ 0 * buf_size = 0
      BY Sizes DEF Lead
    <2> QED
      BY <2>1 DEF Dropping
  <1> QED
    BY <1>1, Nothing DEF InvOf, Starting

LEMMA LoadFileInv ==
    ASSUME EmuInv, LoadFile
    PROVE  EmuInv'
  <1> DEFINE t == start_track(Deleted(emu))
             yes == TRUE
             x == [t EXCEPT !.loaded = yes]
             y == [x EXCEPT !.playable = yes]
  <1>1. /\ t \in EmuT /\ t.emu_time = 0 /\ t.pos = 0 /\ t.buf_remain = 0
        /\ ~t.emu_track_ended /\ ~t.track_ended
    BY Facts, DeletedFacts, StartTrackFacts
  <1>2. emu' = [t EXCEPT !.loaded = TRUE, !.playable = TRUE]
    BY DEF LoadFile
  <1> HIDE DEF t
  <1>3. emu' = y /\ yes \in BOOLEAN /\ yes
    BY <1>1, <1>2 DEF EmuT
  <1> HIDE DEF yes
  <1>4. /\ x \in EmuT /\ x.emu_time = 0 /\ x.pos = 0 /\ x.buf_remain = 0
        /\ x.loaded = yes
    BY <1>1, <1>3 DEF EmuT
  <1>5. ~x.emu_track_ended /\ ~x.track_ended
    BY <1>1 DEF EmuT
  <1> HIDE DEF x
  <1>6. /\ y \in EmuT /\ y.emu_time = 0 /\ y.pos = 0 /\ y.buf_remain = 0
        /\ y.playable = yes /\ y.loaded = yes
    BY <1>3, <1>4 DEF EmuT
  <1>7. ~y.emu_track_ended /\ ~y.track_ended
    BY <1>4, <1>5 DEF EmuT
  <1> HIDE DEF y
  <1>8. InvOf(y, NothingHeard, "start")
    BY <1>3, <1>6, <1>7, StartingFacts
  <1>9. native' \in [fade : Nat, error : {"none", "load", "not ready"}]
    BY Facts DEF LoadFile, teardown
  <1>10. /\ track' = track /\ heard' = NothingHeard /\ pc' = "start"
         /\ target' = Nowhere /\ mine' \in BOOLEAN /\ queued' \in BOOLEAN
    BY DEF LoadFile
  <1>11. TypeOK'
    BY <1>3, <1>6, <1>9, <1>10, Facts, Nothing, TypesNext
  <1> QED
    BY <1>3, <1>8, <1>10, <1>11, Carried

LEMMA SetTempoInv ==
    ASSUME EmuInv, SetTempo
    PROVE  EmuInv'
  <1>1. emu' \in EmuT /\ SameSound(emu', emu)
    BY Facts, Sizes, SetFadeFacts DEF SetTempo
  <1>2. /\ track' = track /\ native' = native /\ heard' = heard
        /\ pc' = pc /\ target' = target /\ mine' = mine /\ queued' = queued
    BY DEF SetTempo
  <1>3. TypeOK'
    BY <1>1, <1>2, Facts, TypesNext
  <1>4. InvOf(emu', heard', pc')
    BY <1>1, <1>2, Facts, InvSameSound
  <1> QED
    BY <1>2, <1>3, <1>4, Carried

\* A seek ahead: a track that has ended stays so, for the reason it had; one
\* that ends has failed.
LEMMA SkippedFacts ==
    ASSUME track \in Tracks, NEW e \in EmuT, NEW count \in Nat, NEW h, NEW c,
           NEW d, c # "start", d # "start", InvOf(e, h, c),
           NEW g, g = IF e.track_ended THEN h ELSE NothingHeard
    PROVE  skip(e, count) \in EmuT /\ InvOf(skip(e, count), g, d)
  <1> DEFINE t == skip(e, count)
  <1>1. /\ t \in EmuT /\ SameFade(t, e)
        /\ t.out_time = e.out_time + count
        /\ e.track_ended => t.track_ended
        /\ t.track_ended => e.track_ended \/ t.emu_track_ended
        /\ e.emu_track_ended => t.emu_track_ended /\ t.pos = e.pos
        /\ ~e.emu_track_ended /\ t.emu_track_ended => Failed(t)
    BY SkipFacts DEF Failed
  <1>2. e.playable => Live(t, t.out_time)
    BY <1>1, LiveSkip DEF InvOf
  <1> HIDE DEF t
  <1>3. InOrder(g)
    BY Nothing DEF InvOf
  <1>4. ASSUME t.track_ended, t.playable
        PROVE  Reason(t, g.gains)
    <2>1. e.playable
      BY <1>1, <1>4 DEF SameFade
    <2>2. CASE e.track_ended
      <3>1. Reason(e, g.gains) /\ t.pos = e.pos
        BY <1>1, <2>1, <2>2 DEF InvOf
      <3> QED
        BY <3>1, ReasonSame
    <2>3. CASE ~e.track_ended
      <3>1. t.emu_track_ended
        BY <1>1, <1>4, <2>3
      <3>2. CASE ~e.emu_track_ended
        BY <1>1, <3>1, <3>2 DEF Reason
      <3>3. CASE e.emu_track_ended
        <4>1. Failed(e) /\ t.pos = e.pos
          BY <1>1, <2>1, <2>3, <3>3 DEF InvOf, Live
        <4> QED
          BY <4>1 DEF Reason, Failed
      <3> QED
        BY <3>2, <3>3
    <2> QED
      BY <2>2, <2>3
  <1>5. /\ t.track_ended => t.emu_track_ended
        /\ t.playable => t.loaded
        /\ ~t.playable => t.track_ended
    BY <1>1 DEF InvOf, SameFade
  <1>6. InvOf(t, g, d)
    BY <1>1, <1>2, <1>3, <1>4, <1>5 DEF InvOf, SameFade
  <1> QED
    BY <1>1, <1>6 DEF t

LEMMA SeekInv ==
    ASSUME EmuInv, Seek
    PROVE  EmuInv'
  <1>1. PICK ms \in Targets :
          LET time == msec_to_samples(ms)
              back == time < emu.out_time
          IN  /\ emu' = IF ~emu.loaded THEN emu
                        ELSE IF back /\ emu.playable THEN start_track(emu)
                        ELSE set_fade(IF back THEN Cleared(emu)
                                      ELSE skip(emu, time - emu.out_time),
                                      native.fade)
              /\ IF back /\ emu.playable
                 THEN pc' = "start" /\ target' = time
                 ELSE pc' = "over" /\ UNCHANGED target
              /\ heard' = IF emu.track_ended /\ ~back THEN heard
                          ELSE NothingHeard
    BY Zenon DEF Seek
  <1> DEFINE time == msec_to_samples(ms)
  <1>2. time \in Nat
    BY TargetsAssumption
  <1> HIDE DEF time
  <1>3. /\ track' = track /\ native' = native /\ mine' = mine
        /\ queued' = queued /\ pc # "start"
    BY DEF Seek
  <1>4. heard' \in HeardT /\ InOrder(heard')
    BY <1>1, Facts, Nothing DEF InvOf
  <1>5. pc' \in {"start", "over"} /\ target' \in Nat \cup {Nowhere}
    BY <1>1, <1>2, Facts DEF time
  <1>6. emu' \in EmuT /\ InvOf(emu', heard', pc')
    <2>1. CASE ~emu.loaded
      <3>1. ~emu.playable /\ emu.track_ended /\ emu.emu_track_ended
        BY <2>1, Facts DEF InvOf
      <3>2. emu' = emu /\ pc' = "over"
        BY <1>1, <2>1, <3>1
      <3> QED
        BY <1>4, <3>1, <3>2, Facts, InvOfNone
    <2>2. CASE emu.loaded /\ time < emu.out_time /\ emu.playable
      <3>1. /\ emu' = start_track(emu) /\ pc' = "start"
            /\ heard' = NothingHeard
        BY <1>1, <2>2 DEF time
      <3> QED
        BY <2>2, <3>1, Facts, StartTrackFacts, StartingFacts
    <2>3. CASE emu.loaded /\ time < emu.out_time /\ ~emu.playable
      <3> DEFINE c == Cleared(emu)
      <3>1. /\ c \in EmuT /\ ~c.playable
            /\ c.track_ended /\ c.emu_track_ended
        BY <2>3, Facts, ClearedFacts
      <3>2. emu' = set_fade(c, native.fade) /\ pc' = "over"
        BY <1>1, <2>3 DEF time
      <3> HIDE DEF c
      <3>3. emu' \in EmuT /\ SameSound(emu', c)
        BY <3>1, <3>2, Facts, SetFadeFacts
      <3> QED
        BY <1>4, <3>1, <3>2, <3>3, InvOfNone DEF SameSound
    <2>4. CASE emu.loaded /\ ~(time < emu.out_time)
      <3> DEFINE count == time - emu.out_time
                 t == skip(emu, count)
      <3>1. count \in Nat
        <4>1. emu.out_time \in Nat
          BY Facts
        <4> QED
          BY <1>2, <2>4, <4>1
      <3>2. emu' = set_fade(t, native.fade) /\ pc' = "over"
        BY <1>1, <2>4 DEF time
      <3>3. heard' = IF emu.track_ended THEN heard ELSE NothingHeard
        BY <1>1, <2>4 DEF time
      <3> HIDE DEF count
      <3>4. t \in EmuT /\ InvOf(t, heard', "over")
        BY <1>3, <3>1, <3>3, Facts, SkippedFacts
      <3> HIDE DEF t
      <3>5. emu' \in EmuT /\ SameSound(emu', t)
        BY <3>2, <3>4, Facts, SetFadeFacts
      <3> QED
        BY <3>2, <3>4, <3>5, InvSameSound
    <2> QED
      BY <2>1, <2>2, <2>3, <2>4
  <1>7. TypeOK'
    BY <1>3, <1>4, <1>5, <1>6, Facts, TypesNext
  <1> QED
    BY <1>3, <1>6, <1>7, Carried

LEMMA DropSilenceInv ==
    ASSUME EmuInv, DropSilence
    PROVE  EmuInv'
  <1> DEFINE t == fill_buf(emu)
  <1>1. /\ pc = "start" /\ emu.buf_remain = 0 /\ ~emu.emu_track_ended
        /\ emu.emu_time < InitialMax /\ emu' = t
        /\ track' = track /\ native' = native /\ heard' = heard
        /\ pc' = pc /\ target' = target /\ mine' = mine /\ queued' = queued
    BY DEF DropSilence, StartIsSilent
  <1>2. /\ Starting(emu) /\ emu.loaded /\ InOrder(heard)
        /\ emu.pos \in Nat /\ emu.emu_time \in Nat
    BY <1>1, Facts DEF InvOf, EmuT
  <1>3. /\ t \in EmuT /\ SameFade(t, emu)
        /\ t.track_ended = emu.track_ended
        /\ t.pos = emu.pos + buf_size
        /\ t.emu_time = emu.emu_time + buf_size
        /\ t.emu_track_ended => Failed(t)
        /\ \/ /\ \A i \in 0..(buf_size - 1) : ~Loud(emu.pos + i)
              /\ t.buf_remain = 0
           \/ /\ \E i \in 0..(buf_size - 1) : Loud(emu.pos + i)
              /\ t.buf_remain = buf_size /\ t.buf = emu.pos
    BY <1>1, Facts, FillBufFacts DEF Failed
  <1> HIDE DEF t
  <1>4. PICK k \in Nat : Lead(k) /\ emu.pos = k * buf_size
    BY <1>1, <1>2, Sizes DEF Starting, Dropping
  <1> DEFINE kb == k * buf_size
             lb == (k + 1) * buf_size
  <1>5. lb = kb + buf_size
    BY Products
  <1>6. Dropping(t)
    <2>1. CASE /\ \A i \in 0..(buf_size - 1) : ~Loud(emu.pos + i)
               /\ t.buf_remain = 0
      <3>1. Lead(k + 1)
        <4> SUFFICES ASSUME NEW j \in 0..k
                     PROVE  /\ j * buf_size < InitialMax
                            /\ \A i \in 0..(buf_size - 1) :
                                 ~Loud(j * buf_size + i)
          BY DEF Lead
        <4>1. CASE j = k
          BY <1>1, <1>2, <1>4, <2>1, <4>1 DEF Starting
        <4>2. CASE j # k
          <5>1. j \in 0..(k - 1)
            BY <4>2
          <5> QED
            BY <1>4, <5>1 DEF Lead
        <4> QED
          BY <4>1, <4>2
      <3>2. t.pos = lb
        BY <1>3, <1>4, <1>5
      <3>3. k + 1 \in Nat
        OBVIOUS
      <3> QED
        BY <2>1, <3>1, <3>2, <3>3 DEF Dropping
    <2>2. CASE /\ \E i \in 0..(buf_size - 1) : Loud(emu.pos + i)
               /\ t.buf_remain = buf_size /\ t.buf = emu.pos
      BY <1>3, <1>4, <2>2 DEF Dropping
    <2> QED
      BY <1>3, <2>1, <2>2
  <1>7. Starting(t)
    BY <1>2, <1>3, <1>6 DEF Starting, SameFade
  <1>8. InvOf(t, heard, "start")
    BY <1>2, <1>3, <1>7 DEF InvOf, Starting, SameFade
  <1>9. TypeOK'
    BY <1>1, <1>3, Facts, TypesNext
  <1> QED
    BY <1>1, <1>8, <1>9, Carried

\* start_track returns: the track plays from the block it has found.
LEMMA StartedFacts ==
    ASSUME EmuInv, pc = "start", ~StartIsSilent
    PROVE  /\ Started \in EmuT /\ Started.out_time = 0
           /\ ~Started.track_ended
           /\ \A h, c : InOrder(h) /\ c # "start" => InvOf(Started, h, c)
  <1> DEFINE t == Started
             bs == buf_size
  <1>0. emu \in EmuT /\ emu.buf_remain \in Nat /\ bs \in Nat /\ bs > 0
    <2>1. emu \in EmuT /\ emu.buf_remain \in 0..bs
      BY Facts
    <2>2. bs \in Nat /\ bs > 0
      BY Sizes
    <2> HIDE DEF bs
    <2> QED
      BY <2>1, <2>2
  <1>1. t = [emu EXCEPT !.emu_time = emu.buf_remain, !.out_time = 0,
                        !.silence_time = 0, !.silence_count = 0]
    BY DEF Started
  <1> HIDE DEF t
  <1>2. /\ t \in EmuT /\ t.out_time = 0 /\ t.emu_time = emu.buf_remain
        /\ t.silence_time = 0 /\ t.silence_count = 0
        /\ t.buf_remain = emu.buf_remain /\ t.buf = emu.buf
        /\ t.pos = emu.pos
    BY <1>0, <1>1 DEF EmuT
  <1>3. /\ t.track_ended = emu.track_ended
        /\ t.emu_track_ended = emu.emu_track_ended
        /\ t.loaded = emu.loaded /\ t.playable = emu.playable
    BY <1>0, <1>1 DEF EmuT
  <1>4. Starting(emu) /\ emu.loaded
    BY Facts DEF InvOf, Starting
  <1>5. emu.emu_track_ended => Failed(t)
    BY <1>2, <1>4 DEF Starting, Failed
  <1>6. PICK k \in Nat :
          /\ Lead(k)
          /\ \/ emu.pos = k * buf_size /\ emu.buf_remain = 0
             \/ /\ emu.pos = k * buf_size + buf_size
                /\ emu.buf_remain = buf_size /\ emu.buf = k * buf_size
                /\ \E i \in 0..(buf_size - 1) : Loud(k * buf_size + i)
    BY <1>4 DEF Starting, Dropping
  <1> DEFINE kb == k * buf_size
  <1>7. kb \in Nat /\ Dropped \in Nat /\ kb <= Dropped
    BY <1>6, Products, DroppedFacts
  <1>8. Live(t, 0)
    <2>1. CASE /\ emu.pos = kb + buf_size
               /\ emu.buf_remain = buf_size /\ emu.buf = kb
               /\ \E i \in 0..(buf_size - 1) : Loud(k * buf_size + i)
      <3>1. kb = Dropped
        BY <1>6, <2>1, DroppedFacts
      <3> HIDE DEF kb
      <3>2. /\ t.pos = Dropped + bs /\ t.buf_remain = bs /\ t.buf = Dropped
            /\ t.emu_time = bs
        BY <1>2, <2>1, <3>1
      <3>3. InStep(t, 0)
        BY <1>0, <1>2, <1>7, <3>2 DEF InStep, Ahead
      <3>4. SilentAhead(t, 0) /\ Buffered(t, 0)
        BY <1>0, <1>2, <1>7, <3>2 DEF SilentAhead, Buffered, Ahead
      <3> QED
        BY <1>3, <1>5, <3>3, <3>4 DEF Live
    <2>2. CASE emu.pos = kb /\ emu.buf_remain = 0
      <3>1. ~emu.emu_track_ended => kb = Dropped
        <4> SUFFICES ASSUME ~emu.emu_track_ended PROVE kb = Dropped
          OBVIOUS
        <4>1. kb >= InitialMax
          BY <1>4, <1>7, <2>2, Sizes DEF StartIsSilent, Starting
        <4> QED
          BY <1>6, <4>1, DroppedFacts
      <3> HIDE DEF kb
      <3>2. t.pos = kb /\ t.buf_remain = 0 /\ t.emu_time = 0
        BY <1>2, <2>2
      <3>3. Ahead(t, 0) = Dropped
        BY <1>2, <1>7, <3>2 DEF Ahead
      <3>4. InStep(t, 0)
        BY <1>2, <1>3, <1>7, <3>1, <3>2, <3>3 DEF InStep
      <3>5. SilentAhead(t, 0) /\ Buffered(t, 0)
        BY <1>2, <3>2 DEF SilentAhead, Buffered
      <3> QED
        BY <1>3, <1>5, <3>4, <3>5 DEF Live
    <2> QED
      BY <1>6, <2>1, <2>2
  <1>9. ~t.track_ended /\ t.playable /\ t.loaded
    BY <1>3, <1>4 DEF Starting
  <1>10. ASSUME NEW h, NEW c, InOrder(h), c # "start"
         PROVE  InvOf(t, h, c)
    BY <1>2, <1>8, <1>9, <1>10 DEF InvOf
  <1> QED
    BY <1>2, <1>9, <1>10 DEF t

LEMMA LoadReturnsInv ==
    ASSUME EmuInv, LoadReturns
    PROVE  EmuInv'
  <1>1. /\ pc = "start" /\ ~StartIsSilent
        /\ emu' = set_fade(Started, track.length)
        /\ native' = [native EXCEPT !.fade = track.length]
        /\ track' = track /\ heard' = heard /\ pc' = "top"
        /\ target' = target /\ mine' = mine /\ queued' = queued
    BY DEF LoadReturns
  <1>2. track.length \in Nat
    BY Facts, TrackType
  <1>3. InOrder(heard)
    BY Facts DEF InvOf
  <1> DEFINE s == Started
  <1>4. s \in EmuT /\ InvOf(s, heard, "top")
    BY <1>1, <1>3, StartedFacts
  <1> HIDE DEF s
  <1>5. emu' \in EmuT /\ SameSound(emu', s)
    BY <1>1, <1>2, <1>4, SetFadeFacts DEF s
  <1>6. InvOf(emu', heard', pc')
    BY <1>1, <1>4, <1>5, InvSameSound
  <1>7. native' \in [fade : Nat, error : {"none", "load", "not ready"}]
    BY <1>1, <1>2, Facts
  <1>8. TypeOK'
    BY <1>1, <1>5, <1>7, Facts, TypesNext
  <1> QED
    BY <1>1, <1>6, <1>8, Carried

LEMMA SeekReturnsInv ==
    ASSUME EmuInv, SeekReturns
    PROVE  EmuInv'
  <1>1. /\ pc = "start" /\ ~StartIsSilent /\ target # Nowhere
        /\ emu' = set_fade(skip(Started, target), native.fade)
        /\ native' = native
        /\ track' = track /\ heard' = heard /\ pc' = "over"
        /\ target' = Nowhere /\ mine' = mine /\ queued' = queued
    BY DEF SeekReturns
  <1>2. target \in Nat
    BY <1>1, Facts
  <1>3. InOrder(heard)
    BY Facts DEF InvOf
  <1> DEFINE s == Started
             t == skip(s, target)
  <1>4. s \in EmuT /\ InvOf(s, heard, "top") /\ ~s.track_ended
    BY <1>1, <1>3, StartedFacts
  <1>5. emu' = set_fade(t, native.fade)
    BY <1>1
  <1> HIDE DEF s
  <1>6. t \in EmuT /\ InvOf(t, NothingHeard, "over")
    BY <1>2, <1>4, Facts, SkippedFacts
  <1> HIDE DEF t
  <1>7. InvOf(t, heard, "over")
    <2>1. ~FadedOut(NothingHeard.gains)
      BY DEF FadedOut, NothingHeard
    <2> QED
      BY <1>3, <1>6, <2>1 DEF InvOf, Reason
  <1>8. emu' \in EmuT /\ SameSound(emu', t)
    BY <1>5, <1>6, Facts, SetFadeFacts
  <1>9. InvOf(emu', heard', pc')
    BY <1>1, <1>7, <1>8, InvSameSound
  <1>10. TypeOK'
    BY <1>1, <1>8, Facts, TypesNext
  <1> QED
    BY <1>1, <1>9, <1>10, Carried

LEMMA LookAheadInv ==
    ASSUME EmuInv, LookAhead
    PROVE  EmuInv'
  <1> DEFINE t == fill_buf(emu)
  <1>1. /\ pc = "play" /\ ~emu.track_ended
        /\ emu.buf_remain = 0 /\ ~emu.emu_track_ended /\ emu' = t
        /\ track' = track /\ native' = native /\ heard' = heard
        /\ pc' = pc /\ target' = target /\ mine' = mine /\ queued' = queued
    BY DEF LookAhead, BehindSilence
  <1>2. /\ t \in EmuT /\ SameFade(t, emu) /\ t.out_time = emu.out_time
        /\ t.track_ended = emu.track_ended
    BY Facts, FillBufFacts
  <1>3. emu.playable /\ emu.loaded /\ InOrder(heard)
        /\ Live(emu, emu.out_time)
    BY <1>1, Facts DEF InvOf
  <1>4. Live(t, emu.out_time)
    BY <1>1, <1>3, Facts, LiveFillBuf
  <1> HIDE DEF t
  <1>5. InvOf(t, heard, pc)
    BY <1>1, <1>2, <1>3, <1>4 DEF InvOf, SameFade
  <1>6. TypeOK'
    BY <1>1, <1>2, Facts, TypesNext
  <1> QED
    BY <1>1, <1>5, <1>6, Carried

LEMMA FadeGainsType ==
    ASSUME TypeOK, NEW at, NEW gains \in FadeGains(at)
    PROVE  gains \in Seq(0..Unit)
  <1> DEFINE n == (Buf + FadeBlock - 1) \div FadeBlock
  <1>1. n \in Nat
    BY Sizes
  <1> HIDE DEF n
  <1>2. gains = << >> \/ gains \in [1..n -> 0..Unit]
    BY DEF FadeGains, n
  <1>3. ASSUME gains \in [1..n -> 0..Unit]
        PROVE  gains \in Seq(0..Unit)
    BY <1>1, <1>3, SeqDef, Zenon
  <1>4. << >> \in Seq(0..Unit)
    OBVIOUS
  <1> QED
    BY <1>2, <1>3, <1>4

LEMMA PlayInv ==
    ASSUME EmuInv, Play
    PROVE  EmuInv'
  <1>0. /\ emu \in EmuT /\ track \in Tracks /\ emu.out_time \in Nat
        /\ Buf \in Nat /\ TypeOK /\ InvOf(emu, heard, pc)
    BY Facts, Sizes DEF EmuInv
  <1>1. /\ pc = "play" /\ ~BehindSilence /\ pc' = "top"
        /\ track' = track /\ target' = target /\ mine' = mine
        /\ queued' = queued /\ native' = [native EXCEPT !.error = "none"]
    BY DEF Play
  <1>2. native' \in [fade : Nat, error : {"none", "load", "not ready"}]
    BY <1>1, Facts
  <1>3. /\ emu' \in EmuT /\ heard' \in HeardT /\ InvOf(emu', heard', pc')
    <2>1. CASE emu.track_ended
      <3> DEFINE out == emu.out_time + Buf
      <3>1. emu' = [emu EXCEPT !.out_time = out] /\ heard' = heard
        BY <2>1 DEF Play
      <3>2. out \in Nat
        BY <1>0
      <3> HIDE DEF out
      <3>3. /\ emu' \in EmuT /\ SameFade(emu', emu) /\ SamePlace(emu', emu)
        BY <1>0, <3>1, <3>2 DEF EmuT, SameFade, SamePlace
      <3>4. /\ emu'.track_ended = emu.track_ended
            /\ emu'.emu_track_ended = emu.emu_track_ended
        BY <1>0, <3>1 DEF EmuT
      <3>5. Live(emu', emu'.out_time)
        BY <2>1, <3>4 DEF Live
      <3>6. emu.playable => Reason(emu', heard'.gains)
        <4>1. emu'.pos = emu.pos
          BY <3>3 DEF SamePlace
        <4>2. emu.playable => Reason(emu, heard.gains)
          BY <1>0, <2>1 DEF InvOf
        <4> QED
          BY <3>1, <4>1, <4>2, ReasonSame
      <3>7. InvOf(emu', heard', pc')
        BY <1>0, <1>1, <3>1, <3>3, <3>4, <3>5, <3>6 DEF InvOf, SameFade
      <3> QED
        BY <3>1, <3>3, <3>7, Facts
    <2>2. CASE ~emu.track_ended
      <3>1. PICK s, k, r \in Nat, q, p, g \in EmuT,
                 gains \in FadeGains(emu.out_time) :
             /\ Played(s, k, r, q, p, g)
             /\ emu' = Faded(g, gains)
             /\ heard' = [at |-> emu.out_time, start |-> emu.fade_start,
                          frames |-> Frames(q, p, s, k, r), gains |-> gains]
        BY <1>0, <2>2, PlayFacts
      <3>2. emu.playable /\ emu.loaded /\ Live(emu, emu.out_time)
        BY <1>0, <1>1, <2>2 DEF InvOf
      <3> DEFINE h == Faded(g, gains)
      <3>3. h \in EmuT /\ h.out_time = emu.out_time + Buf
        BY <1>0, FadedFacts
      <3>4. /\ Live(h, emu.out_time + Buf)
            /\ h.track_ended => h.emu_track_ended /\ Reason(h, gains)
            /\ h.loaded = emu.loaded /\ h.playable = emu.playable
        BY <1>0, <1>1, <2>2, <3>1, <3>2, PlayedOn
      <3> HIDE DEF h
      <3> DEFINE f == Frames(q, p, s, k, r)
      <3>5. FramesAre(f, q, p, s, k, r)
        BY FramesFacts, Zenon
      <3>6. ASSUME NEW i \in DOMAIN f
            PROVE  \/ f[i] = Dropped + emu.out_time - 1 + i
                   \/ f[i] = Silent /\ ~Loud(Dropped + emu.out_time - 1 + i)
        BY <1>0, <1>1, <2>2, <3>1, <3>2, PlayedInOrder, Zenon
      <3> HIDE DEF f
      <3>7. /\ heard'.at = emu.out_time /\ heard'.frames = f
            /\ heard'.gains = gains
        BY <3>1 DEF f
      <3>8. InOrder(heard')
        BY <3>6, <3>7 DEF InOrder
      <3>9. heard' \in HeardT
        <4>1. f \in Seq(Nat \cup {Silent})
          BY <3>5 DEF FramesAre
        <4>2. gains \in Seq(0..Unit)
          BY <1>0, FadeGainsType
        <4>3. emu.fade_start \in Int
          <5>1. emu.fade_start \in Ints
            BY <1>0 DEF EmuT
          <5> QED
            BY <5>1, EmuAssumption DEF Ints
        <4> QED
          BY <1>0, <3>1, <4>1, <4>2, <4>3 DEF HeardT, f
      <3>10. InvOf(h, heard', pc')
        BY <1>1, <3>2, <3>3, <3>4, <3>7, <3>8 DEF InvOf
      <3> QED
        BY <3>1, <3>3, <3>9, <3>10 DEF h
    <2> QED
      BY <2>1, <2>2
  <1>4. TypeOK'
    BY <1>1, <1>2, <1>3, Facts, TypesNext
  <1> QED
    BY <1>1, <1>3, <1>4, Carried

-----------------------------------------------------------------------------
LEMMA StepInv ==
    ASSUME EmuInv, [Next]_vars
    PROVE  EmuInv'
  <1>1. CASE Skip \/ WaitForWriter \/ ReadNextSamples \/ ReadFails
    BY <1>1, IdleInv
  <1>2. CASE StopAndStart \/ LoadOther \/ LoadFails
    BY <1>2, DeleteInv
  <1>3. CASE LoadFile
    BY <1>3, LoadFileInv
  <1>4. CASE Seek
    BY <1>4, SeekInv
  <1>5. CASE SetTempo
    BY <1>5, SetTempoInv
  <1>6. CASE DropSilence
    BY <1>6, DropSilenceInv
  <1>7. CASE LoadReturns
    BY <1>7, LoadReturnsInv
  <1>8. CASE SeekReturns
    BY <1>8, SeekReturnsInv
  <1>9. CASE LookAhead
    BY <1>9, LookAheadInv
  <1>10. CASE Play
    BY <1>10, PlayInv
  <1>11. CASE UNCHANGED vars
    <2>1. /\ track' = track /\ emu' = emu /\ native' = native
          /\ heard' = heard /\ pc' = pc /\ target' = target
          /\ mine' = mine /\ queued' = queued
      BY <1>11 DEF vars
    <2>2. TypeOK' /\ InvOf(emu', heard', pc')
      BY <2>1, Facts, TypesNext
    <2> QED
      BY <2>1, <2>2, Carried
  <1> QED
    BY <1>1, <1>2, <1>3, <1>4, <1>5, <1>6, <1>7, <1>8, <1>9, <1>10, <1>11
       DEF Next, ReaderStep

LEMMA Invariance == Spec => []EmuInv
  <1>1. EmuInv /\ [Next]_vars => EmuInv'
    BY StepInv
  <1> QED
    BY InitInv, <1>1, PTL DEF Spec

(***************************************************************************)
(* The emulator of the GME backend, what it plays and its silences and     *)
(* fades keep their types: no count of silence and no buffer goes below 0. *)
(***************************************************************************)
THEOREM EmuTypeCorrect == Spec => []TypeOK
  <1>1. EmuInv => TypeOK
    BY DEF EmuInv
  <1> QED
    BY Invariance, <1>1, PTL

(***************************************************************************)
(* play and skip, through any mixture of looking ahead, playing out of the *)
(* buffer and seeking: every frame the listener hears is the emulator's    *)
(* frame of that time, or silence where the emulator was silent.           *)
(***************************************************************************)
THEOREM HeardIsTheTrack == Spec => []HeardInOrder
  <1>1. EmuInv => HeardInOrder
    BY DEF EmuInv, InvOf, InOrder, HeardInOrder
  <1> QED
    BY Invariance, <1>1, PTL

(***************************************************************************)
(* play ends a track only because the emulator has failed, because its     *)
(* fade is over, or for silence that the emulator has really produced.     *)
(***************************************************************************)
THEOREM EndsHaveReasons == Spec => []EndsForAReason
  <1>1. EmuInv => EndsForAReason
    BY DEF EmuInv, InvOf, Reason, Failed, Window, EndsForAReason
  <1> QED
    BY Invariance, <1>1, PTL

-----------------------------------------------------------------------------
(***************************************************************************)
(* The curve of a fade.  Products, quotients and powers.                   *)
(***************************************************************************)
LEMMA Division ==
    ASSUME NEW a \in Nat, NEW d \in Nat \ {0}
    PROVE  /\ a \div d \in Nat /\ a % d \in 0..(d - 1)
           /\ a = d * (a \div d) + (a % d)
           /\ d * (a \div d) <= a
           /\ a < d * (a \div d) + d
OBVIOUS

LEMMA ProductsGrow ==
    ASSUME NEW j \in Nat, NEW k \in Nat, NEW d \in Nat, j <= k
    PROVE  d * j <= d * k /\ d * k \in Nat /\ d * j \in Nat
OBVIOUS

LEMMA DivisionIsGreatest ==
    ASSUME NEW a \in Nat, NEW d \in Nat \ {0}, NEW k \in Nat, d * k <= a
    PROVE  k <= a \div d
  <1> DEFINE q == a \div d
  <1>1. q \in Nat /\ a < d * q + d
    BY Division
  <1> HIDE DEF q
  <1>2. SUFFICES ASSUME q + 1 <= k PROVE FALSE
    BY <1>1 DEF q
  <1>3. d * (q + 1) <= d * k
    BY <1>1, <1>2, ProductsGrow
  <1>4. d * (q + 1) = d * q + d
    BY <1>1
  <1>5. d * q \in Nat /\ d * k \in Nat
    BY <1>1
  <1> QED
    BY <1>1, <1>3, <1>4, <1>5

LEMMA DivisionGrows ==
    ASSUME NEW a \in Nat, NEW b \in Nat, a <= b, NEW d \in Nat \ {0}
    PROVE  a \div d <= b \div d
  <1> DEFINE q == a \div d
  <1>1. q \in Nat /\ d * q <= a /\ d * q \in Nat
    BY Division
  <1> HIDE DEF q
  <1>2. d * q <= b
    BY <1>1
  <1>3. q <= b \div d
    BY <1>1, <1>2, DivisionIsGreatest
  <1> QED
    BY <1>3 DEF q

LEMMA DivisionIsLess ==
    ASSUME NEW a \in Nat, NEW d \in Nat \ {0}, NEW k \in Nat, a < d * k
    PROVE  a \div d < k
  <1> DEFINE q == a \div d
  <1>1. q \in Nat /\ d * q <= a /\ d * q \in Nat
    BY Division
  <1> HIDE DEF q
  <1>2. SUFFICES ASSUME k <= q PROVE FALSE
    BY <1>1 DEF q
  <1>3. d * k <= d * q
    BY <1>1, <1>2, ProductsGrow
  <1>4. d * k \in Nat
    OBVIOUS
  <1> QED
    BY <1>1, <1>3, <1>4

LEMMA LargerDivisor ==
    ASSUME NEW a \in Nat, NEW c \in Nat \ {0}, NEW d \in Nat \ {0}, c <= d
    PROVE  a \div d <= a \div c
  <1> DEFINE q == a \div d
  <1>1. q \in Nat /\ d * q <= a /\ d * q \in Nat
    BY Division
  <1> HIDE DEF q
  <1>2. q * c <= q * d /\ q * c \in Nat /\ q * d = d * q /\ q * c = c * q
    BY <1>1, ProductsGrow
  <1>3. c * q <= a
    BY <1>1, <1>2
  <1>4. q <= a \div c
    BY <1>1, <1>3, DivisionIsGreatest
  <1> QED
    BY <1>4 DEF q

\* Half of it, and then a part of that.
LEMMA HalfOfPart ==
    ASSUME NEW a \in Nat, NEW d \in Nat \ {0}
    PROVE  a \div (2 * d) <= (a \div 2) \div d
  <1> DEFINE q == a \div (2 * d)
  <1>1. 2 * d \in Nat \ {0}
    OBVIOUS
  <1>2. q \in Nat /\ (2 * d) * q <= a
    BY <1>1, Division
  <1> HIDE DEF q
  <1>3. (2 * d) * q = 2 * (d * q) /\ d * q \in Nat
    BY <1>2
  <1>4. 2 * (d * q) <= a
    BY <1>2, <1>3
  <1>5. d * q <= a \div 2 /\ a \div 2 \in Nat
    BY <1>3, <1>4, DivisionIsGreatest, Division
  <1>6. q <= (a \div 2) \div d
    BY <1>2, <1>5, DivisionIsGreatest
  <1> QED
    BY <1>6 DEF q

LEMMA Powers ==
    ASSUME NEW n \in 0..Width
    PROVE  2^n \in Nat \ {0} /\ 2^(n + 1) = 2 * 2^n
BY FadeAssumption

LEMMA PowersGrow ==
    ASSUME NEW m \in 0..Width, NEW n \in 0..Width, m <= n
    PROVE  2^m <= 2^n
  <1>0. Width \in Nat
    BY EmuAssumption
  <1> DEFINE S == {k \in Nat : m + k <= Width /\ ~(2^m <= 2^(m + k))}
  <1>1. S = {}
    <2>1. SUFFICES ASSUME S # {} PROVE FALSE
      OBVIOUS
    <2>2. S \in SUBSET Nat
      OBVIOUS
    <2> DEFINE k == Min(S)
    <2>3. k \in S /\ \A x \in S : k <= x
      <3> HIDE DEF S
      <3> QED
        BY <2>1, <2>2, MinExists
    <2> HIDE DEF k
    <2>4. k \in Nat /\ m + k <= Width /\ ~(2^m <= 2^(m + k))
      BY <2>3
    <2>5. k # 0
      <3>1. SUFFICES ASSUME k = 0 PROVE FALSE
        OBVIOUS
      <3>2. m + k = m
        BY <3>1
      <3>3. 2^(m + k) = 2^m /\ 2^m \in Nat
        BY <3>2, Powers
      <3> QED
        BY <2>4, <3>3
    <2>6. k - 1 \in Nat /\ ~(k <= k - 1) /\ m + (k - 1) \in 0..Width
          /\ (m + (k - 1)) + 1 = m + k
      BY <1>0, <2>4, <2>5
    <2>7. 2^m <= 2^(m + (k - 1))
      BY <2>3, <2>6
    <2> DEFINE j == m + (k - 1)
    <2>8. 2^j \in Nat /\ 2^(j + 1) = 2 * 2^j /\ 2^m \in Nat
      BY <2>6, Powers
    <2>9. 2^(j + 1) = 2^(m + k)
      BY <2>6
    <2> HIDE DEF j
    <2>10. 2^m <= 2^j
      BY <2>7 DEF j
    <2>11. 2^m <= 2^(j + 1)
      BY <2>8, <2>10
    <2> QED
      BY <2>4, <2>9, <2>11
  <1>2. n - m \in Nat /\ m + (n - m) = n
    BY <1>0
  <1>3. n - m \notin S
    BY <1>1
  <1>4. 2^m <= 2^(m + (n - m))
    BY <1>0, <1>2, <1>3
  <1> QED
    BY <1>2, <1>4

\* int_log, in a fade whose shift stays below the width of int.
Part(x) == ((x % FadeStep) * Unit) \div FadeStep
Full(x) == Unit - Part(x) + Part(x) \div 2
Gain(x) == Full(x) \div 2^(x \div FadeStep)

LEMMA FadeSizes ==
    /\ Width \in Nat \ {0} /\ fade_shift \in Nat /\ fade_shift < Width
    /\ FadeStep \in Nat \ {0} /\ Unit \in Nat \ {0} /\ FadeStep <= Unit
    /\ FadeBlock \in Nat \ {0} /\ Buf \in Nat \ {0}
    /\ Unit % 2^fade_shift = 0
BY EmuAssumption, FadeAssumption

LEMMA PartFacts ==
    ASSUME NEW r \in 0..(FadeStep - 1),
           NEW p, p = (r * Unit) \div FadeStep
    PROVE  p \in Nat /\ p < Unit /\ (r # 0 => p > 0)
  <1> DEFINE s == FadeStep
             u == Unit
             a == r * u
  <1>1. s \in Nat \ {0} /\ u \in Nat \ {0} /\ s <= u /\ r \in Nat /\ r < s
    BY FadeSizes
  <1>2. p = a \div s
    OBVIOUS
  <1> HIDE DEF s, u
  <1>3. a \in Nat
    BY <1>1
  <1>4. a < s * u
    <2>1. (r + 1) * u = a + u
      BY <1>1
    <2>2. u * (r + 1) <= u * s
      BY <1>1, ProductsGrow
    <2>3. u * (r + 1) = (r + 1) * u /\ u * s = s * u /\ s * u \in Nat
      BY <1>1
    <2> HIDE DEF a
    <2> QED
      BY <1>1, <1>3, <2>1, <2>2, <2>3
  <1>5. r # 0 => s <= a
    <2>1. SUFFICES ASSUME r # 0 PROVE s <= a
      OBVIOUS
    <2>2. u * 1 <= u * r /\ u * r = r * u
      BY <1>1, <2>1, ProductsGrow
    <2>3. u * 1 = u
      BY <1>1
    <2> HIDE DEF a
    <2> QED
      BY <1>1, <1>3, <2>2, <2>3 DEF a
  <1> HIDE DEF a
  <1>6. p \in Nat
    BY <1>1, <1>2, <1>3, Division
  <1>7. p < u
    BY <1>1, <1>2, <1>3, <1>4, DivisionIsLess
  <1>8. r # 0 => p > 0
    <2>1. SUFFICES ASSUME r # 0 PROVE p > 0
      OBVIOUS
    <2>2. s * 1 <= a
      BY <1>1, <1>5, <2>1
    <2>3. 1 <= a \div s
      BY <1>1, <1>3, <2>2, DivisionIsGreatest
    <2> QED
      BY <1>2, <1>6, <2>3
  <1> QED
    BY <1>6, <1>7, <1>8 DEF u

LEMMA FullFacts ==
    ASSUME NEW x \in Nat
    PROVE  /\ Full(x) \in 0..Unit /\ Unit \div 2 <= Full(x)
           /\ x % FadeStep # 0 => Full(x) < Unit
  <1> DEFINE r == x % FadeStep
             p == Part(x)
             u == Unit
  <1>1. r \in 0..(FadeStep - 1)
    BY FadeSizes, Division
  <1>2. p = (r * Unit) \div FadeStep
    BY DEF Part
  <1> HIDE DEF r, p
  <1>3. p \in Nat /\ p < u /\ (r # 0 => p > 0)
    BY <1>1, <1>2, PartFacts
  <1>4. Full(x) = u - p + p \div 2 /\ u \in Nat
    BY FadeSizes DEF Full, p
  <1> HIDE DEF u
  <1>5. Full(x) \in 0..u /\ u \div 2 <= Full(x) /\ (p > 0 => Full(x) < u)
    BY <1>3, <1>4
  <1> QED
    BY <1>3, <1>5 DEF r, u

LEMMA FullFalls ==
    ASSUME NEW x \in Nat, NEW y \in Nat, x % FadeStep <= y % FadeStep
    PROVE  Full(y) <= Full(x)
  <1> DEFINE r == x % FadeStep
             q == y % FadeStep
             s == FadeStep
             u == Unit
             a == r * u
             b == q * u
  <1>1. /\ s \in Nat \ {0} /\ u \in Nat
        /\ r \in Nat /\ q \in Nat /\ r <= q
    BY FadeSizes, Division
  <1>2. Part(x) = a \div s /\ Part(y) = b \div s
    BY DEF Part
  <1> HIDE DEF r, q, s
  <1>3. a \in Nat /\ b \in Nat /\ a <= b
    <2>1. u * r <= u * q /\ u * r = r * u /\ u * q = q * u
      BY <1>1, ProductsGrow
    <2> QED
      BY <1>1, <2>1
  <1> HIDE DEF a, b
  <1> DEFINE p == Part(x)
             o == Part(y)
  <1>4. p \in Nat /\ o \in Nat /\ p <= o
    <2>1. a \div s \in Nat /\ b \div s \in Nat
      BY <1>1, <1>3, Division
    <2>2. a \div s <= b \div s
      BY <1>1, <1>3, DivisionGrows
    <2> QED
      BY <1>2, <2>1, <2>2
  <1>5. Full(x) = u - p + p \div 2 /\ Full(y) = u - o + o \div 2
    BY DEF Full
  <1> HIDE DEF p, o, u
  <1>6. o - p \in Nat /\ o \div 2 - p \div 2 <= o - p
    BY <1>4
  <1> QED
    BY <1>1, <1>4, <1>5, <1>6

LEMMA ShiftFacts ==
    ASSUME NEW x \in Nat, x < FadeStep * Width
    PROVE  x \div FadeStep \in 0..(Width - 1)
  <1> DEFINE s == FadeStep
             m == x \div s
  <1>1. s \in Nat \ {0} /\ Width \in Nat
    BY FadeSizes
  <1>2. m \in Nat /\ m < Width
    <2> HIDE DEF s
    <2>1. x < s * Width
      BY DEF s
    <2> QED
      BY <1>1, <2>1, Division, DivisionIsLess
  <1> HIDE DEF m
  <1>3. m \in 0..(Width - 1)
    BY <1>1, <1>2
  <1> QED
    BY <1>3 DEF m

\* A quarter of an octave is never louder than the one before.
LEMMA GainFalls ==
    ASSUME NEW x \in Nat, NEW y \in Nat, x <= y, y < FadeStep * Width
    PROVE  Gain(x) \in 0..Unit /\ Gain(y) <= Gain(x)
  <1> DEFINE m == x \div FadeStep
             n == y \div FadeStep
             f == Full(x)
             g == Full(y)
             u == Unit
  <1>0. x < FadeStep * Width
    BY FadeSizes
  <1>1. m \in 0..(Width - 1) /\ n \in 0..(Width - 1) /\ m <= n
    BY <1>0, FadeSizes, ShiftFacts, DivisionGrows
  <1>2. f \in 0..u /\ g \in 0..u /\ u \div 2 <= f /\ u \in Nat
    BY FadeSizes, FullFacts
  <1>3. Gain(x) = f \div 2^m /\ Gain(y) = g \div 2^n
    BY DEF Gain
  <1>4. m = n => g <= f
    <2>1. SUFFICES ASSUME m = n PROVE x % FadeStep <= y % FadeStep
      BY FullFalls
    <2> DEFINE k == FadeStep * m
               r == x % FadeStep
               q == y % FadeStep
    <2>2. /\ x = FadeStep * m + r /\ y = FadeStep * n + q
          /\ r \in 0..(FadeStep - 1) /\ q \in 0..(FadeStep - 1)
      BY FadeSizes, Division
    <2>3. k \in Nat
      BY <1>1, FadeSizes
    <2>4. x = k + r /\ y = k + q
      BY <2>1, <2>2
    <2> HIDE DEF k, r, q
    <2>5. r <= q
      BY <2>2, <2>3, <2>4
    <2> QED
      BY <2>5 DEF r, q
  <1> HIDE DEF m, n, f, g, u
  <1> DEFINE c == 2^m
             d == 2^n
  <1>5. /\ m \in 0..Width /\ n \in 0..Width /\ m + 1 \in 0..Width
        /\ m < n => m + 1 <= n
    BY <1>1, FadeSizes
  <1>6. c \in Nat \ {0} /\ d \in Nat \ {0} /\ 2^(m + 1) = 2 * c
    BY <1>5, Powers
  <1>7. m < n => 2 * c <= d
    BY <1>5, <1>6, PowersGrow
  <1> HIDE DEF c, d
  <1>8. f \div c \in Nat /\ f \div c <= f
    <2>0. f \in Nat
      BY <1>2
    <2>1. f \div c \in Nat /\ c * (f \div c) <= f
      BY <1>6, <2>0, Division
    <2> DEFINE k == f \div c
    <2> HIDE DEF k
    <2>2. k * 1 <= k * c /\ k * c = c * k /\ k * 1 = k /\ k * c \in Nat
      <3>1. k \in Nat
        BY <2>1 DEF k
      <3> QED
        BY <1>6, <3>1, ProductsGrow
    <2> QED
      BY <2>0, <2>1, <2>2 DEF k
  <1>9. g \div d <= f \div c
    <2>1. CASE m = n
      <3>1. c = d
        BY <2>1 DEF c, d
      <3> QED
        BY <1>2, <1>4, <1>6, <2>1, <3>1, DivisionGrows
    <2>2. CASE m < n
      <3>1. 2 * c \in Nat \ {0} /\ 2 * c <= d
        BY <1>6, <1>7, <2>2
      <3>2. g \div d <= u \div d /\ g \div d \in Nat /\ u \div d \in Nat
        <4>1. g \in Nat /\ u \in Nat /\ g <= u
          BY <1>2
        <4> QED
          BY <1>6, <4>1, DivisionGrows, Division
      <3>3. u \div d <= u \div (2 * c) /\ u \div (2 * c) \in Nat
        BY <1>2, <1>6, <3>1, LargerDivisor, Division
      <3>4. u \div (2 * c) <= (u \div 2) \div c
        BY <1>2, <1>6, HalfOfPart
      <3>5. u \div 2 \in Nat /\ f \in Nat
        BY <1>2, Division
      <3>6. (u \div 2) \div c <= f \div c /\ (u \div 2) \div c \in Nat
        BY <1>2, <1>6, <3>5, DivisionGrows, Division
      <3> QED
        BY <1>8, <3>2, <3>3, <3>4, <3>6
    <2> QED
      BY <1>1, <2>1, <2>2
  <1> QED
    BY <1>2, <1>3, <1>8, <1>9 DEF c, d, u

\* fade_shift halvings later a track is over.
LEMMA GainIsFaint ==
    ASSUME NEW x \in Nat, x >= 1 + FadeStep * fade_shift,
           x < FadeStep * Width
    PROVE  Gain(x) < Unit \div 2^fade_shift
  <1> DEFINE s == FadeStep
             m == x \div s
             h == fade_shift
             u == Unit
             f == Full(x)
             c == 2^h
             d == 2^m
             q == u \div c
  <1>1. s \in Nat \ {0} /\ h \in Nat /\ h \in 0..Width /\ u \in Nat \ {0}
    BY FadeSizes
  <1>2. m \in Nat /\ m \in 0..Width
    BY FadeSizes, ShiftFacts
  <1>3. c \in Nat \ {0} /\ d \in Nat \ {0} /\ 2^(h + 1) = 2 * c
    BY <1>1, <1>2, Powers
  <1>4. u = c * q /\ q \in Nat /\ q > 0
    <2>1. u % c = 0
      BY FadeSizes
    <2>2. u = c * q + (u % c) /\ q \in Nat
      BY <1>1, <1>3, Division
    <2> HIDE DEF c, q, u
    <2>3. u = c * q
      BY <1>3, <2>1, <2>2
    <2>4. q # 0
      BY <1>1, <1>3, <2>3
    <2> QED
      BY <2>2, <2>3, <2>4
  <1>5. f \in Nat /\ f <= u /\ (x % s # 0 => f < u)
    BY FadeSizes, FullFacts
  <1>6. h <= m
    <2>1. s * h <= x
      BY <1>1
    <2> QED
      BY <1>1, <2>1, DivisionIsGreatest
  <1>7. m = h => f < u
    <2>1. SUFFICES ASSUME m = h PROVE x % s # 0
      BY <1>5
    <2>2. x = s * m + (x % s) /\ x % s \in 0..(s - 1)
      BY <1>1, Division
    <2>3. x = s * h + (x % s)
      BY <2>1, <2>2
    <2>4. s * h \in Nat /\ x >= 1 + s * h
      BY <1>1
    <2> QED
      BY <1>1, <2>2, <2>3, <2>4
  <1>8. Gain(x) = f \div d
    BY DEF Gain
  <1> HIDE DEF s, m, f, c, d, q, u
  <1>9. f \div d < q
    <2>1. CASE m = h
      <3>1. d = c
        BY <2>1 DEF c, d
      <3>2. f < d * q
        BY <1>4, <1>7, <2>1, <3>1
      <3> QED
        BY <1>3, <1>4, <1>5, <3>2, DivisionIsLess
    <2>2. CASE m # h
      <3>1. h + 1 \in 0..Width /\ h + 1 <= m
        BY <1>1, <1>2, <1>6, <2>2, FadeSizes
      <3>2. 2 * c <= d
        BY <1>2, <1>3, <3>1, PowersGrow DEF d
      <3>3. q * (2 * c) <= q * d /\ q * d = d * q /\ q * d \in Nat
        BY <1>3, <1>4, <3>2, ProductsGrow
      <3>4. q * (2 * c) = 2 * u
        BY <1>3, <1>4
      <3>5. f < d * q
        BY <1>1, <1>5, <3>3, <3>4
      <3> QED
        BY <1>3, <1>4, <1>5, <3>5, DivisionIsLess
    <2> QED
      BY <2>1, <2>2
  <1> QED
    BY <1>8, <1>9 DEF c, q, u

-----------------------------------------------------------------------------
(***************************************************************************)
(* The fade of a track.  The time that setTempo gives it is that of no     *)
(* track: TempoFadeFits says it is an int and later than all of them, as   *)
(* it is at 48000 Hz and is not at 44100 Hz (see FadeWaitsForItsTime).     *)
(***************************************************************************)
TempoFadeFits ==
    \A t \in Tracks :
      msec_to_samples(t.length) <= msec_to_samples(TempoFade)

Lengths == {t.length : t \in Tracks}
Starts == {msec_to_samples(ms) : ms \in Lengths \cup {TempoFade}}
Sought == {msec_to_samples(ms) : ms \in Targets}
Blocks == (Buf + FadeBlock - 1) \div FadeBlock

\* The fade of a track that plays; only a seek gets past its end.
InFade(e, c) ==
    /\ e.fade_step = FadeStep /\ e.fade_start \in Starts
    /\ \/ e.out_time <= e.fade_start + Buf + Faint
       \/ c \in {"over", "play"} /\ e.out_time \in Sought

\* Of an emulator, the fade that seeks go back to, where the reader thread is
\* and where it is going.
FadeOf(e, fade, c, aim) ==
    /\ c = "start" => /\ e.playable
                      /\ aim # Nowhere => aim \in Sought /\ fade \in Lengths
    /\ c # "start" /\ e.playable => fade \in Lengths
    /\ c # "start" /\ ~e.track_ended => e.playable /\ InFade(e, c)

\* What was heard has the gains of the curve.
OnCurve(h) ==
    h.gains # << >> =>
      /\ h.at > h.start /\ h.start \in Nat /\ h.at + Buf <= h.start + Vanished
      /\ h.gains \in [1..Blocks -> 0..Unit]
      /\ \A b \in 1..Blocks :
           h.gains[b] =
             Gain((h.at + (b - 1) * FadeBlock - h.start) \div FadeBlock)

FadeInv == EmuInv /\ FadeOf(emu, native.fade, pc, target) /\ OnCurve(heard)

LEMMA LengthsOfFades ==
    /\ Vanished \in Nat /\ Faint \in Nat
    /\ Vanished = FadeBlock * (FadeStep * Width)
    /\ Faint = FadeBlock * (1 + FadeStep * fade_shift)
    /\ 2 * Buf + Faint <= Vanished /\ Vanished <= 2^(Width - 1)
    /\ 2^(Width - 1) \in Nat
  <1>1. FadeBlock * FadeStep * Width = FadeBlock * (FadeStep * Width)
    BY FadeSizes
  <1>2. FadeStep * Width \in Nat /\ 1 + FadeStep * fade_shift \in Nat
    BY FadeSizes
  <1>3. \A x \in Nat : FadeBlock * x \in Nat
    BY FadeSizes
  <1>4. Vanished \in Nat /\ Faint \in Nat
    BY <1>1, <1>2, <1>3 DEF Vanished, Faint
  <1> QED
    BY <1>1, <1>4, EmuAssumption, FadeAssumption DEF Vanished, Faint

LEMMA LimitFacts ==
    ASSUME TempoFadeFits, track \in Tracks
    PROVE  /\ Lengths \subseteq Nat /\ track.length \in Lengths
           /\ Sought \subseteq Nat /\ Starts \subseteq Nat
           /\ msec_to_samples(TempoFade) \in Starts
           /\ \A ms \in Lengths : msec_to_samples(ms) \in Starts
           /\ \A f \in Starts : /\ f <= msec_to_samples(TempoFade)
                                /\ \A s \in Sought : s + Buf <= f + Vanished
  <1> DEFINE M(ms) == msec_to_samples(ms)
             top == M(TempoFade)
  <1>1. \A t \in Tracks : t.length \in Nat
    BY EmuAssumption
  <1>2. /\ \A t \in Tracks : M(t.length) \in Nat
        /\ \A t \in Tracks : \A ms \in Targets :
             M(ms) + Buf <= M(t.length) + Vanished
    BY FadeAssumption
  <1>3. \A ms \in Targets : M(ms) \in Nat
    BY TargetsAssumption
  <1>4. \A t \in Tracks : M(t.length) <= top
    BY DEF TempoFadeFits
  <1>5. Lengths \subseteq Nat /\ track.length \in Lengths
    BY <1>1 DEF Lengths
  <1>6. Sought \subseteq Nat
    BY <1>3 DEF Sought
  <1>7. top \in Int
    <2>1. top \in Ints
      BY Sizes, MsecType
    <2> QED
      BY <2>1, EmuAssumption DEF Ints
  <1>8. M(track.length) \in Nat /\ M(track.length) <= top
    BY <1>2, <1>4
  <1>9. /\ top \in Starts
        /\ \A ms \in Lengths : M(ms) \in Starts
        /\ \A f \in Starts : f = top \/ \E t \in Tracks : f = M(t.length)
    BY DEF Starts, Lengths
  <1> HIDE DEF M, top
  <1>10. top \in Nat
    BY <1>7, <1>8
  <1>11. \A f \in Starts : f \in Nat /\ f <= top
    BY <1>2, <1>4, <1>9, <1>10
  <1>12. ASSUME NEW f \in Starts, NEW s \in Sought
         PROVE  s + Buf <= f + Vanished
    <2>1. PICK ms \in Targets : s = M(ms)
      BY DEF Sought, M
    <2>2. PICK t \in Tracks : M(t.length) <= f
      <3>1. CASE f = top
        BY <1>8, <3>1
      <3>2. CASE f # top
        <4>1. PICK t \in Tracks : f = M(t.length)
          BY <1>9, <3>2
        <4>2. M(t.length) <= f
          BY <1>2, <4>1
        <4> QED
          BY <4>2
      <3> QED
        BY <3>1, <3>2
    <2>3. M(ms) + Buf <= M(t.length) + Vanished
      BY <1>2
    <2>4. M(ms) \in Nat /\ M(t.length) \in Nat /\ f \in Nat
      BY <1>2, <1>3, <1>11
    <2> QED
      BY <2>1, <2>2, <2>3, <2>4, Sizes, LengthsOfFades
  <1> QED
    BY <1>5, <1>6, <1>9, <1>11, <1>12 DEF M, top

LEMMA SignedIs ==
    ASSUME NEW n \in Nat, n < 2^(Width - 1)
    PROVE  Signed(n) = n
  <1> DEFINE h == 2^(Width - 1)
  <1>1. h \in Nat /\ 2^Width = 2 * h /\ n < h
    BY EmuAssumption
  <1> HIDE DEF h
  <1>2. (n + h) % (2 * h) = n + h
    BY <1>1
  <1> QED
    BY <1>1, <1>2 DEF Signed, h

LEMMA BlocksFacts ==
    /\ Blocks \in Nat /\ Blocks > 0
    /\ \A b \in 1..Blocks :
         (b - 1) * FadeBlock \in Nat /\ (b - 1) * FadeBlock < Buf
  <1> DEFINE d == FadeBlock
             a == Buf + d - 1
             n == Blocks
  <1>1. d \in Nat \ {0} /\ Buf \in Nat \ {0}
    BY FadeSizes
  <1>2. n = a \div d
    BY DEF Blocks
  <1> HIDE DEF d, n
  <1>3. a \in Nat /\ d <= a
    BY <1>1
  <1>4. n \in Nat /\ d * n <= a /\ d * n \in Nat
    <2> HIDE DEF a
    <2>1. n \in Nat /\ d * n <= a
      BY <1>1, <1>2, <1>3, Division
    <2> QED
      BY <1>1, <2>1
  <1>5. 1 <= n
    <2>1. d * 1 <= a
      BY <1>1, <1>3
    <2> HIDE DEF a
    <2> QED
      BY <1>1, <1>2, <1>3, <2>1, DivisionIsGreatest
  <1>6. ASSUME NEW b \in 1..n
        PROVE  (b - 1) * d \in Nat /\ (b - 1) * d < Buf
    <2>1. b - 1 \in Nat /\ n - 1 \in Nat /\ b - 1 <= n - 1
      BY <1>4, <1>5
    <2>2. /\ d * (b - 1) <= d * (n - 1) /\ d * (b - 1) \in Nat
          /\ d * (n - 1) \in Nat
      BY <1>1, <2>1, ProductsGrow
    <2>3. d * (n - 1) = d * n - d
      BY <1>1, <1>4
    <2>4. (b - 1) * d = d * (b - 1)
      BY <1>1, <2>1
    <2> QED
      BY <1>1, <1>4, <2>2, <2>3, <2>4
  <1> QED
    BY <1>4, <1>5, <1>6 DEF n, d

\* Where on the curve a block is.
LEMMA PlaceFacts ==
    ASSUME NEW at \in Nat, NEW start \in Nat, at > start,
           at + Buf <= start + Vanished, NEW b \in 1..Blocks,
           NEW z, z = at + (b - 1) * FadeBlock - start
    PROVE  /\ z \in Nat /\ z >= at - start /\ Signed(z) = z
           /\ z \div FadeBlock \in Nat
           /\ z \div FadeBlock < FadeStep * Width
  <1> DEFINE o == (b - 1) * FadeBlock
             w == FadeStep * Width
             v == Vanished
  <1>1. o \in Nat /\ o < Buf
    BY BlocksFacts
  <1>2. /\ v \in Nat /\ v = FadeBlock * w /\ v <= 2^(Width - 1)
        /\ 2^(Width - 1) \in Nat /\ FadeBlock \in Nat \ {0} /\ w \in Nat
        /\ Buf \in Nat
    <2>1. FadeStep * Width \in Nat
      BY FadeSizes
    <2> QED
      BY <2>1, FadeSizes, LengthsOfFades
  <1>3. z = at + o - start
    OBVIOUS
  <1> HIDE DEF o, w, v
  <1>4. z \in Nat /\ z >= at - start /\ z < v
    BY <1>1, <1>2, <1>3 DEF v
  <1>5. Signed(z) = z
    BY <1>2, <1>4, SignedIs
  <1>6. z \div FadeBlock \in Nat /\ z \div FadeBlock < w
    BY <1>2, <1>4, Division, DivisionIsLess
  <1> QED
    BY <1>4, <1>5, <1>6 DEF w

\* handle_fade gives the gains of the curve.
LEMMA FadeGainsFacts ==
    ASSUME emu.fade_step = FadeStep, emu.fade_start \in Nat, NEW at \in Nat,
           at + Buf <= emu.fade_start + Vanished,
           NEW gains \in FadeGains(at),
           NEW h, h.at = at, h.start = emu.fade_start, h.gains = gains
    PROVE  /\ OnCurve(h)
           /\ at > emu.fade_start => gains # << >>
  <1> DEFINE f == emu.fade_start
             X(b) == (at + (b - 1) * FadeBlock - f) \div FadeBlock
  <1>1. CASE at <= f
    <2>1. gains = << >>
      BY <1>1 DEF FadeGains
    <2> QED
      BY <1>1, <2>1 DEF OnCurve
  <1>2. CASE ~(at <= f)
    <2>1. /\ gains \in [1..Blocks -> 0..Unit]
          /\ \A b \in 1..Blocks :
               gains[b] \in Gains(Signed(at + (b - 1) * FadeBlock - f)
                                    \div FadeBlock)
      BY <1>2 DEF FadeGains, Blocks
    <2>2. ASSUME NEW b \in 1..Blocks
          PROVE  gains[b] = Gain(X(b))
      <3> DEFINE z == at + (b - 1) * FadeBlock - f
                 x == z \div FadeBlock
      <3>1. /\ Signed(z) = z /\ x \in Nat /\ x < FadeStep * Width
        BY <1>2, PlaceFacts
      <3>2. gains[b] \in Gains(x)
        BY <2>1, <3>1
      <3> HIDE DEF z, x
      <3>3. x \div FadeStep < Width
        <4>1. x \div FadeStep \in 0..(Width - 1)
          BY <3>1, ShiftFacts
        <4> QED
          BY <4>1, FadeSizes
      <3>4. Gains(x) = {Gain(x)}
        BY <3>3 DEF Gains, Gain, Full, Part
      <3> QED
        BY <3>2, <3>4 DEF x, z
    <2>3. gains # << >>
      <3>1. 1 \in DOMAIN gains
        BY <2>1, BlocksFacts
      <3> QED
        BY <3>1
    <2> QED
      BY <1>2, <2>1, <2>2, <2>3 DEF OnCurve
  <1> QED
    BY <1>1, <1>2

\* A buffer that begins after the fade ends the track.
LEMMA FadedOutFacts ==
    ASSUME NEW h, OnCurve(h), h.gains # << >>, h.at \in Nat,
           h.at > h.start + Faint
    PROVE  FadedOut(h.gains)
  <1> DEFINE d == FadeBlock
             z == h.at + (1 - 1) * d - h.start
             x == z \div d
             k == 1 + FadeStep * fade_shift
  <1>1. 1 \in 1..Blocks
    BY BlocksFacts
  <1>2. /\ h.at > h.start /\ h.start \in Nat
        /\ h.at + Buf <= h.start + Vanished
        /\ h.gains \in [1..Blocks -> 0..Unit] /\ h.gains[1] = Gain(x)
    BY <1>1 DEF OnCurve
  <1>3. /\ z \in Nat /\ z >= h.at - h.start /\ x \in Nat
        /\ x < FadeStep * Width
    BY <1>1, <1>2, PlaceFacts
  <1>4. d * k <= z /\ k \in Nat /\ d \in Nat \ {0}
    <2>1. d * k = Faint /\ Faint \in Nat /\ k \in Nat /\ d \in Nat \ {0}
      BY FadeSizes, LengthsOfFades
    <2> HIDE DEF d, k, z
    <2> QED
      BY <1>2, <1>3, <2>1
  <1>5. x >= k
    <2> HIDE DEF d, k, z
    <2> QED
      BY <1>3, <1>4, DivisionIsGreatest
  <1> HIDE DEF x
  <1>6. Gain(x) < Unit \div 2^fade_shift
    BY <1>3, <1>5, GainIsFaint
  <1>7. 1 \in DOMAIN h.gains /\ h.gains[1] < Unit \div 2^fade_shift
    BY <1>1, <1>2, <1>6
  <1> QED
    BY <1>7 DEF FadedOut

-----------------------------------------------------------------------------
(***************************************************************************)
(* The fade after every action.                                            *)
(***************************************************************************)
LEMMA SetFadeIs ==
    ASSUME NEW e \in EmuT, NEW ms \in Nat, NEW t, t = set_fade(e, ms)
    PROVE  /\ t.fade_step = FadeStep /\ t.fade_start = msec_to_samples(ms)
           /\ t.out_time = e.out_time /\ t.track_ended = e.track_ended
           /\ t.playable = e.playable
  <1>1. /\ t.fade_step = FadeStep /\ t.fade_start = msec_to_samples(ms)
    BY DEF set_fade, EmuT
  <1>2. SameSound(t, e)
    BY SetFadeFacts
  <1> QED
    BY <1>1, <1>2 DEF SameSound

LEMMA NothingOnCurve == OnCurve(NothingHeard)
BY DEF NothingHeard, OnCurve

\* What an action needs of FadeInv.
LEMMA FadeFacts ==
    ASSUME TempoFadeFits, FadeInv
    PROVE  /\ EmuInv /\ emu \in EmuT /\ track \in Tracks
           /\ emu.out_time \in Nat /\ native.fade \in Nat
           /\ FadeOf(emu, native.fade, pc, target) /\ OnCurve(heard)
           /\ ~emu.loaded => ~emu.playable
           /\ ~emu.playable => emu.track_ended
           /\ pc = "start" => emu.playable /\ ~emu.track_ended
  <1>1. EmuInv /\ FadeOf(emu, native.fade, pc, target) /\ OnCurve(heard)
    BY DEF FadeInv
  <1>2. /\ emu \in EmuT /\ track \in Tracks /\ emu.out_time \in Nat
        /\ native.fade \in Nat /\ InvOf(emu, heard, pc)
    BY <1>1, Facts
  <1> QED
    BY <1>1, <1>2 DEF InvOf, Starting

LEMMA InitFade ==
    ASSUME Init
    PROVE  FadeInv
  <1>1. /\ ~emu.playable /\ emu.track_ended /\ pc = "top"
        /\ heard = NothingHeard
    BY DEF Init
  <1>2. FadeOf(emu, native.fade, pc, target) /\ OnCurve(heard)
    BY <1>1, NothingOnCurve DEF FadeOf
  <1> QED
    BY <1>2, InitInv DEF FadeInv

LEMMA IdleFade ==
    ASSUME TempoFadeFits, FadeInv,
           Skip \/ WaitForWriter \/ ReadNextSamples \/ ReadFails
    PROVE  FadeOf(emu', native'.fade, pc', target') /\ heard' = heard
  <1>1. /\ emu' = emu /\ heard' = heard /\ target' = target
        /\ pc # "start" /\ pc' # "start"
    BY DEF Skip, WaitForWriter, ReadNextSamples, ReadFails
  <1>2. native'.fade = native.fade
    <2>1. native \in [fade : Nat, error : {"none", "load", "not ready"}]
      BY FadeFacts, Facts
    <2> QED
      BY <2>1 DEF Skip, WaitForWriter, ReadNextSamples, ReadFails
  <1>3. FadeOf(emu, native.fade, pc, target)
    BY FadeFacts
  <1>4. ASSUME ~emu.track_ended
        PROVE  emu.playable /\ InFade(emu, pc')
    <2>1. emu.playable /\ InFade(emu, pc)
      BY <1>1, <1>3, <1>4 DEF FadeOf
    <2>2. pc' = pc \/ pc' = "play"
      BY <1>4, <2>1, FadeFacts
         DEF Skip, WaitForWriter, ReadNextSamples, ReadFails
    <2> QED
      BY <2>1, <2>2 DEF InFade
  <1> QED
    BY <1>1, <1>2, <1>3, <1>4 DEF FadeOf

LEMMA DeleteFade ==
    ASSUME TempoFadeFits, FadeInv, StopAndStart \/ LoadOther \/ LoadFails
    PROVE  /\ FadeOf(emu', native'.fade, pc', target')
           /\ heard' = heard \/ heard' = NothingHeard
  <1> DEFINE d == Deleted(emu)
  <1>1. d \in EmuT /\ ~d.playable /\ d.track_ended
    BY FadeFacts, DeletedFacts
  <1> HIDE DEF d
  <1>2. ~emu'.playable /\ emu'.track_ended
    <2>1. CASE StopAndStart \/ LoadOther
      BY <1>1, <2>1 DEF StopAndStart, LoadOther, d
    <2>2. CASE LoadFails
      <3>1. PICK identified \in BOOLEAN :
              emu' = [d EXCEPT !.loaded = identified]
        BY <2>2 DEF LoadFails, d
      <3> QED
        BY <1>1, <3>1 DEF EmuT
    <2> QED
      BY <2>1, <2>2
  <1>3. /\ pc' # "start"
        /\ heard' = heard \/ heard' = NothingHeard
    BY DEF StopAndStart, LoadOther, LoadFails
  <1> QED
    BY <1>2, <1>3 DEF FadeOf

LEMMA LoadFileFade ==
    ASSUME TempoFadeFits, FadeInv, LoadFile
    PROVE  /\ FadeOf(emu', native'.fade, pc', target')
           /\ heard' = NothingHeard
  <1>1. /\ pc' = "start" /\ target' = Nowhere /\ heard' = NothingHeard
    BY DEF LoadFile
  <1>2. EmuInv'
    BY FadeFacts, LoadFileInv
  <1>3. emu'.playable
    BY <1>1, <1>2 DEF EmuInv, InvOf, Starting
  <1> QED
    BY <1>1, <1>3 DEF FadeOf

LEMMA SetTempoFade ==
    ASSUME TempoFadeFits, FadeInv, SetTempo
    PROVE  FadeOf(emu', native'.fade, pc', target') /\ heard' = heard
  <1> DEFINE top == msec_to_samples(TempoFade)
  <1>1. /\ emu' = set_fade(emu, TempoFade)
        /\ native' = native /\ heard' = heard /\ pc' = pc /\ target' = target
    BY DEF SetTempo
  <1>2. /\ emu'.fade_step = FadeStep /\ emu'.fade_start = top
        /\ emu'.out_time = emu.out_time
        /\ emu'.track_ended = emu.track_ended
        /\ emu'.playable = emu.playable
    BY <1>1, FadeFacts, Sizes, SetFadeIs
  <1>3. FadeOf(emu, native.fade, pc, target)
    BY FadeFacts
  <1>4. /\ top \in Starts /\ Starts \subseteq Nat
        /\ \A f \in Starts : f <= top
    BY FadeFacts, LimitFacts
  <1> HIDE DEF top
  <1>5. ASSUME InFade(emu, pc)
        PROVE  InFade(emu', pc)
    <2>1. CASE emu.out_time <= emu.fade_start + Buf + Faint
      <3>1. /\ emu.fade_start \in Nat /\ emu.fade_start <= top
            /\ top \in Nat
        BY <1>4, <1>5 DEF InFade
      <3>2. emu.out_time <= top + Buf + Faint
        BY <2>1, <3>1, FadeFacts, Sizes, LengthsOfFades
      <3> QED
        BY <1>2, <1>4, <3>2 DEF InFade
    <2>2. CASE pc \in {"over", "play"} /\ emu.out_time \in Sought
      BY <1>2, <1>4, <2>2 DEF InFade
    <2> QED
      BY <1>5, <2>1, <2>2 DEF InFade
  <1> QED
    BY <1>1, <1>2, <1>3, <1>5 DEF FadeOf

\* A seek that has arrived sets the fade of the track again.
LEMMA SoughtFade ==
    ASSUME TempoFadeFits, track \in Tracks, NEW e \in EmuT, e.playable,
           e.out_time \in Sought, NEW fade \in Lengths, NEW aim,
           NEW t, t = set_fade(e, fade)
    PROVE  FadeOf(t, fade, "over", aim)
  <1>1. fade \in Nat /\ msec_to_samples(fade) \in Starts
    BY LimitFacts
  <1>2. /\ t.fade_step = FadeStep /\ t.fade_start \in Starts
        /\ t.out_time \in Sought /\ t.playable
    BY <1>1, SetFadeIs
  <1> QED
    BY <1>2 DEF FadeOf, InFade

LEMMA SeekFade ==
    ASSUME TempoFadeFits, FadeInv, Seek
    PROVE  /\ FadeOf(emu', native'.fade, pc', target')
           /\ heard' = heard \/ heard' = NothingHeard
  <1>1. PICK ms \in Targets :
          LET time == msec_to_samples(ms)
              back == time < emu.out_time
          IN  /\ emu' = IF ~emu.loaded THEN emu
                        ELSE IF back /\ emu.playable THEN start_track(emu)
                        ELSE set_fade(IF back THEN Cleared(emu)
                                      ELSE skip(emu, time - emu.out_time),
                                      native.fade)
              /\ IF back /\ emu.playable
                 THEN pc' = "start" /\ target' = time
                 ELSE pc' = "over" /\ UNCHANGED target
              /\ heard' = IF emu.track_ended /\ ~back THEN heard
                          ELSE NothingHeard
    BY Zenon DEF Seek
  <1> DEFINE time == msec_to_samples(ms)
  <1>2. time \in Nat /\ time \in Sought
    BY TargetsAssumption DEF Sought
  <1> HIDE DEF time
  <1>3. native' = native /\ pc # "start"
    BY DEF Seek
  <1>4. heard' = heard \/ heard' = NothingHeard
    BY <1>1
  <1>5. emu.playable => native.fade \in Lengths
    BY <1>3, FadeFacts DEF FadeOf
  <1>6. FadeOf(emu', native'.fade, pc', target')
    <2>1. CASE ~emu.loaded
      <3>1. ~emu.playable /\ emu.track_ended
        BY <2>1, FadeFacts
      <3>2. emu' = emu /\ pc' = "over"
        BY <1>1, <2>1, <3>1
      <3> QED
        BY <3>1, <3>2 DEF FadeOf
    <2>2. CASE emu.loaded /\ time < emu.out_time /\ emu.playable
      <3>1. emu' = start_track(emu) /\ pc' = "start" /\ target' = time
        BY <1>1, <2>2 DEF time
      <3>2. emu'.playable
        BY <2>2, <3>1, FadeFacts, StartTrackFacts
      <3> QED
        BY <1>2, <1>3, <1>5, <2>2, <3>1, <3>2 DEF FadeOf
    <2>3. CASE emu.loaded /\ time < emu.out_time /\ ~emu.playable
      <3> DEFINE c == Cleared(emu)
      <3>1. c \in EmuT /\ ~c.playable /\ c.track_ended
        BY <2>3, FadeFacts, ClearedFacts
      <3>2. emu' = set_fade(c, native.fade) /\ pc' = "over"
        BY <1>1, <2>3 DEF time
      <3> HIDE DEF c
      <3>3. ~emu'.playable /\ emu'.track_ended
        BY <3>1, <3>2, FadeFacts, SetFadeIs
      <3> QED
        BY <3>2, <3>3 DEF FadeOf
    <2>4. CASE emu.loaded /\ ~(time < emu.out_time)
      <3> DEFINE count == time - emu.out_time
                 t == skip(emu, count)
      <3>1. count \in Nat /\ emu.out_time + count = time
        BY <1>2, <2>4, FadeFacts
      <3>2. emu' = set_fade(t, native.fade) /\ pc' = "over"
        BY <1>1, <2>4 DEF time
      <3> HIDE DEF count
      <3>3. /\ t \in EmuT /\ SameFade(t, emu)
            /\ t.out_time = emu.out_time + count
            /\ emu.track_ended => t.track_ended
        BY <3>1, FadeFacts, SkipFacts
      <3> HIDE DEF t
      <3>4. t.playable = emu.playable /\ t.out_time \in Sought
        BY <1>2, <3>1, <3>3 DEF SameFade
      <3>5. CASE emu.playable
        BY <1>3, <1>5, <3>2, <3>3, <3>4, <3>5, FadeFacts, SoughtFade
      <3>6. CASE ~emu.playable
        <4>1. t.track_ended /\ ~t.playable
          BY <3>3, <3>4, <3>6, FadeFacts
        <4>2. emu'.track_ended /\ ~emu'.playable
          BY <3>2, <3>3, <4>1, FadeFacts, SetFadeIs
        <4> QED
          BY <3>2, <4>2 DEF FadeOf
      <3> QED
        BY <3>5, <3>6
    <2> QED
      BY <2>1, <2>2, <2>3, <2>4
  <1> QED
    BY <1>4, <1>6

\* The look ahead, and the silence at the beginning.
LEMMA FillFade ==
    ASSUME TempoFadeFits, FadeInv, DropSilence \/ LookAhead
    PROVE  FadeOf(emu', native'.fade, pc', target') /\ heard' = heard
  <1> DEFINE t == fill_buf(emu)
  <1>1. /\ emu' = t /\ native' = native /\ heard' = heard
        /\ pc' = pc /\ target' = target
    BY DEF DropSilence, LookAhead
  <1>2. /\ SameFade(t, emu) /\ t.out_time = emu.out_time
        /\ t.track_ended = emu.track_ended
    BY FadeFacts, FillBufFacts
  <1> HIDE DEF t
  <1>3. FadeOf(emu, native.fade, pc, target)
    BY FadeFacts
  <1> QED
    BY <1>1, <1>2, <1>3 DEF FadeOf, InFade, SameFade

LEMMA LoadReturnsFade ==
    ASSUME TempoFadeFits, FadeInv, LoadReturns
    PROVE  FadeOf(emu', native'.fade, pc', target') /\ heard' = heard
  <1> DEFINE s == Started
             length == track.length
             f == msec_to_samples(length)
  <1>1. /\ pc = "start" /\ ~StartIsSilent
        /\ emu' = set_fade(s, length)
        /\ native' = [native EXCEPT !.fade = length]
        /\ heard' = heard /\ pc' = "top"
    BY DEF LoadReturns
  <1>2. length \in Lengths /\ length \in Nat /\ f \in Starts /\ f \in Nat
    BY FadeFacts, LimitFacts
  <1>3. s \in EmuT /\ s.out_time = 0
    BY <1>1, FadeFacts, StartedFacts
  <1>4. s.playable
    <2>1. emu.playable /\ emu \in EmuT
      BY <1>1, FadeFacts
    <2> QED
      BY <2>1 DEF Started, EmuT
  <1>5. native'.fade = length
    <2>1. native \in [fade : Nat, error : {"none", "load", "not ready"}]
      BY FadeFacts, Facts
    <2> HIDE DEF length
    <2> QED
      BY <1>1, <2>1
  <1> HIDE DEF s, length
  <1>6. /\ emu'.fade_step = FadeStep /\ emu'.fade_start = f
        /\ emu'.out_time = 0 /\ emu'.playable
    BY <1>1, <1>2, <1>3, <1>4, SetFadeIs
  <1> HIDE DEF f
  <1>7. 0 <= f + Buf + Faint
    BY <1>2, Sizes, LengthsOfFades
  <1> QED
    BY <1>1, <1>2, <1>5, <1>6, <1>7 DEF FadeOf, InFade

LEMMA SeekReturnsFade ==
    ASSUME TempoFadeFits, FadeInv, SeekReturns
    PROVE  FadeOf(emu', native'.fade, pc', target') /\ heard' = heard
  <1> DEFINE s == Started
             t == skip(s, target)
  <1>1. /\ pc = "start" /\ ~StartIsSilent /\ target # Nowhere
        /\ emu' = set_fade(t, native.fade)
        /\ native' = native /\ heard' = heard /\ pc' = "over"
    BY DEF SeekReturns
  <1>2. target \in Sought /\ native.fade \in Lengths
    BY <1>1, FadeFacts DEF FadeOf
  <1>3. s \in EmuT /\ s.out_time = 0
    BY <1>1, FadeFacts, StartedFacts
  <1>4. s.playable
    <2>1. emu.playable /\ emu \in EmuT
      BY <1>1, FadeFacts
    <2> QED
      BY <2>1 DEF Started, EmuT
  <1>5. target \in Nat
    BY <1>2, FadeFacts, LimitFacts
  <1> HIDE DEF s
  <1>6. t \in EmuT /\ SameFade(t, s) /\ t.out_time = s.out_time + target
    BY <1>3, <1>5, FadeFacts, SkipFacts
  <1> HIDE DEF t
  <1>7. t.playable /\ t.out_time \in Sought
    BY <1>2, <1>3, <1>4, <1>5, <1>6 DEF SameFade
  <1> QED
    BY <1>1, <1>2, <1>6, <1>7, FadeFacts, SoughtFade

\* play: a buffer is behind the end of the fade only if it ends the track.
LEMMA PlayFade ==
    ASSUME TempoFadeFits, FadeInv, Play
    PROVE  /\ FadeOf(emu', native'.fade, pc', target')
           /\ heard' = heard \/ OnCurve(heard')
  <1>0. /\ emu \in EmuT /\ track \in Tracks /\ emu.out_time \in Nat
        /\ TypeOK /\ FadeOf(emu, native.fade, pc, target)
        /\ Buf \in Nat /\ Vanished \in Nat /\ Faint \in Nat
        /\ 2 * Buf + Faint <= Vanished
    BY FadeFacts, Sizes, LengthsOfFades DEF EmuInv
  <1>1. /\ pc = "play" /\ pc' = "top" /\ target' = target
        /\ native' = [native EXCEPT !.error = "none"]
    BY DEF Play
  <1>2. native'.fade = native.fade
    <2>1. native \in [fade : Nat, error : {"none", "load", "not ready"}]
      BY FadeFacts, Facts
    <2> QED
      BY <1>1, <2>1
  <1>3. emu.playable => native.fade \in Lengths
    BY <1>0, <1>1 DEF FadeOf
  <1>4. CASE emu.track_ended
    <2>1. emu' = [emu EXCEPT !.out_time = @ + Buf] /\ heard' = heard
      BY <1>4 DEF Play
    <2>2. emu'.track_ended /\ emu'.playable = emu.playable
      BY <1>0, <1>4, <2>1 DEF EmuT
    <2> QED
      BY <1>1, <1>2, <1>3, <2>1, <2>2 DEF FadeOf
  <1>5. CASE ~emu.track_ended
    <2> DEFINE at == emu.out_time
               start == emu.fade_start
    <2>1. PICK s, k, r \in Nat, q, p, g \in EmuT,
               gains \in FadeGains(at) :
           /\ Played(s, k, r, q, p, g)
           /\ emu' = Faded(g, gains)
           /\ heard' = [at |-> at, start |-> start,
                        frames |-> Frames(q, p, s, k, r), gains |-> gains]
      BY <1>0, <1>5, PlayFacts
    <2>2. /\ emu.fade_step = FadeStep /\ start \in Starts /\ emu.playable
          /\ at <= start + Buf + Faint \/ at \in Sought
      BY <1>0, <1>1, <1>5 DEF FadeOf, InFade
    <2>3. start \in Nat /\ (at \in Sought => at + Buf <= start + Vanished)
      BY <1>0, <2>2, LimitFacts
    <2>4. at + Buf <= start + Vanished
      <3> HIDE DEF at, start
      <3>1. at \in Nat
        BY <1>0 DEF at
      <3> QED
        BY <1>0, <2>2, <2>3, <3>1
    <2>5. /\ heard'.at = at /\ heard'.start = start /\ heard'.gains = gains
      BY <2>1
    <2>6. OnCurve(heard') /\ (at > start => gains # << >>)
      BY <1>0, <2>2, <2>3, <2>4, <2>5, FadeGainsFacts
    <2>7. /\ emu'.out_time = at + Buf
          /\ emu'.track_ended <=> g.track_ended \/ FadedOut(gains)
          /\ SameFade(emu', g)
      BY <1>0, <2>1, FadedFacts
    <2>8. SameFade(g, emu)
      <3>1. SameFade(p, emu) /\ (r = 0 => g = p) /\ g = Generated(p, r)
        BY <1>0, <2>1, PlayedFacts DEF Played
      <3>2. CASE r = 0
        BY <3>1, <3>2
      <3>3. CASE r # 0
        <4>1. SameFade(Generated(p, r), p)
          BY <1>0, <3>3, GeneratedFacts
        <4> QED
          BY <3>1, <4>1 DEF SameFade
      <3> QED
        BY <3>2, <3>3
    <2>9. /\ emu'.fade_step = FadeStep /\ emu'.fade_start = start
          /\ emu'.playable
      BY <2>2, <2>7, <2>8 DEF SameFade
    <2>10. ASSUME ~emu'.track_ended
           PROVE  emu'.out_time <= start + Buf + Faint
      <3>1. ~FadedOut(gains)
        BY <2>7, <2>10
      <3>2. ~(at > start + Faint)
        <4>1. SUFFICES ASSUME at > start + Faint PROVE FadedOut(gains)
          BY <3>1
        <4>2. at \in Nat /\ at > start
          BY <1>0, <2>3, <4>1
        <4> HIDE DEF at, start
        <4> QED
          BY <2>5, <2>6, <4>1, <4>2, FadedOutFacts
      <3>3. at \in Nat
        BY <1>0
      <3> HIDE DEF at, start
      <3> QED
        BY <1>0, <2>3, <2>7, <3>2, <3>3
    <2>11. ~emu'.track_ended => emu'.playable /\ InFade(emu', "top")
      BY <2>2, <2>9, <2>10 DEF InFade
    <2>12. native.fade \in Lengths
      BY <1>3, <2>2
    <2> QED
      BY <1>1, <1>2, <2>6, <2>11, <2>12 DEF FadeOf
  <1> QED
    BY <1>4, <1>5

\* heard after every step.
LEMMA StepFade ==
    ASSUME TempoFadeFits, FadeInv, [Next]_vars
    PROVE  /\ FadeInv'
           /\ heard' = heard \/ heard' = NothingHeard
                \/ (Play /\ OnCurve(heard'))
  <1>1. EmuInv'
    BY FadeFacts, StepInv
  <1>2. /\ FadeOf(emu', native'.fade, pc', target')
        /\ heard' = heard \/ heard' = NothingHeard
             \/ (Play /\ OnCurve(heard'))
    <2>1. CASE Skip \/ WaitForWriter \/ ReadNextSamples \/ ReadFails
      BY <2>1, IdleFade
    <2>2. CASE StopAndStart \/ LoadOther \/ LoadFails
      BY <2>2, DeleteFade
    <2>3. CASE LoadFile
      BY <2>3, LoadFileFade
    <2>4. CASE Seek
      BY <2>4, SeekFade
    <2>5. CASE SetTempo
      BY <2>5, SetTempoFade
    <2>6. CASE DropSilence \/ LookAhead
      BY <2>6, FillFade
    <2>7. CASE LoadReturns
      BY <2>7, LoadReturnsFade
    <2>8. CASE SeekReturns
      BY <2>8, SeekReturnsFade
    <2>9. CASE Play
      BY <2>9, PlayFade
    <2>10. CASE UNCHANGED vars
      <3>1. /\ emu' = emu /\ native' = native /\ heard' = heard
            /\ pc' = pc /\ target' = target
        BY <2>10 DEF vars
      <3> QED
        BY <3>1, FadeFacts
    <2> QED
      BY <2>1, <2>2, <2>3, <2>4, <2>5, <2>6, <2>7, <2>8, <2>9, <2>10
         DEF Next, ReaderStep
  <1>3. OnCurve(heard')
    BY <1>2, FadeFacts, NothingOnCurve
  <1>4. FadeOf(emu, native.fade, pc, target)' /\ OnCurve(heard)'
    BY <1>2, <1>3 DEF FadeOf, OnCurve, InFade
  <1> QED
    BY <1>1, <1>2, <1>4 DEF FadeInv

LEMMA FadeInvariance ==
    ASSUME TempoFadeFits
    PROVE  Spec => []FadeInv
  <1>1. FadeInv /\ [Next]_vars => FadeInv'
    BY StepFade
  <1> QED
    BY InitFade, <1>1, PTL DEF Spec

-----------------------------------------------------------------------------
(***************************************************************************)
(* A later block is never louder.                                          *)
(***************************************************************************)
LEMMA LaterBlock ==
    ASSUME NEW h \in HeardT, NEW k \in HeardT, OnCurve(h), OnCurve(k),
           h.gains # << >>, k.gains # << >>, h.start = k.start,
           NEW i \in 1..Blocks, NEW j \in 1..Blocks,
           h.at + (i - 1) * FadeBlock <= k.at + (j - 1) * FadeBlock
    PROVE  h.gains[i] >= k.gains[j]
  <1> DEFINE d == FadeBlock
             y == h.at + (i - 1) * d - h.start
             z == k.at + (j - 1) * d - k.start
  <1>1. /\ h.at \in Nat /\ k.at \in Nat /\ h.start \in Nat
        /\ h.at > h.start /\ k.at > k.start
        /\ h.at + Buf <= h.start + Vanished
        /\ k.at + Buf <= k.start + Vanished
        /\ h.gains[i] = Gain(y \div d) /\ k.gains[j] = Gain(z \div d)
    BY DEF HeardT, OnCurve
  <1>2. y \in Nat /\ y \div d \in Nat
    BY <1>1, PlaceFacts
  <1>3. z \in Nat /\ z \div d \in Nat /\ z \div d < FadeStep * Width
    BY <1>1, PlaceFacts
  <1>4. (i - 1) * d \in Nat /\ (j - 1) * d \in Nat /\ d \in Nat \ {0}
    BY FadeSizes, BlocksFacts
  <1>5. y <= z
    <2> DEFINE a == (i - 1) * d
               b == (j - 1) * d
    <2>1. a \in Nat /\ b \in Nat /\ h.at + a <= k.at + b
      BY <1>4
    <2> HIDE DEF a, b
    <2>2. h.at + a - h.start <= k.at + b - k.start
      BY <1>1, <2>1
    <2> QED
      BY <2>2 DEF a, b
  <1> HIDE DEF y, z, d
  <1>6. y \div d <= z \div d
    BY <1>2, <1>3, <1>4, <1>5, DivisionGrows
  <1> DEFINE m == y \div d
             n == z \div d
  <1> HIDE DEF m, n
  <1>7. m \in Nat /\ n \in Nat /\ m <= n /\ n < FadeStep * Width
    BY <1>2, <1>3, <1>6 DEF m, n
  <1>8. Gain(n) <= Gain(m) /\ Gain(m) \in 0..Unit
    BY <1>7, GainFalls
  <1>9. Gain(n) \in 0..Unit
    BY <1>7, GainFalls
  <1>10. Unit \in Nat /\ h.gains[i] = Gain(m) /\ k.gains[j] = Gain(n)
    BY <1>1, FadeSizes DEF m, n
  <1> QED
    BY <1>8, <1>9, <1>10

\* Of two blocks of a buffer, and of two buffers.
LEMMA BlocksInOrder ==
    ASSUME NEW i \in 1..Blocks, NEW j \in 1..Blocks
    PROVE  /\ i <= j => (i - 1) * FadeBlock <= (j - 1) * FadeBlock
           /\ (i - 1) * FadeBlock <= Buf + (j - 1) * FadeBlock
           /\ (i - 1) * FadeBlock \in Nat /\ (j - 1) * FadeBlock \in Nat
  <1> DEFINE d == FadeBlock
             a == (i - 1) * d
             b == (j - 1) * d
  <1>1. a \in Nat /\ b \in Nat /\ a < Buf /\ Buf \in Nat
    BY BlocksFacts, FadeSizes
  <1>2. i <= j => a <= b
    <2>1. SUFFICES ASSUME i <= j PROVE a <= b
      OBVIOUS
    <2>2. /\ i - 1 \in Nat /\ j - 1 \in Nat /\ i - 1 <= j - 1
          /\ d \in Nat
      BY <2>1, BlocksFacts, FadeSizes
    <2>3. d * (i - 1) <= d * (j - 1)
      BY <2>2, ProductsGrow
    <2>4. a = d * (i - 1) /\ b = d * (j - 1)
      BY <2>2
    <2> QED
      BY <2>3, <2>4
  <1> HIDE DEF a, b
  <1>3. a <= Buf + b
    BY <1>1
  <1> QED
    BY <1>1, <1>2, <1>3 DEF a, b

LEMMA BufferFalls ==
    ASSUME NEW h \in HeardT, OnCurve(h)
    PROVE  NotRising(h.gains)
  <1>1. SUFFICES ASSUME NEW i \in DOMAIN h.gains, NEW j \in DOMAIN h.gains,
                        i <= j
                 PROVE  h.gains[i] >= h.gains[j]
    BY DEF NotRising
  <1>2. h.gains # << >>
    <2>1. DOMAIN << >> = {}
      OBVIOUS
    <2> QED
      BY <1>1, <2>1
  <1>3. i \in 1..Blocks /\ j \in 1..Blocks
    BY <1>2 DEF OnCurve
  <1>4. h.at + (i - 1) * FadeBlock <= h.at + (j - 1) * FadeBlock
    <2> DEFINE a == (i - 1) * FadeBlock
               b == (j - 1) * FadeBlock
    <2>1. a \in Nat /\ b \in Nat /\ a <= b /\ h.at \in Nat
      BY <1>1, <1>3, BlocksInOrder DEF HeardT
    <2> HIDE DEF a, b
    <2>2. h.at + a <= h.at + b
      BY <2>1
    <2> QED
      BY <2>2 DEF a, b
  <1> QED
    BY <1>2, <1>3, <1>4, LaterBlock

LEMMA BuffersFall ==
    ASSUME NEW h \in HeardT, NEW k \in HeardT, OnCurve(h), OnCurve(k),
           k.start = h.start, k.at = h.at + Buf
    PROVE  NotRising(h.gains \o k.gains)
  <1>0. h.gains \in Seq(0..Unit) /\ k.gains \in Seq(0..Unit)
    BY DEF HeardT
  <1>1. CASE h.gains = << >>
    <2>1. h.gains \o k.gains = k.gains
      BY <1>0, <1>1
    <2> QED
      BY <2>1, BufferFalls
  <1>2. CASE k.gains = << >>
    <2>1. h.gains \o k.gains = h.gains
      BY <1>0, <1>2
    <2> QED
      BY <2>1, BufferFalls
  <1>3. CASE h.gains # << >> /\ k.gains # << >>
    <2> DEFINE g == h.gains
               l == k.gains
               n == Blocks
    <2>1. /\ g \in [1..n -> 0..Unit] /\ l \in [1..n -> 0..Unit]
          /\ n \in Nat
      BY <1>3, BlocksFacts DEF OnCurve
    <2>2. Len(g) = n /\ Len(l) = n
      <3>1. DOMAIN g = 1..n /\ DOMAIN l = 1..n
        BY <2>1
      <3>2. DOMAIN g = 1..Len(g) /\ DOMAIN l = 1..Len(l)
            /\ Len(g) \in Nat /\ Len(l) \in Nat
        BY <1>0
      <3> HIDE DEF g, l, n
      <3> QED
        BY <2>1, <3>1, <3>2
    <2>3. SUFFICES ASSUME NEW i \in DOMAIN (g \o l),
                          NEW j \in DOMAIN (g \o l), i <= j
                   PROVE  (g \o l)[i] >= (g \o l)[j]
      BY DEF NotRising
    <2> HIDE DEF g, l, n
    <2>4. /\ Len(g \o l) = n + n /\ g \o l \in Seq(0..Unit)
          /\ \A x \in 1..(n + n) :
               (g \o l)[x] = IF x <= n THEN g[x] ELSE l[x - n]
      <3>1. g \in Seq(0..Unit) /\ l \in Seq(0..Unit)
        BY <1>0 DEF g, l
      <3>2. /\ g \o l \in Seq(0..Unit) /\ Len(g \o l) = Len(g) + Len(l)
            /\ \A x \in 1..(Len(g) + Len(l)) :
                 (g \o l)[x] = IF x <= Len(g) THEN g[x] ELSE l[x - Len(g)]
        BY <3>1, ConcatProperties, Zenon
      <3> QED
        BY <2>2, <3>2
    <2>5. i \in 1..(n + n) /\ j \in 1..(n + n)
      <3>1. DOMAIN (g \o l) = 1..Len(g \o l)
        BY <2>4
      <3> QED
        BY <2>3, <2>4, <3>1
    <2>6. NotRising(g) /\ NotRising(l)
      BY BufferFalls DEF g, l
    <2>7. CASE j <= n
      <3>1. i \in 1..n /\ j \in 1..n
        BY <2>1, <2>3, <2>5, <2>7
      <3>2. (g \o l)[i] = g[i] /\ (g \o l)[j] = g[j]
        BY <2>1, <2>4, <2>5, <3>1
      <3>3. g[i] >= g[j]
        BY <2>1, <2>3, <2>6, <3>1 DEF NotRising
      <3> QED
        BY <3>2, <3>3
    <2>8. CASE ~(i <= n)
      <3>1. i - n \in 1..n /\ j - n \in 1..n /\ i - n <= j - n
            /\ ~(j <= n)
        BY <2>1, <2>3, <2>5, <2>8
      <3>2. (g \o l)[i] = l[i - n] /\ (g \o l)[j] = l[j - n]
        BY <2>4, <2>5, <2>8, <3>1
      <3>3. l[i - n] >= l[j - n]
        BY <2>1, <2>6, <3>1 DEF NotRising
      <3> QED
        BY <3>2, <3>3
    <2>9. CASE i <= n /\ ~(j <= n)
      <3>1. i \in 1..n /\ j - n \in 1..n
        BY <2>1, <2>5, <2>9
      <3>2. (g \o l)[i] = g[i] /\ (g \o l)[j] = l[j - n]
        BY <2>4, <2>5, <2>9
      <3>3. PICK o : o = j - n
        OBVIOUS
      <3>4. o \in 1..n
        BY <3>1, <3>3
      <3> DEFINE a == (i - 1) * FadeBlock
                 b == (o - 1) * FadeBlock
      <3>5. h.at + a <= k.at + b
        <4>1. /\ a \in Nat /\ b \in Nat /\ a <= Buf + b /\ h.at \in Nat
              /\ Buf \in Nat
          BY <3>1, <3>4, BlocksInOrder, FadeSizes DEF HeardT, n
        <4> HIDE DEF a, b
        <4> QED
          BY <4>1
      <3>6. g[i] >= l[o]
        BY <1>3, <3>1, <3>4, <3>5, LaterBlock DEF g, l, n
      <3> QED
        BY <3>2, <3>3, <3>6
    <2> QED
      BY <2>7, <2>8, <2>9
  <1> QED
    BY <1>1, <1>2, <1>3

(***************************************************************************)
(* A track is over when its fade is: a buffer that is asked for later than *)
(* fade_shift halvings after fade_start is not played, whatever seeks,     *)
(* changes of tempo and silences came before, at every rate at which the   *)
(* time that setTempo gives the fade does not leave the int.               *)
(***************************************************************************)
THEOREM TracksEndInTime ==
    ASSUME TempoFadeFits
    PROVE  Spec => []EndsInTime
  <1>1. FadeInv => EndsInTime
    <2>1. SUFFICES ASSUME FadeInv, pc = "top", ~emu.track_ended
                   PROVE  emu.out_time <=
                            emu.fade_start + Buf
                              + FadeBlock * (1 + emu.fade_step * fade_shift)
      BY DEF EndsInTime
    <2>2. FadeOf(emu, native.fade, pc, target)
      BY <2>1 DEF FadeInv
    <2>3. InFade(emu, "top")
      BY <2>1, <2>2 DEF FadeOf
    <2>4. /\ emu.fade_step = FadeStep
          /\ emu.out_time <= emu.fade_start + Buf + Faint
      BY <2>3 DEF InFade
    <2> QED
      BY <2>4 DEF Faint
  <1> QED
    BY FadeInvariance, <1>1, PTL

(***************************************************************************)
(* handle_fade and int_log: while a track plays on with the same fade, its *)
(* gain never rises, neither within a buffer nor from one to the next, at  *)
(* every rate at which the time that setTempo gives the fade does not      *)
(* leave the int.                                                          *)
(***************************************************************************)
THEOREM FadesOnlyFall ==
    ASSUME TempoFadeFits
    PROVE  Spec => FadeNeverRises
  <1> DEFINE same == heard'.start = heard.start /\ heard'.at = heard.at + Buf
             Falls == NotRising(IF same THEN heard.gains \o heard'.gains
                                ELSE heard'.gains)
  <1>1. FadeInv /\ FadeInv' /\ [Next]_vars => [Falls]_vars
    <2>1. SUFFICES ASSUME FadeInv, FadeInv', [Next]_vars PROVE Falls
      OBVIOUS
    <2>2. heard \in HeardT /\ OnCurve(heard) /\ OnCurve(heard)'
      BY <2>1, FadeFacts, Facts DEF FadeInv
    <2>3. heard' \in HeardT
      BY <2>1 DEF FadeInv, EmuInv, TypeOK, HeardT
    <2>4. OnCurve(heard')
      BY <2>2 DEF OnCurve
    <2> QED
      BY <2>2, <2>3, <2>4, BufferFalls, BuffersFall
  <1> QED
    BY FadeInvariance, <1>1, PTL DEF Spec, FadeNeverRises
=============================================================================
