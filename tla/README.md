# Chipbox: a verification development

TLA+ models of Chipbox, an Android player for video game music (Kotlin, with
C++ emulators behind JNI). The models are checked with TLC on small instances;
the theorems in the `*Proofs.tla` modules are checked by TLAPS for every
instance.
Paths below are relative to `src/app/src/main/`, `J` is
`java/net/sigmabeta/chipbox`, `C` is `cpp`.

## The system

| Part | State | Operations | Hard because |
|---|---|---|---|
| `Playlist` (`J/backend/player/Playlist.kt`) | queue, position, shuffled order, shuffle, repeat, current track | set queue, next, previous, look up, drag, remove, shuffle, repeat | three indexes into one list have to stay in step through any sequence of gestures |
| `Player` (`Player.kt`) | playback state, current `Reader`, `Writer`, writer thread | start, play, skip, pause, stop, seek, focus changes | commands on the main thread, nothing waits for the threads of an earlier start |
| `Reader` (`Reader.kt`) | queued track and seek, current track, backend, buffer queues | `loop`, change of track, load, refill of the empty queue | runs on a thread per start, shares everything with the others |
| `Writer` (`Writer.kt`) | buffer queues, seeking and ducking flags | `loop`, `onSeek`, `clearBuffers` | blocks on queues, is interrupted, its `clearBuffers` runs on two threads |
| PSF and USF backends (`C/psf`, `C/usf/android/Backend.cpp`) | one emulator per process, last error, FIFO, sample counters | load, read, seek, teardown | process-wide globals without locks, unsigned arithmetic |
| VGM backend (`C/VGMPlay/android/Backend.cpp`, `C/VGMPlay/VGMPlay.c`) | position in the file, two clocks at two rates, loops, fade, chips listed | load, read, seek, tempo, teardown | clocks that go back with every loop and are rounded, a tempo set in the middle |
| GME backend (`C/gme/android/Backend.cpp`, `C/gme/Music_Emu.cpp`) | emulator, output and emulator time, silence found ahead, fade | load, read, seek, tempo, teardown | the emulator runs ahead of what is heard, in 32-bit arithmetic |
| `PlayerService`, `MediaNotificationManager`, `SessionCallback`, `NoisyReceiver` | foreground state, notification, registrations | create, start command, play, pause, stop, destroy, media buttons | asynchronous start and end of the service, events that arrive after what they speak of |
| `LibraryScanner`, `ScanService`, `RealmRepository` | the library database | scan folders, find or create games and artists | interrupted scans, tracks that vanish |
| `UiUpdater`, presenters | last event shown | send, subscribe | events may be dropped |
| `StatsManager`, settings, preferences | counters | record | – |

The interactions that matter most: a screen or media button calls `Player` on
the main thread; `start()` spawns a reader and a writer thread, which exchange
`AudioBuffer`s through two `ArrayBlockingQueue`s (`emptyBuffers`,
`fullBuffers`); the reader asks `Playlist` for the next track and the backend
for samples; the player's `state` field is how the threads learn that they
should end. Only the two queues are synchronised.

What makes the parts correct:

* `Playlist`: the position is the playing track's, no index is out of range,
  the repeat modes play what they say.
* `Player`, `Reader`, `Writer`: buffers circulate and come back clean, audio of
  one track is not played under the title of another, threads end, a playlist
  left alone ends, a resumed player finds what it left.
* FIFO of the PSF and USF backends: a bounded queue, whatever wraps.
* PSF and USF backends: one load per teardown, audio in step with the clock that
  decides when the track is over, never heard twice, a fade that only falls, seeks
  that land.
* VGM backend: the clocks agree through loops and seeks, commands are carried out
  when they are due, a fade begins where the track is, every track ends.
* GME backend: no frame lost or repeated by looking ahead, no end without a reason,
  an end in time.
* Library: both sides of every link agree, a whole scan leaves a library that is
  complete and free of what is gone, a second one changes nothing, no file is
  entered twice.
* Service: a stopped player lets go of focus and service, unless the stop overtook the
  start of the service; a paused one can be swiped away; a playing one is in the foreground,
  unless its start overtook a pause or a stop.

`PROJECT.json` lists every component, and under `hazards` what can go wrong at
which line.

## Modules

| Module | Models |
|---|---|
| `Playlist` | `Playlist.kt` and every call that reaches it |
| `PlaylistProofs` | theorems about `Playlist` |
| `Playback` | `Player.kt`, `Reader.kt`, `Writer.kt` and the GME backend as they use it, with all their threads |
| `PlaybackProofs` | theorems about `Playback` |
| `ByteQueue` | what the FIFO promises (abstract) |
| `AudioFifo` | `fifo_buffer` of `C/psf/android/Backend.cpp`; `C/usf/android/Backend.cpp` has the same code |
| `AudioFifoProofs` | `AudioFifo` implements `ByteQueue` |
| `PsfStream` | the PSF and the USF backend, `C/psf` and `C/usf/android/Backend.cpp`, under the loop of a `Reader` |
| `PsfStreamProofs` | theorems about `PsfStream` |
| `VgmPlayer` | the VGM backend, `C/VGMPlay/android/Backend.cpp`, over the playing half of `VGMPlay.c` |
| `VgmPlayerProofs` | theorems about `VgmPlayer` |
| `MusicEmu` | the GME backend, `C/gme/android/Backend.cpp`, over `Music_Emu.cpp` |
| `MusicEmuProofs` | theorems about `MusicEmu` |
| `LibraryScan` | `LibraryScanner.kt`, `ScanService.kt` and what they call of `RealmRepository.kt` |
| `LibraryScanProofs` | theorems about `LibraryScan` |
| `PlayerSession` | `Player.kt` as the service sees it, `PlayerService.kt`, `MediaNotificationManager.kt`, `SessionCallback.kt`, `NoisyReceiver.kt` |
| `PlayerSessionProofs` | theorems about `PlayerSession` |
| `MCPlaylist`, `MCPlayback`, `MCAudioFifo`, `MCPsfStream`, `MCVgmPlayer`, `MCMusicEmu`, `MCLibraryScan`, `MCPlayerSession` | the modules TLC runs, with the tracks, files and tags of the instances; the `.cfg` files fix the constants |

How they fit together: `PlayerSession` is the environment of `Playback` (when the
player starts, pauses and stops), `Playback` abstracts the emulators that
`PsfStream`, `VgmPlayer` and `MusicEmu` model behind the same Reader loop, and the
play queue that `Playlist` models; `PsfStream` uses the FIFO as the queue that
`AudioFifo` is shown to implement (`ByteQueue`). `LibraryScan` produces the tracks
the others play.

Definitions whose comment begins with "Mutant" are deliberately wrong variants
of the definition that follows; no specification uses them. They show that a
property would notice the mistake.

### Playlist

The class is shared, without a lock, by the main thread, which runs the listener's
calls, and the reader thread, which asks for the next track. A step of either reads or
writes one field that the other writes; `th["main"]` and `th["reader"]` hold where each
thread stands in its call (`at`) and what it has read (`p`, `q`, `id`). The labels
follow the code:

| Label | Lines | Label | Lines |
|---|---|---|---|
| `next`, `add`, `put`, `argument` | Playlist.kt:69-80 | `hand`, `start` | Player.kt:129-137, 153-168, 179-184 |
| `prev`, `sub` | 82-91 | `found`, `forget`, `flag` | Playlist.kt:55-58 |
| `check`, `order`, `fetch` | 94-106 | `moved`, `movedTo`, `settle` | 112-115 |
| `install`, `name` | 23-27, Player.kt:128-131 | `removed`, `lower`, `settle` | 122-125 |
| reader: `top`, `load`, `clear`, `play` | Reader.kt:61-73 | reader: `repeat`, `finish` | 78-85 |

`queued` is the `queuedTrackId` of the player's `Reader`, `current` the `playingTrackId`;
`Coming` is the track that plays or is about to. `crashed` is an uncaught
`IndexOutOfBoundsException`. Four history variables: `removed`; `overlapped` (calls of
the two threads overlapped since a position was last named by `play`); `direct` (the track
to come was chosen, and still is, without shuffle, and was not lost on its way to the
reader); `attended`. Positions count from 0 as in the code. `Lists` are lists without a track twice, as
the screens that build queues make them.

The two threads do get into each other's way. The model shows, and the properties
exclude by `overlapped` or `direct`:

* a skip between the reader's test and its increment (or the reverse) leaves the position equal to
  the size of the queue, which `position > playbackQueue.size` lets through to an
  exception without any removal; a new, shorter queue in that window does the same;
* a skip, drag or `play` during the reader's look-up is overwritten by it, or overwrites its
  queued track, so that position and track part;
* with repeat-one the end of the track overwrites a skip made at that moment; a skip while the
  reader loads is cleared by Reader.kt:64;
* a second skip at the end of the list queues null over the track the first one queued;
* a row tapped as the playlist finishes is handed to a `Reader` the player then lets go
  of, and the old track starts again.

Simplifications: a comparison reads its operands in one step; `Name` looks up the row in the
step that writes the position, for the main thread alone changes the queue and the look-up ignores shuffle;
the end of the playlist is one step (`Playback` has `stop`); there is one reader thread
(`Playback` has two); a read sees the last write (the fields are not volatile: what the memory model
allows beyond that is left out). Events to the UI and `actualPlaybackQueuePosition`, which
is only displayed, are left out.

### Playback

A *session* is one `start()` that spawns threads. `rt[s]` and `wt[s]` are the
reader and writer thread of session `s` with their program counters, `robj[s]`
is the `Reader` object that thread may create, `empty[s]` and `full[s]` the
queue pair made for it. The program counters name the places in `loop()` between
two accesses to shared state:

| Reader | Lines | Writer | Lines |
|---|---|---|---|
| `new`, `make`, `enter`, `forget` | Player.kt:86-103 | `new`, `enter`, `forget` | Player.kt:107-114 |
| `top` | Reader.kt:61-62 | `top` | Writer.kt:46-47 |
| `reset`, `resetOffer` | 36, 177-207 | `wait`, `timeout` | 53-59 |
| `teardown`, `load` | 37-43 | `played` | 88 |
| | | `seekClear`, `seekClearAdd` | 89, 135-164 |
| `notify`, `clear`, `clearAdd` | 50, Player.kt:296-303, Writer.kt:135-164 | `put` | 106 |
| `seek`, `seekDone` | 67-71 | `exit`, `exitAdd` | 123, 135-164 |
| `over`, `ended`, `next`, `queue` | 73-97 | | |
| `stop` | 79-80, Player.kt:215-220 | | |
| `poll`, `stamp`, `put` | 99-126 | | |
| `exit`, `exitOffer` | 133-142 | | |

Abstractions, all of which keep the control:

* A buffer is the sign of its timestamp and the track its samples come from.
* The emulator is the track loaded, the buffers left in it and whether the last
  call failed (every read of GME sets the last error). A bad file leaves no
  emulator, or one that has nothing to play, and an error. `native.vgm` adds the workaround of Reader.kt:123.
* A command of the main thread is one step, but for `stop()`, which a reader thread that
  clears `Player.reader` (Player.kt:100-102) can overtake between the state and the
  teardown: it is two (`stop`, and `StopReader` by `StopReturns` or `ReaderStops`).
  The teardown, `reader = null` and the interrupt are one step.
* Accesses that no order of the other threads' steps can tell apart are one step with
  their neighbour (for example the reading of the timestamp and of the last error).
* A 10 s wait may time out whenever what it waits for is absent: no assumption
  is made about relative speeds.
* The play queue is fixed, without shuffle; repeat is off or all. `getNextTrack` is one
  step (`ReaderNext`, `SkipToNext`), between its caller's test and the storing of its
  result. `Playlist` covers the rest, with `getNextTrack` taken apart.
* Audio focus is granted (`PlayerSession` has it); ducking and statistics are left out.
* `Commands` is the set of commands the listener gives in a run. `Player.play`
  is `play`, `switch`, `replace` or `retry` according to the state it meets.

### AudioFifo

`write_pos` and `read_pos` are `Width`-bit counters (64 in the code), the ring
has `2 * BufLength` bytes as `loadFileInternal` makes it. `fifo_init` leaves
arbitrary memory, as `malloc` does. `offered` and `got` show the block of the
last put and the result of the last get, so that the refinement of `ByteQueue`
says which bytes come out. The ring is smaller than the range of the counters
(`size < 2^Width`): one as large as that could not tell full from empty.

### PsfStream

The PSF and the USF backend are one program twice: load, teardown, clock, fade, seek
and FIFO are the same text. `native.lib` says of which of the two a file is
(`Libraries` which there are). They differ in `generateAudio`, where PSF runs the
emulator in blocks into the FIFO and USF renders a whole buffer past it, in the
teardown, and in the end-of-track test (`psf_`, `usf_` before the name).

`native` holds the globals of `Backend.cpp` (and the position of the emulator),
`call` the locals of the native call in progress, `out` the Java buffer as the
last read left it. The program counter of the reader thread is at the top of its
loop (`top`), after a load (`loaded`), in `seek`, at the end-of-track test
(`over`), in `readNextSamples` (`read`, `generate`) or before `getMillisPlayed`
and `getLastError` (`stamp`). `loadFileInternal`, `teardownInternal`,
`isTrackOver`, `processFadeOut` and the conversions keep their names.

* A sample is its number since the load. `Rate` samples and `Second`
  "milliseconds" make a second; counters are `Width`-bit words. The FIFO is the
  bounded queue that `AudioFifo` is shown to be, counted in samples.
* `gain` is the factor the fade gives each sample, in units of `1 / fadeLen`.
* `fault` is the undefined behaviour the code runs into: a double free, a use of
  buffers that are not there, a division by zero. Nothing happens after it.
* The emulator (external) leaves blocks of any size in `Blocks` or closes, between
  two blocks. The SPU flushes when it holds just over 1 KiB, and buffers are
  thousands of samples: a block is smaller than a buffer, and the run's largest
  block, `Buf + 1`, is more than the code can meet.
* The commands come between two native calls. A skip or a pause during a call is
  seen only after it; what a teardown during one does is undefined and left out.
* `Start` waits until the reader thread of the session before has ended: the
  overlap of sessions is the subject of `Playback`.
* A track that is over is followed by the next one (`queued`) or by `stop()`,
  both possible each time; the other emulators appear as `LoadOther`.
* `g_stop_seek` is never set in the code, so that a seek always runs to its end.
* Resampling to the output rate, tempo, voices and errors of the resampler are
  left out; so is everything about memory that is exhausted.

### VgmPlayer

`vgm` holds the globals of `VGMPlay.c`, `native` those of the backend, `call` the
locals of the call in progress. A file is its commands (a wait, `End`, or an unknown
one, `Bad`), the loop and the totals its header claims, the loops before the fade and
the number of chips. `InterpretVGM` runs one command a step, so that the tempo of the
main thread can come between any two.

* Commands that only write to a chip are waits of 0. The chips, the DAC streams, the
  mixing, muting and the other file formats of VGMPlay are left out.
* `VGMSampleRate` is the file's 44100 Hz, `SampleRate` the device's; conversions are
  64-bit in the code and exact here. `PlayingTime` is a `Width`-bit word.
* `setPlaybackRate` is its two assignments, as two steps.
* Once an error is set it stays (`getLastError` is never reset), and ends the reader's
  loop at the next read; one failing load, or one Java buffer that cannot be written to
  (`ReadFails`, Backend.cpp:103), is enough to have that (`FirstFailure`).
* `StopAndStart` tears the backend down; `StopWithoutTeardown` is the stop whose reader
  thread clears `Player.reader` (Player.kt:100-102) between lines 213 and 216, so that there
  is nothing to tear down, and the new `Reader` has no backend yet (Reader.kt:37). The next
  load appends its chips to those of the last file, which `native.left` counts.
* `PauseSmpls` is 0, as `PauseTime` is never set.
* `TimeOf` is the time of a command, the sum of the waits before it. `TrueHeader` says
  that the header gives the loop and the total as the commands have them.
* A loop without a wait in it, or one that is shorter than a sample of the device at the
  tempo set, would keep `InterpretVGM` busy for ever, and a file with more than ten
  chips would overrun `g_active_chip_ids`; the files of the instance have none of this.
  Two files after one another, without a teardown between, can overrun it too: what that
  overwrites is left out, and it happens once (`FitsTheList`).

### MusicEmu

`emu` holds the fields of `Music_Emu`, counted in frames: the factor `stereo` drops out,
and both channels of a frame are loud or silent together. A track is a sequence of
loud and silent frames that starts over at its end or fails there. Frames are
identified by their position, so that `heard` says which were heard in which order.

* `fill_buf`, `skip`, `play` and `handle_fade` are whole; the loops in them that look
  ahead are steps of their own (`DropSilence`, `LookAhead`), so that a tempo change
  can come between.
* `msec_to_samples` is computed in `Width`-bit signed integers (`Signed`), the shift of
  `int_log` with the outcomes a processor gives to a shift past the width.
* The `skip_` of `Music_Emu` runs the emulator over the frames; that of the SPC emulator
  (`Spc_Emu.cpp`), which runs the chip without sound and 64 samples further to settle the
  resampler, is taken for the same.
* `count_silence` overwrites the first, left sample of a buffer with a sentinel
  (Music_Emu.cpp:313-318), so that one which is loud there and nowhere else counts as
  silent; no frame here is loud in one channel alone.
* What comes after the look-ahead loop of `play`, `handle_fade` included, is one step: a
  tempo is set before or after it, not in it.
* A stop whose teardown is skipped is left out: `loadFile` deletes a `g_emu` left behind.
* The emulators in use have `Lookahead` 3 or 6. Voices, equalizer and the metadata of
  GME are left out.
* `FadeAssumption` says of the constants of the fade (512 samples a step, 172 steps a halving,
  eight halvings from 2^14) that a fade, followed until `int_log` would shift by the width
  of an `int`, half a minute, stays in one, and of the listener that no seek goes past that.

### LibraryScan

`storage` is the file system, `tracks`, `games` and `artists` the database with its
links in both directions, `scan` the locals of the scan. Every transaction is a step:
`addTrack` commits a track, its game, their link, each artist and each link separately
(`SaveTrack` to `LinkArtist`), `updateTrack` is one transaction. `Kill` ends the
process between any two; `PutFile` and `RemoveFile` change the storage at any moment.

* A file is the sequence of its tags. In a file of one track the track number, which
  is the place in the folder, is 1.
* There is one platform. Images, `game.artist`, `multipleArtists` and the lengths in a
  tag are left out: they can make `updateTrack` report a change, never link anything.
* Realm is external: `findFirst` finds any match, a deleted object leaves every list,
  a list that is changed while it is iterated over throws (`UpdateThrows`), and a
  repository left open by a failed scan is of no use to the thread of the next
  (`realm = "stale"`) until the process ends.
* `rests` counts the scans begun since the storage changed, a kill or a failure: the
  properties of a whole scan speak of those.

### PlayerSession

`svc` is the service with its notification manager and the two queues through which
the manager hears of the state: the `StateEvent`s of `UiUpdater`, delivered on the
main looper, and the callbacks of the media session the handler of those events
writes to. `pc` says where each thread is: the main thread, and any number of `Readers`
and `Writers`, of which every `start()` spawns one each. `start`, `pause` and `stop` are cut
into the steps between which another thread can act: the assignment of the state, the
sending of the event with the value assigned (`Send`; so events can be sent in another order
than the states were assigned in), the focus, the view. A reader that comes to the end of
the playlist runs the same `stop()`; a writer that waits ten seconds for a buffer puts the
player in `ERROR` (Writer.kt:53-58) whatever has become of the state since, unless a pause or a
stop has interrupted it first.

* Focus changes are delivered at once, to an idle main thread.
* `view_play`, `view_pause` and `view_stop` are one step each, with the interrupt of the
  writer that comes before the last two; the spawning of the threads is one step with the
  call of the view that comes before it.
* Errors of the reader are only logged (`errorReadFailed`, `errorAllBuffersFull`) and end
  its loop: `ReaderLeaves` may happen at any time.
* Android (external): a start of a service is followed by `onCreate` and
  `onStartCommand`, `stopSelf` by `onDestroy`; a start command for a service that is up
  changes nothing; a receiver left behind is unregistered by the system.
* What the notification shows is left out, ducking only scales the volume.
* `overtaken` remembers that a start came before all of an earlier pause or stop had
  reached the service, `orphaned` that the service came up for a player already stopped:
  the two races the properties exclude, and describe.

## What the runs show

Passing:

| Run | Bounds | Distinct states |
|---|---|---|
| `playlist` | 2 tracks, lists of one and two rows, any number of calls | 660,859 |
| `playback_one` | 2 buffers, 2 tracks of 2 buffers, 1 session, all commands but seek | 177,591 |
| `playback_seek` | 2 buffers, 3 tracks of 1 buffer, one unknown, one bad file, seeks, VGM or not | 1,955,994 |
| `playback_resume` | 1 buffer, 1 track, 2 sessions, pause and resume | 920,499 |
| `psf` | PSF and USF, 3 samples and 2 ms a second, buffers of 2, blocks of 1 or 3, 5-bit words, tracks of 2 and 6 ms, fade of 4 ms, all commands, failing loads, arrays and renders | 423,085 |
| `fifo` | ring of 4 bytes, 4-bit counters, blocks of up to 3 | 72,640 |
| `vgm` | 6 files, 3 samples of the device to 2 of the file, buffers of 3, fade of 4 samples, 6-bit words, seeks to 0, 4 and 8, two tempos, stops with and without teardown | 277,337 |
| `gme` | over 300 tracks of up to 22 frames, buffers of 3 frames, looked ahead in buffers of 2, 8-bit integers, seeks to 0, 5 and 14 ticks | 205,629 |
| `scan` | 3 paths, 9 contents, 3 scans, 3 changes of the storage, 1 kill, 5 tracks saved | 862,569 |
| `session` | 2 readers, 2 writers, 5 commands, focus changes, ends of the playlist and timeouts | 3,162,173 |

In `playlist` a list of two rows has a first and a last one, both orders, and a drag that
always moves the current row; a list of one can replace it by a shorter one. A drag of
two rows that are not the current one takes a third row, with which TLC does not come to an
end in reasonable time; it is covered by the proof, for lists of any length. Two
buffers are the least with which reader and writer can each hold one; one buffer
makes every full and empty queue happen at once, which is what the runs with
two sessions need. A track of two buffers ends with one in the queue and one in
the emulator. A ring of four bytes wraps four times before its 4-bit counters do.
In `psf` one track is shorter than the fade, so that the start of the fade wraps
below zero; three samples to two milliseconds make both conversions round; blocks
of one and three neither divide nor are divided by a buffer; a track of 6 ms is
five buffers, so that it has some before the fade, one that straddles its start,
and some within it. In `vgm` the same ratio makes the length of a loop round; a loop
is played twice before the fade, which lasts longer than a buffer and as long as a loop,
so that it runs over loop points; in one file it is played three times, the least with
which the start of the fade, rounded once, can run ahead of the clock, rounded loop by loop. In `gme` silences lie at the beginning, in the middle and at
the end, shorter and longer than what drops them or ends the track, and a buffer is
no multiple of a look-ahead buffer or a fade block; one of the seeks lands behind the end that a fade
gives a track. In `scan` one
change and one scan make a state, a second change moves, copies or retags, a third
happens in a scan; two contents share a tag, one file has two tracks, one has two
tracks with one tag. In `session` five events are a start, a pause, a resume and a
stop with a focus change between, or a start, a writer that times out, a start from `ERROR`
with a second pair of threads, and the end of the playlist for both readers at once;
`MaxCommands` counts whatever starts something (`Counted`), not the steps that follow.

* `PositionFollowsTrack`, `OnlyRemovalOrRaceCrashes`: see the theorems.
* `RepeatAllPlaysEverything`, `RepeatOffFinishes`: liveness, under weak fairness
  of the reader thread only (a track has a finite length and the reader keeps
  reading). They hold from whatever position and queued track the races have left.
* `EmptyBuffersCleared` (proved): on every path that hands a buffer back (played, cleared
  by either thread, refilled) its timestamp was reset, also with two sessions.
* `QueuedAudioIsCurrent` (proved): when a track change is complete everything in the full
  queue comes from the emulator loaded now. (A track the repository does not know
  is announced but not loaded: the previous one plays on under its title.)
* `BuffersCirculate` (proved): the pool does not run dry. It is about tracks that are not VGM
  files (`Vgm = {FALSE}` in its run; it also holds with one and with three buffers): the
  workaround that drops the buffers read past the end of a VGM track loses one more with
  every skip that leads back to it, and TLC empties a pool of two or three that way.
* `TimestampsValid` (one session, proved): the writer never throws "Invalid timestamp",
  even when a file does not load.
* `ThreadsEnd`, `PlaybackEnds`: liveness under weak fairness of every reader and
  writer thread, and of a `stop()` that has begun (`StopReturns`), which is what the
  scheduler gives a runnable thread. No command is assumed: both speak of a listener
  who has left.
* `RefinesQueue` (proved): the ring implements a bounded queue. This needs a size
  that divides `2^Width`, as the comment "the size must be power of 2" at
  `C/psf/android/Backend.cpp:61` asks; `loadFileInternal` does not see to it
  (line 507), and with `BufLength = 3` TLC finds the order lost when the counters
  wrap. With 64-bit counters that takes 2^64 bytes.
* `MemorySafeInPlainUse`: see the theorems.
* `BuffersFollowTheClock` (proved): until a seek or a disturbance, sample `k` of the track
  is at clock `k`: no block overruns the FIFO, no left-over is repeated. After a
  forward seek the audio that was skipped is still in the FIFO, and is played
  first.
* `AudioNeverRepeats` (proved, as long as positions do not wrap): also over such seeks, and
  after errors of the emulator, no sample comes out of order or a second time.
* `FadeNeverRises` (`psf`, proved): up to the end of the track, within buffers and from one to
  the next. The samples past the end, which the last buffer and the extra read after
  the end-of-track test can have, are not within it: there the unsigned remainder
  wraps and the factor is huge. A buffer that straddles the start of the fade is
  not faded at all (the loop leaves at its first sample).
* `SeekLands`: a seek ends, with the clock at its target (this half is proved), even when
  the reload fails or the emulator closes.
* `TrackEnds` (`psf`): liveness under weak fairness of the reader thread. It rests on
  `getFileTrackLength` and the default being whole seconds: a length in
  milliseconds, converted to samples and back and rounded down twice, can lie past
  the last sample that is read, and its mutant never ends.
* `ClocksAgree`, `CommandsOnTime` (proved): until the tempo is changed. `ClocksAgree` allows one
  sample at the end of a track, where `FillBuffer` leaves before it counts it;
  `CommandsOnTime` needs a header that is true, for loops are as long as it says.
* `FadeHasBegun` (proved, as long as the clock does not wrap): the start of a fade, which
  comes from the header, is not ahead of the unsigned clock when the fade begins, also when
  a seek lands behind it; but for `Drift`, the fractions of a sample by which the clock
  rounds down each loop and the start does not. They count from the third loop on.
* `VoicesOfThisFile` (proved): `loadFile` only appends; a load that follows a teardown lists
  the chips of its file, and one that follows a stop without teardown lists them behind
  those that were left, exactly, and only until the next teardown, of whatever kind.
* `TrackEnds` (`vgm`): weak fairness of the reader thread; with a tempo set between any
  two steps of a loop.
* `HeardInOrder` (proved): what is heard between two loads or seeks is the track, frame by frame,
  with nothing dropped but silence at its beginning, whatever was looked ahead.
* `EndsForAReason`, `EndsInTime` (proved, the second where `TempoFade` fits): a track ends by its own end, by its fade, or by silence
  that the emulator has really produced; and it has ended a bounded time after its fade
  began. The silence may be shorter than `silence_max` by one part in `silence_lookahead`,
  for a seek leaves `silence_time` behind.
* `FadeNeverRises` (`gme`, proved where `TempoFade` fits): the gain never rises, unless a tempo change or a seek sets the
  fade anew.
* `LinksAgree`: see the theorems.
* `LibraryComplete`, `UpToDate` (proved): what a whole scan of a storage at rest leaves,
  whatever scans before it did not finish. Not for a track that has changed its game: its
  `gameTitle` is never updated, so that it is reported at every scan and may be taken for
  another track; nor for two tracks with one title and game, of which the second is taken
  for the first, moved; nor, for `UpToDate`, while a track has two entries (see below).
* `OneEntryUnlessKilled` (proved): no file is entered twice, unless a scan was killed
  inside `addTrack`.
* `StoppedLetsGo`, `PausedIsDismissible`: see the theorems.
* `PlayingIsForeground` (proved): a playing player at rest has a service in the foreground, the
  noisy receiver and the audio focus, unless its start overtook an earlier pause or stop.

The other runs need no fairness: they check invariants and what single steps do.

Violated, each by a short trace (`findings` in `PROJECT.json` gives them):

| Run | What the code says | What happens |
|---|---|---|
| `playback_drain` | "Writer still outputting finished track" | the writer is blocked, for ever |
| `gme_tempo` | "Once fade ends track_ended() returns true" | a change of tempo sets a fade in 11 days, which 32 bits turn into the past: the track fades and ends at once |

`playback_drain` is under the same fairness as the passing runs. `gme_tempo` differs from
`gme` in `TempoFade` alone: 150 frames are too many for 8 bits as 88.2e9 samples are for
32.

The models show more that goes wrong, without a run of its own; each can be had by
checking the formula named with the constants of the configuration named:

* a position equal to the size of the queue, which a removal or a race of a skip with the
  end of a track leaves, or a stale shuffled one, throws (`~crashed`, or
  `crashed => removed`, `Playlist.cfg`); a skip in the window of the reader's
  `getNextTrack` leaves a position that is not the track's (`PositionFollowsTrack` without
  `~overlapped`);
* "Invalid timestamp" is thrown after a pause and a resume while a track loads
  (`TimestampsValid`, `PlaybackResume.cfg`);
* a stop and a start between the test and the assignment at the end of a reader thread
  leave a playing session whose `Reader` the player has forgotten (Player.kt:100-102); `play` can
  leave the player PLAYING without a track or a thread (Player.kt:66); play, pause, play
  makes a second pair of queues (Player.kt:75); a skip during a load is overwritten
  (Reader.kt:64); a buffer the reader had decided to put before a pause
  (Reader.kt:119-124) survives the clearing of the full queue;
* a stop that the reader thread overtakes at the end of its loop (Player.kt:100-102, 213-216)
  does not tear the backend down; a VGM file loaded next has the chips of the last one in
  front of its own, and with more than ten in all writes behind the array
  (`native.left = 0`, or `native.chips <= MAX_ACTIVE_CHIPS`, `Vgm.cfg`);
* a fade that starts ahead of the clock, by `Drift` or because the tempo was made slower on
  the way (VGMPlay.c:4551 then counts the whole track at the new one), makes the unsigned
  difference of VGMPlay.c:5707 wrap: the track goes silent and ends at once
  (`vgm.FadeStart <= vgm.PlayingTime` when `vgm.VGMEnd`, `Vgm.cfg`);
* after one bad file every good one of the PSF, USF or VGM backend is refused with its
  error; a PSF load that fails twice frees the ring twice, one that fails before any file
  was loaded leaves `getMillisPlayed` a rate of zero to divide by, and a read of a
  torn-down instance is let through (`native.fault = "none"`, `PsfStream.cfg`);
* a scan killed inside `addTrack` leaves a track without a game, which every later scan
  finds and adds again (`OneEntryPerFile`, `Scan.cfg`); once two such entries have a game,
  a query finds one or the other, and a file whose tags had changed in between is
  reported by a scan that follows a whole one (`UpToDate` without `OneEntryPerFile` in
  `Distinct`; it takes seven scans, two files and a kill); one killed between two artists
  leaves the rest unlinked for good; a multi-track file that shrinks keeps the entries of
  its lost tracks;
* `focusLossPaused` stays set over a resume and a pause by hand, so that a focus gain
  starts a player that was paused on purpose; the controller callback, once unregistered
  by `stopNotification`, is never registered again, so that a service that lives on after
  a swipe does not leave the foreground when paused;
* in `ERROR` nothing plays, but `onPlaybackStateChanged` does nothing for that state
  (MediaNotificationManager.kt:424-430): the service stays in the foreground, with focus and
  receiver, until a start or a stop, against the comment at line 349 ("Make sure that the
  notification can be dismissed by the user when we are not playing"). `PausedIsDismissible`
  is about `PAUSED` alone (`AtRest /\ state = ERROR => ~svc.foreground`, `Session.cfg`);
* a stop that comes before the first `onStartCommand` does not reach the service, which comes
  up for the stopped player (`StoppedLetsGo` without `orphaned`); a start before a pause or a
  stop has gone through is played by a service that is not in the foreground or about to be
  destroyed (`PlayingIsForeground` without `overtaken`).

`CHECK_DEADLOCK` is off for all but `fifo`: a player whose process has died, whose
listener has left a finished playlist, or whose commands, scans or changes have come to
their bound, rightly stops.

## What is proved

`PlaylistProofs` proves, for every set of tracks and lists of any length:

* `TypeCorrect`: `Spec => []TypeOK`
* `PositionCorrect`: `Spec => []PositionFollowsTrack`
* `NoCrashAlone`: `Spec => []OnlyRemovalOrRaceCrashes`

from `ListAssumption`: lists hold tracks, none twice, and `Null` is neither a track nor
a list of positions. None of them is inductive. `Inv` adds what a thread in the middle of
a call knows. `Alone`: while no call overlaps another, at most one thread is inside a call.
`Placed`: until a row is removed the player is untouched (`Fresh`) or the position, and the position a
thread has read or is about to write, is a row (`Fits`); with `Sorted`, which holds overlaps
or not, the shuffled order has the length of the queue and names rows of it. `Bound`:
in the middle of a drag or a removal the track to come is at the position
the call will move to. `Borne`: a track that was looked up is the one at the position
until it is handed over. `Rowed` and `Unshuffled` are about the main thread alone. Steps of
one kind share a lemma (`ReadsInv`, `PutsInv`, `TracksInv`, `CallInv`); each action has
one that shows its premises. `RemoveAtProperties` says what the community operator
`RemoveAt` does, which the removal of a row needs.

`PsfStreamProofs` proves, for all rates, lengths, buffer and block sizes, word
widths, commands and failures that satisfy `StreamAssumption`, and both backends:

* `MemorySafe`: `Spec => []MemorySafeInPlainUse`
* `StreamTypeCorrect`: `Spec => []TypeOK`
* `AudioIsTheTrack`: `Spec => []BuffersFollowTheClock`
* `FadeOnlyFalls`: `Spec => FadeNeverRises`
* `SeekEndsAtTarget`: the safety half of `SeekLands`
* `AudioMovesOn`: `Spec /\ []PosFits => AudioNeverRepeats`

`PosFits` says that the emulator's position, a count of samples in 64 bits, is not about to
wrap; without it the property, which compares positions by number, is false. It is an
invariant of the run. `StreamAssumption` says of the sizes that a length in milliseconds is a word, that a
second has more than one of them (so that the end of a track, a sum of two words, does
not wrap), and that no block is longer than a buffer by more than a sample; with longer
ones the FIFO, two buffers long, can overrun.

`MemorySafeInPlainUse` is not inductive: a
teardown is safe when the ring is allocated, and which teardowns happen depends on
the Reader, the player and the flag. `SafeInv` adds that the ring is live exactly
while `g_initialized` holds, and then the rate is set (`RingFollowsFlag`); that
inside the loop body the backend is the Reader's; and, until something disturbs,
that the Reader's backend is loaded unless the player is stopped, which it is only
once the loop has ended (`PlainUse`). `TeardownFacts` and `LoadFacts` say what the
two native operations do to the flag, the ring and the rate; `Steady` collects
the steps that leave these alone, and the other actions have a lemma each.

`StreamInv` has the types, and for each native call in progress what it still owes
(`CallOK`): a read holds, with what it has yet to make, a buffer, and a seek lacks
exactly `remaining` of its target. On it rest the two invariants of the audio.
`FadeInv`: the last buffer, up to the end of the track, is behind the clock, and its gains
are those of its positions (`GainAt`), as long as its track is loaded; a step other than
the end of a read leaves the buffer or clears it, and never turns the clock back under
one that stays (`StepRests`). `FollowInv`: until a seek, what the read holds and
then what the FIFO holds continue from the clock, and the emulator, while it is open, from
them (`InStep`), up to the end of the track, where the clock stands still; or the PSF
emulator has closed and what is left makes no buffer any more (`Spent`). It needs `SafeInv`
for plain use, in which a native call finds its file loaded. `OrderInv` holds through seeks
and disturbances, where the clock says nothing of the audio: the last buffer, what the read
holds, the FIFO and the emulator's position follow one another in the order of the track,
each rising in itself. What is dropped or lost leaves a gap, and a load that would turn
the position back clears the buffer. Words are compared through
`WordOfSum` and `SmallIsWord`, so that no other proof sees a remainder. TLC checked all
these invariants on the instance of `psf` first.

`PlaybackProofs` proves, for any number of sessions, buffers and tracks, any commands and
any unknown or unplayable tracks:

* `TypeCorrect`: `Spec => []TypeOK`, which also bounds the queues
* `EmptyBuffersAreCleared`: `Spec => []EmptyBuffersCleared`
* `OneSessionIsTimely`: `Spec => [](started <= 1 => TimestampsValid)`
* `QueuedAudioStaysCurrent`: `Spec => []QueuedAudioIsCurrent`
* `BuffersGoRound`: `Spec => [](~native.vgm => BuffersCirculate)`

The first two follow from `Sound`, one predicate for each reader, writer and `Reader`
object: what a thread refers to was made by one of the starts so far, and a buffer it is
about to hand back has been cleared. Threads of different sessions share only queues,
so a step has the predicate of its own thread to prove again and the lemmas
`ReaderFrame`, `WriterFrame` and `ObjectFrame` give the others. `One` adds what holds
while there has been one `start()`: `OneSound`, that a buffer the reader puts, and every one
in the full queue, has a valid timestamp, which rests on nothing circulating before a backend is loaded
(`resetEmptyBuffers` fills the pool before that, with no one to use it); and
`OneCurrent`, where in a change of track the full queue has lost the old audio. The hard case
is a reader that finds no `Writer` to clear for: then the writer has not begun, all
buffers are in the pool, the full queue and the reader's hand, and filling the pool
empties the queue. Neither holds with two starts: two readers then share one
emulator, and TLC finds "Invalid timestamp" with `MaxStarts = 2`. `BuffersGoRound` names the
buffers of the pool where `BuffersCirculate` counts them: `OneCirculates` says that while
the player plays, a reader between the reset that fills the pool and the end of its loop
finds a buffer `Somewhere`, in a queue or in the hand of a thread that hands it on. Each
step of a thread takes a buffer in hand, fills a queue, ends the loop or leaves alone
what the invariant is about (`Circulating`); a writer that is not interrupted hands back
what it plays, and it is interrupted only by what stops the playing (`OneCurrent`). A
failed read drops the buffer in hand, but ends the loop. The premise that the backend is not
VGMPlay is the one its run has: for VGMPlay the pool does run dry.

`AudioFifoProofs` proves, for every buffer length, counter width and block size:

* `NeverLapped`: `Spec /\ (Aligned \/ [][NoWrap]_vars) => []FifoInv`
* `RingIsAQueue`: `Spec /\ (Aligned \/ [][NoWrap]_vars) => RefinesQueue`

`Aligned` says that the size of the ring divides `2^Width`, `NoWrap` that the write counter
does not wrap in a step: a 64-bit counter outlasts every track, whatever the size. Without
either the refinement is false (see `fifo` above). `FifoInv` bounds what can be read by the
size; `PutStep` and `GetStep` map the ring between its two cursors to the queue, cell
by cell. Arithmetic with two moduli is nonlinear, so `RingIndex` turns an index into a
choice between the two laps it can lie in, and everything after it is linear.

`VgmPlayerProofs` proves, for all files, rates, buffer sizes and commands that satisfy
`PlayerAssumption`:

* `VgmTypeCorrect`: `Spec => []TypeOK`
* `VoicesAreOfTheFile`: `Spec => []VoicesOfThisFile`
* `ClocksStayTogether`: `Spec => []ClocksAgree`
* `CommandsAreOnTime`: `Spec => []CommandsOnTime`
* `FadesHaveBegun`: `Spec /\ []CountFits => []FadeHasBegun`

`CountFits` says that `PlayingTime` does not wrap, which in 32 bits takes a day of music;
it is an invariant of the run. `Sound` adds to the types when the rates are known, that a file that has run out of
commands has ended, and that the list of voices, before a load appends to it, holds what a stop
without teardown has left and nothing else. `Clocks` follows the two clocks through a call: the
time of VGMPlay, with the loops it went back by, is ahead of the backend's clock by what
the call has still to count, and by a sample (`Slack`) once the end of the track has cut a
buffer short. It speaks of tracks whose tempo was left alone, as `ClocksAgree` does.
`OnTime` says at each place of `InterpretVGM` which commands are due and which have been
carried out, with the position in the file as the sum of the waits before it; a loop
keeps it because the header gives the sum between its ends. `Faded` bounds by how much the
start of the fade can be ahead: the clock has lost less than a sample in each loop it went
back by, two of which the rounding of the start makes good.

`PlayerSessionProofs` proves, for any number of commands, readers and writers
(`SessionAssumption`: they are different threads):

* `SessionTypeCorrect`: `Spec => []TypeOK`, the last conjunct of which says that the
  player holds a view exactly while the service is up or stopping
* `SessionLetsGo`: `Spec => []StoppedLetsGo`
* `SessionDismissible`: `Spec => []PausedIsDismissible`
* `SessionInForeground`: `Spec => []PlayingIsForeground`

`StoppedLetsGo` speaks of a player at rest; what makes it inductive (`LetsGoInv`) is
what holds on the way there: a thread inside `stop()` has yet to abandon the focus and to
tell the view, and a service that is up for a stopped player is about to hear of it,
from a thread, or came up too late (`orphaned`, the exception in the property: that service
keeps the foreground and the receiver). `DismissInv` says of a paused player whose service is
in the foreground that the `PAUSED` to take it out is still on its way: about to be sent, or
somewhere in one of the two queues. It need not be the last entry, for the `ERROR` of a
writer may be sent after it; but nothing that is sent brings the service back. `PlayInv` says
of a player whose start overtook nothing that the queues hold neither `PAUSED` nor `STOPPED`
(an `ERROR` in them does nothing), that no thread is on its way to give up the focus or to
stop the view, and that a service not yet in the foreground is about to be commanded or
told. Of a player in `ERROR` only `SessionTypeCorrect` says something.

`LibraryScanProofs` proves, for any storage, tags, number of tracks, scans, changes and
kills:

* `ScanTypeCorrect`: `Spec => []TypeOK`
* `ScanLinksAgree`: `Spec => []LinksAgree`
* `ScanEntersOnce`: `Spec => []OneEntryUnlessKilled`
* `ScanCompletesLibrary`: `Spec => []LibraryComplete`
* `SecondScanIsQuiet`: `Spec => []UpToDate`

The first invariant is `LinksInv`: `Types`, `LinksAgree` and `Progress`. `Progress` says where each
step of `addTrack` finds the database: the track it is about to link exists and has no
game yet, the game and the artists it is about to link to exist. Without it, nothing
would keep `LinkGame` from giving a second game to a track that has one, or `LinkArtist`
from writing to an artist that is not there. It survives the other actions because no
deletion runs while a track is added. Each action has a lemma for the types, one for
the links and one for the progress it can disturb.

`OnceInv` is about the list of tracks to add, which is made before the first of them is
saved: without a kill it names none twice and none that has an entry by now (`NewOnes`),
also when the check of a later track of the file moves an entry there, and a track without
a game is the one being added (`HaveGames`), so that a track that is found is not new.

`CompleteInv` says of every track the scan is done with (`Done`) that it is still to be
added (`Pending`) or has an entry (`Serves`): an entry with its title and game, or one that
has changed its game, which lies at a place the scan is done with. It lies there because
the scan is the only one to move it. A later track may take the entry over only when its
tag is the same, and then the entry still serves both; this is the reason that the
property need not exclude tracks that look alike. `Swept` says how far the deletions are.

`SettledInv` speaks of a storage whose tracks all look different (`Apart`) and in which no
entry has another game than its `gameTitle` (`SomeMisplaced`): such an entry keeps it as long
as its file is there, so that it cannot have appeared in between. Then a track the scan is
done with has an entry of its own place and tag, which the check of no other track moves
away (`SettledSoFar`), and a second scan finds it there, adds nothing and reports nothing.
The last needs `OneEntryPerFile`: the proof failed without, and TLC then found the run of
seven scans told above, longer than those of `scan`.

`MusicEmuProofs` proves, for all tracks, rates, sizes, seeks and tempo changes that satisfy
`EmuAssumption` and `TargetsAssumption`:

* `EmuTypeCorrect`: `Spec => []TypeOK`
* `HeardIsTheTrack`: `Spec => []HeardInOrder`
* `EndsHaveReasons`: `Spec => []EndsForAReason`
* `TracksEndInTime`: `Spec => []EndsInTime`
* `FadesOnlyFall`: `Spec => FadeNeverRises`

The last two are under the condition `TempoFadeFits`: the time to which a tempo change
sets its fade comes out, in an `int` of samples, as no earlier than the end of the track.
It holds in `gme`, and of the code at 48000 Hz; at 44100 Hz it does not, which is what
`gme_tempo` shows, and then a tempo change ends the track. The assumptions say that a look-ahead buffer is no longer than `silence_max` (2048 samples
and 6 seconds) and that the time of a seek is an `int` of samples; with a longer one
`seek` would go to a negative time. The properties of powers of two they state are arithmetic
that the provers do not do. `EmuInv` says of a track that plays (`Live`) that what was
found silent and what lies in the buffer follow the listener's time without a gap, and the
emulator follows them, unless it has failed, when there is nothing but silence; and that a
buffer was filled right after sound. The last is what an end by silence rests on: `play`
ends a track when the emulator's time is `silence_max` past the last sound, and a full
buffer rules that out, so that all the silence is behind the listener or counted;
`AheadOfSilence` turns the `silence_lookahead` it looks ahead into the window of silence
that the property promises. `Dropping` follows `start_track` through the blocks it drops: its
blocks so far are silent and begun in time, which with the end of its loop gives
`Dropped`. `PlayedInOrder` and `PlayedOn` take one `play` apart into its silence, its
buffer and its emulator. The proof of `EndsForAReason` failed at first for a seek ahead on
a track already ended by its fade: the model then forgot the gains that were the reason.
TLC found the run once a seek as late as that was among its targets; `heard` now outlasts
such a seek.

`FadeInv` is what the last two theorems rest on. A track that plays has its fade ahead or,
once past it by `Faint`, has ended (`InFade`): the first block that `int_log` makes fainter
than `2^-fade_shift` ends it, and a block past `Faint` is that faint; only a seek lands further
on. And the gains heard last lie on the curve of the fade they were played with
(`OnCurve`). The curve falls
(`GainFalls`): within a halving the fraction grows; over its end the shift takes
what the fraction had taken. A seek is the hard case: it may land in the middle of the fade, with
silence before it that is not played.

Sums over a file's commands and powers of two need induction, and the library's theorems of
induction cannot be used here. Where it is needed, it is done by the least counterexample: a set
of natural numbers that is not empty has a least element (`MinExists`), the definition of the
recursive function gives the step from the element before it, and the two
contradict each other.

The encoding of sequences for the SMT solver, in the version of the prover used here, gives
the domain `1..n` to anything whose `Len` is `n`, also to what is no sequence. No proof rests on
that: all of them also go through with that half of the axiom taken away.

Only model-checked, and why: the liveness properties, `RepeatAllPlaysEverything`,
`RepeatOffFinishes`, `ThreadsEnd`, `PlaybackEnds`, `TrackEnds` of both modules and the first half
of `SeekLands`, which are out of the prover's reach. Every other property of a passing
run is a theorem, some under a condition the theorem names.

## Not modelled, and the plan

Left out, and why:

* The emulator cores, sound chips and the resampler under `C` are nearly all of the lines
  of the repository: vendored numeric code (tables of coefficients, instruction sets, chip
  registers, a recompiler) without a specification here, whose state is out of the reach
  of a model checker. What the backends call to play, seek, loop, fade and end a track
  is modelled (`VGMPlay.c`, `Music_Emu.cpp`); the rest appears as the external emulator
  of each module.
* The tag readers and the conversion of tag text: pure parsing of file formats.
* `muteVoice` and the list of voices: they set a flag per voice and are read by screens.
* Screens, presenters, animation, dependency injection: they give the commands that are
  actions here and show events. The event bus is modelled for its one subscriber that
  acts, the notification manager.
* Statistics and settings: counters that reach the log, values read once.
* What a teardown does in the middle of a native call (Player.kt:216) has no defined
  outcome; the models have it between two calls.
* The teardown that a stop skips (Player.kt:100-102, 213-216) is in `Playback` and
  `VgmPlayer`; it is left out of `PsfStream` and `MusicEmu`, whose loads tear a left-over
  instance down themselves.

What could be proved next: the progress measures behind the liveness properties, as action
properties (what is left of a track falls with every read), and `FadeHasBegun` for a tempo
that was changed, with the bound that the change costs.
