# Verification of the myanycam Android client

TLA+ modules, TLC runs and TLAPS proofs about the client's own concurrent code:
the Java under `src/myanyCamM/src/main/java/`, and the native entry points it
calls, in `src/myanyCamM/src/main/jni/ffmpeg/jniMain.cpp`. The code is the reference: there are no
tests and hardly any documentation (`README.md` is one line), so every
definition is translated from the sources; the lines of each are listed in
`PROJECT.json` under `map`.

## 1. The system

The app shows live video and sound of IP cameras. A control connection (one TCP
socket to a server) carries commands; video and sound come over UDP (direct,
after hole punching, or relayed) or over a second TCP socket; both end in two
static lists, from which decoding threads take them.

```
 server ──TCP── MainSocket ── ReceiveThread ──cmdMaps── DoCmdThread ── Handlers (UI)
                    ▲                                        │ new UdpSocket, setCamIpInfo
        HeartBeatThread, SocketFunction                      ▼
 camera ──UDP── UdpSocket.UdpThread ──vMap──┐        UdpSocket timer (100 ms)
          └TCP── TcpSocket ─────────────────┤          dropVideoMap, modifyCam
                                            ▼
                     VideoData.Videolist     VideoData.audioArraryList
                            │                        │
                 recThread / VideoSurfaceView    SoundPlay.WriteAudio
                            │                        │ CircularByteBuffer
                     native decoder             BufferReader ─► AACPlayer ─► PCMFeed ─► AudioTrack
```

### Components

| component | state | operations | hard behaviour | what makes it correct |
|---|---|---|---|---|
| `gyl.cam.CircularByteBuffer` | array, three positions, mark size, two closed flags | `read`, `skip`, `mark`, `reset`, `write`, `close`, `clear` | calls leave the monitor between tries; wrap-around; growth; marks | a byte stream, first in first out; no mutual waiting |
| `UdpSocket.packageVideo`, `packageToRealVideo` | `vMap`, `dropVideoMap`, last id | one packet; the timer's sizing and clearing | loss, reordering, repetition; two threads on an unsynchronised `TreeMap` | only whole frames, once each; loss is seen only when there is loss |
| `spoledge.BufferReader` | three buffers, two indices, `stopped` | `run`, `next`, `setCapacity`, `stop` | monitor with `notify`, ownership of buffers, end of stream | bytes in order; no lost wakeup; a buffer in use is left alone |
| `spoledge.PCMFeed` | one slot of samples, `stopped` | `run`, `feed`, `stop` | the same, and a track that fails | no lost wakeup |
| `spoledge.AACPlayer` | `stopped`, three sample arrays | `play`, `stop` | three threads and two monitors | sound untorn and in order; all threads end |
| `gyl.cam.SoundPlay` | static flag, static ring | `run`, `WriteAudio` | shared list without lock; two generations of threads | packets played once, in order |
| `UdpSocket` session | socket, static timer, watchdog count, `dpSend`, NAT port, flags | `setCamIpInfo`, `stopCam`, `listenVideo`, `SendP2PThread`, answers of `UdpThread` | sessions overlap: timers, punching threads and answers of the last one go on in the next | silence is noticed, packets reset the count; a session joins its own channel; the exchange of '1's dies out |
| `TcpSocket` | static socket, `isTcpRecive` | `connect`, `stopTcpSocket`, `sendVoiceToCam` | `getInstance()` without lock on four kinds of threads; short reads, end of stream | messages stay framed; a stop closes the connection and ends its thread |
| `DoCmdThread` | `cmdMaps`, `CameraListInfo.cams` | one case per command | unsynchronised list, handlers that end the thread | every command handled once, in order; no camera twice |
| `ReceiveThread`, `HeartBeatThread`, `AppServer` | `stop`, `heartCount` | `run`, `onStart` | lost update of the counter, restarts | a dead connection is noticed, a live one is not reported dead |
| `MainSocket`, `SocketFunction` | static socket, retry count | `changeSocket`, `sendCmd`, `getSerIP`, `sendVerifyData` | two readers of one socket, a socket replaced under a reader | the receiver stays in step; a login goes to a verified agent only; an attempt ends |
| `VideoSurfaceView`, `recThread` | `Videolist`, flags of the view | drain and decode | `clear()` outside the lock; threads that never end | frames decoded once and in order; a new surface is taken up |
| `jniMain.cpp` | static window, context, mutex, picture flag and name | `jopenglInit`, `jopenglSurfaceChanged`, `jvideo_decode_init`, `jvideo_decode_frame`, `jlocal_SnapShot` | a mutex initialised while it is held; a surface that already has an EGLSurface | one thread draws at a time; no picture is forgotten |
| `CloudLivingView`, `AnKaiLocalLiving`, `CallAcceptActivity` | flags of the view | start, stop, retry | late answers, two dialogs | the user of the session |
| `FormatTransfer`, `AdPcm` | none | conversions | width, sign, byte order | inverse pairs, bounded output |
| `UpdateManager`, `VideoDownLoad` | a partial file | download, resume | three attempts, `Range` | the file is whole |
| `BitmapCache`, `ScreenManager` | memory cache, activity stack | lookup, push and pop | eviction | a bitmap in use is kept |

What is left out, and why, is in section 5.

Threads are ordinary Java threads without an uncaught-exception handler: an
exception that leaves `run()` ends the thread and the process. Shared state is
mostly static, and rarely guarded by a lock. `PROJECT.json` lists the hazards,
each at its line, with the properties that cover it or the reason why none does.

## 2. Modules

### ByteStream, CircularByteBuffer (ring between `WriteAudio` and the decoder)

`CircularByteBuffer` has the fields of the class as variables, and `pending`
and `returned`, the call each thread is in and how its last call ended. Every
public method runs its body under one monitor, and if it cannot proceed leaves
it, sleeps 100 ms and tries again. One try is one action (`TryRead`,
`TryReadByte`, `TrySkip`, `TryWrite`, `TryWriteByte`); `Sleep`, `Wake` and
`Interrupt` are the loop around it. `mark`, `reset`, the two `close` and
`clear` are one action each. `getAvailable`, `getSpaceLeft`, `getSize` and
`available()` change nothing and are left out. What the constructor was told
(`infinite`, `blockingWrite`, the first size) is part of the initial state, one
of `Kinds`, so one run covers several kinds of ring. An infinite ring grows in
the model up to `MaxLength`; a write that would need more is not enabled there.

`ByteStream` is what the ring promises: a sequence of kept bytes, how many of
them are read already, and how many may be read before the mark goes. It knows
no ring, no length, no position. `CircularByteBuffer!Stream` instantiates it
with the refinement mapping; `ImplementsByteStream` is checked as a property.

### PacketAssembly (`UdpSocket.packageVideo`, `packageToRealVideo`, `listenVideo`)

The UDP thread goes through one packet in the steps of the code, each access to
`vMap` or `dropVideoMap` a step of its own, because the timer thread may
clear `dropVideoMap` between any two. `Receive` picks any packet the network
has delivered fewer than `MaxCopies[id]` times, so loss, reordering and repetition
are covered. `put` and `remove` of the unsynchronised `TreeMap` are two steps:
if `clear()` falls between them (`raced`), the map may hold any part of its
entries afterwards, its size is anything, and the call may throw, which in
`put` ends the thread and in `remove` drops the packet. A frame's content is its
kind: `video`, `audio`, `other` (nothing to play) or `short` (its length does
not fit its array). `listenVideo` calls `modifyCam()` on a loss, whose request to the camera
is commented out (`UdpSocket.java:847`): the loss signal is a flag.

### BufferReader, PCMFeed, AACPlayer (decoding and playing AAC)

Synchronized methods are one action up to their `wait()`. `rpc`, `fpc`, `apc`
and `ppc`, `cpc` say where the three threads are and where the player is in
`next()` and `feed()`. `BufferReader.stopped` and `PCMFeed.stopped` are also
written outside of the monitors, as in the code. `AACPlayer` extends `BufferReader`,
whose `next()`, `setCapacity()`, `stop()` and `run()` are steps of its own, and
instantiates `PCMFeed` (`Feed`): the decoder calls `next()` as often as it likes and
yields a block of samples or none; `pcm` says which block each of the three
arrays holds, so that overwriting one too early shows in `played`. The
AudioTrack, the decoder and the input stream are external.

### SharedList, AudioPlayback (`SoundPlay`, its list, the live view's switches)

`SharedList` is the `ArrayList` of the Android release the app is compiled for,
step by step: each read or write of `size`, and of one element, is an action,
because nobody locks `VideoData.audioArraryList`. An `add()` at a full array fills a
longer copy, element by element (`Copy`), and then replaces the array (`Replace`); a
call that read the field before goes on with the array that is gone, where its writes
are lost. A thread reads the latest value of a field: what a stale read would add is
left out.

`AudioPlayback` lists packets from the one thread that receives them (`Arrive`),
takes them with a player per switching-on (`WaitFirst` ... `Drop`, one action
per access of the list or of `is_keep_running`; `Peek`, `Look`, `Take` and `Read` are the
field and the element of the two calls of `get(0)`), and lets the user interface
switch and clear at any time (`SwitchOn`, `SwitchOff`, `StopCam`, `StartCam`,
`ClearList`). The static flag `is_keep_running` is shared by all players, so a
player that was switched off may go on with the next one. A packet is its number
in the order of arrival. An exception no handler catches ends the process
(`dead`). `raced` is history: packets whose `add` overlapped
another call on the list; `torn` says that one of these copied the array; `late` counts what each player played with sound off.

### LinkedQueue, CommandQueue (`ReceiveThread`, `DoCmdThread`, `AppServer.onStart`)

`LinkedQueue` is the `LinkedList` of the same Android release, a ring of links
through `voidLink`, with each access to a link or to `size` an action: nobody
locks `DoCmdThread.cmdMaps` either.

`CommandQueue` has one `ReceiveThread` and one `DoCmdThread` per generation, and
the main thread, which starts generations (`OnStart`, after the thread of
`isAP()`), stops them (`Interrupt`, `StopSoft`, `Exit`) and edits `cams`
(`Resume`, `Download`, `Delete`). A command is its number in the order in which
`add` was called. Its content is chosen when a handler first reads it, from what
the handlers do to the shared state: name a camera (`SearchSize`, `SearchGet`,
`List`, with the `return` at one that is listed), search only (a status, and in
the same way a snapshot and an alarm), empty the list (a count of 0, or a
login), kick, or anything else. What handlers tell the screens is left out. The
calls on the `ArrayList` of `cams` are atomic, unlike those on `cmdMaps`. `past`
is history: what has happened that a property makes an exception of. `limit` is one
of `Limits`, chosen at the start, so that one run covers many commands with
one dispatcher and few with two. The modules below choose their `limit` in the same way.

### GlWindow, VideoDisplay (`VideoSurfaceView`, `jniMain.cpp`)

`VideoDisplay` follows a frame from `Videolist` to the screen: `Arrive` and `Arrived`
list it under the lock, a decoding thread looks, takes and removes it (`Look`, `Get`,
`Remove`, `Resize`), asks for the surface if there is a new one (`GetSurface`, `Change`),
and parses it (`Parse`, `Start`, `InitGl`, `InitDecoder`, `Decode`, `Snap`,
`Draw`). Each `surfaceChanged` before a first frame starts one more thread, and none
ends, so a thread belongs to a view and outlives it. `Clear` is the main thread's
`clear()`, which does not take the lock: it erases and then sets the size to 0, while an
`add()` or a `remove(0)` may be under way, whose outcome is `work`: elements are
erased under it or missed, and the size it has read is written after the clear
(`overlapped` is history). That `Videolist` grows shows only in elements `Clear`
misses; that a `clear()` can throw while the array is replaced is left to
`AudioPlayback`, whose list is of the same class. `Lock` and
`Unlock` are the native mutex, which `InitDecoder` makes anew whoever holds it.
`Click`, `Copied` and `SetSnapShot` are the three steps of asking for a picture.
`GlWindow` is the one static `eglWindow` of the process with what EGL does about it:
a Surface carries at most one EGLSurface, and what a thread draws is seen only if the
window is current on that thread and exists. What `eglTerminate` and the other calls do
is taken from the specification of EGL; a driver may be more forgiving.

### HolePunch, VideoSession (`UdpSocket` session, `CloudLivingView`)

`VideoSession` has the user (`Play`, `Leave`, `Return`, `Retry`, `Exit`,
`Back`), the main thread with its message queue (`HandleWatch` begins `setCamIpInfo`, whose
steps are `Listen`, `ResetWatchdog`, `SetAddresses`, `Punch`; `HandleFull`,
`HandleNoVideo`, `HandleStop`), the server's answers, maybe late (`Respond`),
and the timers: each `setCamIpInfo` starts one and forgets the one before. A
timer's task is `listenVideo` in steps (`Tick` ... `Report`): `rate` and
`noVideoInt` are read and written without a lock. Any packet resets the count
(`ResetCount`). What packets carry is `PacketAssembly`'s.

The user interface also replaces `CameraListInfo.currentCam` under a punching thread that
still runs (`Reopen`, by `Exit` or `Back` and opening another camera, or the same one
looked up anew; `ChooseCamera`). Each camera has a NAT port of its own. `setCamIpInfo()` is called
in `CallAcceptActivity.java:343` too, and `currentCam` assigned in line 393 and in
`SettingActivity.java:57`: these are the same steps as those modelled, and have no actions of
their own.

`HolePunch` has what is sent: the hole-punching thread of each session, which reads the
relay's address and the channel when it gets to run, not when its session starts (`ReadIp`,
`ReadPort`, `ReadChannel`; `SetChannel`, `SetMcuIp`, `SetMcuPort` and `Announce` are the
assignments of a session, steps of `SetAddresses`), then makes and sends its request
(`MakeJoin`, `SendJoin`), then direct or scanning rounds, and the `UdpThread`'s answers to the
camera's '1' (`ReceiveOne`, `MakeAnswer`, `SendAnswer`). A packet is put into the
shared field `dpSend` in one step and sent in another; it is represented by whom
it is about (for a request to join: whose address, port and channel it carries), where it goes and
who made it, so that a property can say whether a
session's packet was the one that went out.

### MainSocket, HeartBeat, ServerConnection (the control connection)

`MainSocket` is the static socket with `getInstance` and `closeMain`, and what the
two servers send on it: pieces of a stream (lengths, bodies, the two words of a
verification, the answer to a heartbeat). `HeartBeat` is the thread that counts
unanswered heartbeats, a read and a write. `ServerConnection` composes them with
`isAP()`'s thread and `DoCmdThread` as the threads that connect (`Connect`, `Verify`,
`ReadAnswer`, `SendRequest`, retries in `Failed`), the `ReceiveThread`, which reads
from whatever socket it finds (`Look` ... `ReadBody`; `ReadEmpty` and `Swallow`
once it is out of step), the report to the user, and the home key. It is one
attempt; what happens between generations of these threads is `CommandQueue`'s.

### TcpRelay, RelaySession (`TcpSocket`)

`TcpRelay` has `getInstance()` in three steps (`CheckInstance`, `MakeInstance`,
`ReturnInstance`) for every thread that calls it: connect's threads, threads that
send a packet of voice, and the main thread. A relay's thread connects, says hello
and reads (`ConnectTcp`, `SayHello`, `Receiving`, `ReadRelayLength`, `ReadRelayBody`);
a message is two parts of a length and two of a body, and each read may return
fewer. `StopRelay`, `CloseTcp` and `ForgetTcp` are `stopTcpSocket()`. `RelaySession`
adds the user and the main thread, whose `connect()` comes with a late answer as well.

## 3. Runs

| run | bounds | shows |
|---|---|---|
| `ring_stream` | blocking rings of 2 and of 4 (the smallest in which one write is copied in two parts) and one of 3 that throws, 2 byte values, one reader and one writer, reads and writes of arrays up to 2, marks, resets, both closes, `clear` | refinement of `ByteStream`, `OverflowIsAllOrNothing` |
| `ring_growing` | a ring of 3 (the smallest that can keep a marked byte) and one of 3 doubling to 6, `read`, `skip`, `mark`, `reset`, `write`, fair | `RingSafe` (types, `Conservation`, `MarkBound`, `NoMutualBlock`), refinement under growth, `WriteCompletes` |
| `frames` | 4 frames (two of video, one of sound, one short) of 1 or 2 chunks, one numbered 0, the chunks of the sound and of the second video up to twice | `AssemblySafe` (types, `AccountsAgree`, `NoFrameForgotten`), `WholeFramesOnce` (`OnlyWholeFrames`, `DeliveredOnce`, and `VideoDeliveredOnce` even over a network that repeats), `LossSeenOnlyOnLoss` |
| `reader` | buffers of 1 to 3 bytes, 9 bytes of stream, fair | `ReaderSafe` (types, `InOrder`), `NoLostWakeup`, `HeldStays`, `NullAfterAllButTheLast`, `BothGoOn` (`next()` returns, the thread ends) |
| `player` | 4 blocks in 3 arrays, two buffer sizes, a track that may fail, fair | `PlayerSafe` (types, `PlaysTheSound`, `NobodySleepsOn`: no lost wakeup in either monitor), `AllThreadsEnd` |
| `sound_play` | one player of either codec with 4 packets and a clear, or 3 and two; two players, one after the other, with 2 packets; a first array of 2 elements; fair | `PlaybackSafe` (types, `AtMostOneMore`), `PlaysWhatCame` (`KeepsOrder`, `OnlyRacedPacketsAreLost`), `ThrowsOnlyWhenCleared`, `Drains` |
| `commands` | three choices of bounds: 3 commands naming 2 cameras; 2 commands (camera, kick, status) and 2 acts of the user; 1 command, 2 acts, 2 dispatchers at a time; 2 generations, 2 starts, fair | `QueueSafe` (types, `NoCameraTwice`), `HandledInOrder`, `DiesOnlyOfRaces`, `EveryCommandHandled`, `StopEndsDispatchers` |
| `screen` | three choices: one decoding thread, two surfaces, a change of resolution, a clear; two threads and two surfaces, of one view or of two; two pictures asked for; 2 or 3 frames, fair | `DisplaySafe` (types, `NativeSectionsExclude`, `LastRequestSaved`, `NullsOnlyAfterOverlap`), `DecodedInOrder`, `LostOnlyInChanges`, `SurfaceTakenUp` |
| `session` | four choices: two sessions with timers, 3 acts; two sessions that punch, directly or scanning, for two cameras; two that punch directly for one that answers; one session with up to 3 '1's at a time, one of the camera's own; fair | `SessionSafe` (types, `CountsOnlySilence`, `StoppedMeansStopped`), `ReachesItsCamera` (`JoinsItsChannel`, `PunchesItsCamera`), `SilenceNoticed`, `EchoDies` |
| `connection` | four choices: servers that answer; servers that refuse or answer in parts; an app in the background; an agent that falls silent or closes; 3 sockets, 2 attempts, fair | `ConnectionSafe` (types, `InStep`, `LoginOnlyVerified`), `MissedTwice`, `SilenceNoticed`, `AttemptEnds`, `LeavingEndsThreads` |
| `relay` | two choices: two connections and 4 acts; one connection, 3 acts and 2 packets of voice; fair | `RelaySafe` (types, `FramesInStep`, `DiesOnlyInCollisions`), `StoppedMeansClosed`, `StoppedRelaysEnd` |
| `sound_empty` | one AAC player, 3 packets, 1 clear | violation: `ParsesOnlyWhenNotEmpty` |

A module's type invariant `TypeOK` is checked as the first part of its `...Safe`
invariant, which joins it to the safety facts about the same state; the parts are
named in brackets.

The array of `sound_play` has 2 elements at first, where the library has 12, and then 3
and 4: of four packets one to three meet a full array, with a player anywhere in `get(0)` or
`remove(0)`. `Batch` is 2 where the code has 6: both a list that is shorter and one that has
reached it occur, and four packets empty and refill it. With two players two
packets are enough, since what counts is where the first player is when the
second is started.

The ring runs have one reader and one writer, as the app has; two writers,
which a WriteAudio that is revived makes possible, are covered by the theorems
about the positions (section 4), for any number of both.

The bounds are chosen so that every position wraps, full and empty rings, marks
of every size and writes longer than the free room occur; that three buffers and
three arrays are reused; and that frames overlap in every way. Each property is
broken by a mutant of the code named in `PROJECT.json`, under the same bounds (a
conjunction, by one of its parts).

In `commands` two acts are enough to start and restart the client, or to start it and
edit the list; a restart with no edit keeps `cams`, so that old and new commands
meet. With two dispatchers at a time one command is enough for both to take it.

In `session` the watchdog's limits are scaled down: a task reports after
`silence` idle counts (30 in the code) and counts every `rounds` ticks (10). Two
sessions are what overlap needs, since a timer, a punching thread or a late answer of
the first meets the second. In `connection` the `ReceiveThread` looks at an
unconnected socket `Patience` times (15) before it reports it, and two connections
fail before the user is asked (3): each counter passes through below, at and reset. In `relay`
a message is two parts of a length and two of a body, the least that a read can tear; with
eight sockets `getInstance()` always finds one that is not in use (`SocketsSuffice`). In `screen`, contention for the mutex needs
two threads; the order of frames is promised to a lone one.

`player` does not check deadlock: playing ends. Nor do the `sound` runs,
`commands`, `session`, `connection` and `relay`, where packets, commands and acts of
the user stop coming, threads end, and one that throws ends the process. In the
other runs there is always a next step (a call, a wakeup, the timer, a
frame, a `stop()`), and deadlock is checked.

### Fairness

* `CircularByteBuffer!Fairness`: a sleeping thread wakes after its 100 ms and an
  awake call makes its next try (the scheduler runs all threads, monitors are
  held for one try only); the decoder's thread reads again after each read
  (`BufferReader.run`, a loop). `WriteCompletes` has a premise besides: a reader
  that resets again and again reads the same bytes and frees nothing.
* `BufferReader!Fairness`, `AACPlayer!PlayLiveSpec`: the threads run. That the
  input stream yields or ends and that the track takes samples is assumed of
  them. `AACPlayer` also assumes that the native decoder returns
  (strong fairness of `DecoderReturns`, since between calls of `next()` it may
  return at any time).

* `AudioPlayback!LiveSpec`: the players and the calls on the list run; packets
  need not come and the user interface need not act.

* `CommandQueue!Fairness`: dispatchers run (they busy-wait with `yield()`), a
  `ReceiveThread` that was started gets to start its dispatcher, and calls on the
  list go on. Commands need not come, and the user need not act.

* `VideoDisplay!LiveSpec`: the decoding threads run (`run()` is a busy
  loop, which never waits; the monitor and the mutex are held for a few statements), what is
  listed under the lock is listed (`Arrived`), Android
  calls `surfaceChanged()` after `surfaceCreated()`, and the main thread goes on with a
  call it has begun. Frames need not come.
* `VideoSession!LiveSpec`: the main thread handles its messages, timers that are
  not cancelled fire, punching threads run, and a '1' that is on its way is
  received or lost. The user, the server and the camera need not do anything.
* `ServerConnection!Fairness`: the threads are scheduled, and a server that is up
  answers what it was asked. Servers need not be up; a read with a timeout
  gives up some time.
* `RelaySession!LiveSpec`: all threads run, and a relay sends as long as its
  connection is open. `StoppedRelaysEnd` needs the last: a thread blocked in a
  read of a connection that is neither used nor closed would wait for ever.

### Where the code and its comments part

* `sound_empty`: `SoundPlay.java:60` says the list is parsed only when it is not
  empty. A `clear()` of the user interface between `isEmpty()` and `get(0)`
  (`178`, and `89`, `90`) makes `get(0)` throw outside of the `try`.

A second disagreement is no longer run: `SoundPlay.java:55` and `85` say that
each time the list gets to 0, six packets are gathered. The code gathers only if the
player itself sees `size() == 0` at that line.

### What the runs taught about the code

Each exception that a property of this list makes is one TLC reaches; without it
the property fails.

* `NullAfterAllButTheLast`: when the stream ends, `stopped` is set before the
  last buffer is published (`BufferReader.java:101`, `112`), and a `next()` in between
  returns null: at most the buffer being filled is lost.
* `NoLostWakeup` is weaker than one might expect: the player can sleep although
  a full buffer is there, when it calls `next()` again before the awakened
  reading thread has moved `indexMine` on (`BufferReader.java:116-122`). It is
  woken when that thread publishes its next buffer.
* `AllThreadsEnd` and `NobodySleepsOn` of `AACPlayer` make an exception of a track
  that has failed: `PCMFeed.java:218` sets `stopped` without `notify()`, and a
  player asleep in `feed()` stays there, whatever is stopped afterwards.
* `OverflowIsAllOrNothing` is about a ring with one writer. With two, a try may
  store less than fits (`CircularByteBuffer.java:396` keeps the mark's distance for
  the second part), another writer fills the rest, and the next try of the first
  overflows with part of its array stored. `OneWriter` is the premise of its theorem.
* `VideoDeliveredOnce` holds over a network that repeats chunks only because
  finished video frames stay in `vMap` for ever (`UdpSocket.java:681` is
  commented out), which is also a leak and makes the ids of a second session
  collide with the first. Of a frame one of whose chunks has come
  twice, `OnlyWholeFrames` and `DeliveredOnce` promise nothing (`Once(id)` is
  their premise): a repeated chunk is counted like a new one. What is repeated of one
  frame does no harm to another.
* The two accounts of a frame, its count in `vMap` and its missing chunks in
  `dropVideoMap`, agree only for a frame that keeps its entry (`Tracked`): one of sound
  that was delivered is removed from `vMap`, and a chunk of it that comes again opens
  a new entry while the old one is still in `dropVideoMap`.

* With a `clear()` and an `add` at the same moment a packet can be played twice
  or after a later one. The same happens without any `clear()` when an `add()` grows the
  array: a `remove(0)` that falls between its copy and its replacement is undone, and
  one that has the old array and the new size throws into its `try`, so the head is
  played again; a packet moved in between can be lost. Hence the premises of
  `KeepsOrder` and `OnlyRacedPacketsAreLost` (`torn`). The same copy brings a null back that an ADPCM
  player has just dropped, and if it comes between `get(0)` and `get(0)`
  (`SoundPlay.java:90`, `91`), `.length` throws outside of the `try`: the exception of
  `ThrowsOnlyWhenCleared`. An AAC player never takes a null away, so no copy brings one back to
  it. A
  null that a race leaves at the head of the list stops an AAC player for good
  (`SoundPlay.java:178` skips it and never removes it), while an ADPCM player
  drops it; `Drains` is therefore about the latter.

* The usual order of two threads is enough to break `cmdMaps`: if `add` reads
  `voidLink.previous` while `removeFirst` unlinks that very link, the new command
  hangs on a link that is gone, `size()` is 1, and `getFirst()`
  (`DoCmdThread.java:63`) throws, outside of any `try`. `DiesOnlyOfRaces`
  and `HandledInOrder` say that nothing else does this.
* A camera named twice stops the dispatcher (`DoCmdThread.java:204`) and leaves
  the command at the head: later commands wait for the next generation, which
  handles the same one again and, unless `cams` was emptied before, stops
  too. `EveryCommandHandled` and `HandledInOrder` make an exception of it.
* Neither is `cmdMaps` emptied when the client stops: what was left is
  handled by the next generation. `HandledInOrder` holds across it.
* `NoCameraTwice` needs its premise: a camera deleted under the search moves the
  others down, the search misses one and lists it again.

* `VideoSurfaceView.run()` never returns: each visit of the live view leaves a thread
  that competes for the static `Videolist`, and a second `surfaceChanged()` before
  the first frame starts a second one at once. Order is promised to a lone
  thread only (`Alone`), single decoding to all.
* A `clear()` that falls into `remove(0)` or `add()` can leave a null at the head of
  `Videolist` (`overlapped`). Every thread that finds it throws at
  `VideoSurfaceView.java:98`, catches it and goes on with the same head, which nothing
  removes but the next `clear()` (`VideoSurfaceView.java:117-120`): no picture until then.
  `NullsOnlyAfterOverlap` says that this is the only way to it.
* `jvideo_decode_init` (`jniMain.cpp:93-94`) initialises the mutex that other threads
  may hold (`remade`). A change of resolution calls `jopenglInit` again on
  the same Surface, whose EGLSurface is still there: pictures are lost until the next
  `surfaceChanged()` (`inits > 1` in `LostOnlyInChanges`, `SurfaceTakenUp`).
* `AppServer.isDisplayVideo` is cleared by `initStopCam()` and set only when a
  decoding thread starts or the tab is chosen: after a retry in the same tab the
  watchdog's report is dropped (`CloudLivingView.java:153`), which is why `Watched`
  requires it.
* `setCamIpInfo()` never cancels the timer it replaces (`abandoned` in
  `StoppedMeansStopped`). Two timers' tasks can step `rate` over the value it is
  compared with, and the watchdog is dead until the app restarts (`overlapped` in
  `SilenceNoticed`); a reset can be lost in `noVideoInt++` (`inflated`).
* A join can be replaced in `dpSend` before it is sent, by another session's thread
  or by an answer to a '1' (`overwritten`). A thread that is scheduled only after the next
  session's `setCamIpInfo()` joins that session's channel, or asks at its relay
  (`UdpSocket.java:822`, `938`), and its own channel is never joined (`overtaken`). A scan
  that goes on writes its guesses into the camera's NAT
  port under the next session, and a camera opened meanwhile is punched in place of the old one
  (`disturbed`). `JoinsItsChannel` and `PunchesItsCamera` name all three.
* That every third '1' stays unanswered is all that ends the exchange between client
  and camera (`EchoDies`); the mutant that answers each never stops.

* A server that is silent before the heartbeats start is never noticed: the reads of
  `ReceiveThread` have no timeout then. `SilenceNoticed` of `ServerConnection` therefore
  starts at a heartbeat. At the end of the stream `ReceiveThread` reads empty messages
  round and round (`ReceiveThread.java:107`), and again only the heartbeat notices.
* `ReceiveThread` may take the first word of a verification's answer, 1002, for a length,
  and swallows what follows for up to 25 s. When that goes on from attempt to attempt, or
  answers are split again and again, connecting can go in circles for ever (`Disturbed`
  in `AttemptEnds`).
* A refused verification is logged only (`SocketFunction.java:335-346`), but no login is
  sent on it. If the connecting thread replaces the socket between
  `ReceiveThread.java:97` and `100`, `getInetAddress()` is null and the process ends.
* `ReceiveThread.java:46` sets `stop` to false, maybe after the user has left:
  the threads then go on (`~stop` in `LeavingEndsThreads`). `j`, the count of
  looks at an unconnected socket, is never reset.
* `MissedTwice`: when the reset falls into `heartCount++`, one unanswered
  heartbeat is enough to report the connection.

* Nothing watches a session over TCP: there is no watchdog, and refusals
  (`DoCmdThread.java:637-645`) are never sent to the screen.
* A stop between the start of connect()'s thread and its connection leaves a connection
  open that nobody watches (`late` in `StoppedMeansClosed`), and the next session is
  refused with "already connected". Two threads in `getInstance()` at once
  make a socket each (`doubled`); a stop in the middle makes it return null, and
  the exception ends the process (`crossed` in `DiesOnlyInCollisions`).
* After a torn length a body of one to five bytes with a data command ends the process
  too (`cut`). At the end of the stream the receiving thread spins until it is stopped.
  An old thread may read one message, or part of one, from the next session's connection.

## 4. Proofs

TLAPS checks these for every value of the constants that satisfies the named
assumptions of the modules. The assumptions say what the constants are (`Nat`,
finite sets, names that differ). Two say that a thread that makes a socket gets one
nobody uses: `SocketsSuffice`, more sockets than fields and threads that hold one,
and `ConnectionAssumption`, one socket besides any two. None restricts how many threads,
sessions, frames, packets or bytes there are, nor how often an array grows
(`SharedListAssumption` has the first length at least 2; it is 12); that there are finitely many threads
(`VideoDisplayAssumption`, `RelayAssumption`) is used to count them.

An invariant is proved by a stronger one that the steps keep. What had to be added:

* `CircularByteBufferProofs`. `RingInv` is the type invariant with `Conservation` and
  `MarkBound`: none is inductive alone, because the bound on a
  write comes from `spaceLeft`, which is right only if the three positions
  split the ring, and a reset moves the read position by `marked`.
  `ChunkArithmetic` and `ArcArithmetic` hold the arithmetic of one write.
  From it: `RingIsSound` (`RingSafe`; `TypeCorrect`, `ArcsAddUp`, `MarksLeaveRoom`
  and `NeverMutuallyBlocked` are its parts). `CallsOK` adds what a call in progress has asked
  for and moved already, and what the only writer may rely on between two tries
  (`OverflowStoresNothing`). `RingImplementsStream` is the refinement of
  `ByteStream`: the bytes kept are those from the mark to the write position, read around
  the end of the array (`kept`), and each step is a step of the stream or leaves
  it alone, growth included.
* `UdpSocketProofs`, about both modules that model `UdpSocket`. Assembly: `AssemblyInv`, for each frame of which nothing came
  twice (`Once`): its count is the number of its chunks filled in, and every chunk
  filled in has arrived (`WholeFramesOnly`, `EachFrameOnce`, `NoneIsForgotten`).
  `EachVideoFrameOnce` needs no assumption on the network: by `VideoInv` a delivered video
  frame keeps its entry, whose count has reached its total and only grows.
  `TablesInv` says where the thread is with each of the two maps while it goes from
  one to the other (`AssemblyIsSafe`), and what each frame in `dropVideoMap`
  lacks (`LossIsLoss`).
  Session: `SessionInv`. Until a later `setCamIpInfo()` overtakes a thread, the channel and the
  relay's address it has yet to read are those of its session (`FieldsInPlace`), and so are
  those it has read (`HandInPlace`); what is in `dpSend` between making and sending a
  packet is its own (`JoinInHand`); whose port a punch works with (`PortInHand`); what the
  main thread has set when it is in the middle of `setCamIpInfo()` (`AddressesSet`); and which
  timer a session could still cancel (`SessionIsSafe`, `EachSessionReachesItsCamera`).
* `AACPlayerProofs`, about the reader and the player. `ControlInv` says where the two indices may stand at each
  step of `run()` (`NoWakeupLost`, `HeldAlwaysStays`); `BytesInv` which bytes of the stream each
  of the three buffers holds, between those the player had and those the stream has yielded
  (`ReaderIsSafe`, `NullComesLast`).
  The second half is about `AACPlayer`, which extends the reader:
  each step of the player is a step of the reader or leaves it alone
  (`MovesTheReader`), so that `BytesInv` holds in it too. `FeedInv` follows one block
  from array to array: the one that is played (`Current`), the one in the slot, which is the
  next (`Fed`), and the one that is decoded into the third array. `LevelInv` says how
  much is left to play of the current block and that all others are over, from which
  `PlayerIsSafe`: the sound is played as it was decoded, and no notify() of the two
  monitors is lost. `PlaysTheSound` says this block by block, not by comparison with a
  flattened sequence, because a recursive `FlattenSeq` is nothing a proof can use.
* `AudioPlaybackProofs`. `AtMostOneMoreHolds`, by `LateInv`: a player that
  played late is on its way out of the loop. `TypeCorrect`, where `EnterList` and
  `ContinueList` say that a step inside the `ArrayList` keeps size, indices and
  callers in range whoever else is inside, each call in the range of the array it holds, which
  may have been replaced (`PlaybackIsSound`). `SoundInv` describes the
  list while an `add()` and a `remove(0)` are inside it, from the bottom up: who may be in a
  call (`CallsInv`); that nobody but a lone player takes the head away, so that nothing throws
  (`SizeInv`; `HeadInv`, until the array is `torn`, for both codecs; `AacInv`, for AAC and
  whatever is torn; `ThrowsOnlyAfterClear`); that a growing `add()` copies all that was there and
  a `remove(0)` holds the list's own array (`WholeInv`); that an `add()` stores behind all that a
  `remove(0)` moves (`EndInv`); that what is in the list, or will be when the calls are
  done, but for the one place whose packet has been played or moved, is in order and newer than
  what was played (`OrderInv`); and that a packet that came in peace is where no
  `remove(0)` forgets it (`PlaceInv`, `SoundKept`).
* `RelaySessionProofs`. `RelayInv`: who is in `getInstance()` and what it is about to return,
  which stream is in step with the parts its reader has, and one connected socket at a
  time as long as two threads have not made one each (`RelayIsSafe`,
  `StopClosesConnections`).
* `ServerConnectionProofs`. `BeatInv`: the count is at most one above the unanswered
  heartbeats (`TwoBeatsMissed`). `ServerInv` for `ConnectionIsSafe`: one task of the
  main thread, `isAP()` or the dispatcher is on its way at a time (`Base`), so that
  the socket in the field is the one the connecting thread works with (`ConnInv`), a verified
  socket is one of an agent that answered (`LoginOnlyVerified`), and, until a socket
  that is being verified is read by two threads or an answer is split (`collided`), what is
  in a socket starts where its reader is (`StreamInv`).
* `VideoDisplayProofs`. `FrameInv`: the numbers decoded, in a thread's hands
  and in the list, or in what the list will be when the call under way ends (`Todo`), are
  different, and with one thread ascending in this order, whatever a `clear()` erases
  from either (`EachFrameDecodedOnce`). `NullInv`: until a `clear()` overlaps a call, neither
  holds a null. `SectionInv`: while the mutex is the first one, who is inside a
  native section holds it; `PictureInv`: the name is whole unless it is being copied
  (`DisplayIsSafe`). `SurfaceInv` and `WindowInv`: what a lone thread has seen of the Surface at each
  place of its loop (`LonePictureShown`).

* `CommandQueueProofs`. `CommandInv`, with the types: one `isAP()` thread starts a generation
  until two are under way (`StartInv`); a search of `cams` has compared the cameras it passed
  and is within the list (`CamsInv`); there is one dispatcher until two overlap, one call on
  the queue until two race, and a dispatcher waits at its loop for its own (`CallersInv`);
  until then the ring holds the commands `lo..hi` in their order, but for what the one call under way
  has yet to write (`ChainAt`), and its head is the last one handled or the next
  (`HeadAt`, both in `OrderInv`). From it: `QueueIsSafe`, `CommandsInOrder`, `DeathsHaveReasons`.
  It needs two assumptions the bounds of a run satisfy by themselves: that the number of
  starts is a number, and that no camera has the name of the mark for an unread field.

Two statements turned out to need more than TLC had shown on the first bounds:
`AccountsAgree` its `Tracked`, and `StoppedMeansClosed` had an exception for a moment within
`stopTcpSocket()` that it does not need.

Every invariant and every action property of the passing runs, and the refinement, are
stated by a theorem. Only model-checked is

* liveness (`WriteCompletes`, `BothGoOn`, `AllThreadsEnd`, `Drains`, `EveryCommandHandled`,
  `StopEndsDispatchers`, `SurfaceTakenUp`, the two `SilenceNoticed`, `EchoDies`, `AttemptEnds`,
  `LeavingEndsThreads`, `StoppedRelaysEnd`): fairness and `ENABLED` are out of the prover's reach.

## 5. Not modelled

* `FormatTransfer`, `AdPcm`: pure conversions of a few lines. `AdPcm` is a
  table-driven codec, whose only reference would be a copy of itself.
* `UpdateManager.DownApkRunnable`, `VideoDownLoad`: one thread per download, which
  tries up to three times and resumes a partial file with a `Range` header. No
  state is shared with other threads.
* `BitmapCache`, `ScreenManager`: a memory cache behind one lock and a stack of
  activities; what they cache is the pictures of the user interface.
* The search for the own address (command 9 of `UdpThread`), the voice sent over UDP,
  and the byte counts by which `listenVideo` lowers the bit rate; `recThread`,
  which the code no longer starts (`CloudLivingView.java:828`); recording, whose
  entry points are commented out; `TcpSocket.parseFrame`, which nothing calls.
* Codec, shaders and JPEG behind `jniMain.cpp`, and `ffmpeg_mp4.cpp`, whose recording
  nothing starts: `VideoDisplay` has what the entry points share.
  `native.c`, `sdlandroid.c` and the `JNITest` file are not built
  (`jni/ffmpeg/Android.mk` does not list them).
* Parsing of a server's message, settings, lists, dialogs, layout: only what they do to
  the state above appears.
* `vMap` across sessions (`UdpSocket.java:582`), and the reader blocked in a ring that
  nobody closes (`BufferReader.java:99`): hazards without a property. The first
  depends on how a camera numbers its messages, which this repository does not say;
  in the second there is no code that would end the wait.
* Java's memory model: a thread reads the latest value of a field.
* Vendored code: SDL, ffmpeg headers, libjpeg, VLC, Vitamio, zxing, photo and
  list widgets. Nearly all C and C++ of the repository is of this kind, and little of it
  runs in the app: SDL (150,000 lines) and its demonstration `jni/src/main.c` are built into
  libraries that no Java class loads; what the app loads, `libffmpegutils`, is
  `jniMain.cpp`, `shaderUtils.cpp`, `ffmpeg_mp4.cpp`, `jpeg.c` and libjpeg
  (`jni/ffmpeg/Android.mk`). The client is the Java code. A share of the map counted over the
  C and C++ files is therefore close to nothing, and modelling more of this client does
  not raise it.

## 6. Plan

What is left to prove is what the liveness properties rest on, as far as it is safety: that a thread
that sleeps has somebody who will wake it, as `NobodySleepsOn` says of the player, for the
connecting thread of `ServerConnection` and the relays of `RelaySession`.

Models to add, if there is room for their runs: the bit rate control of `listenVideo`,
overlapping generations of `ServerConnection`, downloads.
