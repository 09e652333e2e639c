# Verification of Cove Screen Recorder

TLA+ models of the recorder in this repository: the capture sessions, their
encoder, the rolling segment buffer and the exports of the native helper
(`helper/`, Rust), the supervisor that keeps the helper running (`electron/engine-supervisor.ts`), the renderer that drives
it (`src/v2/engine.ts`), the recordings made without it (`electron/recorder.ts`,
`src/recorder-client.ts`, `src/App.tsx`), the choice of what to capture
(`electron/main.ts`), and the validation harness (`validation/`). TLC checks
the models on small instances; TLAPS proves the most important invariants for
every value of the constants. Paths below are relative to the root of the
repository.

## 1. The system

The app is an Electron program. A native *helper* process captures the screen
(PipeWire on Linux), encodes it, and keeps the last minutes as fMP4 segments
on disk. On "Save replay" the helper pins the newest segments as a *snapshot*
and joins them into one file with ffmpeg, an *export*. The main process
supervises the helper and speaks JSON-RPC with it over a Unix socket; the
renderer shows a state machine driven by events and answers. A second, older
path records in the renderer and writes chunks through the main process.

| Component | Code | State | Operations | Talks to |
|---|---|---|---|---|
| Segment buffer | `helper/src/segment/{buffer,writer}.rs` | pending segment, committed ring with pin counts, byte counter, next index, closing/closed flags; `<index>.mp4`, `init.mp4`, `manifest.json` | push, commit, evict, pin, release, finalize, format change, set init segment | encoder task; replay RPCs; disk |
| Crash recovery | `helper/src/segment/recovery.rs` | list of recoverable sessions | scan at boot, discard | disk, exports |
| Encoder session | `helper/src/encoder/{session,mod}.rs` | pending queue, retry budget, frames in the backend, exit | probe, install the buffer, run loop, flush, drain, format change, final drain | frame channel, buffer, notifier |
| Snapshots and exports | `helper/src/export/mod.rs`, `helper/src/engine/mod.rs` | `active_snapshots`, `active_exports`, `recoverable_sessions`, per-export flags | save, release, restore, discard, export start and cancel, the export task, reaping at boot | buffer, ffmpeg, notifier |
| Capture session | `helper/src/capture/pipewire.rs` | phase, quit flag, portal session, readiness channel, negotiated format, pending marker | request session, start, pause, stop, format change, loss of the stream | portal, PipeWire thread, encoder |
| Transport | `helper/src/transport/*.rs` | one connection, the dispatch under way, staged frames, a bounded notification channel | accept, take over, read, dispatch, abort | everything in the helper |
| Simulated engine | `helper/src/sim/*.rs` | scripted session | the same RPCs | tests |
| Engine supervisor, RPC client | `electron/engine-supervisor.ts`, `electron/engine-rpc.ts` | supervisor state, process, socket, running boot, shutdown promise, backoff timer, failure times; pending calls | start, adopt or spawn, connect, restart, back off, shut down; call, reject all | helper process, main |
| Replay client | `src/v2/engine.ts` | `v2State`, session, snapshot and export ids, watchdog timer | event handlers, save, start, stop, retries | main process |
| Recording session | `electron/recorder.ts`, `src/recorder-client.ts`, `src/App.tsx` | map of sessions, file descriptor, audio sidecar and the volume it raised, write chain; status, current session, replay handle | begin, append, finalize, preserve, cancel; start and stop flows; replay start, save, stop | MediaRecorder, ffmpeg |
| Display media and crop selection | `electron/main.ts`, `src/recorder-client.ts`, `src/App.tsx` | source cache, `nextDisplayMediaTypes`, `pendingPickedSourceId`, `pendingSelection`, `overlayWindow` | list, pick, hint, handle a display-media request, retry, draw a region | `desktopCapturer`, portal, windows |
| Validation harness | `validation/*.ts` | a row's fixtures: helper, connection, load, display mode, snapshot, export, directory | run a suite, 26 scripted rows, tear down | a helper, kscreen-doctor, ffprobe |
| Electron main, ffmpeg jobs, store and views, updater, portable mode | `electron/`, `src/` | glue and presentation | | |

What is hard in it:

* *Interleaving.* Every buffer operation runs under one mutex, but the encoder
  task, replay requests and the eviction take it in any order, and release it
  between steps. Two maps are locked in a fixed order by concurrent handlers
  and export tasks; a cancel races with the publication. A capture session is a
  thread and four tasks, and any of them may end first.
* *Crashes.* The helper may die between any two file operations: segment
  rename, manifest, init segment, part file, hint file.
* *Failing operations.* Each error path has its own clean-up, and an aborted
  dispatch may stop at an await.
* *Order of messages.* Events overtake answers; a timer (120 s watchdog, 30 s
  start, release backoff, restart) races with a late answer; a helper that died
  leaves answers and rejections behind; a socket that was destroyed still has
  its close event to come.
* *Awaits in one thread.* Main and renderer are single-threaded, but every
  `await` of a start, a boot, a finalize or a display-media request lets a stop,
  a cancel, a second start or a quit in between; what was checked before it no
  longer holds after it.
* *Liveness.* Saves wait for the close of a buffer; exports wait for ffmpeg;
  the renderer waits for calls that have no timeout.

`PROJECT.json` lists each of these at its line, with the property that watches
it.

What makes each component correct, in a sentence: the buffer never loses or
deletes what a snapshot pins, keeps its counters equal to the disk, evicts
what it must, and what it writes can be decoded, also after a crash; a capture session
is owned by somebody or ends on every side, its encoder loses no fragment and
sees each format change before its frames; an export
reads files that stay, emits one terminal event that tells the truth, replaces
no file and forgets none of its own that it could remove; the renderer shows what the helper does, never
waits for ever, and leaves no snapshot pinned; the supervisor runs one recovery
at a time, watches the helper it shows as ready, leaves none behind and always
reaches ready, unavailable or idle; a recording loses no footage that nobody
cancelled, as long as the writes succeed, gives the volume back and always has
somebody to end it; what is captured is what was picked; a validation row tries
to undo all that it began, and passes only if what it is about has been seen.

## 2. The modules

| Module | Models |
|---|---|
| `ReplayStore` | abstract: a log whose end a snapshot can take, which forgets segments but none that is taken |
| `SegmentBuffer` | the buffer, its encoder task, the replay requests that pin and release, crash and scan |
| `SegmentBuffer_proofs` | the proofs about it |
| `EncoderSession` | the encoder task of a capture session, the channel of frames, the slot of the active buffer |
| `CaptureSession` | requests, portal session, PipeWire thread and loops, the end of a connection, on top of `EncoderSession` (EXTENDS) |
| `CaptureSession_proofs` | the proofs about both |
| `ReplayExport` | request handlers, snapshots, export tasks, files at and around the output paths, crash and reaping |
| `ReplayExport_proofs` | the proofs about it |
| `ReplayClient` | the renderer, what is under way between it and the helper, and the helper as the renderer sees it |
| `ReplayClient_proofs` | the proofs about it |
| `EngineSupervisor` | boots, restart policy, shutdown, restart and quit of the helper's owner, sockets and processes |
| `EngineSupervisor_proofs` | the proofs about it |
| `Recorder` | the recordings of the main process, each await of begin, finalize and cancel a step |
| `RecordingApp` | the renderer on top of `Recorder` (EXTENDS): flows, chunks, replay buffer, quit |
| `RecordingApp_proofs` | the proofs about both |
| `DisplayMedia` | how a flow gets its stream, and the selection overlay |
| `DisplayMedia_proofs` | the proofs about it |
| `ValidationDrivers` | the scripted rows as sequences of steps |
| `ValidationRunner` | runs them: suite, RPC client, fixtures, a helper that dies or hangs |
| `ValidationRunner_proofs` | the proofs about both |
| `MC*` | give TLC symmetry sets and values of constants, where a `.cfg` cannot |

Names follow the source. A definition called `Name_Variant` in front of `Name`
is a plausible wrong version of it, used to see that the properties notice:
no run and no proof uses it.

### SegmentBuffer and ReplayStore

`Push`, `PushCommits`, `FormatChange`, `Finalize` ... are the calls of the
encoder task (`encoder/session.rs`) up to the point where the buffer writes a
file; `EvictOne`, `EvictDone`, `WriteManifest` and the `...Ends` actions go on
under the lock, one file operation each, so that a crash can fall in between.
`Save`, `PinSnapshot`, `RegisterSnapshot`, `RemoveSnapshot` and
`ReleaseSnapshot` are the awaits of `replay.save` and `snapshot_release`;
`AbortDispatch` is the server giving up a dispatch whose connection is gone.
`Crash` and `Scan` are the death of the helper and the next helper's
`scan_recoverable_sessions`. The state is `BufferInner` field by field; a
committed segment keeps its times, size, discontinuity flag and, as history,
the format its fragments were encoded in. Fragment contents are dropped. The
time of a fragment is that of the capture of its frame, which may come earlier
or later (`Gaps`) than the nominal duration says; `NextPts` forces stamps
upwards as the encoder does (`encoder/nvenc/mod.rs:1023`), so that `pts_end` of a
segment may lie behind the start of the next one, or well before it.

`ImplementsReplayStore` is the refinement: `nextIndex`, `committed` and `held`
are the abstract log, what can be taken, and what is taken. A commit is
`Record`, an eviction `Forget`, a pin `Take`, a release `Return`, everything
else a stutter.

### EncoderSession and CaptureSession

`enc` is how far the encoder task is: `clear`, `probe`, `install` are the steps of
`run_session` between its awaits, `configure`, `run`, `final`, `finalize` those of
`EncoderSession::run`, `discard` the loop that only releases frames. A frame is the
format it was captured in, a fragment its number; the backend and the sink are
behind traits, so they accept, push back or fail as they like. `DrainFragments` is
one round: what the backend gives joins `pending`, the sink accepts a part of it,
and the session goes on if the rest fits `PendingCap`. `Stall` and `Progress` are
the retry budget of `final_drain`.

`CaptureSession` has one `PipeWireSource` per session. `call` is the request under
way and the await where it stands: `portal`, `requested`, `wait`, `failed`, `record`,
`tasks`. The thread's callbacks are actions that may happen until the thread has
seen its quit flag: `Negotiate` and `Reject` (`param_changed`), `StreamStarts` and
`StreamError` (`state_changed`, the DMA-BUF retry included, which may answer the
waiting call too), `Process`, `SetupFails`, `ThreadExits`. `LoopTakes`, `LoopResets`
and `LoopEnds` are `pw_event_loop`. The portal session and the loop of diagnostics
end also when the last holder of `PwInner` drops it, so they are derived
(`PortalOpen`, `DiagRuns`). `conn` is the connection: `ending` while a request that
was cancelled may still end by itself, `cleanup`, `closed`; `aborted` that it did
not, and `AbortLands` the drop of its future, which may come after the cleanup
has stopped the session.

### ReplayExport

A `Handler` is a dispatch of a replay request, with two of them because an
abandoned dispatch may run beside the next connection's. Each step ends where
the code awaits or takes a lock; the lock of `active_exports` that
`snapshot_release` and `export_cancel` keep across steps is `exportsLock`. Each
export task goes through `task` = checks, copy, exiting, copied, muxing,
publish or the cross-device path probe, unprobe, openPart, copyPart,
renamePart, removeHint, then published, returned, ended. `files` are the files
of an export that are there: .tmp, diagnostics, hint, the probe for hard links
and .part; `stuck` those that a removal, which nobody checks, has failed on, and
`unhinted` the exports whose hint could not be written. `Fire` is the `terminal_fired` latch shared by
`run_export` and the outer task, `Panic` and `Fallback` the outer task's
watch. `RenameNoReplace` is the atomic rename that fails on an existing
target. ffmpeg is external: it may take any time, fail, or hang, but exits
once its stdout is closed. `Evict` is the buffer removing what nobody pins.

### ReplayClient

The renderer is single-threaded, so one action is one event, answer, timer or
click with everything its handler does, calls included. `inbox` holds what
travels to the renderer. The RPC client emits the notifications in one read of
the socket at once, while answers resolve promises a little later, so an event
may overtake answers and nothing else changes order (`Deliverable`). `requests`
is the helper's queue, one dispatch at a time. Calls pending when the helper
dies are rejected (`Rejections`); calls made while it is down are rejected at
once (`Call`). `starting` is the progress of `startCapture`, `backoff` the
releases waiting for another attempt.

The helper part is a summary: a capture is idle, requested or recording; an
export is none, running, ended (its event sent) or gone (left
`active_exports`); a release is refused while an export of the snapshot is not
gone. `engine` is up, down with a boot to come, or unavailable. `upsets` records
what happened that weakens the last two invariants: a session that began
while one was saved or exported (`overlap`), a watchdog that fired
(`timeout`), a full disk that ends the session for the renderer only (`sink`),
a restart by the user that sends no crashed event (`restart`). Several
`ready` announcements at start-up (event, replay at `did-finish-load`, and the
reconciling `engine.version`) are one, as the later ones change nothing.

### EngineSupervisor

Every await of `doBoot`, `doShutdown` and `restart` is a step boundary: `BootAdopt`,
`BootSpawn`, `BootConnect`, `BootReady` or `BootRefused` on one side,
`ShutdownAfterBoot`, `ShutdownRpc`, `ShutdownKill` on the other, `RestartTimer`,
`Restart`, `RestartResumes`, `Quit` and `Exit` beside them, and `OnClose` for the
close event of a socket, which comes some time after the socket was destroyed.
Two slots hold the executions of `doBoot`, as the code can have two under way
(section 5). A process may outlive its connection (`lost`), run without being
ours (`Foreign`, left by a former run and named in the PID file), or die at any
time. `ScheduleRestart` is the policy; the window of failures passes only while
nothing is under way, because the boots of a row of failures fit in it. The
heartbeat kills nothing and keeps no state, so it is not modelled.

### Recorder and RecordingApp

`rec` holds the `ActiveRecording` objects, also after they have left the map, as
a `finalize` that awaits goes on with its own. `job` is the await where `begin` or
`finalize` stands: verifying the sidecar, draining it, measuring it, encoding.
`Cancel` and `CancelAll` (quit) run at any of them. Descriptors are numbers that
are used again, so a descriptor closed twice may be another recording's (`torn`).
The volume of the monitor source is what the user set or full. In the renderer
`flow` is a begin flow from the click (`asking`, with the status still idle) to
the answer of `begin`; `stopping` a `stopFlow`; `buf` a replay buffer with the
phases of its start, of a save, which ends one recording and begins the next,
and of its stop. Chunks are one pending write per recording, and what matters
of them is whether one that somebody waited for was dropped (`holed`). A write
may also fail or be short; the renderer reports the first and goes on, and
nobody notices the second. `media` is the MediaRecorder: `TracksEnd` is a source
that ends by itself, after which a `stop()` waits for nothing and the last chunk
comes before it (`LastChunk`) or too late (`LateChunk`).

### DisplayMedia

A flow arms `pendingPickedSourceId` and `nextDisplayMediaTypes` in two IPC calls
and then asks; the handler reads both, with an enumeration in between. `rung`
counts the attempts (with sound, again, without), each of which arms anew. On
Wayland the portal chooses. `pendingSelection`, `overlayWindow` and `overlays` are
the crop selection. `destroy()` of a window emits its closed event at once, as
Electron does (external).

### ValidationDrivers and ValidationRunner

A driver is a sequence of steps `[op, bad, thrown]`: what it does, and the
reports its row may return with when the answer is bad and when it throws.
`ValidationRunner` has one action per kind of step, and an interpreter for the
parts of a row: body, shutdown sequence, finally block, a caller's reads and
its own finally block. The drivers differ in order and in what they undo, which
is what the properties are about; the evidence they write and the thresholds
they compute are left out. Time-outs are the throwing outcome of a call.
`alive`, `loads`, `dirs` and `forced` are what runs or lies about, `told`,
`cancelled` and `refused` what was asked of a helper and how it answered, `deaf`
that an answer is missing. A cancel is only a signal: the export ends by itself,
first with its terminal event and then by leaving `active_exports`
(`ExportStops`). Whatever undoes a fixture may fail without notice: `Teardown`
ends the script and not always its browser, `RestoreDisplayMode` and
`RemoveDirectory` ignore their errors.

## 3. The runs

| Run | States (distinct) | Shows |
|---|---|---|
| `buffer_safety` | about 2.2 million | pins, eviction, ring and disk, decodability, recovery, refinement |
| `buffer_live` | about 200 000 | a stopped session closes its buffer |
| `export_safety` | about 1.9 million | terminal events, sources, files, reaping |
| `export_live` | about 3 300 | an accepted cancel ends the export |
| `client_safety` | about 1.2 million | renderer against helper |
| `client_live` | about 130 000 | a save is over, and a click on start, unless it waits for the user |
| `supervisor` | about 815 000 | one recovery at a time, watched, no stray helper, settles |
| `recording` | about 5.5 million | footage, volume, nobody's recording |
| `display` | about 3.3 million | the picked source, the selection |
| `validation` | about 3.7 million | rows try to undo what they began, clean-up is seen |
| `capture` | about 310 000 | sessions end on every side, no orphan stream, fragments, markers, the right buffer |
| `capture_buffer` | stops at a counterexample | section 5 |

*Bounds of the buffer.* Two snapshots (one pin against another is what can go
wrong; a third adds no new relation), fragments of a nominal duration of two that
are captured at once or three units after the last one (`Gaps`), so that they
overlap or leave a gap, up to time five (`MaxPts`), with a window of four and a
cap of three segments, so that age and cap both evict; save durations of three
(within the window) and nine (everything); indices up to four, one format
change, one failing file operation, and a crash at any step. One size and
duration of fragment suffice because only sums and comparisons are made;
keyframes are free, so segments have one or several fragments.
`MaxIndex` also leaves the last index to finalize. The snapshot names are
symmetric.

*Bounds of the exports.* Two dispatches, two exports onto one path, one live
and one recovered snapshot, one fault (a removal that fails included) or panic, a crash. Conflicts are between
two parties, so two of each suffice; one path makes every publication collide.
A user's own file may be there from the start.

*Bounds of the client.* `MaxEvents` = 2 bounds saves, crashes, restarts and
full disks together: two saves meet each other, and one save meets any fault.
Two exports or two capture sessions, three of them together (`MaxOpened`), so that
a late event of the first meets the second. `Attempts` = 2 (four in the code) is enough for one refusal
followed by success. `MaxTraffic` = 2 limits clicks to when fewer than two
messages are under way; the helper's own events are not limited by it. With
`Attempts` = 1 `NoSnapshotLeft` fails, as it should: the retry is what keeps
it. `client_live` has one export and one session, for the size of the
liveness graph.

*Bounds of the capture.* A run is one of two kinds (`MCBounds`). Two sessions that
follow one another without frames: what they share is the active capture, the
connection and the slot of the buffer, and none of these depends on frames. Or
one session with two formats, two frames and one fault of the stream: a channel
of one place (`Capacity`, 4 in the code) is full after the first frame, so that
the marker of the second format has to wait; `PendingCap` = 1 and `MaxStalled` = 2
are reached and exceeded. Encoder, sink and portal fail freely in both.

*Bounds of the supervisor.* Two processes of our own and one of a former run,
two sockets, two restarts by the user, one death that nobody asked for, and
`MaxFailures` = 2 (three in the code): enough for a boot to fail, back off, fail
again and be given up, with a restart and a quit in any of its awaits.

*Bounds of the recordings.* Three recordings in a run, one start flow at a time
and one replay buffer: a flow's recording, a replay's, and the one its save
begins overlap. Two flows at once, which the guards allow, are excused by
`doubled` and break `NoOrphan` otherwise. Volume, descriptors and quit are
conflicts between two recordings, so three suffice. `MaxEnded` = 1: the tracks of
the first one may end by themselves; what this does to a recording does not
depend on the others. Writes fail without a bound.

*Bounds of the display.* One screen, one window, two recording flows and the
replay buffer. What can be wrong is screen for window or one flow's source for
another's, so one of each kind is enough. The flows are symmetric.

*Bounds of the validation.* Two of the 26 rows run one after another, any two in
the order of the suite: a row meets what an earlier one has left. The
properties speak of the row that ran and of its predecessor's leftovers; a
third row meets no more than their sum. `MaxLeft` = 1: the second row begins when
at most one thing is left of the first (a helper, a pin, an export, a load or a
directory); they are independent of each other. Neither bound is in the theorems.

Deadlock is checked for `display` and `validation`; the other systems may stop for
good (nobody clicks, the stream ended, the helper was not started again).

Some properties name what excuses them, by a variable that records what
happened: `stale`, `lost` (supervisor), `torn`, `crossed`, `doubled`, `late`
(recordings), `crossed`, `stale`, `raced` (display), `deaf`, `refused`, `cancelled`,
`lost`, `unstopped`, `unremoved` (validation), `stuck`, `unhinted` (exports),
`late`, `rejected` (capture). Each stands for one thing that the code does let happen, listed
in section 5; outside it the property holds.

### Fairness

* `SegmentBuffer`: the encoder task and the holder of the lock are scheduled
  by tokio; a stopped capture drops its sender, so the stream ends. Requests
  need not be made nor go on.
* `ReplayExport`: handlers and tasks are scheduled. A task that must take the
  lock of `active_exports` gets it although handlers take it again and again
  (strong fairness), as tokio's mutex is a fair queue. Nothing makes ffmpeg end
  by itself; after its stdout is closed it exits.
* `ReplayClient`: messages arrive, the helper serves its requests, the watchdog
  and the start timer fire. But a request for a session shows the portal's
  dialog, which has no time-out (`capture/pipewire.rs:772`): nothing makes the
  user answer it, and no request behind it is served until then (`DialogOpen`).
  An export need not end and may hang; nobody needs to click; a helper that
  crashed need not come back.
* `CaptureSession`: some task or thread that can run does; the wait for the stream
  has a time-out, a portal flow ends once it is cancelled, a connection that ends
  gets to its cleanup, and an event that waits for room in the notifier is sent or
  fails. Users, compositor and client need do nothing, and frames need not come.
* `EngineSupervisor`: each await of a boot or a shutdown ends, since each has a
  time-out; a timer fires; a destroyed or orphaned socket closes. Helpers need
  not live, and nobody needs to restart or quit.

## 4. What is proved

From the named assumptions on the constants alone (finite sets, natural
numbers, the constants that stand for nothing are no member of the sets), for any
number of snapshots, segments, formats, faults, requests, exports, paths, sessions,
frames, recordings, flows, screens, rows of a suite and crashes:

| Module | Theorems | Argument |
|---|---|---|
| `SegmentBuffer_proofs` | `TypeCorrect` (`TypeOK`) | inductive by itself, one step per action |
| | `PinsAreExact`, `PinnedStaysOnDisk` | `PinInv` |
| | `SegmentsAreDecodable` | `OrderInv`, with `TypeOK` |
| | `Refinement` (the buffer implements `ReplayStore`) | `TypeOK` and `PinInv`, one lemma that maps each step |
| | `CrashKeepsSegments`, `CleanMatchesInit` | `StoreInv` on top of `PinInv` and `OrderInv` |
| | `RingIsBounded`: with these, every safety property of the run `buffer_safety` | `DiskInv`, with lemmas about sums and the eviction scan |
| `CaptureSession_proofs` | `TypeCorrect`, `NoFragmentLost`, `OwnsItsStream`, `OwnBuffer`, `MarkerBetween`: every safety property of the run `capture` | `IInv` |
| `ReplayExport_proofs` | `TypeCorrect`, `OneEvent`, `SnapshotHeld`, `EventTrue`, `FilesCleared`, `FilesStay`, `SourcesStay`: every property of the run `export_safety`, and that readers hold their snapshot | `IInv` |
| `ReplayClient_proofs` | `TypeCorrect`, `ExportingWatched`, `RecordingInSession`, `SessionShown` | `IInv` |
| `RecordingApp_proofs` | `TypeCorrect`, `FootageIsSafe`, `VolumeIsRestored` | `IInv` |
| | `NoneIsOrphan`: with these, every property of the run `recording` | `OrphanInv` on top of `IInv` |
| `DisplayMedia_proofs` | `TypeCorrect`, `SourcePicked`, `RegionAnswered`: every property of the run `display` | `IInv` |
| `EngineSupervisor_proofs` | `TypeCorrect`, `OneCycle`, `ReadyIsWatched`, `NoneForgotten`: every safety property of the run `supervisor` | `IInv`, then `PInv` |
| `ValidationRunner_proofs` | `AllRows` (what every script does) | by concatenation of the fragments |
| | `TypeCorrect`, `NothingLeft`, `CleanupSeen`: every property of the run `validation` | `IInv`, with `AllRows` |

*Buffer.* `PinsExact` alone is not inductive: a release could decrement the count
of a segment that was evicted under a snapshot. `PinInv` adds that only snapshots
that count hold segments and hold them in the ring, that the ring is on disk,
that the segments chosen for eviction are unpinned and stay so while the lock
is held, and that the next index is new. Counting holders uses the cardinality
theorems of the library for one element more or less. `SegmentsDecodable`
is about the stamps that the encoder forces upwards and not about `pts_end`,
which is nominal; it needs that the pending segment comes after all stored ones
and starts with a keyframe, also while a push waits for its commit, and that no
stamp is behind the last one given (`PendingInOrder`, `KeyframeStarts`).

What a crash leaves is a matter of every single file operation. `StoreInv` says that
an evicted segment has no file left, that a committed one which the manifest does not
list is the one committed last, with its commit under way or the encoder stopped
(`ManifestInv`), and that `init.mp4` is written once, before the first segment
(`MatchInv`). `RingIsBounded` is about the plan and not only about its outcome: from
the choice of the victims until the lock is released, what will be left once all of
them are gone is within window and cap, or pinned (`DiskInv`). That the greedy scan
`Freed` chooses enough is a statement about a recursive function, and the byte counter
one about a sum over a set. The library's induction theorems cannot be used for them,
as they take an operator, but its theorems on well-founded orders can: a smallest set,
or a smallest index, at which the statement fails leads to a contradiction
(`SumUnique`, `TotalGrows`, `ScanExists`, `EvictsEnough`).

*Exports.* That a running export keeps its snapshot depends on what requests may
do between their locks. `RegistryInv` says that from the check of a release to the
removal nobody references the snapshot, and that an export which has a path but
no task yet is of exactly one request; `SnapshotInv` that a snapshot is in the map,
listed, or claimed by one request, and that the first has its files and pins.
`ExportInv` ties event, files and path to the station of the task (`EventOf`,
`FilesOf`, `OutOf`), so that `EventMatchesFile` and `NoLeftovers` hold when the event
is emitted. What lies about after a removal that failed is kept apart (`Has`), and
a .part file has its hint, or is of an export that could not write one (`Hinted`):
that the next boot finds the rest (`BootsClean`) is a part of the invariant. `ExportInv` is not an invariant of the export alone: an export with
nothing at its path may see another one's file there, and `RenameNoReplace` is what
`NoClobber` comes down to.

*Capture.* All of it is about what may still come while somebody waits. `SessInv` ties
the request under way to its session at every await (`RequestInv`) and the end of a
connection to what it has left to do (`ConnInv`); a thread that nobody has told to end
is of the active session (`ThreadInv`), and a session that starts or records has a
running thread, or the news of its end are still to be read by its loop
(`NewsInv`). This is why no order of a failing stream, a stop and a cleanup leaves a
stream alone. `MarkerFirst` speaks of what is in the channel; `MarkerInv` adds what
the thread still owes: behind the last thing sent comes a frame of the same format, or
the marker is due. `SlotInv` says of a session that has settled, and is not in `late`,
that no other encoder is yet to install its buffer: the excuse in `RightBuffer` is
exactly the race that `capture_buffer` shows.

*Client.* `RecordingHasSession` and `SessionIsShown` depend on what is under way. The
traffic is typed (`TrafficOK`, `IdsOK`): an answer carries its request, and only some
messages carry an id. `SessionInv` looks at the inbox from its end: the last message
that settles the session says what the helper captures, and if there is none the
renderer knows already. This survives reordering because events overtake
nothing but answers. `DownInv` says the same of a helper that died: either the
announcement is under way, with nothing but answers behind it, or it has been
handled. `TypeOK` bounds counters, so its proof counts: each snapshot, and each save
under way, has a click of its own (`SavesCounted`).

*Recordings.* `RecordInv` says for each await of `begin`, `finalize` and `cancel` what
the recording has: its entry in the map, descriptor, volume, answer, and that its
temp file or its output is there unless it was cancelled. `FileInv` says that a
descriptor is one recording's, and that a recording in the map writes to its own
unless a close went astray (`torn`). `FootageSafe` follows with `ChunksKept`, for which
nothing that somebody waits for may be pending once a recording is closed
(`QuietInv`, `MediaInv`): its recorder has stopped, or has ended by itself before
and sends its last chunk into the void.
`VolumeInv` says that outside `crossed` what a recording would put back is what the
user has set. `NoOrphan` relates both processes: no two flows, starts or saves await
the same recording (`OwnerInv`), what a replay buffer has of its start, save and stop
agrees (`BufferInv`), and what is awaited has begun (`BegunInv`). `OrphanInv` adds
that a save is of the active recording (`EndInv`) and, up to the first `doubled` or
`late`, that one flow at a time has the status (`StatusInv`) and that a recording has
somebody to end it from its first await on (`HeldInv`).

*Display media.* `PickHonoured` speaks of the stream a flow has; what decides is
earlier. `PickInv` says that of two flows that have armed something one only hints
a kind and is yet to do so (`Alone`), that what is armed is then what the armed flow
wants (`HeldFor`), and that a pick belongs to a flow that is yet to be answered, or
was left behind (`Owned`). `SelInv` says whose the pending selection is.

*Supervisor.* Neither `SingleCycle` nor `ReadyListens` is inductive: what the boots,
the timer, the shutdown and the close events may do depends on each other.
`CycleInv` says it for as long as no late close event was taken for a crash: a
shutdown has been asked for as long as one is under way, and has its station in
`state` (`ShutdownInv`); a boot is the running one, in "starting", and no shutdown
is past waiting for it (`BootInv`); the timer waits in "restarting" only
(`TimerInv`); and the one socket whose loss would count is that of the helper in
use (`SocketInv`), which is why a close event that is not late cannot meet a boot.
`NoStrayHelper` needs that proof first. `ProcInv` then says that what runs of ours
is `proc`, at every station of a boot and of a shutdown, and that the socket in use
leads to it, so that a crash that clears `proc` leaves nothing running; `BornInv`
that no socket leads to a process yet to be started. The theorem is stronger
than the property: `held.proc` and the PID file are not needed.

`ReadersHoldSnapshot` and `RecordingHasSession` are proved and in no run: the first
is a part of what `SourcesKept` needs, and the second of `SessionIsShown`.

`TypeCorrect` of the recordings and of the harness are in no run either, `recording`
and `validation` being among the largest ones.

*Validation.* `RowsLeaveNothing` depends on the scripts of 26 rows, of up to 25 steps
each, and an induction over a script is out of the prover's reach. So what a script
does is derived the way it is put together: for each fragment a lemma says which
operations occur in it, in which order those come that must (`Rank`: look at the
baseline and enforce the mode, spawn, remode or make the directory, count, then the
gates or the hand-over), that the id of a snapshot is taken right after its save, and
that the mode is enforced once (`Does`); and all of this is kept by concatenation.
`AllRows` concludes for each row that its finally block undoes what its body begins,
whichever step of it fails (`Undone`, `Tried`), and that it does not go on past gates
or a count that failed (`Step`).

The invariant `IInv` of the runner then has one conjunct for each fixture, of the same
form: what has begun and is not undone is known to the variable of the driver that the
finally block tests, and the step that undoes it lies ahead in that block (`Undoes`),
or it outlived that step. This is said of each row's fixtures: helpers that nobody
has told to end (`Untold`), snapshots of which no answer is missing and no release
was refused (`Held`), exports that nobody cancelled (`Going`), loads and directories
that no step has failed to end or remove (`Shown`).
`CountInv` says that the row's own helper is not in the baseline it compares with,
which is why leftovers of earlier rows cannot hide it; `DirInv` that a directory is
handed over at the end of a body only, to the caller whose cleanup removes it. Here the
order of the steps matters: a helper spawned before the baseline is taken, or gates
before the count, would break it.

Model-checked only:

* `NoSnapshotLeft` of the client. It holds because an answer is handled long before the
  fourth attempt to release a snapshot, and the model has no clock: what keeps a stale
  answer from meeting a later save is the bound on the traffic at a click. A theorem
  would be about that bound, and not about the code.
* All liveness, which rests on fairness and `ENABLED`, out of the prover's reach.

## 5. Where the code does not do what it says

One is a run that ends in a counterexample; `PROJECT.json` quotes the line.

* `capture_buffer`: `start_stream` evicts the buffer of a former session so that a
  save "cannot pin the wrong session's segments", but nothing waits for the former
  session's encoder task. If that is still probing its backends it installs its
  buffer afterwards, and saves of the new session pin the old one's segments; for
  good, if the new session's task has installed its own before
  (`helper/src/encoder/mod.rs:223`, `late`).

The others were met while modelling, and the models show them.

Segment buffer and exports:

* Eviction passes over pinned segments and goes on beyond them, so a save longer
  than the window may hold old pinned segments and recent ones with a gap in
  between (`segment/buffer.rs:242`).
* If the commit of the tail fails, `finalize` returns before it closes the buffer,
  and `still-finalizing`, documented as retryable, is for good
  (`segment/buffer.rs:718`).
* A crash between the rename of a segment and the manifest leaves a committed
  file that the scan deletes as a "stale orphan from failed evictions".
  `CrashLosesOnlyNewest` shows that this is at most the newest one.
* The cancel handler reads `in_muxing` and sends the cancel in two steps; the task
  may go on to publish in between, so a cancel answered with `ok` ends in
  `export.completed` (`export/mod.rs:866`).
* A dispatch that is aborted between two awaits leaves its pins in the buffer, which
  nobody can release any more, or an entry in `active_exports` without a task: its
  snapshot cannot be released and the export sends no event
  (`transport/server.rs:620`). Both last until the helper ends.
* The files `<id>.hlink-probe` and `<id>.hlink-probe-link` in the destination are
  named by no hint, and the reaper looks for .part files only: a crash between
  their creation and removal leaves them for good (`export/mod.rs:1397`).
* Removals of an export's files are best effort (`let _ = remove_file`, lines 89,
  1312, 1467 to 1469, 1499), and so is the hint file, without which a crash leaves
  the .part file for good. `NoLeftovers` speaks of what was not such a failure
  (`stuck`, `unhinted`).

Capture:

* A rejected format clears the format that the thread compares with, so a format
  that is negotiated after it sends no marker (`capture/pipewire.rs:1390`,
  `rejected`); the session is about to be lost then.
* An unaborted remainder of `start_stream` may set `Recording` on a session that the
  cleanup of its connection has just stopped. Its thread has the quit flag, so it
  ends all the same (`capture/pipewire.rs:1033`; `StopsAll` shows it).

Replay client:

* After the watchdog gave up on an export, its late terminal event is taken for
  that of the next save while that one's export id has not arrived yet; the new
  snapshot is released before its export starts (`src/v2/engine.ts:272`).
* A session that becomes ready while an export is under way shows RECORDING, and a
  save then replaces the id of a snapshot that was not released: it stays pinned
  (`src/v2/engine.ts:180`, `overlap`).
* A click on Start waits for as long as the user leaves the portal's dialog open,
  and so does every request behind it (`helper/src/capture/pipewire.rs:772`).
* A restart by the user sends no crashed event, so a renderer that meanwhile
  went back to RECORDING shows a dead session; a full disk makes the renderer
  idle while the helper's capture stays active, so that the next start is
  refused.

Supervisor:

* `restart()` resets `shutdownRequested` when the shutdown is done; the close event
  of the socket it destroyed may come after that, is taken for a crash of the
  helper being booted, and a second boot begins beside the first (`stale`).
* A helper that outlived its connection is adopted at best, and an adopted helper
  is only asked to end: a shutdown without a connection removes its PID file and
  leaves it running (`lost`).
* A restart that waits for the same shutdown as a quit goes on first and boots a
  helper that the quitting program leaves behind (`overtaken`, then `gone`); after
  15 s a quit does not wait any longer.

Recordings:

* A recording that starts while another has raised the monitor's volume saves
  100 % as the prior value; if it is restored last, the volume stays there
  (`electron/recorder.ts:184`; the comment at line 45 says that the prior value is
  restored on stop). `VolumeRestored` speaks of recordings that did not overlap so.
* A chunk that cannot be written is reported and the recording goes on, with a hole
  in its file; a short write is not noticed at all, since nobody reads the count
  that `writeSync` returns (`electron/recorder.ts:360`, `src/recorder-client.ts:554`,
  `1054`). `FootageSafe` speaks of the chunks whose write did not fail.
* `stop()` of a recorder that is inactive already waits for the writes it knows of
  only, so that the last chunk of a source that has ended by itself may come after
  `finalize` has closed the file, and is dropped (`src/recorder-client.ts:598`).
* A recorder that throws on `start(1000)` leaves a recording that has begun: its file,
  sidecar and raised volume stay until quit (`src/recorder-client.ts:577`).
* A cancel (or quit) during `finalize` closes the descriptor although `finalize` will
  close, or has closed, it as well; by then the number may be another
  recording's (`electron/recorder.ts:723`, `torn`).
* Without ffmpeg, a failed copy to another device rejects `finalize`: the session
  stays in the map, the app shows "finalizing" for good, and quitting deletes the
  temp file (`electron/recorder.ts:406`, `src/App.tsx:553`).
* Temp files that a failed `finalize` preserves for the user are swept at the next
  launch (`electron/main.ts:1534`; the comment at `electron/recorder.ts:654` says
  they are kept).
* A second click during the awaits before "preparing" starts a second flow
  (`src/App.tsx:385`), and so does a second start of the replay buffer (`doubled`).
* The end of any track stops whatever session is current (`src/App.tsx:306`).
* A replay buffer stopped while its save begins the next recording leaves that
  recording running until quit, if `begin` answers before the tracks have ended
  (`src/recorder-client.ts:1221`, `late`).
* When one of two overlapping recordings ends, the tray shows that nothing is
  being recorded (`electron/main.ts:357`; not in the model).
* Chunks are read by `arrayBuffer()` before they join the write chain, so their
  order rests on these promises resolving in order (`src/recorder-client.ts:547`;
  not in the model).

Display media:

* Two flows that arm at once get each other's source (`crossed`). A recording of a
  window is then refused rather than made of a screen; a replay has no such
  guard (`src/recorder-client.ts:890`).
* A pick stays armed when the enumeration fails or is empty, and the next request
  that only hints a kind takes it (`stale`).
* A second selection passes the check of the first while that one enumerates
  (`electron/main.ts:628`, `642`); the overlay of the first stays on the screen
  (`raced`).
* When `begin` is rejected in `wrapStreamIntoSession` its callers do not stop the
  tracks.
* `pendingCrop` and `CropOverlay` are not reached by any flow.

Validation harness:

* Pending calls are rejected when the socket fails but not when it closes, so a
  dead helper is noticed by the time-out of each call; a notification is matched
  by its method alone, so one that was queued earlier may be taken.
* What throws outside a driver's own `try` (the directory for the evidence, the
  reads of VAL-EXP-010 and VAL-REG-002 after the export) ends the suite.
* VAL-SEG-003 forgets the snapshot it has released even if the release was
  refused (`validation/drivers.ts:2434`; the comment at 2422 says that no pinned
  entries leak); an answer whose evidence cannot be written loses its id
  (`deaf`); the display's mode is not restored if the former one could not be
  read, or if kscreen-doctor fails or takes too long (`lost`,
  `validation/display-mode.ts:148`).
* The finally blocks cancel an export and release its snapshot right after; since a
  cancel is only a signal, that release may be refused and is not tried again
  (`validation/drivers.ts:3062`, `refused`).
* The teardown of a load ends the script that has started the browser, and not
  always the browser (`validation/loads.ts:51`, `unstopped`); a directory that cannot
  be removed stays (`validation/drivers.ts:3140`, `unremoved`).
* Helpers of earlier rows that are still ending are part of a row's baseline, so
  a row can neither fail nor be held up by them.

## 6. Not modelled

Byte layout of fMP4, encoder libraries, audio and Windows capture (foreign
interfaces or stubs without state); the simulated engine; window, hotkey, tray,
gallery, settings and view code (presentation and glue); ffmpeg arguments; the
updater and portable mode. Of the transport, framing and the takeover of the
socket; the staging limits are one of the ways in which a connection ends.

Inside modelled components: diagnostics, logging and progress; frame-rate hints,
restore tokens and the choice of DMA-BUF or shared memory in the capture; `flush` and `close`
of the buffer, which only tests call; unreadable directories and manifests of
older versions in the scan; pausing a stream and the automatic discarding of
recovered sessions in the client; `export.cancelled` in the client, since no
control of it cancels an export; the supervisor's heartbeat; the geometry of a
crop and the sizes of the canvas in the recorder; the loop over encoders in
`finalize`, which is one step that succeeds or does not; the thresholds and the
evidence of the validation rows, and the rows done by hand.

## 7. What is left

1. `CaptureSession` as an implementation of the capture part of `ReplayClient`, and
   `EncoderSession` composed with `SegmentBuffer` as its sink.
2. The supervisor as an implementation of what `ReplayClient` assumes of `Crash`,
   `Boot`, `BootFails` and `Shutdown`.
3. Staging limits and takeover of a connection of the transport.
