--------------------------- MODULE SegmentBuffer ---------------------------
(***************************************************************************)
(* The rolling fMP4 segment buffer of the native helper                    *)
(* (helper/src/segment/buffer.rs, writer.rs, recovery.rs).                 *)
(*                                                                         *)
(* One encoder task pushes fragments, which accumulate in a pending        *)
(* segment and are committed to one file each.  Replay RPCs pin committed  *)
(* segments and release them.  Segments that nobody pins are evicted by    *)
(* age and by disk cap.  Every operation runs under one mutex, but writes  *)
(* files on the way, so the helper may die between any two of its steps;   *)
(* the next helper then scans what is on disk.                             *)
(***************************************************************************)
EXTENDS Integers, FiniteSets, FiniteSetsExt

CONSTANTS
  Snap,           \* names for the snapshots a replay.save may create
  SaveDurations,  \* durations a replay.save may ask for
  FragDurations,  \* nominal durations of an encoded fragment
  Gaps,           \* from the last fragment's timestamp to the next frame's capture
  FragSizes,      \* sizes of an encoded fragment
  Target,         \* target_duration_90k: a segment may be closed from here on
  Window,         \* window_duration_90k: older segments are evicted
  DiskCap,        \* disk_cap_bytes: above it segments are evicted
  MaxIndex,       \* bound: segment indices handed out, the last one to finalize
  MaxPts,         \* bound: the last timestamp
  MaxFormat,      \* bound: number of format changes
  MaxFaults,      \* bound: number of failing file operations
  NoManifest      \* the manifest of a session that has not written one

ASSUME ConstantsAssumption ==
  /\ IsFiniteSet(Snap)
  /\ SaveDurations \subseteq Nat
  /\ FragDurations \subseteq Nat
  /\ Gaps \subseteq Int
  /\ FragSizes \subseteq Nat
  /\ {Target, Window, DiskCap, MaxIndex, MaxPts, MaxFormat, MaxFaults} \subseteq Nat

Index  == 0 .. MaxIndex
Format == Nat
NoInit == -1

\* One encoded fragment: what the buffer reads of it.
Fragment == [pts : Nat, key : BOOLEAN, dur : Nat, size : Nat]

\* The in-progress segment: frags counts its fragments, 0 when it is empty, and
\* last is the timestamp of the last one.  A duration is nominal, so end may lie
\* before or behind the start of what follows.
Pending == [frags : Nat, start : Nat, last : Nat, end : Nat, dur : Nat,
            size : Nat, key : BOOLEAN, format : Format]

EmptyPending == [frags |-> 0, start |-> 0, last |-> 0, end |-> 0, dur |-> 0,
                 size |-> 0, key |-> FALSE, format |-> 0]

\* A committed segment.  format is the capture format of its fragments; the
\* code keeps only whether the segment follows a format change (disc).  last is
\* only in its bytes.
Segment == [start : Nat, last : Nat, end : Nat, size : Nat, key : BOOLEAN,
            disc : BOOLEAN, format : Format]

NoSegment == [start |-> 0, last |-> 0, end |-> 0, size |-> 0, key |-> FALSE,
              disc |-> FALSE, format |-> 0]

VARIABLES
  \* the encoder task that feeds the buffer
  enc,            \* where it is: configure, run, setInit, ending, finalize, done
  pts,            \* timestamp of the last fragment (dts_90k)
  format,         \* capture format it encodes now
  frag,           \* the fragment of the push call that is committing
  \* the mutex and the operation under it
  lock,           \* free, evict, manifest
  user,           \* whose operation holds it: push, format, finalize, release
  victims,        \* segments chosen for eviction and not yet removed
  removed,        \* did this eviction remove any file?
  \* BufferInner and the two flags beside it
  stored,         \* indices whose commit succeeded, the evicted ones included
  seg,            \* metadata of each index in stored
  committed,      \* indices now in the committed ring
  pins,           \* pin_count of each index
  pending, nextIndex, seenKey, eligible, formatChanged, bytes,
  closing,        \* the teardown flag of mark_closing
  closed,         \* closed flag and close_tx watch
  \* replay.save and replay.snapshot_release
  phase,          \* progress of each snapshot
  held,           \* segments each snapshot pins
  \* the session directory
  files,          \* indices whose <index>.mp4 exists
  manifest,       \* indices listed in manifest.json, or NoManifest
  init,           \* format of init.mp4, or NoInit
  \* the helper process
  stage,          \* up, down, scanned (by the next helper)
  recovered,      \* indices the scan found recoverable
  faults          \* failing file operations so far

encoderVars  == <<enc, pts, format, frag>>
lockVars     == <<lock, user, victims, removed>>
segmentVars  == <<stored, seg, committed>>
pendingVars  == <<pending, seenKey, eligible>>
snapshotVars == <<phase, held>>
diskVars     == <<files, manifest, init>>
processVars  == <<stage, recovered>>

vars == <<encoderVars, lockVars, segmentVars, pins, pendingVars, nextIndex,
          formatChanged, bytes, closing, closed, snapshotVars, diskVars,
          processVars, faults>>

-----------------------------------------------------------------------------
(* Helpers *)

Newest(S) == CHOOSE i \in S : \A j \in S : j <= i

\* pts_end of the last segment in the ring, 0 when the ring is empty.
NewestEnd == IF committed = {} THEN 0 ELSE seg[Newest(committed)].end

Unpinned_OncePinned(i) == pins[i] <= 1

Unpinned(i) == pins[i] = 0

Expired(i) == seg[i].end < NewestEnd - Window

\* Bytes that the eviction scan has chosen to free among the indices below i:
\* it goes from the oldest to the newest segment and skips the pinned ones.
Freed[i \in Index] ==
  IF i = 0 THEN 0
  ELSE LET chosen == /\ i - 1 \in committed
                     /\ Unpinned(i - 1)
                     /\ Expired(i - 1) \/ bytes - Freed[i - 1] > DiskCap
       IN  Freed[i - 1] + (IF chosen THEN seg[i - 1].size ELSE 0)

Evictable_StopAtPinned ==
  {i \in committed : /\ \A j \in committed : j <= i => Unpinned(j)
                     /\ Expired(i) \/ bytes - Freed[i] > DiskCap}

\* The segments that evict_eligible removes.
Evictable ==
  {i \in committed : /\ Unpinned(i)
                     /\ Expired(i) \/ bytes - Freed[i] > DiskCap}

WithinLast_Oldest(d) == {i \in committed : seg[i].end <= seg[0].end + d}

\* The segments that pin_snapshot walks over, from the newest one back to the
\* first that ends at or before the cutoff.
WithinLast(d) ==
  {i \in committed : \A j \in committed : j >= i => seg[j].end > NewestEnd - d}

NextPts_Unforced(captured) == captured

\* next_monotonic_pts: a frame is stamped with its capture time, or right after
\* the last one.
NextPts(captured) == IF captured > pts THEN captured ELSE pts + 1

Accumulate_FromEnd(p, f) ==
  [frags |-> p.frags + 1, last |-> f.pts, end |-> f.pts,
   start |-> IF p.frags = 0 THEN f.pts - f.dur ELSE p.start,
   dur |-> p.dur + f.dur, size |-> p.size + f.size,
   key |-> IF p.frags = 0 THEN f.key ELSE p.key,
   format |-> IF p.frags = 0 THEN format ELSE p.format]

\* PendingSegment::push: f is appended to p.
Accumulate(p, f) ==
  [frags  |-> p.frags + 1,
   start  |-> IF p.frags = 0 THEN f.pts ELSE p.start,
   last   |-> f.pts,
   end    |-> f.pts + f.dur,
   dur    |-> p.dur + f.dur,
   size   |-> p.size + f.size,
   key    |-> IF p.frags = 0 THEN f.key ELSE p.key,
   format |-> IF p.frags = 0 THEN format ELSE p.format]

\* A snapshot counts in pin_count from its pin to its release, also when the
\* request that made or released it was aborted half-way.
Pinning(s) == phase[s] \in {"pinned", "held", "unpinning", "leaked"}

\* The connection dispatches one request at a time.
RpcIdle == \A s \in Snap : phase[s] \in {"free", "held", "leaked"}

Fault == faults < MaxFaults /\ faults' = faults + 1

-----------------------------------------------------------------------------
Init ==
  /\ enc = "configure" /\ pts = 0 /\ format = 0
  /\ frag = [pts |-> 0, key |-> FALSE, dur |-> 0, size |-> 0]
  /\ lock = "free" /\ user = "push" /\ victims = {} /\ removed = FALSE
  /\ stored = {} /\ committed = {}
  /\ seg = [i \in Index |-> NoSegment]
  /\ pins = [i \in Index |-> 0]
  /\ pending = EmptyPending /\ seenKey = FALSE /\ eligible = FALSE
  /\ nextIndex = 0 /\ formatChanged = FALSE /\ bytes = 0
  /\ closing = FALSE /\ closed = FALSE
  /\ phase = [s \in Snap |-> "free"]
  /\ held = [s \in Snap |-> {}]
  /\ files = {} /\ manifest = NoManifest /\ init = NoInit
  /\ stage = "up" /\ recovered = {} /\ faults = 0

-----------------------------------------------------------------------------
(* The encoder task, up to its calls of the buffer *)

Up          == stage = "up"
LockFree    == lock = "free"

\* The encoder task is at p, and not inside an operation of its own.
EncoderAt(p) == Up /\ enc = p /\ (LockFree \/ user = "release")

\* EncoderSession::run, before the loop: the backend has its init segment at
\* once, or only after its first IDR frame, or fails to configure.
Configure ==
  /\ EncoderAt("configure")
  /\ enc' \in {"run", "setInit", "ending"}
  /\ UNCHANGED <<pts, format, frag, lockVars, segmentVars, pins, pendingVars,
                 nextIndex, formatChanged, bytes, closing, closed, snapshotVars,
                 diskVars, processVars, faults>>

\* set_init_segment: init.mp4 is replaced; later segments match it.
PersistInit ==
  /\ EncoderAt("setInit") /\ LockFree
  /\ init' = format
  /\ formatChanged' = FALSE
  /\ enc' = "run"
  /\ UNCHANGED <<pts, format, frag, lockVars, segmentVars, pins, pendingVars,
                 nextIndex, bytes, closing, closed, snapshotVars, files, manifest,
                 processVars, faults>>

\* A failure before the loop finalizes without marking the buffer as closing.
PersistInitFails ==
  /\ EncoderAt("setInit") /\ LockFree
  /\ Fault
  /\ enc' = IF seenKey THEN "ending" ELSE "finalize"
  /\ UNCHANGED <<pts, format, frag, lockVars, segmentVars, pins, pendingVars,
                 nextIndex, formatChanged, bytes, closing, closed, snapshotVars,
                 diskVars, processVars>>

\* The end of run_loop: the receiver is exhausted, or the backend failed.
EndOfStream ==
  /\ EncoderAt("run")
  /\ enc' = "ending"
  /\ UNCHANGED <<pts, format, frag, lockVars, segmentVars, pins, pendingVars,
                 nextIndex, formatChanged, bytes, closing, closed, snapshotVars,
                 diskVars, processVars, faults>>

SetClosing ==
  /\ EncoderAt("ending")
  /\ closing' = TRUE
  /\ enc' = "finalize"
  /\ UNCHANGED <<pts, format, frag, lockVars, segmentVars, pins, pendingVars,
                 nextIndex, formatChanged, bytes, closed, snapshotVars,
                 diskVars, processVars, faults>>

-----------------------------------------------------------------------------
(* push, notify_format_change, finalize *)

CanPush(f) ==
  /\ EncoderAt("run") /\ LockFree
  /\ ~closed
  /\ f.pts <= MaxPts

\* Fragments ahead of the first keyframe are dropped.
DropFragment(f) ==
  /\ CanPush(f)
  /\ ~seenKey /\ ~f.key
  /\ pts' = f.pts
  /\ UNCHANGED <<enc, format, frag, lockVars, segmentVars, pins, pendingVars,
                 nextIndex, formatChanged, bytes, closing, closed, snapshotVars,
                 diskVars, processVars, faults>>

ClosesPending_AnyFragment(f) == pending.frags > 0 /\ eligible

\* A keyframe closes a pending segment that has reached the target.
ClosesPending(f) == f.key /\ pending.frags > 0 /\ eligible

\* A backend that had no init segment yet has one after its first keyframe,
\* and the session persists it before the next frame.
AfterPush(f) == IF f.key /\ init = NoInit THEN "setInit" ELSE "run"

\* The end of push: f goes into p.
AppendFragment(p, f) ==
  /\ pending' = Accumulate(p, f)
  /\ eligible' = (eligible \/ pending'.dur >= Target)
  /\ pts' = f.pts
  /\ enc' = AfterPush(f)

Push(f) ==
  /\ CanPush(f)
  /\ seenKey \/ f.key
  /\ ~ClosesPending(f)
  /\ seenKey' = TRUE
  /\ AppendFragment(pending, f)
  /\ UNCHANGED <<format, frag, lockVars, segmentVars, pins, nextIndex,
                 formatChanged, bytes, closing, closed, snapshotVars, diskVars,
                 processVars, faults>>

\* commit_pending up to the choice of what to evict: the file is written and
\* renamed, then the ring and the counters are updated.
CommitPending(u) ==
  /\ nextIndex' = nextIndex + 1
  /\ files' = files \cup {nextIndex}
  /\ stored' = stored \cup {nextIndex}
  /\ committed' = committed \cup {nextIndex}
  /\ seg' = [seg EXCEPT ![nextIndex] =
                [start |-> pending.start, last |-> pending.last,
                 end |-> pending.end, size |-> pending.size, key |-> pending.key,
                 disc |-> formatChanged, format |-> pending.format]]
  /\ bytes' = bytes + pending.size
  /\ pending' = EmptyPending
  /\ eligible' = FALSE
  /\ UNCHANGED pins
  /\ lock' = "evict" /\ user' = u
  /\ victims' = Evictable'
  /\ removed' = FALSE
  /\ UNCHANGED <<pts, format, enc, formatChanged, closing, closed, snapshotVars,
                 manifest, init, processVars, faults>>

\* A write that fails has used up its index and keeps the pending segment.
\* When only the directory sync fails the file is there all the same.
CommitPendingFails(u) ==
  /\ Fault
  /\ nextIndex' = nextIndex + 1
  /\ files' \in {files, files \cup {nextIndex}}
  /\ enc' = IF u = "finalize" THEN "done" ELSE "ending"
  /\ UNCHANGED <<pts, format, lockVars, segmentVars, pins, pending, eligible,
                 formatChanged, bytes, closing, closed, snapshotVars, manifest,
                 init, processVars>>

PushCommits(f) ==
  /\ CanPush(f)
  /\ ClosesPending(f)
  /\ nextIndex < MaxIndex - 1
  /\ seenKey' = TRUE
  /\ frag' = f
  /\ CommitPending("push") \/ CommitPendingFails("push")

MarkFormatChange_Unmarked ==
  /\ format' = format + 1
  /\ seenKey' = FALSE
  /\ UNCHANGED formatChanged

\* The end of notify_format_change.
MarkFormatChange ==
  /\ format' = format + 1
  /\ formatChanged' = TRUE
  /\ seenKey' = FALSE

\* notify_format_change with nothing pending.
FormatChange ==
  /\ EncoderAt("run") /\ LockFree
  /\ format < MaxFormat
  /\ pending.frags = 0
  /\ MarkFormatChange
  /\ UNCHANGED <<enc, pts, frag, lockVars, segmentVars, pins, pending, eligible,
                 nextIndex, bytes, closing, closed, snapshotVars, diskVars,
                 processVars, faults>>

FormatChangeCommits ==
  /\ EncoderAt("run") /\ LockFree
  /\ format < MaxFormat
  /\ pending.frags > 0
  /\ nextIndex < MaxIndex - 1
  /\ UNCHANGED <<seenKey, frag>>
  /\ CommitPending("format") \/ CommitPendingFails("format")

Finalize_NothingPending ==
  /\ EncoderAt("finalize") /\ LockFree
  /\ pending.frags = 0
  /\ enc' = "done"
  /\ UNCHANGED <<pts, format, frag, lockVars, segmentVars, pins, pendingVars,
                 nextIndex, formatChanged, bytes, closing, closed, snapshotVars,
                 diskVars, processVars, faults>>

Finalize ==
  /\ EncoderAt("finalize") /\ LockFree
  /\ pending.frags = 0
  /\ closed' = TRUE
  /\ enc' = "done"
  /\ UNCHANGED <<pts, format, frag, lockVars, segmentVars, pins, pendingVars,
                 nextIndex, formatChanged, bytes, closing, snapshotVars,
                 diskVars, processVars, faults>>

FinalizeCommits ==
  /\ EncoderAt("finalize") /\ LockFree
  /\ pending.frags > 0
  /\ nextIndex < MaxIndex
  /\ UNCHANGED <<seenKey, frag>>
  /\ CommitPending("finalize") \/ CommitPendingFails("finalize")

-----------------------------------------------------------------------------
(* Eviction and the manifest, still under the mutex *)

RemoveSegment(i) ==
  /\ files' = files \ {i}
  /\ committed' = committed \ {i}
  /\ bytes' = bytes - seg[i].size
  /\ removed' = TRUE

\* One file removal; metadata goes only with its file.
EvictOne ==
  /\ Up /\ lock = "evict"
  /\ \E i \in victims :
       /\ \A j \in victims : j <= i
       /\ victims' = victims \ {i}
       /\ \/ RemoveSegment(i) /\ UNCHANGED faults
          \/ Fault /\ UNCHANGED <<files, committed, bytes, removed>>
  /\ UNCHANGED <<encoderVars, lock, user, stored, seg, pins, pendingVars,
                 nextIndex, formatChanged, closing, closed, snapshotVars,
                 manifest, init, processVars>>

\* release_snapshot rewrites the manifest only after a removal.
EvictDone ==
  /\ Up /\ lock = "evict" /\ victims = {}
  /\ lock' = IF user = "release" /\ ~removed THEN "free" ELSE "manifest"
  /\ UNCHANGED <<encoderVars, user, victims, removed, segmentVars, pins,
                 pendingVars, nextIndex, formatChanged, bytes, closing, closed,
                 snapshotVars, diskVars, processVars, faults>>

WriteManifest_NotOnPush(u) ==
  /\ Up /\ lock = "manifest" /\ user = u
  /\ manifest' = IF u = "push" THEN manifest ELSE committed
  /\ lock' = "free"
  /\ UNCHANGED <<frag, user, victims, removed, segmentVars, pins, nextIndex,
                 bytes, closing, snapshotVars, files, init, processVars, faults>>

WriteManifest(u) ==
  /\ Up /\ lock = "manifest" /\ user = u
  /\ manifest' = committed
  /\ lock' = "free"
  /\ UNCHANGED <<frag, user, victims, removed, segmentVars, pins, nextIndex,
                 bytes, closing, snapshotVars, files, init, processVars, faults>>

PushEnds ==
  /\ WriteManifest("push")
  /\ AppendFragment(pending, frag)
  /\ UNCHANGED <<format, seenKey, formatChanged, closed>>

FormatChangeEnds ==
  /\ WriteManifest("format")
  /\ MarkFormatChange
  /\ UNCHANGED <<enc, pts, pending, eligible, closed>>

FinalizeEnds ==
  /\ WriteManifest("finalize")
  /\ closed' = TRUE
  /\ enc' = "done"
  /\ UNCHANGED <<pts, format, pendingVars, formatChanged>>

ReleaseEnds ==
  /\ WriteManifest("release")
  /\ UNCHANGED <<enc, pts, format, pendingVars, formatChanged, closed>>

\* A manifest that cannot be written fails the commit that is already done;
\* release_snapshot ignores it.
WriteManifestFails ==
  /\ Up /\ lock = "manifest"
  /\ Fault
  /\ manifest' \in {manifest, committed}
  /\ lock' = "free"
  /\ enc' = CASE user = "release"  -> enc
              [] user = "finalize" -> "done"
              [] OTHER             -> "ending"
  /\ UNCHANGED <<pts, format, frag, user, victims, removed, segmentVars, pins,
                 pendingVars, nextIndex, formatChanged, bytes, closing, closed,
                 snapshotVars, files, init, processVars>>

-----------------------------------------------------------------------------
(* replay.save, replay.snapshot_release, capture.stopSession *)

SetPhase(s, p) == phase' = [phase EXCEPT ![s] = p]

UnchangedByRpc ==
  UNCHANGED <<encoderVars, segmentVars, pendingVars, nextIndex, formatChanged,
              closed, diskVars, processVars, faults>>

\* capture.stopSession marks the buffer before it stops the capture stream.
StopSession ==
  /\ Up /\ RpcIdle /\ ~closing
  /\ closing' = TRUE
  /\ UnchangedByRpc
  /\ UNCHANGED <<lockVars, pins, bytes, snapshotVars>>

\* replay.save waits for the tail segment only between teardown and close.
Save(s) ==
  /\ Up /\ RpcIdle /\ phase[s] = "free"
  /\ SetPhase(s, IF closing /\ ~closed THEN "waiting" ELSE "pinning")
  /\ UnchangedByRpc
  /\ UNCHANGED <<lockVars, pins, bytes, closing, held>>

SaveSeesClose(s) ==
  /\ Up /\ phase[s] = "waiting" /\ closed
  /\ SetPhase(s, "pinning")
  /\ UnchangedByRpc
  /\ UNCHANGED <<lockVars, pins, bytes, closing, held>>

\* The 300 ms are over: the reply is still-finalizing.
SaveTimesOut(s) ==
  /\ Up /\ phase[s] = "waiting"
  /\ SetPhase(s, "free")
  /\ UnchangedByRpc
  /\ UNCHANGED <<lockVars, pins, bytes, closing, held>>

PinAll_Flag(S) == [i \in Index |-> IF i \in S THEN 1 ELSE pins[i]]

PinAll(S) == [i \in Index |-> IF i \in S THEN pins[i] + 1 ELSE pins[i]]

PinSnapshot(s, d) ==
  /\ Up /\ phase[s] = "pinning" /\ lock = "free"
  /\ LET refs == WithinLast(d)
     IN  /\ pins' = PinAll(refs)
         /\ held' = [held EXCEPT ![s] = refs]
         /\ SetPhase(s, IF refs = {} THEN "free" ELSE "pinned")
  /\ UnchangedByRpc
  /\ UNCHANGED <<lockVars, bytes, closing>>

\* The snapshot enters active_snapshots, a separate lock after the pin.
RegisterSnapshot(s) ==
  /\ Up /\ phase[s] = "pinned"
  /\ SetPhase(s, "held")
  /\ UnchangedByRpc
  /\ UNCHANGED <<lockVars, pins, bytes, closing, held>>

\* The snapshot leaves active_snapshots before its pins are taken back.
RemoveSnapshot(s) ==
  /\ Up /\ RpcIdle /\ phase[s] = "held"
  /\ SetPhase(s, "unpinning")
  /\ UnchangedByRpc
  /\ UNCHANGED <<lockVars, pins, bytes, closing, held>>

ReleaseSnapshot(s) ==
  /\ Up /\ phase[s] = "unpinning" /\ lock = "free"
  /\ pins' = [i \in Index |->
                IF i \in committed /\ i \in held[s] /\ pins[i] > 0
                THEN pins[i] - 1 ELSE pins[i]]
  /\ held' = [held EXCEPT ![s] = {}]
  /\ SetPhase(s, "free")
  /\ lock' = "evict" /\ user' = "release" /\ removed' = FALSE
  /\ UnchangedByRpc
  /\ UNCHANGED <<bytes, closing>>
  /\ victims' = Evictable'

\* A dispatch that outlives its connection by five seconds is dropped at an
\* await: pins taken or not yet taken back stay for the life of the process.
AbortDispatch(s) ==
  /\ Up /\ phase[s] \in {"waiting", "pinning", "pinned", "unpinning"}
  /\ SetPhase(s, IF Pinning(s) THEN "leaked" ELSE "free")
  /\ UnchangedByRpc
  /\ UNCHANGED <<lockVars, pins, bytes, closing, held>>

-----------------------------------------------------------------------------
(* The process dies, and the next one scans the session directory *)

UnchangedByProcess ==
  UNCHANGED <<encoderVars, lockVars, segmentVars, pins, pendingVars, nextIndex,
              formatChanged, bytes, closing, closed, snapshotVars, manifest,
              init, faults>>

\* The state of the dead process is kept to be compared with what is found.
Crash ==
  /\ Up
  /\ stage' = "down"
  /\ UnchangedByProcess
  /\ UNCHANGED <<recovered, files>>

\* scan_recoverable_sessions: a manifest decides what belongs to the session,
\* and files that it does not list are deleted.
Scan ==
  /\ stage = "down"
  /\ stage' = "scanned"
  /\ recovered' = IF manifest = NoManifest THEN files ELSE files \cap manifest
  /\ files' = recovered'
  /\ UnchangedByProcess

-----------------------------------------------------------------------------
Encoder ==
  \/ Configure \/ PersistInit \/ PersistInitFails \/ EndOfStream \/ SetClosing
  \/ \E g \in Gaps, k \in BOOLEAN, d \in FragDurations, b \in FragSizes :
       LET f == [pts |-> NextPts(pts + g), key |-> k, dur |-> d, size |-> b]
       IN  DropFragment(f) \/ Push(f) \/ PushCommits(f)
  \/ FormatChange \/ FormatChangeCommits \/ Finalize \/ FinalizeCommits

UnderLock ==
  \/ EvictOne \/ EvictDone \/ PushEnds \/ FormatChangeEnds \/ FinalizeEnds
  \/ ReleaseEnds \/ WriteManifestFails

Rpc ==
  \/ StopSession
  \/ \E s \in Snap :
       \/ Save(s) \/ SaveSeesClose(s) \/ SaveTimesOut(s)
       \/ RegisterSnapshot(s) \/ RemoveSnapshot(s) \/ ReleaseSnapshot(s)
       \/ AbortDispatch(s)
       \/ \E d \in SaveDurations : PinSnapshot(s, d)

Next == Encoder \/ UnderLock \/ Rpc \/ Crash \/ Scan

Spec == Init /\ [][Next]_vars

\* The encoder task and the lock holder are scheduled; a stopped capture
\* stream ends, because the stop drops its last sender.
Fairness ==
  /\ WF_vars(closing /\ EndOfStream)
  /\ WF_vars(Configure) /\ WF_vars(PersistInit \/ PersistInitFails)
  /\ WF_vars(SetClosing) /\ WF_vars(Finalize \/ FinalizeCommits)
  /\ WF_vars(UnderLock)

FairSpec == Spec /\ Fairness

-----------------------------------------------------------------------------
(* Properties *)

EncoderTypeOK ==
  /\ enc \in {"configure", "run", "setInit", "ending", "finalize", "done"}
  /\ pts \in Nat /\ format \in Format /\ frag \in Fragment

LockTypeOK ==
  /\ lock \in {"free", "evict", "manifest"}
  /\ user \in {"push", "format", "finalize", "release"}
  /\ victims \subseteq Index /\ removed \in BOOLEAN

RingTypeOK ==
  /\ stored \subseteq Index /\ committed \subseteq stored
  /\ seg \in [Index -> Segment]
  /\ pins \in [Index -> Nat]
  /\ nextIndex \in Index /\ bytes \in Int

PendingTypeOK ==
  /\ pending \in Pending /\ seenKey \in BOOLEAN /\ eligible \in BOOLEAN
  /\ formatChanged \in BOOLEAN /\ closing \in BOOLEAN /\ closed \in BOOLEAN

SnapshotTypeOK ==
  /\ phase \in [Snap -> {"free", "waiting", "pinning", "pinned", "held",
                         "unpinning", "leaked"}]
  /\ held \in [Snap -> SUBSET Index]

DiskTypeOK ==
  /\ files \subseteq Index
  /\ manifest = NoManifest \/ manifest \subseteq Index
  /\ init \in Format \cup {NoInit}
  /\ stage \in {"up", "down", "scanned"} /\ recovered \subseteq Index
  /\ faults \in Nat

\* Every variable has its type.
TypeOK ==
  /\ EncoderTypeOK /\ LockTypeOK /\ RingTypeOK /\ PendingTypeOK
  /\ SnapshotTypeOK /\ DiskTypeOK

Holders(i) == {s \in Snap : Pinning(s) /\ i \in held[s]}

\* The pin count of a segment is the number of snapshots that hold it, those
\* of an aborted request included: one release never unpins what another
\* replay still reads.
PinsExact ==
  \A i \in Index :
    pins[i] = Cardinality(Holders(i))

\* What a snapshot pins stays in the ring and on disk until it is released,
\* whatever is committed, evicted or failing meanwhile.
PinnedOnDisk ==
  Up => \A s \in Snap : Pinning(s) => held[s] \subseteq committed \cap files

\* What the two properties above rest on: only a snapshot that counts holds
\* segments, the ring is on disk, what is chosen for eviction is unpinned and
\* stays so while the lock is held, and the next index is a new one.
HeldByHolders ==
  /\ \A s \in Snap : ~Pinning(s) => held[s] = {}
  /\ \A s \in Snap : held[s] \subseteq committed
RingOnDisk == stage # "scanned" => committed \subseteq files
VictimsUnpinned == lock = "evict" => \A i \in victims : i \in committed /\ Unpinned(i)
StoredBelowNext == \A i \in stored : i < nextIndex

PinInv == PinsExact /\ HeldByHolders /\ RingOnDisk /\ VictimsUnpinned /\ StoredBelowNext

\* Every segment starts on a keyframe, and the fragments of a segment are
\* stamped before those of every later one, however early or late frames came
\* and whichever commits failed: concatenated in the order of their indices they
\* are one decodable stream.  (pts_end may lie behind the next pts_start.)
SegmentsDecodable ==
  \A i \in stored :
    /\ seg[i].key
    /\ \A j \in stored : i < j => seg[i].last < seg[j].start

\* What SegmentsDecodable rests on: time does not run back, a pending segment
\* comes after every stored one, a fragment that commits another segment comes
\* after both, and only a keyframe may start a segment.
PendingInOrder ==
  /\ \A i \in stored : seg[i].start <= seg[i].last /\ seg[i].last <= pts
  /\ pending.frags > 0 =>
       /\ pending.key /\ pending.start <= pending.last /\ pending.last <= pts
       /\ \A i \in stored : seg[i].last < pending.start
KeyframeStarts ==
  /\ pending.frags = 0 /\ enc \in {"configure", "run", "setInit"} =>
       ~seenKey \/ (~LockFree /\ user # "release")
  /\ ~LockFree /\ user = "push" =>
       frag.key /\ pending.frags = 0 /\ pts < frag.pts

OrderInv == SegmentsDecodable /\ StoredBelowNext /\ PendingInOrder /\ KeyframeStarts

\* A segment that is not marked discontinuous was encoded in the format that
\* init.mp4 describes, so an export may concatenate it with that init segment;
\* and without failing writes a recovered session has one: no segment is ever
\* committed before init.mp4.
CleanSegmentsMatchInit ==
  /\ init # NoInit =>
       \A i \in stored : seg[i].disc \/ seg[i].format = init
  /\ stage = "scanned" /\ recovered # {} /\ faults = 0 => init # NoInit

\* The byte counter that drives the disk cap equals what is on disk, whatever
\* deletion has failed; and when no operation is under way and no file operation
\* has failed, either the cap is respected or only pinned segments are left, and
\* no unpinned segment is older than the window.
DiskBounded ==
  /\ bytes = MapThenSumSet(LAMBDA i : seg[i].size, committed)
  /\ LockFree /\ faults = 0 =>
       /\ bytes <= DiskCap \/ \A i \in committed : ~Unpinned(i)
       /\ \A i \in committed : Expired(i) => ~Unpinned(i)

\* However the helper dies, the scan finds every committed segment but
\* possibly the newest one, and never one that was evicted.
CrashLosesOnlyNewest ==
  stage = "scanned" =>
    /\ \A i \in committed \ recovered : \A j \in stored : j <= i
    /\ recovered \cap (stored \ committed) = {}

Store == INSTANCE ReplayStore WITH next <- nextIndex, kept <- committed, taken <- held

\* The buffer is a log whose end a snapshot can take and whose segments are
\* only forgotten while no snapshot has taken them.
ImplementsReplayStore == Store!Spec

\* After a stop the buffer is closed in the end, which is what replay.save
\* waits for (no file operation fails here).
StopEventuallyCloses == closing ~> (closed \/ ~Up)
=============================================================================
