---------------------------- MODULE ReplayExport ----------------------------
(***************************************************************************)
(* Snapshots and their exports in the native helper                        *)
(* (helper/src/export/mod.rs).                                             *)
(*                                                                         *)
(* Request handlers save, release, restore and discard snapshots, and      *)
(* start and cancel exports; each running export is a task of its own that *)
(* copies a snapshot with ffmpeg, publishes the result without replacing   *)
(* any file, and ends with one terminal event.  The maps active_exports    *)
(* and active_snapshots are what they share; the first one is locked       *)
(* before the second.  The helper may die at any step, and the next one    *)
(* reaps what is left in the staging directory.                            *)
(*                                                                         *)
(* A connection dispatches one request at a time, but the dispatch it      *)
(* abandons is only dropped at an await that has to wait, so it may still  *)
(* run beside the next connection's: Handler is the set of both.           *)
(***************************************************************************)
EXTENDS Integers, Sequences

CONSTANTS
  Handler,     \* request dispatches that may be under way at once
  Live,        \* snapshots that replay.save may make of the running capture
  Recovered,   \* sessions found at boot, and the snapshots restored from them
  Export,      \* names that new_id may give to exports
  Path,        \* output paths
  UserFile,    \* a file that no export has made
  Nil,         \* no file, nobody, nothing
  MaxFaults    \* bound: failing file operations, and panics of export tasks

ASSUME ConstantsAssumption ==
  /\ Live \cap Recovered = {}
  /\ {UserFile, Nil} \cap Export = {} /\ UserFile # Nil
  /\ Nil \notin Handler \cup Live \cup Recovered
  /\ MaxFaults \in Nat

Snapshot == Live \cup Recovered

\* The files of an export: .tmp and .diagnostics.txt and .xdev-hint in the staging
\* directory, .part and the .hlink-probe files beside the output path.
Kind == {"tmp", "diag", "hint", "part", "probe"}

VARIABLES
  \* the request handlers
  step,        \* where each handler is, "idle" between requests
  snap,        \* the snapshot or session it works on
  exp,         \* the export it works on
  exportsLock, \* who holds the lock of active_exports across a step
  \* HelperState
  snapshots,   \* active_snapshots
  listed,      \* recoverable_sessions
  pinned,      \* live snapshots whose segments the buffer pins
  sources,     \* the media files of each snapshot: none, whole, partial, gone
  exports,     \* active_exports
  of,          \* the snapshot of each export
  path,        \* and its output path
  inMuxing,    \* exports whose in_muxing flag is set
  cancelled,   \* exports whose cancel channel carries true
  \* the export tasks
  task,        \* where each one is
  fired,       \* exports whose terminal_fired flag is set
  events,      \* terminal events each export has emitted
  \* the staging directory and the output paths
  files,       \* the kinds of file that exist of each export
  stuck,       \* and those of which a removal has failed
  unhinted,    \* exports whose hint could not be written
  out,         \* what each output path holds
  \* the helper process
  stage,       \* up, down, booted (the next helper has reaped)
  faults       \* failing operations so far

handlerVars  == <<step, snap, exp>>
snapshotVars == <<snapshots, listed, pinned, sources>>
exportVars   == <<exports, of, path>>
flagVars     == <<inMuxing, cancelled>>
eventVars    == <<fired, events>>
fileVars     == <<files, stuck, unhinted>>

vars == <<handlerVars, exportsLock, snapshotVars, exportVars, flagVars, task,
          eventVars, fileVars, out, stage, faults>>

-----------------------------------------------------------------------------
(* Helpers *)

Up == stage = "up"

ExportsUnlocked == exportsLock = Nil

Fault == faults < MaxFaults /\ faults' = faults + 1

\* Handler h is at p.
At(h, p) == Up /\ step[h] = p

\* Handler h goes on to p with the snapshot and the export it works on.
Goto(h, p, s, e) ==
  /\ step' = [step EXCEPT ![h] = p]
  /\ snap' = [snap EXCEPT ![h] = s]
  /\ exp' = [exp EXCEPT ![h] = e]

Advance(h, p) == Goto(h, p, snap[h], exp[h])

\* The reply of h is sent.
Reply(h) == Goto(h, "idle", Nil, Nil)

\* Some active export holds snapshot s.
References(s) == \E e \in exports : of[e] = s

\* The task of e is under way.
Running(e) == task[e] \notin {"none", "returned", "ended"}

-----------------------------------------------------------------------------
Init ==
  /\ step = [h \in Handler |-> "idle"]
  /\ snap = [h \in Handler |-> Nil] /\ exp = [h \in Handler |-> Nil]
  /\ exportsLock = Nil
  /\ snapshots = {} /\ listed = Recovered /\ pinned = {}
  /\ sources = [s \in Snapshot |-> IF s \in Recovered THEN "whole" ELSE "none"]
  /\ exports = {}
  /\ of = [e \in Export |-> Nil] /\ path = [e \in Export |-> Nil]
  /\ inMuxing = {} /\ cancelled = {}
  /\ task = [e \in Export |-> "none"]
  /\ fired = {} /\ events = [e \in Export |-> <<>>]
  /\ files = [e \in Export |-> {}] /\ stuck = [e \in Export |-> {}]
  /\ unhinted = {}
  /\ out \in [Path -> {Nil, UserFile}]
  /\ stage = "up" /\ faults = 0

-----------------------------------------------------------------------------
(* replay.save and the recovered sessions *)

UnchangedBySnapshots ==
  UNCHANGED <<exportVars, flagVars, task, eventVars, fileVars, out, stage>>

\* replay.save has pinned the segments; they enter the map a lock later.
Save(h, s) ==
  /\ At(h, "idle")
  /\ s \in Live /\ sources[s] = "none"
  /\ pinned' = pinned \cup {s}
  /\ sources' = [sources EXCEPT ![s] = "whole"]
  /\ Goto(h, "insert", s, Nil)
  /\ UnchangedBySnapshots
  /\ UNCHANGED <<exportsLock, snapshots, listed, faults>>

\* restore_recovered_session claims the session before it registers it.
Restore(h, s) ==
  /\ At(h, "idle")
  /\ s \in listed
  /\ listed' = listed \ {s}
  /\ Goto(h, "insert", s, Nil)
  /\ UnchangedBySnapshots
  /\ UNCHANGED <<exportsLock, snapshots, pinned, sources, faults>>

\* The snapshot enters active_snapshots, or comes back after a failed cleanup.
InsertSnapshot(h) ==
  /\ At(h, "insert")
  /\ snapshots' = snapshots \cup {snap[h]}
  /\ Reply(h)
  /\ UnchangedBySnapshots
  /\ UNCHANGED <<exportsLock, listed, pinned, sources, faults>>

Discard_Unclaimed(h, s) ==
  /\ At(h, "idle")
  /\ s \in listed
  /\ UNCHANGED listed
  /\ Goto(h, "discard", s, Nil)
  /\ UnchangedBySnapshots
  /\ UNCHANGED <<exportsLock, snapshots, pinned, sources, faults>>

\* discard_recovered_session claims the session before it deletes files.
Discard(h, s) ==
  /\ At(h, "idle")
  /\ s \in listed
  /\ listed' = listed \ {s}
  /\ Goto(h, "discard", s, Nil)
  /\ UnchangedBySnapshots
  /\ UNCHANGED <<exportsLock, snapshots, pinned, sources, faults>>

\* The directory of a session goes, or only a part of it does.
DeleteSession(s) ==
  \/ /\ sources' = [sources EXCEPT ![s] = "gone"]
     /\ UNCHANGED faults
  \/ /\ \E left \in {sources[s], "partial"} : sources' = [sources EXCEPT ![s] = left]
     /\ Fault

DiscardFiles(h) ==
  /\ At(h, "discard")
  /\ DeleteSession(snap[h])
  /\ IF sources'[snap[h]] = "gone" THEN Reply(h) ELSE Advance(h, "relist")
  /\ UnchangedBySnapshots
  /\ UNCHANGED <<exportsLock, snapshots, listed, pinned>>

\* The session stays claimable after a failed deletion.
Relist(h) ==
  /\ At(h, "relist")
  /\ listed' = listed \cup {snap[h]}
  /\ Reply(h)
  /\ UnchangedBySnapshots
  /\ UNCHANGED <<exportsLock, snapshots, pinned, sources, faults>>

-----------------------------------------------------------------------------
(* replay.snapshot_release *)

\* active_exports stays locked from the check to the removal.
ReleaseCheck(h, s) ==
  /\ At(h, "idle")
  /\ ExportsUnlocked
  /\ ~References(s)
  /\ exportsLock' = h
  /\ Goto(h, "remove", s, Nil)
  /\ UnchangedBySnapshots
  /\ UNCHANGED <<snapshotVars, faults>>

ReleaseRemove(h) ==
  /\ At(h, "remove")
  /\ snapshots' = snapshots \ {snap[h]}
  /\ exportsLock' = Nil
  /\ IF snap[h] \in snapshots THEN Advance(h, "release") ELSE Reply(h)
  /\ UnchangedBySnapshots
  /\ UNCHANGED <<listed, pinned, sources, faults>>

\* release_snapshot of the buffer takes the pins back.
Unpin(h) ==
  /\ At(h, "release")
  /\ snap[h] \in Live
  /\ pinned' = pinned \ {snap[h]}
  /\ Reply(h)
  /\ UnchangedBySnapshots
  /\ UNCHANGED <<exportsLock, snapshots, listed, sources, faults>>

\* A recovered session is deleted with its snapshot; on failure the snapshot
\* is put back.
ReleaseFiles(h) ==
  /\ At(h, "release")
  /\ snap[h] \in Recovered
  /\ DeleteSession(snap[h])
  /\ IF sources'[snap[h]] = "gone" THEN Reply(h) ELSE Advance(h, "insert")
  /\ UnchangedBySnapshots
  /\ UNCHANGED <<exportsLock, snapshots, listed, pinned>>

-----------------------------------------------------------------------------
(* replay.export_start and replay.export_cancel *)

ExportStart_Swapped(h, e, s, p) ==
  /\ At(h, "idle")
  /\ ExportsUnlocked
  /\ of[e] = Nil
  /\ exports' = exports \cup {e}
  /\ of' = [of EXCEPT ![e] = p] /\ path' = [path EXCEPT ![e] = s]
  /\ Goto(h, "lookup", s, e)
  /\ UNCHANGED <<exportsLock, snapshotVars, flagVars, task, eventVars, fileVars,
                 out, stage, faults>>

\* The export is registered before its snapshot is read.
ExportStart(h, e, s, p) ==
  /\ At(h, "idle")
  /\ ExportsUnlocked
  /\ of[e] = Nil
  /\ exports' = exports \cup {e}
  /\ of' = [of EXCEPT ![e] = s] /\ path' = [path EXCEPT ![e] = p]
  /\ Goto(h, "lookup", s, e)
  /\ UNCHANGED <<exportsLock, snapshotVars, flagVars, task, eventVars, fileVars,
                 out, stage, faults>>

Lookup(h) ==
  /\ At(h, "lookup")
  /\ Advance(h, IF snap[h] \in snapshots THEN "spawn" ELSE "missing")
  /\ UNCHANGED <<exportsLock, snapshotVars, exportVars, flagVars, task, eventVars,
                 fileVars, out, stage, faults>>

\* The snapshot was released before: the registration is taken back.
SnapshotMissing(h) ==
  /\ At(h, "missing")
  /\ ExportsUnlocked
  /\ exports' = exports \ {exp[h]}
  /\ Reply(h)
  /\ UNCHANGED <<exportsLock, snapshotVars, of, path, flagVars, task, eventVars,
                 fileVars, out, stage, faults>>

Spawn(h) ==
  /\ At(h, "spawn")
  /\ task' = [task EXCEPT ![exp[h]] = "checks"]
  /\ Reply(h)
  /\ UNCHANGED <<exportsLock, snapshotVars, exportVars, flagVars, eventVars,
                 fileVars, out, stage, faults>>

\* The handler reads in_muxing, which the task sets without the lock.
CancelCheck(h, e) ==
  /\ At(h, "idle")
  /\ ExportsUnlocked
  /\ e \in exports /\ e \notin inMuxing
  /\ exportsLock' = h
  /\ Goto(h, "cancel", Nil, e)
  /\ UNCHANGED <<snapshotVars, exportVars, flagVars, task, eventVars, fileVars,
                 out, stage, faults>>

\* The reply is ok = true.
CancelSend(h) ==
  /\ At(h, "cancel")
  /\ cancelled' = cancelled \cup {exp[h]}
  /\ exportsLock' = Nil
  /\ Reply(h)
  /\ UNCHANGED <<snapshotVars, exportVars, inMuxing, task, eventVars, fileVars,
                 out, stage, faults>>

\* The connection is gone, and the dispatch is dropped where it awaits a lock
\* or the notifier: what it has done so far stays.
AbortDispatch(h) ==
  /\ \/ \E p \in {"insert", "relist", "remove", "lookup", "missing", "spawn"} : At(h, p)
     \/ At(h, "release") /\ snap[h] \in Live
  /\ exportsLock' = IF exportsLock = h THEN Nil ELSE exportsLock
  /\ Reply(h)
  /\ UNCHANGED <<snapshotVars, exportVars, flagVars, task, eventVars, fileVars,
                 out, stage, faults>>

-----------------------------------------------------------------------------
(* The export task *)

\* Export e is at p.
TaskAt(e, p) == Up /\ task[e] = p

TaskGoto(e, p) == task' = [task EXCEPT ![e] = p]

UnchangedByTask ==
  UNCHANGED <<handlerVars, exportsLock, snapshotVars, of, path, cancelled, stage>>

Fire_Unlatched(e, ev) ==
  /\ UNCHANGED fired
  /\ events' = [events EXCEPT ![e] = IF e \in fired THEN @ ELSE Append(@, ev)]

\* A terminal event is emitted by the first swap of terminal_fired.
Fire(e, ev) ==
  /\ fired' = fired \cup {e}
  /\ events' = [events EXCEPT ![e] = IF e \in fired THEN @ ELSE Append(@, ev)]

\* run_export emits ev and returns.
Return(e, ev) ==
  /\ Fire(e, ev)
  /\ TaskGoto(e, "returned")

\* Checks before anything is written: format change, staging directory, init
\* segment.
ChecksFail(e) ==
  /\ TaskAt(e, "checks")
  /\ Return(e, "failed")
  /\ UnchangedByTask
  /\ UNCHANGED <<exports, inMuxing, fileVars, out, faults>>

Create(e, K) == files' = [files EXCEPT ![e] = @ \cup K]

\* The diagnostics file is there, and ffmpeg writes the .tmp file.
SpawnFfmpeg(e) ==
  /\ TaskAt(e, "checks")
  /\ Create(e, {"tmp", "diag"})
  /\ TaskGoto(e, "copy")
  /\ UnchangedByTask
  /\ UNCHANGED <<exports, inMuxing, eventVars, stuck, unhinted, out, faults>>

SpawnFfmpegFails(e) ==
  /\ TaskAt(e, "checks")
  /\ Create(e, {"diag"})
  /\ Return(e, "failed")
  /\ UnchangedByTask
  /\ UNCHANGED <<exports, inMuxing, stuck, unhinted, out, faults>>

\* ffmpeg closes its stdout: the select loop is left for its exit, and no
\* longer listens for a cancel.
StdoutEof(e) ==
  /\ TaskAt(e, "copy")
  /\ TaskGoto(e, "exiting")
  /\ UnchangedByTask
  /\ UNCHANGED <<exports, inMuxing, eventVars, fileVars, out, faults>>

\* ffmpeg exits; it needs all its input files to succeed.
Copied(e) ==
  /\ TaskAt(e, "copy") \/ TaskAt(e, "exiting")
  /\ sources[of[e]] = "whole"
  /\ TaskGoto(e, "copied")
  /\ UnchangedByTask
  /\ UNCHANGED <<exports, inMuxing, eventVars, fileVars, out, faults>>

\* The files of e of the kinds K are removed, each of them by a remove_file whose
\* failure nobody looks at; failed counts what else has failed in the same step.
Remove(e, K, failed) ==
  \E left \in SUBSET (files[e] \cap K) :
    /\ files' = [files EXCEPT ![e] = (@ \ K) \cup left]
    /\ stuck' = [stuck EXCEPT ![e] = @ \cup left]
    /\ faults' = faults + failed + (IF left = {} THEN 0 ELSE 1)
    /\ faults' <= MaxFaults

CopyFails(e) ==
  /\ TaskAt(e, "copy") \/ TaskAt(e, "exiting")
  /\ Remove(e, {"tmp"}, 0)
  /\ Return(e, "failed")
  /\ UnchangedByTask
  /\ UNCHANGED <<exports, inMuxing, unhinted, out>>

\* The partial file and the diagnostics go before the event.
Cancel(e) ==
  /\ e \in cancelled
  /\ Remove(e, {"tmp", "diag"}, 0)
  /\ Return(e, "cancelled")
  /\ UnchangedByTask
  /\ UNCHANGED <<exports, inMuxing, unhinted, out>>

CancelCopy_WhenCopied(e) == TaskAt(e, "copied") /\ Cancel(e)

\* The select loop kills ffmpeg.
CancelCopy(e) == TaskAt(e, "copy") /\ Cancel(e)

EnterMuxing(e) ==
  /\ TaskAt(e, "copied")
  /\ inMuxing' = inMuxing \cup {e}
  /\ TaskGoto(e, "muxing")
  /\ UnchangedByTask
  /\ UNCHANGED <<exports, eventVars, fileVars, out, faults>>

CancelMuxing_Published(e) == TaskAt(e, "published") /\ Cancel(e)

\* A cancel that came before in_muxing was set is honoured.
CancelMuxing(e) == TaskAt(e, "muxing") /\ Cancel(e)

CommitToPublish(e) ==
  /\ TaskAt(e, "muxing")
  /\ e \notin cancelled
  /\ TaskGoto(e, "publish")
  /\ UnchangedByTask
  /\ UNCHANGED <<exports, inMuxing, eventVars, fileVars, out, faults>>

RenameNoReplace_Over(e) == out' = [out EXCEPT ![path[e]] = e]

\* rename_no_replace_sync, when it succeeds.
RenameNoReplace(e) ==
  /\ out[path[e]] = Nil
  /\ out' = [out EXCEPT ![path[e]] = e]

\* The output path is on the device of the staging directory.  Where renameat2 is
\* missing a hard link publishes the file, and .tmp is a second name of it.
Publish(e) ==
  /\ TaskAt(e, "publish")
  /\ RenameNoReplace(e)
  /\ \/ files' = [files EXCEPT ![e] = @ \ {"tmp"}] /\ TaskGoto(e, "published")
     \/ UNCHANGED files /\ TaskGoto(e, "unlink")
  /\ UnchangedByTask
  /\ UNCHANGED <<exports, inMuxing, eventVars, stuck, unhinted, faults>>

Unlink(e) ==
  /\ TaskAt(e, "unlink")
  /\ Remove(e, {"tmp"}, 0)
  /\ TaskGoto(e, "published")
  /\ UnchangedByTask
  /\ UNCHANGED <<exports, inMuxing, eventVars, unhinted, out>>

\* A rename fails for a file at the output path, or for another reason.
RenameFault(e) == IF out[path[e]] = Nil THEN 1 ELSE 0

\* The output path exists, or the sync or the rename fails.
PublishFails(e) ==
  /\ TaskAt(e, "publish")
  /\ Remove(e, {"tmp"}, RenameFault(e))
  /\ Return(e, "failed")
  /\ UnchangedByTask
  /\ UNCHANGED <<exports, inMuxing, unhinted, out>>

WriteHint_Unwritten(e) ==
  /\ TaskAt(e, "publish")
  /\ TaskGoto(e, "probe")
  /\ UnchangedByTask
  /\ UNCHANGED <<exports, inMuxing, eventVars, fileVars, out, faults>>

\* The rename finds another device.  A hint names the .part file before that
\* exists, or fails to be written, or written to its end, without anyone noticing.
WriteHint(e) ==
  /\ TaskAt(e, "publish")
  /\ \/ Create(e, {"hint"}) /\ UNCHANGED <<unhinted, faults>>
     \/ /\ \E K \in SUBSET {"hint"} : Create(e, K)
        /\ unhinted' = unhinted \cup {e}
        /\ Fault
  /\ TaskGoto(e, "probe")
  /\ UnchangedByTask
  /\ UNCHANGED <<exports, inMuxing, eventVars, stuck, out>>

\* The probe for hard links creates files beside the output path, which no hint
\* names, and removes them at once.
CreateProbe(e) ==
  /\ TaskAt(e, "probe")
  /\ Create(e, {"probe"})
  /\ TaskGoto(e, "unprobe")
  /\ UnchangedByTask
  /\ UNCHANGED <<exports, inMuxing, eventVars, stuck, unhinted, out, faults>>

RemoveProbe(e) ==
  /\ TaskAt(e, "unprobe")
  /\ Remove(e, {"probe"}, 0)
  /\ TaskGoto(e, "openPart")
  /\ UnchangedByTask
  /\ UNCHANGED <<exports, inMuxing, eventVars, unhinted, out>>

\* The .part file is created beside the output path.
OpenPart(e) ==
  /\ TaskAt(e, "openPart")
  /\ Create(e, {"part"})
  /\ TaskGoto(e, "copyPart")
  /\ UnchangedByTask
  /\ UNCHANGED <<exports, inMuxing, eventVars, stuck, unhinted, out, faults>>

CopyPart(e) ==
  /\ TaskAt(e, "copyPart")
  /\ Remove(e, {"tmp"}, 0)
  /\ TaskGoto(e, "renamePart")
  /\ UnchangedByTask
  /\ UNCHANGED <<exports, inMuxing, eventVars, unhinted, out>>

\* The probe or the copy fails.
CopyPartFails(e) ==
  /\ \E p \in {"probe", "unprobe", "openPart", "copyPart"} : TaskAt(e, p)
  /\ Remove(e, {"probe", "tmp", "part", "hint"}, 1)
  /\ Return(e, "failed")
  /\ UnchangedByTask
  /\ UNCHANGED <<exports, inMuxing, unhinted, out>>

\* The rename, or a hard link that leaves .part a second name of the file.
RenamePart(e) ==
  /\ TaskAt(e, "renamePart")
  /\ RenameNoReplace(e)
  /\ \/ files' = [files EXCEPT ![e] = @ \ {"part"}]
     \/ UNCHANGED files
  /\ TaskGoto(e, "removeHint")
  /\ UnchangedByTask
  /\ UNCHANGED <<exports, inMuxing, eventVars, stuck, unhinted, faults>>

RenamePartFails(e) ==
  /\ TaskAt(e, "renamePart")
  /\ Remove(e, {"part", "hint"}, RenameFault(e))
  /\ Return(e, "failed")
  /\ UnchangedByTask
  /\ UNCHANGED <<exports, inMuxing, unhinted, out>>

\* The second name and the hint go.
RemoveHint(e) ==
  /\ TaskAt(e, "removeHint")
  /\ Remove(e, {"part", "hint"}, 0)
  /\ TaskGoto(e, "published")
  /\ UnchangedByTask
  /\ UNCHANGED <<exports, inMuxing, eventVars, unhinted, out>>

Complete(e) ==
  /\ TaskAt(e, "published")
  /\ Remove(e, {"diag"}, 0)
  /\ Return(e, "completed")
  /\ UnchangedByTask
  /\ UNCHANGED <<exports, inMuxing, unhinted, out>>

\* The directory cannot be synced or the checksum cannot be read: the export
\* has failed although the file is published.
CompleteFails(e) ==
  /\ TaskAt(e, "published")
  /\ Fault
  /\ Return(e, "failed")
  /\ UnchangedByTask
  /\ UNCHANGED <<exports, inMuxing, fileVars, out>>

\* The inner task panics and leaves its files; the thread that probes goes on.
Panic(e) ==
  /\ Up /\ Running(e) /\ task[e] # "unprobe"
  /\ Fault
  /\ TaskGoto(e, "returned")
  /\ UnchangedByTask
  /\ UNCHANGED <<exports, inMuxing, eventVars, fileVars, out>>

\* The outer task: a task that came back without an event has failed.
Fallback(e) ==
  /\ TaskAt(e, "returned")
  /\ e \notin fired
  /\ Fire(e, "exited")
  /\ UnchangedByTask
  /\ UNCHANGED <<exports, inMuxing, task, fileVars, out, faults>>

Unregister(e) ==
  /\ TaskAt(e, "returned")
  /\ e \in fired
  /\ ExportsUnlocked
  /\ exports' = exports \ {e}
  /\ TaskGoto(e, "ended")
  /\ UnchangedByTask
  /\ UNCHANGED <<inMuxing, eventVars, fileVars, out, faults>>

-----------------------------------------------------------------------------
(* The segment buffer and the helper process *)

\* The buffer evicts what nobody pins.
Evict(s) ==
  /\ Up /\ s \in Live \ pinned
  /\ sources[s] = "whole"
  /\ sources' = [sources EXCEPT ![s] = "gone"]
  /\ UNCHANGED <<handlerVars, exportsLock, snapshots, listed, pinned, exportVars,
                 flagVars, task, eventVars, fileVars, out, stage, faults>>

\* The requests, locks and channels of the helper die with it; what its exports
\* were about is kept to be compared with what is reaped.
Crash ==
  /\ Up
  /\ stage' = "down"
  /\ step' = [h \in Handler |-> "idle"]
  /\ snap' = [h \in Handler |-> Nil] /\ exp' = [h \in Handler |-> Nil]
  /\ exportsLock' = Nil
  /\ inMuxing' = {} /\ cancelled' = {}
  /\ UNCHANGED <<snapshotVars, exportVars, task, eventVars, fileVars, out, faults>>

\* What the next helper finds of e: its files in the staging directory, and a
\* .part file that a hint names.
Orphans(e) ==
  files[e] \cap ({"tmp", "diag", "hint"} \cup
                 {k \in {"part"} : "hint" \in files[e] /\ e \notin unhinted})

\* reap_orphaned_exports removes what it can of that.
Reap ==
  /\ stage = "down"
  /\ stage' = "booted"
  /\ \E left \in SUBSET {f \in Export \X Kind : f[2] \in Orphans(f[1])} :
       LET Left(e) == {k \in Kind : <<e, k>> \in left}
       IN  /\ files' = [e \in Export |-> (files[e] \ Orphans(e)) \cup Left(e)]
           /\ stuck' = [e \in Export |-> stuck[e] \cup Left(e)]
           /\ IF left = {} THEN UNCHANGED faults ELSE Fault
  /\ UNCHANGED <<handlerVars, exportsLock, snapshotVars, exportVars, flagVars, task,
                 eventVars, unhinted, out>>

-----------------------------------------------------------------------------
HandlerStep(h) ==
  \/ InsertSnapshot(h) \/ DiscardFiles(h) \/ Relist(h)
  \/ ReleaseRemove(h) \/ Unpin(h) \/ ReleaseFiles(h)
  \/ Lookup(h) \/ SnapshotMissing(h) \/ Spawn(h) \/ CancelSend(h)

Request(h) ==
  \/ \E s \in Snapshot : Save(h, s) \/ Restore(h, s) \/ Discard(h, s) \/ ReleaseCheck(h, s)
  \/ \E e \in Export :
       \/ \E s \in Snapshot, p \in Path : ExportStart(h, e, s, p)
       \/ CancelCheck(h, e)

\* What ffmpeg decides.
Ffmpeg(e) == StdoutEof(e) \/ Copied(e) \/ CopyFails(e)

TaskStep(e) ==
  \/ ChecksFail(e) \/ SpawnFfmpeg(e) \/ SpawnFfmpegFails(e)
  \/ CancelCopy(e) \/ EnterMuxing(e) \/ CancelMuxing(e) \/ CommitToPublish(e)
  \/ Publish(e) \/ Unlink(e) \/ PublishFails(e)
  \/ WriteHint(e) \/ CreateProbe(e) \/ RemoveProbe(e) \/ OpenPart(e)
  \/ CopyPart(e) \/ CopyPartFails(e)
  \/ RenamePart(e) \/ RenamePartFails(e) \/ RemoveHint(e)
  \/ Complete(e) \/ CompleteFails(e) \/ Fallback(e) \/ Unregister(e)

Next ==
  \/ \E h \in Handler : Request(h) \/ HandlerStep(h) \/ AbortDispatch(h)
  \/ \E e \in Export : Ffmpeg(e) \/ TaskStep(e) \/ Panic(e)
  \/ \E s \in Snapshot : Evict(s)
  \/ Crash \/ Reap

Spec == Init /\ [][Next]_vars

\* Handlers and tasks are scheduled.  Nothing makes ffmpeg come to an end, but
\* once it has closed its stdout it exits.  A task whose lock is taken again and
\* again still gets it in the end, as the lock is fair.
Fairness ==
  /\ \A h \in Handler : WF_vars(HandlerStep(h) \/ AbortDispatch(h))
  /\ \A e \in Export : /\ SF_vars(TaskStep(e))
                       /\ WF_vars(task[e] = "exiting" /\ Ffmpeg(e))

FairSpec == Spec /\ Fairness

-----------------------------------------------------------------------------
(* Properties *)

\* Every variable has its type.
TypeOK ==
  /\ step \in [Handler -> {"idle", "insert", "discard", "relist", "remove", "release",
                           "lookup", "missing", "spawn", "cancel"}]
  /\ snap \in [Handler -> Snapshot \cup {Nil}]
  /\ exp \in [Handler -> Export \cup {Nil}]
  /\ exportsLock \in Handler \cup {Nil}
  /\ snapshots \subseteq Snapshot /\ listed \subseteq Recovered /\ pinned \subseteq Live
  /\ sources \in [Snapshot -> {"none", "whole", "partial", "gone"}]
  /\ exports \subseteq Export
  /\ of \in [Export -> Snapshot \cup {Nil}] /\ path \in [Export -> Path \cup {Nil}]
  /\ inMuxing \subseteq Export /\ cancelled \subseteq Export
  /\ task \in [Export -> {"none", "checks", "copy", "exiting", "copied", "muxing",
                          "publish", "unlink", "probe", "unprobe", "openPart", "copyPart",
                          "renamePart", "removeHint", "published", "returned", "ended"}]
  /\ fired \subseteq Export
  /\ events \in [Export -> Seq({"completed", "cancelled", "failed", "exited"})]
  /\ files \in [Export -> SUBSET Kind] /\ stuck \in [Export -> SUBSET Kind]
  /\ unhinted \subseteq Export
  /\ out \in [Path -> Export \cup {UserFile, Nil}]
  /\ stage \in {"up", "down", "booted"} /\ faults \in Nat

\* However the inner task ends, by a failure, a cancel or a panic, an export
\* emits at most one terminal event, and its outer task ends with exactly one.
OneTerminalEvent ==
  \A e \in Export : /\ Len(events[e]) <= 1
                    /\ task[e] = "ended" => Len(events[e]) = 1

\* A running export is registered, and its snapshot too: snapshot_release
\* refuses it, whatever requests run at the same time.
ReadersHoldSnapshot ==
  \A e \in Export : Running(e) => e \in exports /\ of[e] \in snapshots

\* No release, eviction or discard touches the files that ffmpeg reads.
SourcesKept ==
  [][\A e \in Export :
       Running(e) => sources'[of[e]] = sources[of[e]]]_vars

\* A file at an output path is never replaced nor removed, neither the user's
\* nor that of another export, not even by the reaping after a crash.
NoClobber == [][\A p \in Path : out[p] # Nil => out'[p] = out[p]]_vars

\* The event tells what became of the file: completed means that it is at its
\* path, cancelled that it is nowhere.
EventMatchesFile ==
  \A e \in Export : \A k \in 1 .. Len(events[e]) :
    /\ events[e][k] = "completed" => out[path[e]] = e
    /\ events[e][k] = "cancelled" => \A p \in Path : out[p] # e

\* An export that ends by itself leaves nothing but the diagnostics of a failure
\* and what it could not remove.  Whenever the helper dies, the next one finds
\* every partial file, those on another device by their hints; what stays then is
\* what could not be removed, a .part file whose hint could not be written, and
\* the probe for hard links if the helper died before its removal.
EndsClean ==
  \A e \in Export : \A k \in 1 .. Len(events[e]) :
    events[e][k] # "exited" =>
      \A f \in files[e] \ stuck[e] :
        f = "diag" /\ events[e][k] = "failed"
BootsClean ==
  stage = "booted" =>
    \A e \in Export : \A k \in files[e] \ stuck[e] :
      \/ k = "part" /\ e \in unhinted
      \/ k = "probe" /\ task[e] = "unprobe"
NoLeftovers == EndsClean /\ BootsClean

\* An accepted cancel ends the export, also when ffmpeg hangs, and frees its
\* snapshot for release.
CancelledExportEnds ==
  \A e \in Export : e \in cancelled /\ Running(e) ~> e \notin exports \/ ~Up
=============================================================================
