---------------------------- MODULE ReplayClient ----------------------------
(***************************************************************************)
(* The replay client of the renderer (src/v2/engine.ts) together with what *)
(* the helper promises it over RPC.                                        *)
(*                                                                         *)
(* The renderer is single-threaded: it handles one event, one answer, one  *)
(* timer or one click at a time.  The helper serves one request after the  *)
(* other, and its exports and its capture stream act in between.  Events   *)
(* and answers reach the renderer through the main process, which forwards *)
(* the events of one read of the socket before it resolves the answers in  *)
(* it: an event may overtake an answer, but nothing else changes order.    *)
(*                                                                         *)
(* Left out: toasts, logs and progress, pausing, and the discarding of     *)
(* recovered sessions, which changes nothing that is modelled here.        *)
(***************************************************************************)
EXTENDS Integers, SequencesExt, BagsExt

CONSTANTS
  Attempts,     \* attempts of _releaseWithRetry
  MaxEvents,    \* bound: saves, and faults of the helper, taken together
  MaxExports,   \* bound: exports that the helper starts
  MaxSessions,  \* bound: capture sessions that the helper opens
  MaxOpened,    \* bound: both together
  MaxTraffic    \* bound: requests and messages under way when a user clicks

ASSUME ConstantsAssumption ==
  {Attempts, MaxEvents, MaxExports, MaxSessions, MaxOpened, MaxTraffic} \subseteq Nat

None     == 0   \* null; ids count from 1
Snapshot == 1 .. MaxEvents
Export   == 1 .. MaxExports
Session  == 1 .. MaxSessions

VARIABLES
  \* the store and the timers of the renderer
  v2State, v2SessionId, v2SnapshotId, v2ExportId,
  watchdog,    \* is _exportWatchdogTimer set?
  starting,    \* how far startCapture is: no, request, stream, ready, stop
  backoff,     \* bag of the releases that wait for their next attempt
  \* what is under way
  requests,    \* from the renderer to the helper
  inbox,       \* from the helper and the main process to the renderer
  \* the helper
  engine,      \* up, down with a boot to come, or unavailable
  capture,     \* idle, requested, or recording
  session,     \* the last session opened
  saved,       \* the last snapshot created
  snapshots,   \* active_snapshots
  export,      \* each export: none, running, ended (with its event), gone
  of,          \* its snapshot
  \* history
  events,          \* saves, crashes, restarts and sink failures so far
  restarting,      \* is a restart of the engine on its way?
  upsets           \* what has gone wrong: overlap, timeout, sink, restart

stateVars   == <<v2State, starting>>
idVars      == <<v2SessionId, v2SnapshotId, v2ExportId>>
trafficVars == <<requests, inbox>>
helperVars  == <<capture, session, saved, snapshots, export, of>>
engineVars  == <<engine, restarting>>

vars == <<stateVars, idVars, watchdog, backoff, trafficVars, helperVars,
          engineVars, events, upsets>>

-----------------------------------------------------------------------------
(* Messages *)

Request(op, arg, try) == [op |-> op, arg |-> arg, try |-> try]

NoRequest == Request("none", None, 0)

Message(kind, type, id, ok, r) ==
  [kind |-> kind, type |-> type, id |-> id, ok |-> ok, request |-> r]

Event(type, id)   == Message("event", type, id, TRUE, NoRequest)
Engine(type)      == Message("engine", type, None, TRUE, NoRequest)
Answer(r, ok, id) == Message("answer", r.op, id, ok, r)

Up == engine = "up"

Rejections(rs) == [k \in DOMAIN rs |-> Answer(rs[k], FALSE, None)]

\* The renderer makes the calls rs, with the messages ms still to come; calls
\* to a helper that is down are rejected at once.
Call(rs, ms) ==
  /\ requests' = IF Up THEN requests \o rs ELSE requests
  /\ inbox' = IF Up THEN ms ELSE ms \o Rejections(rs)

\* Message k can reach the renderer next.
Deliverable(k) ==
  \/ k = 1
  \/ inbox[k].kind = "event" /\ \A j \in 1 .. k - 1 : inbox[j].kind = "answer"

\* The renderer takes message k of this type, and calls rs.
Receive(k, type, rs) ==
  /\ inbox[k].type = type
  /\ Call(rs, RemoveAt(inbox, k))

Release(s)   == <<Request("release", s, 0)>>
StopStarted  == <<Request("stop", 1, 0)>>   \* startCapture gives up
StopClicked  == <<Request("stop", 0, 0)>>

\* _releaseCurrentSnapshot
ReleaseCurrent == IF v2SnapshotId = None THEN <<>> ELSE Release(v2SnapshotId)

\* The state is set; _waitForCaptureStateLeavesIdle sees it leave IDLE.
SetV2State(s) ==
  /\ v2State' = s
  /\ starting' = IF starting = "ready" /\ s \notin {"IDLE", v2State} THEN "no"
                 ELSE starting

\* Where the renderer goes from EXPORTING.
AfterExport == IF v2SessionId # None THEN "RECORDING" ELSE "IDLE"

\* The bound on what a run does.
Count == events < MaxEvents /\ events' = events + 1

-----------------------------------------------------------------------------
Init ==
  /\ v2State = "BOOTING"
  /\ v2SessionId = None /\ v2SnapshotId = None /\ v2ExportId = None
  /\ watchdog = FALSE /\ starting = "no" /\ backoff = EmptyBag
  /\ requests = <<>> /\ inbox = <<Engine("ready")>>
  /\ engine = "up" /\ capture = "idle" /\ session = 0 /\ saved = 0
  /\ snapshots = {}
  /\ export = [e \in Export |-> "none"] /\ of = [e \in Export |-> None]
  /\ events = 0 /\ restarting = FALSE /\ upsets = {}

-----------------------------------------------------------------------------
(* The engine and the capture session, as the renderer sees them *)

\* _applyEngineReady
OnReady(k) ==
  /\ Receive(k, "ready", <<>>)
  /\ IF v2State \in {"BOOTING", "ENGINE_DOWN", "ENGINE_UNAVAILABLE"}
     THEN SetV2State("IDLE") ELSE UNCHANGED stateVars
  /\ UNCHANGED <<idVars, watchdog, backoff, helperVars, engineVars, events, upsets>>

\* onCrashed, and onStateChanged with "unavailable".
OnEngineLost(k) ==
  /\ \/ Receive(k, "crashed", <<>>) /\ SetV2State("ENGINE_DOWN")
     \/ Receive(k, "unavailable", <<>>) /\ SetV2State("ENGINE_UNAVAILABLE")
  /\ v2SessionId' = None /\ v2SnapshotId' = None /\ v2ExportId' = None
  /\ watchdog' = FALSE
  /\ UNCHANGED <<backoff, helperVars, engineVars, events, upsets>>

\* It goes to RECORDING from any state.
OnSessionReady(k) ==
  /\ Receive(k, "sessionReady", <<>>)
  /\ v2SessionId' = inbox[k].id
  /\ SetV2State("RECORDING")
  /\ upsets' = IF v2State \in {"SAVING", "EXPORTING"} THEN upsets \cup {"overlap"} ELSE upsets
  /\ UNCHANGED <<v2SnapshotId, v2ExportId, watchdog, backoff, helperVars, engineVars, events>>

\* An export goes on without its capture session.
OnSessionLost(k) ==
  /\ Receive(k, "sessionLost", <<>>)
  /\ v2SessionId' = None
  /\ IF v2State \in {"RECORDING", "SAVING"} THEN SetV2State("IDLE") ELSE UNCHANGED stateVars
  /\ UNCHANGED <<v2SnapshotId, v2ExportId, watchdog, backoff, helperVars, engineVars,
                 events, upsets>>

-----------------------------------------------------------------------------
(* Snapshots and exports, as the renderer sees them *)

TakeSnapshot_Unwatched(s) ==
  v2SnapshotId' = s /\ SetV2State("EXPORTING") /\ UNCHANGED watchdog

\* A snapshot is exported at once.
TakeSnapshot(s) ==
  /\ v2SnapshotId' = s
  /\ SetV2State("EXPORTING")
  /\ watchdog' = TRUE

OnSnapshotPinned(k) ==
  /\ IF v2SnapshotId = inbox[k].id /\ v2State = "EXPORTING"
     THEN Receive(k, "pinned", <<>>) /\ UNCHANGED <<v2SnapshotId, stateVars, watchdog>>
     ELSE /\ Receive(k, "pinned", <<Request("export", inbox[k].id, 0)>>)
          /\ TakeSnapshot(inbox[k].id)
  /\ UNCHANGED <<v2SessionId, v2ExportId, backoff, helperVars, engineVars, events, upsets>>

OnSnapshotReleased(k) ==
  /\ Receive(k, "released", <<>>)
  /\ v2SnapshotId' = IF v2SnapshotId = inbox[k].id THEN None ELSE v2SnapshotId
  /\ UNCHANGED <<v2SessionId, v2ExportId, stateVars, watchdog, backoff, helperVars,
                 engineVars, events, upsets>>

\* _isStaleExport
Stale(e) == v2ExportId \notin {None, e}

OnExportEnded_ClearFirst(k) ==
  /\ \E type \in {"completed", "failed"} :
       /\ watchdog' = FALSE
       /\ IF Stale(inbox[k].id)
          THEN Receive(k, type, <<>>) /\ UNCHANGED <<stateVars, v2ExportId>>
          ELSE /\ Receive(k, type, ReleaseCurrent)
               /\ v2ExportId' = None
               /\ IF type = "completed" \/ v2State = "EXPORTING"
                  THEN SetV2State(AfterExport) ELSE UNCHANGED stateVars
  /\ UNCHANGED <<v2SessionId, v2SnapshotId, backoff, helperVars, engineVars, events, upsets>>

\* onCompleted, and onFailed, which leaves a state other than EXPORTING alone.
OnExportEnded(k) ==
  /\ \E type \in {"completed", "failed"} :
       IF Stale(inbox[k].id)
       THEN /\ Receive(k, type, <<>>)
            /\ UNCHANGED <<stateVars, v2ExportId, watchdog>>
       ELSE /\ Receive(k, type, ReleaseCurrent)
            /\ watchdog' = FALSE
            /\ v2ExportId' = None
            /\ IF type = "completed" \/ v2State = "EXPORTING"
               THEN SetV2State(AfterExport) ELSE UNCHANGED stateVars
  /\ UNCHANGED <<v2SessionId, v2SnapshotId, backoff, helperVars, engineVars, events, upsets>>

OnSaveAnswer_Late(k) ==
  /\ IF inbox[k].ok
     THEN /\ Receive(k, "save", <<Request("export", inbox[k].id, 0)>>)
          /\ TakeSnapshot(inbox[k].id)
     ELSE /\ Receive(k, "save", <<>>) /\ SetV2State("RECORDING")
          /\ UNCHANGED <<v2SnapshotId, watchdog>>
  /\ UNCHANGED <<v2SessionId, v2ExportId, backoff, helperVars, engineVars, events, upsets>>

\* The rest of saveReplay.
OnSaveAnswer(k) ==
  /\ IF v2State # "SAVING"
     THEN Receive(k, "save", <<>>) /\ UNCHANGED <<v2SnapshotId, stateVars, watchdog>>
     ELSE IF inbox[k].ok
     THEN /\ Receive(k, "save", <<Request("export", inbox[k].id, 0)>>)
          /\ TakeSnapshot(inbox[k].id)
     ELSE /\ Receive(k, "save", <<>>) /\ SetV2State("RECORDING")
          /\ UNCHANGED <<v2SnapshotId, watchdog>>
  /\ UNCHANGED <<v2SessionId, v2ExportId, backoff, helperVars, engineVars, events, upsets>>

\* The catch of _startExport.
ExportRejected(k) ==
  /\ watchdog' = FALSE
  /\ v2ExportId' = None
  /\ IF v2State = "EXPORTING" THEN SetV2State(AfterExport) ELSE UNCHANGED stateVars

\* The rest of _startExport: the id is kept if the export is still awaited.
OnExportAnswer(k) ==
  /\ IF inbox[k].ok
     THEN /\ Receive(k, "export", <<>>)
          /\ v2ExportId' = IF v2State = "EXPORTING" /\ v2SnapshotId = inbox[k].request.arg
                           THEN inbox[k].id ELSE v2ExportId
          /\ UNCHANGED <<stateVars, watchdog>>
     ELSE Receive(k, "export", ReleaseCurrent) /\ ExportRejected(k)
  /\ UNCHANGED <<v2SessionId, v2SnapshotId, backoff, helperVars, engineVars, events, upsets>>

OnReleaseAnswer_Once(k) ==
  /\ Receive(k, "release", <<>>)
  /\ UNCHANGED <<stateVars, idVars, watchdog, backoff, helperVars, engineVars, events, upsets>>

OnReleaseAnswer_OneMore(k) ==
  LET r == inbox[k].request IN
  /\ Receive(k, "release", <<>>)
  /\ backoff' = IF ~inbox[k].ok /\ r.try < Attempts
                THEN BagAdd(backoff, [r EXCEPT !.try = @ + 1]) ELSE backoff
  /\ UNCHANGED <<stateVars, idVars, watchdog, helperVars, engineVars, events, upsets>>

\* _releaseWithRetry gives up after some attempts.
OnReleaseAnswer(k) ==
  LET r == inbox[k].request IN
  /\ Receive(k, "release", <<>>)
  /\ backoff' = IF ~inbox[k].ok /\ r.try + 1 < Attempts
                THEN BagAdd(backoff, [r EXCEPT !.try = @ + 1]) ELSE backoff
  /\ UNCHANGED <<stateVars, idVars, watchdog, helperVars, engineVars, events, upsets>>

UnchangedByTimer == UNCHANGED <<helperVars, engineVars, events>>

\* The backoff is far longer than an export that has emitted its event takes to
\* leave active_exports.
RetryRelease(r) ==
  /\ BagIn(r, backoff)
  /\ \A e \in Export : export[e] # "ended"
  /\ backoff' = BagRemove(backoff, r)
  /\ Call(<<r>>, inbox)
  /\ UnchangedByTimer
  /\ UNCHANGED <<stateVars, idVars, watchdog, upsets>>

\* The 120 s are over.
ExportWatchdog ==
  /\ watchdog
  /\ watchdog' = FALSE
  /\ IF v2State = "EXPORTING"
     THEN /\ v2ExportId' = None
          /\ Call(ReleaseCurrent, inbox)
          /\ SetV2State(AfterExport)
          /\ upsets' = upsets \cup {"timeout"}
     ELSE UNCHANGED <<v2ExportId, trafficVars, stateVars, upsets>>
  /\ UnchangedByTimer
  /\ UNCHANGED <<v2SessionId, v2SnapshotId, backoff>>

-----------------------------------------------------------------------------
(* startCapture, stopCapture and the other clicks *)

OnRequestSessionAnswer(k) ==
  /\ starting = "request"
  /\ Receive(k, "requestSession",
             IF inbox[k].ok THEN <<Request("startStream", None, 0)>> ELSE <<>>)
  /\ starting' = IF inbox[k].ok THEN "stream" ELSE "no"
  /\ UNCHANGED <<v2State, idVars, watchdog, backoff, helperVars, engineVars, events, upsets>>

\* After a failed start the helper session is stopped.
OnStartStreamAnswer(k) ==
  /\ starting = "stream"
  /\ Receive(k, "startStream", IF inbox[k].ok THEN <<>> ELSE StopStarted)
  /\ starting' = IF ~inbox[k].ok THEN "stop" ELSE IF v2State = "IDLE" THEN "ready" ELSE "no"
  /\ UNCHANGED <<v2State, idVars, watchdog, backoff, helperVars, engineVars, events, upsets>>

\* No capture.sessionReady in 30 s.
StartTimeout ==
  /\ starting = "ready"
  /\ Call(StopStarted, inbox)
  /\ starting' = "stop"
  /\ UnchangedByTimer
  /\ UNCHANGED <<v2State, idVars, watchdog, backoff, upsets>>

OnStopAnswer(k) ==
  /\ Receive(k, "stop", <<>>)
  /\ starting' = IF inbox[k].request.arg = 1 THEN "no" ELSE starting
  /\ UNCHANGED <<v2State, idVars, watchdog, backoff, helperVars, engineVars, events, upsets>>

Room == Len(requests) + Len(inbox) < MaxTraffic

\* The Start button.
ClickStart ==
  /\ Room /\ v2State = "IDLE" /\ starting = "no"
  /\ Call(<<Request("requestSession", None, 0)>>, inbox)
  /\ starting' = "request"
  /\ UNCHANGED <<v2State, idVars, watchdog, backoff, helperVars, engineVars, events, upsets>>

\* The Stop button.
ClickStop ==
  /\ Room /\ v2State \in {"RECORDING", "SAVING", "EXPORTING"}
  /\ Call(StopClicked, inbox)
  /\ UNCHANGED <<stateVars, idVars, watchdog, backoff, helperVars, engineVars, events, upsets>>

\* saveReplay up to its call.
ClickSave ==
  /\ Room /\ v2State = "RECORDING"
  /\ Count
  /\ SetV2State("SAVING")
  /\ Call(<<Request("save", None, 0)>>, inbox)
  /\ UNCHANGED <<idVars, watchdog, backoff, helperVars, engineVars, upsets>>

\* The Restart button of the diagnostics.
ClickRestart ==
  /\ Room /\ ~restarting
  /\ v2State \in {"ENGINE_DOWN", "ENGINE_UNAVAILABLE"}
  /\ Count
  /\ restarting' = TRUE
  /\ UNCHANGED <<stateVars, idVars, watchdog, backoff, trafficVars, helperVars, engine,
                 upsets>>

-----------------------------------------------------------------------------
(* The helper *)

Serving(op) == Up /\ requests # <<>> /\ Head(requests).op = op

Reply(sent, ok, id) ==
  /\ requests' = Tail(requests)
  /\ inbox' = inbox \o sent \o <<Answer(Head(requests), ok, id)>>

UnchangedByHelper ==
  UNCHANGED <<stateVars, idVars, watchdog, backoff, engineVars, events>>

Opening == session + Cardinality({e \in Export : export[e] # "none"}) < MaxOpened

\* The portal's dialog waits for the user, for as long as it takes: there is no
\* time-out, and no request is served behind it.
DialogOpen == Serving("requestSession") /\ capture = "idle"

\* The portal may refuse, and so does a helper with an active session.
RequestSession ==
  /\ Serving("requestSession")
  /\ \/ /\ capture = "idle" /\ session < MaxSessions /\ Opening
        /\ capture' = "requested" /\ session' = session + 1
        /\ Reply(<<>>, TRUE, None)
     \/ Reply(<<>>, FALSE, None) /\ UNCHANGED <<capture, session>>
  /\ UnchangedByHelper
  /\ UNCHANGED <<saved, snapshots, export, of, upsets>>

StartStream ==
  /\ Serving("startStream")
  /\ IF capture = "requested"
     THEN \/ /\ capture' = "recording"
             /\ Reply(<<Event("sessionReady", session)>>, TRUE, None)
          \/ /\ capture' = "idle"
             /\ Reply(<<Event("sessionLost", session)>>, FALSE, None)
     ELSE Reply(<<>>, FALSE, None) /\ UNCHANGED capture
  /\ UnchangedByHelper
  /\ UNCHANGED <<session, saved, snapshots, export, of, upsets>>

StopSession ==
  /\ Serving("stop")
  /\ IF capture # "idle"
     THEN Reply(<<Event("sessionLost", session)>>, TRUE, None)
     ELSE Reply(<<>>, FALSE, None)
  /\ capture' = "idle"
  /\ UnchangedByHelper
  /\ UNCHANGED <<session, saved, snapshots, export, of, upsets>>

\* The stream ends by itself.
CaptureLost ==
  /\ Up /\ capture = "recording"
  /\ capture' = "idle"
  /\ inbox' = Append(inbox, Event("sessionLost", session))
  /\ UnchangedByHelper
  /\ UNCHANGED <<requests, session, saved, snapshots, export, of, upsets>>

\* The segment buffer finds the disk full and says so; the stream goes on.
SinkFails ==
  /\ Up /\ capture = "recording"
  /\ Count
  /\ inbox' = Append(inbox, Event("sessionLost", session))
  /\ upsets' = upsets \cup {"sink"}
  /\ UNCHANGED <<stateVars, idVars, watchdog, backoff, requests, helperVars, engineVars>>

\* Without segments nothing can be saved.
Save ==
  /\ Serving("save")
  /\ \/ /\ session > 0 /\ saved' = saved + 1
        /\ snapshots' = snapshots \cup {saved'}
        /\ Reply(<<Event("pinned", saved')>>, TRUE, saved')
     \/ Reply(<<>>, FALSE, None) /\ UNCHANGED <<saved, snapshots>>
  /\ UnchangedByHelper
  /\ UNCHANGED <<capture, session, export, of, upsets>>

Referenced(s) == \E e \in Export : of[e] = s /\ export[e] \in {"running", "ended"}

SnapshotRelease ==
  LET s == Head(requests).arg IN
  /\ Serving("release")
  /\ IF s \in snapshots /\ ~Referenced(s)
     THEN snapshots' = snapshots \ {s} /\ Reply(<<Event("released", s)>>, TRUE, None)
     ELSE UNCHANGED snapshots /\ Reply(<<>>, FALSE, None)
  /\ UnchangedByHelper
  /\ UNCHANGED <<capture, session, saved, export, of, upsets>>

\* ffmpeg may not be installed, the snapshot may be released.
ExportStart ==
  LET s == Head(requests).arg IN
  /\ Serving("export")
  /\ \/ \E e \in Export :
          /\ s \in snapshots /\ Opening
          /\ \A i \in Export : export[i] = "none" <=> i >= e
          /\ export' = [export EXCEPT ![e] = "running"] /\ of' = [of EXCEPT ![e] = s]
          /\ Reply(<<>>, TRUE, e)
     \/ Reply(<<>>, FALSE, None) /\ UNCHANGED <<export, of>>
  /\ UnchangedByHelper
  /\ UNCHANGED <<capture, session, saved, snapshots, upsets>>

\* The terminal event of an export.
ExportEnds(e) ==
  /\ Up /\ export[e] = "running"
  /\ export' = [export EXCEPT ![e] = "ended"]
  /\ \E type \in {"completed", "failed"} : inbox' = Append(inbox, Event(type, e))
  /\ UnchangedByHelper
  /\ UNCHANGED <<requests, capture, session, saved, snapshots, of, upsets>>

\* Its entry in active_exports goes.
Unregister(e) ==
  /\ Up /\ export[e] = "ended"
  /\ export' = [export EXCEPT ![e] = "gone"]
  /\ UnchangedByHelper
  /\ UNCHANGED <<trafficVars, capture, session, saved, snapshots, of, upsets>>

\* The helper is gone with all it knew, and the calls under way are rejected.
HelperGone(announcement) ==
  /\ Up
  /\ engine' = "down"
  /\ capture' = "idle" /\ snapshots' = {}
  /\ export' = [e \in Export |-> IF export[e] = "none" THEN "none" ELSE "gone"]
  /\ requests' = <<>>
  /\ inbox' = inbox \o announcement \o Rejections(requests)
  /\ UNCHANGED <<stateVars, idVars, watchdog, backoff, session, saved, of>>

Crash ==
  /\ Count
  /\ HelperGone(<<Engine("crashed")>>)
  /\ UNCHANGED <<restarting, upsets>>

\* A restart shuts the helper down before it boots the next one, and tells
\* nobody.
Shutdown ==
  /\ restarting
  /\ restarting' = FALSE
  /\ \/ HelperGone(<<>>) /\ upsets' = upsets \cup {"restart"}
     \/ /\ ~Up /\ engine' = "down"
        /\ UNCHANGED <<stateVars, idVars, watchdog, backoff, trafficVars, helperVars, upsets>>
  /\ UNCHANGED events

UnchangedByBoot ==
  UNCHANGED <<stateVars, idVars, watchdog, backoff, requests, helperVars, restarting,
              events, upsets>>

\* The next helper is connected.
Boot ==
  /\ engine = "down"
  /\ engine' = "up"
  /\ inbox' = Append(inbox, Engine("ready"))
  /\ UnchangedByBoot

\* The supervisor gives up.
BootFails ==
  /\ engine = "down"
  /\ engine' = "unavailable"
  /\ inbox' = Append(inbox, Engine("unavailable"))
  /\ UnchangedByBoot

-----------------------------------------------------------------------------
Deliver ==
  \E k \in DOMAIN inbox :
    /\ Deliverable(k)
    /\ \/ OnReady(k) \/ OnEngineLost(k) \/ OnSessionReady(k) \/ OnSessionLost(k)
       \/ OnSnapshotPinned(k) \/ OnSnapshotReleased(k) \/ OnExportEnded(k)
       \/ OnSaveAnswer(k) \/ OnExportAnswer(k) \/ OnReleaseAnswer(k)
       \/ OnRequestSessionAnswer(k) \/ OnStartStreamAnswer(k) \/ OnStopAnswer(k)

Retry == \E r \in BagToSet(backoff) : RetryRelease(r)

Click == ClickStart \/ ClickStop \/ ClickSave \/ ClickRestart

Serve ==
  \/ RequestSession \/ StartStream \/ StopSession
  \/ Save \/ SnapshotRelease \/ ExportStart

Next ==
  \/ Deliver \/ Retry \/ ExportWatchdog \/ StartTimeout \/ Click \/ Serve
  \/ CaptureLost \/ SinkFails
  \/ \E e \in Export : ExportEnds(e) \/ Unregister(e)
  \/ Crash \/ Shutdown \/ Boot \/ BootFails

Spec == Init /\ [][Next]_vars

\* Messages arrive, requests are served but for one that waits for the user, and
\* timers fire.  No export need end.
Fairness ==
  /\ WF_vars(Deliver) /\ WF_vars(~DialogOpen /\ Serve)
  /\ WF_vars(ExportWatchdog) /\ WF_vars(StartTimeout)

FairSpec == Spec /\ Fairness

-----------------------------------------------------------------------------
(* Properties *)

Types == {"ready", "crashed", "unavailable", "sessionReady", "sessionLost", "pinned",
          "released", "completed", "failed", "requestSession", "startStream", "stop",
          "save", "release", "export"}

\* Every variable has its type.
TypeOK ==
  /\ v2State \in {"BOOTING", "IDLE", "RECORDING", "SAVING", "EXPORTING", "ENGINE_DOWN",
                  "ENGINE_UNAVAILABLE"}
  /\ v2SessionId \in Session \cup {None} /\ v2SnapshotId \in Snapshot \cup {None}
  /\ v2ExportId \in Export \cup {None}
  /\ watchdog \in BOOLEAN
  /\ starting \in {"no", "request", "stream", "ready", "stop"}
  /\ \A r \in BagToSet(backoff) : r.op = "release" /\ r.arg \in Snapshot /\ r.try \in 1 .. Attempts - 1
  /\ \A k \in DOMAIN inbox : inbox[k].type \in Types
  /\ \A k \in DOMAIN requests : requests[k].op \in Types
  /\ engine \in {"up", "down", "unavailable"} /\ capture \in {"idle", "requested", "recording"}
  /\ session \in 0 .. MaxSessions /\ saved \in 0 .. events /\ snapshots \subseteq Snapshot
  /\ export \in [Export -> {"none", "running", "ended", "gone"}]
  /\ of \in [Export -> Snapshot \cup {None}]
  /\ events \in 0 .. MaxEvents /\ restarting \in BOOLEAN
  /\ upsets \subseteq {"overlap", "timeout", "sink", "restart"}

\* The renderer never waits for an export without a timer that ends the wait,
\* whichever of several exports started or cleared the one there is.
ExportingIsWatched == v2State = "EXPORTING" => watchdog

\* RECORDING and SAVING are only shown while a capture session is known.
RecordingHasSession == v2State \in {"RECORDING", "SAVING"} => v2SessionId # None

\* Nothing is under way.
Quiet == inbox = <<>> /\ requests = <<>> /\ backoff = EmptyBag

\* When all is said, the renderer shows the session that the helper captures,
\* unless the sink failed or a restart killed the helper; and a helper that
\* crashed is shown as such: no late answer, event or timer of its time puts the
\* renderer back to work.
SessionIsShown ==
  Quiet /\ "restart" \notin upsets =>
    /\ ~Up => v2State \in {"ENGINE_DOWN", "ENGINE_UNAVAILABLE"}
    /\ "sink" \notin upsets =>
         v2SessionId = IF capture = "recording" THEN session ELSE None

\* When all is said, the helper pins no snapshot any more, unless an export
\* outlived its watchdog or a session began while one was saved or exported.
NoSnapshotLeft ==
  Quiet /\ v2State # "EXPORTING" /\ upsets \cap {"overlap", "timeout"} = {} =>
    snapshots = {}

\* A click on Save replay is over some time, even if the export hangs, the helper
\* dies or a dialog of the portal holds up every request; and a click on Start is
\* over some time, and can then be repeated, or waits for the user's answer to
\* that dialog: once it is given, nothing the helper does leaves the click open.
ClicksEnd ==
  /\ v2State \in {"SAVING", "EXPORTING"} ~> v2State \notin {"SAVING", "EXPORTING"}
  /\ starting # "no" ~> starting = "no" \/ DialogOpen

=============================================================================
