---------------------------- MODULE RecordingApp ----------------------------
(***************************************************************************)
(* The renderer that records (src/src/App.tsx, src/src/recorder-client.ts) *)
(* on top of the recordings of the main process (Recorder): the flows that *)
(* start and stop a recording, the chunks of MediaRecorder, and the replay *)
(* buffer, whose save ends one recording and begins the next. Each await   *)
(* is a step boundary; an IPC call runs in main when it is made and its    *)
(* answer is a step of its own.                                            *)
(***************************************************************************)
EXTENDS Recorder

CONSTANTS MaxFlow,  \* bound: start flows under way together
          MaxBuf,   \* bound: replay buffers
          MaxEnded  \* bound: recordings, the first ones, whose tracks may end by themselves

ASSUME RendererAssumption == MaxFlow \in Nat \ {0} /\ MaxBuf \in Nat /\ MaxEnded \in Nat

Flow == 1..MaxFlow

(* The last chunk of a MediaRecorder is still to come when it has "ended" with its     *)
(* tracks before anybody stopped it, or is "cut": nobody waits for its stop event.     *)
(* "dead" has never started.                                                           *)
Media == {"none", "on", "ended", "cut", "off", "dead"}
Buf  == 1..MaxBuf

VARIABLES
  status,     \* of the store
  session,    \* sessionRef
  flow,       \* begin* flows: where they await, and the recording they began
  stopping,   \* stopFlow per recording: "none", "draining", "finalizing"
  media,      \* MediaRecorder per recording, and who waits for its last chunk
  pending,    \* pendingChunks is not empty
  buf,        \* replay buffers
  handle,     \* replayHandle
  quit,       \* before-quit has run
  doubled,    \* history: two start flows, or two replay starts, were under way
  late        \* history: a replay recording began after its buffer had been cancelled

rendVars == <<status, session, flow, stopping, media, pending>>
bufVars  == <<buf, handle>>
histVars == <<quit, doubled, late>>
vars == <<mainVars, rendVars, bufVars, histVars>>

NoFlow == [pc |-> "none", rec |-> None]
Flows  == [pc : {"none", "asking", "acquiring", "beginning"}, rec : Rec \union {None}]
NoBuf  == [start |-> "none", active |-> None, stopped |-> FALSE, lost |-> FALSE,
           save |-> "none", saved |-> None, stop |-> "none"]
Bufs   == [start : {"none", "acquiring", "beginning", "up", "over"}, active : Rec \union {None},
           stopped : BOOLEAN, lost : BOOLEAN,
           save : {"none", "draining", "finalizing", "beginning"}, saved : Rec \union {None},
           stop : {"none", "draining", "cancelling", "over"}]

Init ==
  /\ MainInit
  /\ status = "idle" /\ session = None
  /\ flow = [i \in Flow |-> NoFlow]
  /\ stopping = [r \in Rec |-> "none"]
  /\ media = [r \in Rec |-> "none"] /\ pending = [r \in Rec |-> FALSE]
  /\ buf = [b \in Buf |-> NoBuf] /\ handle = None
  /\ quit = FALSE /\ doubled = FALSE /\ late = FALSE

----------------------------------------------------------------------------
(* Start a recording *)

(* beginScreen, beginWindow, beginCrop: the guard on status, then getCurrentAppInfo    *)
(* and listSources are awaited with status still "idle".                               *)
ClickRecord(i) ==
  /\ status = "idle" /\ flow[i].pc = "none"
  /\ \A j \in 1..(i - 1) : flow[j].pc # "none"
  /\ flow' = [flow EXCEPT ![i].pc = "asking"]
  /\ doubled' = (doubled \/ \E j \in Flow : flow[j].pc # "none")
  /\ UNCHANGED <<mainVars, status, session, stopping, media, pending, bufVars, quit, late>>

(* startWithSource, startWaylandCapture; or a modal opens, or there is no source. *)
Prepare(i) ==
  /\ flow[i].pc = "asking"
  /\ \/ status' = "preparing" /\ flow' = [flow EXCEPT ![i].pc = "acquiring"]
     \/ flow' = [flow EXCEPT ![i] = NoFlow] /\ UNCHANGED status
  /\ UNCHANGED <<mainVars, session, stopping, media, pending, bufVars, histVars>>

(* The stream is there, wrapStreamIntoSession calls begin; or the picker is cancelled, *)
(* the source refused, or no MIME type supported.                                      *)
Acquired(i) ==
  /\ flow[i].pc = "acquiring"
  /\ \/ \E r \in Rec : /\ Begin(r, FALSE)
                       /\ flow' = [flow EXCEPT ![i] = [pc |-> "beginning", rec |-> r]]
                       /\ UNCHANGED status
     \/ flow' = [flow EXCEPT ![i] = NoFlow] /\ status' = "idle" /\ UNCHANGED mainVars
  /\ UNCHANGED <<session, stopping, media, pending, bufVars, histVars>>

(* begin has answered: the recorder starts and the session becomes the current one; or *)
(* it throws, since the tracks have ended, and nothing is left but the status.         *)
Started(i) ==
  /\ flow[i].pc = "beginning"
  /\ \/ /\ media' = [media EXCEPT ![flow[i].rec] = "on"]
        /\ session' = flow[i].rec
        /\ status' = "recording"
     \/ /\ media' = [media EXCEPT ![flow[i].rec] = "dead"]
        /\ status' = "idle"
        /\ UNCHANGED session
  /\ flow' = [flow EXCEPT ![i] = NoFlow]
  /\ UNCHANGED <<mainVars, stopping, pending, bufVars, histVars>>

----------------------------------------------------------------------------
(* Chunks *)

(* ondataavailable: the write is pending until the answer of save-chunk. *)
Chunk(r) ==
  /\ media[r] = "on" /\ ~pending[r]
  /\ pending' = [pending EXCEPT ![r] = TRUE]
  /\ UNCHANGED <<mainVars, status, session, flow, stopping, media, bufVars, histVars>>

WriteChunk(r) ==
  /\ pending[r]
  /\ AppendChunk(r, TRUE)
  /\ pending' = [pending EXCEPT ![r] = FALSE]
  /\ UNCHANGED <<ffmpeg, sessions, file, volume, torn, crossed, status, session, flow, stopping,
                 media, bufVars, histVars>>

(* The tracks end, and the recorder with them. *)
TracksEnd(r) ==
  /\ media[r] = "on" /\ r <= MaxEnded
  /\ media' = [media EXCEPT ![r] = "ended"]
  /\ UNCHANGED <<mainVars, status, session, flow, stopping, pending, bufVars, histVars>>

(* Its last chunk, unless it is empty. *)
LastChunk(r) ==
  /\ media[r] = "ended"
  /\ media' = [media EXCEPT ![r] = "off"]
  /\ UNCHANGED pending \/ pending' = [pending EXCEPT ![r] = TRUE]
  /\ UNCHANGED <<mainVars, status, session, flow, stopping, bufVars, histVars>>

(* The last chunk, and its write, of a recorder that nobody waits for. *)
LateChunk(r) ==
  /\ media[r] = "cut"
  /\ media' = [media EXCEPT ![r] = "off"]
  /\ UNCHANGED rec \/ AppendChunk(r, FALSE)
  /\ UNCHANGED <<ffmpeg, sessions, file, volume, torn, crossed, status, session, flow, stopping,
                 pending, bufVars, histVars>>

(* stop of a session, and of a save: the stop event, before which the last chunk       *)
(* comes, is awaited; but not when the recorder is inactive already, be its last chunk *)
(* still to come.                                                                      *)
StopMedia(r) ==
  \/ /\ media[r] = "on"
     /\ media' = [media EXCEPT ![r] = "off"]
     /\ UNCHANGED pending \/ pending' = [pending EXCEPT ![r] = TRUE]
  \/ /\ media[r] # "on"
     /\ media' = [media EXCEPT ![r] = IF @ = "ended" THEN "cut" ELSE @]
     /\ UNCHANGED pending

----------------------------------------------------------------------------
(* Stop a recording *)

(* stopFlow, by a button or key while recording, or by the end of any track or of a    *)
(* GIF's 10 s: it always takes the current session.                                    *)
StopFlow ==
  /\ session # None
  /\ status = "recording" \/ \E r \in Rec : media[r] \in {"on", "ended"} /\ ~rec[r].replay
  /\ session' = None
  /\ status' = "finalizing"
  /\ StopMedia(session)
  /\ stopping' = [stopping EXCEPT ![session] = "draining"]
  /\ UNCHANGED <<mainVars, flow, bufVars, histVars>>

Drained_Early(r) ==
  /\ stopping[r] = "draining"
  /\ Finalize(r)
  /\ stopping' = [stopping EXCEPT ![r] = "finalizing"]
  /\ UNCHANGED <<ffmpeg, crossed, status, session, flow, media, pending, bufVars, histVars>>

(* session.stop() has had its stop event and drained the chunks. *)
Drained(r) ==
  /\ stopping[r] = "draining" /\ ~pending[r]
  /\ Finalize(r)
  /\ stopping' = [stopping EXCEPT ![r] = "finalizing"]
  /\ UNCHANGED <<ffmpeg, crossed, status, session, flow, media, pending, bufVars, histVars>>

(* The answer of finalize; a rejection leaves stopFlow where it is. *)
Finalized(r) ==
  /\ stopping[r] = "finalizing" /\ rec[r].answer \in {"saved", "failed"}
  /\ stopping' = [stopping EXCEPT ![r] = "none"]
  /\ status' = "idle"
  /\ UNCHANGED <<mainVars, session, flow, media, pending, bufVars, histVars>>

----------------------------------------------------------------------------
(* Replay buffer *)

(* startReplay: refused only once the handle is there. *)
StartReplay(b) ==
  /\ handle = None /\ status = "idle"
  /\ buf[b].start = "none" /\ \A c \in 1..(b - 1) : buf[c].start # "none"
  /\ buf' = [buf EXCEPT ![b].start = "acquiring"]
  /\ doubled' = (doubled \/ \E c \in Buf : buf[c].start \in {"acquiring", "beginning"})
  /\ UNCHANGED <<mainVars, rendVars, handle, quit, late>>

(* startReplayBuffer up to beginReplayRecording. *)
ReplayAcquired(b) ==
  /\ buf[b].start = "acquiring"
  /\ \/ \E r \in Rec : /\ Begin(r, TRUE)
                       /\ buf' = [buf EXCEPT ![b].start = "beginning", ![b].active = r]
     \/ buf' = [buf EXCEPT ![b].start = "over"] /\ UNCHANGED mainVars
  /\ UNCHANGED <<rendVars, handle, histVars>>

(* begin has answered; the recording is cancelled when its MediaRecorder throws. *)
ReplayBegun(b) ==
  LET r == buf[b].active
  IN  /\ buf[b].start = "beginning"
      /\ \/ /\ rec[r].answer = "begun"
            /\ buf' = [buf EXCEPT ![b].start = "up"]
            /\ handle' = b
            /\ media' = [media EXCEPT ![r] = "on"]
            /\ UNCHANGED mainVars
         \/ /\ rec[r].answer = "begun"
            /\ Cancel(r)
            /\ buf' = [buf EXCEPT ![b].start = "over", ![b].active = None]
            /\ UNCHANGED <<ffmpeg, crossed, handle, media>>
         \/ /\ rec[r].answer = "threw"
            /\ buf' = [buf EXCEPT ![b].start = "over", ![b].active = None]
            /\ UNCHANGED <<mainVars, handle, media>>
      /\ UNCHANGED <<status, session, flow, stopping, pending, histVars>>

(* save: the recorder stops and its chunks are drained. *)
SaveReplay(b) ==
  LET r == buf[b].active
  IN  /\ handle = b /\ buf[b].save = "none" /\ ~buf[b].lost /\ ~buf[b].stopped
      /\ rec[r].data
      /\ StopMedia(r)
      /\ buf' = [buf EXCEPT ![b].save = "draining", ![b].saved = r]
      /\ UNCHANGED <<mainVars, status, session, flow, stopping, handle, histVars>>

(* The window was lost meanwhile: cancelled; else finalized. *)
SaveDrained(b) ==
  LET r == buf[b].saved
  IN  /\ buf[b].save = "draining" /\ ~pending[r]
      /\ IF buf[b].lost
         THEN Cancel(r) /\ buf' = [buf EXCEPT ![b].save = "none", ![b].saved = None]
         ELSE Finalize(r) /\ buf' = [buf EXCEPT ![b].save = "finalizing"]
      /\ UNCHANGED <<ffmpeg, crossed, rendVars, handle, histVars>>

(* The answer of finalize: a buffer that was not stopped begins its next recording. *)
SaveFinalized(b) ==
  /\ buf[b].save = "finalizing" /\ rec[buf[b].saved].answer \in {"saved", "failed"}
  /\ \/ /\ buf[b].stopped
        /\ buf' = [buf EXCEPT ![b].save = "none", ![b].saved = None]
        /\ UNCHANGED mainVars
     \/ /\ ~buf[b].stopped
        /\ \E r \in Rec : /\ Begin(r, TRUE)
                          /\ buf' = [buf EXCEPT ![b].save = "beginning", ![b].saved = r]
  /\ UNCHANGED <<rendVars, handle, histVars>>

SaveBegun_KeepsIt(b) ==
  LET r == buf[b].saved
  IN  /\ buf[b].save = "beginning" /\ rec[r].answer \in {"begun", "threw"}
      /\ buf' = [buf EXCEPT ![b].save = "none", ![b].saved = None,
                            ![b].active = IF buf[b].stop = "over" THEN @ ELSE r]
      /\ late' = (late \/ buf[b].stop = "cancelling")
      /\ UNCHANGED <<mainVars, status, session, flow, stopping, media, pending, handle, quit,
                     doubled>>

(* It has begun, also when the buffer was stopped in the meantime: MediaRecorder then  *)
(* starts as long as the tracks live. It throws when they have ended, as they have     *)
(* after cleanup; the recording is cancelled, and the buffer stops.                    *)
SaveBegun(b) ==
  LET r == buf[b].saved
  IN  /\ buf[b].save = "beginning"
      /\ \/ /\ rec[r].answer = "begun" /\ buf[b].stop # "over"
            /\ buf' = [buf EXCEPT ![b].save = "none", ![b].saved = None, ![b].active = r]
            /\ media' = [media EXCEPT ![r] = "on"]
            /\ late' = (late \/ buf[b].stop = "cancelling")
            /\ UNCHANGED mainVars
         \/ /\ rec[r].answer = "begun"
            /\ Cancel(r)
            /\ buf' = [buf EXCEPT ![b].save = "none", ![b].saved = None, ![b].stopped = TRUE]
            /\ UNCHANGED <<ffmpeg, crossed, media, late>>
         \/ /\ rec[r].answer = "threw"
            /\ buf' = [buf EXCEPT ![b].save = "none", ![b].saved = None, ![b].stopped = TRUE]
            /\ UNCHANGED <<mainVars, media, late>>
      /\ UNCHANGED <<status, session, flow, stopping, pending, handle, quit, doubled>>

(* handleStop, by the button, which a save disables, or by the loss of the target. It  *)
(* does not wait for the stop event: what comes then of a recording that is about to   *)
(* be cancelled is left out.                                                           *)
StopReplay(b) ==
  /\ buf[b].start = "up" /\ ~buf[b].stopped
  /\ \E lost \in BOOLEAN :
       buf' = [buf EXCEPT ![b].stopped = TRUE, ![b].stop = "draining", ![b].lost = lost]
  /\ media' = [media EXCEPT ![buf[b].active] = "off"]
  /\ UNCHANGED <<mainVars, status, session, flow, stopping, pending, handle, histVars>>

(* The recording that is active by now is cancelled, be it one that is being saved. *)
StopDrained(b) ==
  /\ buf[b].stop = "draining" /\ ~pending[buf[b].active]
  /\ Cancel(buf[b].active)
  /\ buf' = [buf EXCEPT ![b].stop = "cancelling"]
  /\ UNCHANGED <<ffmpeg, crossed, rendVars, handle, histVars>>

(* cleanup ends the tracks. *)
StopCleaned(b) ==
  /\ buf[b].stop = "cancelling"
  /\ buf' = [buf EXCEPT ![b].stop = "over"]
  /\ handle' = None
  /\ media' = [media EXCEPT ![buf[b].active] = "off"]
  /\ UNCHANGED <<mainVars, status, session, flow, stopping, pending, histVars>>

----------------------------------------------------------------------------
(* Faults, quit, specification *)

SidecarFails == (\E r \in Rec : SidecarDies(r)) /\ UNCHANGED <<rendVars, bufVars, histVars>>

(* before-quit and window-all-closed; the windows stay until the helper is down. *)
Quit ==
  /\ ~quit /\ quit' = TRUE
  /\ CancelAll
  /\ UNCHANGED <<ffmpeg, crossed, rendVars, bufVars, doubled, late>>

Main(r) == MainStep(r) /\ UNCHANGED <<rendVars, bufVars, histVars>>

FlowStep(i)   == Prepare(i) \/ Acquired(i) \/ Started(i)
StopStep(r)   == Drained(r) \/ Finalized(r)
ReplayStep(b) == ReplayAcquired(b) \/ ReplayBegun(b) \/ SaveDrained(b) \/ SaveFinalized(b)
                 \/ SaveBegun(b) \/ StopDrained(b) \/ StopCleaned(b)

Next ==
  \/ \E i \in Flow : ClickRecord(i) \/ FlowStep(i)
  \/ \E r \in Rec : Main(r) \/ Chunk(r) \/ WriteChunk(r) \/ LastChunk(r)
                     \/ LateChunk(r) \/ TracksEnd(r) \/ StopStep(r)
  \/ StopFlow
  \/ \E b \in Buf : StartReplay(b) \/ SaveReplay(b) \/ StopReplay(b) \/ ReplayStep(b)
  \/ SidecarFails
  \/ Quit

Spec == Init /\ [][Next]_vars

----------------------------------------------------------------------------
(* Every field has its type; only what is in the map holds a raised volume. *)
TypeOK ==
  /\ ffmpeg \in BOOLEAN /\ rec \in [Rec -> Recordings] /\ sessions \subseteq Rec
  /\ file \in [Fd -> Rec \union {None}] /\ volume \in Volumes \ {"none"}
  /\ status \in {"idle", "preparing", "recording", "finalizing"}
  /\ session \in Rec \union {None} /\ flow \in [Flow -> Flows]
  /\ stopping \in [Rec -> {"none", "draining", "finalizing"}]
  /\ media \in [Rec -> Media] /\ pending \in [Rec -> BOOLEAN]
  /\ buf \in [Buf -> Bufs] /\ handle \in Buf \union {None}
  /\ {torn, crossed, quit, doubled, late} \subseteq BOOLEAN

(* Footage that nobody cancelled is not lost: whatever step of finalize fails, the     *)
(* output or the temp file is there in the end, and what ffmpeg reads or the user gets *)
(* holds every chunk whose write did not fail, the last one too. But a recorder that   *)
(* has ended by itself before it is stopped may send its last chunk too late; and a    *)
(* cancel may have closed a descriptor number that finalize had closed before and that *)
(* another recording uses by then: torn.                                               *)
FootageSafe ==
  \A r \in Rec :
    /\ rec[r].answer \in {"saved", "failed", "rejected"} /\ rec[r].job \in {"over", "stuck"}
         => rec[r].cancelled \/ rec[r].temp \/ rec[r].output
    /\ rec[r].job = "encoding" \/ rec[r].output => torn \/ ~rec[r].holed

(* Once no recording holds it, the monitor source has the volume the user has set,     *)
(* by whatever way the recordings ended; but not when a sidecar started while another  *)
(* had raised the volume already: it saves, and restores, the raised one.              *)
VolumeRestored == crossed \/ volume = "user" \/ \E r \in Rec : Holding(r)

(* The renderer still has, somewhere, what it takes to end this recording. *)
Tended(r) ==
  \/ session = r \/ stopping[r] # "none" \/ \E i \in Flow : flow[i].rec = r
  \/ \E b \in Buf : \/ buf[b].active = r /\ buf[b].stop \notin {"cancelling", "over"}
                    \/ buf[b].saved = r

(* No recording runs on with nobody to stop it, and the status the user sees is that   *)
(* of the flows under way: recording just when there is a session to stop, preparing   *)
(* or finalizing only while a flow is. Excepted are a recording whose MediaRecorder    *)
(* throws on start, which nobody cancels, and the two races the guards leave open: a   *)
(* second start during the awaits before "preparing", and a replay buffer that is      *)
(* stopped just while its save begins the next recording.                              *)
NoOrphan ==
  \/ doubled \/ late
  \/ /\ \A r \in Rec : rec[r].job = "open" /\ media[r] # "dead" => Tended(r)
     /\ status = "recording" <=> session # None
     /\ status = "preparing" => \E i \in Flow : flow[i].pc \in {"acquiring", "beginning"}
     /\ status = "finalizing" => \E r \in Rec : stopping[r] # "none"
=============================================================================
