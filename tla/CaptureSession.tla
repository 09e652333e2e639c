--------------------------- MODULE CaptureSession ---------------------------
(***************************************************************************)
(* The capture sessions of the helper on Linux: PipeWireSource with its    *)
(* PipeWire thread, event loop and diagnostics loop                        *)
(* (src/helper/src/capture/pipewire.rs), the dispatcher that runs one      *)
(* request of the connection at a time, and the end of a connection, which *)
(* cancels or aborts the request and stops the session                     *)
(* (src/helper/src/transport/server.rs). EncoderSession has the task at    *)
(* the other end of the frame channel.                                     *)
(*                                                                         *)
(* A session is a PipeWireSource, made by capture.requestSession. Left     *)
(* out: what the client is told (ReplayClient), pauses and frame rates,    *)
(* which only change when frames come, and the choice between DMA-BUF and  *)
(* shared memory, which at worst fails the stream.                         *)
(***************************************************************************)
EXTENDS EncoderSession

CONSTANT Bounds  \* what a run may see: [sessions, formats, frames, faults]

ASSUME BoundsAssumption ==
  Bounds \subseteq [sessions : Session, formats : Format, frames : Nat, faults : Nat]

VARIABLES
  bound,        \* the member of Bounds that holds for this behaviour
  \* the connection
  conn,         \* open, ending (cancelled, a request runs), cleanup, closed
   call,         \* the request under way: what, for which session, how far
  aborted,      \* the dispatch has been aborted and has yet to notice
  active,       \* active_capture
  opened,       \* sessions so far
  \* per session: PwInner and what hangs on it
  phase,        \* PwPhase
  quit,         \* the quit flag of the thread
  ready,        \* the one-shot channel that start_stream awaits
  loop,         \* pw_event_loop
  diag,         \* run_diagnostics_loop
  \* per session: the PipeWire thread
  streaming, negotiated, format, markerDue, events,
  \* history
  frames, faults,
  rejected,     \* sessions that have met an unsupported format
  late          \* sessions that were ready before a former one's encoder had its buffer

connVars   == <<bound, conn, call, aborted, active, opened>>
sourceVars == <<phase, quit, loop, diag>>
threadVars == <<streaming, negotiated, format, markerDue>>
histVars   == <<frames, faults, rejected, late>>
vars == <<connVars, sourceVars, ready, threadVars, events, histVars, sender, buffer,
          encVars>>

NoCall == [op |-> "none", s |-> None, at |-> "none"]
Calls  == [op : {"none", "request", "start"}, s : Session \cup {None},
           at : {"none", "portal", "requested", "wait", "failed", "record", "tasks"}]

TypeOK ==
  /\ EncoderTypeOK
  /\ conn \in {"open", "ending", "cleanup", "closed"}
  /\ call \in Calls /\ aborted \in BOOLEAN
  /\ active \in Session \cup {None} /\ opened \in Session \cup {None}
  /\ phase \in [Session -> {"Idle", "SessionRequested", "Streaming", "Recording"}]
  /\ {quit, streaming, negotiated, markerDue} \subseteq [Session -> BOOLEAN]
  /\ ready \in [Session -> {"none", "waiting", "ok", "failed"}]
  /\ loop \in [Session -> {"none", "run", "reset", "done"}]
  /\ diag \in [Session -> {"none", "run", "cancelled"}]
  /\ format \in [Session -> Format \cup {None}]
  /\ events \in [Session -> Seq({"format", "error", "renegotiation"})]
  /\ bound \in Bounds /\ frames \in 0 .. bound.frames /\ faults \in 0 .. bound.faults
  /\ rejected \subseteq Session /\ late \subseteq Session

Init ==
  /\ bound \in Bounds
  /\ EncoderInit
  /\ conn = "open" /\ call = NoCall /\ aborted = FALSE
  /\ active = None /\ opened = None
  /\ phase = [s \in Session |-> "Idle"] /\ quit = [s \in Session |-> FALSE]
  /\ ready = [s \in Session |-> "none"]
  /\ loop = [s \in Session |-> "none"] /\ diag = [s \in Session |-> "none"]
  /\ streaming = [s \in Session |-> FALSE] /\ negotiated = [s \in Session |-> FALSE]
  /\ format = [s \in Session |-> None] /\ markerDue = [s \in Session |-> FALSE]
  /\ events = [s \in Session |-> <<>>]
  /\ frames = 0 /\ faults = 0 /\ rejected = {} /\ late = {}

-----------------------------------------------------------------------------
(* PipeWireSource *)

\* reset_inner_locked: the thread and the loop of diagnostics are told to end,
\* and the task that holds the portal session.
Reset(s) ==
  /\ phase' = [phase EXCEPT ![s] = "Idle"]
  /\ quit' = [quit EXCEPT ![s] = @ \/ sender[s] # "none"]
  /\ diag' = [diag EXCEPT ![s] = IF @ = "run" THEN "cancelled" ELSE @]

\* stop_session, which fails on a session that is idle.
StopSession(s) ==
  IF phase[s] = "Idle" THEN UNCHANGED <<phase, quit, diag>> ELSE Reset(s)

\* Somebody holds the PwInner of s; without it its senders are dropped.
InnerAlive(s) == active = s \/ call.s = s \/ loop[s] \in {"run", "reset"}

PortalOpen(s) == phase[s] # "Idle" /\ InnerAlive(s)
DiagRuns(s) == diag[s] = "run" /\ InnerAlive(s)

\* get_active_capture
ActiveCapture == IF active # None /\ phase[active] # "Idle" THEN active ELSE None

At(to) == call' = [call EXCEPT !.at = to]

-----------------------------------------------------------------------------
(* Requests; a new one is read when the last has been answered *)

Reading == conn = "open" /\ call = NoCall

\* capture.requestSession, which is refused while a session is active.
RequestSession ==
  /\ Reading /\ ActiveCapture = None
  /\ opened < bound.sessions
  /\ opened' = opened + 1 /\ active' = None
  /\ call' = [op |-> "request", s |-> opened + 1, at |-> "portal"]
  /\ UNCHANGED <<bound, conn, aborted, sourceVars, ready, threadVars, events, histVars,
                 sender, buffer, encVars>>

\* run_portal_flow fails, or is cancelled with its connection.
PortalFails ==
  /\ call.at = "portal"
  /\ call' = NoCall
  /\ UNCHANGED <<bound, conn, aborted, active, opened, sourceVars, ready, threadVars, events, histVars,
                 sender, buffer, encVars>>

PortalAnswers ==
  LET s == call.s
  IN  /\ call.at = "portal" /\ At("requested")
      /\ phase' = [phase EXCEPT ![s] = "SessionRequested"]
      /\ UNCHANGED <<bound, conn, aborted, active, opened, quit, loop, diag, ready,
                     threadVars, events, histVars, sender, buffer, encVars>>

\* The session is installed, but not for a client that has gone.
InstallSession ==
  LET s == call.s
  IN  /\ call.at = "requested" /\ call' = NoCall
      /\ IF conn = "open"
         THEN active' = s /\ UNCHANGED <<phase, quit, diag>>
         ELSE StopSession(s) /\ UNCHANGED active
      /\ UNCHANGED <<bound, conn, aborted, opened, loop, ready, threadVars, events,
                     histVars, sender, buffer, encVars>>

\* capture.startStream spawns the thread and awaits its answer, unless the
\* thread cannot be spawned.
StartStream ==
  LET s == active
  IN  /\ Reading /\ s # None /\ phase[s] = "SessionRequested"
      /\ \/ /\ call' = [op |-> "start", s |-> s, at |-> "wait"]
            /\ phase' = [phase EXCEPT ![s] = "Streaming"]
            /\ sender' = [sender EXCEPT ![s] = "open"]
            /\ receiver' = [receiver EXCEPT ![s] = "open"]
            /\ ready' = [ready EXCEPT ![s] = "waiting"]
            /\ UNCHANGED <<quit, diag>>
         \/ /\ call' = [op |-> "start", s |-> s, at |-> "failed"]
            /\ Reset(s)
            /\ UNCHANGED <<sender, receiver, ready>>
      /\ UNCHANGED <<bound, conn, aborted, active, opened, loop, threadVars, events,
                     histVars, buffer, channel, enc, backendVars, exit>>

\* The future of start_stream is dropped, with the receivers that it holds.
DropStart(s) ==
  /\ CloseReceiver(s)
  /\ ready' = [ready EXCEPT ![s] = "none"]
  /\ events' = [events EXCEPT ![s] = <<>>]

\* An error, a thread that has gone, or ten seconds without an answer.
StreamFails ==
  LET s == call.s
  IN  /\ call.at = "wait" /\ ready[s] # "ok"
      /\ quit' = [quit EXCEPT ![s] = TRUE]
      /\ phase' = [phase EXCEPT ![s] = "Idle"]
      /\ At("failed")
      /\ DropStart(s)
      /\ UNCHANGED <<bound, conn, aborted, active, opened, loop, diag, threadVars,
                     histVars, sender, buffer, enc, backendVars, exit>>

\* startStream is answered with an error: the session is given up.
StartFails ==
  /\ call.at = "failed" /\ call' = NoCall
  /\ active' = IF phase[call.s] = "Idle" THEN None ELSE active
  /\ UNCHANGED <<bound, conn, aborted, opened, sourceVars, ready, threadVars, events,
                 histVars, sender, buffer, encVars>>

StreamReady_KeepsBuffer ==
  LET s == call.s
  IN  /\ call.at = "wait" /\ ready[s] = "ok" /\ At("record")
      /\ ready' = [ready EXCEPT ![s] = "none"]
      /\ late' = IF \E r \in Session \ {s} : enc[r] \in {"clear", "probe", "install"}
                 THEN late \cup {s} ELSE late
      /\ UNCHANGED <<bound, conn, aborted, active, opened, sourceVars, threadVars, events,
                     frames, faults, rejected, sender, buffer, encVars>>

\* The buffer of a former session is evicted, then readiness advertised.
StreamReady ==
  LET s == call.s
  IN  /\ call.at = "wait" /\ ready[s] = "ok" /\ At("record")
      /\ buffer' = None /\ ready' = [ready EXCEPT ![s] = "none"]
      /\ late' = IF \E r \in Session \ {s} : enc[r] \in {"clear", "probe", "install"}
                 THEN late \cup {s} ELSE late
      /\ UNCHANGED <<bound, conn, aborted, active, opened, sourceVars, threadVars, events,
                     frames, faults, rejected, sender, encVars>>

SetRecording ==
  /\ call.at = "record" /\ At("tasks")
  /\ phase' = [phase EXCEPT ![call.s] = "Recording"]
  /\ UNCHANGED <<bound, conn, aborted, active, opened, quit, loop, diag, ready,
                 threadVars, events, histVars, sender, buffer, encVars>>

\* The loop of diagnostics, the encoder task and the event loop are spawned.
SpawnTasks ==
  LET s == call.s
  IN  /\ call.at = "tasks" /\ call' = NoCall
      /\ diag' = [diag EXCEPT ![s] = "run"]
      /\ loop' = [loop EXCEPT ![s] = "run"]
      /\ Enc(s, "clear")
      /\ UNCHANGED <<bound, conn, aborted, active, opened, phase, quit, ready,
                     threadVars, events, histVars, sender, buffer, channel, receiver,
                     backendVars, exit>>

\* capture.stopSession
StopCapture ==
  /\ Reading /\ active # None
  /\ StopSession(active) /\ active' = None
  /\ UNCHANGED <<bound, conn, call, aborted, opened, loop, ready, threadVars, events,
                 histVars, sender, buffer, encVars>>

-----------------------------------------------------------------------------
(* The connection *)

\* The client goes, sends too much during a request, or shuts the helper down:
\* a request under way is cancelled.
ConnectionEnds ==
  /\ conn = "open"
  /\ conn' = IF call = NoCall THEN "cleanup" ELSE "ending"
  /\ UNCHANGED <<bound, call, aborted, active, opened, sourceVars, ready, threadVars,
                 events, histVars, sender, buffer, encVars>>

\* It has five seconds to end, and is aborted when it awaits something longer
\* without a look at the cancellation: a portal session, the stream, or room
\* for an event that the client is too slow to read.
RequestEnds ==
  /\ conn = "ending" /\ conn' = "cleanup"
  /\ \/ call = NoCall /\ UNCHANGED aborted
     \/ call.at \in {"portal", "wait", "failed", "record"} /\ aborted' = TRUE
  /\ UNCHANGED <<bound, call, active, opened, sourceVars, ready, threadVars, events,
                 histVars, sender, buffer, encVars>>

\* An aborted task is dropped at its next await; until then it runs on.
AbortLands ==
  /\ aborted /\ call # NoCall
  /\ call' = NoCall
  /\ IF call.op = "start" /\ call.at # "failed" THEN DropStart(call.s)
     ELSE UNCHANGED <<channel, receiver, ready, events>>
  /\ UNCHANGED <<bound, conn, aborted, active, opened, sourceVars, threadVars, histVars, sender,
                 buffer, enc, backendVars, exit>>

Cleanup ==
  /\ conn = "cleanup" /\ conn' = "closed"
  /\ active' = None
  /\ IF active # None THEN StopSession(active) ELSE UNCHANGED <<phase, quit, diag>>
  /\ UNCHANGED <<bound, call, aborted, opened, loop, ready, threadVars, events,
                 histVars, sender, buffer, encVars>>

\* The writer has gone and with it the connection; by then an aborted task has
\* long been dropped.
Reconnect ==
  /\ conn = "closed" /\ call = NoCall
  /\ conn' = "open" /\ aborted' = FALSE
  /\ UNCHANGED <<bound, call, active, opened, sourceVars, ready, threadVars, events, histVars,
                 sender, buffer, encVars>>

-----------------------------------------------------------------------------
(* The PipeWire thread; its callbacks run until it has seen the quit flag *)

Running(s) == sender[s] = "open"

Least(m, n) == IF m < n THEN m ELSE n

\* The event loop, or the request that is to start it, holds the receiver.
Starting(s) == call.op = "start" /\ call.s = s /\ call.at # "failed"

Notify(s, event) ==
  IF loop[s] = "run" \/ Starting(s)
  THEN events' = [events EXCEPT ![s] = Append(@, event)] ELSE UNCHANGED events

\* The first answer is the one that counts.
Answer(s, how) == ready' = [ready EXCEPT ![s] = IF @ = "waiting" THEN how ELSE @]

Faulty == faults < bound.faults /\ faults' = faults + 1

threadFrame == <<connVars, sourceVars, buffer, receiver, enc, backendVars, exit>>

\* param_changed with a format that is supported. A change of format goes in
\* band, at once or before the next frame.
Negotiate(s) ==
  LET changed == streaming[s] /\ ready[s] # "waiting" /\ negotiated[s]
  IN  /\ Running(s) /\ format[s] < bound.formats
      /\ format' = [format EXCEPT ![s] = @ + 1]
      /\ negotiated' = [negotiated EXCEPT ![s] = TRUE]
      /\ IF streaming[s] THEN Answer(s, "ok") ELSE UNCHANGED ready
      /\ IF changed
         THEN /\ Notify(s, "format")
              /\ IF Room(s) THEN Enqueue(s, Marker) /\ UNCHANGED markerDue
                 ELSE markerDue' = [markerDue EXCEPT ![s] = TRUE] /\ UNCHANGED channel
         ELSE UNCHANGED <<events, channel, markerDue>>
      /\ UNCHANGED <<threadFrame, sender, streaming, histVars>>

\* param_changed with a format that is not.
Reject(s) ==
  /\ Running(s) /\ Faulty
  /\ negotiated' = [negotiated EXCEPT ![s] = FALSE]
  /\ rejected' = rejected \cup {s}
  /\ Answer(s, "failed")
  /\ IF ready[s] = "waiting" THEN UNCHANGED events ELSE Notify(s, "renegotiation")
  /\ UNCHANGED <<threadFrame, sender, channel, streaming, format, markerDue, frames, late>>

\* state_changed
StreamStarts(s) ==
  /\ Running(s) /\ ~streaming[s]
  /\ streaming' = [streaming EXCEPT ![s] = TRUE]
  /\ IF negotiated[s] THEN Answer(s, "ok") ELSE UNCHANGED ready
  /\ UNCHANGED <<threadFrame, sender, channel, negotiated, format, markerDue, events, histVars>>

\* The stream's error is an event; after signal_terminal_fail an answer too.
StreamError(s) ==
  /\ Running(s) /\ Faulty
  /\ Notify(s, "error")
  /\ quit' = [quit EXCEPT ![s] = TRUE]
  /\ Answer(s, "failed") \/ UNCHANGED ready
  /\ UNCHANGED <<connVars, phase, loop, diag, threadVars, frames, rejected, late,
                 sender, buffer, encVars>>

\* The thread's end drops its data, and the senders with it.
Ended(s) ==
  /\ sender' = [sender EXCEPT ![s] = "closed"]
  /\ Answer(s, "failed")
  /\ streaming' = [streaming EXCEPT ![s] = FALSE]
  /\ negotiated' = [negotiated EXCEPT ![s] = FALSE]
  /\ markerDue' = [markerDue EXCEPT ![s] = FALSE]

\* pw_thread_run cannot set the stream up.
SetupFails(s) ==
  /\ Running(s) /\ Faulty /\ format[s] = None /\ ~streaming[s] /\ ready[s] = "waiting"
  /\ Ended(s)
  /\ Notify(s, "error")
  /\ UNCHANGED <<threadFrame, channel, format, frames, rejected, late>>

Process_FrameFirst(s) ==
  /\ Running(s) /\ streaming[s] /\ Room(s)
  /\ frames < bound.frames /\ frames' = frames + 1
  /\ LET marked == IF markerDue[s] THEN <<Marker>> ELSE <<>>
         framed == IF negotiated[s] THEN <<format[s]>> ELSE <<>>
         sent   == channel[s] \o framed \o marked
     IN  channel' = [channel EXCEPT ![s] = SubSeq(sent, 1, Least(Len(sent), Capacity))]
  /\ markerDue' = [markerDue EXCEPT ![s] = FALSE]
  /\ UNCHANGED <<threadFrame, sender, streaming, negotiated, format, ready, events, faults,
                 rejected, late>>

\* process: a marker that is due goes first, and the frame is dropped when it
\* cannot; so is one that finds the channel full or closed.
Process(s) ==
  /\ Running(s) /\ streaming[s] /\ Room(s)
  /\ frames < bound.frames /\ frames' = frames + 1
  /\ LET marked == IF markerDue[s] THEN <<Marker>> ELSE <<>>
         framed == IF negotiated[s] THEN <<format[s]>> ELSE <<>>
         sent   == channel[s] \o marked \o framed
     IN  channel' = [channel EXCEPT ![s] = SubSeq(sent, 1, Least(Len(sent), Capacity))]
  /\ markerDue' = [markerDue EXCEPT ![s] = FALSE]
  /\ UNCHANGED <<threadFrame, sender, streaming, negotiated, format, ready, events, faults,
                 rejected, late>>

ThreadExits(s) ==
  /\ Running(s) /\ quit[s]
  /\ Ended(s)
  /\ UNCHANGED <<threadFrame, channel, format, events, histVars>>

ThreadStep(s) ==
  \/ Negotiate(s) \/ Reject(s) \/ StreamStarts(s) \/ StreamError(s) \/ SetupFails(s)
  \/ Process(s) \/ ThreadExits(s)

-----------------------------------------------------------------------------
(* The tasks of a session *)

taskFrame == <<connVars, ready, threadVars, histVars, sender, buffer, encVars>>

\* pw_event_loop takes an event: a change of format is passed on.
LoopTakes(s) ==
  /\ loop[s] = "run" /\ events[s] # <<>>
  /\ IF Head(events[s]) = "format" THEN UNCHANGED loop
     ELSE loop' = [loop EXCEPT ![s] = "reset"]
  /\ events' = [events EXCEPT ![s] = Tail(@)]
  /\ UNCHANGED <<taskFrame, phase, quit, diag>>

LoopResets_Forgets(s) ==
  /\ loop[s] = "reset"
  /\ loop' = [loop EXCEPT ![s] = "done"]
  /\ events' = [events EXCEPT ![s] = <<>>]
  /\ UNCHANGED <<taskFrame, phase, quit, diag>>

\* The client has been told that the session is lost.
LoopResets(s) ==
  /\ loop[s] = "reset"
  /\ Reset(s)
  /\ loop' = [loop EXCEPT ![s] = "done"]
  /\ events' = [events EXCEPT ![s] = <<>>]
  /\ UNCHANGED taskFrame

LoopEnds(s) ==
  /\ loop[s] = "run" /\ events[s] = <<>> /\ sender[s] = "closed"
  /\ loop' = [loop EXCEPT ![s] = "done"]
  /\ UNCHANGED <<taskFrame, events, phase, quit, diag>>

TaskStep(s) == LoopTakes(s) \/ LoopResets(s) \/ LoopEnds(s)

Encode(s) ==
  /\ EncoderStep(s)
  /\ UNCHANGED <<connVars, sourceVars, ready, threadVars, events, histVars, sender>>

-----------------------------------------------------------------------------
CallStep ==
  \/ PortalFails \/ PortalAnswers \/ InstallSession \/ StreamFails \/ StartFails
  \/ StreamReady \/ SetRecording \/ SpawnTasks

ConnectionStep == RequestEnds \/ AbortLands \/ Cleanup \/ Reconnect

Next ==
  \/ RequestSession \/ StartStream \/ StopCapture \/ ConnectionEnds
  \/ CallStep \/ ConnectionStep
  \/ \E s \in Session : ThreadStep(s) \/ TaskStep(s) \/ Encode(s)

Spec == Init /\ [][Next]_vars

\* Some task that can run does, waits have timeouts, and the portal flow ends
\* when it is cancelled; the user, the compositor and the client need do nothing.
Fairness ==
  /\ WF_vars(\/ CallStep /\ (call.at = "portal" => conn # "open")
             \/ \E s \in Session : ThreadExits(s) \/ TaskStep(s) \/ Encode(s))
  /\ WF_vars(RequestEnds \/ AbortLands \/ Cleanup)

FairSpec == Spec /\ Fairness

-----------------------------------------------------------------------------
(* Properties *)

\* The end of s is under way: its event loop has yet to reset it.
Ending(s) ==
  \/ loop[s] = "reset"
  \/ loop[s] = "run" /\ \E i \in DOMAIN events[s] : events[s][i] # "format"

\* No stream runs that nobody can stop, and a session that is shown as
\* recording is: its thread, its portal session and its loops run. Whatever
\* ends one of them must end the others, in start_stream, in the event loop
\* and in the cleanup of a connection.
StreamOwned ==
  \A s \in Session :
    /\ Running(s) /\ ~quit[s] => active = s
    /\ active = s /\ phase[s] = "Recording" /\ call = NoCall /\ conn = "open" /\ ~Ending(s)
         => Running(s) /\ ~quit[s] /\ PortalOpen(s) /\ loop[s] = "run" /\ DiagRuns(s)

\* While a session records, a save gets no other session's segments: the
\* promise at the head of the eviction in start_stream, which the code breaks
\* when a former session's encoder is slow.
SavesOwn ==
  \A s \in Session : active = s /\ phase[s] = "Recording" => buffer \in {None, s}

\* It holds, and a save gets the session's own segments once its encoder has
\* a buffer, when no former encoder was still to install one.
RightBuffer ==
  \A s \in Session :
    (active = s /\ phase[s] = "Recording" /\ s \notin late)
      => /\ buffer \in {None, s}
         /\ enc[s] \in {"configure", "run", "final", "finalize"} => buffer = s

\* The encoder never gets two frames of different formats without a marker
\* between them, however full the channel is when the format changes.
MarkerFirst ==
  \A s \in Session \ rejected :
    LET seen == <<last[s]>> \o channel[s]
    IN  \A i \in 1 .. Len(seen) - 1 :
          {seen[i], seen[i + 1]} \subseteq Format => seen[i] = seen[i + 1]

\* Its connection has ended, or nobody uses it any more.
GivenUp(s) ==
  /\ s <= opened
  /\ conn # "open" \/ (call.s # s /\ (active # s \/ phase[s] = "Idle"))

\* Nothing of it is left.
Over(s) ==
  /\ sender[s] # "open" /\ enc[s] \in {"none", "done"}
  /\ loop[s] \in {"none", "done"} /\ ~DiagRuns(s) /\ ~PortalOpen(s)

\* A session that has been given up ends on every side: the thread, the
\* encoder, the loops and the portal session, whoever gave it up. It stays
\* given up, so nothing of it is left for ever.
StopsAll == []<>(\A s \in Session : GivenUp(s) => Over(s))
=============================================================================
