------------------------ MODULE CaptureSession_proofs ------------------------
(* Proofs about capture sessions and their encoder tasks, for every number of *)
(* sessions and formats and every capacity.                                   *)
EXTENDS CaptureSession, SequenceTheorems, TLAPS

-----------------------------------------------------------------------------
(* The inductive invariant *)

\* Nothing has happened to a session whose thread was never started.
FreshInv ==
  \A s \in Session : sender[s] = "none" =>
    /\ ~quit[s] /\ ready[s] = "none" /\ loop[s] = "none" /\ diag[s] = "none"
    /\ ~streaming[s] /\ ~negotiated[s] /\ format[s] = None /\ ~markerDue[s]
    /\ events[s] = <<>> /\ channel[s] = <<>> /\ enc[s] = "none"

\* The request under way: what it has of its session so far.
RequestInv ==
  \/ call = NoCall
  \/ /\ call.op = "request" /\ call.s \in Session /\ call.s <= opened /\ active = None
     /\ sender[call.s] = "none"
     /\ \/ call.at = "portal" /\ phase[call.s] = "Idle"
        \/ call.at = "requested" /\ phase[call.s] = "SessionRequested"
  \/ /\ call.op = "start" /\ call.s \in Session /\ active \in {call.s, None}
     /\ \/ call.at = "failed" /\ phase[call.s] = "Idle"
        \/ /\ call.at \in {"wait", "record", "tasks"} /\ phase[call.s] # "SessionRequested"
           /\ sender[call.s] # "none" /\ loop[call.s] = "none" /\ enc[call.s] = "none"

\* The connection and the sessions it has made.
ConnInv ==
  /\ conn = "closed" => active = None
  /\ aborted => conn \in {"cleanup", "closed"}
  /\ \A s \in Session :
       /\ s > opened => sender[s] = "none" /\ phase[s] = "Idle" /\ active # s
       /\ phase[s] = "SessionRequested" => sender[s] = "none"
       /\ ready[s] # "none" => call.s = s /\ call.at = "wait"

\* A thread that nobody has told to end is that of the active session.
ThreadInv ==
  \A s \in Session : Running(s) /\ ~quit[s] => active = s /\ phase[s] # "Idle"

Bad(s) == \E i \in DOMAIN events[s] : events[s][i] # "format"

\* A session that starts, or records, has a thread that nobody has told to end,
\* or the news of its end is there.
NewsInv ==
  conn = "open" =>
    /\ call.at \in {"wait", "record", "tasks"} =>
         active = call.s /\ (Bad(call.s) \/ (Running(call.s) /\ ~quit[call.s]))
    /\ \A s \in Session : active = s /\ phase[s] = "Recording" /\ call.s # s =>
         /\ diag[s] = "run" /\ loop[s] \in {"run", "reset"}
         /\ loop[s] = "reset" \/ Bad(s) \/ (Running(s) /\ ~quit[s])

\* The encoder has touched nothing before it runs.
EncInv ==
  /\ FragmentsKept
  /\ \A s \in Session :
       /\ enc[s] \notin {"run", "final", "finalize", "done"}
            => last[s] = Marker /\ held[s] = 0 /\ pending[s] = <<>>
       /\ exit[s] = "ended" => enc[s] = "finalize"

\* Frames of one format follow each other, after l as well.
Steady(l, c) ==
  /\ c # <<>> => ({l, c[1]} \subseteq Format => l = c[1])
  /\ \A i \in 1 .. Len(c) - 1 : {c[i], c[i + 1]} \subseteq Format => c[i] = c[i + 1]

\* What the next frame is compared with.
LastIn(l, c) == IF c = <<>> THEN l ELSE c[Len(c)]

\* Before a stream runs in a format that is known, the channel has no frames.
MarkerOK(s) ==
  /\ Steady(last[s], channel[s])
  /\ Running(s) =>
       /\ receiver[s] = "open" =>
            LastIn(last[s], channel[s]) \in {Marker, format[s]} \/ markerDue[s]
       /\ ~streaming[s] \/ ~negotiated[s] =>
            last[s] = Marker /\ \A i \in DOMAIN channel[s] : channel[s][i] = Marker
       /\ streaming[s] /\ negotiated[s] => ready[s] # "waiting"

MarkerInv == \A s \in Session \ rejected : MarkerOK(s)

\* No former encoder is still to install its buffer.
Settled(s) == \/ call.s = s /\ call.at \in {"record", "tasks"}
              \/ active = s /\ phase[s] = "Recording"

SlotInv ==
  \A s \in Session \ late : Settled(s) =>
    /\ \A r \in Session \ {s} : enc[r] \notin {"clear", "probe", "install"}
    /\ buffer \in {None, s}
    /\ enc[s] \in {"configure", "run", "final", "finalize"} => buffer = s

-----------------------------------------------------------------------------
(* The types, by those who move what has them *)

SlotTypes ==
  /\ buffer \in Session \cup {None} /\ channel \in [Session -> Seq(Item)]
  /\ receiver \in [Session -> {"none", "open", "closed"}]
  /\ enc \in [Session -> {"none", "clear", "probe", "install", "configure", "run",
                          "final", "finalize", "discard", "done"}]
  /\ exit \in [Session -> {"none", "ended", "error"}]

WorkTypes ==
  /\ last \in [Session -> Item]
  /\ held \in [Session -> Nat] /\ produced \in [Session -> Nat] /\ stalled \in [Session -> Nat]
  /\ pending \in [Session -> Seq(Nat)] /\ sink \in [Session -> Seq(Nat)]

ConnTypes ==
  /\ conn \in {"open", "ending", "cleanup", "closed"} /\ call \in Calls /\ aborted \in BOOLEAN
  /\ active \in Session \cup {None} /\ opened \in Session \cup {None}

SourceTypes ==
  /\ sender \in [Session -> {"none", "open", "closed"}]
  /\ phase \in [Session -> {"Idle", "SessionRequested", "Streaming", "Recording"}]
  /\ quit \in [Session -> BOOLEAN] /\ diag \in [Session -> {"none", "run", "cancelled"}]
  /\ loop \in [Session -> {"none", "run", "reset", "done"}]

ThreadTypes ==
  /\ ready \in [Session -> {"none", "waiting", "ok", "failed"}]
  /\ events \in [Session -> Seq({"format", "error", "renegotiation"})]
  /\ format \in [Session -> Format \cup {None}] /\ streaming \in [Session -> BOOLEAN]
  /\ negotiated \in [Session -> BOOLEAN] /\ markerDue \in [Session -> BOOLEAN]

HistTypes ==
  /\ bound \in Bounds /\ frames \in 0 .. bound.frames /\ faults \in 0 .. bound.faults
  /\ rejected \subseteq Session /\ late \subseteq Session

Typed == SlotTypes /\ WorkTypes /\ ConnTypes /\ SourceTypes /\ ThreadTypes /\ HistTypes

\* StartStream keeps the types.
LEMMA StartStreamTyped ==
  ASSUME Typed, RequestInv, StartStream
  PROVE  Typed'
<1>1. SlotTypes'
  BY EncoderAssumption, BoundsAssumption DEF Typed, SlotTypes, StartStream
<1>2. WorkTypes'
  BY DEF Typed, WorkTypes, StartStream, backendVars
<1>3. ConnTypes'
  BY EncoderAssumption, BoundsAssumption DEF Typed, ConnTypes, Calls, StartStream
<1>4. SourceTypes'
  BY EncoderAssumption, BoundsAssumption DEF Typed, SourceTypes, ConnTypes, StartStream, Reset
<1>5. ThreadTypes'
  BY EncoderAssumption, BoundsAssumption DEF Typed, ThreadTypes, StartStream, threadVars
<1>6. HistTypes'
  BY DEF Typed, HistTypes, StartStream, histVars
<1> QED BY <1>1, <1>2, <1>3, <1>4, <1>5, <1>6 DEF Typed

\* StopCapture keeps the types.
LEMMA StopCaptureTyped ==
  ASSUME Typed, RequestInv, StopCapture
  PROVE  Typed'
<1>1. SlotTypes'
  BY DEF Typed, SlotTypes, StopCapture, encVars
<1>2. WorkTypes'
  BY DEF Typed, WorkTypes, StopCapture, encVars, backendVars
<1>3. ConnTypes'
  BY EncoderAssumption, BoundsAssumption DEF Typed, ConnTypes, StopCapture
<1>4. SourceTypes'
  BY EncoderAssumption, BoundsAssumption DEF Typed, SourceTypes, StopCapture, StopSession,
     Reset
<1>5. ThreadTypes'
  BY DEF Typed, ThreadTypes, StopCapture, threadVars
<1>6. HistTypes'
  BY DEF Typed, HistTypes, StopCapture, histVars
<1> QED BY <1>1, <1>2, <1>3, <1>4, <1>5, <1>6 DEF Typed

\* ConnectionEnds keeps the types.
LEMMA ConnectionEndsTyped ==
  ASSUME Typed, RequestInv, ConnectionEnds
  PROVE  Typed'
<1>1. SlotTypes'
  BY DEF Typed, SlotTypes, ConnectionEnds, encVars
<1>2. WorkTypes'
  BY DEF Typed, WorkTypes, ConnectionEnds, encVars, backendVars
<1>3. ConnTypes'
  BY EncoderAssumption, BoundsAssumption DEF Typed, ConnTypes, ConnectionEnds
<1>4. SourceTypes'
  BY DEF Typed, SourceTypes, ConnectionEnds, sourceVars
<1>5. ThreadTypes'
  BY DEF Typed, ThreadTypes, ConnectionEnds, threadVars
<1>6. HistTypes'
  BY DEF Typed, HistTypes, ConnectionEnds, histVars
<1> QED BY <1>1, <1>2, <1>3, <1>4, <1>5, <1>6 DEF Typed

\* PortalFails keeps the types.
LEMMA PortalFailsTyped ==
  ASSUME Typed, RequestInv, PortalFails
  PROVE  Typed'
<1>1. SlotTypes'
  BY DEF Typed, SlotTypes, PortalFails, encVars
<1>2. WorkTypes'
  BY DEF Typed, WorkTypes, PortalFails, encVars, backendVars
<1>3. ConnTypes'
  BY EncoderAssumption, BoundsAssumption DEF Typed, ConnTypes, NoCall, Calls, PortalFails
<1>4. SourceTypes'
  BY DEF Typed, SourceTypes, PortalFails, sourceVars
<1>5. ThreadTypes'
  BY DEF Typed, ThreadTypes, PortalFails, threadVars
<1>6. HistTypes'
  BY DEF Typed, HistTypes, PortalFails, histVars
<1> QED BY <1>1, <1>2, <1>3, <1>4, <1>5, <1>6 DEF Typed

\* PortalAnswers keeps the types.
LEMMA PortalAnswersTyped ==
  ASSUME Typed, RequestInv, PortalAnswers
  PROVE  Typed'
<1>1. SlotTypes'
  BY DEF Typed, SlotTypes, PortalAnswers, encVars
<1>2. WorkTypes'
  BY DEF Typed, WorkTypes, PortalAnswers, encVars, backendVars
<1>3. ConnTypes'
  BY EncoderAssumption, BoundsAssumption DEF Typed, ConnTypes, Calls, PortalAnswers, At
<1>4. SourceTypes'
  BY EncoderAssumption, BoundsAssumption DEF Typed, SourceTypes, PortalAnswers, At
<1>5. ThreadTypes'
  BY DEF Typed, ThreadTypes, PortalAnswers, threadVars
<1>6. HistTypes'
  BY DEF Typed, HistTypes, PortalAnswers, histVars
<1> QED BY <1>1, <1>2, <1>3, <1>4, <1>5, <1>6 DEF Typed

\* InstallSession keeps the types.
LEMMA InstallSessionTyped ==
  ASSUME Typed, RequestInv, InstallSession
  PROVE  Typed'
<1>1. SlotTypes'
  BY DEF Typed, SlotTypes, InstallSession, encVars
<1>2. WorkTypes'
  BY DEF Typed, WorkTypes, InstallSession, encVars, backendVars
<1>3. ConnTypes'
  BY EncoderAssumption, BoundsAssumption DEF Typed, ConnTypes, NoCall, Calls, InstallSession
<1>4. SourceTypes'
  BY EncoderAssumption, BoundsAssumption DEF Typed, SourceTypes, RequestInv, NoCall,
     InstallSession, StopSession, Reset
<1>5. ThreadTypes'
  BY DEF Typed, ThreadTypes, InstallSession, threadVars
<1>6. HistTypes'
  BY DEF Typed, HistTypes, InstallSession, histVars
<1> QED BY <1>1, <1>2, <1>3, <1>4, <1>5, <1>6 DEF Typed

\* StreamFails keeps the types.
LEMMA StreamFailsTyped ==
  ASSUME Typed, RequestInv, StreamFails
  PROVE  Typed'
<1>1. SlotTypes'
  BY EncoderAssumption, BoundsAssumption DEF Typed, SlotTypes, RequestInv, NoCall,
     StreamFails, At, DropStart, CloseReceiver
<1>2. WorkTypes'
  BY DEF Typed, WorkTypes, StreamFails, backendVars
<1>3. ConnTypes'
  BY EncoderAssumption, BoundsAssumption DEF Typed, ConnTypes, Calls, StreamFails, At,
     DropStart
<1>4. SourceTypes'
  BY EncoderAssumption, BoundsAssumption DEF Typed, SourceTypes, StreamFails, At, DropStart
<1>5. ThreadTypes'
  BY EncoderAssumption, BoundsAssumption DEF Typed, ThreadTypes, RequestInv, NoCall,
     StreamFails, At, DropStart, threadVars
<1>6. HistTypes'
  BY DEF Typed, HistTypes, StreamFails, histVars
<1> QED BY <1>1, <1>2, <1>3, <1>4, <1>5, <1>6 DEF Typed

\* StartFails keeps the types.
LEMMA StartFailsTyped ==
  ASSUME Typed, RequestInv, StartFails
  PROVE  Typed'
<1>1. SlotTypes'
  BY DEF Typed, SlotTypes, StartFails, encVars
<1>2. WorkTypes'
  BY DEF Typed, WorkTypes, StartFails, encVars, backendVars
<1>3. ConnTypes'
  BY EncoderAssumption, BoundsAssumption DEF Typed, ConnTypes, NoCall, Calls, StartFails
<1>4. SourceTypes'
  BY DEF Typed, SourceTypes, StartFails, sourceVars
<1>5. ThreadTypes'
  BY DEF Typed, ThreadTypes, StartFails, threadVars
<1>6. HistTypes'
  BY DEF Typed, HistTypes, StartFails, histVars
<1> QED BY <1>1, <1>2, <1>3, <1>4, <1>5, <1>6 DEF Typed

\* StreamReady keeps the types.
LEMMA StreamReadyTyped ==
  ASSUME Typed, RequestInv, StreamReady
  PROVE  Typed'
<1>1. SlotTypes'
  BY EncoderAssumption, BoundsAssumption DEF Typed, SlotTypes, StreamReady, At, encVars
<1>2. WorkTypes'
  BY DEF Typed, WorkTypes, StreamReady, encVars, backendVars
<1>3. ConnTypes'
  BY EncoderAssumption, BoundsAssumption DEF Typed, ConnTypes, Calls, StreamReady, At
<1>4. SourceTypes'
  BY DEF Typed, SourceTypes, StreamReady, sourceVars
<1>5. ThreadTypes'
  BY EncoderAssumption, BoundsAssumption DEF Typed, ThreadTypes, StreamReady, At, threadVars
<1>6. HistTypes'
  BY EncoderAssumption, BoundsAssumption DEF Typed, HistTypes, RequestInv, NoCall,
     StreamReady, At
<1> QED BY <1>1, <1>2, <1>3, <1>4, <1>5, <1>6 DEF Typed

\* SetRecording keeps the types.
LEMMA SetRecordingTyped ==
  ASSUME Typed, RequestInv, SetRecording
  PROVE  Typed'
<1>1. SlotTypes'
  BY DEF Typed, SlotTypes, SetRecording, encVars
<1>2. WorkTypes'
  BY DEF Typed, WorkTypes, SetRecording, encVars, backendVars
<1>3. ConnTypes'
  BY EncoderAssumption, BoundsAssumption DEF Typed, ConnTypes, Calls, SetRecording, At
<1>4. SourceTypes'
  BY EncoderAssumption, BoundsAssumption DEF Typed, SourceTypes, SetRecording, At
<1>5. ThreadTypes'
  BY DEF Typed, ThreadTypes, SetRecording, threadVars
<1>6. HistTypes'
  BY DEF Typed, HistTypes, SetRecording, histVars
<1> QED BY <1>1, <1>2, <1>3, <1>4, <1>5, <1>6 DEF Typed

\* SpawnTasks keeps the types.
LEMMA SpawnTasksTyped ==
  ASSUME Typed, RequestInv, SpawnTasks
  PROVE  Typed'
<1>1. SlotTypes'
  BY EncoderAssumption, BoundsAssumption DEF Typed, SlotTypes, SpawnTasks, Enc
<1>2. WorkTypes'
  BY DEF Typed, WorkTypes, SpawnTasks, backendVars
<1>3. ConnTypes'
  BY EncoderAssumption, BoundsAssumption DEF Typed, ConnTypes, NoCall, Calls, SpawnTasks
<1>4. SourceTypes'
  BY EncoderAssumption, BoundsAssumption DEF Typed, SourceTypes, SpawnTasks
<1>5. ThreadTypes'
  BY DEF Typed, ThreadTypes, SpawnTasks, threadVars
<1>6. HistTypes'
  BY DEF Typed, HistTypes, SpawnTasks, histVars
<1> QED BY <1>1, <1>2, <1>3, <1>4, <1>5, <1>6 DEF Typed

\* RequestEnds keeps the types.
LEMMA RequestEndsTyped ==
  ASSUME Typed, RequestInv, RequestEnds
  PROVE  Typed'
<1>1. SlotTypes'
  BY DEF Typed, SlotTypes, RequestEnds, encVars
<1>2. WorkTypes'
  BY DEF Typed, WorkTypes, RequestEnds, encVars, backendVars
<1>3. ConnTypes'
  BY EncoderAssumption, BoundsAssumption DEF Typed, ConnTypes, RequestEnds
<1>4. SourceTypes'
  BY DEF Typed, SourceTypes, RequestEnds, sourceVars
<1>5. ThreadTypes'
  BY DEF Typed, ThreadTypes, RequestEnds, threadVars
<1>6. HistTypes'
  BY DEF Typed, HistTypes, RequestEnds, histVars
<1> QED BY <1>1, <1>2, <1>3, <1>4, <1>5, <1>6 DEF Typed

\* Cleanup keeps the types.
LEMMA CleanupTyped ==
  ASSUME Typed, RequestInv, Cleanup
  PROVE  Typed'
<1>1. SlotTypes'
  BY DEF Typed, SlotTypes, Cleanup, encVars
<1>2. WorkTypes'
  BY DEF Typed, WorkTypes, Cleanup, encVars, backendVars
<1>3. ConnTypes'
  BY EncoderAssumption, BoundsAssumption DEF Typed, ConnTypes, Cleanup
<1>4. SourceTypes'
  BY EncoderAssumption, BoundsAssumption DEF Typed, SourceTypes, ConnTypes, Cleanup,
     StopSession, Reset
<1>5. ThreadTypes'
  BY DEF Typed, ThreadTypes, Cleanup, threadVars
<1>6. HistTypes'
  BY DEF Typed, HistTypes, Cleanup, histVars
<1> QED BY <1>1, <1>2, <1>3, <1>4, <1>5, <1>6 DEF Typed

\* Reconnect keeps the types.
LEMMA ReconnectTyped ==
  ASSUME Typed, RequestInv, Reconnect
  PROVE  Typed'
<1>1. SlotTypes'
  BY DEF Typed, SlotTypes, Reconnect, encVars
<1>2. WorkTypes'
  BY DEF Typed, WorkTypes, Reconnect, encVars, backendVars
<1>3. ConnTypes'
  BY EncoderAssumption, BoundsAssumption DEF Typed, ConnTypes, Reconnect
<1>4. SourceTypes'
  BY DEF Typed, SourceTypes, Reconnect, sourceVars
<1>5. ThreadTypes'
  BY DEF Typed, ThreadTypes, Reconnect, threadVars
<1>6. HistTypes'
  BY DEF Typed, HistTypes, Reconnect, histVars
<1> QED BY <1>1, <1>2, <1>3, <1>4, <1>5, <1>6 DEF Typed

\* StreamStarts keeps the types.
LEMMA StreamStartsTyped ==
  ASSUME Typed, RequestInv, NEW s \in Session, StreamStarts(s)
  PROVE  Typed'
<1>1. SlotTypes'
  BY DEF Typed, SlotTypes, StreamStarts, threadFrame
<1>2. WorkTypes'
  BY DEF Typed, WorkTypes, StreamStarts, threadFrame, backendVars
<1>3. ConnTypes'
  BY DEF Typed, ConnTypes, StreamStarts, threadFrame, connVars
<1>4. SourceTypes'
  BY DEF Typed, SourceTypes, StreamStarts, threadFrame, sourceVars
<1>5. ThreadTypes'
  BY EncoderAssumption, BoundsAssumption DEF Typed, ThreadTypes, StreamStarts, Answer,
     histVars, sourceVars, backendVars
<1>6. HistTypes'
  BY DEF Typed, HistTypes, StreamStarts, histVars, threadFrame, connVars
<1> QED BY <1>1, <1>2, <1>3, <1>4, <1>5, <1>6 DEF Typed

\* ThreadExits keeps the types.
LEMMA ThreadExitsTyped ==
  ASSUME Typed, RequestInv, NEW s \in Session, ThreadExits(s)
  PROVE  Typed'
<1>1. SlotTypes'
  BY DEF Typed, SlotTypes, ThreadExits, histVars, threadFrame, connVars, sourceVars,
     backendVars
<1>2. WorkTypes'
  BY DEF Typed, WorkTypes, ThreadExits, histVars, threadFrame, connVars, sourceVars,
     backendVars
<1>3. ConnTypes'
  BY DEF Typed, ConnTypes, ThreadExits, histVars, threadFrame, connVars, sourceVars,
     backendVars
<1>4. SourceTypes'
  BY EncoderAssumption, BoundsAssumption DEF Typed, SourceTypes, ConnTypes, RequestInv,
     NoCall, Calls, ThreadExits, Ended, Answer, histVars, threadFrame, connVars, sourceVars,
     backendVars
<1>5. ThreadTypes'
  BY EncoderAssumption, BoundsAssumption DEF Typed, ThreadTypes, ConnTypes, RequestInv,
     NoCall, Calls, ThreadExits, Ended, Answer, histVars, threadFrame, connVars, sourceVars,
     backendVars
<1>6. HistTypes'
  BY DEF Typed, HistTypes, ThreadExits, histVars, threadFrame, connVars, sourceVars,
     backendVars
<1> QED BY <1>1, <1>2, <1>3, <1>4, <1>5, <1>6 DEF Typed

\* LoopTakes keeps the types.
LEMMA LoopTakesTyped ==
  ASSUME Typed, RequestInv, NEW s \in Session, LoopTakes(s)
  PROVE  Typed'
<1>1. SlotTypes'
  BY DEF Typed, SlotTypes, LoopTakes, taskFrame, encVars
<1>2. WorkTypes'
  BY DEF Typed, WorkTypes, LoopTakes, taskFrame, encVars, backendVars
<1>3. ConnTypes'
  BY DEF Typed, ConnTypes, LoopTakes, taskFrame, connVars
<1>4. SourceTypes'
  BY EncoderAssumption, BoundsAssumption DEF Typed, SourceTypes, LoopTakes, taskFrame
<1>5. ThreadTypes'
  BY EncoderAssumption, BoundsAssumption DEF Typed, ThreadTypes, LoopTakes, taskFrame,
     threadVars
<1>6. HistTypes'
  BY DEF Typed, HistTypes, LoopTakes, taskFrame, connVars, histVars
<1> QED BY <1>1, <1>2, <1>3, <1>4, <1>5, <1>6 DEF Typed

\* LoopResets keeps the types.
LEMMA LoopResetsTyped ==
  ASSUME Typed, RequestInv, NEW s \in Session, LoopResets(s)
  PROVE  Typed'
<1>1. SlotTypes'
  BY DEF Typed, SlotTypes, LoopResets, taskFrame, encVars
<1>2. WorkTypes'
  BY DEF Typed, WorkTypes, LoopResets, taskFrame, encVars, backendVars
<1>3. ConnTypes'
  BY DEF Typed, ConnTypes, LoopResets, taskFrame, connVars
<1>4. SourceTypes'
  BY EncoderAssumption, BoundsAssumption DEF Typed, SourceTypes, LoopResets, Reset, taskFrame
<1>5. ThreadTypes'
  BY EncoderAssumption, BoundsAssumption DEF Typed, ThreadTypes, LoopResets, taskFrame,
     threadVars
<1>6. HistTypes'
  BY DEF Typed, HistTypes, LoopResets, taskFrame, connVars, histVars
<1> QED BY <1>1, <1>2, <1>3, <1>4, <1>5, <1>6 DEF Typed

\* LoopEnds keeps the types.
LEMMA LoopEndsTyped ==
  ASSUME Typed, RequestInv, NEW s \in Session, LoopEnds(s)
  PROVE  Typed'
<1>1. SlotTypes'
  BY DEF Typed, SlotTypes, LoopEnds, taskFrame, encVars
<1>2. WorkTypes'
  BY DEF Typed, WorkTypes, LoopEnds, taskFrame, encVars, backendVars
<1>3. ConnTypes'
  BY DEF Typed, ConnTypes, LoopEnds, taskFrame, connVars
<1>4. SourceTypes'
  BY EncoderAssumption, BoundsAssumption DEF Typed, SourceTypes, LoopEnds, taskFrame
<1>5. ThreadTypes'
  BY DEF Typed, ThreadTypes, LoopEnds, taskFrame, threadVars
<1>6. HistTypes'
  BY DEF Typed, HistTypes, LoopEnds, taskFrame, connVars, histVars
<1> QED BY <1>1, <1>2, <1>3, <1>4, <1>5, <1>6 DEF Typed

\* ClearBuffer keeps the types.
LEMMA ClearBufferTyped ==
  ASSUME SlotTypes, WorkTypes, NEW s \in Session, ClearBuffer(s)
  PROVE  SlotTypes' /\ WorkTypes'
<1>1. SlotTypes'
  BY EncoderAssumption DEF SlotTypes, ClearBuffer, Enc
<1>2. WorkTypes'
  BY DEF WorkTypes, ClearBuffer, Enc, backendVars
<1> QED BY <1>1, <1>2

\* Probe keeps the types.
LEMMA ProbeTyped ==
  ASSUME SlotTypes, WorkTypes, NEW s \in Session, Probe(s)
  PROVE  SlotTypes' /\ WorkTypes'
<1>1. SlotTypes'
  BY EncoderAssumption DEF SlotTypes, Probe, Enc
<1>2. WorkTypes'
  BY DEF WorkTypes, Probe, Enc, backendVars
<1> QED BY <1>1, <1>2

\* InstallBuffer keeps the types.
LEMMA InstallBufferTyped ==
  ASSUME SlotTypes, WorkTypes, NEW s \in Session, InstallBuffer(s)
  PROVE  SlotTypes' /\ WorkTypes'
<1>1. SlotTypes'
  BY EncoderAssumption DEF SlotTypes, InstallBuffer, Enc
<1>2. WorkTypes'
  BY DEF WorkTypes, InstallBuffer, Enc, backendVars
<1> QED BY <1>1, <1>2

\* StreamEnded keeps the types.
LEMMA StreamEndedTyped ==
  ASSUME SlotTypes, WorkTypes, NEW s \in Session, StreamEnded(s)
  PROVE  SlotTypes' /\ WorkTypes'
<1>1. SlotTypes'
  BY EncoderAssumption DEF SlotTypes, StreamEnded, Enc
<1>2. WorkTypes'
  BY DEF WorkTypes, StreamEnded, Enc, backendVars
<1> QED BY <1>1, <1>2

\* The request under way has a session, and what it is called says how far it can be.
LEMMA RequestHas ==
  ASSUME RequestInv, call # NoCall
  PROVE  /\ call.s \in Session
         /\ call.at \in {"portal", "requested", "wait", "failed", "record", "tasks"}
         /\ call.at \in {"portal", "requested"} <=> call.op = "request"
         /\ call.at \notin {"portal", "requested"} <=> call.op = "start"
BY DEF RequestInv

\* Who is answered, told or taken from has what it had the type of.
LEMMA AnswerTyped ==
  ASSUME ThreadTypes, NEW s \in Session, NEW how \in {"ok", "failed"}, Answer(s, how)
  PROVE  ready' \in [Session -> {"none", "waiting", "ok", "failed"}]
BY DEF ThreadTypes, Answer

\* Notify keeps the types.
LEMMA NotifyTyped ==
  ASSUME ThreadTypes, NEW s \in Session, NEW event \in {"format", "error", "renegotiation"},
         Notify(s, event)
  PROVE  events' \in [Session -> Seq({"format", "error", "renegotiation"})]
<1>1. Append(events[s], event) \in Seq({"format", "error", "renegotiation"})
  BY DEF ThreadTypes
<1> QED BY <1>1 DEF ThreadTypes, Notify

\* Drop keeps the types.
LEMMA DropTyped ==
  ASSUME SlotTypes, ThreadTypes, NEW s \in Session, DropStart(s)
  PROVE  /\ channel' \in [Session -> Seq(Item)]
         /\ receiver' \in [Session -> {"none", "open", "closed"}]
         /\ ready' \in [Session -> {"none", "waiting", "ok", "failed"}]
         /\ events' \in [Session -> Seq({"format", "error", "renegotiation"})]
BY DEF SlotTypes, ThreadTypes, DropStart, CloseReceiver

\* Close keeps the types.
LEMMA CloseTyped ==
  ASSUME SlotTypes, NEW s \in Session, CloseReceiver(s)
  PROVE  /\ channel' \in [Session -> Seq(Item)]
         /\ receiver' \in [Session -> {"none", "open", "closed"}]
BY DEF SlotTypes, CloseReceiver

\* Terminal keeps the types.
LEMMA TerminalTyped ==
  ASSUME SlotTypes, NEW s \in Session, Terminal(s), UNCHANGED buffer
  PROVE  SlotTypes'
<1>1. /\ channel' \in [Session -> Seq(Item)]
      /\ receiver' \in [Session -> {"none", "open", "closed"}]
  BY CloseTyped DEF Terminal
<1>2. enc' = [enc EXCEPT ![s] = "finalize"] /\ exit' = [exit EXCEPT ![s] = "error"]
  BY DEF Terminal, Enc
<1> QED BY <1>1, <1>2 DEF SlotTypes

\* The channel without its first item.
Takes(s) == channel[s] # <<>> /\ channel' = [channel EXCEPT ![s] = Tail(channel[s])]

\* Take keeps the types.
LEMMA TakeTyped ==
  ASSUME SlotTypes, NEW s \in Session, channel[s] # <<>>
  PROVE  /\ Head(channel[s]) \in Item /\ Tail(channel[s]) \in Seq(Item)
         /\ Takes(s) /\ UNCHANGED <<buffer, receiver, enc, exit>> => SlotTypes'
<1>1. channel[s] \in Seq(Item)
  BY DEF SlotTypes
<1>2. Head(channel[s]) \in Item /\ Tail(channel[s]) \in Seq(Item)
  BY <1>1
<1>3. Takes(s) => channel' \in [Session -> Seq(Item)]
  BY <1>2 DEF SlotTypes, Takes
<1> QED BY <1>2, <1>3 DEF SlotTypes

\* n fragments, the first of which follows what was produced.
LEMMA FragmentsAre ==
  ASSUME WorkTypes, NEW s \in Session, NEW n \in Nat
  PROVE  /\ Fragments(s, n) \in Seq(Nat) /\ Len(Fragments(s, n)) = n
         /\ \A i \in 1 .. n : Fragments(s, n)[i] = produced[s] + i
BY DEF WorkTypes, Fragments

\* Sequences of numbers, one after the other.
LEMMA ConcatsAssociate ==
  ASSUME NEW x \in Seq(Nat), NEW y \in Seq(Nat), NEW z \in Seq(Nat)
  PROVE  (x \o y) \o z = x \o (y \o z)
OBVIOUS

\* The two parts of a sequence after another one are that sequence.
LEMMA SplitAppends ==
  ASSUME NEW x \in Seq(Nat), NEW q \in Seq(Nat), NEW k \in 0 .. Len(q)
  PROVE  /\ x \o SubSeq(q, 1, k) \in Seq(Nat) /\ SubSeq(q, k + 1, Len(q)) \in Seq(Nat)
         /\ Len(SubSeq(q, k + 1, Len(q))) = Len(q) - k
         /\ (x \o SubSeq(q, 1, k)) \o SubSeq(q, k + 1, Len(q)) = x \o q
<1> DEFINE a == SubSeq(q, 1, k)
           b == SubSeq(q, k + 1, Len(q))
<1>1. a \in Seq(Nat) /\ b \in Seq(Nat) /\ Len(b) = Len(q) - k
  OBVIOUS
<1>2. a \o b = q
  <2>1. 1 \in 1 .. Len(q) + 1 /\ k \in 1 - 1 .. Len(q) /\ Len(q) \in k .. Len(q)
    OBVIOUS
  <2>2. SubSeq(q, 1, k) \o SubSeq(q, k + 1, Len(q)) = SubSeq(q, 1, Len(q))
    BY <2>1, ConcatAdjacentSubSeq, Zenon
  <2> QED BY <2>2, SubSeqFull, Zenon
<1> HIDE DEF a, b
<1>3. x \o a \in Seq(Nat)
  BY <1>1, ConcatProperties
<1>4. (x \o a) \o b = x \o (a \o b)
  BY <1>1, ConcatsAssociate
<1> QED BY <1>1, <1>2, <1>3, <1>4 DEF a, b

\* What a flush leaves and what it hands over.
LEMMA FlushGives ==
  ASSUME WorkTypes, NEW s \in Session, NEW q \in Seq(Nat), NEW k \in 0 .. Len(q), Flushed(s, q, k)
  PROVE  /\ sink' \in [Session -> Seq(Nat)] /\ pending' \in [Session -> Seq(Nat)]
         /\ sink'[s] \o pending'[s] = sink[s] \o q
         /\ Len(pending'[s]) = Len(q) - k
         /\ \A r \in Session \ {s} : sink'[r] = sink[r] /\ pending'[r] = pending[r]
<1> DEFINE b == SubSeq(q, k + 1, Len(q))
           x == sink[s] \o SubSeq(q, 1, k)
<1>1. sink[s] \in Seq(Nat)
  BY DEF WorkTypes
<1>2. x \in Seq(Nat) /\ b \in Seq(Nat) /\ Len(b) = Len(q) - k /\ x \o b = sink[s] \o q
  BY <1>1, SplitAppends
<1>3. sink' = [sink EXCEPT ![s] = x] /\ pending' = [pending EXCEPT ![s] = b]
  BY DEF Flushed, WorkTypes
<1> HIDE DEF x, b
<1>4. sink' \in [Session -> Seq(Nat)] /\ pending' \in [Session -> Seq(Nat)]
  BY <1>2, <1>3 DEF WorkTypes
<1>5. /\ sink'[s] = x /\ pending'[s] = b
      /\ \A r \in Session \ {s} : sink'[r] = sink[r] /\ pending'[r] = pending[r]
  BY <1>3 DEF WorkTypes
<1> QED BY <1>2, <1>4, <1>5

\* RequestSession keeps the types.
LEMMA RequestSessionTyped ==
  ASSUME Typed, RequestSession
  PROVE  Typed' /\ opened + 1 \in Session
<1>1. bound.sessions \in Session
  BY BoundsAssumption DEF Typed, HistTypes
<1>2. opened + 1 \in Session
  BY <1>1, EncoderAssumption DEF Typed, ConnTypes, RequestSession, Session, None
<1>3. ConnTypes'
  <2>1. call' \in Calls
    BY <1>2 DEF RequestSession, Calls
  <2> QED BY <1>2, <2>1 DEF Typed, ConnTypes, RequestSession
<1>4. SlotTypes'
  BY DEF Typed, SlotTypes, RequestSession, encVars
<1>5. WorkTypes'
  BY DEF Typed, WorkTypes, RequestSession, encVars, backendVars
<1>6. SourceTypes' /\ ThreadTypes'
  BY DEF Typed, SourceTypes, ThreadTypes, RequestSession, sourceVars, threadVars
<1>7. HistTypes'
  BY DEF Typed, HistTypes, RequestSession, histVars
<1> QED BY <1>2, <1>3, <1>4, <1>5, <1>6, <1>7 DEF Typed

\* AbortLands keeps the types.
LEMMA AbortLandsTyped ==
  ASSUME Typed, RequestInv, AbortLands
  PROVE  Typed'
<1>1. /\ channel' \in [Session -> Seq(Item)]
      /\ receiver' \in [Session -> {"none", "open", "closed"}]
      /\ ready' \in [Session -> {"none", "waiting", "ok", "failed"}]
      /\ events' \in [Session -> Seq({"format", "error", "renegotiation"})]
  <2>1. CASE call.op = "start" /\ call.at # "failed"
    <3>1. DropStart(call.s) /\ call.s \in Session
      BY <2>1, RequestHas DEF AbortLands
    <3> QED BY <3>1, DropTyped DEF Typed
  <2>2. CASE ~(call.op = "start" /\ call.at # "failed")
    BY <2>2 DEF AbortLands, Typed, SlotTypes, ThreadTypes
  <2> QED BY <2>1, <2>2
<1>2. SlotTypes'
  BY <1>1 DEF Typed, SlotTypes, AbortLands
<1>3. ThreadTypes'
  BY <1>1 DEF Typed, ThreadTypes, AbortLands, threadVars
<1>4. ConnTypes'
  BY DEF Typed, ConnTypes, AbortLands, NoCall, Calls
<1>5. WorkTypes'
  BY DEF Typed, WorkTypes, AbortLands, backendVars
<1>6. SourceTypes' /\ HistTypes'
  BY DEF Typed, SourceTypes, HistTypes, AbortLands, sourceVars, histVars
<1> QED BY <1>2, <1>3, <1>4, <1>5, <1>6 DEF Typed

\* What the thread of s leaves alone keeps its type.
LEMMA ThreadKeepsTypes ==
  ASSUME Typed, threadFrame' = threadFrame
  PROVE  /\ ConnTypes' /\ WorkTypes' /\ bound' \in Bounds
         /\ bound' = bound
         /\ buffer' = buffer /\ receiver' = receiver /\ enc' = enc /\ exit' = exit
         /\ channel' \in [Session -> Seq(Item)] => SlotTypes'
         /\ sender' \in [Session -> {"none", "open", "closed"}] => SourceTypes'
<1>1. ConnTypes' /\ bound' \in Bounds /\ bound' = bound
  BY DEF Typed, ConnTypes, HistTypes, threadFrame, connVars
<1>2. WorkTypes'
  BY DEF Typed, WorkTypes, threadFrame, backendVars
<1>3. buffer' = buffer /\ receiver' = receiver /\ enc' = enc /\ exit' = exit
  BY DEF threadFrame
<1>4. channel' \in [Session -> Seq(Item)] => SlotTypes'
  BY <1>3 DEF Typed, SlotTypes
<1>5. sender' \in [Session -> {"none", "open", "closed"}] => SourceTypes'
  BY DEF Typed, SourceTypes, threadFrame, sourceVars
<1> QED BY <1>1, <1>2, <1>3, <1>4, <1>5

\* Enqueue keeps the types.
LEMMA EnqueueTyped ==
  ASSUME SlotTypes, NEW s \in Session, NEW item \in Item, Enqueue(s, item)
  PROVE  channel' \in [Session -> Seq(Item)]
<1>1. Append(channel[s], item) \in Seq(Item)
  BY DEF SlotTypes
<1> QED BY <1>1 DEF SlotTypes, Enqueue

\* Negotiate keeps the types.
LEMMA NegotiateTyped ==
  ASSUME Typed, NEW s \in Session, Negotiate(s)
  PROVE  Typed'
<1> DEFINE changed == streaming[s] /\ ready[s] # "waiting" /\ negotiated[s]
<1>1. format' \in [Session -> Format \cup {None}]
  <2>1. bound.formats \in Format
    BY BoundsAssumption DEF Typed, HistTypes
  <2>2. format[s] + 1 \in Format
    BY <2>1, EncoderAssumption DEF Typed, ThreadTypes, Negotiate, Format, None
  <2>3. format' = [format EXCEPT ![s] = format[s] + 1]
    BY DEF Negotiate
  <2> QED BY <2>2, <2>3 DEF Typed, ThreadTypes
<1>2. ready' \in [Session -> {"none", "waiting", "ok", "failed"}]
  BY AnswerTyped DEF Typed, ThreadTypes, Negotiate
<1>3. events' \in [Session -> Seq({"format", "error", "renegotiation"})]
  BY NotifyTyped DEF Typed, ThreadTypes, Negotiate
<1>4. channel' \in [Session -> Seq(Item)]
  <2>1. Marker \in Item
    BY DEF Item
  <2> QED BY <2>1, EnqueueTyped DEF Typed, SlotTypes, Negotiate
<1>5. /\ negotiated' \in [Session -> BOOLEAN] /\ streaming' \in [Session -> BOOLEAN]
      /\ markerDue' \in [Session -> BOOLEAN]
  BY DEF Typed, ThreadTypes, Negotiate
<1>6. ThreadTypes'
  BY <1>1, <1>2, <1>3, <1>5 DEF ThreadTypes
<1>7. /\ threadFrame' = threadFrame /\ sender' = sender /\ frames' = frames /\ faults' = faults
      /\ rejected' = rejected /\ late' = late
  BY DEF Negotiate, histVars
<1>8. SlotTypes' /\ SourceTypes' /\ ConnTypes' /\ WorkTypes' /\ bound' = bound
  BY <1>4, <1>7, ThreadKeepsTypes DEF Typed, SourceTypes
<1>9. HistTypes'
  BY <1>7, <1>8 DEF Typed, HistTypes
<1> QED BY <1>6, <1>8, <1>9 DEF Typed

\* A fault is counted.
LEMMA FaultyTyped ==
  ASSUME HistTypes, Faulty, bound' = bound
  PROVE  faults' \in 0 .. bound'.faults
<1>1. bound.faults \in Nat
  BY BoundsAssumption DEF HistTypes
<1> QED BY <1>1 DEF HistTypes, Faulty

\* Reject keeps the types.
LEMMA RejectTyped ==
  ASSUME Typed, NEW s \in Session, Reject(s)
  PROVE  Typed'
<1>1. ready' \in [Session -> {"none", "waiting", "ok", "failed"}]
  BY AnswerTyped DEF Typed, Reject
<1>2. events' \in [Session -> Seq({"format", "error", "renegotiation"})]
  BY NotifyTyped DEF Typed, ThreadTypes, Reject
<1>3. ThreadTypes'
  BY <1>1, <1>2 DEF Typed, ThreadTypes, Reject
<1>4. /\ threadFrame' = threadFrame /\ sender' = sender /\ frames' = frames /\ channel' = channel
      /\ rejected' = rejected \cup {s} /\ late' = late /\ Faulty
  BY DEF Reject
<1>5. SlotTypes' /\ SourceTypes' /\ ConnTypes' /\ WorkTypes' /\ bound' = bound
  BY <1>4, ThreadKeepsTypes DEF Typed, SourceTypes, SlotTypes
<1>6. HistTypes'
  BY <1>4, <1>5, FaultyTyped DEF Typed, HistTypes
<1> QED BY <1>3, <1>5, <1>6 DEF Typed

\* StreamError keeps the types.
LEMMA StreamErrorTyped ==
  ASSUME Typed, NEW s \in Session, StreamError(s)
  PROVE  Typed'
<1>1. ready' \in [Session -> {"none", "waiting", "ok", "failed"}]
  BY AnswerTyped DEF Typed, ThreadTypes, StreamError
<1>2. events' \in [Session -> Seq({"format", "error", "renegotiation"})]
  BY NotifyTyped DEF Typed, StreamError
<1>3. ThreadTypes'
  BY <1>1, <1>2 DEF Typed, ThreadTypes, StreamError, threadVars
<1>4. ConnTypes' /\ bound' = bound
  BY DEF Typed, ConnTypes, StreamError, connVars
<1>5. SourceTypes'
  BY DEF Typed, SourceTypes, StreamError
<1>6. SlotTypes'
  BY DEF Typed, SlotTypes, StreamError, encVars
<1>7. WorkTypes'
  BY DEF Typed, WorkTypes, StreamError, encVars, backendVars
<1>8. Faulty /\ frames' = frames /\ rejected' = rejected /\ late' = late
  BY DEF StreamError
<1>9. HistTypes'
  BY <1>4, <1>8, FaultyTyped DEF Typed, HistTypes
<1> QED BY <1>3, <1>4, <1>5, <1>6, <1>7, <1>9 DEF Typed

\* SetupFails keeps the types.
LEMMA SetupFailsTyped ==
  ASSUME Typed, NEW s \in Session, SetupFails(s)
  PROVE  Typed'
<1>1. ready' \in [Session -> {"none", "waiting", "ok", "failed"}]
  BY AnswerTyped DEF Typed, SetupFails, Ended
<1>2. events' \in [Session -> Seq({"format", "error", "renegotiation"})]
  BY NotifyTyped DEF Typed, SetupFails
<1>3. ThreadTypes'
  BY <1>1, <1>2 DEF Typed, ThreadTypes, SetupFails, Ended
<1>4. /\ threadFrame' = threadFrame /\ frames' = frames /\ channel' = channel
      /\ rejected' = rejected /\ late' = late /\ Faulty
      /\ sender' \in [Session -> {"none", "open", "closed"}]
  BY DEF Typed, SourceTypes, SetupFails, Ended
<1>5. SlotTypes' /\ SourceTypes' /\ ConnTypes' /\ WorkTypes' /\ bound' = bound
  BY <1>4, ThreadKeepsTypes DEF Typed, SlotTypes
<1>6. HistTypes'
  BY <1>4, <1>5, FaultyTyped DEF Typed, HistTypes
<1> QED BY <1>3, <1>5, <1>6 DEF Typed

\* Process keeps the types.
LEMMA ProcessTyped ==
  ASSUME Typed, NEW s \in Session, Process(s)
  PROVE  Typed'
<1>1. PICK sent :
        /\ sent = channel[s] \o (IF markerDue[s] THEN <<Marker>> ELSE <<>>)
                  \o (IF negotiated[s] THEN <<format[s]>> ELSE <<>>)
        /\ channel' = [channel EXCEPT ![s] = SubSeq(sent, 1, Least(Len(sent), Capacity))]
  BY DEF Process
<1>2. sent \in Seq(Item)
  <2>1. channel[s] \in Seq(Item) /\ Marker \in Item /\ format[s] \in Item
    BY DEF Typed, SlotTypes, ThreadTypes, Item, Marker, None
  <2>2. (IF markerDue[s] THEN <<Marker>> ELSE <<>>) \in Seq(Item)
    BY <2>1
  <2>3. (IF negotiated[s] THEN <<format[s]>> ELSE <<>>) \in Seq(Item)
    BY <2>1
  <2> QED BY <1>1, <2>1, <2>2, <2>3, ConcatProperties
<1>3. SubSeq(sent, 1, Least(Len(sent), Capacity)) \in Seq(Item)
  <2>1. Least(Len(sent), Capacity) \in 0 .. Len(sent)
    BY <1>2, EncoderAssumption DEF Least
  <2> QED BY <1>2, <2>1
<1>4. channel' \in [Session -> Seq(Item)]
  BY <1>1, <1>3 DEF Typed, SlotTypes
<1>5. ThreadTypes'
  BY DEF Typed, ThreadTypes, Process
<1>6. /\ threadFrame' = threadFrame /\ sender' = sender /\ faults' = faults
      /\ rejected' = rejected /\ late' = late
      /\ frames < bound.frames /\ frames' = frames + 1
  BY DEF Process
<1>7. SlotTypes' /\ SourceTypes' /\ ConnTypes' /\ WorkTypes' /\ bound' = bound /\ bound' \in Bounds
  BY <1>4, <1>6, ThreadKeepsTypes DEF Typed, SourceTypes
<1>8. bound.frames \in Nat
  BY BoundsAssumption DEF Typed, HistTypes
<1>9. HistTypes'
  BY <1>6, <1>7, <1>8 DEF Typed, HistTypes
<1> QED BY <1>5, <1>7, <1>9 DEF Typed

-----------------------------------------------------------------------------
(* The encoder *)

Numbers(n) == [i \in 1 .. n |-> i]

\* What the invariant says of one encoder.
EncOK(s) ==
  /\ sink[s] \o pending[s] = Numbers(produced[s])
  /\ Len(pending[s]) > PendingCap => enc[s] \in {"final", "finalize", "done"}
  /\ exit[s] = "ended" => enc[s] = "finalize" /\ pending[s] = <<>> /\ held[s] = 0
  /\ enc[s] \notin {"run", "final", "finalize", "done"}
       => last[s] = Marker /\ held[s] = 0 /\ pending[s] = <<>>

\* The invariant of the encoders, one by one.
LEMMA EncOKIs == EncInv <=> \A s \in Session : EncOK(s)
BY DEF EncInv, FragmentsKept, EncOK, Numbers

\* Nothing that EncOK(r) speaks of changes.
SameEnc(r) ==
  /\ sink'[r] = sink[r] /\ pending'[r] = pending[r] /\ produced'[r] = produced[r]
  /\ enc'[r] = enc[r] /\ exit'[r] = exit[r] /\ held'[r] = held[r] /\ last'[r] = last[r]

\* An encoder of which nothing changes keeps its invariant,
LEMMA SameEncOK ==
  ASSUME NEW r \in Session, EncOK(r), SameEnc(r)
  PROVE  EncOK(r)'
BY DEF EncOK, SameEnc, Numbers

\* and so do all when it is shown for the one that moves.
LEMMA OneEncOK ==
  ASSUME EncInv, NEW s \in Session, EncOK(s)', \A r \in Session \ {s} : SameEnc(r)
  PROVE  EncInv'
<1>1. ASSUME NEW r \in Session
      PROVE  EncOK(r)'
  BY <1>1, SameEncOK, EncOKIs
<1>2. (\A r \in Session : EncOK(r))' => EncInv'
  BY DEF EncInv, FragmentsKept, EncOK, Numbers
<1> QED BY <1>1, <1>2

\* What the backend gives follows what it gave.
LEMMA NumbersGrow ==
  ASSUME WorkTypes, NEW s \in Session, NEW n \in Nat
  PROVE  /\ Numbers(produced[s]) \in Seq(Nat)
         /\ Numbers(produced[s]) \o Fragments(s, n) = Numbers(produced[s] + n)
<1> DEFINE p == produced[s]
           f == Fragments(s, n)
<1>1. p \in Nat
  BY DEF WorkTypes
<1>2. f \in Seq(Nat) /\ Len(f) = n /\ \A i \in 1 .. n : f[i] = p + i
  BY FragmentsAre
<1> HIDE DEF p, f
<1>3. \A m \in Nat : /\ Numbers(m) \in Seq(Nat) /\ Len(Numbers(m)) = m
                     /\ \A i \in 1 .. m : Numbers(m)[i] = i
  BY DEF Numbers
<1>4. /\ Numbers(p) \in Seq(Nat) /\ Len(Numbers(p)) = p /\ \A i \in 1 .. p : Numbers(p)[i] = i
  BY <1>1, <1>3
<1>5. /\ Numbers(p + n) \in Seq(Nat) /\ Len(Numbers(p + n)) = p + n
      /\ \A i \in 1 .. p + n : Numbers(p + n)[i] = i
  BY <1>1, <1>3
<1> HIDE DEF Numbers
<1>6. /\ Numbers(p) \o f \in Seq(Nat) /\ Len(Numbers(p) \o f) = p + n
      /\ \A i \in 1 .. p + n : (Numbers(p) \o f)[i] =
                                  IF i <= p THEN Numbers(p)[i] ELSE f[i - p]
  BY <1>1, <1>2, <1>4, ConcatProperties
<1>7. ASSUME NEW i \in 1 .. p + n
      PROVE  (Numbers(p) \o f)[i] = Numbers(p + n)[i]
  <2>1. CASE i <= p
    BY <1>1, <1>4, <1>5, <1>6, <2>1
  <2>2. CASE i > p
    <3>1. i - p \in 1 .. n /\ p + (i - p) = i
      BY <1>1, <2>2
    <3>2. f[i - p] = p + (i - p)
      BY <1>2, <3>1
    <3>3. (Numbers(p) \o f)[i] = f[i - p]
      BY <1>1, <1>6, <2>2
    <3>4. Numbers(p + n)[i] = i
      BY <1>5
    <3> QED BY <3>1, <3>2, <3>3, <3>4
  <2>3. i <= p \/ i > p
    BY <1>1
  <2> QED BY <2>1, <2>2, <2>3
<1>8. Numbers(p) \o f = Numbers(p + n)
  BY <1>5, <1>6, <1>7, SeqEqual
<1> QED BY <1>4, <1>8 DEF p, f

\* The same for what is in the sink and in the queue.
LEMMA QueueGrows ==
  ASSUME WorkTypes, NEW s \in Session, EncOK(s), NEW n \in Nat
  PROVE  /\ pending[s] \o Fragments(s, n) \in Seq(Nat)
         /\ sink[s] \o (pending[s] \o Fragments(s, n)) = Numbers(produced[s] + n)
<1>1. sink[s] \in Seq(Nat) /\ pending[s] \in Seq(Nat) /\ Fragments(s, n) \in Seq(Nat)
  BY FragmentsAre DEF WorkTypes
<1>2. pending[s] \o Fragments(s, n) \in Seq(Nat)
  BY <1>1, ConcatProperties
<1>3. sink[s] \o (pending[s] \o Fragments(s, n)) = (sink[s] \o pending[s]) \o Fragments(s, n)
  BY <1>1, ConcatsAssociate
<1> QED BY <1>2, <1>3, NumbersGrow DEF EncOK

\* Both kinds of types, and the encoder's own invariant.
EncGood == SlotTypes /\ WorkTypes /\ EncInv

\* Who only moves the task of s, and not to where fragments must be gone.
LEMMA StationKeepsEnc ==
  ASSUME EncGood, NEW s \in Session, NEW to, Enc(s, to), UNCHANGED <<backendVars, exit>>,
         exit[s] # "ended", to \in {"final", "finalize", "done"} \/ Len(pending[s]) <= PendingCap,
         \/ to \in {"run", "final", "finalize", "done"}
         \/ last[s] = Marker /\ held[s] = 0 /\ pending[s] = <<>>
  PROVE  EncInv'
<1>1. EncOK(s)
  BY EncOKIs DEF EncGood
<1>2. enc'[s] = to /\ \A r \in Session \ {s} : enc'[r] = enc[r]
  BY DEF EncGood, SlotTypes, Enc
<1>3. EncOK(s)'
  BY <1>1, <1>2, EncoderAssumption DEF EncOK, backendVars, Numbers, EncGood
<1>4. \A r \in Session \ {s} : SameEnc(r)
  BY <1>2 DEF SameEnc, backendVars
<1> QED BY <1>3, <1>4, OneEncOK DEF EncGood

\* An encoder at an early station has nothing; none has ended well unless it finalizes.
LEMMA EarlyHasNothing ==
  ASSUME EncGood, NEW s \in Session
  PROVE  /\ enc[s] \notin {"run", "final", "finalize", "done"} =>
              last[s] = Marker /\ held[s] = 0 /\ pending[s] = <<>> /\ Len(pending[s]) = 0
         /\ enc[s] # "finalize" => exit[s] # "ended"
         /\ enc[s] \notin {"final", "finalize", "done"} => Len(pending[s]) <= PendingCap
<1>1. EncOK(s) /\ pending[s] \in Seq(Nat)
  BY EncOKIs DEF EncGood, WorkTypes
<1> QED BY <1>1, EncoderAssumption DEF EncOK

\* ClearBuffer keeps the encoder's types and fragments.
LEMMA ClearBufferGood ==
  ASSUME EncGood, NEW s \in Session, ClearBuffer(s)
  PROVE  EncGood'
<1>1. SlotTypes' /\ WorkTypes'
  BY ClearBufferTyped DEF EncGood
<1>2. enc[s] = "clear" /\ Enc(s, "probe") /\ UNCHANGED <<backendVars, exit>>
  BY DEF ClearBuffer
<1>3. EncInv'
  BY <1>2, EarlyHasNothing, StationKeepsEnc
<1> QED BY <1>1, <1>3 DEF EncGood

\* Probe keeps the encoder's types and fragments.
LEMMA ProbeGood ==
  ASSUME EncGood, NEW s \in Session, Probe(s)
  PROVE  EncGood'
<1>1. SlotTypes' /\ WorkTypes'
  BY ProbeTyped DEF EncGood
<1>2. /\ enc[s] = "probe" /\ (Enc(s, "install") \/ Enc(s, "discard"))
      /\ UNCHANGED <<backendVars, exit>>
  BY DEF Probe
<1>3. EncInv'
  BY <1>2, EarlyHasNothing, StationKeepsEnc
<1> QED BY <1>1, <1>3 DEF EncGood

\* InstallBuffer keeps the encoder's types and fragments.
LEMMA InstallBufferGood ==
  ASSUME EncGood, NEW s \in Session, InstallBuffer(s)
  PROVE  EncGood'
<1>1. SlotTypes' /\ WorkTypes'
  BY InstallBufferTyped DEF EncGood
<1>2. enc[s] = "install" /\ Enc(s, "configure") /\ UNCHANGED <<backendVars, exit>>
  BY DEF InstallBuffer
<1>3. EncInv'
  BY <1>2, EarlyHasNothing, StationKeepsEnc
<1> QED BY <1>1, <1>3 DEF EncGood

\* StreamEnded keeps the encoder's types and fragments.
LEMMA StreamEndedGood ==
  ASSUME EncGood, NEW s \in Session, StreamEnded(s)
  PROVE  EncGood'
<1>1. SlotTypes' /\ WorkTypes'
  BY StreamEndedTyped DEF EncGood
<1>2. enc[s] = "run" /\ Enc(s, "final") /\ UNCHANGED <<backendVars, exit>>
  BY DEF StreamEnded
<1>3. EncInv'
  BY <1>2, EarlyHasNothing, StationKeepsEnc
<1> QED BY <1>1, <1>3 DEF EncGood

\* Discard keeps the encoder's types and fragments.
LEMMA DiscardGood ==
  ASSUME EncGood, NEW s \in Session, Discard(s)
  PROVE  EncGood'
<1>1. UNCHANGED <<buffer, backendVars, exit>> /\ enc[s] = "discard"
  BY DEF Discard
<1>2. WorkTypes'
  BY <1>1 DEF EncGood, WorkTypes, backendVars
<1>3. CASE channel[s] # <<>> /\ channel' = [channel EXCEPT ![s] = Tail(@)] /\ UNCHANGED <<receiver, enc>>
  <2>1. SlotTypes'
    BY <1>1, <1>3, TakeTyped DEF EncGood, Takes
  <2>2. \A r \in Session : SameEnc(r)
    BY <1>1, <1>3 DEF SameEnc, backendVars
  <2>3. EncOK(s)'
    BY <2>2, SameEncOK, EncOKIs DEF EncGood
  <2>4. EncInv'
    BY <2>2, <2>3, OneEncOK DEF EncGood
  <2> QED BY <1>2, <2>1, <2>4 DEF EncGood
<1>4. CASE CloseReceiver(s) /\ Enc(s, "done")
  <2>1. SlotTypes'
    BY <1>1, <1>4, CloseTyped DEF EncGood, SlotTypes, Enc
  <2>2. EncInv'
    BY <1>1, <1>4, EarlyHasNothing, StationKeepsEnc
  <2> QED BY <1>2, <2>1, <2>2 DEF EncGood
<1> QED BY <1>3, <1>4 DEF Discard

\* A failure goes to the end whatever has been kept so far.
LEMMA TerminalKeeps ==
  ASSUME EncGood, NEW s \in Session, Terminal(s), UNCHANGED buffer, WorkTypes',
         sink'[s] \o pending'[s] = Numbers(produced'[s]),
         \A r \in Session \ {s} :
           /\ sink'[r] = sink[r] /\ pending'[r] = pending[r] /\ produced'[r] = produced[r]
           /\ held'[r] = held[r] /\ last'[r] = last[r]
  PROVE  EncGood'
<1>1. SlotTypes'
  BY TerminalTyped DEF EncGood
<1>2. /\ enc'[s] = "finalize" /\ exit'[s] = "error"
      /\ \A r \in Session \ {s} : enc'[r] = enc[r] /\ exit'[r] = exit[r]
  BY DEF Terminal, Enc, EncGood, SlotTypes
<1>3. EncOK(s)'
  BY <1>2 DEF EncOK, Numbers
<1>4. \A r \in Session \ {s} : SameEnc(r)
  BY <1>2 DEF SameEnc
<1> QED BY <1>1, <1>3, <1>4, OneEncOK DEF EncGood

\* Configure keeps the encoder's types and fragments.
LEMMA ConfigureGood ==
  ASSUME EncGood, NEW s \in Session, Configure(s)
  PROVE  EncGood'
<1>1. UNCHANGED <<buffer, backendVars>> /\ enc[s] = "configure"
  BY DEF Configure
<1>2. WorkTypes'
  BY <1>1 DEF EncGood, WorkTypes, backendVars
<1>3. CASE Enc(s, "run") /\ UNCHANGED <<channel, receiver, exit>>
  <2>1. SlotTypes'
    BY <1>1, <1>3 DEF EncGood, SlotTypes, Enc
  <2>2. EncInv'
    BY <1>1, <1>3, EarlyHasNothing, StationKeepsEnc
  <2> QED BY <1>2, <2>1, <2>2 DEF EncGood
<1>4. CASE Terminal(s)
  <2>1. sink'[s] \o pending'[s] = Numbers(produced'[s])
    BY <1>1, EncOKIs DEF EncGood, EncOK, backendVars
  <2>2. \A r \in Session \ {s} :
           /\ sink'[r] = sink[r] /\ pending'[r] = pending[r] /\ produced'[r] = produced[r]
           /\ held'[r] = held[r] /\ last'[r] = last[r]
    BY <1>1 DEF backendVars
  <2> QED BY <1>1, <1>2, <1>4, <2>1, <2>2, TerminalKeeps
<1> QED BY <1>3, <1>4 DEF Configure

\* The task has taken what is at the head of its channel and runs on.
LEMMA TakeKeeps ==
  ASSUME EncGood, NEW s \in Session, Takes(s), enc[s] = "run", UNCHANGED <<buffer, receiver, enc, exit>>,
         WorkTypes', sink'[s] \o pending'[s] = Numbers(produced'[s]), Len(pending'[s]) <= PendingCap,
         \A r \in Session \ {s} :
           /\ sink'[r] = sink[r] /\ pending'[r] = pending[r] /\ produced'[r] = produced[r]
           /\ held'[r] = held[r] /\ last'[r] = last[r]
  PROVE  EncGood'
<1>1. SlotTypes'
  BY TakeTyped DEF EncGood, Takes
<1>2. /\ enc'[s] = "run" /\ exit'[s] # "ended"
      /\ \A r \in Session \ {s} : enc'[r] = enc[r] /\ exit'[r] = exit[r]
  BY EarlyHasNothing
<1>3. Len(pending'[s]) \in Nat
  BY DEF WorkTypes
<1>4. EncOK(s)'
  BY <1>2, <1>3, EncoderAssumption DEF EncOK, Numbers
<1>5. \A r \in Session \ {s} : SameEnc(r)
  BY <1>2 DEF SameEnc
<1> QED BY <1>1, <1>4, <1>5, OneEncOK DEF EncGood

\* FormatChange keeps the encoder's types and fragments.
LEMMA FormatChangeGood ==
  ASSUME EncGood, NEW s \in Session, FormatChange(s)
  PROVE  EncGood'
<1>1. /\ UNCHANGED <<buffer, held, produced, pending, sink, stalled>> /\ enc[s] = "run"
      /\ channel[s] # <<>> /\ last' = [last EXCEPT ![s] = Marker]
  BY DEF FormatChange
<1>2. WorkTypes'
  <2>1. Marker \in Item
    BY DEF Item
  <2> QED BY <1>1, <2>1 DEF EncGood, WorkTypes
<1>3. sink'[s] \o pending'[s] = Numbers(produced'[s])
  BY <1>1, EncOKIs DEF EncGood, EncOK
<1>4. \A r \in Session \ {s} :
         /\ sink'[r] = sink[r] /\ pending'[r] = pending[r] /\ produced'[r] = produced[r]
         /\ held'[r] = held[r] /\ last'[r] = last[r]
  BY <1>1 DEF EncGood, WorkTypes
<1>5. CASE channel' = [channel EXCEPT ![s] = Tail(@)] /\ UNCHANGED <<receiver, enc, exit>>
  <2>1. Takes(s)
    BY <1>1, <1>5 DEF Takes
  <2>2. Len(pending'[s]) <= PendingCap
    BY <1>1, EarlyHasNothing
  <2> QED BY <1>1, <1>2, <1>3, <1>4, <1>5, <2>1, <2>2, TakeKeeps
<1>6. CASE Terminal(s)
  BY <1>1, <1>2, <1>3, <1>4, <1>6, TerminalKeeps
<1> QED BY <1>5, <1>6 DEF FormatChange

\* Finalize keeps the encoder's types and fragments.
LEMMA FinalizeGood ==
  ASSUME EncGood, NEW s \in Session, Finalize(s)
  PROVE  EncGood'
<1>1. /\ enc[s] = "finalize" /\ CloseReceiver(s) /\ Enc(s, "done")
      /\ last' = [last EXCEPT ![s] = Marker] /\ stalled' = [stalled EXCEPT ![s] = 0]
      /\ exit' = [exit EXCEPT ![s] = "none"] /\ UNCHANGED <<buffer, held, produced, pending, sink>>
  BY DEF Finalize
<1>2. WorkTypes'
  <2>1. Marker \in Item
    BY DEF Item
  <2> QED BY <1>1, <2>1 DEF EncGood, WorkTypes
<1>3. SlotTypes'
  BY <1>1, CloseTyped DEF EncGood, SlotTypes, Enc
<1>4. /\ enc'[s] = "done" /\ exit'[s] = "none"
      /\ \A r \in Session \ {s} : enc'[r] = enc[r] /\ exit'[r] = exit[r] /\ last'[r] = last[r]
  BY <1>1 DEF EncGood, SlotTypes, WorkTypes, Enc
<1>5. EncOK(s)'
  BY <1>1, <1>4, EncOKIs DEF EncOK, EncGood, Numbers
<1>6. \A r \in Session \ {s} : SameEnc(r)
  BY <1>1, <1>4 DEF SameEnc
<1> QED BY <1>2, <1>3, <1>5, <1>6, OneEncOK DEF EncGood

\* EncodeFrame keeps the encoder's types and fragments.
LEMMA EncodeFrameGood ==
  ASSUME EncGood, NEW s \in Session, EncodeFrame(s)
  PROVE  EncGood'
<1>1. /\ enc[s] = "run" /\ channel[s] # <<>> /\ last' = [last EXCEPT ![s] = Head(channel[s])]
      /\ UNCHANGED <<buffer, stalled>>
  BY DEF EncodeFrame
<1>2. EncOK(s)
  BY EncOKIs DEF EncGood
<1>3. last' \in [Session -> Item] /\ \A r \in Session \ {s} : last'[r] = last[r]
  <2>1. Head(channel[s]) \in Item
    BY <1>1, TakeTyped DEF EncGood
  <2> QED BY <1>1, <2>1 DEF EncGood, WorkTypes
<1>4. CASE UNCHANGED <<held, produced, pending, sink>>
  <2>1. WorkTypes'
    BY <1>1, <1>3, <1>4 DEF EncGood, WorkTypes
  <2>2. sink'[s] \o pending'[s] = Numbers(produced'[s])
    BY <1>2, <1>4 DEF EncOK
  <2>3. \A r \in Session \ {s} :
           /\ sink'[r] = sink[r] /\ pending'[r] = pending[r] /\ produced'[r] = produced[r]
           /\ held'[r] = held[r] /\ last'[r] = last[r]
    BY <1>3, <1>4
  <2>4. CASE Terminal(s)
    BY <1>1, <2>1, <2>2, <2>3, <2>4, TerminalKeeps
  <2>5. CASE channel' = [channel EXCEPT ![s] = Tail(@)] /\ UNCHANGED <<receiver, enc, exit>>
    <3>1. Takes(s)
      BY <1>1, <2>5 DEF Takes
    <3>2. Len(pending'[s]) <= PendingCap
      BY <1>1, <1>4, EarlyHasNothing
    <3> QED BY <1>1, <2>1, <2>2, <2>3, <2>5, <3>1, <3>2, TakeKeeps
  <2>6. CASE DrainFragments(s, held[s] + 1)
    <3>1. \/ channel' = [channel EXCEPT ![s] = Tail(@)] /\ UNCHANGED <<receiver, enc, exit>>
          \/ Terminal(s)
      BY <2>6 DEF DrainFragments
    <3> QED BY <2>4, <2>5, <3>1
  <2> QED BY <2>4, <2>5, <2>6 DEF EncodeFrame
<1>5. CASE DrainFragments(s, held[s] + 1)
  <2>1. held[s] + 1 \in Nat
    BY DEF EncGood, WorkTypes
  <2>2. PICK n \in 0 .. held[s] + 1 :
          \E q \in {pending[s] \o Fragments(s, n)} : \E k \in 0 .. Len(q) :
            /\ Drained(s, held[s] + 1, n) /\ Flushed(s, q, k)
            /\ \/ /\ Len(q) - k <= PendingCap
                  /\ channel' = [channel EXCEPT ![s] = Tail(@)]
                  /\ UNCHANGED <<receiver, enc, exit>>
               \/ Terminal(s)
    BY <1>5 DEF DrainFragments
  <2>3. PICK q \in {pending[s] \o Fragments(s, n)} : \E k \in 0 .. Len(q) :
          /\ Drained(s, held[s] + 1, n) /\ Flushed(s, q, k)
          /\ \/ /\ Len(q) - k <= PendingCap
                /\ channel' = [channel EXCEPT ![s] = Tail(@)]
                /\ UNCHANGED <<receiver, enc, exit>>
             \/ Terminal(s)
    BY <2>2
  <2>4. PICK k \in 0 .. Len(q) :
          /\ Drained(s, held[s] + 1, n) /\ Flushed(s, q, k)
          /\ \/ /\ Len(q) - k <= PendingCap
                /\ channel' = [channel EXCEPT ![s] = Tail(@)]
                /\ UNCHANGED <<receiver, enc, exit>>
             \/ Terminal(s)
    BY <2>3
  <2>5. n \in Nat /\ held[s] + 1 - n \in Nat
    BY DEF EncGood, WorkTypes
  <2>6. q \in Seq(Nat) /\ sink[s] \o q = Numbers(produced[s] + n)
    BY <1>2, <2>4, <2>5, QueueGrows DEF EncGood
  <2>7. /\ sink' \in [Session -> Seq(Nat)] /\ pending' \in [Session -> Seq(Nat)]
        /\ sink'[s] \o pending'[s] = sink[s] \o q
        /\ Len(pending'[s]) = Len(q) - k
        /\ \A r \in Session \ {s} : sink'[r] = sink[r] /\ pending'[r] = pending[r]
    BY <2>4, <2>6, FlushGives DEF EncGood
  <2>8. /\ held' \in [Session -> Nat] /\ produced' \in [Session -> Nat]
        /\ produced'[s] = produced[s] + n
        /\ \A r \in Session \ {s} : held'[r] = held[r] /\ produced'[r] = produced[r]
    BY <2>4, <2>5 DEF Drained, EncGood, WorkTypes
  <2>9. WorkTypes'
    BY <1>1, <1>3, <2>7, <2>8 DEF EncGood, WorkTypes
  <2>10. sink'[s] \o pending'[s] = Numbers(produced'[s])
    BY <2>6, <2>7, <2>8
  <2>11. \A r \in Session \ {s} :
           /\ sink'[r] = sink[r] /\ pending'[r] = pending[r] /\ produced'[r] = produced[r]
           /\ held'[r] = held[r] /\ last'[r] = last[r]
    BY <1>3, <2>7, <2>8
  <2>12. CASE Terminal(s)
    BY <1>1, <2>9, <2>10, <2>11, <2>12, TerminalKeeps
  <2>13. CASE /\ Len(q) - k <= PendingCap /\ channel' = [channel EXCEPT ![s] = Tail(@)]
              /\ UNCHANGED <<receiver, enc, exit>>
    <3>1. Takes(s) /\ Len(pending'[s]) <= PendingCap
      BY <1>1, <2>7, <2>13 DEF Takes
    <3> QED BY <1>1, <2>9, <2>10, <2>11, <2>13, <3>1, TakeKeeps
  <2> QED BY <2>4, <2>12, <2>13
<1> QED BY <1>4, <1>5 DEF EncodeFrame

\* final_drain moves the task of s to its end or not at all.
FinalStation(s) ==
  \/ UNCHANGED <<enc, exit>>
  \/ Ends(s, "error")
  \/ Ends(s, "ended") /\ pending[s] = <<>> /\ held[s] = 0 /\ UNCHANGED <<pending, held>>

\* The retry budget is a number, and counts or ends the drain.
LEMMA StallTyped ==
  ASSUME WorkTypes, NEW s \in Session
  PROVE  /\ Stall(s) \/ Progress(s) \/ UNCHANGED stalled => stalled' \in [Session -> Nat]
         /\ Stall(s) \/ Progress(s) => UNCHANGED <<enc, exit>> \/ Ends(s, "error")
<1>1. stalled \in [Session -> Nat] /\ stalled[s] + 1 \in Nat
  BY DEF WorkTypes
<1>2. Stall(s) => stalled' = [stalled EXCEPT ![s] = stalled[s] + 1]
  BY DEF Stall
<1>3. Progress(s) => stalled' = [stalled EXCEPT ![s] = 0]
  BY DEF Progress
<1>4. Stall(s) \/ Progress(s) => UNCHANGED <<enc, exit>> \/ Ends(s, "error")
  BY DEF Stall, Progress
<1> QED BY <1>1, <1>2, <1>3, <1>4

\* Final keeps the invariant.
LEMMA FinalKeeps ==
  ASSUME EncGood, NEW s \in Session, enc[s] = "final", UNCHANGED <<buffer, channel, receiver, last>>,
         WorkTypes', FinalStation(s), sink'[s] \o pending'[s] = Numbers(produced'[s]),
         \A r \in Session \ {s} :
           /\ sink'[r] = sink[r] /\ pending'[r] = pending[r] /\ produced'[r] = produced[r]
           /\ held'[r] = held[r]
  PROVE  EncGood'
<1>1. exit[s] # "ended"
  BY EarlyHasNothing
<1>2. SlotTypes'
  BY DEF EncGood, SlotTypes, FinalStation, Ends, Enc
<1>3. \A r \in Session \ {s} : SameEnc(r)
  BY DEF EncGood, SlotTypes, FinalStation, Ends, Enc, SameEnc
<1>4. /\ enc'[s] \in {"final", "finalize"}
      /\ exit'[s] = "ended" => enc'[s] = "finalize" /\ pending'[s] = <<>> /\ held'[s] = 0
  BY <1>1 DEF EncGood, SlotTypes, FinalStation, Ends, Enc
<1>5. EncOK(s)'
  BY <1>4 DEF EncOK, Numbers
<1> QED BY <1>2, <1>3, <1>5, OneEncOK DEF EncGood

\* FinalPull keeps the encoder's types and fragments.
LEMMA FinalPullGood ==
  ASSUME EncGood, NEW s \in Session, FinalPull(s)
  PROVE  EncGood'
<1>1. /\ enc[s] = "final" /\ pending[s] = <<>> /\ UNCHANGED <<buffer, channel, receiver, last, sink>>
  BY DEF FinalPull
<1>2. EncOK(s)
  BY EncOKIs DEF EncGood
<1>3. CASE UNCHANGED <<held, produced, pending>>
  <2>1. WorkTypes'
    <3>1. stalled' \in [Session -> Nat]
      BY <1>3, StallTyped DEF FinalPull, EncGood
    <3> QED BY <1>1, <1>3, <3>1 DEF EncGood, WorkTypes
  <2>2. FinalStation(s)
    BY <1>1, <1>3 DEF FinalPull, Stall, Progress, FinalStation
  <2> QED BY <1>1, <1>2, <1>3, <2>1, <2>2, FinalKeeps DEF EncOK
<1>4. CASE \E n \in 1 .. held[s] : /\ Drained(s, held[s], n)
                                   /\ pending' = [pending EXCEPT ![s] = Fragments(s, n)]
                                   /\ Progress(s)
  <2>1. PICK n \in 1 .. held[s] : /\ Drained(s, held[s], n)
                                  /\ pending' = [pending EXCEPT ![s] = Fragments(s, n)]
                                  /\ Progress(s)
    BY <1>4
  <2>2. n \in Nat /\ held[s] - n \in Nat
    BY DEF EncGood, WorkTypes
  <2>3. /\ held' \in [Session -> Nat] /\ produced' \in [Session -> Nat]
        /\ produced'[s] = produced[s] + n
        /\ \A r \in Session \ {s} : held'[r] = held[r] /\ produced'[r] = produced[r]
    BY <2>1, <2>2 DEF Drained, EncGood, WorkTypes
  <2>4. Fragments(s, n) \in Seq(Nat)
    BY <2>2, FragmentsAre DEF EncGood
  <2>5. /\ pending' \in [Session -> Seq(Nat)] /\ pending'[s] = Fragments(s, n)
        /\ \A r \in Session \ {s} : pending'[r] = pending[r]
    BY <2>1, <2>4 DEF EncGood, WorkTypes
  <2>6. stalled' \in [Session -> Nat]
    BY <2>1 DEF Progress, EncGood, WorkTypes
  <2>7. WorkTypes'
    BY <1>1, <2>3, <2>5, <2>6 DEF EncGood, WorkTypes
  <2>8. sink'[s] \o pending'[s] = Numbers(produced'[s])
    <3>1. sink[s] \o Fragments(s, n) = Numbers(produced[s] + n)
      <4>1. sink[s] \o pending[s] = sink[s]
        BY <1>1 DEF EncGood, WorkTypes
      <4>2. sink[s] = Numbers(produced[s])
        BY <1>2, <4>1 DEF EncOK
      <4> QED BY <2>2, <4>2, NumbersGrow DEF EncGood
    <3> QED BY <1>1, <2>3, <2>5, <3>1
  <2>9. FinalStation(s)
    BY <2>1 DEF Progress, FinalStation
  <2> QED BY <1>1, <2>3, <2>5, <2>7, <2>8, <2>9, FinalKeeps
<1> QED BY <1>3, <1>4 DEF FinalPull

\* FinalFlush keeps the encoder's types and fragments.
LEMMA FinalFlushGood ==
  ASSUME EncGood, NEW s \in Session, FinalFlush(s)
  PROVE  EncGood'
<1>1. /\ enc[s] = "final" /\ UNCHANGED <<buffer, channel, receiver, last, held, produced>>
  BY DEF FinalFlush
<1>2. EncOK(s) /\ pending[s] \in Seq(Nat)
  BY EncOKIs DEF EncGood, WorkTypes
<1>3. PICK k \in 0 .. Len(pending[s]) :
        /\ Flushed(s, pending[s], k)
        /\ \/ IF k > 0 THEN Progress(s) ELSE Stall(s)
           \/ Ends(s, "error") /\ UNCHANGED stalled
  BY DEF FinalFlush
<1>4. /\ sink' \in [Session -> Seq(Nat)] /\ pending' \in [Session -> Seq(Nat)]
      /\ sink'[s] \o pending'[s] = sink[s] \o pending[s]
      /\ \A r \in Session \ {s} : sink'[r] = sink[r] /\ pending'[r] = pending[r]
  BY <1>2, <1>3, FlushGives DEF EncGood
<1>5. stalled' \in [Session -> Nat] /\ FinalStation(s)
  BY <1>3, StallTyped DEF EncGood, FinalStation
<1>6. WorkTypes'
  BY <1>1, <1>4, <1>5 DEF EncGood, WorkTypes
<1> QED BY <1>1, <1>2, <1>4, <1>5, <1>6, FinalKeeps DEF EncOK

\* Encoder keeps the encoder's types and fragments.
LEMMA EncoderGood ==
  ASSUME EncGood, NEW s \in Session, EncoderStep(s)
  PROVE  EncGood'
BY ClearBufferGood, ProbeGood, InstallBufferGood, DiscardGood, ConfigureGood, EncodeFrameGood,
   FormatChangeGood, StreamEndedGood, FinalPullGood, FinalFlushGood, FinalizeGood DEF EncoderStep

-----------------------------------------------------------------------------
(* Sessions: what the request, the connection, the thread and the tasks know *)
(* of each other                                                             *)

SessInv == FreshInv /\ RequestInv /\ ConnInv /\ ThreadInv /\ NewsInv

\* The inductive invariant.
IInv == Typed /\ SessInv /\ EncInv /\ MarkerInv /\ SlotInv

\* How far a request is, and that there is none.
LEMMA AtSets ==
  ASSUME ConnTypes, NEW to, At(to)
  PROVE  call'.op = call.op /\ call'.s = call.s /\ call'.at = to
BY DEF At, ConnTypes, Calls

\* No request is under way: it is of no session, and nowhere.
LEMMA NoCallIs == NoCall.op = "none" /\ NoCall.s = None /\ NoCall.at = "none" /\ None \notin Session
BY DEF NoCall, None, Session

\* Without a new event there is no new news.
LEMMA SameNews ==
  ASSUME events' = events
  PROVE  \A r \in Session : Bad(r)' <=> Bad(r)
BY DEF Bad

\* What is told stays told, and what is told first.
LEMMA NotifyNews ==
  ASSUME ThreadTypes, NEW s \in Session, NEW event \in {"format", "error", "renegotiation"},
         Notify(s, event)
  PROVE  /\ \A r \in Session : Bad(r) => Bad(r)'
         /\ \A r \in Session \ {s} : events'[r] = events[r]
         /\ event # "format" /\ (loop[s] = "run" \/ Starting(s)) => Bad(s)'
<1>1. CASE loop[s] = "run" \/ Starting(s)
  <2> DEFINE new == Append(events[s], event)
  <2>1. events[s] \in Seq({"format", "error", "renegotiation"})
    BY DEF ThreadTypes
  <2>2. /\ new \in Seq({"format", "error", "renegotiation"}) /\ Len(new) = Len(events[s]) + 1
        /\ \A i \in 1 .. Len(events[s]) : new[i] = events[s][i]
        /\ new[Len(events[s]) + 1] = event
    BY <2>1
  <2>3. events' = [events EXCEPT ![s] = new]
    BY <1>1 DEF Notify
  <2> HIDE DEF new
  <2>4. events'[s] = new /\ \A r \in Session \ {s} : events'[r] = events[r]
    BY <2>3 DEF ThreadTypes
  <2>5. Bad(s) => Bad(s)'
    <3>1. SUFFICES ASSUME Bad(s)
                   PROVE  \E i \in DOMAIN new : new[i] # "format"
      BY <2>4 DEF Bad
    <3>2. PICK i \in DOMAIN events[s] : events[s][i] # "format"
      BY <3>1 DEF Bad
    <3>3. i \in 1 .. Len(events[s]) /\ i \in DOMAIN new
      BY <2>1, <2>2
    <3> QED BY <2>2, <3>2, <3>3
  <2>6. \A r \in Session \ {s} : Bad(r) => Bad(r)'
    BY <2>4 DEF Bad
  <2>7. event # "format" => Bad(s)'
    <3>1. Len(events[s]) + 1 \in DOMAIN new
      BY <2>1, <2>2
    <3> QED BY <2>2, <2>4, <3>1 DEF Bad
  <2> QED BY <2>4, <2>5, <2>6, <2>7
<1>2. CASE ~(loop[s] = "run" \/ Starting(s))
  BY <1>2, SameNews DEF Notify
<1> QED BY <1>1, <1>2

\* The loop takes a change of format and leaves the other news.
LEMMA TakeNews ==
  ASSUME ThreadTypes, NEW s \in Session, events[s] # <<>>,
         events' = [events EXCEPT ![s] = Tail(@)]
  PROVE  /\ \A r \in Session \ {s} : Bad(r) => Bad(r)'
         /\ Head(events[s]) = "format" => (Bad(s) => Bad(s)')
<1> DEFINE new == Tail(events[s])
<1>1. events[s] \in Seq({"format", "error", "renegotiation"})
  BY DEF ThreadTypes
<1>2. /\ new \in Seq({"format", "error", "renegotiation"}) /\ Len(new) = Len(events[s]) - 1
      /\ \A i \in 1 .. Len(new) : new[i] = events[s][i + 1]
      /\ Head(events[s]) = events[s][1]
  BY <1>1
<1>3. events' = [events EXCEPT ![s] = new]
  OBVIOUS
<1> HIDE DEF new
<1>4. events'[s] = new /\ \A r \in Session \ {s} : events'[r] = events[r]
  BY <1>3 DEF ThreadTypes
<1>5. \A r \in Session \ {s} : Bad(r) => Bad(r)'
  BY <1>4 DEF Bad
<1>6. ASSUME Head(events[s]) = "format", Bad(s)
      PROVE  Bad(s)'
  <2>1. PICK i \in DOMAIN events[s] : events[s][i] # "format"
    BY <1>6 DEF Bad
  <2>2. i \in 1 .. Len(events[s]) /\ i # 1
    BY <1>1, <1>2, <1>6, <2>1
  <2>3. i - 1 \in 1 .. Len(new) /\ (i - 1) + 1 = i
    BY <1>1, <1>2, <2>2
  <2>4. new[i - 1] = events[s][i] /\ i - 1 \in DOMAIN new
    BY <1>2, <2>3
  <2> QED BY <1>4, <2>1, <2>4 DEF Bad
<1> QED BY <1>5, <1>6

\* Nothing of a session that FreshInv speaks of changes.
SameFresh(r) ==
  /\ sender'[r] = sender[r] /\ quit'[r] = quit[r] /\ ready'[r] = ready[r] /\ loop'[r] = loop[r]
  /\ diag'[r] = diag[r] /\ streaming'[r] = streaming[r] /\ negotiated'[r] = negotiated[r]
  /\ format'[r] = format[r] /\ markerDue'[r] = markerDue[r] /\ events'[r] = events[r]
  /\ channel'[r] = channel[r] /\ enc'[r] = enc[r]

\* Whoever moves a session that has a thread leaves the fresh ones alone.
LEMMA OthersFresh ==
  ASSUME FreshInv, NEW s \in Session, sender'[s] # "none", \A r \in Session \ {s} : SameFresh(r)
  PROVE  FreshInv'
BY DEF FreshInv, SameFresh

\* What a stop leaves of a session, and that it leaves the others.
LEMMA StopStops ==
  ASSUME SourceTypes, ThreadInv, NEW s \in Session, StopSession(s)
  PROVE  /\ phase'[s] = "Idle" /\ (Running(s) => quit'[s])
         /\ quit'[s] => quit[s] \/ sender[s] # "none"
         /\ diag'[s] # "run" \/ diag'[s] = diag[s]
         /\ diag[s] = "none" => diag'[s] = "none"
         /\ \A r \in Session \ {s} : phase'[r] = phase[r] /\ quit'[r] = quit[r] /\ diag'[r] = diag[r]
<1>1. CASE phase[s] = "Idle"
  BY <1>1 DEF StopSession, ThreadInv
<1>2. CASE phase[s] # "Idle"
  BY <1>2 DEF StopSession, Reset, SourceTypes, Running
<1> QED BY <1>1, <1>2

\* The thread of s tells its news: whatever it ends with, it says so.
LEMMA ThreadNews ==
  ASSUME NewsInv, NEW s \in Session, UNCHANGED <<conn, call, active, phase, diag, loop>>,
         \A r \in Session : Bad(r) => Bad(r)',
         \A r \in Session \ {s} : sender'[r] = sender[r] /\ quit'[r] = quit[r],
         \/ sender'[s] = sender[s] /\ quit'[s] = quit[s]
         \/ loop[s] = "run" \/ Starting(s) => Bad(s)',
         RequestInv
  PROVE  NewsInv'
BY DEF NewsInv, RequestInv, Running, Starting, NoCall

\* RequestSession keeps what sessions, threads, tasks and the connection know of each other.
LEMMA RequestSessionSess ==
  ASSUME Typed, SessInv, RequestSession
  PROVE  SessInv'
<1>1. FreshInv'
  BY AtSets, NoCallIs, SameNews DEF SessInv, FreshInv, RequestSession, ActiveCapture,
     sourceVars, threadVars, encVars
<1>2. RequestInv'
  <2>1. /\ call'.op = "request" /\ call'.s = opened + 1 /\ call'.at = "portal"
        /\ opened' = opened + 1 /\ active' = None /\ opened + 1 \in Session
        /\ sender' = sender /\ phase' = phase
    BY RequestSessionTyped DEF RequestSession, sourceVars
  <2>2. opened + 1 > opened
    BY <2>1, EncoderAssumption DEF Typed, ConnTypes, Session, None
  <2>3. sender[opened + 1] = "none" /\ phase[opened + 1] = "Idle"
    BY <2>1, <2>2 DEF SessInv, ConnInv
  <2>4. call'.s <= opened'
    BY <2>1, EncoderAssumption DEF Session
  <2> QED BY <2>1, <2>3, <2>4 DEF RequestInv
<1>3. ConnInv'
  <2>1. /\ call = NoCall /\ opened' = opened + 1 /\ active' = None /\ opened + 1 \in Session
        /\ UNCHANGED <<conn, aborted, sender, phase, ready>>
    BY RequestSessionTyped DEF RequestSession, sourceVars, Reading
  <2>2. \A s \in Session : ready[s] = "none"
    BY <2>1, NoCallIs DEF SessInv, ConnInv
  <2>3. \A s \in Session : s > opened' => s > opened
    BY <2>1, EncoderAssumption DEF Typed, ConnTypes, Session, None
  <2> QED BY <2>1, <2>2, <2>3, NoCallIs DEF SessInv, ConnInv
<1>4. ThreadInv'
  BY AtSets, NoCallIs, SameNews DEF SessInv, ThreadInv, Running, RequestSession,
     ActiveCapture, sourceVars
<1>5. NewsInv'
  BY AtSets, NoCallIs, SameNews DEF NewsInv, RequestSession, ActiveCapture
<1> QED BY <1>1, <1>2, <1>3, <1>4, <1>5 DEF SessInv

\* StartStream keeps what sessions, threads, tasks and the connection know of each other.
LEMMA StartStreamSess ==
  ASSUME Typed, SessInv, StartStream
  PROVE  SessInv'
<1>1. FreshInv'
  BY AtSets, NoCallIs, SameNews DEF Typed, SourceTypes, ThreadTypes, SessInv, FreshInv,
     ConnInv, StartStream, Reset, threadVars
<1>2. RequestInv'
  BY AtSets, NoCallIs, SameNews DEF Typed, ConnTypes, SourceTypes, SessInv, FreshInv,
     RequestInv, ConnInv, StartStream, Reset
<1>3. ConnInv'
  BY AtSets, NoCallIs, SameNews DEF Typed, SourceTypes, ThreadTypes, SessInv, ConnInv,
     StartStream, Reset, Reading
<1>4. ThreadInv'
  BY AtSets, NoCallIs, SameNews DEF Typed, SourceTypes, SessInv, ConnInv, ThreadInv, Running,
     StartStream, Reset
<1>5. NewsInv'
  BY AtSets, NoCallIs, SameNews DEF Typed, ConnTypes, SourceTypes, SessInv, FreshInv, ConnInv,
     NewsInv, Running, StartStream
<1> QED BY <1>1, <1>2, <1>3, <1>4, <1>5 DEF SessInv

\* StopCapture keeps what sessions, threads, tasks and the connection know of each other.
LEMMA StopCaptureSess ==
  ASSUME Typed, SessInv, StopCapture
  PROVE  SessInv'
<1>1. FreshInv'
  <2>1. active \in Session /\ StopSession(active) /\ UNCHANGED <<loop, ready, threadVars, events, sender, encVars>>
    BY DEF StopCapture, Typed, ConnTypes
  <2>2. \A r \in Session : sender[r] = "none" => (quit'[r] => quit[r]) /\ (diag[r] = "none" => diag'[r] = "none")
    BY <2>1, StopStops DEF Typed, SessInv
  <2> QED BY <2>1, <2>2 DEF SessInv, FreshInv, threadVars, encVars
<1>2. RequestInv'
  BY AtSets, NoCallIs, SameNews DEF RequestInv, StopCapture, Reading
<1>3. ConnInv'
  BY AtSets, NoCallIs, SameNews DEF Typed, SourceTypes, SessInv, ConnInv, StopCapture,
     StopSession, Reset
<1>4. ThreadInv'
  <2>1. active \in Session /\ StopSession(active) /\ active' = None /\ sender' = sender
    BY DEF StopCapture, Typed, ConnTypes
  <2>2. /\ Running(active) => quit'[active]
        /\ \A r \in Session \ {active} : quit'[r] = quit[r]
    BY <2>1, StopStops DEF Typed, SessInv
  <2> QED BY <2>1, <2>2 DEF SessInv, ThreadInv, Running
<1>5. NewsInv'
  BY AtSets, NoCallIs, SameNews DEF NewsInv, StopCapture, Reading
<1> QED BY <1>1, <1>2, <1>3, <1>4, <1>5 DEF SessInv

\* ConnectionEnds keeps what sessions, threads, tasks and the connection know of each other.
LEMMA ConnectionEndsSess ==
  ASSUME Typed, SessInv, ConnectionEnds
  PROVE  SessInv'
<1>1. FreshInv'
  BY AtSets, NoCallIs, SameNews DEF SessInv, FreshInv, ConnectionEnds, sourceVars, threadVars,
     encVars
<1>2. RequestInv'
  BY AtSets, NoCallIs, SameNews DEF SessInv, RequestInv, ConnectionEnds, sourceVars, encVars
<1>3. ConnInv'
  BY AtSets, NoCallIs, SameNews DEF SessInv, ConnInv, ConnectionEnds, sourceVars
<1>4. ThreadInv'
  BY AtSets, NoCallIs, SameNews DEF SessInv, ThreadInv, Running, ConnectionEnds, sourceVars
<1>5. NewsInv'
  BY AtSets, NoCallIs, SameNews DEF NewsInv, ConnectionEnds
<1> QED BY <1>1, <1>2, <1>3, <1>4, <1>5 DEF SessInv

\* PortalFails keeps what sessions, threads, tasks and the connection know of each other.
LEMMA PortalFailsSess ==
  ASSUME Typed, SessInv, PortalFails
  PROVE  SessInv'
<1>1. FreshInv'
  BY AtSets, NoCallIs, SameNews DEF SessInv, FreshInv, PortalFails, sourceVars, threadVars,
     encVars
<1>2. RequestInv'
  BY AtSets, NoCallIs, SameNews DEF RequestInv, PortalFails
<1>3. ConnInv'
  BY AtSets, NoCallIs, SameNews DEF SessInv, ConnInv, PortalFails, sourceVars
<1>4. ThreadInv'
  BY AtSets, NoCallIs, SameNews DEF SessInv, ThreadInv, Running, PortalFails, sourceVars
<1>5. NewsInv'
  BY AtSets, NoCallIs, SameNews DEF SessInv, RequestInv, NewsInv, PortalFails
<1> QED BY <1>1, <1>2, <1>3, <1>4, <1>5 DEF SessInv

\* PortalAnswers keeps what sessions, threads, tasks and the connection know of each other.
LEMMA PortalAnswersSess ==
  ASSUME Typed, SessInv, PortalAnswers
  PROVE  SessInv'
<1>1. FreshInv'
  BY AtSets, NoCallIs, SameNews DEF SessInv, FreshInv, PortalAnswers, threadVars, encVars
<1>2. RequestInv'
  BY AtSets, NoCallIs, SameNews DEF Typed, SourceTypes, SessInv, RequestInv, PortalAnswers
<1>3. ConnInv'
  <2>1. /\ call.at = "portal" /\ call'.s = call.s /\ call'.at = "requested"
        /\ phase' = [phase EXCEPT ![call.s] = "SessionRequested"]
        /\ UNCHANGED <<conn, aborted, active, opened, sender, ready>>
    BY AtSets DEF PortalAnswers, Typed
  <2>2. call.s \in Session /\ sender[call.s] = "none" /\ ~(call.s > opened)
    BY <2>1, NoCallIs, EncoderAssumption DEF SessInv, RequestInv, Typed, ConnTypes, Session,
       None
  <2>3. \A s \in Session \ {call.s} : phase'[s] = phase[s]
    BY <2>1 DEF Typed, SourceTypes
  <2>4. \A s \in Session : ready[s] = "none"
    BY <2>1 DEF SessInv, ConnInv
  <2> QED BY <2>1, <2>2, <2>3, <2>4 DEF SessInv, ConnInv
<1>4. ThreadInv'
  BY AtSets, NoCallIs, SameNews DEF SessInv, ThreadInv, Running, PortalAnswers
<1>5. NewsInv'
  BY AtSets, NoCallIs, SameNews DEF Typed, SessInv, NewsInv, Running, PortalAnswers
<1> QED BY <1>1, <1>2, <1>3, <1>4, <1>5 DEF SessInv

\* InstallSession keeps what sessions, threads, tasks and the connection know of each other.
LEMMA InstallSessionSess ==
  ASSUME Typed, SessInv, InstallSession
  PROVE  SessInv'
<1>1. FreshInv'
  BY AtSets, NoCallIs, SameNews DEF Typed, SourceTypes, SessInv, FreshInv, RequestInv,
     InstallSession, StopSession, Reset, threadVars, encVars
<1>2. RequestInv'
  BY AtSets, NoCallIs, SameNews DEF RequestInv, InstallSession
<1>3. ConnInv'
  BY AtSets, NoCallIs, SameNews DEF Typed, SourceTypes, SessInv, RequestInv, ConnInv,
     InstallSession, StopSession, Reset
<1>4. ThreadInv'
  BY AtSets, NoCallIs, SameNews DEF Typed, SourceTypes, SessInv, RequestInv, ThreadInv,
     Running, InstallSession, StopSession, Reset
<1>5. NewsInv'
  BY AtSets, NoCallIs, SameNews DEF SessInv, RequestInv, NewsInv, InstallSession
<1> QED BY <1>1, <1>2, <1>3, <1>4, <1>5 DEF SessInv

\* StreamFails keeps what sessions, threads, tasks and the connection know of each other.
LEMMA StreamFailsSess ==
  ASSUME Typed, SessInv, StreamFails
  PROVE  SessInv'
<1>1. FreshInv'
  BY AtSets, NoCallIs, SameNews DEF SessInv, FreshInv, RequestInv, StreamFails, DropStart,
     CloseReceiver, threadVars
<1>2. RequestInv'
  BY AtSets, NoCallIs, SameNews DEF Typed, SourceTypes, SessInv, RequestInv, StreamFails,
     DropStart
<1>3. ConnInv'
  BY AtSets, NoCallIs, SameNews DEF Typed, ThreadTypes, SessInv, ConnInv, StreamFails,
     DropStart
<1>4. ThreadInv'
  BY AtSets, NoCallIs, SameNews DEF Typed, SourceTypes, SessInv, ThreadInv, Running,
     StreamFails, DropStart
<1>5. NewsInv'
  BY AtSets, NoCallIs, SameNews DEF Typed, SessInv, NewsInv, StreamFails, DropStart
<1> QED BY <1>1, <1>2, <1>3, <1>4, <1>5 DEF SessInv

\* StartFails keeps what sessions, threads, tasks and the connection know of each other.
LEMMA StartFailsSess ==
  ASSUME Typed, SessInv, StartFails
  PROVE  SessInv'
<1>1. FreshInv'
  BY AtSets, NoCallIs, SameNews DEF SessInv, FreshInv, StartFails, sourceVars, threadVars,
     encVars
<1>2. RequestInv'
  BY AtSets, NoCallIs, SameNews DEF RequestInv, StartFails
<1>3. ConnInv'
  BY AtSets, NoCallIs, SameNews DEF SessInv, ConnInv, StartFails, sourceVars
<1>4. ThreadInv'
  BY AtSets, NoCallIs, SameNews DEF SessInv, RequestInv, ThreadInv, Running, StartFails,
     sourceVars
<1>5. NewsInv'
  BY AtSets, NoCallIs, SameNews DEF SessInv, RequestInv, NewsInv, StartFails
<1> QED BY <1>1, <1>2, <1>3, <1>4, <1>5 DEF SessInv

\* StreamReady keeps what sessions, threads, tasks and the connection know of each other.
LEMMA StreamReadySess ==
  ASSUME Typed, SessInv, StreamReady
  PROVE  SessInv'
<1>1. FreshInv'
  BY AtSets, NoCallIs, SameNews DEF SessInv, FreshInv, StreamReady, sourceVars, threadVars,
     encVars
<1>2. RequestInv'
  BY AtSets, NoCallIs, SameNews DEF Typed, SessInv, RequestInv, StreamReady, sourceVars,
     encVars
<1>3. ConnInv'
  BY AtSets, NoCallIs, SameNews DEF Typed, ThreadTypes, SessInv, ConnInv, StreamReady,
     sourceVars
<1>4. ThreadInv'
  BY AtSets, NoCallIs, SameNews DEF SessInv, ThreadInv, Running, StreamReady, sourceVars
<1>5. NewsInv'
  BY AtSets, NoCallIs, SameNews DEF Typed, SessInv, RequestInv, NewsInv, Running, StreamReady,
     sourceVars
<1> QED BY <1>1, <1>2, <1>3, <1>4, <1>5 DEF SessInv

\* SetRecording keeps what sessions, threads, tasks and the connection know of each other.
LEMMA SetRecordingSess ==
  ASSUME Typed, SessInv, SetRecording
  PROVE  SessInv'
<1>1. FreshInv'
  BY AtSets, NoCallIs, SameNews DEF SessInv, FreshInv, SetRecording, threadVars, encVars
<1>2. RequestInv'
  BY AtSets, NoCallIs, SameNews DEF Typed, SessInv, RequestInv, SetRecording, encVars
<1>3. ConnInv'
  BY AtSets, NoCallIs, SameNews DEF SessInv, RequestInv, ConnInv, SetRecording
<1>4. ThreadInv'
  BY AtSets, NoCallIs, SameNews DEF SessInv, ThreadInv, Running, SetRecording
<1>5. NewsInv'
  BY AtSets, NoCallIs, SameNews DEF Typed, SessInv, RequestInv, NewsInv, Running, SetRecording
<1> QED BY <1>1, <1>2, <1>3, <1>4, <1>5 DEF SessInv

\* SpawnTasks keeps what sessions, threads, tasks and the connection know of each other.
LEMMA SpawnTasksSess ==
  ASSUME Typed, SessInv, SpawnTasks
  PROVE  SessInv'
<1>1. FreshInv'
  BY AtSets, NoCallIs, SameNews DEF SessInv, FreshInv, RequestInv, SpawnTasks, Enc, threadVars
<1>2. RequestInv'
  BY AtSets, NoCallIs, SameNews DEF RequestInv, SpawnTasks
<1>3. ConnInv'
  BY AtSets, NoCallIs, SameNews DEF SessInv, ConnInv, SpawnTasks
<1>4. ThreadInv'
  BY AtSets, NoCallIs, SameNews DEF SessInv, ThreadInv, Running, SpawnTasks
<1>5. NewsInv'
  BY AtSets, NoCallIs, SameNews DEF Typed, SourceTypes, SessInv, NewsInv, Running, SpawnTasks
<1> QED BY <1>1, <1>2, <1>3, <1>4, <1>5 DEF SessInv

\* RequestEnds keeps what sessions, threads, tasks and the connection know of each other.
LEMMA RequestEndsSess ==
  ASSUME Typed, SessInv, RequestEnds
  PROVE  SessInv'
<1>1. FreshInv'
  BY AtSets, NoCallIs, SameNews DEF SessInv, FreshInv, RequestEnds, sourceVars, threadVars,
     encVars
<1>2. RequestInv'
  BY AtSets, NoCallIs, SameNews DEF SessInv, RequestInv, RequestEnds, sourceVars, encVars
<1>3. ConnInv'
  BY AtSets, NoCallIs, SameNews DEF SessInv, ConnInv, RequestEnds, sourceVars
<1>4. ThreadInv'
  BY AtSets, NoCallIs, SameNews DEF SessInv, ThreadInv, Running, RequestEnds, sourceVars
<1>5. NewsInv'
  BY AtSets, NoCallIs, SameNews DEF NewsInv, RequestEnds
<1> QED BY <1>1, <1>2, <1>3, <1>4, <1>5 DEF SessInv

\* AbortLands keeps what sessions, threads, tasks and the connection know of each other.
LEMMA AbortLandsSess ==
  ASSUME Typed, SessInv, AbortLands
  PROVE  SessInv'
<1>1. FreshInv'
  BY AtSets, NoCallIs, SameNews DEF Typed, ThreadTypes, SlotTypes, SessInv, FreshInv, NewsInv,
     AbortLands, DropStart, CloseReceiver, sourceVars, threadVars
<1>2. RequestInv'
  BY AtSets, NoCallIs, SameNews DEF RequestInv, AbortLands, DropStart
<1>3. ConnInv'
  <2>1. UNCHANGED <<conn, aborted, active, opened, sender, phase>>
    BY DEF AbortLands, sourceVars
  <2>2. \A r \in Session : ready'[r] = "none"
    <3>1. CASE call.at = "wait"
      <4>1. call.op = "start" /\ call.s \in Session
        BY <3>1, NoCallIs, RequestHas DEF SessInv
      <4>2. ready' = [ready EXCEPT ![call.s] = "none"]
        BY <3>1, <4>1 DEF AbortLands, DropStart
      <4> QED BY <4>1, <4>2 DEF SessInv, ConnInv, Typed, ThreadTypes
    <3>2. CASE call.at # "wait"
      <4>1. \A r \in Session : ready[r] = "none"
        BY <3>2 DEF SessInv, ConnInv
      <4>2. ready' = ready \/ ready' = [ready EXCEPT ![call.s] = "none"]
        BY DEF AbortLands, DropStart
      <4> QED BY <4>1, <4>2 DEF Typed, ThreadTypes
    <3> QED BY <3>1, <3>2
  <2> QED BY <2>1, <2>2 DEF SessInv, ConnInv
<1>4. ThreadInv'
  BY AtSets, NoCallIs, SameNews DEF SessInv, ThreadInv, Running, AbortLands, DropStart,
     sourceVars
<1>5. NewsInv'
  BY AtSets, NoCallIs, SameNews DEF SessInv, ConnInv, NewsInv, AbortLands, DropStart
<1> QED BY <1>1, <1>2, <1>3, <1>4, <1>5 DEF SessInv

\* Cleanup keeps what sessions, threads, tasks and the connection know of each other.
LEMMA CleanupSess ==
  ASSUME Typed, SessInv, Cleanup
  PROVE  SessInv'
<1>1. FreshInv'
  BY AtSets, NoCallIs, SameNews DEF Typed, SourceTypes, SessInv, FreshInv, Cleanup,
     StopSession, Reset, threadVars, encVars
<1>2. RequestInv'
  BY AtSets, NoCallIs, SameNews DEF Typed, SourceTypes, SessInv, RequestInv, Cleanup,
     StopSession, Reset, encVars
<1>3. ConnInv'
  BY AtSets, NoCallIs, SameNews DEF Typed, SourceTypes, SessInv, ConnInv, Cleanup,
     StopSession, Reset
<1>4. ThreadInv'
  <2>1. active' = None /\ sender' = sender
    BY DEF Cleanup
  <2>2. CASE active # None
    <3>1. active \in Session /\ StopSession(active)
      BY <2>2 DEF Cleanup, Typed, ConnTypes
    <3>2. /\ Running(active) => quit'[active]
          /\ \A r \in Session \ {active} : quit'[r] = quit[r]
      BY <3>1, StopStops DEF Typed, SessInv
    <3> QED BY <2>1, <3>2 DEF SessInv, ThreadInv, Running
  <2>3. CASE active = None
    BY <2>1, <2>3, NoCallIs DEF Cleanup, SessInv, ThreadInv, Running
  <2> QED BY <2>2, <2>3
<1>5. NewsInv'
  BY AtSets, NoCallIs, SameNews DEF NewsInv, Cleanup
<1> QED BY <1>1, <1>2, <1>3, <1>4, <1>5 DEF SessInv

\* Reconnect keeps what sessions, threads, tasks and the connection know of each other.
LEMMA ReconnectSess ==
  ASSUME Typed, SessInv, Reconnect
  PROVE  SessInv'
<1>1. FreshInv'
  BY AtSets, NoCallIs, SameNews DEF SessInv, FreshInv, Reconnect, sourceVars, threadVars,
     encVars
<1>2. RequestInv'
  BY AtSets, NoCallIs, SameNews DEF RequestInv, Reconnect
<1>3. ConnInv'
  BY AtSets, NoCallIs, SameNews DEF SessInv, ConnInv, Reconnect, sourceVars
<1>4. ThreadInv'
  BY AtSets, NoCallIs, SameNews DEF SessInv, ThreadInv, Running, Reconnect, sourceVars
<1>5. NewsInv'
  BY AtSets, NoCallIs, SameNews DEF SessInv, ConnInv, NewsInv, Reconnect
<1> QED BY <1>1, <1>2, <1>3, <1>4, <1>5 DEF SessInv

\* Negotiate keeps what sessions, threads, tasks and the connection know of each other.
LEMMA NegotiateSess ==
  ASSUME Typed, SessInv, NEW s \in Session, Negotiate(s)
  PROVE  SessInv'
<1>1. FreshInv'
  <2>1. sender'[s] # "none" /\ \A r \in Session \ {s} : SameFresh(r)
    BY DEF Typed, ThreadTypes, SlotTypes, SameFresh, Running, Negotiate, threadFrame,
       sourceVars, Answer, Notify, Enqueue
  <2> QED BY <2>1, OthersFresh DEF SessInv
<1>2. RequestInv'
  BY AtSets, NoCallIs, SameNews DEF SessInv, RequestInv, Negotiate, Room, Enqueue,
     threadFrame, connVars, sourceVars
<1>3. ConnInv'
  BY AtSets, NoCallIs, SameNews DEF Typed, ThreadTypes, SessInv, ConnInv, Negotiate, Answer,
     Room, Enqueue, threadFrame, connVars, sourceVars
<1>4. ThreadInv'
  BY AtSets, NoCallIs, SameNews DEF SessInv, ThreadInv, Running, Negotiate, Room, Enqueue,
     threadFrame, connVars, sourceVars
<1>5. NewsInv'
  <2>1. \A r \in Session : Bad(r) => Bad(r)'
    BY NotifyNews, SameNews DEF Typed, Negotiate
  <2>2. /\ UNCHANGED <<conn, call, active, phase, diag, loop>>
        /\ \A r \in Session \ {s} : sender'[r] = sender[r] /\ quit'[r] = quit[r]
    BY DEF threadFrame, connVars, sourceVars, Negotiate
  <2>3. \/ sender'[s] = sender[s] /\ quit'[s] = quit[s]
        \/ loop[s] = "run" \/ Starting(s) => Bad(s)'
    BY NotifyNews DEF threadFrame, sourceVars, Negotiate
  <2> QED BY <2>1, <2>2, <2>3, ThreadNews DEF SessInv
<1> QED BY <1>1, <1>2, <1>3, <1>4, <1>5 DEF SessInv

\* Reject keeps what sessions, threads, tasks and the connection know of each other.
LEMMA RejectSess ==
  ASSUME Typed, SessInv, NEW s \in Session, Reject(s)
  PROVE  SessInv'
<1>1. FreshInv'
  <2>1. sender'[s] # "none" /\ \A r \in Session \ {s} : SameFresh(r)
    BY DEF Typed, ThreadTypes, SameFresh, Running, Reject, threadFrame, sourceVars, Answer,
       Notify
  <2> QED BY <2>1, OthersFresh DEF SessInv
<1>2. RequestInv'
  BY AtSets, NoCallIs, SameNews DEF SessInv, RequestInv, Reject, Faulty, threadFrame,
     connVars, sourceVars
<1>3. ConnInv'
  BY AtSets, NoCallIs, SameNews DEF SessInv, ConnInv, Reject, Faulty, Answer, threadFrame,
     connVars, sourceVars
<1>4. ThreadInv'
  BY AtSets, NoCallIs, SameNews DEF SessInv, ThreadInv, Running, Reject, Faulty, threadFrame,
     connVars, sourceVars
<1>5. NewsInv'
  <2>1. \A r \in Session : Bad(r) => Bad(r)'
    BY NotifyNews, SameNews DEF Typed, Reject
  <2>2. /\ UNCHANGED <<conn, call, active, phase, diag, loop>>
        /\ \A r \in Session \ {s} : sender'[r] = sender[r] /\ quit'[r] = quit[r]
    BY DEF threadFrame, connVars, sourceVars, Reject
  <2>3. \/ sender'[s] = sender[s] /\ quit'[s] = quit[s]
        \/ loop[s] = "run" \/ Starting(s) => Bad(s)'
    BY NotifyNews DEF threadFrame, sourceVars, Reject
  <2> QED BY <2>1, <2>2, <2>3, ThreadNews DEF SessInv
<1> QED BY <1>1, <1>2, <1>3, <1>4, <1>5 DEF SessInv

\* StreamStarts keeps what sessions, threads, tasks and the connection know of each other.
LEMMA StreamStartsSess ==
  ASSUME Typed, SessInv, NEW s \in Session, StreamStarts(s)
  PROVE  SessInv'
<1>1. FreshInv'
  BY AtSets, NoCallIs, SameNews DEF Typed, ThreadTypes, SessInv, FreshInv, Running,
     StreamStarts, Answer, threadFrame, sourceVars
<1>2. RequestInv'
  BY AtSets, NoCallIs, SameNews DEF SessInv, RequestInv, StreamStarts, threadFrame, connVars,
     sourceVars
<1>3. ConnInv'
  BY AtSets, NoCallIs, SameNews DEF Typed, ThreadTypes, SessInv, ConnInv, StreamStarts,
     Answer, threadFrame, connVars, sourceVars
<1>4. ThreadInv'
  BY AtSets, NoCallIs, SameNews DEF SessInv, ThreadInv, Running, StreamStarts, threadFrame,
     connVars, sourceVars
<1>5. NewsInv'
  BY AtSets, NoCallIs, SameNews DEF SessInv, RequestInv, NewsInv, Running, StreamStarts,
     threadFrame, connVars, sourceVars
<1> QED BY <1>1, <1>2, <1>3, <1>4, <1>5 DEF SessInv

\* StreamError keeps what sessions, threads, tasks and the connection know of each other.
LEMMA StreamErrorSess ==
  ASSUME Typed, SessInv, NEW s \in Session, StreamError(s)
  PROVE  SessInv'
<1>1. FreshInv'
  <2>1. sender'[s] # "none" /\ \A r \in Session \ {s} : SameFresh(r)
    BY DEF Typed, ThreadTypes, SameFresh, Running, StreamError, threadVars, encVars, Answer,
       Notify
  <2> QED BY <2>1, OthersFresh DEF SessInv
<1>2. RequestInv'
  BY AtSets, NoCallIs, SameNews DEF SessInv, RequestInv, StreamError, Faulty, connVars,
     encVars
<1>3. ConnInv'
  BY AtSets, NoCallIs, SameNews DEF Typed, ThreadTypes, SessInv, ConnInv, StreamError, Faulty,
     Answer, connVars
<1>4. ThreadInv'
  BY AtSets, NoCallIs, SameNews DEF SessInv, ThreadInv, Running, StreamError, Faulty, connVars
<1>5. NewsInv'
  <2>1. \A r \in Session : Bad(r) => Bad(r)'
    BY NotifyNews, SameNews DEF Typed, StreamError
  <2>2. /\ UNCHANGED <<conn, call, active, phase, diag, loop>>
        /\ \A r \in Session \ {s} : sender'[r] = sender[r] /\ quit'[r] = quit[r]
    BY DEF Typed, SourceTypes, connVars, StreamError
  <2>3. \/ sender'[s] = sender[s] /\ quit'[s] = quit[s]
        \/ loop[s] = "run" \/ Starting(s) => Bad(s)'
    BY NotifyNews DEF Typed, connVars, StreamError
  <2> QED BY <2>1, <2>2, <2>3, ThreadNews DEF SessInv
<1> QED BY <1>1, <1>2, <1>3, <1>4, <1>5 DEF SessInv

\* SetupFails keeps what sessions, threads, tasks and the connection know of each other.
LEMMA SetupFailsSess ==
  ASSUME Typed, SessInv, NEW s \in Session, SetupFails(s)
  PROVE  SessInv'
<1>1. FreshInv'
  <2>1. sender'[s] # "none" /\ \A r \in Session \ {s} : SameFresh(r)
    BY DEF Typed, ThreadTypes, SameFresh, Running, SetupFails, Ended, threadFrame, sourceVars,
       Answer, Notify
  <2> QED BY <2>1, OthersFresh DEF SessInv
<1>2. RequestInv'
  BY AtSets, NoCallIs, SameNews DEF SessInv, FreshInv, RequestInv, SetupFails, Faulty, Ended,
     threadFrame, connVars, sourceVars
<1>3. ConnInv'
  BY AtSets, NoCallIs, SameNews DEF SessInv, FreshInv, ConnInv, SetupFails, Faulty, Ended,
     Answer, threadFrame, connVars, sourceVars
<1>4. ThreadInv'
  BY AtSets, NoCallIs, SameNews DEF SessInv, ThreadInv, Running, SetupFails, Faulty, Ended,
     threadFrame, connVars, sourceVars
<1>5. NewsInv'
  <2>1. \A r \in Session : Bad(r) => Bad(r)'
    BY NotifyNews, SameNews DEF Typed, SetupFails
  <2>2. /\ UNCHANGED <<conn, call, active, phase, diag, loop>>
        /\ \A r \in Session \ {s} : sender'[r] = sender[r] /\ quit'[r] = quit[r]
    BY DEF threadFrame, connVars, sourceVars, SetupFails, Ended
  <2>3. \/ sender'[s] = sender[s] /\ quit'[s] = quit[s]
        \/ loop[s] = "run" \/ Starting(s) => Bad(s)'
    BY NotifyNews DEF Typed, SetupFails, Ended
  <2> QED BY <2>1, <2>2, <2>3, ThreadNews DEF SessInv
<1> QED BY <1>1, <1>2, <1>3, <1>4, <1>5 DEF SessInv

\* Process keeps what sessions, threads, tasks and the connection know of each other.
LEMMA ProcessSess ==
  ASSUME Typed, SessInv, NEW s \in Session, Process(s)
  PROVE  SessInv'
<1>1. FreshInv'
  <2>1. sender'[s] # "none" /\ \A r \in Session \ {s} : SameFresh(r)
    BY DEF SameFresh, Running, Process, threadFrame, sourceVars
  <2> QED BY <2>1, OthersFresh DEF SessInv
<1>2. RequestInv'
  BY AtSets, NoCallIs, SameNews DEF SessInv, RequestInv, Process, Room, threadFrame, connVars,
     sourceVars
<1>3. ConnInv'
  BY AtSets, NoCallIs, SameNews DEF SessInv, ConnInv, Process, Room, threadFrame, connVars,
     sourceVars
<1>4. ThreadInv'
  BY AtSets, NoCallIs, SameNews DEF SessInv, ThreadInv, Running, Process, Room, threadFrame,
     connVars, sourceVars
<1>5. NewsInv'
  BY AtSets, NoCallIs, SameNews DEF SessInv, RequestInv, NewsInv, Running, Process, Room,
     threadFrame, connVars, sourceVars
<1> QED BY <1>1, <1>2, <1>3, <1>4, <1>5 DEF SessInv

\* ThreadExits keeps what sessions, threads, tasks and the connection know of each other.
LEMMA ThreadExitsSess ==
  ASSUME Typed, SessInv, NEW s \in Session, ThreadExits(s)
  PROVE  SessInv'
<1>1. FreshInv'
  BY AtSets, NoCallIs, SameNews DEF Typed, ConnTypes, SourceTypes, ThreadTypes, SlotTypes,
     SessInv, FreshInv, RequestInv, ConnInv, ThreadInv, NewsInv, Running, ThreadExits, Ended,
     Answer, histVars, threadFrame, connVars, sourceVars, backendVars
<1>2. RequestInv'
  BY AtSets, NoCallIs, SameNews DEF Typed, ConnTypes, SourceTypes, ThreadTypes, SlotTypes,
     SessInv, FreshInv, RequestInv, ConnInv, ThreadInv, NewsInv, Running, ThreadExits, Ended,
     Answer, histVars, threadFrame, connVars, sourceVars, backendVars
<1>3. ConnInv'
  BY AtSets, NoCallIs, SameNews DEF Typed, ConnTypes, SourceTypes, ThreadTypes, SlotTypes,
     SessInv, FreshInv, RequestInv, ConnInv, ThreadInv, NewsInv, Running, ThreadExits, Ended,
     Answer, histVars, threadFrame, connVars, sourceVars, backendVars
<1>4. ThreadInv'
  BY AtSets, NoCallIs, SameNews DEF Typed, ConnTypes, SourceTypes, ThreadTypes, SlotTypes,
     SessInv, FreshInv, RequestInv, ConnInv, ThreadInv, NewsInv, Running, ThreadExits, Ended,
     Answer, histVars, threadFrame, connVars, sourceVars, backendVars
<1>5. NewsInv'
  BY AtSets, NoCallIs, SameNews DEF Typed, ConnTypes, SourceTypes, ThreadTypes, SlotTypes,
     SessInv, FreshInv, RequestInv, ConnInv, ThreadInv, NewsInv, Running, ThreadExits, Ended,
     Answer, histVars, threadFrame, connVars, sourceVars, backendVars
<1> QED BY <1>1, <1>2, <1>3, <1>4, <1>5 DEF SessInv

\* LoopTakes keeps what sessions, threads, tasks and the connection know of each other.
LEMMA LoopTakesSess ==
  ASSUME Typed, SessInv, NEW s \in Session, LoopTakes(s)
  PROVE  SessInv'
<1>1. FreshInv'
  BY AtSets, NoCallIs, SameNews DEF Typed, SourceTypes, SessInv, FreshInv, LoopTakes,
     taskFrame, threadVars, encVars
<1>2. RequestInv'
  BY AtSets, NoCallIs, SameNews DEF Typed, SourceTypes, SessInv, RequestInv, LoopTakes,
     taskFrame, connVars, encVars
<1>3. ConnInv'
  BY AtSets, NoCallIs, SameNews DEF SessInv, ConnInv, LoopTakes, taskFrame, connVars
<1>4. ThreadInv'
  BY AtSets, NoCallIs, SameNews DEF SessInv, ThreadInv, Running, LoopTakes, taskFrame,
     connVars
<1>5. NewsInv'
  <2>1. /\ loop[s] = "run" /\ events[s] # <<>> /\ events' = [events EXCEPT ![s] = Tail(@)]
        /\ UNCHANGED <<conn, call, active, phase, diag, sender, quit>>
    BY DEF LoopTakes, taskFrame, connVars
  <2>2. /\ \A r \in Session \ {s} : loop'[r] = loop[r]
        /\ loop'[s] = "reset" \/ (loop' = loop /\ Head(events[s]) = "format")
    BY DEF LoopTakes, Typed, SourceTypes
  <2>3. /\ \A r \in Session \ {s} : Bad(r) => Bad(r)'
        /\ Head(events[s]) = "format" => (Bad(s) => Bad(s)')
    BY <2>1, TakeNews DEF Typed
  <2>4. call.at \in {"wait", "record", "tasks"} => call.s # s /\ call.s \in Session
    BY <2>1, NoCallIs DEF SessInv, RequestInv
  <2> QED BY <2>1, <2>2, <2>3, <2>4 DEF SessInv, NewsInv, Running
<1> QED BY <1>1, <1>2, <1>3, <1>4, <1>5 DEF SessInv

\* LoopResets keeps what sessions, threads, tasks and the connection know of each other.
LEMMA LoopResetsSess ==
  ASSUME Typed, SessInv, NEW s \in Session, LoopResets(s)
  PROVE  SessInv'
<1>1. FreshInv'
  BY AtSets, NoCallIs, SameNews DEF SessInv, FreshInv, LoopResets, Reset, taskFrame,
     threadVars, encVars
<1>2. RequestInv'
  BY AtSets, NoCallIs, SameNews DEF SessInv, FreshInv, RequestInv, LoopResets, Reset,
     taskFrame, connVars, encVars
<1>3. ConnInv'
  BY AtSets, NoCallIs, SameNews DEF SessInv, ConnInv, LoopResets, Reset, taskFrame, connVars
<1>4. ThreadInv'
  <2>1. Reset(s) /\ UNCHANGED <<active, sender>>
    BY DEF LoopResets, taskFrame, connVars
  <2>2. /\ sender[s] # "none" => quit'[s]
        /\ \A r \in Session \ {s} : quit'[r] = quit[r] /\ phase'[r] = phase[r]
    BY <2>1 DEF Reset, Typed, SourceTypes
  <2> QED BY <2>1, <2>2 DEF SessInv, ThreadInv, Running
<1>5. NewsInv'
  <2>1. loop[s] = "reset" /\ Reset(s) /\ UNCHANGED <<conn, call, active, sender>>
    BY DEF LoopResets, taskFrame, connVars
  <2>2. /\ phase'[s] = "Idle"
        /\ \A r \in Session \ {s} : /\ quit'[r] = quit[r] /\ phase'[r] = phase[r] /\ diag'[r] = diag[r]
                                  /\ loop'[r] = loop[r]
    BY <2>1 DEF Reset, LoopResets, Typed, SourceTypes
  <2>3. \A r \in Session \ {s} : events'[r] = events[r]
    BY DEF LoopResets, Typed, ThreadTypes
  <2>4. \A r \in Session \ {s} : Bad(r)' <=> Bad(r)
    BY <2>3 DEF Bad
  <2>5. call.at \in {"wait", "record", "tasks"} => call.s # s /\ call.s \in Session
    BY <2>1, NoCallIs DEF SessInv, RequestInv
  <2> QED BY <2>1, <2>2, <2>4, <2>5 DEF SessInv, NewsInv, Running
<1> QED BY <1>1, <1>2, <1>3, <1>4, <1>5 DEF SessInv

\* LoopEnds keeps what sessions, threads, tasks and the connection know of each other.
LEMMA LoopEndsSess ==
  ASSUME Typed, SessInv, NEW s \in Session, LoopEnds(s)
  PROVE  SessInv'
<1>1. FreshInv'
  BY AtSets, NoCallIs, SameNews DEF SessInv, FreshInv, LoopEnds, taskFrame, threadVars,
     encVars
<1>2. RequestInv'
  BY AtSets, NoCallIs, SameNews DEF SessInv, RequestInv, LoopEnds, taskFrame, connVars,
     encVars
<1>3. ConnInv'
  BY AtSets, NoCallIs, SameNews DEF SessInv, ConnInv, LoopEnds, taskFrame, connVars
<1>4. ThreadInv'
  BY AtSets, NoCallIs, SameNews DEF SessInv, ThreadInv, Running, LoopEnds, taskFrame, connVars
<1>5. NewsInv'
  <2>1. /\ loop[s] = "run" /\ events[s] = <<>> /\ sender[s] = "closed"
        /\ UNCHANGED <<conn, call, active, phase, diag, sender, quit, events>>
    BY DEF LoopEnds, taskFrame, connVars
  <2>2. ~Bad(s) /\ ~Running(s)
    BY <2>1 DEF Bad, Running
  <2>3. \A r \in Session \ {s} : loop'[r] = loop[r]
    BY DEF LoopEnds, Typed, SourceTypes
  <2>4. call.at \in {"wait", "record", "tasks"} => call.s # s /\ call.s \in Session
    BY <2>1, NoCallIs DEF SessInv, RequestInv
  <2>5. ~(conn = "open" /\ active = s /\ phase[s] = "Recording" /\ call.s # s)
    BY <2>1, <2>2 DEF SessInv, NewsInv
  <2> QED BY <2>1, <2>3, <2>4, <2>5, SameNews DEF SessInv, NewsInv, Running
<1> QED BY <1>1, <1>2, <1>3, <1>4, <1>5 DEF SessInv

\* An encoder has started and moves nothing of another one.
OwnOnly(s) ==
  /\ enc[s] # "none"
  /\ \A r \in Session \ {s} : /\ channel'[r] = channel[r] /\ receiver'[r] = receiver[r]
                              /\ enc'[r] = enc[r] /\ last'[r] = last[r]

\* Every step of an encoder is its own.
LEMMA EncoderOwn ==
  ASSUME SlotTypes, WorkTypes, NEW s \in Session, EncoderStep(s)
  PROVE  OwnOnly(s)
<1>1. ASSUME ClearBuffer(s) \/ Probe(s) \/ InstallBuffer(s) \/ StreamEnded(s)
      PROVE  OwnOnly(s)
  BY <1>1 DEF OwnOnly, SlotTypes, ClearBuffer, Probe, InstallBuffer, StreamEnded, Enc,
     backendVars
<1>2. ASSUME Discard(s) \/ Configure(s)
      PROVE  OwnOnly(s)
  BY <1>2 DEF OwnOnly, SlotTypes, Discard, Configure, Terminal, CloseReceiver, Enc,
     backendVars
<1>3. ASSUME EncodeFrame(s) \/ FormatChange(s)
      PROVE  OwnOnly(s)
  <2>1. \/ channel' = [channel EXCEPT ![s] = Tail(@)] /\ UNCHANGED <<receiver, enc>>
        \/ Terminal(s)
    BY <1>3 DEF EncodeFrame, FormatChange, DrainFragments
  <2>2. /\ enc[s] = "run"
        /\ \/ last' = [last EXCEPT ![s] = Head(channel[s])] \/ last' = [last EXCEPT ![s] = Marker]
    BY <1>3 DEF EncodeFrame, FormatChange
  <2> QED BY <2>1, <2>2 DEF OwnOnly, SlotTypes, WorkTypes, Terminal, CloseReceiver, Enc
<1>4. ASSUME FinalPull(s) \/ FinalFlush(s)
      PROVE  OwnOnly(s)
  <2>1. enc[s] = "final" /\ UNCHANGED <<channel, receiver, last>>
    BY <1>4 DEF FinalPull, FinalFlush
  <2>2. UNCHANGED enc \/ Enc(s, "finalize")
    BY <1>4 DEF FinalPull, FinalFlush, Progress, Stall, Ends
  <2> QED BY <2>1, <2>2 DEF OwnOnly, SlotTypes, Enc
<1>5. ASSUME Finalize(s)
      PROVE  OwnOnly(s)
  BY <1>5 DEF OwnOnly, Finalize, CloseReceiver, Enc
<1> QED BY <1>1, <1>2, <1>3, <1>4, <1>5 DEF EncoderStep

\* Encode keeps what sessions, threads, tasks and the connection know of each other.
LEMMA EncodeSess ==
  ASSUME Typed, SessInv, NEW s \in Session, Encode(s)
  PROVE  SessInv'
<1>1. /\ OwnOnly(s) /\ UNCHANGED <<connVars, sourceVars, ready, threadVars, events, sender>>
  BY EncoderOwn DEF Encode, Typed
<1>2. sender[s] # "none" /\ \A r \in Session \ {s} : SameFresh(r)
  BY <1>1 DEF OwnOnly, SessInv, FreshInv, SameFresh, sourceVars, threadVars
<1>3. FreshInv'
  BY <1>1, <1>2, OthersFresh DEF SessInv
<1>4. RequestInv'
  BY <1>1 DEF OwnOnly, SessInv, RequestInv, connVars, sourceVars
<1>5. ConnInv'
  BY <1>1 DEF SessInv, ConnInv, connVars, sourceVars
<1>6. ThreadInv'
  BY <1>1 DEF SessInv, ThreadInv, Running, connVars, sourceVars
<1>7. NewsInv'
  BY <1>1, SameNews DEF SessInv, NewsInv, RequestInv, Running, NoCall, connVars, sourceVars
<1> QED BY <1>3, <1>4, <1>5, <1>6, <1>7 DEF SessInv

\* Encode keeps the types.
LEMMA EncodeTyped ==
  ASSUME Typed, EncInv, NEW s \in Session, Encode(s)
  PROVE  Typed' /\ EncInv'
<1>1. SlotTypes' /\ WorkTypes' /\ EncInv'
  BY EncoderGood DEF Encode, EncGood, Typed
<1>2. ConnTypes'
  BY DEF Encode, Typed, ConnTypes, connVars
<1>3. SourceTypes' /\ ThreadTypes'
  BY DEF Encode, Typed, SourceTypes, ThreadTypes, sourceVars, threadVars
<1>4. HistTypes'
  BY DEF Encode, Typed, HistTypes, connVars, histVars
<1> QED BY <1>1, <1>2, <1>3, <1>4 DEF Typed

\* Everybody else leaves the encoders alone, but the one who starts one.
LEMMA StillEnc ==
  ASSUME EncInv, UNCHANGED <<enc, backendVars, exit>>
  PROVE  EncInv'
BY DEF EncInv, FragmentsKept, backendVars

\* The encoder that SpawnTasks starts has touched nothing.
LEMMA SpawnTasksEnc ==
  ASSUME Typed, EncInv, RequestInv, SpawnTasks
  PROVE  EncInv'
<1>1. call.s \in Session /\ enc[call.s] = "none"
  BY NoCallIs DEF RequestInv, SpawnTasks
<1>2. Enc(call.s, "clear") /\ UNCHANGED <<backendVars, exit>>
  BY DEF SpawnTasks
<1>3. EncGood
  BY DEF Typed, EncGood
<1> QED BY <1>1, <1>2, <1>3, EarlyHasNothing, StationKeepsEnc

-----------------------------------------------------------------------------
(* Frames, markers and formats                                               *)

\* What may follow the last item of the channel keeps formats apart.
LEMMA SteadyAppend ==
  ASSUME NEW l \in Item, NEW c \in Seq(Item), NEW x \in Item, Steady(l, c),
         x = Marker \/ LastIn(l, c) \in {Marker, x}
  PROVE  /\ Append(c, x) \in Seq(Item) /\ Steady(l, Append(c, x))
         /\ LastIn(l, Append(c, x)) = x
<1> DEFINE d == Append(c, x)
<1>1. /\ d \in Seq(Item) /\ Len(d) = Len(c) + 1 /\ d[Len(c) + 1] = x /\ d # <<>>
      /\ \A i \in 1 .. Len(c) : d[i] = c[i]
  OBVIOUS
<1> HIDE DEF d
<1>2. LastIn(l, d) = x
  BY <1>1 DEF LastIn
<1>3. {l, d[1]} \subseteq Format => l = d[1]
  <2>1. CASE c = <<>>
    <3>1. d[1] = x /\ LastIn(l, c) = l
      BY <1>1, <2>1 DEF LastIn
    <3> QED BY <3>1, EncoderAssumption DEF Format, Marker
  <2>2. CASE c # <<>>
    BY <1>1, <2>2 DEF Steady
  <2> QED BY <2>1, <2>2
<1>4. ASSUME NEW i \in 1 .. Len(d) - 1, {d[i], d[i + 1]} \subseteq Format
      PROVE  d[i] = d[i + 1]
  <2>1. CASE i = Len(c)
    <3>1. c # <<>> /\ d[i] = c[Len(c)] /\ d[i + 1] = x
      BY <1>1, <2>1
    <3>2. LastIn(l, c) = d[i]
      BY <3>1 DEF LastIn
    <3> QED BY <1>4, <3>1, <3>2, EncoderAssumption DEF Format, Marker
  <2>2. CASE i # Len(c)
    <3>1. i \in 1 .. Len(c) - 1 /\ d[i] = c[i] /\ d[i + 1] = c[i + 1]
      BY <1>1, <2>2
    <3> QED BY <1>4, <3>1 DEF Steady
  <2> QED BY <2>1, <2>2
<1>5. Steady(l, d)
  BY <1>3, <1>4 DEF Steady
<1> QED BY <1>1, <1>2, <1>5 DEF d

\* Steady keeps frames of two formats apart.
LEMMA SteadyMarker ==
  ASSUME NEW l \in Item, NEW c \in Seq(Item), Steady(l, c)
  PROVE  /\ Append(c, Marker) \in Seq(Item) /\ Steady(l, Append(c, Marker))
         /\ LastIn(l, Append(c, Marker)) = Marker
<1>1. Marker \in Item
  BY DEF Item
<1> QED BY <1>1, SteadyAppend

\* So does a channel whose head has been taken, after the head or after a marker.
LEMMA SteadyTail ==
  ASSUME NEW l \in Item, NEW c \in Seq(Item), c # <<>>, Steady(l, c)
  PROVE  /\ Head(c) \in Item /\ Tail(c) \in Seq(Item)
         /\ Steady(Head(c), Tail(c)) /\ LastIn(Head(c), Tail(c)) = LastIn(l, c)
         /\ Steady(Marker, Tail(c)) /\ LastIn(Marker, Tail(c)) \in {Marker, LastIn(l, c)}
<1> DEFINE d == Tail(c)
           h == Head(c)
<1>0. h = c[1] /\ h \in Item
  OBVIOUS
<1>1. /\ d \in Seq(Item) /\ Len(d) = Len(c) - 1 /\ h = c[1] /\ h \in Item
      /\ \A i \in 1 .. Len(d) : d[i] = c[i + 1]
  BY <1>0, HeadTailProperties
<1>2. d = <<>> <=> Len(c) = 1
  BY <1>1, Len(c) \in Nat
<1> HIDE DEF d, h
<1>3. \A i \in 1 .. Len(d) - 1 : {d[i], d[i + 1]} \subseteq Format => d[i] = d[i + 1]
  BY <1>1 DEF Steady
<1>4. d # <<>> => d[1] = c[2] /\ 1 \in 1 .. Len(c) - 1
  BY <1>1, <1>2
<1>5. Steady(h, d)
  BY <1>1, <1>3, <1>4 DEF Steady
<1>6. Steady(Marker, d)
  BY <1>3 DEF Steady, Format, Marker
<1>7. /\ d = <<>> => c[Len(c)] = h
      /\ d # <<>> => d[Len(d)] = c[Len(c)]
  BY <1>1, <1>2
<1>8. LastIn(h, d) = LastIn(l, c) /\ LastIn(Marker, d) \in {Marker, LastIn(l, c)}
  BY <1>7 DEF LastIn
<1> QED BY <1>1, <1>5, <1>6, <1>8 DEF d, h

\* What the property says of the channel behind what was taken last.
LEMMA SteadyIs ==
  ASSUME NEW l \in Item, NEW c \in Seq(Item), Steady(l, c)
  PROVE  LET seen == <<l>> \o c
         IN  \A i \in 1 .. Len(seen) - 1 :
               {seen[i], seen[i + 1]} \subseteq Format => seen[i] = seen[i + 1]
<1> DEFINE seen == <<l>> \o c
<1>1. /\ seen \in Seq(Item) /\ Len(seen) = Len(c) + 1 /\ seen[1] = l
      /\ \A i \in 1 .. Len(c) : seen[i + 1] = c[i]
  OBVIOUS
<1> HIDE DEF seen
<1>2. ASSUME NEW i \in 1 .. Len(seen) - 1, {seen[i], seen[i + 1]} \subseteq Format
      PROVE  seen[i] = seen[i + 1]
  <2>1. CASE i = 1
    <3>1. c # <<>> /\ seen[i] = l /\ seen[i + 1] = c[1]
      BY <1>1, <2>1
    <3> QED BY <1>2, <3>1 DEF Steady
  <2>2. CASE i # 1
    <3>1. i - 1 \in 1 .. Len(c) - 1 /\ i - 1 \in 1 .. Len(c) /\ i \in 1 .. Len(c) /\ (i - 1) + 1 = i
      BY <1>1, <2>2
    <3>2. seen[i] = c[i - 1] /\ seen[i + 1] = c[(i - 1) + 1]
      BY <1>1, <3>1
    <3> QED BY <1>2, <3>1, <3>2 DEF Steady
  <2> QED BY <2>1, <2>2
<1> QED BY <1>2 DEF seen

\* The property, and what is left of it when a step leaves s alone.
LEMMA MarkerInvGives ==
  ASSUME SlotTypes, WorkTypes, MarkerInv
  PROVE  MarkerFirst
<1>1. ASSUME NEW s \in Session \ rejected
      PROVE  LET seen == <<last[s]>> \o channel[s]
             IN  \A i \in 1 .. Len(seen) - 1 :
                   {seen[i], seen[i + 1]} \subseteq Format => seen[i] = seen[i + 1]
  <2>1. last[s] \in Item /\ channel[s] \in Seq(Item) /\ Steady(last[s], channel[s])
    BY DEF SlotTypes, WorkTypes, MarkerInv, MarkerOK
  <2> QED BY <2>1, SteadyIs
<1> QED BY <1>1 DEF MarkerFirst

\* Nothing of any stream changes.
LEMMA MarkerStill ==
  ASSUME MarkerInv, UNCHANGED <<last, channel, receiver, sender, ready, threadVars, rejected>>
  PROVE  MarkerInv'
BY DEF MarkerInv, MarkerOK, Running, threadVars

\* The stream of r goes on as it was, or its thread has ended.
SameMarker(r) ==
  /\ last'[r] = last[r] /\ channel'[r] = channel[r]
  /\ \/ sender'[r] # "open"
     \/ /\ sender'[r] = sender[r] /\ receiver'[r] = receiver[r] /\ format'[r] = format[r]
        /\ markerDue'[r] = markerDue[r] /\ streaming'[r] = streaming[r]
        /\ negotiated'[r] = negotiated[r] /\ ready'[r] \in {ready[r], "none", "ok", "failed"}

\* A stream that goes on as it was, or ends.
LEMMA SameMarkerOK ==
  ASSUME NEW r \in Session, MarkerOK(r), SameMarker(r)
  PROVE  MarkerOK(r)'
BY DEF MarkerOK, SameMarker, Running

\* Nobody will read the channel of r any more.
Emptied(r) ==
  /\ channel'[r] = <<>> /\ receiver'[r] # "open"
  /\ last'[r] \in {last[r], Marker} \/ (channel[r] # <<>> /\ last'[r] = Head(channel[r]))
  /\ UNCHANGED <<sender, threadVars>> /\ ready'[r] \in {ready[r], "none"}

\* A channel that nobody will read.
LEMMA EmptiedOK ==
  ASSUME SlotTypes, NEW r \in Session, MarkerOK(r), Emptied(r)
  PROVE  MarkerOK(r)'
<1>1. Steady(last[r], channel[r])'
  BY DEF Steady, Emptied
<1>2. (~streaming[r] \/ ~negotiated[r]) /\ Running(r) => last'[r] = Marker
  <2>1. channel[r] # <<>> => 1 \in DOMAIN channel[r] /\ Head(channel[r]) = channel[r][1]
    BY DEF SlotTypes
  <2> QED BY <2>1 DEF MarkerOK, Emptied
<1>3. DOMAIN channel'[r] = {}
  BY DEF Emptied
<1> QED BY <1>1, <1>2, <1>3 DEF MarkerOK, Emptied, threadVars, Running

\* The task takes what is at the head; one that throws frames away has seen none.
Taken(r) ==
  /\ channel[r] # <<>> /\ channel'[r] = Tail(channel[r]) /\ receiver'[r] = receiver[r]
  /\ last'[r] = Head(channel[r]) \/ (last[r] = Marker /\ last'[r] = Marker)
  /\ UNCHANGED <<sender, threadVars, ready>>

\* A channel whose head the task has taken.
LEMMA TakenOK ==
  ASSUME SlotTypes, WorkTypes, NEW r \in Session, MarkerOK(r), Taken(r)
  PROVE  MarkerOK(r)'
<1> DEFINE l == last[r]
           c == channel[r]
           d == channel'[r]
<1>1. l \in Item /\ c \in Seq(Item) /\ c # <<>> /\ Steady(l, c) /\ d = Tail(c)
  BY DEF SlotTypes, WorkTypes, MarkerOK, Taken
<1>2. /\ Steady(Head(c), Tail(c)) /\ LastIn(Head(c), Tail(c)) = LastIn(l, c)
      /\ Steady(Marker, Tail(c)) /\ LastIn(Marker, Tail(c)) \in {Marker, LastIn(l, c)}
  BY <1>1, SteadyTail
<1>3. Steady(last'[r], d) /\ LastIn(last'[r], d) \in {Marker, LastIn(l, c)}
  BY <1>1, <1>2 DEF Taken
<1>4. (\A i \in DOMAIN c : c[i] = Marker) => Head(c) = Marker /\ \A i \in DOMAIN d : d[i] = Marker
  <2>1. /\ Head(c) = c[1] /\ 1 \in DOMAIN c
        /\ \A i \in DOMAIN d : d[i] = c[i + 1] /\ i + 1 \in DOMAIN c
    BY <1>1
  <2> QED BY <2>1
<1>5. (~streaming[r] \/ ~negotiated[r]) /\ Running(r)
        => last'[r] = Marker /\ \A i \in DOMAIN d : d[i] = Marker
  BY <1>4 DEF MarkerOK, Taken
<1>6. Steady(last[r], channel[r])' /\ LastIn(last[r], channel[r])' \in {Marker, LastIn(l, c)}
  BY <1>3
<1> QED BY <1>5, <1>6 DEF MarkerOK, Taken, Running, threadVars

\* What a step of the thread, the task or the request of s does to the others.
LEMMA OneMarkerOK ==
  ASSUME MarkerInv, rejected \subseteq rejected', NEW s \in Session,
         s \in rejected' \/ MarkerOK(s)', \A r \in Session \ {s} : SameMarker(r)
  PROVE  MarkerInv'
<1>1. ASSUME NEW r \in Session \ rejected'
      PROVE  MarkerOK(r)'
  BY SameMarkerOK DEF MarkerInv
<1>2. (\A r \in Session \ rejected : MarkerOK(r))' => MarkerInv'
  BY DEF MarkerInv
<1> QED BY <1>1, <1>2

\* Encode keeps frames of two formats apart.
LEMMA EncodeMarker ==
  ASSUME Typed, EncInv, MarkerInv, NEW s \in Session, Encode(s)
  PROVE  MarkerInv'
<1>1. EncoderStep(s) /\ UNCHANGED <<ready, threadVars, rejected, sender>>
  BY DEF Encode, histVars
<1>2. \A r \in Session \ {s} : SameMarker(r)
  BY <1>1, EncoderOwn DEF Typed, OwnOnly, SameMarker, threadVars
<1>3. Taken(s) \/ Emptied(s) \/ SameMarker(s)
  <2>1. ASSUME ClearBuffer(s) \/ Probe(s) \/ InstallBuffer(s) \/ StreamEnded(s) \/ FinalPull(s) \/ FinalFlush(s)
        PROVE  SameMarker(s)
    <3>1. UNCHANGED <<channel, receiver, last>>
      BY <2>1 DEF ClearBuffer, Probe, InstallBuffer, StreamEnded, FinalPull, FinalFlush,
         backendVars
    <3> QED BY <1>1, <3>1 DEF SameMarker, threadVars
  <2>2. ASSUME Terminal(s)
        PROVE  channel'[s] = <<>> /\ receiver'[s] # "open"
    BY <2>2 DEF Terminal, CloseReceiver, Typed, SlotTypes
  <2>3. ASSUME channel[s] # <<>>, channel' = [channel EXCEPT ![s] = Tail(@)]
        PROVE  channel'[s] = Tail(channel[s])
    BY <2>3 DEF Typed, SlotTypes
  <2>4. ASSUME Discard(s)
        PROVE  Taken(s) \/ Emptied(s)
    <3>1. last[s] = Marker /\ last' = last
      BY <2>4 DEF Discard, EncInv, backendVars
    <3>2. CASE channel[s] # <<>> /\ channel' = [channel EXCEPT ![s] = Tail(@)] /\ UNCHANGED receiver
      BY <1>1, <2>3, <3>1, <3>2 DEF Taken
    <3>3. CASE CloseReceiver(s)
      BY <1>1, <3>1, <3>3 DEF Emptied, CloseReceiver, Typed, SlotTypes
    <3> QED BY <2>4, <3>2, <3>3 DEF Discard
  <2>5. ASSUME Configure(s)
        PROVE  SameMarker(s) \/ Emptied(s)
    BY <1>1, <2>2, <2>5 DEF Configure, SameMarker, Emptied, backendVars, threadVars
  <2>6. ASSUME EncodeFrame(s) \/ FormatChange(s)
        PROVE  Taken(s) \/ Emptied(s)
    <3>1. /\ channel[s] # <<>> /\ last' = [last EXCEPT ![s] = Head(channel[s])]
          /\ \/ channel' = [channel EXCEPT ![s] = Tail(@)] /\ UNCHANGED receiver
             \/ Terminal(s)
      BY <2>6 DEF EncodeFrame, FormatChange, DrainFragments
    <3>2. last'[s] = Head(channel[s])
      BY <3>1 DEF Typed, WorkTypes
    <3> QED BY <1>1, <2>2, <2>3, <3>1, <3>2 DEF Taken, Emptied
  <2>7. ASSUME Finalize(s)
        PROVE  Emptied(s)
    BY <1>1, <2>7 DEF Finalize, CloseReceiver, Emptied, Typed, SlotTypes
  <2> QED BY <1>1, <2>1, <2>4, <2>5, <2>6, <2>7 DEF EncoderStep
<1>4. s \in rejected' \/ MarkerOK(s)'
  <2>1. CASE s \in rejected
    BY <1>1, <2>1
  <2>2. CASE s \notin rejected
    BY <1>3, <2>2, TakenOK, EmptiedOK, SameMarkerOK DEF MarkerInv, Typed
  <2> QED BY <2>1, <2>2
<1> QED BY <1>1, <1>2, <1>4, OneMarkerOK

\* The request that starts s gives up.
LEMMA DropMarker ==
  ASSUME Typed, MarkerInv, NEW s \in Session, DropStart(s), UNCHANGED <<last, sender, threadVars, rejected>>
  PROVE  MarkerInv'
<1>1. Emptied(s) /\ \A r \in Session \ {s} : SameMarker(r)
  BY DEF DropStart, CloseReceiver, Emptied, SameMarker, Typed, SlotTypes, threadVars
<1>2. s \in rejected' \/ MarkerOK(s)'
  <2>1. CASE s \in rejected
    BY <2>1
  <2>2. CASE s \notin rejected
    BY <1>1, <2>2, EmptiedOK DEF MarkerInv, Typed
  <2> QED BY <2>1, <2>2
<1> QED BY <1>1, <1>2, OneMarkerOK

\* StreamFails keeps frames of two formats apart.
LEMMA StreamFailsMarker ==
  ASSUME Typed, RequestInv, MarkerInv, StreamFails
  PROVE  MarkerInv'
<1>1. call.s \in Session /\ DropStart(call.s) /\ UNCHANGED <<last, sender, threadVars, rejected>>
  BY NoCallIs DEF StreamFails, RequestInv, backendVars, histVars
<1> QED BY <1>1, DropMarker

\* AbortLands keeps frames of two formats apart.
LEMMA AbortLandsMarker ==
  ASSUME Typed, RequestInv, MarkerInv, AbortLands
  PROVE  MarkerInv'
<1>1. UNCHANGED <<last, sender, threadVars, rejected>>
  BY DEF AbortLands, backendVars, histVars
<1>2. CASE call.op = "start" /\ call.at # "failed"
  <2>1. call.s \in Session /\ DropStart(call.s)
    BY <1>2, RequestHas DEF AbortLands
  <2> QED BY <1>1, <2>1, DropMarker
<1>3. CASE ~(call.op = "start" /\ call.at # "failed")
  BY <1>1, <1>3, MarkerStill DEF AbortLands
<1> QED BY <1>2, <1>3

\* StreamReady keeps frames of two formats apart.
LEMMA StreamReadyMarker ==
  ASSUME Typed, MarkerInv, StreamReady
  PROVE  MarkerInv'
<1>1. /\ UNCHANGED <<last, channel, receiver, sender, threadVars, rejected>>
      /\ ready' = [ready EXCEPT ![call.s] = "none"]
  BY DEF StreamReady, encVars, backendVars
<1>2. \A r \in Session : SameMarker(r)
  BY <1>1 DEF SameMarker, threadVars, Typed, ThreadTypes
<1> QED BY <1>1, <1>2, SameMarkerOK DEF MarkerInv

\* StartStream keeps frames of two formats apart.
LEMMA StartStreamMarker ==
  ASSUME Typed, SessInv, EncInv, MarkerInv, StartStream
  PROVE  MarkerInv'
<1>0. PICK s \in Session : s = active
  BY DEF StartStream, Typed, ConnTypes
<1>1. /\ phase[s] = "SessionRequested"
      /\ UNCHANGED <<last, channel, threadVars, rejected>>
  BY <1>0 DEF StartStream, backendVars, histVars
<1>2. sender[s] = "none"
  BY <1>1 DEF SessInv, ConnInv
<1>3. CASE UNCHANGED <<sender, receiver, ready>>
  BY <1>1, <1>3, MarkerStill
<1>4. CASE /\ sender' = [sender EXCEPT ![s] = "open"]
           /\ receiver' = [receiver EXCEPT ![s] = "open"]
           /\ ready' = [ready EXCEPT ![s] = "waiting"]
  <2>1. \A r \in Session \ {s} : SameMarker(r)
    BY <1>1, <1>4 DEF SameMarker, threadVars
  <2>2. /\ channel'[s] = <<>> /\ last'[s] = Marker
        /\ ~streaming'[s] /\ ~negotiated'[s]
    BY <1>1, <1>2 DEF SessInv, FreshInv, EncInv, threadVars
  <2>3. DOMAIN channel'[s] = {}
    BY <2>2
  <2>4. MarkerOK(s)'
    BY <2>2, <2>3 DEF MarkerOK, Steady, LastIn
  <2> QED BY <1>1, <2>1, <2>4, OneMarkerOK
<1> QED BY <1>0, <1>3, <1>4 DEF StartStream

\* A thread that answers, or ends, has not begun to wait.
LEMMA AnswerIs ==
  ASSUME ThreadTypes, NEW s \in Session, NEW how \in {"ok", "failed"}, Answer(s, how)
  PROVE  ready'[s] # "waiting" /\ \A r \in Session \ {s} : ready'[r] = ready[r]
BY DEF ThreadTypes, Answer

\* Ended keeps frames of two formats apart.
LEMMA EndedMarker ==
  ASSUME Typed, MarkerInv, NEW s \in Session, Ended(s),
         UNCHANGED <<last, channel, receiver, format, rejected>>
  PROVE  MarkerInv'
<1>1. \A r \in Session : SameMarker(r)
  BY DEF Ended, Answer, SameMarker, Typed, SourceTypes, ThreadTypes
<1> QED BY <1>1, SameMarkerOK DEF MarkerInv

\* Reject keeps frames of two formats apart.
LEMMA RejectMarker ==
  ASSUME Typed, MarkerInv, NEW s \in Session, Reject(s)
  PROVE  MarkerInv'
<1>1. /\ rejected' = rejected \cup {s} /\ negotiated' = [negotiated EXCEPT ![s] = FALSE]
      /\ UNCHANGED <<last, channel, receiver, sender, streaming, format, markerDue>>
      /\ Answer(s, "failed")
  BY DEF Reject, threadFrame, backendVars
<1>2. \A r \in Session \ {s} : SameMarker(r)
  BY <1>1, AnswerIs DEF SameMarker, Typed, ThreadTypes
<1> QED BY <1>1, <1>2, OneMarkerOK

\* StreamError keeps frames of two formats apart.
LEMMA StreamErrorMarker ==
  ASSUME Typed, MarkerInv, NEW s \in Session, StreamError(s)
  PROVE  MarkerInv'
<1>1. /\ UNCHANGED <<last, channel, receiver, sender, threadVars, rejected>>
      /\ Answer(s, "failed") \/ UNCHANGED ready
  BY DEF StreamError, encVars, backendVars
<1>2. \A r \in Session : SameMarker(r)
  BY <1>1 DEF SameMarker, threadVars, Answer, Typed, ThreadTypes
<1> QED BY <1>1, <1>2, SameMarkerOK DEF MarkerInv

\* StreamStarts keeps frames of two formats apart.
LEMMA StreamStartsMarker ==
  ASSUME Typed, MarkerInv, NEW s \in Session, StreamStarts(s)
  PROVE  MarkerInv'
<1>1. /\ Running(s) /\ ~streaming[s] /\ streaming' = [streaming EXCEPT ![s] = TRUE]
      /\ IF negotiated[s] THEN Answer(s, "ok") ELSE UNCHANGED ready
      /\ UNCHANGED <<last, channel, receiver, sender, negotiated, format, markerDue, rejected>>
  BY DEF StreamStarts, threadFrame, backendVars, histVars
<1>2. \A r \in Session \ {s} : SameMarker(r)
  BY <1>1, AnswerIs DEF SameMarker, Typed, ThreadTypes
<1>3. negotiated[s] => ready'[s] # "waiting"
  BY <1>1, AnswerIs DEF Typed
<1>4. s \in rejected' \/ MarkerOK(s)'
  BY <1>1, <1>3 DEF MarkerInv, MarkerOK, Running
<1> QED BY <1>1, <1>2, <1>4, OneMarkerOK

\* A format that is known, and a marker in the channel or due if it is another one.
LEMMA NegotiateMarker ==
  ASSUME Typed, MarkerInv, NEW s \in Session, Negotiate(s)
  PROVE  MarkerInv'
<1> DEFINE changed == streaming[s] /\ ready[s] # "waiting" /\ negotiated[s]
<1>1. /\ Running(s) /\ negotiated' = [negotiated EXCEPT ![s] = TRUE]
      /\ format' = [format EXCEPT ![s] = @ + 1]
      /\ IF streaming[s] THEN Answer(s, "ok") ELSE UNCHANGED ready
      /\ UNCHANGED <<last, receiver, sender, streaming, rejected>>
  BY DEF Negotiate, threadFrame, backendVars, histVars
<1>2. /\ changed => \/ Room(s) /\ Enqueue(s, Marker) /\ UNCHANGED markerDue
                    \/ ~Room(s) /\ markerDue' = [markerDue EXCEPT ![s] = TRUE] /\ UNCHANGED channel
      /\ ~changed => UNCHANGED <<channel, markerDue>>
  BY DEF Negotiate
<1>3. \A r \in Session \ {s} : ready'[r] = ready[r]
  BY <1>1, AnswerIs DEF Typed
<1>4. \A r \in Session \ {s} : SameMarker(r)
  BY <1>1, <1>2, <1>3 DEF SameMarker, Enqueue, Typed, SlotTypes, ThreadTypes
<1>5. negotiated'[s] /\ (streaming'[s] => ready'[s] # "waiting")
  BY <1>1, AnswerIs DEF Typed, ThreadTypes
<1>6. ASSUME s \notin rejected
      PROVE  MarkerOK(s)'
  <2>1. MarkerOK(s) /\ last[s] \in Item /\ channel[s] \in Seq(Item)
    BY <1>6 DEF MarkerInv, Typed, SlotTypes, WorkTypes
  <2>2. CASE changed
    <3>1. CASE Room(s) /\ Enqueue(s, Marker) /\ UNCHANGED markerDue
      <4>1. channel'[s] = Append(channel[s], Marker)
        BY <3>1 DEF Enqueue, Typed, SlotTypes
      <4>2. Marker \in Item /\ Steady(last[s], channel[s])
        BY <2>1 DEF Item, MarkerOK
      <4>3. Steady(last[s], channel[s])' /\ LastIn(last[s], channel[s])' = Marker
        BY <1>1, <2>1, <4>1, <4>2, SteadyAppend
      <4> QED BY <1>1, <1>5, <2>2, <4>3 DEF MarkerOK
    <3>2. CASE markerDue' = [markerDue EXCEPT ![s] = TRUE] /\ UNCHANGED channel
      <4>1. markerDue'[s]
        BY <3>2 DEF Typed, ThreadTypes
      <4> QED BY <1>1, <1>5, <2>1, <2>2, <3>2, <4>1 DEF MarkerOK
    <3> QED BY <1>2, <2>2, <3>1, <3>2
  <2>3. CASE ~changed
    <3>1. UNCHANGED <<channel, markerDue>>
      BY <1>2, <2>3
    <3>2. last[s] = Marker /\ \A i \in DOMAIN channel[s] : channel[s][i] = Marker
      BY <1>1, <2>1, <2>3 DEF MarkerOK
    <3>3. LastIn(last[s], channel[s]) = Marker
      <4>1. channel[s] # <<>> => Len(channel[s]) \in DOMAIN channel[s]
        BY <2>1
      <4> QED BY <3>2, <4>1 DEF LastIn
    <3> QED BY <1>1, <1>5, <2>1, <3>1, <3>2, <3>3 DEF MarkerOK
  <2> QED BY <2>2, <2>3
<1> QED BY <1>1, <1>4, <1>6, OneMarkerOK

\* What one try_send of a frame does to the channel, and of a marker before it.
LEMMA ProcessSends ==
  ASSUME Typed, NEW s \in Session, Process(s)
  PROVE  /\ channel[s] \in Seq(Item) /\ format[s] \in Item /\ Marker \in Item
         /\ channel'[s] \in
              IF markerDue[s]
              THEN {Append(channel[s], Marker)}
                   \cup (IF negotiated[s] THEN {Append(Append(channel[s], Marker), format[s])} ELSE {})
              ELSE IF negotiated[s] THEN {Append(channel[s], format[s])} ELSE {channel[s]}
<1> DEFINE c == channel[s]
           f == format[s]
<1>1. c \in Seq(Item) /\ f \in Item /\ Marker \in Item
  BY DEF Typed, SlotTypes, ThreadTypes, Item, Marker, None
<1>2. Len(c) < Capacity /\ Capacity \in Nat
  BY EncoderAssumption DEF Process, Room
<1>3. PICK sent :
        /\ sent = c \o (IF markerDue[s] THEN <<Marker>> ELSE <<>>)
                  \o (IF negotiated[s] THEN <<f>> ELSE <<>>)
        /\ channel' = [channel EXCEPT ![s] = SubSeq(sent, 1, Least(Len(sent), Capacity))]
  BY DEF Process
<1>4. channel'[s] = SubSeq(sent, 1, Least(Len(sent), Capacity))
  BY <1>3 DEF Typed, SlotTypes
<1> HIDE DEF c, f
<1>5. \A d \in Seq(Item) : \A x \in Item : /\ Append(d, x) = d \o <<x>> /\ Append(d, x) \in Seq(Item)
                                          /\ d \o <<>> = d /\ Len(Append(d, x)) = Len(d) + 1
  BY AppendIsConcat, ConcatEmptySeq, AppendProperties
<1>6. \A d \in Seq(Item) : Len(d) <= Capacity => SubSeq(d, 1, Least(Len(d), Capacity)) = d
  <2>1. SUFFICES ASSUME NEW d \in Seq(Item), Len(d) <= Capacity
                 PROVE  SubSeq(d, 1, Least(Len(d), Capacity)) = d
    OBVIOUS
  <2>2. Least(Len(d), Capacity) = Len(d)
    BY <1>2, <2>1 DEF Least
  <2> QED BY <2>2, SubSeqFull
<1>7. \A d \in Seq(Item) : \A x \in Item :
        Len(d) = Capacity => SubSeq(Append(d, x), 1, Least(Len(Append(d, x)), Capacity)) = d
  <2>1. SUFFICES ASSUME NEW d \in Seq(Item), NEW x \in Item, Len(d) = Capacity
                 PROVE  SubSeq(Append(d, x), 1, Least(Len(Append(d, x)), Capacity)) = d
    OBVIOUS
  <2>2. Least(Len(Append(d, x)), Capacity) = Len(d)
    BY <1>2, <1>5, <2>1 DEF Least
  <2>3. /\ SubSeq(Append(d, x), 1, Len(d)) \in Seq(Item)
        /\ Len(SubSeq(Append(d, x), 1, Len(d))) = Len(d)
        /\ \A i \in 1 .. Len(d) : SubSeq(Append(d, x), 1, Len(d))[i] = d[i]
    OBVIOUS
  <2>4. SubSeq(Append(d, x), 1, Len(d)) = d
    BY <2>3, SeqEqual
  <2> QED BY <2>2, <2>4
<1>8. CASE markerDue[s] /\ negotiated[s]
  <2> DEFINE d == Append(c, Marker)
  <2>1. d \in Seq(Item) /\ Len(d) = Len(c) + 1 /\ d = c \o <<Marker>>
    BY <1>1, <1>5
  <2> HIDE DEF d
  <2>2. sent = Append(d, f) /\ Append(d, f) \in Seq(Item) /\ Len(Append(d, f)) = Len(d) + 1
    BY <1>1, <1>3, <1>5, <1>8, <2>1
  <2>3. CASE Len(d) = Capacity
    <3>1. channel'[s] = d
      BY <1>1, <1>4, <1>7, <2>1, <2>2, <2>3
    <3> QED BY <1>1, <1>8, <3>1 DEF c, d, f
  <2>4. CASE Len(d) # Capacity
    <3>1. Len(sent) <= Capacity /\ sent \in Seq(Item)
      BY <1>2, <2>1, <2>2, <2>4
    <3> QED BY <1>1, <1>4, <1>6, <1>8, <2>2, <3>1 DEF c, d, f
  <2> QED BY <2>3, <2>4
<1>9. CASE markerDue[s] /\ ~negotiated[s]
  <2>1. /\ Append(c, Marker) \in Seq(Item) /\ Len(Append(c, Marker)) = Len(c) + 1
        /\ sent = Append(c, Marker)
    BY <1>1, <1>3, <1>5, <1>9
  <2>2. Len(sent) <= Capacity /\ sent \in Seq(Item)
    BY <1>2, <2>1
  <2> QED BY <1>1, <1>4, <1>6, <1>9, <2>1, <2>2 DEF c, f
<1>10. CASE ~markerDue[s] /\ negotiated[s]
  <2>1. Append(c, f) \in Seq(Item) /\ Len(Append(c, f)) = Len(c) + 1 /\ sent = Append(c, f)
    BY <1>1, <1>3, <1>5, <1>10
  <2>2. Len(sent) <= Capacity /\ sent \in Seq(Item)
    BY <1>2, <2>1
  <2> QED BY <1>1, <1>4, <1>6, <1>10, <2>1, <2>2 DEF c, f
<1>11. CASE ~markerDue[s] /\ ~negotiated[s]
  <2>1. sent = c
    BY <1>1, <1>3, <1>5, <1>11
  <2> QED BY <1>1, <1>2, <1>4, <1>6, <1>11, <2>1 DEF c, f
<1> QED BY <1>8, <1>9, <1>10, <1>11

\* Process keeps frames of two formats apart.
LEMMA ProcessMarker ==
  ASSUME Typed, MarkerInv, NEW s \in Session, Process(s)
  PROVE  MarkerInv'
<1>1. /\ Running(s) /\ streaming[s] /\ markerDue' = [markerDue EXCEPT ![s] = FALSE]
      /\ UNCHANGED <<last, receiver, sender, streaming, negotiated, format, ready, rejected>>
      /\ receiver[s] = "open"
  BY DEF Process, threadFrame, backendVars, Room
<1>2. \A r \in Session \ {s} : channel'[r] = channel[r] /\ markerDue'[r] = markerDue[r]
  <2>1. \E q : channel' = [channel EXCEPT ![s] = q]
    BY DEF Process
  <2> QED BY <1>1, <2>1 DEF Typed, SlotTypes, ThreadTypes
<1>3. \A r \in Session \ {s} : SameMarker(r)
  BY <1>1, <1>2 DEF SameMarker
<1>4. ASSUME s \notin rejected
      PROVE  MarkerOK(s)'
  <2> DEFINE l == last[s]
             c == channel[s]
             d == channel'[s]
             f == format[s]
             cm == Append(channel[s], Marker)
  <2>1. /\ MarkerOK(s) /\ l \in Item /\ c \in Seq(Item) /\ Steady(l, c) /\ f \in Item
        /\ Marker \in Item /\ (LastIn(l, c) \in {Marker, f} \/ markerDue[s])
    BY <1>1, <1>4, ProcessSends DEF MarkerInv, MarkerOK, Typed, WorkTypes
  <2>2. cm \in Seq(Item) /\ Steady(l, cm) /\ LastIn(l, cm) = Marker
    BY <2>1, SteadyMarker
  <2>3. Steady(l, d) /\ LastIn(l, d) \in {Marker, f}
    <3>1. CASE markerDue[s]
      <4>1. Steady(l, Append(cm, f)) /\ LastIn(l, Append(cm, f)) = f
        BY <2>1, <2>2, SteadyAppend
      <4>2. d = cm \/ d = Append(cm, f)
        BY <3>1, ProcessSends
      <4> QED BY <2>2, <4>1, <4>2
    <3>2. CASE ~markerDue[s]
      <4>1. Steady(l, Append(c, f)) /\ LastIn(l, Append(c, f)) = f
        BY <2>1, <3>2, SteadyAppend
      <4>2. d = c \/ d = Append(c, f)
        BY <3>2, ProcessSends
      <4> QED BY <2>1, <3>2, <4>1, <4>2
    <3> QED BY <3>1, <3>2
  <2>4. ~negotiated[s] => l = Marker /\ \A i \in DOMAIN d : d[i] = Marker
    <3>1. SUFFICES ASSUME ~negotiated[s]
                   PROVE  l = Marker /\ \A i \in DOMAIN d : d[i] = Marker
      OBVIOUS
    <3>2. l = Marker /\ \A i \in DOMAIN c : c[i] = Marker
      BY <1>1, <2>1, <3>1 DEF MarkerOK
    <3>3. d = c \/ d = cm
      BY <3>1, ProcessSends
    <3>4. \A i \in DOMAIN cm : cm[i] = Marker
      BY <2>1, <3>2
    <3> QED BY <3>2, <3>3, <3>4
  <2>5. Steady(last[s], channel[s])' /\ LastIn(last[s], channel[s])' \in {Marker, format'[s]}
    BY <1>1, <2>3
  <2>6. streaming[s] /\ negotiated[s] => ready[s] # "waiting"
    BY <1>1, <2>1 DEF MarkerOK
  <2> QED BY <1>1, <2>4, <2>5, <2>6 DEF MarkerOK, Running
<1> QED BY <1>1, <1>3, <1>4, OneMarkerOK

-----------------------------------------------------------------------------
(* The buffer that is offered                                                *)

\* No session settles, and nobody touches the buffer.
LEMMA SlotStill ==
  ASSUME SlotInv, UNCHANGED <<buffer, enc, late>>, \A s \in Session : Settled(s)' => Settled(s)
  PROVE  SlotInv'
BY DEF SlotInv

\* What the task of r does to the buffer, by its station.
SlotMoves(r) ==
  \/ enc[r] = "clear" /\ enc'[r] = "probe" /\ buffer' = None
  \/ enc[r] = "probe" /\ enc'[r] \in {"install", "discard"} /\ buffer' = buffer
  \/ enc[r] = "install" /\ enc'[r] = "configure" /\ buffer' = r
  \/ /\ enc[r] \notin {"clear", "probe", "install"} /\ buffer' = buffer
     /\ enc'[r] \notin {"clear", "probe", "install"}
     /\ enc'[r] \in {"configure", "run", "final", "finalize"}
          => enc[r] \in {"configure", "run", "final", "finalize"}

\* The encoder of r leaves the buffer to the session that settles.
LEMMA EncodeSlot ==
  ASSUME Typed, EncInv, SlotInv, NEW r \in Session, Encode(r)
  PROVE  SlotInv'
<1>1. UNCHANGED <<connVars, sourceVars, late>> /\ OwnOnly(r) /\ EncoderStep(r)
  BY EncoderOwn DEF Encode, histVars, Typed
<1>2. \A s \in Session : Settled(s)' => Settled(s)
  BY <1>1 DEF Settled, connVars, sourceVars
<1>3. SlotMoves(r)
  <2>1. ASSUME ClearBuffer(r) \/ Probe(r) \/ InstallBuffer(r)
        PROVE  SlotMoves(r)
    BY <2>1 DEF SlotMoves, ClearBuffer, Probe, InstallBuffer, Enc, Typed, SlotTypes
  <2>2. ASSUME Discard(r) \/ Configure(r) \/ StreamEnded(r) \/ Finalize(r)
        PROVE  SlotMoves(r)
    BY <2>2 DEF Discard, Configure, StreamEnded, Finalize, Terminal, Enc, Typed, SlotTypes,
       SlotMoves
  <2>3. ASSUME EncodeFrame(r) \/ FormatChange(r)
        PROVE  SlotMoves(r)
    <3>1. enc[r] = "run" /\ buffer' = buffer /\ (UNCHANGED enc \/ Terminal(r))
      BY <2>3 DEF EncodeFrame, FormatChange, DrainFragments
    <3> QED BY <3>1 DEF SlotMoves, Terminal, Enc, Typed, SlotTypes
  <2>4. ASSUME FinalPull(r) \/ FinalFlush(r)
        PROVE  SlotMoves(r)
    <3>1. enc[r] = "final" /\ buffer' = buffer /\ (UNCHANGED enc \/ Enc(r, "finalize"))
      BY <2>4 DEF FinalPull, FinalFlush, Progress, Stall, Ends
    <3> QED BY <3>1 DEF SlotMoves, Enc, Typed, SlotTypes
  <2> QED BY <1>1, <2>1, <2>2, <2>3, <2>4 DEF EncoderStep
<1>4. ASSUME NEW s \in Session \ late', Settled(s)'
      PROVE  /\ \A q \in Session \ {s} : enc'[q] \notin {"clear", "probe", "install"}
             /\ buffer' \in {None, s}
             /\ enc'[s] \in {"configure", "run", "final", "finalize"} => buffer' = s
  <2>1. /\ \A q \in Session \ {s} : enc[q] \notin {"clear", "probe", "install"}
        /\ buffer \in {None, s}
        /\ enc[s] \in {"configure", "run", "final", "finalize"} => buffer = s
    BY <1>1, <1>2, <1>4 DEF SlotInv
  <2>2. CASE s = r
    BY <1>1, <1>3, <2>1, <2>2 DEF OwnOnly, SlotMoves
  <2>3. CASE s # r
    BY <1>1, <1>3, <2>1, <2>3 DEF OwnOnly, SlotMoves
  <2> QED BY <2>2, <2>3
<1> QED BY <1>4 DEF SlotInv

\* StreamReady leaves the buffer to the session that settles.
LEMMA StreamReadySlot ==
  ASSUME Typed, RequestInv, SlotInv, StreamReady
  PROVE  SlotInv'
<1>1. /\ call.at = "wait" /\ call'.s = call.s /\ buffer' = None
      /\ late' = IF \E r \in Session \ {call.s} : enc[r] \in {"clear", "probe", "install"}
                 THEN late \cup {call.s} ELSE late
      /\ UNCHANGED <<active, phase, enc>>
  BY AtSets DEF StreamReady, Typed, sourceVars, encVars
<1>2. call.s \in Session /\ active \in {call.s, None} /\ enc[call.s] = "none"
  BY <1>1, NoCallIs DEF RequestInv
<1>3. ASSUME NEW s \in Session \ late', Settled(s)'
      PROVE  /\ s = call.s
             /\ \A q \in Session \ {s} : enc'[q] \notin {"clear", "probe", "install"}
             /\ buffer' \in {None, s}
             /\ enc'[s] \in {"configure", "run", "final", "finalize"} => buffer' = s
  <2>1. s = call.s
    BY <1>1, <1>2, <1>3, NoCallIs DEF Settled
  <2> QED BY <1>1, <1>2, <1>3, <2>1
<1> QED BY <1>3 DEF SlotInv

\* SetRecording leaves the buffer to the session that settles.
LEMMA SetRecordingSlot ==
  ASSUME Typed, RequestInv, SlotInv, SetRecording
  PROVE  SlotInv'
<1>1. /\ call.at = "record" /\ call'.s = call.s /\ UNCHANGED <<active, buffer, enc, late>>
      /\ phase' = [phase EXCEPT ![call.s] = "Recording"]
  BY AtSets DEF SetRecording, Typed, histVars, encVars
<1>2. call.s \in Session
  BY <1>1, NoCallIs DEF RequestInv
<1>3. \A s \in Session : Settled(s)' => Settled(s)
  BY <1>1, <1>2 DEF Settled, Typed, SourceTypes
<1> QED BY <1>1, <1>3, SlotStill

\* SpawnTasks leaves the buffer to the session that settles.
LEMMA SpawnTasksSlot ==
  ASSUME Typed, RequestInv, SlotInv, SpawnTasks
  PROVE  SlotInv'
<1>1. /\ call.at = "tasks" /\ call' = NoCall /\ UNCHANGED <<active, phase, buffer, late>>
      /\ Enc(call.s, "clear")
  BY DEF SpawnTasks, histVars
<1>2. call.s \in Session /\ active \in {call.s, None}
  BY <1>1, NoCallIs DEF RequestInv
<1>3. /\ enc'[call.s] = "clear" /\ \A r \in Session \ {call.s} : enc'[r] = enc[r]
  BY <1>1, <1>2 DEF Enc, Typed, SlotTypes
<1>4. ASSUME NEW s \in Session \ late', Settled(s)'
      PROVE  s = call.s /\ Settled(s)
  BY <1>1, <1>2, <1>4, NoCallIs DEF Settled
<1>5. ASSUME NEW s \in Session \ late', Settled(s)'
      PROVE  /\ \A q \in Session \ {s} : enc'[q] \notin {"clear", "probe", "install"}
             /\ buffer' \in {None, s}
             /\ enc'[s] \in {"configure", "run", "final", "finalize"} => buffer' = s
  BY <1>1, <1>3, <1>4, <1>5 DEF SlotInv
<1> QED BY <1>5 DEF SlotInv

-----------------------------------------------------------------------------
(* Every step keeps the invariant                                            *)

\* RequestSession keeps the invariant.
LEMMA RequestSessionKeeps ==
  ASSUME IInv, RequestSession
  PROVE  IInv'
<1>1. Typed'
  BY RequestSessionTyped DEF IInv, SessInv
<1>2. SessInv'
  BY RequestSessionSess DEF IInv
<1>3. EncInv'
  BY StillEnc DEF IInv, RequestSession, encVars
<1>4. MarkerInv'
  BY MarkerStill DEF IInv, RequestSession, histVars, encVars, backendVars
<1>5. SlotInv'
  <2>1. UNCHANGED <<buffer, enc, late>>
    BY DEF RequestSession, histVars, encVars
  <2>3. \A r \in Session : Settled(r)' => Settled(r)
    BY AtSets, NoCallIs DEF Settled, RequestSession
  <2> QED BY <2>1, <2>3, SlotStill DEF IInv
<1> QED BY <1>1, <1>2, <1>3, <1>4, <1>5 DEF IInv

\* StartStream keeps the invariant.
LEMMA StartStreamKeeps ==
  ASSUME IInv, StartStream
  PROVE  IInv'
<1>1. Typed'
  BY StartStreamTyped DEF IInv, SessInv
<1>2. SessInv'
  BY StartStreamSess DEF IInv
<1>3. EncInv'
  BY StillEnc DEF IInv, StartStream
<1>4. MarkerInv'
  BY StartStreamMarker DEF IInv, SessInv
<1>5. SlotInv'
  <2>1. UNCHANGED <<buffer, enc, late>>
    BY DEF StartStream, threadVars, histVars, backendVars
  <2>3. \A r \in Session : Settled(r)' => Settled(r)
    BY AtSets, NoCallIs DEF IInv, Settled, Typed, SourceTypes, StartStream, Reset
  <2> QED BY <2>1, <2>3, SlotStill DEF IInv
<1> QED BY <1>1, <1>2, <1>3, <1>4, <1>5 DEF IInv

\* StopCapture keeps the invariant.
LEMMA StopCaptureKeeps ==
  ASSUME IInv, StopCapture
  PROVE  IInv'
<1>1. Typed'
  BY StopCaptureTyped DEF IInv, SessInv
<1>2. SessInv'
  BY StopCaptureSess DEF IInv
<1>3. EncInv'
  BY StillEnc DEF IInv, StopCapture, encVars
<1>4. MarkerInv'
  BY MarkerStill DEF IInv, StopCapture, histVars, encVars, backendVars
<1>5. SlotInv'
  <2>1. UNCHANGED <<buffer, enc, late>>
    BY DEF StopCapture, histVars, encVars
  <2>3. \A r \in Session : Settled(r)' => Settled(r)
    BY AtSets, NoCallIs DEF Settled, StopCapture
  <2> QED BY <2>1, <2>3, SlotStill DEF IInv
<1> QED BY <1>1, <1>2, <1>3, <1>4, <1>5 DEF IInv

\* ConnectionEnds keeps the invariant.
LEMMA ConnectionEndsKeeps ==
  ASSUME IInv, ConnectionEnds
  PROVE  IInv'
<1>1. Typed'
  BY ConnectionEndsTyped DEF IInv, SessInv
<1>2. SessInv'
  BY ConnectionEndsSess DEF IInv
<1>3. EncInv'
  BY StillEnc DEF IInv, ConnectionEnds, encVars
<1>4. MarkerInv'
  BY MarkerStill DEF IInv, ConnectionEnds, histVars, encVars, backendVars
<1>5. SlotInv'
  <2>1. UNCHANGED <<buffer, enc, late>>
    BY DEF ConnectionEnds, histVars, encVars
  <2>3. \A r \in Session : Settled(r)' => Settled(r)
    BY AtSets, NoCallIs DEF Settled, ConnectionEnds, sourceVars
  <2> QED BY <2>1, <2>3, SlotStill DEF IInv
<1> QED BY <1>1, <1>2, <1>3, <1>4, <1>5 DEF IInv

\* PortalFails keeps the invariant.
LEMMA PortalFailsKeeps ==
  ASSUME IInv, PortalFails
  PROVE  IInv'
<1>1. Typed'
  BY PortalFailsTyped DEF IInv, SessInv
<1>2. SessInv'
  BY PortalFailsSess DEF IInv
<1>3. EncInv'
  BY StillEnc DEF IInv, PortalFails, encVars
<1>4. MarkerInv'
  BY MarkerStill DEF IInv, PortalFails, histVars, encVars, backendVars
<1>5. SlotInv'
  <2>1. UNCHANGED <<buffer, enc, late>>
    BY DEF PortalFails, histVars, encVars
  <2>3. \A r \in Session : Settled(r)' => Settled(r)
    BY AtSets, NoCallIs DEF IInv, SessInv, RequestInv, Settled, PortalFails
  <2> QED BY <2>1, <2>3, SlotStill DEF IInv
<1> QED BY <1>1, <1>2, <1>3, <1>4, <1>5 DEF IInv

\* PortalAnswers keeps the invariant.
LEMMA PortalAnswersKeeps ==
  ASSUME IInv, PortalAnswers
  PROVE  IInv'
<1>1. Typed'
  BY PortalAnswersTyped DEF IInv, SessInv
<1>2. SessInv'
  BY PortalAnswersSess DEF IInv
<1>3. EncInv'
  BY StillEnc DEF IInv, PortalAnswers, encVars
<1>4. MarkerInv'
  BY MarkerStill DEF IInv, PortalAnswers, histVars, encVars, backendVars
<1>5. SlotInv'
  <2>1. UNCHANGED <<buffer, enc, late>>
    BY DEF PortalAnswers, histVars, encVars
  <2>3. \A r \in Session : Settled(r)' => Settled(r)
    BY AtSets, NoCallIs DEF IInv, Settled, Typed, PortalAnswers
  <2> QED BY <2>1, <2>3, SlotStill DEF IInv
<1> QED BY <1>1, <1>2, <1>3, <1>4, <1>5 DEF IInv

\* InstallSession keeps the invariant.
LEMMA InstallSessionKeeps ==
  ASSUME IInv, InstallSession
  PROVE  IInv'
<1>1. Typed'
  BY InstallSessionTyped DEF IInv, SessInv
<1>2. SessInv'
  BY InstallSessionSess DEF IInv
<1>3. EncInv'
  BY StillEnc DEF IInv, InstallSession, encVars
<1>4. MarkerInv'
  BY MarkerStill DEF IInv, InstallSession, histVars, encVars, backendVars
<1>5. SlotInv'
  <2>1. UNCHANGED <<buffer, enc, late>>
    BY DEF InstallSession, histVars, encVars
  <2>3. \A r \in Session : Settled(r)' => Settled(r)
    BY AtSets, NoCallIs DEF IInv, SessInv, RequestInv, Settled, InstallSession
  <2> QED BY <2>1, <2>3, SlotStill DEF IInv
<1> QED BY <1>1, <1>2, <1>3, <1>4, <1>5 DEF IInv

\* StreamFails keeps the invariant.
LEMMA StreamFailsKeeps ==
  ASSUME IInv, StreamFails
  PROVE  IInv'
<1>1. Typed'
  BY StreamFailsTyped DEF IInv, SessInv
<1>2. SessInv'
  BY StreamFailsSess DEF IInv
<1>3. EncInv'
  BY StillEnc DEF IInv, StreamFails
<1>4. MarkerInv'
  BY StreamFailsMarker DEF IInv, SessInv
<1>5. SlotInv'
  <2>1. UNCHANGED <<buffer, enc, late>>
    BY DEF StreamFails, threadVars, histVars, backendVars
  <2>3. \A r \in Session : Settled(r)' => Settled(r)
    BY AtSets, NoCallIs DEF IInv, Settled, Typed, StreamFails
  <2> QED BY <2>1, <2>3, SlotStill DEF IInv
<1> QED BY <1>1, <1>2, <1>3, <1>4, <1>5 DEF IInv

\* StartFails keeps the invariant.
LEMMA StartFailsKeeps ==
  ASSUME IInv, StartFails
  PROVE  IInv'
<1>1. Typed'
  BY StartFailsTyped DEF IInv, SessInv
<1>2. SessInv'
  BY StartFailsSess DEF IInv
<1>3. EncInv'
  BY StillEnc DEF IInv, StartFails, encVars
<1>4. MarkerInv'
  BY MarkerStill DEF IInv, StartFails, histVars, encVars, backendVars
<1>5. SlotInv'
  <2>1. UNCHANGED <<buffer, enc, late>>
    BY DEF StartFails, histVars, encVars
  <2>3. \A r \in Session : Settled(r)' => Settled(r)
    BY AtSets, NoCallIs DEF IInv, SessInv, RequestInv, Settled, StartFails
  <2> QED BY <2>1, <2>3, SlotStill DEF IInv
<1> QED BY <1>1, <1>2, <1>3, <1>4, <1>5 DEF IInv

\* StreamReady keeps the invariant.
LEMMA StreamReadyKeeps ==
  ASSUME IInv, StreamReady
  PROVE  IInv'
<1>1. Typed'
  BY StreamReadyTyped DEF IInv, SessInv
<1>2. SessInv'
  BY StreamReadySess DEF IInv
<1>3. EncInv'
  BY StillEnc DEF IInv, StreamReady, encVars
<1>4. MarkerInv'
  BY StreamReadyMarker DEF IInv, SessInv
<1>5. SlotInv'
  BY StreamReadySlot DEF IInv, SessInv
<1> QED BY <1>1, <1>2, <1>3, <1>4, <1>5 DEF IInv

\* SetRecording keeps the invariant.
LEMMA SetRecordingKeeps ==
  ASSUME IInv, SetRecording
  PROVE  IInv'
<1>1. Typed'
  BY SetRecordingTyped DEF IInv, SessInv
<1>2. SessInv'
  BY SetRecordingSess DEF IInv
<1>3. EncInv'
  BY StillEnc DEF IInv, SetRecording, encVars
<1>4. MarkerInv'
  BY MarkerStill DEF IInv, SetRecording, histVars, encVars, backendVars
<1>5. SlotInv'
  BY SetRecordingSlot DEF IInv, SessInv
<1> QED BY <1>1, <1>2, <1>3, <1>4, <1>5 DEF IInv

\* SpawnTasks keeps the invariant.
LEMMA SpawnTasksKeeps ==
  ASSUME IInv, SpawnTasks
  PROVE  IInv'
<1>1. Typed'
  BY SpawnTasksTyped DEF IInv, SessInv
<1>2. SessInv'
  BY SpawnTasksSess DEF IInv
<1>3. EncInv'
  BY SpawnTasksEnc DEF IInv, SessInv
<1>4. MarkerInv'
  BY MarkerStill DEF IInv, SpawnTasks, histVars, backendVars
<1>5. SlotInv'
  BY SpawnTasksSlot DEF IInv, SessInv
<1> QED BY <1>1, <1>2, <1>3, <1>4, <1>5 DEF IInv

\* RequestEnds keeps the invariant.
LEMMA RequestEndsKeeps ==
  ASSUME IInv, RequestEnds
  PROVE  IInv'
<1>1. Typed'
  BY RequestEndsTyped DEF IInv, SessInv
<1>2. SessInv'
  BY RequestEndsSess DEF IInv
<1>3. EncInv'
  BY StillEnc DEF IInv, RequestEnds, encVars
<1>4. MarkerInv'
  BY MarkerStill DEF IInv, RequestEnds, histVars, encVars, backendVars
<1>5. SlotInv'
  <2>1. UNCHANGED <<buffer, enc, late>>
    BY DEF RequestEnds, histVars, encVars
  <2>3. \A r \in Session : Settled(r)' => Settled(r)
    BY AtSets, NoCallIs DEF Settled, RequestEnds, sourceVars
  <2> QED BY <2>1, <2>3, SlotStill DEF IInv
<1> QED BY <1>1, <1>2, <1>3, <1>4, <1>5 DEF IInv

\* AbortLands keeps the invariant.
LEMMA AbortLandsKeeps ==
  ASSUME IInv, AbortLands
  PROVE  IInv'
<1>1. Typed'
  BY AbortLandsTyped DEF IInv, SessInv
<1>2. SessInv'
  BY AbortLandsSess DEF IInv
<1>3. EncInv'
  BY StillEnc DEF IInv, AbortLands
<1>4. MarkerInv'
  BY AbortLandsMarker DEF IInv, SessInv
<1>5. SlotInv'
  <2>1. UNCHANGED <<buffer, enc, late>>
    BY DEF AbortLands, histVars
  <2>3. \A r \in Session : Settled(r)' => Settled(r)
    BY AtSets, NoCallIs DEF Settled, AbortLands, sourceVars
  <2> QED BY <2>1, <2>3, SlotStill DEF IInv
<1> QED BY <1>1, <1>2, <1>3, <1>4, <1>5 DEF IInv

\* Cleanup keeps the invariant.
LEMMA CleanupKeeps ==
  ASSUME IInv, Cleanup
  PROVE  IInv'
<1>1. Typed'
  BY CleanupTyped DEF IInv, SessInv
<1>2. SessInv'
  BY CleanupSess DEF IInv
<1>3. EncInv'
  BY StillEnc DEF IInv, Cleanup, encVars
<1>4. MarkerInv'
  BY MarkerStill DEF IInv, Cleanup, histVars, encVars, backendVars
<1>5. SlotInv'
  <2>1. UNCHANGED <<buffer, enc, late>>
    BY DEF Cleanup, histVars, encVars
  <2>3. \A r \in Session : Settled(r)' => Settled(r)
    BY AtSets, NoCallIs DEF Settled, Cleanup
  <2> QED BY <2>1, <2>3, SlotStill DEF IInv
<1> QED BY <1>1, <1>2, <1>3, <1>4, <1>5 DEF IInv

\* Reconnect keeps the invariant.
LEMMA ReconnectKeeps ==
  ASSUME IInv, Reconnect
  PROVE  IInv'
<1>1. Typed'
  BY ReconnectTyped DEF IInv, SessInv
<1>2. SessInv'
  BY ReconnectSess DEF IInv
<1>3. EncInv'
  BY StillEnc DEF IInv, Reconnect, encVars
<1>4. MarkerInv'
  BY MarkerStill DEF IInv, Reconnect, histVars, encVars, backendVars
<1>5. SlotInv'
  <2>1. UNCHANGED <<buffer, enc, late>>
    BY DEF Reconnect, histVars, encVars
  <2>3. \A r \in Session : Settled(r)' => Settled(r)
    BY AtSets, NoCallIs DEF IInv, SessInv, ConnInv, Settled, Reconnect
  <2> QED BY <2>1, <2>3, SlotStill DEF IInv
<1> QED BY <1>1, <1>2, <1>3, <1>4, <1>5 DEF IInv

\* Negotiate keeps the invariant.
LEMMA NegotiateKeeps ==
  ASSUME IInv, NEW s \in Session, Negotiate(s)
  PROVE  IInv'
<1>1. Typed'
  BY NegotiateTyped DEF IInv, SessInv
<1>2. SessInv'
  BY NegotiateSess DEF IInv
<1>3. EncInv'
  BY StillEnc DEF IInv, Negotiate, threadFrame
<1>4. MarkerInv'
  BY NegotiateMarker DEF IInv, SessInv
<1>5. SlotInv'
  <2>1. UNCHANGED <<buffer, enc, late>>
    BY DEF Negotiate, histVars, threadFrame
  <2>2. UNCHANGED <<call, active, phase>>
    BY DEF Negotiate, threadFrame, connVars, sourceVars
  <2>3. \A r \in Session : Settled(r)' => Settled(r)
    BY <2>2 DEF Settled
  <2> QED BY <2>1, <2>3, SlotStill DEF IInv
<1> QED BY <1>1, <1>2, <1>3, <1>4, <1>5 DEF IInv

\* Reject keeps the invariant.
LEMMA RejectKeeps ==
  ASSUME IInv, NEW s \in Session, Reject(s)
  PROVE  IInv'
<1>1. Typed'
  BY RejectTyped DEF IInv, SessInv
<1>2. SessInv'
  BY RejectSess DEF IInv
<1>3. EncInv'
  BY StillEnc DEF IInv, Reject, threadFrame
<1>4. MarkerInv'
  BY RejectMarker DEF IInv, SessInv
<1>5. SlotInv'
  <2>1. UNCHANGED <<buffer, enc, late>>
    BY DEF Reject, threadFrame
  <2>2. UNCHANGED <<call, active, phase>>
    BY DEF Reject, threadFrame, connVars, sourceVars
  <2>3. \A r \in Session : Settled(r)' => Settled(r)
    BY <2>2 DEF Settled
  <2> QED BY <2>1, <2>3, SlotStill DEF IInv
<1> QED BY <1>1, <1>2, <1>3, <1>4, <1>5 DEF IInv

\* StreamStarts keeps the invariant.
LEMMA StreamStartsKeeps ==
  ASSUME IInv, NEW s \in Session, StreamStarts(s)
  PROVE  IInv'
<1>1. Typed'
  BY StreamStartsTyped DEF IInv, SessInv
<1>2. SessInv'
  BY StreamStartsSess DEF IInv
<1>3. EncInv'
  BY StillEnc DEF IInv, StreamStarts, threadFrame
<1>4. MarkerInv'
  BY StreamStartsMarker DEF IInv, SessInv
<1>5. SlotInv'
  <2>1. UNCHANGED <<buffer, enc, late>>
    BY DEF StreamStarts, histVars, threadFrame
  <2>2. UNCHANGED <<call, active, phase>>
    BY DEF StreamStarts, threadFrame, connVars, sourceVars
  <2>3. \A r \in Session : Settled(r)' => Settled(r)
    BY <2>2 DEF Settled
  <2> QED BY <2>1, <2>3, SlotStill DEF IInv
<1> QED BY <1>1, <1>2, <1>3, <1>4, <1>5 DEF IInv

\* StreamError keeps the invariant.
LEMMA StreamErrorKeeps ==
  ASSUME IInv, NEW s \in Session, StreamError(s)
  PROVE  IInv'
<1>1. Typed'
  BY StreamErrorTyped DEF IInv, SessInv
<1>2. SessInv'
  BY StreamErrorSess DEF IInv
<1>3. EncInv'
  BY StillEnc DEF IInv, StreamError, encVars
<1>4. MarkerInv'
  BY StreamErrorMarker DEF IInv, SessInv
<1>5. SlotInv'
  <2>1. UNCHANGED <<buffer, enc, late>>
    BY DEF StreamError, encVars
  <2>2. UNCHANGED <<call, active, phase>>
    BY DEF StreamError, connVars
  <2>3. \A r \in Session : Settled(r)' => Settled(r)
    BY <2>2 DEF Settled
  <2> QED BY <2>1, <2>3, SlotStill DEF IInv
<1> QED BY <1>1, <1>2, <1>3, <1>4, <1>5 DEF IInv

\* SetupFails keeps the invariant.
LEMMA SetupFailsKeeps ==
  ASSUME IInv, NEW s \in Session, SetupFails(s)
  PROVE  IInv'
<1>1. Typed'
  BY SetupFailsTyped DEF IInv, SessInv
<1>2. SessInv'
  BY SetupFailsSess DEF IInv
<1>3. EncInv'
  BY StillEnc DEF IInv, SetupFails, threadFrame
<1>4. MarkerInv'
  BY EndedMarker DEF IInv, SetupFails, threadFrame, backendVars
<1>5. SlotInv'
  <2>1. UNCHANGED <<buffer, enc, late>>
    BY DEF SetupFails, threadFrame
  <2>2. UNCHANGED <<call, active, phase>>
    BY DEF SetupFails, threadFrame, connVars, sourceVars
  <2>3. \A r \in Session : Settled(r)' => Settled(r)
    BY <2>2 DEF Settled
  <2> QED BY <2>1, <2>3, SlotStill DEF IInv
<1> QED BY <1>1, <1>2, <1>3, <1>4, <1>5 DEF IInv

\* Process keeps the invariant.
LEMMA ProcessKeeps ==
  ASSUME IInv, NEW s \in Session, Process(s)
  PROVE  IInv'
<1>1. Typed'
  BY ProcessTyped DEF IInv, SessInv
<1>2. SessInv'
  BY ProcessSess DEF IInv
<1>3. EncInv'
  BY StillEnc DEF IInv, Process, threadFrame
<1>4. MarkerInv'
  BY ProcessMarker DEF IInv, SessInv
<1>5. SlotInv'
  <2>1. UNCHANGED <<buffer, enc, late>>
    BY DEF Process, threadFrame
  <2>2. UNCHANGED <<call, active, phase>>
    BY DEF Process, threadFrame, connVars, sourceVars
  <2>3. \A r \in Session : Settled(r)' => Settled(r)
    BY <2>2 DEF Settled
  <2> QED BY <2>1, <2>3, SlotStill DEF IInv
<1> QED BY <1>1, <1>2, <1>3, <1>4, <1>5 DEF IInv

\* ThreadExits keeps the invariant.
LEMMA ThreadExitsKeeps ==
  ASSUME IInv, NEW s \in Session, ThreadExits(s)
  PROVE  IInv'
<1>1. Typed'
  BY ThreadExitsTyped DEF IInv, SessInv
<1>2. SessInv'
  BY ThreadExitsSess DEF IInv
<1>3. EncInv'
  BY StillEnc DEF IInv, ThreadExits, histVars, threadFrame, connVars, sourceVars, backendVars
<1>4. MarkerInv'
  BY EndedMarker DEF IInv, ThreadExits, histVars, threadFrame, connVars, sourceVars,
     backendVars
<1>5. SlotInv'
  <2>1. UNCHANGED <<buffer, enc, late>>
    BY DEF ThreadExits, histVars, threadFrame, connVars, sourceVars, backendVars
  <2>2. UNCHANGED <<call, active, phase>>
    BY DEF ThreadExits, histVars, threadFrame, connVars, sourceVars, backendVars
  <2>3. \A r \in Session : Settled(r)' => Settled(r)
    BY <2>2 DEF Settled
  <2> QED BY <2>1, <2>3, SlotStill DEF IInv
<1> QED BY <1>1, <1>2, <1>3, <1>4, <1>5 DEF IInv

\* LoopTakes keeps the invariant.
LEMMA LoopTakesKeeps ==
  ASSUME IInv, NEW s \in Session, LoopTakes(s)
  PROVE  IInv'
<1>1. Typed'
  BY LoopTakesTyped DEF IInv, SessInv
<1>2. SessInv'
  BY LoopTakesSess DEF IInv
<1>3. EncInv'
  BY StillEnc DEF IInv, LoopTakes, taskFrame, encVars
<1>4. MarkerInv'
  BY MarkerStill DEF IInv, LoopTakes, taskFrame, histVars, encVars, backendVars
<1>5. SlotInv'
  <2>1. UNCHANGED <<buffer, enc, late>>
    BY DEF LoopTakes, taskFrame, histVars, encVars
  <2>2. UNCHANGED <<call, active, phase>>
    BY DEF LoopTakes, taskFrame, connVars
  <2>3. \A r \in Session : Settled(r)' => Settled(r)
    BY <2>2 DEF Settled
  <2> QED BY <2>1, <2>3, SlotStill DEF IInv
<1> QED BY <1>1, <1>2, <1>3, <1>4, <1>5 DEF IInv

\* LoopResets keeps the invariant.
LEMMA LoopResetsKeeps ==
  ASSUME IInv, NEW s \in Session, LoopResets(s)
  PROVE  IInv'
<1>1. Typed'
  BY LoopResetsTyped DEF IInv, SessInv
<1>2. SessInv'
  BY LoopResetsSess DEF IInv
<1>3. EncInv'
  BY StillEnc DEF IInv, LoopResets, taskFrame, encVars
<1>4. MarkerInv'
  BY MarkerStill DEF IInv, LoopResets, taskFrame, histVars, encVars, backendVars
<1>5. SlotInv'
  <2>1. UNCHANGED <<buffer, enc, late>>
    BY DEF LoopResets, taskFrame, histVars, encVars
  <2>3. \A r \in Session : Settled(r)' => Settled(r)
    BY AtSets, NoCallIs DEF Settled, LoopResets, Reset, taskFrame, connVars
  <2> QED BY <2>1, <2>3, SlotStill DEF IInv
<1> QED BY <1>1, <1>2, <1>3, <1>4, <1>5 DEF IInv

\* LoopEnds keeps the invariant.
LEMMA LoopEndsKeeps ==
  ASSUME IInv, NEW s \in Session, LoopEnds(s)
  PROVE  IInv'
<1>1. Typed'
  BY LoopEndsTyped DEF IInv, SessInv
<1>2. SessInv'
  BY LoopEndsSess DEF IInv
<1>3. EncInv'
  BY StillEnc DEF IInv, LoopEnds, taskFrame, encVars
<1>4. MarkerInv'
  BY MarkerStill DEF IInv, LoopEnds, taskFrame, histVars, encVars, backendVars
<1>5. SlotInv'
  <2>1. UNCHANGED <<buffer, enc, late>>
    BY DEF LoopEnds, taskFrame, histVars, encVars
  <2>2. UNCHANGED <<call, active, phase>>
    BY DEF LoopEnds, taskFrame, connVars
  <2>3. \A r \in Session : Settled(r)' => Settled(r)
    BY <2>2 DEF Settled
  <2> QED BY <2>1, <2>3, SlotStill DEF IInv
<1> QED BY <1>1, <1>2, <1>3, <1>4, <1>5 DEF IInv

\* Encode keeps the invariant.
LEMMA EncodeKeeps ==
  ASSUME IInv, NEW s \in Session, Encode(s)
  PROVE  IInv'
BY EncodeTyped, EncodeSess, EncodeMarker, EncodeSlot DEF IInv

\* Stutter keeps the invariant.
LEMMA StutterKeeps ==
  ASSUME IInv, UNCHANGED vars
  PROVE  IInv'
<1>1. UNCHANGED <<connVars, sourceVars, ready, threadVars, events, histVars, sender, buffer, encVars>>
  BY DEF vars
<1>2. SlotTypes' /\ WorkTypes'
  BY <1>1 DEF IInv, Typed, SlotTypes, WorkTypes, encVars, backendVars
<1>3. ConnTypes' /\ SourceTypes'
  BY <1>1 DEF IInv, Typed, ConnTypes, SourceTypes, connVars, sourceVars
<1>4. ThreadTypes' /\ HistTypes'
  BY <1>1 DEF IInv, Typed, ThreadTypes, HistTypes, threadVars, histVars, connVars
<1>5. FreshInv'
  BY <1>1 DEF IInv, SessInv, FreshInv, sourceVars, threadVars, encVars
<1>6. RequestInv' /\ ConnInv' /\ ThreadInv'
  BY <1>1 DEF IInv, SessInv, RequestInv, ConnInv, ThreadInv, Running, connVars, sourceVars,
     encVars
<1>7. NewsInv'
  BY <1>1, SameNews DEF IInv, SessInv, NewsInv, RequestInv, NoCall, Running, connVars,
     sourceVars
<1>8. EncInv'
  BY <1>1, StillEnc DEF IInv, encVars
<1>9. MarkerInv'
  BY <1>1, MarkerStill DEF IInv, encVars, backendVars, histVars
<1>10. SlotInv'
  BY <1>1 DEF IInv, SlotInv, Settled, connVars, sourceVars, encVars, histVars
<1> QED BY <1>2, <1>3, <1>4, <1>5, <1>6, <1>7, <1>8, <1>9, <1>10 DEF IInv, SessInv, Typed

\* The invariant holds initially,
LEMMA InitHolds == Init => IInv
<1> SUFFICES ASSUME Init PROVE IInv
  OBVIOUS
<1>1. SlotTypes
  BY DEF Init, EncoderInit, SlotTypes
<1>2. WorkTypes
  <2>1. Marker \in Item
    BY DEF Item
  <2> QED BY <2>1 DEF Init, EncoderInit, WorkTypes
<1>3. ConnTypes
  BY DEF Init, ConnTypes, NoCall, Calls
<1>4. SourceTypes
  BY DEF Init, EncoderInit, SourceTypes
<1>5. ThreadTypes
  BY DEF Init, ThreadTypes
<1>6. HistTypes
  <2>1. bound \in Bounds /\ bound.frames \in Nat /\ bound.faults \in Nat
    BY BoundsAssumption DEF Init
  <2> QED BY <2>1 DEF Init, HistTypes
<1>7. FreshInv
  BY DEF Init, EncoderInit, FreshInv
<1>8. RequestInv /\ ThreadInv
  BY DEF Init, EncoderInit, RequestInv, ThreadInv, Running
<1>9. ConnInv
  BY NoCallIs DEF Init, EncoderInit, ConnInv
<1>10. NewsInv
  BY NoCallIs DEF Init, NewsInv
<1>11. EncInv
  <2>1. \A s \in Session : produced[s] = 0 /\ sink[s] = <<>> /\ pending[s] = <<>> /\ held[s] = 0
                           /\ last[s] = Marker /\ exit[s] = "none"
    BY DEF Init, EncoderInit
  <2>2. Numbers(0) = <<>> \o <<>> /\ Len(<<>>) <= PendingCap
    BY EncoderAssumption DEF Numbers
  <2>3. ASSUME NEW s \in Session
        PROVE  EncOK(s)
    <3>1. sink[s] \o pending[s] = Numbers(produced[s])
      BY <2>1, <2>2, Zenon
    <3>2. ~(Len(pending[s]) > PendingCap)
      BY <2>1, EncoderAssumption
    <3> QED BY <2>1, <3>1, <3>2 DEF EncOK
  <2> QED BY <2>3, EncOKIs
<1>12. MarkerInv
  BY DEF Init, EncoderInit, MarkerInv, MarkerOK, Steady
<1>13. SlotInv
  BY NoCallIs DEF Init, SlotInv, Settled
<1> QED BY <1>1, <1>2, <1>3, <1>4, <1>5, <1>6, <1>7, <1>8, <1>9, <1>10, <1>11, <1>12, <1>13
     DEF IInv, SessInv, Typed

\* every step keeps it,
LEMMA NextHolds == IInv /\ [Next]_vars => IInv'
<1> SUFFICES ASSUME IInv, [Next]_vars PROVE IInv'
  OBVIOUS
<1>1. ASSUME CallStep
      PROVE  IInv'
  BY <1>1, PortalFailsKeeps, PortalAnswersKeeps, InstallSessionKeeps, StreamFailsKeeps,
     StartFailsKeeps, StreamReadyKeeps, SetRecordingKeeps, SpawnTasksKeeps DEF CallStep
<1>2. ASSUME ConnectionStep
      PROVE  IInv'
  BY <1>2, RequestEndsKeeps, AbortLandsKeeps, CleanupKeeps, ReconnectKeeps DEF ConnectionStep
<1>3. ASSUME NEW s \in Session, ThreadStep(s)
      PROVE  IInv'
  BY <1>3, NegotiateKeeps, RejectKeeps, StreamStartsKeeps, StreamErrorKeeps, SetupFailsKeeps,
     ProcessKeeps, ThreadExitsKeeps DEF ThreadStep
<1>4. ASSUME NEW s \in Session, TaskStep(s)
      PROVE  IInv'
  BY <1>4, LoopTakesKeeps, LoopResetsKeeps, LoopEndsKeeps DEF TaskStep
<1>5. CASE UNCHANGED vars
  BY <1>5, StutterKeeps
<1>6. CASE Next
  BY <1>1, <1>2, <1>3, <1>4, <1>6, RequestSessionKeeps, StartStreamKeeps, StopCaptureKeeps,
     ConnectionEndsKeeps, EncodeKeeps DEF Next
<1> QED BY <1>5, <1>6

\* and so every reachable state satisfies it.
THEOREM Inductive == Spec => []IInv
BY InitHolds, NextHolds, PTL DEF Spec

-----------------------------------------------------------------------------
(* What it gives                                                             *)

\* Every reachable state of the connection, of the sessions, of their threads
\* and encoders is well typed.
THEOREM TypeCorrect == Spec => []TypeOK
<1>1. IInv => TypeOK
  <2>1. SlotTypes /\ WorkTypes /\ SourceTypes => EncoderTypeOK
    BY DEF SlotTypes, WorkTypes, SourceTypes, EncoderTypeOK
  <2>2. SourceTypes /\ ThreadTypes => {quit, streaming, negotiated, markerDue} \subseteq [Session -> BOOLEAN]
    BY DEF SourceTypes, ThreadTypes
  <2> QED BY <2>1, <2>2 DEF IInv, Typed, TypeOK, ConnTypes, SourceTypes, ThreadTypes,
             HistTypes
<1> QED BY <1>1, Inductive, PTL

\* Every fragment the backend gives reaches the sink or the queue once and in
\* order, however often the sink pushes back and the drain is retried; a clean
\* end leaves none behind (drain_fragments, try_flush_pending, final_drain).
THEOREM NoFragmentLost == Spec => []FragmentsKept
<1>1. IInv => FragmentsKept
  BY DEF IInv, EncInv
<1> QED BY <1>1, Inductive, PTL

\* No stream runs that nobody can stop, and a session shown as recording has
\* its thread, its portal session and its loops, whatever of start_stream, the
\* event loop, a stop and the cleanup of a connection came in between.
THEOREM OwnsItsStream == Spec => []StreamOwned
<1>1. ASSUME IInv, NEW s \in Session
      PROVE  /\ Running(s) /\ ~quit[s] => active = s
             /\ active = s /\ phase[s] = "Recording" /\ call = NoCall /\ conn = "open" /\ ~Ending(s)
                  => Running(s) /\ ~quit[s] /\ PortalOpen(s) /\ loop[s] = "run" /\ DiagRuns(s)
  <2>1. Running(s) /\ ~quit[s] => active = s
    BY <1>1 DEF IInv, SessInv, ThreadInv
  <2>2. ASSUME active = s, phase[s] = "Recording", call = NoCall, conn = "open", ~Ending(s)
        PROVE  Running(s) /\ ~quit[s] /\ PortalOpen(s) /\ loop[s] = "run" /\ DiagRuns(s)
    <3>1. /\ diag[s] = "run" /\ loop[s] \in {"run", "reset"}
          /\ loop[s] = "reset" \/ Bad(s) \/ (Running(s) /\ ~quit[s])
      BY <1>1, <2>2, NoCallIs DEF IInv, SessInv, NewsInv
    <3>2. loop[s] = "run" /\ ~Bad(s)
      BY <2>2, <3>1 DEF Ending, Bad
    <3> QED BY <2>2, <3>1, <3>2 DEF PortalOpen, DiagRuns, InnerAlive
  <2> QED BY <2>1, <2>2
<1>2. IInv => StreamOwned
  BY <1>1 DEF StreamOwned
<1> QED BY <1>2, Inductive, PTL

\* A save gets the segments of the session that records, or none, and its own
\* once its encoder has a buffer, unless a former session's encoder was still
\* to install one when the stream was ready.
THEOREM OwnBuffer == Spec => []RightBuffer
<1>1. IInv => RightBuffer
  BY DEF IInv, SlotInv, Settled, RightBuffer
<1> QED BY <1>1, Inductive, PTL

\* The encoder never gets frames of two formats without a marker between them,
\* also when the channel was full when the format changed (param_changed and
\* process), in any number of formats and with any capacity of the channel.
THEOREM MarkerBetween == Spec => []MarkerFirst
<1>1. IInv => MarkerFirst
  BY MarkerInvGives DEF IInv, Typed
<1> QED BY <1>1, Inductive, PTL
=============================================================================
