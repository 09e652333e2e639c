--------------------------- MODULE EncoderSession ---------------------------
(***************************************************************************)
(* The encoder task of a capture session (src/helper/src/encoder/mod.rs    *)
(* run_session, session.rs EncoderSession) and the bounded channel that    *)
(* the PipeWire thread fills with frames and markers. CaptureSession adds  *)
(* that thread, and whoever starts and stops sessions.                     *)
(*                                                                         *)
(* A frame is its format, a fragment its number. The backend and the sink  *)
(* are behind traits: they accept, push back or fail as they like. The     *)
(* init segment and what the sink does with fragments are SegmentBuffer's. *)
(***************************************************************************)
EXTENDS Integers, Sequences

CONSTANTS
  MaxSession,  \* bound: capture sessions of a run
  MaxFormat,   \* bound: formats that a stream negotiates, one after the other
  Capacity,    \* FRAME_CHANNEL_CAPACITY
  PendingCap,  \* pending_fragments_cap
  MaxStalled   \* eof_drain_max_iters

ASSUME EncoderAssumption ==
  /\ {MaxSession, MaxFormat, Capacity, MaxStalled} \subseteq Nat \ {0}
  /\ PendingCap \in Nat

Session == 1 .. MaxSession
Format  == 1 .. MaxFormat
None    == 0
Marker  == 0                   \* FrameOrControl::FormatChanged
Item    == Format \cup {Marker}

VARIABLES
  buffer,    \* active_segment_buffer: the session whose segments a save pins
  channel,   \* per session: frames and markers in the channel
  sender,    \* its FrameSender: the PipeWire thread runs while it is open
  receiver,  \* its FrameReceiver
  enc,       \* how far the task is
  last,      \* what the task took from the channel last
  held,      \* frames in the backend that have given no fragment yet
  produced,  \* fragments that the backend has given
  pending,   \* pending_fragments
  sink,      \* fragments that the sink has accepted
  stalled,   \* consecutive_stalled
  exit       \* SessionExit

backendVars == <<last, held, produced, pending, sink, stalled>>
encVars == <<channel, receiver, enc, backendVars, exit>>

EncoderTypeOK ==
  /\ buffer \in Session \cup {None}
  /\ channel \in [Session -> Seq(Item)]
  /\ sender \in [Session -> {"none", "open", "closed"}]
  /\ receiver \in [Session -> {"none", "open", "closed"}]
  /\ enc \in [Session -> {"none", "clear", "probe", "install", "configure", "run",
                          "final", "finalize", "discard", "done"}]
  /\ last \in [Session -> Item]
  /\ {held, produced, stalled} \subseteq [Session -> Nat]
  /\ {pending, sink} \subseteq [Session -> Seq(Nat)]
  /\ exit \in [Session -> {"none", "ended", "error"}]

EncoderInit ==
  /\ buffer = None
  /\ channel = [s \in Session |-> <<>>]
  /\ sender = [s \in Session |-> "none"] /\ receiver = [s \in Session |-> "none"]
  /\ enc = [s \in Session |-> "none"] /\ last = [s \in Session |-> Marker]
  /\ held = [s \in Session |-> 0] /\ produced = [s \in Session |-> 0]
  /\ pending = [s \in Session |-> <<>>] /\ sink = [s \in Session |-> <<>>]
  /\ stalled = [s \in Session |-> 0] /\ exit = [s \in Session |-> "none"]

-----------------------------------------------------------------------------
(* The channel *)

\* try_send would succeed.
Room(s) == receiver[s] = "open" /\ Len(channel[s]) < Capacity

Enqueue(s, item) == channel' = [channel EXCEPT ![s] = Append(@, item)]

\* The receiver is dropped, or closed and emptied: the frames are released.
CloseReceiver(s) ==
  /\ receiver' = [receiver EXCEPT ![s] = "closed"]
  /\ channel' = [channel EXCEPT ![s] = <<>>]

Enc(s, to) == enc' = [enc EXCEPT ![s] = to]

-----------------------------------------------------------------------------
(* run_session *)

\* A buffer that a former session left is no longer offered.
ClearBuffer(s) ==
  /\ enc[s] = "clear" /\ Enc(s, "probe")
  /\ buffer' = None
  /\ UNCHANGED <<channel, receiver, backendVars, exit>>

\* A backend is selected and its segment directory made; or the frames are
\* only thrown away.
Probe(s) ==
  /\ enc[s] = "probe" /\ \E to \in {"install", "discard"} : Enc(s, to)
  /\ UNCHANGED <<buffer, channel, receiver, backendVars, exit>>

InstallBuffer(s) ==
  /\ enc[s] = "install" /\ Enc(s, "configure")
  /\ buffer' = s
  /\ UNCHANGED <<channel, receiver, backendVars, exit>>

\* while rx.recv().await.is_some() {}
Discard(s) ==
  /\ enc[s] = "discard"
  /\ \/ /\ channel[s] # <<>>
        /\ channel' = [channel EXCEPT ![s] = Tail(@)]
        /\ UNCHANGED <<receiver, enc>>
     \/ /\ channel[s] = <<>> /\ sender[s] # "open"
        /\ CloseReceiver(s) /\ Enc(s, "done")
  /\ UNCHANGED <<buffer, backendVars, exit>>

-----------------------------------------------------------------------------
(* EncoderSession *)

\* Terminal cleanup: the receiver is closed and drained before the event.
Terminal(s) ==
  /\ CloseReceiver(s)
  /\ Enc(s, "finalize")
  /\ exit' = [exit EXCEPT ![s] = "error"]

\* configure, or an init segment that the sink refuses.
Configure(s) ==
  /\ enc[s] = "configure"
  /\ \/ Enc(s, "run") /\ UNCHANGED <<channel, receiver, exit>>
     \/ Terminal(s)
  /\ UNCHANGED <<buffer, backendVars>>

Fragments(s, n) == [i \in 1 .. n |-> produced[s] + i]

Drained_Uncounted(s, taken, n) ==
  /\ n \in 0 .. taken
  /\ held' = [held EXCEPT ![s] = n - taken]
  /\ produced' = [produced EXCEPT ![s] = @ + n]

\* The backend gives n of the fragments that it has taken frames for.
Drained(s, taken, n) ==
  /\ n \in 0 .. taken
  /\ held' = [held EXCEPT ![s] = taken - n]
  /\ produced' = [produced EXCEPT ![s] = @ + n]

Flushed_TakenFirst(s, q, n) ==
  /\ n \in 0 .. Len(q)
  /\ sink' = [sink EXCEPT ![s] = @ \o SubSeq(q, 1, n)]
  /\ pending' = [pending EXCEPT ![s] = SubSeq(q, n + 2, Len(q))]

\* try_flush_pending: the sink accepts the first n of the queue q. The rest
\* stays, for a retry if the sink pushed back.
Flushed(s, q, n) ==
  /\ n \in 0 .. Len(q)
  /\ sink' = [sink EXCEPT ![s] = @ \o SubSeq(q, 1, n)]
  /\ pending' = [pending EXCEPT ![s] = SubSeq(q, n + 1, Len(q))]

\* drain_fragments: the backend may push back (n = 0) or fail, the sink push
\* back, up to the cap, or fail, also on the init segment that may follow.
DrainFragments(s, taken) ==
  \E n \in 0 .. taken :
    LET q == pending[s] \o Fragments(s, n)
    IN  /\ Drained(s, taken, n)
        /\ \E k \in 0 .. Len(q) :
             /\ Flushed(s, q, k)
             /\ \/ /\ Len(q) - k <= PendingCap
                   /\ channel' = [channel EXCEPT ![s] = Tail(@)]
                   /\ UNCHANGED <<receiver, enc, exit>>
                \/ Terminal(s)

\* run_loop takes a frame: the backend encodes it, drops it or fails.
EncodeFrame(s) ==
  /\ enc[s] = "run" /\ channel[s] # <<>> /\ Head(channel[s]) # Marker
  /\ last' = [last EXCEPT ![s] = Head(channel[s])]
  /\ \/ DrainFragments(s, held[s] + 1)
     \/ /\ channel' = [channel EXCEPT ![s] = Tail(@)]
        /\ UNCHANGED <<receiver, enc, exit, held, produced, pending, sink>>
     \/ Terminal(s) /\ UNCHANGED <<held, produced, pending, sink>>
  /\ UNCHANGED <<buffer, stalled>>

\* It takes a marker and tells the sink, which may fail.
FormatChange(s) ==
  /\ enc[s] = "run" /\ channel[s] # <<>> /\ Head(channel[s]) = Marker
  /\ last' = [last EXCEPT ![s] = Marker]
  /\ \/ channel' = [channel EXCEPT ![s] = Tail(@)] /\ UNCHANGED <<receiver, enc, exit>>
     \/ Terminal(s)
  /\ UNCHANGED <<buffer, held, produced, pending, sink, stalled>>

\* The stream has ended and the channel is empty.
StreamEnded(s) ==
  /\ enc[s] = "run" /\ channel[s] = <<>> /\ sender[s] # "open"
  /\ Enc(s, "final")
  /\ UNCHANGED <<buffer, channel, receiver, backendVars, exit>>

Ends(s, how) ==
  /\ Enc(s, "finalize") /\ exit' = [exit EXCEPT ![s] = how]

Stall_StartsOver(s) ==
  /\ stalled' = [stalled EXCEPT ![s] = IF @ + 1 >= MaxStalled THEN 0 ELSE @ + 1]
  /\ UNCHANGED <<enc, exit>>

\* The retry budget counts the iterations in a row that made no progress.
Stall(s) ==
  /\ stalled' = [stalled EXCEPT ![s] = @ + 1]
  /\ IF stalled[s] + 1 >= MaxStalled THEN Ends(s, "error") ELSE UNCHANGED <<enc, exit>>

Progress(s) == stalled' = [stalled EXCEPT ![s] = 0] /\ UNCHANGED <<enc, exit>>

\* final_drain with nothing pending: the backend gives more, pushes back or
\* fails; when it gives nothing, it has nothing.
FinalPull(s) ==
  /\ enc[s] = "final" /\ pending[s] = <<>>
  /\ \/ \E n \in 1 .. held[s] :
          /\ Drained(s, held[s], n)
          /\ pending' = [pending EXCEPT ![s] = Fragments(s, n)]
          /\ Progress(s)
     \/ /\ held[s] = 0 /\ Ends(s, "ended")
        /\ UNCHANGED <<held, produced, pending, stalled>>
     \/ Stall(s) /\ UNCHANGED <<held, produced, pending>>
     \/ Ends(s, "error") /\ UNCHANGED <<held, produced, pending, stalled>>
  /\ UNCHANGED <<buffer, channel, receiver, last, sink>>

\* final_drain with fragments pending; the sink may fail on one of them, or on
\* the init segment that may follow.
FinalFlush(s) ==
  /\ enc[s] = "final" /\ pending[s] # <<>>
  /\ \E k \in 0 .. Len(pending[s]) :
       /\ Flushed(s, pending[s], k)
       /\ \/ IF k > 0 THEN Progress(s) ELSE Stall(s)
          \/ Ends(s, "error") /\ UNCHANGED stalled
  /\ UNCHANGED <<buffer, channel, receiver, last, held, produced>>

\* finalize and teardown; run_session looks at no exit.
Finalize(s) ==
  /\ enc[s] = "finalize"
  /\ CloseReceiver(s) /\ Enc(s, "done")
  /\ last' = [last EXCEPT ![s] = Marker]
  /\ stalled' = [stalled EXCEPT ![s] = 0] /\ exit' = [exit EXCEPT ![s] = "none"]
  /\ UNCHANGED <<buffer, held, produced, pending, sink>>

EncoderStep(s) ==
  \/ ClearBuffer(s) \/ Probe(s) \/ InstallBuffer(s) \/ Discard(s)
  \/ Configure(s) \/ EncodeFrame(s) \/ FormatChange(s) \/ StreamEnded(s)
  \/ FinalPull(s) \/ FinalFlush(s) \/ Finalize(s)

-----------------------------------------------------------------------------
(* Properties *)

\* Every fragment that the backend has given reaches the sink once and in
\* order, however often the sink pushes back; and a session that reports a
\* clean end has left none in the queue nor in the backend.
FragmentsKept ==
  \A s \in Session :
    /\ sink[s] \o pending[s] = [i \in 1 .. produced[s] |-> i]
    /\ Len(pending[s]) > PendingCap => enc[s] \in {"final", "finalize", "done"}
    /\ exit[s] = "ended" => pending[s] = <<>> /\ held[s] = 0
=============================================================================
