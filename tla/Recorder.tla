------------------------------ MODULE Recorder ------------------------------
(***************************************************************************)
(* The recordings of the main process (src/electron/recorder.ts and its    *)
(* IPC handlers in src/electron/main.ts): the map of sessions, the temp    *)
(* files and their descriptors, the audio sidecar that raises the volume   *)
(* of the monitor source, finalize with its awaits, and cancel, which may  *)
(* run between them. RecordingApp adds the renderer that calls all this.   *)
(* On Linux, where the sidecar exists.                                     *)
(***************************************************************************)
EXTENDS Integers, FiniteSets

CONSTANT MaxRec   \* bound: recordings of a run

ASSUME MaxRecAssumption == MaxRec \in Nat \ {0}

None    == 0
Rec     == 1..MaxRec
Fd      == 1..MaxRec        \* the descriptors that recordings use, lowest first
Volumes == {"none", "user", "full"}

VARIABLES
  ffmpeg,     \* detectFfmpeg finds one
  rec,        \* the ActiveRecording objects, also those no longer in the map
  sessions,   \* keys of the map
  file,       \* what is open under a descriptor number
  volume,     \* of the monitor source
  torn,       \* history: a close hit the descriptor of another recording
  crossed     \* history: a sidecar raised a volume that another held raised

mainVars == <<ffmpeg, rec, sessions, file, volume, torn, crossed>>

(* job: how far begin or finalize is; data: chunks are in the file; holed: one that    *)
(* somebody waited for was not written; answer: what the IPC call that is due was      *)
(* answered.                                                                           *)
Recordings ==
  [job : {"none", "verifying", "open", "draining", "measuring", "encoding", "stuck", "over"},
   replay : BOOLEAN, closing : BOOLEAN, sidecar : {"none", "running", "died", "stopped"},
   prior : Volumes, fd : Fd \union {None}, temp : BOOLEAN, output : BOOLEAN,
   data : BOOLEAN, holed : BOOLEAN, cancelled : BOOLEAN,
   answer : {"none", "begun", "threw", "saved", "failed", "rejected"}]

Fresh == [job |-> "none", replay |-> FALSE, closing |-> FALSE, sidecar |-> "none",
          prior |-> "none", fd |-> None, temp |-> FALSE, output |-> FALSE,
          data |-> FALSE, holed |-> FALSE, cancelled |-> FALSE, answer |-> "none"]

MainInit ==
  /\ ffmpeg \in BOOLEAN
  /\ rec = [r \in Rec |-> Fresh] /\ sessions = {}
  /\ file = [d \in Fd |-> None]
  /\ volume = "user" /\ torn = FALSE /\ crossed = FALSE

IsNext(r) == rec[r].job = "none" /\ \A q \in 1..(r - 1) : rec[q].job # "none"
FreeFd    == CHOOSE d \in Fd : file[d] = None /\ \A e \in 1..(d - 1) : file[e] # None
Holding(r) == r \in sessions /\ rec[r].prior # "none"

(* fs.closeSync(s.fd): the number, whatever it stands for by now. *)
CloseFd(r) ==
  LET d == rec[r].fd
  IN  file' = [file EXCEPT ![d] = None] /\ torn' = (torn \/ file[d] \notin {None, r})

(* What is left of a session that nothing will look up again. *)
Over(s) == [s EXCEPT !.job = "over", !.closing = TRUE, !.sidecar = "none", !.prior = "none",
                     !.fd = None, !.data = FALSE]

(* restoreAudioMonitorVolume. *)
Restore(r) == volume' = IF rec[r].prior = "none" THEN volume ELSE rec[r].prior

----------------------------------------------------------------------------
(* Begin *)

(* begin: the temp file, the map entry and the sidecar. sound: not wanted, failed      *)
(* before the volume was touched, started with the volume as it was, or raised.        *)
(* A replay must not lack its sound; it is sure of it only after 350 ms.               *)
Begin(r, replay) ==
  /\ IsNext(r)
  /\ \E sound \in {"off", "failed", "plain", "raised"} :
       LET starts   == sound \in {"plain", "raised"}
           required == replay /\ sound # "off"
           session  ==
             [Fresh EXCEPT !.job = IF starts /\ required THEN "verifying" ELSE "open",
                           !.replay = replay, !.fd = FreeFd, !.temp = TRUE,
                           !.sidecar = IF starts THEN "running" ELSE "none",
                           !.prior = IF sound = "raised" THEN volume ELSE "none",
                           !.answer = IF starts /\ required THEN "none" ELSE "begun"]
       IN  /\ starts => ffmpeg
           /\ crossed' = (crossed \/ (sound = "raised" /\ \E q \in Rec : Holding(q)))
           /\ volume' = IF sound = "raised" THEN "full" ELSE volume
           /\ IF required /\ ~starts
              THEN /\ rec' = [rec EXCEPT ![r] = [Fresh EXCEPT !.job = "over", !.answer = "threw"]]
                   /\ UNCHANGED <<sessions, file>>
              ELSE /\ rec' = [rec EXCEPT ![r] = session]
                   /\ sessions' = sessions \union {r}
                   /\ file' = [file EXCEPT ![FreeFd] = r]
  /\ UNCHANGED <<ffmpeg, torn>>

(* The sidecar lived for 350 ms. *)
BeginVerified(r) ==
  /\ rec[r].job = "verifying" /\ rec[r].sidecar = "running"
  /\ rec' = [rec EXCEPT ![r].job = "open", ![r].answer = "begun"]
  /\ UNCHANGED <<ffmpeg, sessions, file, volume, torn, crossed>>

BeginRefused_KeepsVolume(r) ==
  /\ rec[r].job = "verifying"
  /\ CloseFd(r)
  /\ rec' = [rec EXCEPT ![r] = [Over(@) EXCEPT !.answer = "threw", !.temp = FALSE]]
  /\ sessions' = sessions \ {r}
  /\ UNCHANGED <<ffmpeg, volume, crossed>>

(* It ended within them, of itself or killed by cancel: begin undoes all and throws. *)
BeginRefused(r) ==
  /\ rec[r].job = "verifying"
  /\ Restore(r) /\ CloseFd(r)
  /\ rec' = [rec EXCEPT ![r] = [Over(@) EXCEPT !.answer = "threw", !.temp = FALSE]]
  /\ sessions' = sessions \ {r}
  /\ UNCHANGED <<ffmpeg, crossed>>

(* An "exit" of ffmpeg that nobody asked for. *)
SidecarDies(r) ==
  /\ rec[r].job = "open" /\ rec[r].sidecar = "running"
  /\ rec' = [rec EXCEPT ![r].sidecar = "died"]
  /\ UNCHANGED <<ffmpeg, sessions, file, volume, torn, crossed>>

(* appendChunk: dropped without a word once the session is closing or gone; an error   *)
(* when the descriptor was closed; and the write itself may throw, or be a short one,  *)
(* whose count nobody reads. The renderer reports an error and goes on.                *)
AppendChunk(r, awaited) ==
  LET stored == ~rec[r].closing /\ file[rec[r].fd] = r
  IN  \/ (r \in sessions => stored) /\ UNCHANGED rec
      \/ /\ r \in sessions
         /\ rec' = [rec EXCEPT ![r].data = @ \/ stored, ![r].holed = @ \/ (awaited /\ ~stored)]

----------------------------------------------------------------------------
(* Finalize *)

Preserved(s) == [Over(s) EXCEPT !.answer = "failed"]
Published(s) == [Over(s) EXCEPT !.answer = "saved", !.output = TRUE, !.temp = FALSE]

(* What follows stopAudioSidecar up to the next await. Without ffmpeg the .webm is     *)
(* moved as it is, or the copy to another device throws and the session stays in the   *)
(* map; a replay would have to be cut. That, a missing or empty file and a replay      *)
(* without its sound are kept for the user.                                            *)
AfterSidecar(r) ==
  LET s == [rec[r] EXCEPT !.closing = TRUE, !.prior = "none",
                          !.sidecar = IF @ = "running" THEN "stopped" ELSE @]
      unusable == ~s.temp \/ ~s.data \/ (s.replay /\ s.sidecar = "died")
  IN  /\ CloseFd(r)
      /\ \/ /\ ~ffmpeg /\ ~s.replay
            /\ rec' = [rec EXCEPT ![r] = Published(s)]
            /\ sessions' = sessions \ {r}
         \/ /\ ~ffmpeg /\ ~s.replay
            /\ rec' = [rec EXCEPT ![r] = [s EXCEPT !.job = "stuck", !.answer = "rejected"]]
            /\ UNCHANGED sessions
         \/ /\ (~ffmpeg /\ s.replay) \/ (ffmpeg /\ unusable)
            /\ rec' = [rec EXCEPT ![r] = Preserved(s)]
            /\ sessions' = sessions \ {r}
         \/ /\ ffmpeg /\ ~unusable
            /\ rec' = [rec EXCEPT ![r] = [s EXCEPT !.job = "encoding"]]
            /\ UNCHANGED sessions

(* finalize up to its first await: the exit of the sidecar after SIGTERM. *)
Finalize(r) ==
  \/ /\ r \notin sessions
     /\ rec' = [rec EXCEPT ![r].answer = "failed"]
     /\ UNCHANGED <<sessions, file, volume, torn>>
  \/ /\ r \in sessions /\ rec[r].sidecar = "running"
     /\ rec' = [rec EXCEPT ![r].job = "draining", ![r].closing = TRUE]
     /\ UNCHANGED <<sessions, file, volume, torn>>
  \/ /\ r \in sessions /\ rec[r].sidecar # "running"
     /\ Restore(r)
     /\ AfterSidecar(r)

(* ffmpeg has ended, or 4 s have passed: the volume is restored before the await of    *)
(* probeDurationMs, and the descriptor is closed only after it.                        *)
SidecarDrained(r) ==
  /\ rec[r].job = "draining"
  /\ Restore(r)
  /\ \/ /\ rec' = [rec EXCEPT ![r].job = "measuring", ![r].prior = "none",
                              ![r].sidecar = "stopped"]
        /\ UNCHANGED <<sessions, file, torn>>
     \/ AfterSidecar(r)
  /\ UNCHANGED <<ffmpeg, crossed>>

DurationProbed(r) ==
  /\ rec[r].job = "measuring"
  /\ AfterSidecar(r)
  /\ UNCHANGED <<ffmpeg, volume, crossed>>

(* probeHasAudio and the loop over the encoders: one succeeds, or the cadence is too   *)
(* low for a replay, its sound does not cover it, or all encoders fail.                *)
Encoded(r) ==
  /\ rec[r].job = "encoding"
  /\ \/ rec' = [rec EXCEPT ![r] = Published(rec[r])]
     \/ rec' = [rec EXCEPT ![r] = Preserved(rec[r])]
  /\ sessions' = sessions \ {r}
  /\ UNCHANGED <<ffmpeg, file, volume, torn, crossed>>

----------------------------------------------------------------------------
(* Cancel *)

(* cancel: kill, restore, close, delete, forget. s.fd and the prior volume stay set,   *)
(* so that a finalize that awaits will close and restore again; and the descriptor it  *)
(* closes may be one that finalize has closed before.                                  *)
Cancelled(s) ==
  LET t == [s EXCEPT !.closing = TRUE, !.temp = FALSE, !.cancelled = TRUE,
                     !.sidecar = IF s.job = "verifying" THEN "stopped" ELSE @]
  IN  IF s.job \in {"open", "stuck"} THEN Over(t) ELSE t

Cancel(r) ==
  IF r \notin sessions THEN UNCHANGED <<rec, sessions, file, volume, torn>>
  ELSE /\ Restore(r) /\ CloseFd(r)
       /\ rec' = [rec EXCEPT ![r] = Cancelled(@)]
       /\ sessions' = sessions \ {r}

(* cancelAll: the sessions in the order of the map, oldest first, so that the volume   *)
(* written last is the one the newest has saved.                                       *)
CancelAll ==
  LET raised == {r \in sessions : rec[r].prior # "none"}
      newest == CHOOSE r \in raised : \A q \in raised : q <= r
  IN  /\ volume' = IF raised = {} THEN volume ELSE rec[newest].prior
      /\ torn' = (torn \/ \E r \in sessions : file[rec[r].fd] \notin sessions \union {None})
      /\ file' = [d \in Fd |-> IF \E r \in sessions : rec[r].fd = d THEN None ELSE file[d]]
      /\ rec' = [r \in Rec |-> IF r \in sessions THEN Cancelled(rec[r]) ELSE rec[r]]
      /\ sessions' = {}

MainStep(r) ==
  BeginVerified(r) \/ BeginRefused(r) \/ SidecarDrained(r) \/ DurationProbed(r) \/ Encoded(r)
=============================================================================
