------------------------ MODULE RecordingApp_proofs ------------------------
(* Proofs about the recordings of the app, for every value of its bounds. *)
EXTENDS RecordingApp, FiniteSetTheorems, WellFoundedInduction, TLAPS

-----------------------------------------------------------------------------
(* The inductive invariant *)

\* What the job of a recording says of it; listed: it is in the map.
RecordOK(s, listed) ==
  /\ s.job = "none" => s = Fresh /\ ~listed
  /\ s.job = "over" => ~listed
  /\ s.job = "open" => listed
  /\ s.job = "verifying" /\ s.sidecar = "running" => listed
  /\ s.job \notin {"none", "over"} => s.fd \in Fd
  /\ s.job \in {"draining", "measuring", "encoding", "stuck"} => s.closing
  /\ s.job \in {"measuring", "encoding", "stuck", "over"} => s.prior = "none"
  /\ s.answer = "none" <=> s.job \in {"none", "verifying"}
  /\ s.answer = "threw" => s.job = "over"
  /\ s.job # "none" /\ s.answer # "threw" => s.cancelled \/ s.temp \/ s.output

RecordInv == \A r \in Rec : RecordOK(rec[r], r \in sessions)

\* A descriptor stands for one recording, a begun one; a recording that takes
\* chunks has its own, unless a close has gone astray.
FileInv ==
  /\ \A d \in Fd : file[d] # None => rec[file[d]].job # "none"
  /\ \A d, e \in Fd : file[d] = file[e] => d = e \/ file[d] = None
  /\ torn \/ \A r \in sessions : rec[r].closing \/ file[rec[r].fd] = r

MainTypeOK ==
  /\ ffmpeg \in BOOLEAN /\ rec \in [Rec -> Recordings] /\ sessions \subseteq Rec
  /\ file \in [Fd -> Rec \union {None}] /\ volume \in Volumes \ {"none"}
  /\ {torn, crossed} \subseteq BOOLEAN

MainInv == MainTypeOK /\ RecordInv /\ FileInv

\* As long as no two recordings held the volume together, what they would put
\* back is the user's.
VolumeInv ==
  \/ crossed
  \/ /\ \A r \in Rec : rec[r].prior \in {"none", "user"}
     /\ volume = "user" \/ \E r \in Rec : Holding(r)

RendTypeOK ==
  /\ status \in {"idle", "preparing", "recording", "finalizing"}
  /\ session \in Rec \union {None} /\ flow \in [Flow -> Flows]
  /\ stopping \in [Rec -> {"none", "draining", "finalizing"}]
  /\ media \in [Rec -> Media] /\ pending \in [Rec -> BOOLEAN]
  /\ buf \in [Buf -> Bufs] /\ handle \in Buf \union {None}
  /\ {quit, doubled, late} \subseteq BOOLEAN

\* The recording whose begin a replay buffer, or its save, awaits.
StartOf(b) == IF buf[b].start = "beginning" THEN buf[b].active ELSE None
SaveOf(b)  == IF buf[b].save = "beginning" THEN buf[b].saved ELSE None

Starting(r) == \/ \E i \in Flow : flow[i].rec = r
               \/ \E b \in Buf : StartOf(b) = r \/ SaveOf(b) = r

\* No two of those who await a begin await the same recording.
OwnerInv ==
  /\ \A i, j \in Flow : flow[i].rec = flow[j].rec => i = j \/ flow[i].rec = None
  /\ \A i \in Flow, b \in Buf : flow[i].rec \in {StartOf(b), SaveOf(b)} => flow[i].rec = None
  /\ \A b, c \in Buf : /\ StartOf(b) = StartOf(c) => b = c \/ StartOf(b) = None
                       /\ SaveOf(b) = SaveOf(c) => b = c \/ SaveOf(b) = None
                       /\ StartOf(b) = SaveOf(c) => StartOf(b) = None

\* What a replay buffer has of its start, its save and its stop agrees.
BufOK(g) ==
  /\ g.start \in {"none", "acquiring"} => g.active = None
  /\ g.start # "up" => g.save = "none" /\ g.stop = "none"
  /\ g.start \in {"beginning", "up"} => g.active # None
  /\ g.save = "none" <=> g.saved = None

BufferInv ==
  /\ \A i \in Flow : flow[i].pc = "beginning" <=> flow[i].rec # None
  /\ \A b \in Buf : BufOK(buf[b]) /\ (handle = b => buf[b].start = "up")

\* A MediaRecorder that never ran, and one that somebody has stopped.
Unused == {"none", "dead"}
Halted == {"off", "cut"}

\* MediaRecorder runs at most once for a recording, from its begin on and not longer than it
\* takes chunks: nothing is pending once it closes.
MediaInv ==
  \A r \in Rec :
    /\ Starting(r) => media[r] = "none"
    /\ stopping[r] # "none" => media[r] \in Halted
    /\ media[r] = "none" => ~pending[r]
    /\ session = r => media[r] \notin Unused
    /\ media[r] # "none" => rec[r].answer \notin {"none", "threw"}

BegunInv ==
  /\ \A i \in Flow : flow[i].rec # None => rec[flow[i].rec].answer \notin {"none", "threw"}
  /\ \A b \in Buf :
       /\ buf[b].start = "beginning" => rec[buf[b].active].job # "none"
       /\ buf[b].save = "beginning" => rec[buf[b].saved].job # "none"
       /\ buf[b].start = "up" => media[buf[b].active] \notin Unused
       /\ buf[b].save \in {"draining", "finalizing"} => media[buf[b].saved] \in Halted

QuietInv == \A r \in sessions : rec[r].closing => media[r] \in Halted /\ ~pending[r]

RendInv == RendTypeOK /\ OwnerInv /\ BufferInv /\ MediaInv /\ BegunInv /\ QuietInv

\* No chunk that somebody waits for is dropped before a close has gone astray.
ChunksKept == torn \/ \A r \in Rec : ~rec[r].holed

IInv == MainInv /\ RendInv /\ ChunksKept /\ VolumeInv

-----------------------------------------------------------------------------
(* The steps of main on recordings that have begun *)

\* What such a step makes of a recording, from s to f.
Moves(s, f, was, is) ==
  /\ RecordOK(f, is)
  /\ is => was
  /\ s.job = "none" <=> f.job = "none"
  /\ s.answer \notin {"none", "threw"} => f.answer \notin {"none", "threw"}
  /\ f.job \in {"verifying", "open"} => s.job \in {"verifying", "open"}
  /\ is /\ ~f.closing => ~s.closing /\ f.fd = s.fd
  /\ f.prior \in {"none", s.prior}

FilesClosed ==
  /\ file' \in [Fd -> Rec \union {None}] /\ torn' \in BOOLEAN /\ (torn => torn')
  /\ \A d \in Fd : file'[d] \in {file[d], None}
  /\ torn' \/ \A q \in sessions' : rec'[q].closing \/ file'[rec[q].fd] = file[rec[q].fd]

VolumeStep ==
  \/ volume' = volume /\ \A q \in Rec : Holding(q) => q \in sessions' /\ rec'[q].prior # "none"
  \/ \E q \in Rec : rec[q].prior # "none" /\ volume' = rec[q].prior

Evolves ==
  /\ rec' \in [Rec -> Recordings] /\ sessions' \subseteq Rec
  /\ \A q \in Rec : Moves(rec[q], rec'[q], q \in sessions, q \in sessions')
  /\ FilesClosed
  /\ VolumeStep

\* A step on one recording.
Updates(r, f, is) ==
  /\ rec' = [rec EXCEPT ![r] = f]
  /\ sessions' = IF is THEN sessions \union {r} ELSE sessions \ {r}

Single(r, f, is) ==
  /\ f \in Recordings /\ is \in BOOLEAN
  /\ Updates(r, f, is)
  /\ Moves(rec[r], f, r \in sessions, is)
  /\ UNCHANGED <<file, torn>> \/ (CloseFd(r) /\ (is => f.closing))
  /\ \/ /\ volume' = volume
        /\ rec[r].prior = "none" \/ (f.prior = rec[r].prior /\ (is <=> r \in sessions))
     \/ Restore(r)

\* No recording closes that is still in the map; the chunks lost are the same.
NoneCloses == \A q \in sessions' : rec'[q].closing => q \in sessions /\ rec[q].closing
KeepsHoled == \A q \in Rec : rec'[q].holed = rec[q].holed

Unstored(r) == r \in sessions /\ (rec[r].closing \/ file[rec[r].fd] # r)

\* A begin adds a recording that takes chunks, or one that threw.
Begins(r, replay) ==
  /\ rec[r].job = "none" /\ rec'[r].job # "none" /\ ~rec'[r].holed /\ torn' = torn
  /\ ~replay => rec'[r].answer = "begun"
  /\ r \in sessions' => ~rec'[r].closing
  /\ \A q \in Rec \ {r} : rec'[q] = rec[q] /\ (q \in sessions' <=> q \in sessions)

\* What the renderer relies on: a recording that has begun, or was answered, stays so.
RecsKept ==
  \A q \in Rec : /\ rec[q].answer \notin {"none", "threw"} => rec'[q].answer \notin {"none", "threw"}
                 /\ rec[q].job # "none" => rec'[q].job # "none"

\* A nonempty set of naturals has a least element.
LEMMA LeastNatural ==
  ASSUME NEW S \in SUBSET Nat, S # {}
  PROVE  \E x \in S : \A y \in S : x <= y
<1>1. PICK x \in S : \A y \in S : ~(<<y, x>> \in OpToRel(<, Nat))
  BY NatLessThanWellFounded, WFMin, Zenon
<1>2. \A y \in S : y < x => <<y, x>> \in OpToRel(<, Nat)
  BY DEF OpToRel
<1>3. \A y \in S : ~(y < x)
  BY <1>1, <1>2, Zenon
<1>4. x \in Nat /\ \A y \in S : y \in Nat
  OBVIOUS
<1> HIDE <1>1, <1>2
<1> QED
  BY <1>3, <1>4

\* A nonempty set of recordings has a newest one.
LEMMA NewestRecording ==
  ASSUME NEW S \in SUBSET Rec, S # {}
  PROVE  \E x \in S : \A y \in S : y <= x
<1> DEFINE T == {MaxRec - x : x \in S}
<1>1. MaxRec \in Nat /\ \A x \in S : x \in 1..MaxRec
  BY MaxRecAssumption DEF Rec
<1>2. T \in SUBSET Nat /\ T # {}
  BY <1>1
<1>3. PICK t \in T : \A u \in T : t <= u
  <2> HIDE DEF T
  <2> QED BY <1>2, LeastNatural
<1>4. PICK x \in S : t = MaxRec - x
  OBVIOUS
<1>5. \A y \in S : MaxRec - x <= MaxRec - y
  BY <1>3, <1>4
<1> QED
  BY <1>1, <1>4, <1>5

\* A recording that begins finds a free descriptor, and takes the lowest.
LEMMA FreeFdExists ==
  ASSUME MainInv, NEW r \in Rec, rec[r].job = "none"
  PROVE  FreeFd \in Fd /\ file[FreeFd] = None
<1> DEFINE Free == {d \in Fd : file[d] = None}
<1>1. MaxRec \in Nat \ {0}
  BY MaxRecAssumption
<1>2. Free # {}
  <2> SUFFICES ASSUME \A d \in Fd : file[d] # None PROVE FALSE
    OBVIOUS
  <2>1. file \in [Fd -> Rec \ {r}]
    BY DEF MainInv, MainTypeOK, FileInv
  <2>2. IsFiniteSet(Rec) /\ Cardinality(Rec) = MaxRec
    BY <1>1, FS_Interval DEF Rec
  <2>3. IsFiniteSet(Rec \ {r}) /\ Cardinality(Rec \ {r}) = MaxRec - 1
    BY <2>2, FS_RemoveElement
  <2>4. IsFiniteSet(Fd) /\ Cardinality(Fd) = MaxRec
    BY <2>2 DEF Fd, Rec
  <2>5. Cardinality(Rec \ {r}) < Cardinality(Fd)
    BY <1>1, <2>3, <2>4
  <2>6. \E d, e \in Fd : d # e /\ file[d] = file[e]
    BY <2>1, <2>3, <2>4, <2>5, FS_PigeonHole
  <2> QED
    BY <2>6 DEF MainInv, FileInv
<1>3. Free \in SUBSET Nat
  BY DEF Fd
<1>4. PICK d \in Free : \A e \in Free : d <= e
  <2> HIDE DEF Free
  <2> QED BY <1>2, <1>3, LeastNatural
<1>5. d \in Fd /\ file[d] = None /\ \A e \in 1..(d - 1) : file[e] # None
  BY <1>1, <1>4 DEF Fd
<1> QED
  BY <1>5 DEF FreeFd

-----------------------------------------------------------------------------
\* What is left of a session is a recording that holds nothing.
LEMMA OverGives ==
  ASSUME NEW s \in Recordings
  PROVE  /\ Over(s) \in Recordings
         /\ Over(s).job = "over" /\ Over(s).closing /\ Over(s).prior = "none"
         /\ Over(s).answer = s.answer /\ Over(s).temp = s.temp /\ Over(s).output = s.output
         /\ Over(s).cancelled = s.cancelled /\ Over(s).holed = s.holed
<1>1. Over(s) \in Recordings
  BY DEF Over, Recordings, Volumes
<1>2. Over(s).job = "over" /\ Over(s).closing /\ Over(s).prior = "none"
  BY DEF Over, Recordings
<1>3. /\ Over(s).answer = s.answer /\ Over(s).temp = s.temp /\ Over(s).output = s.output
      /\ Over(s).cancelled = s.cancelled /\ Over(s).holed = s.holed
  BY DEF Over, Recordings
<1> QED BY <1>1, <1>2, <1>3

\* Nothing changes for a recording: also a move.
LEMMA Stays ==
  ASSUME MainInv, NEW q \in Rec
  PROVE  Moves(rec[q], rec[q], q \in sessions, q \in sessions)
BY Zenon DEF MainInv, RecordInv, Moves

\* A step on one recording is one of main on all of them.
LEMMA SingleEvolves ==
  ASSUME MainInv, NEW r \in Rec, NEW f, NEW is, Single(r, f, is)
  PROVE  Evolves /\ rec'[r] = f /\ (r \in sessions' <=> is)
         /\ \A q \in Rec \ {r} : rec'[q] = rec[q] /\ (q \in sessions' <=> q \in sessions)
<1> USE DEF Single, Updates
<1>1. rec' \in [Rec -> Recordings] /\ sessions' \subseteq Rec
  BY DEF MainInv, MainTypeOK
<1>2. rec'[r] = f /\ (r \in sessions' <=> is)
  BY DEF MainInv, MainTypeOK
<1>3. \A q \in Rec \ {r} : rec'[q] = rec[q] /\ (q \in sessions' <=> q \in sessions)
  BY DEF MainInv, MainTypeOK
<1>4. \A q \in Rec : Moves(rec[q], rec'[q], q \in sessions, q \in sessions')
  <2> SUFFICES ASSUME NEW q \in Rec
               PROVE  Moves(rec[q], rec'[q], q \in sessions, q \in sessions')
    OBVIOUS
  <2>1. CASE q = r
    <3>1. (q \in sessions') = is /\ rec'[q] = f
      BY <1>2, <2>1
    <3> QED BY <2>1, <3>1, Zenon
  <2>2. CASE q # r
    <3>1. rec'[q] = rec[q] /\ (q \in sessions' <=> q \in sessions)
      BY <1>3, <2>2, Zenon
    <3>2. (q \in sessions') = (q \in sessions)
      BY <3>1
    <3> QED BY <3>1, <3>2, Stays, Zenon
  <2> QED BY <2>1, <2>2
<1>5. FilesClosed
  <2>1. file \in [Fd -> Rec \union {None}] /\ torn \in BOOLEAN
    BY DEF MainInv, MainTypeOK
  <2>2. CASE UNCHANGED <<file, torn>>
    BY <2>1, <2>2 DEF FilesClosed
  <2>3. CASE CloseFd(r) /\ (is => f.closing)
    <3>1. file' \in [Fd -> Rec \union {None}] /\ torn' \in BOOLEAN /\ (torn => torn')
      BY <2>1, <2>3 DEF CloseFd
    <3>2. \A d \in Fd : file'[d] \in {file[d], None} /\ (d # rec[r].fd => file'[d] = file[d])
      BY <2>1, <2>3 DEF CloseFd
    <3>3. \A q \in sessions' : rec'[q].closing \/ file'[rec[q].fd] = file[rec[q].fd] \/ torn'
      <4> SUFFICES ASSUME NEW q \in sessions', ~rec'[q].closing, ~torn'
                   PROVE  file'[rec[q].fd] = file[rec[q].fd]
        OBVIOUS
      <4>1. q \in Rec \ {r}
        BY <1>1, <1>2, <2>3
      <4>2. q \in sessions /\ rec'[q] = rec[q]
        BY <1>3, <4>1
      <4>3. torn \/ (~rec[q].closing /\ file[rec[q].fd] = q)
        BY <4>2 DEF MainInv, FileInv
      <4>4. torn' = (torn \/ file[rec[r].fd] \notin {None, r})
        BY <2>3 DEF CloseFd
      <4>5. q # None /\ q # r
        BY <4>1, MaxRecAssumption DEF Rec, None
      <4>6. rec[q].fd # rec[r].fd
        BY <4>3, <4>4, <4>5
      <4>7. rec[q].job \notin {"none", "over"} /\ rec[q].fd \in Fd
        BY <4>1, <4>2, Zenon DEF MainInv, RecordInv, RecordOK
      <4> QED BY <3>2, <4>6, <4>7
    <3> QED BY <3>1, <3>2, <3>3 DEF FilesClosed
  <2> QED BY <2>2, <2>3
<1>6. VolumeStep
  <2>1. \A q \in Rec : q # r /\ Holding(q) => q \in sessions' /\ rec'[q].prior # "none"
    BY <1>3 DEF Holding
  <2>2. CASE volume' = volume /\ rec[r].prior = "none"
    BY <2>1, <2>2 DEF VolumeStep, Holding
  <2>3. CASE volume' = volume /\ f.prior = rec[r].prior /\ (is <=> r \in sessions)
    BY <1>2, <2>1, <2>3 DEF VolumeStep, Holding
  <2>4. CASE Restore(r)
    <3>1. CASE rec[r].prior = "none"
      BY <2>1, <2>4, <3>1 DEF VolumeStep, Holding, Restore
    <3>2. CASE rec[r].prior # "none"
      BY <2>4, <3>2 DEF VolumeStep, Restore
    <3> QED BY <3>1, <3>2
  <2> QED BY <2>2, <2>3, <2>4
<1> QED
  BY <1>1, <1>2, <1>3, <1>4, <1>5, <1>6, Zenon DEF Evolves

\* What a step on one recording does to the chunks taken and lost.
LEMMA SingleKeeps ==
  ASSUME MainInv, NEW r \in Rec, NEW f, NEW is, Single(r, f, is),
         f.holed = rec[r].holed, is /\ f.closing => rec[r].closing
  PROVE  NoneCloses /\ KeepsHoled
<1>1. /\ Evolves /\ rec'[r] = f /\ (r \in sessions' <=> is)
      /\ \A q \in Rec \ {r} : rec'[q] = rec[q] /\ (q \in sessions' <=> q \in sessions)
  BY SingleEvolves
<1>2. sessions' \subseteq Rec /\ (is => r \in sessions)
  BY <1>1 DEF Evolves, Single, Moves
<1>3. NoneCloses
  BY <1>1, <1>2 DEF NoneCloses
<1>4. KeepsHoled
  BY <1>1 DEF KeepsHoled
<1> QED BY <1>3, <1>4

-----------------------------------------------------------------------------
(* Each step of main *)

\* The sidecar of a begin that is verified has lived long enough.
LEMMA VerifiedEvolves ==
  ASSUME MainInv, NEW r \in Rec, BeginVerified(r)
  PROVE  Evolves /\ NoneCloses /\ KeepsHoled
<1> DEFINE f == [rec[r] EXCEPT !.job = "open", !.answer = "begun"]
<1>1. rec[r] \in Recordings /\ RecordOK(rec[r], r \in sessions)
  BY DEF MainInv, MainTypeOK, RecordInv
<1>2. f \in Recordings
  BY <1>1 DEF Recordings
<1>3. /\ f.job = "open" /\ f.answer = "begun" /\ f.closing = rec[r].closing /\ f.fd = rec[r].fd
      /\ f.prior = rec[r].prior /\ f.temp = rec[r].temp /\ f.output = rec[r].output
      /\ f.cancelled = rec[r].cancelled /\ f.holed = rec[r].holed
  BY <1>1 DEF Recordings
<1>4. rec' = [rec EXCEPT ![r] = f] /\ UNCHANGED <<sessions, file, torn, volume>>
  BY <1>1 DEF BeginVerified, MainInv, MainTypeOK, Recordings
<1> HIDE DEF f
<1>5. rec[r].job = "verifying" /\ r \in sessions
  BY <1>1 DEF BeginVerified, RecordOK
<1>6. Moves(rec[r], f, r \in sessions, TRUE)
  BY <1>1, <1>3, <1>5 DEF Moves, RecordOK
<1>7. Single(r, f, TRUE)
  BY <1>2, <1>3, <1>4, <1>5, <1>6 DEF Single, Updates
<1> QED
  BY <1>3, <1>7, SingleEvolves, SingleKeeps

\* A begin whose sidecar ended undoes all.
LEMMA RefusedEvolves ==
  ASSUME MainInv, NEW r \in Rec, BeginRefused(r)
  PROVE  Evolves /\ NoneCloses /\ KeepsHoled
<1> DEFINE f == [Over(rec[r]) EXCEPT !.answer = "threw", !.temp = FALSE]
<1>1. rec[r] \in Recordings /\ RecordOK(rec[r], r \in sessions)
  BY DEF MainInv, MainTypeOK, RecordInv
<1>2. f \in Recordings
  <2>1. Over(rec[r]) \in Recordings
    BY <1>1, OverGives
  <2> QED BY <2>1 DEF Recordings
<1>3. /\ f.job = "over" /\ f.answer = "threw" /\ f.prior = "none" /\ f.holed = rec[r].holed
  BY <1>1, OverGives DEF Recordings
<1>4. /\ rec' = [rec EXCEPT ![r] = f] /\ sessions' = sessions \ {r}
      /\ CloseFd(r) /\ Restore(r) /\ rec[r].job = "verifying"
  BY DEF BeginRefused, MainInv, MainTypeOK
<1> HIDE DEF f
<1>5. rec[r].answer = "none"
  BY <1>1, <1>4 DEF RecordOK
<1>6. Moves(rec[r], f, r \in sessions, FALSE)
  BY <1>1, <1>3, <1>4, <1>5 DEF Moves, RecordOK
<1>7. Single(r, f, FALSE)
  BY <1>2, <1>3, <1>4, <1>6 DEF Single, Updates
<1> QED
  BY <1>3, <1>7, SingleEvolves, SingleKeeps

\* A sidecar that dies leaves its recording as it was.
LEMMA DiesEvolves ==
  ASSUME MainInv, NEW r \in Rec, SidecarDies(r)
  PROVE  Evolves /\ NoneCloses /\ KeepsHoled
<1> DEFINE f == [rec[r] EXCEPT !.sidecar = "died"]
<1>1. rec[r] \in Recordings /\ RecordOK(rec[r], r \in sessions)
  BY DEF MainInv, MainTypeOK, RecordInv
<1>2. f \in Recordings
  BY <1>1 DEF Recordings
<1>3. /\ f.job = rec[r].job /\ f.answer = rec[r].answer /\ f.closing = rec[r].closing
      /\ f.fd = rec[r].fd /\ f.prior = rec[r].prior /\ f.temp = rec[r].temp
      /\ f.output = rec[r].output /\ f.cancelled = rec[r].cancelled /\ f.holed = rec[r].holed
  BY <1>1 DEF Recordings
<1>4. /\ rec' = [rec EXCEPT ![r] = f] /\ UNCHANGED <<sessions, file, torn, volume>>
      /\ rec[r].job = "open"
  BY DEF SidecarDies, MainInv, MainTypeOK
<1> HIDE DEF f
<1>5. r \in sessions
  BY <1>1, <1>4 DEF RecordOK
<1>6. Moves(rec[r], f, r \in sessions, TRUE)
  BY <1>1, <1>3, <1>4, <1>5 DEF Moves, RecordOK
<1>7. Single(r, f, TRUE)
  BY <1>2, <1>3, <1>4, <1>5, <1>6 DEF Single, Updates
<1> QED
  BY <1>3, <1>7, SingleEvolves, SingleKeeps

\* A chunk that is not taken is the only way to lose one that somebody waits for.
LEMMA AppendEvolves ==
  ASSUME MainInv, NEW r \in Rec, NEW awaited \in BOOLEAN, AppendChunk(r, awaited),
         UNCHANGED <<sessions, file, torn, volume>>
  PROVE  /\ Evolves /\ NoneCloses
         /\ \A q \in Rec : rec'[q].holed = rec[q].holed \/ (q = r /\ awaited /\ Unstored(r))
<1>1. rec[r] \in Recordings /\ RecordOK(rec[r], r \in sessions)
  BY DEF MainInv, MainTypeOK, RecordInv
<1>2. CASE UNCHANGED rec
  <2>1. UNCHANGED <<rec, sessions, file, torn, volume>>
    BY <1>2
  <2>2. rec' \in [Rec -> Recordings] /\ sessions' \subseteq Rec
    BY <2>1 DEF MainInv, MainTypeOK
  <2>3. \A q \in Rec : Moves(rec[q], rec'[q], q \in sessions, q \in sessions')
    BY <2>1, Stays, Zenon
  <2>4. FilesClosed
    BY <2>1 DEF FilesClosed, MainInv, MainTypeOK
  <2>5. VolumeStep
    BY <2>1 DEF VolumeStep, Holding
  <2>6. NoneCloses
    BY <2>1 DEF NoneCloses
  <2>7. Evolves
    BY <2>2, <2>3, <2>4, <2>5, Zenon DEF Evolves
  <2> QED BY <2>1, <2>6, <2>7
<1>3. CASE r \in sessions /\ ~UNCHANGED rec
  <2> DEFINE stored == ~rec[r].closing /\ file[rec[r].fd] = r
  <2> DEFINE f == [rec[r] EXCEPT !.data = @ \/ stored, !.holed = @ \/ (awaited /\ ~stored)]
  <2>1. f \in Recordings
    BY <1>1 DEF Recordings
  <2>2. /\ f.job = rec[r].job /\ f.answer = rec[r].answer /\ f.closing = rec[r].closing
        /\ f.fd = rec[r].fd /\ f.prior = rec[r].prior /\ f.temp = rec[r].temp
        /\ f.output = rec[r].output /\ f.cancelled = rec[r].cancelled
        /\ f.sidecar = rec[r].sidecar /\ f.holed = (rec[r].holed \/ (awaited /\ ~stored))
    BY <1>1 DEF Recordings
  <2>3. rec' = [rec EXCEPT ![r] = f]
    BY <1>3 DEF AppendChunk, MainInv, MainTypeOK
  <2> HIDE DEF f
  <2>4. rec[r].job \notin {"none", "over"}
    BY <1>1, <1>3 DEF RecordOK
  <2>5. Moves(rec[r], f, r \in sessions, TRUE)
    BY <1>1, <1>3, <2>2, <2>4 DEF Moves, RecordOK
  <2>6. Single(r, f, TRUE)
    BY <1>3, <2>1, <2>2, <2>3, <2>5 DEF Single, Updates
  <2>7. /\ Evolves /\ rec'[r] = f /\ sessions' = sessions
        /\ \A q \in Rec \ {r} : rec'[q] = rec[q]
    BY <2>6, SingleEvolves
  <2>8. NoneCloses
    BY <2>2, <2>7 DEF NoneCloses, MainInv, MainTypeOK
  <2>9. stored \/ rec[r].closing \/ file[rec[r].fd] # r
    OBVIOUS
  <2>10. rec[r].holed \in BOOLEAN
    BY <1>1 DEF Recordings
  <2>11. stored \/ ~awaited => f.holed = rec[r].holed
    BY <2>2, <2>10
  <2> HIDE DEF stored
  <2>12. \A q \in Rec : rec'[q].holed = rec[q].holed \/ (q = r /\ awaited /\ Unstored(r))
    BY <1>3, <2>7, <2>9, <2>11 DEF Unstored
  <2> QED BY <2>7, <2>8, <2>12, Zenon
<1> QED BY <1>2, <1>3 DEF AppendChunk


\* Once the sidecar is settled, finalize closes the descriptor and publishes, keeps, encodes or
\* gives up.
LEMMA AfterSidecarGives ==
  ASSUME MainInv, NEW r \in Rec, AfterSidecar(r),
         rec[r].job \notin {"none", "over"}, rec[r].answer \notin {"none", "threw"}
  PROVE  \E f \in Recordings, is \in BOOLEAN :
           /\ Updates(r, f, is) /\ CloseFd(r)
           /\ Moves(rec[r], f, r \in sessions, is)
           /\ f.closing /\ f.prior = "none" /\ f.holed = rec[r].holed /\ f.job # "open"
<1> DEFINE s == [rec[r] EXCEPT !.closing = TRUE, !.prior = "none",
                               !.sidecar = IF @ = "running" THEN "stopped" ELSE @]
<1>1. rec[r] \in Recordings /\ RecordOK(rec[r], r \in sessions)
  BY DEF MainInv, MainTypeOK, RecordInv
<1>2. s \in Recordings
  BY <1>1 DEF Recordings, Volumes
<1>3. /\ s.closing /\ s.prior = "none" /\ s.job = rec[r].job /\ s.answer = rec[r].answer
      /\ s.fd = rec[r].fd /\ s.temp = rec[r].temp /\ s.output = rec[r].output
      /\ s.cancelled = rec[r].cancelled /\ s.holed = rec[r].holed
  BY <1>1 DEF Recordings
<1>4. /\ CloseFd(r)
      /\ \/ rec' = [rec EXCEPT ![r] = Published(s)] /\ sessions' = sessions \ {r}
         \/ /\ rec' = [rec EXCEPT ![r] = [s EXCEPT !.job = "stuck", !.answer = "rejected"]]
            /\ UNCHANGED sessions
         \/ rec' = [rec EXCEPT ![r] = Preserved(s)] /\ sessions' = sessions \ {r}
         \/ rec' = [rec EXCEPT ![r] = [s EXCEPT !.job = "encoding"]] /\ UNCHANGED sessions
  BY DEF AfterSidecar
<1> HIDE DEF s
<1>5. s.job # "none" /\ s.answer \notin {"none", "threw"} /\ (s.cancelled \/ s.temp \/ s.output)
  BY <1>1, <1>3 DEF RecordOK
<1>6. rec[r].job \notin {"none", "verifying"}
  BY <1>1, <1>3, <1>5 DEF RecordOK
<1>7. (r \in sessions => rec[r].job # "over") /\ (r \in sessions) \in BOOLEAN
  BY <1>1 DEF RecordOK
<1>8. Over(s) \in Recordings
  BY <1>2, OverGives
<1>9. CASE rec' = [rec EXCEPT ![r] = Published(s)] /\ sessions' = sessions \ {r}
  <2> DEFINE f == Published(s)
  <2>1. f \in Recordings
    BY <1>8 DEF Recordings, Published
  <2>2. /\ f.job = "over" /\ f.closing /\ f.prior = "none" /\ f.answer = "saved" /\ f.output
        /\ f.holed = s.holed
    BY <1>2, <1>8, OverGives DEF Recordings, Published
  <2> HIDE DEF f
  <2>3. Moves(rec[r], f, r \in sessions, FALSE)
    BY <1>6, <2>2 DEF Moves, RecordOK
  <2>4. Updates(r, f, FALSE)
    BY <1>9 DEF Updates, f
  <2> QED BY <1>3, <1>4, <2>1, <2>2, <2>3, <2>4
<1>10. CASE rec' = [rec EXCEPT ![r] = Preserved(s)] /\ sessions' = sessions \ {r}
  <2> DEFINE f == Preserved(s)
  <2>1. f \in Recordings
    BY <1>8 DEF Recordings, Preserved
  <2>2. /\ f.job = "over" /\ f.closing /\ f.prior = "none" /\ f.answer = "failed"
        /\ f.holed = s.holed /\ (f.cancelled \/ f.temp \/ f.output)
    BY <1>2, <1>5, <1>8, OverGives DEF Recordings, Preserved
  <2> HIDE DEF f
  <2>3. Moves(rec[r], f, r \in sessions, FALSE)
    BY <1>6, <2>2 DEF Moves, RecordOK
  <2>4. Updates(r, f, FALSE)
    BY <1>10 DEF Updates, f
  <2> QED BY <1>3, <1>4, <2>1, <2>2, <2>3, <2>4
<1>11. ASSUME NEW job \in {"stuck", "encoding"}, NEW answer \in {"rejected", s.answer},
              rec' = [rec EXCEPT ![r] = [s EXCEPT !.job = job, !.answer = answer]],
              UNCHANGED sessions
       PROVE  \E f \in Recordings, is \in BOOLEAN :
                /\ Updates(r, f, is) /\ CloseFd(r)
                /\ Moves(rec[r], f, r \in sessions, is)
                /\ f.closing /\ f.prior = "none" /\ f.holed = rec[r].holed /\ f.job # "open"
  <2> DEFINE f == [s EXCEPT !.job = job, !.answer = answer]
  <2>1. s.answer \in {"none", "begun", "threw", "saved", "failed", "rejected"}
    BY <1>2 DEF Recordings
  <2>2. f \in Recordings
    BY <1>2, <2>1 DEF Recordings
  <2>3. /\ f.job \in {"stuck", "encoding"} /\ f.closing /\ f.prior = "none"
        /\ f.answer \notin {"none", "threw"} /\ f.fd = s.fd
        /\ f.holed = s.holed /\ (f.cancelled \/ f.temp \/ f.output)
    BY <1>2, <1>3, <1>5 DEF Recordings
  <2> HIDE DEF f
  <2>4. rec[r].fd \in Fd
    BY <1>1 DEF RecordOK
  <2>5. Moves(rec[r], f, r \in sessions, r \in sessions)
    BY <1>1, <1>3, <1>6, <2>3, <2>4 DEF Moves, RecordOK
  <2>6. Updates(r, f, r \in sessions)
    BY <1>11 DEF Updates, f
  <2> QED BY <1>3, <1>4, <1>7, <2>2, <2>3, <2>5, <2>6
<1>12. CASE /\ rec' = [rec EXCEPT ![r] = [s EXCEPT !.job = "stuck", !.answer = "rejected"]]
            /\ UNCHANGED sessions
  BY <1>11, <1>12
<1>13. CASE rec' = [rec EXCEPT ![r] = [s EXCEPT !.job = "encoding"]] /\ UNCHANGED sessions
  <2>1. [s EXCEPT !.job = "encoding"] = [s EXCEPT !.job = "encoding", !.answer = s.answer]
    BY <1>2 DEF Recordings
  <2> QED BY <1>11, <1>13, <2>1
<1> QED BY <1>4, <1>9, <1>10, <1>12, <1>13


\* finalize ends the taking of chunks.
LEMMA FinalizeEvolves ==
  ASSUME MainInv, NEW r \in Rec, Finalize(r), rec[r].answer \notin {"none", "threw"}
  PROVE  /\ Evolves /\ KeepsHoled /\ rec'[r].job # "open"
         /\ \A q \in Rec \ {r} : rec'[q] = rec[q] /\ (q \in sessions' <=> q \in sessions)
<1>1. rec[r] \in Recordings /\ RecordOK(rec[r], r \in sessions)
  BY DEF MainInv, MainTypeOK, RecordInv
<1>2. rec[r].job \notin {"none", "verifying"}
  BY <1>1 DEF RecordOK
<1>3. ASSUME NEW f, NEW is, Single(r, f, is), f.holed = rec[r].holed, f.job # "open"
      PROVE  /\ Evolves /\ KeepsHoled /\ rec'[r].job # "open"
             /\ \A q \in Rec \ {r} : rec'[q] = rec[q] /\ (q \in sessions' <=> q \in sessions)
  <2>1. /\ Evolves /\ rec'[r] = f
        /\ \A q \in Rec \ {r} : rec'[q] = rec[q] /\ (q \in sessions' <=> q \in sessions)
    BY <1>3, SingleEvolves
  <2>2. KeepsHoled
    BY <1>3, <2>1 DEF KeepsHoled
  <2> QED BY <1>3, <2>1, <2>2
<1>4. CASE /\ r \notin sessions /\ rec' = [rec EXCEPT ![r].answer = "failed"]
           /\ UNCHANGED <<sessions, file, volume, torn>>
  <2> DEFINE f == [rec[r] EXCEPT !.answer = "failed"]
  <2>1. f \in Recordings
    BY <1>1 DEF Recordings
  <2>2. /\ f.job = rec[r].job /\ f.answer = "failed" /\ f.closing = rec[r].closing
        /\ f.fd = rec[r].fd /\ f.prior = rec[r].prior /\ f.temp = rec[r].temp
        /\ f.output = rec[r].output /\ f.cancelled = rec[r].cancelled /\ f.holed = rec[r].holed
    BY <1>1 DEF Recordings
  <2>3. rec' = [rec EXCEPT ![r] = f]
    BY <1>4 DEF MainInv, MainTypeOK
  <2> HIDE DEF f
  <2>4. rec[r].job # "open"
    BY <1>1, <1>4 DEF RecordOK
  <2>5. Moves(rec[r], f, r \in sessions, FALSE)
    BY <1>1, <1>2, <1>4, <2>2 DEF Moves, RecordOK
  <2>6. Single(r, f, FALSE)
    BY <1>4, <2>1, <2>2, <2>3, <2>5 DEF Single, Updates
  <2> QED BY <1>3, <2>2, <2>4, <2>6
<1>5. CASE /\ r \in sessions /\ rec' = [rec EXCEPT ![r].job = "draining", ![r].closing = TRUE]
           /\ UNCHANGED <<sessions, file, volume, torn>>
  <2> DEFINE f == [rec[r] EXCEPT !.job = "draining", !.closing = TRUE]
  <2>1. f \in Recordings
    BY <1>1 DEF Recordings
  <2>2. /\ f.job = "draining" /\ f.answer = rec[r].answer /\ f.closing
        /\ f.fd = rec[r].fd /\ f.prior = rec[r].prior /\ f.temp = rec[r].temp
        /\ f.output = rec[r].output /\ f.cancelled = rec[r].cancelled /\ f.holed = rec[r].holed
    BY <1>1 DEF Recordings
  <2>3. rec' = [rec EXCEPT ![r] = f]
    BY <1>5 DEF MainInv, MainTypeOK, Recordings
  <2> HIDE DEF f
  <2>4. rec[r].job # "over"
    BY <1>1, <1>5 DEF RecordOK
  <2>5. Moves(rec[r], f, r \in sessions, TRUE)
    BY <1>1, <1>2, <1>5, <2>2, <2>4 DEF Moves, RecordOK
  <2>6. Single(r, f, TRUE)
    BY <1>5, <2>1, <2>2, <2>3, <2>5 DEF Single, Updates
  <2> QED BY <1>3, <2>2, <2>6
<1>6. CASE r \in sessions /\ Restore(r) /\ AfterSidecar(r)
  <2>1. rec[r].job \notin {"none", "over"}
    BY <1>1, <1>2, <1>6 DEF RecordOK
  <2>2. PICK f \in Recordings, is \in BOOLEAN :
          /\ Updates(r, f, is) /\ CloseFd(r)
          /\ Moves(rec[r], f, r \in sessions, is)
          /\ f.closing /\ f.prior = "none" /\ f.holed = rec[r].holed /\ f.job # "open"
    BY <1>6, <2>1, AfterSidecarGives
  <2>3. Single(r, f, is)
    BY <1>6, <2>2 DEF Single
  <2> QED BY <1>3, <2>2, <2>3
<1> QED BY <1>4, <1>5, <1>6, Zenon DEF Finalize

\* The sidecar has ended: the volume is restored, and the probe may come before the close.
LEMMA DrainedEvolves ==
  ASSUME MainInv, NEW r \in Rec, SidecarDrained(r)
  PROVE  Evolves /\ NoneCloses /\ KeepsHoled
<1>1. rec[r] \in Recordings /\ RecordOK(rec[r], r \in sessions)
  BY DEF MainInv, MainTypeOK, RecordInv
<1>2. rec[r].job = "draining" /\ Restore(r)
  BY DEF SidecarDrained
<1>3. rec[r].answer \notin {"none", "threw"} /\ rec[r].closing
  BY <1>1, <1>2 DEF RecordOK
<1>4. CASE /\ rec' = [rec EXCEPT ![r].job = "measuring", ![r].prior = "none",
                                 ![r].sidecar = "stopped"]
           /\ UNCHANGED <<sessions, file, torn>>
  <2> DEFINE f == [rec[r] EXCEPT !.job = "measuring", !.prior = "none", !.sidecar = "stopped"]
  <2>1. f \in Recordings
    BY <1>1 DEF Recordings, Volumes
  <2>2. /\ f.job = "measuring" /\ f.answer = rec[r].answer /\ f.closing
        /\ f.fd = rec[r].fd /\ f.prior = "none" /\ f.temp = rec[r].temp
        /\ f.output = rec[r].output /\ f.cancelled = rec[r].cancelled /\ f.holed = rec[r].holed
    BY <1>1, <1>3 DEF Recordings
  <2>3. rec' = [rec EXCEPT ![r] = f]
    BY <1>4 DEF MainInv, MainTypeOK, Recordings
  <2> HIDE DEF f
  <2>4. Moves(rec[r], f, r \in sessions, r \in sessions)
    BY <1>1, <1>2, <1>3, <2>2 DEF Moves, RecordOK
  <2>5. Updates(r, f, r \in sessions)
    BY <1>4, <2>3 DEF Updates
  <2>6. (r \in sessions) \in BOOLEAN
    OBVIOUS
  <2>7. Single(r, f, r \in sessions)
    BY <1>2, <1>4, <2>1, <2>4, <2>5, <2>6, Zenon DEF Single
  <2> QED BY <1>3, <2>2, <2>7, SingleEvolves, SingleKeeps
<1>5. CASE AfterSidecar(r)
  <2>1. PICK f \in Recordings, is \in BOOLEAN :
          /\ Updates(r, f, is) /\ CloseFd(r)
          /\ Moves(rec[r], f, r \in sessions, is)
          /\ f.closing /\ f.prior = "none" /\ f.holed = rec[r].holed /\ f.job # "open"
    BY <1>2, <1>3, <1>5, AfterSidecarGives
  <2>2. Single(r, f, is)
    BY <1>2, <2>1 DEF Single
  <2> QED BY <1>3, <2>1, <2>2, SingleEvolves, SingleKeeps
<1> QED BY <1>4, <1>5, Zenon DEF SidecarDrained

\* The probe has answered.
LEMMA ProbedEvolves ==
  ASSUME MainInv, NEW r \in Rec, DurationProbed(r)
  PROVE  Evolves /\ NoneCloses /\ KeepsHoled
<1>1. rec[r] \in Recordings /\ RecordOK(rec[r], r \in sessions)
  BY DEF MainInv, MainTypeOK, RecordInv
<1>2. rec[r].job = "measuring" /\ AfterSidecar(r) /\ volume' = volume
  BY DEF DurationProbed
<1>3. rec[r].answer \notin {"none", "threw"} /\ rec[r].closing /\ rec[r].prior = "none"
  BY <1>1, <1>2 DEF RecordOK
<1>4. PICK f \in Recordings, is \in BOOLEAN :
        /\ Updates(r, f, is) /\ CloseFd(r)
        /\ Moves(rec[r], f, r \in sessions, is)
        /\ f.closing /\ f.prior = "none" /\ f.holed = rec[r].holed /\ f.job # "open"
  BY <1>2, <1>3, AfterSidecarGives
<1>5. Single(r, f, is)
  BY <1>2, <1>3, <1>4 DEF Single
<1> QED BY <1>3, <1>4, <1>5, SingleEvolves, SingleKeeps

\* The encoders have run.
LEMMA EncodedEvolves ==
  ASSUME MainInv, NEW r \in Rec, Encoded(r)
  PROVE  Evolves /\ NoneCloses /\ KeepsHoled
<1>1. rec[r] \in Recordings /\ RecordOK(rec[r], r \in sessions)
  BY DEF MainInv, MainTypeOK, RecordInv
<1>2. /\ rec[r].job = "encoding" /\ sessions' = sessions \ {r}
      /\ UNCHANGED <<file, volume, torn>>
      /\ \/ rec' = [rec EXCEPT ![r] = Published(rec[r])]
         \/ rec' = [rec EXCEPT ![r] = Preserved(rec[r])]
  BY DEF Encoded
<1>3. /\ rec[r].prior = "none" /\ rec[r].answer # "threw"
      /\ rec[r].cancelled \/ rec[r].temp \/ rec[r].output
  BY <1>1, <1>2 DEF RecordOK
<1>4. Over(rec[r]) \in Recordings
  BY <1>1, OverGives
<1>5. ASSUME NEW f \in Recordings, rec' = [rec EXCEPT ![r] = f], f.job = "over", f.closing,
             f.prior = "none", f.answer \in {"saved", "failed"}, f.holed = rec[r].holed,
             f.cancelled \/ f.temp \/ f.output
      PROVE  Evolves /\ NoneCloses /\ KeepsHoled
  <2>1. Moves(rec[r], f, r \in sessions, FALSE)
    BY <1>2, <1>5 DEF Moves, RecordOK
  <2>2. Single(r, f, FALSE)
    BY <1>2, <1>3, <1>5, <2>1 DEF Single, Updates
  <2> QED BY <1>5, <2>2, SingleEvolves, SingleKeeps
<1>6. CASE rec' = [rec EXCEPT ![r] = Published(rec[r])]
  <2> DEFINE f == Published(rec[r])
  <2>1. f \in Recordings
    BY <1>4 DEF Recordings, Published
  <2>2. /\ f.job = "over" /\ f.closing /\ f.prior = "none" /\ f.answer = "saved" /\ f.output
        /\ f.holed = rec[r].holed
    BY <1>1, <1>4, OverGives DEF Recordings, Published
  <2> HIDE DEF f
  <2>3. rec' = [rec EXCEPT ![r] = f]
    BY <1>6 DEF f
  <2> QED BY <1>5, <2>1, <2>2, <2>3
<1>7. CASE rec' = [rec EXCEPT ![r] = Preserved(rec[r])]
  <2> DEFINE f == Preserved(rec[r])
  <2>1. f \in Recordings
    BY <1>4 DEF Recordings, Preserved
  <2>2. /\ f.job = "over" /\ f.closing /\ f.prior = "none" /\ f.answer = "failed"
        /\ f.holed = rec[r].holed /\ (f.cancelled \/ f.temp \/ f.output)
    BY <1>1, <1>3, <1>4, OverGives DEF Recordings, Preserved
  <2> HIDE DEF f
  <2>3. rec' = [rec EXCEPT ![r] = f]
    BY <1>7 DEF f
  <2> QED BY <1>5, <2>1, <2>2, <2>3
<1> QED BY <1>2, <1>6, <1>7

\* What cancel leaves of a recording that is in the map.
LEMMA CancelledGives ==
  ASSUME NEW s \in Recordings, RecordOK(s, TRUE)
  PROVE  /\ Cancelled(s) \in Recordings /\ Cancelled(s).holed = s.holed
         /\ Moves(s, Cancelled(s), TRUE, FALSE)
<1> DEFINE t == [s EXCEPT !.closing = TRUE, !.temp = FALSE, !.cancelled = TRUE,
                          !.sidecar = IF s.job = "verifying" THEN "stopped" ELSE @]
<1>1. t \in Recordings
  BY DEF Recordings
<1>2. /\ t.job = s.job /\ t.closing /\ t.cancelled /\ t.fd = s.fd /\ t.prior = s.prior
      /\ t.answer = s.answer /\ t.holed = s.holed /\ (s.job = "verifying" => t.sidecar = "stopped")
  BY DEF Recordings
<1>3. Cancelled(s) = IF s.job \in {"open", "stuck"} THEN Over(t) ELSE t
  BY DEF Cancelled
<1> HIDE DEF t
<1>4. s.job \notin {"none", "over"}
  BY DEF RecordOK
<1>5. CASE s.job \in {"open", "stuck"}
  <2> DEFINE f == Over(t)
  <2>1. Cancelled(s) = f
    BY <1>3, <1>5
  <2>2. /\ f \in Recordings /\ f.job = "over" /\ f.prior = "none" /\ f.answer = s.answer
        /\ f.holed = s.holed /\ f.cancelled
    BY <1>1, <1>2, OverGives
  <2> HIDE DEF f
  <2>3. Moves(s, f, TRUE, FALSE)
    BY <1>4, <1>5, <2>2 DEF Moves, RecordOK
  <2> QED BY <2>1, <2>2, <2>3
<1>6. CASE s.job \notin {"open", "stuck"}
  <2>1. Cancelled(s) = t
    BY <1>3, <1>6
  <2>2. Moves(s, t, TRUE, FALSE)
    BY <1>2, <1>4, <1>6 DEF Moves, RecordOK
  <2> QED BY <1>1, <1>2, <2>1, <2>2
<1> QED BY <1>5, <1>6

\* Nothing changes in main.
LEMMA IdleEvolves ==
  ASSUME MainInv, UNCHANGED <<rec, sessions, file, volume, torn>>
  PROVE  Evolves /\ NoneCloses /\ KeepsHoled
<1>1. rec' \in [Rec -> Recordings] /\ sessions' \subseteq Rec
  BY DEF MainInv, MainTypeOK
<1>2. \A q \in Rec : Moves(rec[q], rec'[q], q \in sessions, q \in sessions')
  BY Stays, Zenon
<1>3. FilesClosed
  BY DEF FilesClosed, MainInv, MainTypeOK
<1>4. VolumeStep
  BY DEF VolumeStep, Holding
<1>5. Evolves
  BY <1>1, <1>2, <1>3, <1>4, Zenon DEF Evolves
<1>6. NoneCloses /\ KeepsHoled
  BY DEF NoneCloses, KeepsHoled
<1> QED BY <1>5, <1>6

\* cancel of one recording.
LEMMA CancelEvolves ==
  ASSUME MainInv, NEW r \in Rec, Cancel(r)
  PROVE  Evolves /\ NoneCloses /\ KeepsHoled
<1>1. CASE r \notin sessions
  BY <1>1, IdleEvolves DEF Cancel
<1>2. CASE r \in sessions
  <2> DEFINE f == Cancelled(rec[r])
  <2>1. rec[r] \in Recordings /\ RecordOK(rec[r], TRUE) /\ (r \in sessions) = TRUE
    <3>1. RecordOK(rec[r], r \in sessions)
      BY DEF MainInv, RecordInv
    <3>2. (r \in sessions) = TRUE
      BY <1>2
    <3>3. RecordOK(rec[r], TRUE)
      BY <3>1, <3>2, Zenon
    <3> QED BY <3>2, <3>3 DEF MainInv, MainTypeOK
  <2>2. f \in Recordings /\ f.holed = rec[r].holed /\ Moves(rec[r], f, TRUE, FALSE)
    BY <2>1, CancelledGives
  <2>3. Moves(rec[r], f, r \in sessions, FALSE)
    BY <2>1, <2>2, Zenon
  <2>4. /\ Restore(r) /\ CloseFd(r) /\ rec' = [rec EXCEPT ![r] = f]
        /\ sessions' = sessions \ {r}
    BY <1>2 DEF Cancel, MainInv, MainTypeOK
  <2> HIDE DEF f
  <2>5. Single(r, f, FALSE)
    BY <2>2, <2>3, <2>4 DEF Single, Updates
  <2> QED BY <2>2, <2>5, SingleEvolves, SingleKeeps
<1> QED BY <1>1, <1>2

\* cancelAll takes every recording out of the map.
LEMMA CancelAllEvolves ==
  ASSUME MainInv, CancelAll
  PROVE  Evolves /\ NoneCloses /\ KeepsHoled
<1>1. /\ rec \in [Rec -> Recordings] /\ sessions \subseteq Rec /\ torn \in BOOLEAN
      /\ file \in [Fd -> Rec \union {None}]
  BY DEF MainInv, MainTypeOK
<1>2. sessions' = {} /\ rec' = [r \in Rec |-> IF r \in sessions THEN Cancelled(rec[r]) ELSE rec[r]]
  BY DEF CancelAll
<1>3. ASSUME NEW q \in Rec
      PROVE  /\ rec'[q] \in Recordings /\ rec'[q].holed = rec[q].holed
             /\ Moves(rec[q], rec'[q], q \in sessions, q \in sessions')
  <2>1. RecordOK(rec[q], q \in sessions) /\ rec[q] \in Recordings
    BY <1>1 DEF MainInv, RecordInv
  <2>2. (q \in sessions') = FALSE
    BY <1>2
  <2>3. CASE q \in sessions
    <3>1. rec'[q] = Cancelled(rec[q]) /\ (q \in sessions) = TRUE
      BY <1>2, <2>3
    <3>2. RecordOK(rec[q], TRUE)
      BY <2>1, <3>1, Zenon
    <3>3. /\ Cancelled(rec[q]) \in Recordings /\ Cancelled(rec[q]).holed = rec[q].holed
          /\ Moves(rec[q], Cancelled(rec[q]), TRUE, FALSE)
      BY <2>1, <3>2, CancelledGives
    <3> QED BY <2>2, <3>1, <3>3, Zenon
  <2>4. CASE q \notin sessions
    <3>1. rec'[q] = rec[q] /\ (q \in sessions) = FALSE
      BY <1>2, <2>4
    <3>2. Moves(rec[q], rec[q], FALSE, FALSE)
      BY <3>1, Stays, Zenon
    <3> QED BY <2>1, <2>2, <3>1, <3>2, Zenon
  <2> QED BY <2>3, <2>4
<1>4. rec' \in [Rec -> Recordings]
  BY <1>2, <1>3
<1>5. FilesClosed
  <2>1. torn' \in BOOLEAN /\ (torn => torn')
    BY <1>1 DEF CancelAll
  <2>2. file' = [d \in Fd |-> IF \E r \in sessions : rec[r].fd = d THEN None ELSE file[d]]
    BY DEF CancelAll
  <2>3. file' \in [Fd -> Rec \union {None}] /\ \A d \in Fd : file'[d] \in {file[d], None}
    BY <1>1, <2>2
  <2> QED BY <1>2, <2>1, <2>3 DEF FilesClosed
<1>6. VolumeStep
  <2> DEFINE raised == {r \in sessions : rec[r].prior # "none"}
             newest == CHOOSE r \in raised : \A q \in raised : q <= r
  <2>1. volume' = IF raised = {} THEN volume ELSE rec[newest].prior
    BY DEF CancelAll
  <2>2. CASE raised = {}
    <3>1. \A q \in Rec : ~Holding(q)
      BY <2>2 DEF Holding
    <3> HIDE DEF raised, newest
    <3> QED BY <2>1, <2>2, <3>1 DEF VolumeStep
  <2>3. CASE raised # {}
    <3>1. raised \in SUBSET Rec
      BY <1>1
    <3> HIDE DEF raised
    <3>2. newest \in raised
      BY <2>3, <3>1, NewestRecording
    <3>3. newest \in Rec /\ rec[newest].prior # "none"
      BY <1>1, <3>2 DEF raised
    <3> HIDE DEF newest
    <3>4. volume' = rec[newest].prior
      BY <2>1, <2>3
    <3> QED BY <3>3, <3>4 DEF VolumeStep
  <2> QED BY <2>2, <2>3
<1>7. Evolves
  BY <1>2, <1>3, <1>4, <1>5, <1>6 DEF Evolves
<1>8. NoneCloses /\ KeepsHoled
  BY <1>2, <1>3 DEF NoneCloses, KeepsHoled
<1> QED BY <1>7, <1>8

-----------------------------------------------------------------------------
(* The invariant of main *)

\* A step of main on recordings that have begun keeps the invariant.
LEMMA EvolvesKeepsMain ==
  ASSUME MainInv, Evolves, ffmpeg' = ffmpeg, crossed' = crossed
  PROVE  MainInv'
<1>1. /\ rec' \in [Rec -> Recordings] /\ sessions' \subseteq Rec
      /\ \A q \in Rec : Moves(rec[q], rec'[q], q \in sessions, q \in sessions')
  BY DEF Evolves
<1>2. /\ file' \in [Fd -> Rec \union {None}] /\ torn' \in BOOLEAN /\ (torn => torn')
      /\ \A d \in Fd : file'[d] \in {file[d], None}
      /\ torn' \/ \A q \in sessions' : rec'[q].closing \/ file'[rec[q].fd] = file[rec[q].fd]
  BY DEF Evolves, FilesClosed
<1>3. MainTypeOK'
  <2>1. volume' \in Volumes \ {"none"}
    <3>1. volume \in Volumes \ {"none"} /\ \A q \in Rec : rec[q].prior \in Volumes
      BY DEF MainInv, MainTypeOK, Recordings
    <3> QED BY <3>1 DEF Evolves, VolumeStep
  <2>2. ffmpeg' \in BOOLEAN /\ crossed' \in BOOLEAN
    BY DEF MainInv, MainTypeOK
  <2> QED BY <1>1, <1>2, <2>1, <2>2 DEF MainTypeOK
<1>4. RecordInv'
  BY <1>1, Zenon DEF Moves, RecordInv
<1>5. FileInv'
  <2>1. /\ \A d \in Fd : file[d] # None => rec[file[d]].job # "none"
        /\ \A d, e \in Fd : file[d] = file[e] => d = e \/ file[d] = None
        /\ torn \/ \A r \in sessions : rec[r].closing \/ file[rec[r].fd] = r
        /\ file \in [Fd -> Rec \union {None}]
    BY DEF MainInv, MainTypeOK, FileInv
  <2>2. \A q \in Rec : rec[q].job # "none" => rec'[q].job # "none"
    BY <1>1 DEF Moves
  <2>3. ASSUME NEW d \in Fd, file'[d] # None
        PROVE  rec'[file'[d]].job # "none"
    BY <1>2, <2>1, <2>2, <2>3
  <2>4. ASSUME NEW d \in Fd, NEW e \in Fd, file'[d] = file'[e], file'[d] # None
        PROVE  d = e
    BY <1>2, <2>1, <2>4
  <2>5. ASSUME ~torn', NEW q \in sessions', ~rec'[q].closing
        PROVE  file'[rec'[q].fd] = q
    <3>1. q \in Rec
      BY <1>1, <2>5
    <3>2. q \in sessions /\ ~rec[q].closing /\ rec'[q].fd = rec[q].fd
      BY <1>1, <2>5, <3>1 DEF Moves
    <3> QED BY <1>2, <2>1, <2>5, <3>2
  <2> QED BY <2>3, <2>4, <2>5 DEF FileInv
<1> QED BY <1>3, <1>4, <1>5 DEF MainInv

\* What such a step puts back is the user's volume.
LEMMA EvolvesKeepsVolume ==
  ASSUME MainInv, VolumeInv, Evolves, crossed' = crossed
  PROVE  VolumeInv'
<1> SUFFICES ASSUME ~crossed
             PROVE  /\ \A r \in Rec : rec'[r].prior \in {"none", "user"}
                    /\ volume' = "user" \/ \E r \in Rec : Holding(r)'
  BY DEF VolumeInv
<1>1. /\ \A r \in Rec : rec[r].prior \in {"none", "user"}
      /\ volume = "user" \/ \E r \in Rec : Holding(r)
  BY DEF VolumeInv
<1>2. \A q \in Rec : rec'[q].prior \in {"none", rec[q].prior}
  BY DEF Evolves, Moves
<1>3. \A r \in Rec : rec'[r].prior \in {"none", "user"}
  BY <1>1, <1>2
<1>4. CASE volume' = volume /\ \A q \in Rec : Holding(q) => q \in sessions' /\ rec'[q].prior # "none"
  BY <1>1, <1>3, <1>4 DEF Holding
<1>5. CASE \E q \in Rec : rec[q].prior # "none" /\ volume' = rec[q].prior
  BY <1>1, <1>3, <1>5
<1> QED BY <1>4, <1>5 DEF Evolves, VolumeStep

\* begin: the recording has a descriptor of its own, and saves the volume as it finds it.
LEMMA BeginGives ==
  ASSUME MainInv, NEW r \in Rec, NEW replay \in BOOLEAN, Begin(r, replay)
  PROVE  MainInv' /\ Begins(r, replay) /\ (VolumeInv => VolumeInv')
<1> DEFINE threw == [Fresh EXCEPT !.job = "over", !.answer = "threw"]
<1>1. PICK sound \in {"off", "failed", "plain", "raised"} :
        LET starts   == sound \in {"plain", "raised"}
            required == replay /\ sound # "off"
            begun    ==
              [Fresh EXCEPT !.job = IF starts /\ required THEN "verifying" ELSE "open",
                            !.replay = replay, !.fd = FreeFd, !.temp = TRUE,
                            !.sidecar = IF starts THEN "running" ELSE "none",
                            !.prior = IF sound = "raised" THEN volume ELSE "none",
                            !.answer = IF starts /\ required THEN "none" ELSE "begun"]
        IN  /\ crossed' = (crossed \/ (sound = "raised" /\ \E q \in Rec : Holding(q)))
            /\ volume' = IF sound = "raised" THEN "full" ELSE volume
            /\ IF required /\ ~starts
               THEN rec' = [rec EXCEPT ![r] = threw] /\ UNCHANGED <<sessions, file>>
               ELSE /\ rec' = [rec EXCEPT ![r] = begun]
                    /\ sessions' = sessions \union {r}
                    /\ file' = [file EXCEPT ![FreeFd] = r]
  BY DEF Begin
<1>2. ffmpeg' = ffmpeg /\ torn' = torn /\ rec[r].job = "none"
  BY DEF Begin, IsNext
<1>3. RecordOK(rec[r], r \in sessions) /\ rec[r] = Fresh /\ r \notin sessions
  BY <1>2 DEF MainInv, RecordInv, RecordOK
<1>4. FreeFd \in Fd /\ file[FreeFd] = None
  BY <1>2, FreeFdExists
<1>5. /\ ffmpeg \in BOOLEAN /\ rec \in [Rec -> Recordings] /\ sessions \subseteq Rec
      /\ file \in [Fd -> Rec \union {None}] /\ volume \in Volumes \ {"none"}
      /\ torn \in BOOLEAN /\ crossed \in BOOLEAN
  BY DEF MainInv, MainTypeOK
<1>6. crossed' \in BOOLEAN /\ volume' \in Volumes \ {"none"}
  BY <1>1, <1>5 DEF Volumes
<1>7. Fresh \in Recordings
  BY DEF Fresh, Recordings, Volumes
<1> USE MaxRecAssumption
<1>8. r # None
  BY DEF Rec, None
<1>9. ASSUME rec' = [rec EXCEPT ![r] = threw], UNCHANGED <<sessions, file>>,
             volume' = volume, crossed' = crossed, replay
      PROVE  MainInv' /\ Begins(r, replay) /\ (VolumeInv => VolumeInv')
  <2>1. threw \in Recordings
    BY <1>7 DEF Recordings
  <2>2. /\ threw.job = "over" /\ threw.answer = "threw" /\ threw.prior = "none" /\ ~threw.holed
        /\ threw.closing = FALSE
    BY DEF Fresh
  <2> HIDE DEF threw
  <2>3. rec' \in [Rec -> Recordings] /\ rec'[r] = threw /\ \A q \in Rec \ {r} : rec'[q] = rec[q]
    BY <1>5, <1>9, <2>1
  <2>4. MainTypeOK'
    BY <1>2, <1>5, <1>6, <1>9, <2>3 DEF MainTypeOK
  <2>5. RecordInv'
    <3> SUFFICES ASSUME NEW q \in Rec PROVE RecordOK(rec'[q], q \in sessions')
      BY DEF RecordInv
    <3>1. CASE q = r
      <4>1. (q \in sessions') = FALSE
        BY <1>3, <1>9, <3>1
      <4>2. RecordOK(threw, FALSE)
        BY <2>2 DEF RecordOK
      <4> QED BY <2>3, <3>1, <4>1, <4>2, Zenon
    <3>2. CASE q # r
      <4>1. rec'[q] = rec[q] /\ (q \in sessions') = (q \in sessions)
        BY <1>9, <2>3, <3>2
      <4> QED BY <4>1, Zenon DEF MainInv, RecordInv
    <3> QED BY <3>1, <3>2
  <2>6. FileInv'
    BY <1>2, <1>3, <1>5, <1>9, <2>2, <2>3 DEF MainInv, FileInv
  <2>7. Begins(r, replay)
    BY <1>2, <1>3, <1>9, <2>2, <2>3 DEF Begins
  <2>8. VolumeInv => VolumeInv'
    BY <1>3, <1>9, <2>2, <2>3 DEF VolumeInv, Holding
  <2> QED BY <2>4, <2>5, <2>6, <2>7, <2>8 DEF MainInv
<1>10. ASSUME NEW f \in Recordings, rec' = [rec EXCEPT ![r] = f],
              sessions' = sessions \union {r}, file' = [file EXCEPT ![FreeFd] = r],
              f.fd = FreeFd, f.temp, ~f.closing, ~f.holed,
              \/ f.job = "open" /\ f.answer = "begun"
              \/ f.job = "verifying" /\ f.answer = "none" /\ replay,
              \/ f.prior = "none" /\ volume' = volume /\ crossed' = crossed
              \/ /\ f.prior = volume /\ volume' = "full"
                 /\ crossed' = (crossed \/ \E q \in Rec : Holding(q))
       PROVE  MainInv' /\ Begins(r, replay) /\ (VolumeInv => VolumeInv')
  <2>1. rec' \in [Rec -> Recordings] /\ rec'[r] = f /\ \A q \in Rec \ {r} : rec'[q] = rec[q]
    BY <1>5, <1>10
  <2>2. file' \in [Fd -> Rec \union {None}] /\ sessions' \subseteq Rec
    BY <1>5, <1>10
  <2>3. MainTypeOK'
    BY <1>2, <1>5, <1>6, <2>1, <2>2 DEF MainTypeOK
  <2>4. RecordInv'
    <3> SUFFICES ASSUME NEW q \in Rec PROVE RecordOK(rec'[q], q \in sessions')
      BY DEF RecordInv
    <3>1. CASE q = r
      <4>1. (q \in sessions') = TRUE
        BY <1>10, <3>1
      <4>2. RecordOK(f, TRUE)
        BY <1>4, <1>10 DEF RecordOK
      <4> QED BY <2>1, <3>1, <4>1, <4>2, Zenon
    <3>2. CASE q # r
      <4>1. rec'[q] = rec[q] /\ (q \in sessions') = (q \in sessions)
        BY <1>10, <2>1, <3>2
      <4> QED BY <4>1, Zenon DEF MainInv, RecordInv
    <3> QED BY <3>1, <3>2
  <2>5. FileInv'
    <3>1. /\ \A d \in Fd : file[d] # None => rec[file[d]].job # "none"
          /\ \A d, e \in Fd : file[d] = file[e] => d = e \/ file[d] = None
          /\ torn \/ \A q \in sessions : rec[q].closing \/ file[rec[q].fd] = q
      BY DEF MainInv, FileInv
    <3>2. file'[FreeFd] = r /\ \A d \in Fd \ {FreeFd} : file'[d] = file[d]
      BY <1>4, <1>5, <1>10
    <3>3. \A d \in Fd : file[d] # r
      BY <1>2, <1>8, <3>1
    <3>4. ASSUME NEW d \in Fd, file'[d] # None
          PROVE  rec'[file'[d]].job # "none"
      BY <1>5, <1>10, <2>1, <3>1, <3>2, <3>4
    <3>5. ASSUME NEW d \in Fd, NEW e \in Fd, file'[d] = file'[e], file'[d] # None
          PROVE  d = e
      BY <3>1, <3>2, <3>3, <3>5
    <3>6. ASSUME ~torn', NEW q \in sessions', ~rec'[q].closing
          PROVE  file'[rec'[q].fd] = q
      <4>1. CASE q = r
        BY <1>10, <2>1, <3>2, <4>1
      <4>2. CASE q # r
        <5>1. q \in sessions /\ q \in Rec /\ rec'[q] = rec[q]
          BY <1>5, <1>10, <2>1, <4>2
        <5>2. file[rec[q].fd] = q /\ q # None
          BY <1>2, <3>1, <3>6, <5>1 DEF Rec, None
        <5>3. rec[q].fd \in Fd
          <6>1. RecordOK(rec[q], q \in sessions)
            BY <5>1 DEF MainInv, RecordInv
          <6> QED BY <5>1, <6>1 DEF RecordOK
        <5> QED BY <1>4, <3>2, <5>1, <5>2, <5>3
      <4> QED BY <4>1, <4>2
    <3> QED BY <3>4, <3>5, <3>6 DEF FileInv
  <2>6. Begins(r, replay)
    BY <1>2, <1>10, <2>1 DEF Begins
  <2>7. VolumeInv => VolumeInv'
    BY <1>3, <1>10, <2>1 DEF VolumeInv, Holding
  <2> QED BY <2>3, <2>4, <2>5, <2>6, <2>7 DEF MainInv
<1>11. CASE replay /\ sound = "failed"
  <2>1. /\ rec' = [rec EXCEPT ![r] = threw] /\ UNCHANGED <<sessions, file>>
        /\ volume' = volume
    BY <1>1, <1>11
  <2>2. crossed' = crossed
    BY <1>1, <1>5, <1>11
  <2> QED BY <1>9, <1>11, <2>1, <2>2
<1>12. CASE ~(replay /\ sound = "failed")
  <2> DEFINE starts   == sound \in {"plain", "raised"}
             required == replay /\ sound # "off"
             f == [Fresh EXCEPT !.job = IF starts /\ required THEN "verifying" ELSE "open",
                                !.replay = replay, !.fd = FreeFd, !.temp = TRUE,
                                !.sidecar = IF starts THEN "running" ELSE "none",
                                !.prior = IF sound = "raised" THEN volume ELSE "none",
                                !.answer = IF starts /\ required THEN "none" ELSE "begun"]
  <2>1. f \in Recordings
    <3> DEFINE job == IF starts /\ required THEN "verifying" ELSE "open"
               sidecar == IF starts THEN "running" ELSE "none"
               prior == IF sound = "raised" THEN volume ELSE "none"
               answer == IF starts /\ required THEN "none" ELSE "begun"
    <3>1. /\ job \in {"verifying", "open"} /\ sidecar \in {"running", "none"}
          /\ prior \in Volumes /\ answer \in {"none", "begun"}
      BY <1>5 DEF Volumes
    <3> HIDE DEF job, sidecar, prior, answer
    <3>2. [Fresh EXCEPT !.job = job, !.replay = replay, !.fd = FreeFd, !.temp = TRUE,
                        !.sidecar = sidecar, !.prior = prior, !.answer = answer] \in Recordings
      BY <1>4, <1>7, <3>1 DEF Recordings
    <3> QED BY <3>2 DEF job, sidecar, prior, answer
  <2>2. f.fd = FreeFd /\ f.temp /\ ~f.closing /\ ~f.holed
    BY DEF Fresh
  <2>3. \/ f.job = "open" /\ f.answer = "begun"
        \/ f.job = "verifying" /\ f.answer = "none" /\ replay
    BY DEF Fresh
  <2>4. f.prior = IF sound = "raised" THEN volume ELSE "none"
    BY DEF Fresh
  <2>5. /\ rec' = [rec EXCEPT ![r] = f]
        /\ sessions' = sessions \union {r}
        /\ file' = [file EXCEPT ![FreeFd] = r]
    BY <1>1, <1>12
  <2> HIDE DEF f
  <2>6. \/ f.prior = "none" /\ volume' = volume /\ crossed' = crossed
        \/ /\ f.prior = volume /\ volume' = "full"
           /\ crossed' = (crossed \/ \E q \in Rec : Holding(q))
    BY <1>1, <1>5, <2>4
  <2> QED BY <1>10, <2>1, <2>2, <2>3, <2>5, <2>6
<1> QED BY <1>11, <1>12

-----------------------------------------------------------------------------
(* The renderer *)

\* A step on recordings that have begun keeps what the renderer relies on.
LEMMA EvolvesKeepsRecs ==
  ASSUME Evolves
  PROVE  RecsKept
BY DEF Evolves, Moves, RecsKept

\* So does a begin.
LEMMA BeginKeepsRecs ==
  ASSUME MainInv, NEW r \in Rec, NEW replay, Begins(r, replay)
  PROVE  RecsKept
<1>1. rec[r].job = "none" /\ RecordOK(rec[r], r \in sessions)
  BY DEF Begins, MainInv, RecordInv
<1>2. rec[r].answer = "none"
  BY <1>1 DEF RecordOK
<1> QED BY <1>1, <1>2 DEF Begins, RecsKept

Unowned(r) ==
  /\ \A j \in Flow : flow[j].rec # r
  /\ \A d \in Buf : StartOf(d) # r /\ SaveOf(d) # r

\* A recording that has not begun is nobody's.
LEMMA FreshUnowned ==
  ASSUME MainInv, RendInv, NEW r \in Rec, rec[r].job = "none"
  PROVE  /\ ~Starting(r) /\ media[r] = "none" /\ ~pending[r] /\ r # None /\ r \notin sessions
         /\ Unowned(r)
<1>1. RecordOK(rec[r], r \in sessions)
  BY DEF MainInv, RecordInv
<1>2. rec[r].answer = "none" /\ r \notin sessions
  BY <1>1 DEF RecordOK
<1>3. r # None
  BY MaxRecAssumption DEF Rec, None
<1>4. media[r] = "none" /\ ~pending[r]
  BY <1>2 DEF RendInv, MediaInv, RendTypeOK
<1>5. \A i \in Flow : flow[i].rec # r
  BY <1>2, <1>3 DEF RendInv, BegunInv
<1>6. \A b \in Buf : StartOf(b) # r /\ SaveOf(b) # r
  BY <1>3 DEF RendInv, BegunInv, StartOf, SaveOf
<1> QED BY <1>2, <1>3, <1>4, <1>5, <1>6 DEF Starting, Unowned

\* Those who await a begin become no more.
Dwindles ==
  /\ \A i \in Flow : flow'[i].rec \in {flow[i].rec, None}
  /\ \A b \in Buf : StartOf(b)' \in {StartOf(b), None} /\ SaveOf(b)' \in {SaveOf(b), None}

\* Then no two come to await the same recording, and nobody a new one.
LEMMA DwindlesKeepsOwner ==
  ASSUME OwnerInv, Dwindles
  PROVE  OwnerInv' /\ \A r \in Rec : Starting(r)' => Starting(r)
<1>1. OwnerInv'
  BY DEF OwnerInv, Dwindles
<1>2. \A r \in Rec : r # None
  BY MaxRecAssumption DEF Rec, None
<1>3. \A r \in Rec : Starting(r)' => Starting(r)
  BY <1>2 DEF Dwindles, Starting
<1> QED BY <1>1, <1>3

\* One more awaits a begin, that of recording r: flow i, the start of b or the save of c.
GrowsBy(r, i, b, c) ==
  /\ \A j \in Flow : flow'[j].rec \in (IF j = i THEN {r} ELSE {flow[j].rec, None})
  /\ \A d \in Buf : /\ StartOf(d)' \in (IF d = b THEN {r} ELSE {StartOf(d), None})
                    /\ SaveOf(d)' \in (IF d = c THEN {r} ELSE {SaveOf(d), None})
  /\ (i # None => b = None /\ c = None) /\ (b # None => c = None)

\* As that recording is nobody's, they still do not await the same one.
LEMMA GrowsKeepsOwner ==
  ASSUME OwnerInv, NEW r \in Rec, NEW i, NEW b, NEW c, Unowned(r), GrowsBy(r, i, b, c)
  PROVE  OwnerInv' /\ \A q \in Rec \ {r} : Starting(q)' => Starting(q)
<1> USE DEF Unowned, GrowsBy
<1>0. None \notin Flow /\ None \notin Buf /\ None \notin Rec
  BY MaxRecAssumption, RendererAssumption DEF Flow, Buf, Rec, None
<1>1. OwnerInv'
  <2>1. ASSUME NEW j \in Flow, NEW k \in Flow, flow'[j].rec = flow'[k].rec, flow'[j].rec # None
        PROVE  j = k
    <3>1. CASE j = i \/ k = i
      BY <1>0, <2>1, <3>1
    <3>2. CASE j # i /\ k # i
      <4>1. flow'[j].rec = flow[j].rec /\ flow'[k].rec = flow[k].rec
        BY <2>1, <3>2
      <4>2. flow[j].rec = flow[k].rec /\ flow[j].rec # None
        BY <2>1, <4>1
      <4> QED BY <4>2 DEF OwnerInv
    <3> QED BY <3>1, <3>2
  <2>2. ASSUME NEW j \in Flow, NEW d \in Buf, flow'[j].rec \in {StartOf(d)', SaveOf(d)'},
               flow'[j].rec # None
        PROVE  FALSE
    <3>1. CASE j = i
      BY <1>0, <2>2, <3>1
    <3>2. CASE j # i
      <4>1. flow'[j].rec = flow[j].rec
        BY <2>2, <3>2
      <4> QED BY <1>0, <2>2, <3>2, <4>1 DEF OwnerInv
    <3> QED BY <3>1, <3>2
  <2>3. ASSUME NEW d \in Buf, NEW e \in Buf, StartOf(d)' = StartOf(e)', StartOf(d)' # None
        PROVE  d = e
    BY <1>0, <2>3 DEF OwnerInv
  <2>4. ASSUME NEW d \in Buf, NEW e \in Buf, SaveOf(d)' = SaveOf(e)', SaveOf(d)' # None
        PROVE  d = e
    BY <1>0, <2>4 DEF OwnerInv
  <2>5. ASSUME NEW d \in Buf, NEW e \in Buf, StartOf(d)' = SaveOf(e)', StartOf(d)' # None
        PROVE  FALSE
    <3>1. d # b \/ e # c
      BY <1>0
    <3> QED BY <1>0, <2>5, <3>1 DEF OwnerInv
  <2> QED BY <2>1, <2>2, <2>3, <2>4, <2>5 DEF OwnerInv
<1>2. \A q \in Rec \ {r} : Starting(q)' => Starting(q)
  BY <1>0 DEF Starting
<1> QED BY <1>1, <1>2

\* A buffer that runs, or saves, does so with the recording it had, or with one that MediaRecorder
\* has begun, or has stopped.
BufMoves ==
  \A b \in Buf :
    /\ buf'[b].start = "up"
         => \/ buf[b].start = "up" /\ buf'[b].active = buf[b].active
            \/ media'[buf'[b].active] \notin Unused
    /\ buf'[b].save \in {"draining", "finalizing"}
         => \/ buf[b].save \in {"draining", "finalizing"} /\ buf'[b].saved = buf[b].saved
            \/ media'[buf'[b].saved] \in Halted

\* MediaRecorder starts once, after the begin, and never starts again.
MediaMoves ==
  \A q \in Rec :
    /\ media[q] # "none" => media'[q] # "none"
    /\ media[q] \notin Unused => media'[q] \notin Unused
    /\ media[q] \in Halted => media'[q] \in Halted /\ (pending'[q] => pending[q])
    /\ media[q] = "none" /\ media'[q] # "none"
         => ~Starting(q)' /\ rec[q].answer \notin {"none", "threw"}
    /\ media'[q] = "none" => ~pending'[q]
    /\ stopping'[q] # "none" => media'[q] \in Halted
    /\ session' = q => media'[q] \notin Unused

\* As it does when nothing of it changes.
LEMMA MediaStays ==
  ASSUME RendInv, UNCHANGED <<session, media, stopping>>, \A q \in Rec : pending'[q] => pending[q]
  PROVE  MediaMoves
BY DEF RendInv, MediaInv, MediaMoves

\* A recording that closed before, or is not in the map any more, stays quiet.
LEMMA MovesKeepQuiet ==
  ASSUME RendInv, NoneCloses, MediaMoves, sessions' \subseteq Rec
  PROVE  QuietInv'
BY DEF RendInv, QuietInv, NoneCloses, MediaMoves

\* As MediaRecorder moves like that, what is said of it stays true.
LEMMA MovesKeepMedia ==
  ASSUME RendInv, RecsKept, MediaMoves,
         \A q \in Rec : Starting(q)' => Starting(q) \/ media[q] = "none"
  PROVE  MediaInv'
<1>1. ASSUME NEW q \in Rec
      PROVE  /\ Starting(q)' => media'[q] = "none"
             /\ stopping'[q] # "none" => media'[q] \in Halted
             /\ media'[q] = "none" => ~pending'[q]
             /\ session' = q => media'[q] \notin Unused
             /\ media'[q] # "none" => rec'[q].answer \notin {"none", "threw"}
  <2>1. /\ Starting(q) => media[q] = "none"
        /\ stopping[q] # "none" => media[q] \in Halted
        /\ media[q] = "none" => ~pending[q]
        /\ session = q => media[q] \notin Unused
        /\ media[q] # "none" => rec[q].answer \notin {"none", "threw"}
    BY DEF RendInv, MediaInv
  <2>2. Starting(q)' => Starting(q) \/ media[q] = "none"
    OBVIOUS
  <2> QED BY <2>1, <2>2 DEF MediaMoves, RecsKept
<1> QED BY <1>1, Zenon DEF MediaInv

\* And what is awaited, shown or saved has begun.
LEMMA DwindlesKeepsBegun ==
  ASSUME RendInv, RendTypeOK', RecsKept, Dwindles, BufMoves, MediaMoves, BufferInv'
  PROVE  BegunInv'
<1>1. \A i \in Flow : flow'[i].rec # None => rec'[flow'[i].rec].answer \notin {"none", "threw"}
  <2> SUFFICES ASSUME NEW i \in Flow, flow'[i].rec # None
               PROVE  rec'[flow'[i].rec].answer \notin {"none", "threw"}
    OBVIOUS
  <2>1. flow'[i].rec = flow[i].rec /\ flow[i].rec # None
    BY DEF Dwindles
  <2>2. flow[i].rec \in Rec
    BY <2>1 DEF RendInv, RendTypeOK, Flows
  <2> QED BY <2>1, <2>2 DEF RendInv, BegunInv, RecsKept
<1>2. ASSUME NEW b \in Buf
      PROVE  /\ buf'[b].start = "beginning" => rec'[buf'[b].active].job # "none"
             /\ buf'[b].save = "beginning" => rec'[buf'[b].saved].job # "none"
             /\ buf'[b].start = "up" => media'[buf'[b].active] \notin Unused
             /\ buf'[b].save \in {"draining", "finalizing"} => media'[buf'[b].saved] \in Halted
  <2>1. buf[b].active \in Rec \union {None} /\ buf[b].saved \in Rec \union {None}
    BY DEF RendInv, RendTypeOK, Bufs
  <2>2. /\ buf'[b].start = "beginning" => buf'[b].active # None
        /\ buf'[b].save = "beginning" => buf'[b].saved # None
    BY DEF BufferInv, BufOK
  <2>3. ASSUME buf'[b].start = "beginning"
        PROVE  rec'[buf'[b].active].job # "none"
    <3>1. StartOf(b)' = buf'[b].active
      BY <2>3 DEF StartOf
    <3>2. buf'[b].active = StartOf(b)
      BY <2>2, <2>3, <3>1 DEF Dwindles
    <3>3. buf[b].start = "beginning" /\ buf'[b].active = buf[b].active
      BY <2>2, <2>3, <3>2 DEF StartOf
    <3>4. buf[b].active \in Rec /\ rec[buf[b].active].job # "none"
      BY <2>1, <2>2, <2>3, <3>3 DEF RendInv, BegunInv
    <3> QED BY <3>3, <3>4 DEF RecsKept
  <2>4. ASSUME buf'[b].save = "beginning"
        PROVE  rec'[buf'[b].saved].job # "none"
    <3>1. SaveOf(b)' = buf'[b].saved
      BY <2>4 DEF SaveOf
    <3>2. buf'[b].saved = SaveOf(b)
      BY <2>2, <2>4, <3>1 DEF Dwindles
    <3>3. buf[b].save = "beginning" /\ buf'[b].saved = buf[b].saved
      BY <2>2, <2>4, <3>2 DEF SaveOf
    <3>4. buf[b].saved \in Rec /\ rec[buf[b].saved].job # "none"
      BY <2>1, <2>2, <2>4, <3>3 DEF RendInv, BegunInv
    <3> QED BY <3>3, <3>4 DEF RecsKept
  <2>5. /\ buf'[b].start = "up" => media'[buf'[b].active] \notin Unused
        /\ buf'[b].save \in {"draining", "finalizing"} => media'[buf'[b].saved] \in Halted
    <3>1. buf'[b].start = "up" => buf'[b].active \in Rec
      BY DEF RendTypeOK, Bufs, BufferInv, BufOK
    <3>2. buf'[b].save \in {"draining", "finalizing"} => buf'[b].saved \in Rec
      BY DEF RendTypeOK, Bufs, BufferInv, BufOK
    <3>3. /\ buf[b].start = "up" => media[buf[b].active] \notin Unused
          /\ buf[b].save \in {"draining", "finalizing"} => media[buf[b].saved] \in Halted
      BY DEF RendInv, BegunInv
    <3> QED BY <3>1, <3>2, <3>3 DEF BufMoves, MediaMoves
  <2> QED BY <2>3, <2>4, <2>5
<1> QED BY <1>1, <1>2 DEF BegunInv

\* A step that starts nothing, by which MediaRecorder does no more than before.
LEMMA MovesKeepRend ==
  ASSUME RendInv, RendTypeOK', RecsKept, Dwindles, BufMoves, MediaMoves, BufferInv', QuietInv'
  PROVE  RendInv'
<1>1. OwnerInv' /\ \A r \in Rec : Starting(r)' => Starting(r)
  BY DwindlesKeepsOwner DEF RendInv
<1>2. MediaInv'
  BY <1>1, MovesKeepMedia
<1>3. BegunInv'
  BY DwindlesKeepsBegun
<1> QED BY <1>1, <1>2, <1>3 DEF RendInv

\* A step of main leaves the renderer as it is.
LEMMA MainKeepsRend ==
  ASSUME RendInv, Evolves, NoneCloses, UNCHANGED <<status, session, flow, stopping, media, buf, handle>>,
         pending' \in [Rec -> BOOLEAN], \A q \in Rec : pending'[q] => pending[q],
         {quit', doubled', late'} \subseteq BOOLEAN
  PROVE  RendInv'
<1>1. RendTypeOK'
  BY DEF RendInv, RendTypeOK
<1>2. Dwindles /\ BufMoves
  BY DEF Dwindles, BufMoves, StartOf, SaveOf
<1>3. MediaMoves
  BY MediaStays
<1>4. BufferInv'
  BY DEF RendInv, BufferInv, BufOK
<1>5. QuietInv'
  BY <1>3, MovesKeepQuiet DEF Evolves
<1> QED BY <1>1, <1>2, <1>3, <1>4, <1>5, MovesKeepRend, EvolvesKeepsRecs

-----------------------------------------------------------------------------
(* The steps keep the invariant *)

\* The renderer moves, main does not.
LEMMA MainIdle ==
  ASSUME IInv, UNCHANGED mainVars
  PROVE  /\ MainInv' /\ ChunksKept' /\ VolumeInv'
         /\ Evolves /\ NoneCloses /\ RecsKept
<1>1. MainInv'
  BY DEF IInv, MainInv, MainTypeOK, RecordInv, FileInv, mainVars
<1>2. ChunksKept' /\ VolumeInv'
  BY DEF IInv, ChunksKept, VolumeInv, Holding, mainVars
<1>3. Evolves /\ NoneCloses
  BY IdleEvolves DEF IInv, mainVars
<1> QED BY <1>1, <1>2, <1>3, EvolvesKeepsRecs

\* Main moves on recordings that have begun.
LEMMA MainEvolves ==
  ASSUME IInv, Evolves, KeepsHoled, ffmpeg' = ffmpeg, crossed' = crossed
  PROVE  MainInv' /\ ChunksKept' /\ VolumeInv' /\ RecsKept
<1>1. MainInv' /\ VolumeInv' /\ RecsKept
  BY EvolvesKeepsMain, EvolvesKeepsVolume, EvolvesKeepsRecs DEF IInv
<1>2. torn => torn'
  BY DEF Evolves, FilesClosed
<1>3. ChunksKept'
  BY <1>2 DEF IInv, ChunksKept, KeepsHoled
<1> QED BY <1>1, <1>3

\* A begin by the renderer.
LEMMA MainBegins ==
  ASSUME IInv, NEW r \in Rec, NEW replay \in BOOLEAN, Begin(r, replay)
  PROVE  MainInv' /\ ChunksKept' /\ VolumeInv' /\ RecsKept /\ Begins(r, replay)
<1>1. MainInv' /\ VolumeInv' /\ Begins(r, replay)
  BY BeginGives DEF IInv
<1>2. RecsKept
  BY <1>1, BeginKeepsRecs DEF IInv
<1>3. \A q \in Rec : rec'[q].holed = rec[q].holed \/ (q = r /\ ~rec'[q].holed)
  BY <1>1 DEF Begins
<1>4. torn' = torn
  BY <1>1 DEF Begins
<1>5. ChunksKept'
  BY <1>3, <1>4 DEF IInv, ChunksKept
<1> QED BY <1>1, <1>2, <1>5

\* A start flow that awaits no begin yet, or no more.
LEMMA FlowCalm ==
  ASSUME IInv, UNCHANGED mainVars, UNCHANGED <<session, stopping, media, pending, buf, handle>>,
         NEW i \in Flow, NEW f \in Flows, flow' = [flow EXCEPT ![i] = f], f.rec = None,
         f.pc # "beginning", status' \in {"idle", "preparing", "recording", "finalizing"},
         {quit', doubled', late'} \subseteq BOOLEAN
  PROVE  IInv'
<1>1. MainInv' /\ ChunksKept' /\ VolumeInv' /\ Evolves /\ NoneCloses /\ RecsKept
  BY MainIdle
<1>2. flow \in [Flow -> Flows]
  BY DEF IInv, RendInv, RendTypeOK
<1>3. flow'[i] = f /\ \A j \in Flow \ {i} : flow'[j] = flow[j]
  BY <1>2
<1>4. RendTypeOK'
  BY <1>2 DEF IInv, RendInv, RendTypeOK
<1>5. Dwindles /\ BufMoves
  BY <1>3 DEF Dwindles, BufMoves, StartOf, SaveOf
<1>6. MediaMoves
  BY MediaStays DEF IInv
<1>7. BufferInv'
  BY <1>3 DEF IInv, RendInv, BufferInv, BufOK
<1>8. QuietInv'
  BY <1>1, <1>6, MovesKeepQuiet DEF IInv, Evolves
<1>9. RendInv'
  BY <1>1, <1>4, <1>5, <1>6, <1>7, <1>8, MovesKeepRend DEF IInv
<1> QED BY <1>1, <1>9 DEF IInv

\* The user asks for a recording.
LEMMA ClickRecordKeeps ==
  ASSUME IInv, NEW i \in Flow, ClickRecord(i)
  PROVE  IInv'
<1> DEFINE f == [flow[i] EXCEPT !.pc = "asking"]
<1>1. flow \in [Flow -> Flows] /\ flow[i].pc = "none" /\ flow' = [flow EXCEPT ![i] = f]
  BY DEF IInv, RendInv, RendTypeOK, ClickRecord
<1>2. flow[i].rec = None
  BY <1>1 DEF IInv, RendInv, BufferInv, BufOK
<1>3. f \in Flows /\ f.rec = None /\ f.pc = "asking"
  BY <1>1, <1>2 DEF Flows
<1>4. UNCHANGED mainVars /\ UNCHANGED <<status, session, stopping, media, pending, buf, handle, quit, late>>
  BY DEF ClickRecord, bufVars
<1>5. doubled' \in BOOLEAN
  BY DEF ClickRecord, IInv, RendInv, RendTypeOK
<1>6. /\ status' \in {"idle", "preparing", "recording", "finalizing"}
      /\ {quit', doubled', late'} \subseteq BOOLEAN
  BY <1>4, <1>5 DEF IInv, RendInv, RendTypeOK
<1> HIDE DEF f
<1> QED BY <1>1, <1>3, <1>4, <1>6, FlowCalm

\* The source is chosen, or the flow ends.
LEMMA PrepareKeeps ==
  ASSUME IInv, NEW i \in Flow, Prepare(i)
  PROVE  IInv'
<1>1. flow \in [Flow -> Flows] /\ flow[i].pc = "asking"
  BY DEF IInv, RendInv, RendTypeOK, Prepare
<1>2. flow[i].rec = None
  BY <1>1 DEF IInv, RendInv, BufferInv, BufOK
<1>3. PICK f \in Flows : /\ flow' = [flow EXCEPT ![i] = f] /\ f.rec = None /\ f.pc # "beginning"
                         /\ status' \in {"idle", "preparing", "recording", "finalizing"}
  <2>1. CASE status' = "preparing" /\ flow' = [flow EXCEPT ![i].pc = "acquiring"]
    <3> DEFINE f == [flow[i] EXCEPT !.pc = "acquiring"]
    <3>1. f \in Flows /\ f.rec = None /\ f.pc # "beginning"
      BY <1>1, <1>2 DEF Flows
    <3>2. flow' = [flow EXCEPT ![i] = f]
      BY <1>1, <2>1
    <3> HIDE DEF f
    <3> QED BY <2>1, <3>1, <3>2
  <2>2. CASE flow' = [flow EXCEPT ![i] = NoFlow] /\ UNCHANGED status
    <3>1. NoFlow \in Flows /\ NoFlow.rec = None /\ NoFlow.pc # "beginning"
      BY DEF NoFlow, Flows
    <3>2. status' \in {"idle", "preparing", "recording", "finalizing"}
      BY <2>2 DEF IInv, RendInv, RendTypeOK
    <3> QED BY <2>2, <3>1, <3>2
  <2> QED BY <2>1, <2>2 DEF Prepare
<1>4. /\ UNCHANGED mainVars /\ UNCHANGED <<session, stopping, media, pending, buf, handle>>
      /\ UNCHANGED <<quit, doubled, late>>
  BY DEF Prepare, bufVars, histVars
<1>5. {quit', doubled', late'} \subseteq BOOLEAN
  BY <1>4 DEF IInv, RendInv, RendTypeOK
<1> QED BY <1>3, <1>4, <1>5, FlowCalm

\* A begin whose recording somebody now awaits.
LEMMA BeginKeepsRend ==
  ASSUME IInv, NEW r \in Rec, NEW replay, Begins(r, replay), MainInv', RecsKept, RendTypeOK',
         BufferInv',
         OwnerInv', BegunInv', \A q \in Rec \ {r} : Starting(q)' => Starting(q),
         UNCHANGED <<session, stopping, media, pending>>
  PROVE  RendInv'
<1>1. rec[r].job = "none"
  BY DEF Begins
<1>2. media[r] = "none"
  BY <1>1, FreshUnowned DEF IInv
<1>3. MediaMoves
  BY MediaStays DEF IInv
<1>4. MediaInv'
  BY <1>2, <1>3, MovesKeepMedia DEF IInv
<1>5. QuietInv'
  <2> SUFFICES ASSUME NEW q \in sessions', rec'[q].closing
               PROVE  media'[q] \in Halted /\ ~pending'[q]
    BY DEF QuietInv
  <2>1. q \in Rec \ {r}
    BY DEF Begins, MainInv, MainTypeOK
  <2>2. q \in sessions /\ rec[q].closing
    BY <2>1 DEF Begins
  <2> QED BY <2>2 DEF IInv, RendInv, QuietInv
<1> QED BY <1>4, <1>5 DEF RendInv

\* A stream is there and its recording begins, or there is none.
LEMMA AcquiredKeeps ==
  ASSUME IInv, NEW i \in Flow, Acquired(i)
  PROVE  IInv'
<1>1. flow \in [Flow -> Flows] /\ flow[i].pc = "acquiring"
  BY DEF IInv, RendInv, RendTypeOK, Acquired
<1>2. /\ UNCHANGED <<session, stopping, media, pending, buf, handle>>
      /\ UNCHANGED <<quit, doubled, late>>
  BY DEF Acquired, bufVars, histVars
<1>3. {quit', doubled', late'} \subseteq BOOLEAN
  BY <1>2 DEF IInv, RendInv, RendTypeOK
<1>4. CASE flow' = [flow EXCEPT ![i] = NoFlow] /\ status' = "idle" /\ UNCHANGED mainVars
  <2>1. NoFlow \in Flows /\ NoFlow.rec = None /\ NoFlow.pc # "beginning"
    BY DEF NoFlow, Flows
  <2> QED BY <1>2, <1>3, <1>4, <2>1, FlowCalm
<1>5. ASSUME NEW r \in Rec, Begin(r, FALSE), UNCHANGED status,
             flow' = [flow EXCEPT ![i] = [pc |-> "beginning", rec |-> r]]
      PROVE  IInv'
  <2> DEFINE f == [pc |-> "beginning", rec |-> r]
  <2>1. MainInv' /\ ChunksKept' /\ VolumeInv' /\ RecsKept /\ Begins(r, FALSE)
    BY <1>5, MainBegins
  <2>2. rec[r].job = "none" /\ rec'[r].answer = "begun" /\ rec'[r].job # "none"
    BY <2>1 DEF Begins
  <2>3. Unowned(r) /\ r # None
    BY <2>2, FreshUnowned DEF IInv
  <2>4. f \in Flows /\ f.rec = r /\ f.pc = "beginning"
    BY DEF Flows
  <2>5. flow'[i] = f /\ \A j \in Flow \ {i} : flow'[j] = flow[j]
    BY <1>1, <1>5
  <2> HIDE DEF f
  <2>6. RendTypeOK'
    <3>1. flow' \in [Flow -> Flows]
      BY <1>1, <1>5, <2>4 DEF f
    <3> QED BY <1>2, <1>3, <1>5, <3>1 DEF IInv, RendInv, RendTypeOK
  <2>7. \A d \in Buf : StartOf(d)' = StartOf(d) /\ SaveOf(d)' = SaveOf(d)
    BY <1>2 DEF StartOf, SaveOf
  <2>8. OwnerInv' /\ \A q \in Rec \ {r} : Starting(q)' => Starting(q)
    <3>1. GrowsBy(r, i, None, None)
      BY <2>4, <2>5, <2>7 DEF GrowsBy, Buf, None
    <3> QED BY <2>3, <3>1, GrowsKeepsOwner DEF IInv, RendInv
  <2>9. BufferInv'
    BY <1>2, <2>3, <2>4, <2>5 DEF IInv, RendInv, BufferInv, BufOK
  <2>10. BegunInv'
    <3>1. \A j \in Flow : flow'[j].rec # None => rec'[flow'[j].rec].answer \notin {"none", "threw"}
      <4> SUFFICES ASSUME NEW j \in Flow \ {i}, flow[j].rec # None
                   PROVE  rec'[flow[j].rec].answer \notin {"none", "threw"}
        BY <2>2, <2>4, <2>5
      <4>1. flow[j].rec \in Rec
        BY <1>1 DEF Flows
      <4> QED BY <2>1, <4>1 DEF IInv, RendInv, BegunInv, RecsKept
    <3>2. \A b \in Buf : /\ buf[b].start = "beginning" => rec'[buf[b].active].job # "none"
                         /\ buf[b].save = "beginning" => rec'[buf[b].saved].job # "none"
      <4> SUFFICES ASSUME NEW b \in Buf
                   PROVE  /\ buf[b].start = "beginning" => rec'[buf[b].active].job # "none"
                          /\ buf[b].save = "beginning" => rec'[buf[b].saved].job # "none"
        OBVIOUS
      <4>1. /\ buf[b].start = "beginning" => buf[b].active \in Rec
            /\ buf[b].save = "beginning" => buf[b].saved \in Rec
        BY DEF IInv, RendInv, RendTypeOK, BufferInv, BufOK, Bufs
      <4> QED BY <2>1, <4>1 DEF IInv, RendInv, BegunInv, RecsKept
    <3> QED BY <1>2, <3>1, <3>2 DEF IInv, RendInv, BegunInv
  <2>11. RendInv'
    BY <1>2, <2>1, <2>6, <2>8, <2>9, <2>10, BeginKeepsRend
  <2> QED BY <2>1, <2>11 DEF IInv
<1> QED BY <1>4, <1>5 DEF Acquired

\* A MediaRecorder stops; a last chunk may come with it.
Halts(r) ==
  /\ \E h \in Halted : media' = [media EXCEPT ![r] = h]
  /\ UNCHANGED pending \/ (media[r] \notin Halted /\ pending' = [pending EXCEPT ![r] = TRUE])

\* That ends what it makes of its recording.
LEMMA HaltMoves ==
  ASSUME RendInv, NEW r \in Rec, media[r] \notin Unused, Halts(r), session' \in {session, None},
         \A q \in Rec : stopping'[q] # "none" => stopping[q] # "none" \/ q = r
  PROVE  /\ MediaMoves /\ media'[r] \in Halted
         /\ media' \in [Rec -> Media] /\ pending' \in [Rec -> BOOLEAN]
<1>1. media \in [Rec -> Media] /\ pending \in [Rec -> BOOLEAN]
  BY DEF RendInv, RendTypeOK
<1>2. /\ media' \in [Rec -> Media] /\ media'[r] \in Halted
      /\ \A q \in Rec \ {r} : media'[q] = media[q]
  BY <1>1 DEF Halts, Halted, Media
<1>3. /\ pending' \in [Rec -> BOOLEAN]
      /\ \A q \in Rec : pending'[q] => pending[q] \/ (q = r /\ media[r] \notin Halted)
  BY <1>1 DEF Halts
<1>4. \A q \in Rec : q # None
  BY MaxRecAssumption DEF Rec, None
<1>5. MediaMoves
  BY <1>1, <1>2, <1>3, <1>4 DEF RendInv, MediaInv, MediaMoves, Halted, Unused
<1> QED BY <1>1, <1>2, <1>3, <1>5

\* As a stop of a session or of a save does.
LEMMA StopMediaHalts ==
  ASSUME RendInv, NEW r \in Rec, media[r] \notin Unused, StopMedia(r)
  PROVE  Halts(r)
<1>1. media[r] \in Media
  BY DEF RendInv, RendTypeOK
<1>2. CASE media[r] = "on"
  BY <1>2 DEF StopMedia, Halts, Halted
<1>3. CASE media[r] = "ended"
  <2>1. media' = [media EXCEPT ![r] = "cut"]
    BY <1>3 DEF StopMedia
  <2> QED BY <1>3, <2>1 DEF StopMedia, Halts, Halted
<1>4. CASE media[r] \in Halted
  <2>1. media' = [media EXCEPT ![r] = media[r]]
    BY <1>4 DEF StopMedia, Halted
  <2> QED BY <1>4, <2>1 DEF StopMedia, Halts, Halted
<1> QED BY <1>1, <1>2, <1>3, <1>4 DEF Media, Unused, Halted

\* The begin of a flow has answered: its MediaRecorder runs, or never will.
LEMMA StartedKeeps ==
  ASSUME IInv, NEW i \in Flow, Started(i)
  PROVE  IInv'
<1>1. RendTypeOK /\ OwnerInv /\ MediaInv
  BY DEF IInv, RendInv
<1>2. flow[i].rec \in Rec /\ flow[i].rec # None
  BY <1>1 DEF Started, IInv, RendInv, BufferInv, BufOK, RendTypeOK, Flows
<1>3. PICK r \in Rec : r = flow[i].rec /\ r # None
  BY <1>2
<1>4. /\ \/ media' = [media EXCEPT ![r] = "on"] /\ session' = r
         \/ media' = [media EXCEPT ![r] = "dead"] /\ session' = session
      /\ status' \in {"recording", "idle"}
      /\ flow' = [flow EXCEPT ![i] = NoFlow] /\ UNCHANGED mainVars
      /\ UNCHANGED <<stopping, pending, buf, handle, quit, doubled, late>>
  BY <1>3 DEF Started, bufVars, histVars
<1>5. flow'[i].rec = None /\ \A j \in Flow \ {i} : flow'[j] = flow[j]
  BY <1>1, <1>4 DEF RendTypeOK, NoFlow
<1>6. \A b \in Buf : StartOf(b)' = StartOf(b) /\ SaveOf(b)' = SaveOf(b)
  BY <1>4 DEF StartOf, SaveOf
<1>7. Dwindles
  BY <1>5, <1>6 DEF Dwindles
<1>8. ~Starting(r)'
  <2>1. \A j \in Flow : flow'[j].rec # r
    BY <1>1, <1>3, <1>5 DEF OwnerInv
  <2>2. \A b \in Buf : StartOf(b)' # r /\ SaveOf(b)' # r
    BY <1>1, <1>3, <1>6 DEF OwnerInv
  <2> QED BY <2>1, <2>2 DEF Starting
<1>9. media[r] = "none" /\ rec[r].answer \notin {"none", "threw"}
  BY <1>1, <1>3 DEF MediaInv, Starting, IInv, RendInv, BegunInv
<1>10. /\ media'[r] \in {"on", "dead"} /\ (session' = r => media'[r] = "on")
       /\ \A q \in Rec \ {r} : media'[q] = media[q] /\ (session' = q => session = q)
  BY <1>1, <1>3, <1>4, <1>9 DEF RendTypeOK, MediaInv, Unused
<1>11. MediaMoves
  BY <1>1, <1>4, <1>8, <1>9, <1>10 DEF MediaMoves, MediaInv, Unused, Halted
<1>12. MainInv' /\ ChunksKept' /\ VolumeInv' /\ Evolves /\ NoneCloses /\ RecsKept
  BY <1>4, MainIdle
<1>13. RendTypeOK'
  <2>1. flow' \in [Flow -> Flows]
    BY <1>1, <1>4 DEF RendTypeOK, NoFlow, Flows
  <2>2. media' \in [Rec -> Media] /\ session' \in Rec \union {None}
    BY <1>1, <1>3, <1>4 DEF RendTypeOK, Media
  <2> QED BY <1>1, <1>4, <2>1, <2>2 DEF RendTypeOK
<1>14. BufMoves
  BY <1>4 DEF BufMoves
<1>15. BufferInv'
  <2>1. flow'[i].pc # "beginning"
    BY <1>1, <1>4 DEF RendTypeOK, NoFlow
  <2> QED BY <1>4, <1>5, <2>1 DEF IInv, RendInv, BufferInv, BufOK
<1>16. QuietInv'
  BY <1>11, <1>12, MovesKeepQuiet DEF IInv, Evolves
<1>17. RendInv'
  BY <1>7, <1>11, <1>12, <1>13, <1>14, <1>15, <1>16, MovesKeepRend DEF IInv
<1> QED BY <1>12, <1>17 DEF IInv

\* MediaRecorder or a stop moves, main does not, nobody starts anything.
LEMMA IdleMediaKeeps ==
  ASSUME IInv, UNCHANGED mainVars, UNCHANGED <<flow, buf, handle, quit, doubled, late>>, MediaMoves,
         status' \in {"idle", "preparing", "recording", "finalizing"},
         session' \in Rec \union {None},
         stopping' \in [Rec -> {"none", "draining", "finalizing"}],
         media' \in [Rec -> Media], pending' \in [Rec -> BOOLEAN]
  PROVE  IInv'
<1>1. MainInv' /\ ChunksKept' /\ VolumeInv' /\ Evolves /\ NoneCloses /\ RecsKept
  BY MainIdle
<1>2. RendTypeOK'
  BY DEF IInv, RendInv, RendTypeOK
<1>3. Dwindles /\ BufMoves
  BY DEF Dwindles, BufMoves, StartOf, SaveOf
<1>4. BufferInv'
  BY DEF IInv, RendInv, BufferInv, BufOK
<1>5. QuietInv'
  BY <1>1, MovesKeepQuiet DEF IInv, Evolves
<1>6. RendInv'
  BY <1>1, <1>2, <1>3, <1>4, <1>5, MovesKeepRend DEF IInv
<1> QED BY <1>1, <1>6 DEF IInv

\* A chunk is there.
LEMMA ChunkKeeps ==
  ASSUME IInv, NEW r \in Rec, Chunk(r)
  PROVE  IInv'
<1>1. RendTypeOK /\ MediaInv
  BY DEF IInv, RendInv
<1>2. /\ media[r] = "on" /\ pending' = [pending EXCEPT ![r] = TRUE]
      /\ UNCHANGED mainVars /\ UNCHANGED <<status, session, flow, stopping, media, buf, handle>>
      /\ UNCHANGED <<quit, doubled, late>>
  BY DEF Chunk, bufVars, histVars
<1>3. pending' \in [Rec -> BOOLEAN]
  BY <1>1, <1>2 DEF RendTypeOK
<1>4. \A q \in Rec : pending'[q] => pending[q] \/ q = r
  BY <1>1, <1>2 DEF RendTypeOK
<1>5. MediaMoves
  BY <1>1, <1>2, <1>4 DEF MediaMoves, MediaInv, Halted
<1> QED BY <1>1, <1>2, <1>3, <1>5, IdleMediaKeeps DEF RendTypeOK

\* The tracks end, and the MediaRecorder with them.
LEMMA TracksEndKeeps ==
  ASSUME IInv, NEW r \in Rec, TracksEnd(r)
  PROVE  IInv'
<1>1. RendTypeOK /\ MediaInv
  BY DEF IInv, RendInv
<1>2. /\ media[r] = "on" /\ media' = [media EXCEPT ![r] = "ended"]
      /\ UNCHANGED mainVars /\ UNCHANGED <<status, session, flow, stopping, pending, buf, handle>>
      /\ UNCHANGED <<quit, doubled, late>>
  BY DEF TracksEnd, bufVars, histVars
<1>3. media' \in [Rec -> Media] /\ \A q \in Rec \ {r} : media'[q] = media[q]
  BY <1>1, <1>2 DEF RendTypeOK, Media
<1>4. media'[r] = "ended"
  BY <1>1, <1>2 DEF RendTypeOK
<1>5. MediaMoves
  BY <1>1, <1>2, <1>3, <1>4 DEF MediaMoves, MediaInv, Halted, Unused
<1> QED BY <1>1, <1>2, <1>3, <1>5, IdleMediaKeeps DEF RendTypeOK

\* Its last chunk is there.
LEMMA LastChunkKeeps ==
  ASSUME IInv, NEW r \in Rec, LastChunk(r)
  PROVE  IInv'
<1>1. RendTypeOK /\ MediaInv
  BY DEF IInv, RendInv
<1>2. /\ media[r] = "ended" /\ media' = [media EXCEPT ![r] = "off"]
      /\ UNCHANGED pending \/ pending' = [pending EXCEPT ![r] = TRUE]
      /\ UNCHANGED mainVars /\ UNCHANGED <<status, session, flow, stopping, buf, handle>>
      /\ UNCHANGED <<quit, doubled, late>>
  BY DEF LastChunk, bufVars, histVars
<1>3. Halts(r) /\ media[r] \notin Unused
  BY <1>2 DEF Halts, Halted, Unused
<1>4. MediaMoves /\ media' \in [Rec -> Media] /\ pending' \in [Rec -> BOOLEAN]
  BY <1>2, <1>3, HaltMoves DEF IInv
<1> QED BY <1>1, <1>2, <1>4, IdleMediaKeeps DEF RendTypeOK

\* The user, or the end of a track, stops the recording.
LEMMA StopFlowKeeps ==
  ASSUME IInv, StopFlow
  PROVE  IInv'
<1>1. RendTypeOK /\ MediaInv
  BY DEF IInv, RendInv
<1>2. /\ session # None /\ session' = None /\ status' = "finalizing" /\ StopMedia(session)
      /\ stopping' = [stopping EXCEPT ![session] = "draining"]
      /\ UNCHANGED mainVars /\ UNCHANGED <<flow, buf, handle, quit, doubled, late>>
  BY DEF StopFlow, bufVars, histVars
<1>3. session \in Rec /\ media[session] \notin Unused
  BY <1>1, <1>2 DEF RendTypeOK, MediaInv
<1>4. /\ stopping' \in [Rec -> {"none", "draining", "finalizing"}]
      /\ \A q \in Rec : stopping'[q] # "none" => stopping[q] # "none" \/ q = session
  BY <1>1, <1>2 DEF RendTypeOK
<1>5. MediaMoves /\ media' \in [Rec -> Media] /\ pending' \in [Rec -> BOOLEAN]
  BY <1>2, <1>3, <1>4, StopMediaHalts, HaltMoves DEF IInv
<1> QED BY <1>1, <1>2, <1>4, <1>5, IdleMediaKeeps DEF RendTypeOK

\* The answer of finalize.
LEMMA FinalizedKeeps ==
  ASSUME IInv, NEW r \in Rec, Finalized(r)
  PROVE  IInv'
<1>1. RendTypeOK /\ MediaInv
  BY DEF IInv, RendInv
<1>2. /\ stopping' = [stopping EXCEPT ![r] = "none"] /\ status' = "idle"
      /\ UNCHANGED mainVars /\ UNCHANGED <<session, flow, media, pending, buf, handle>>
      /\ UNCHANGED <<quit, doubled, late>>
  BY DEF Finalized, bufVars, histVars
<1>3. /\ stopping' \in [Rec -> {"none", "draining", "finalizing"}]
      /\ \A q \in Rec : stopping'[q] # "none" => stopping[q] # "none"
  BY <1>1, <1>2 DEF RendTypeOK
<1>4. MediaMoves
  BY <1>1, <1>2, <1>3 DEF MediaMoves, MediaInv
<1> QED BY <1>1, <1>2, <1>3, <1>4, IdleMediaKeeps DEF RendTypeOK

\* A chunk is stored, or dropped: none is dropped before a close has gone astray.
LEMMA WriteChunkKeeps ==
  ASSUME IInv, NEW r \in Rec, WriteChunk(r)
  PROVE  IInv'
<1>1. RendTypeOK /\ MediaInv /\ QuietInv /\ MainInv
  BY DEF IInv, RendInv
<1>2. /\ pending[r] /\ AppendChunk(r, TRUE) /\ pending' = [pending EXCEPT ![r] = FALSE]
      /\ UNCHANGED <<ffmpeg, sessions, file, volume, torn, crossed>>
      /\ UNCHANGED <<status, session, flow, stopping, media, buf, handle, quit, doubled, late>>
  BY DEF WriteChunk, bufVars, histVars
<1>3. /\ Evolves /\ NoneCloses
      /\ \A q \in Rec : rec'[q].holed = rec[q].holed \/ (q = r /\ Unstored(r))
  BY <1>1, <1>2, AppendEvolves
<1>4. MainInv' /\ VolumeInv'
  BY <1>2, <1>3, EvolvesKeepsMain, EvolvesKeepsVolume DEF IInv
<1>5. Unstored(r) => torn
  BY <1>1, <1>2 DEF Unstored, QuietInv, MainInv, FileInv
<1>6. ChunksKept'
  BY <1>2, <1>3, <1>5 DEF IInv, ChunksKept
<1>7. pending' \in [Rec -> BOOLEAN] /\ \A q \in Rec : pending'[q] => pending[q]
  BY <1>1, <1>2 DEF RendTypeOK
<1>8. {quit', doubled', late'} \subseteq BOOLEAN
  BY <1>1, <1>2 DEF RendTypeOK
<1>9. RendInv'
  BY <1>2, <1>3, <1>7, <1>8, MainKeepsRend DEF IInv
<1> QED BY <1>4, <1>6, <1>9 DEF IInv

\* The last chunk of a recorder that nobody waits for is stored, or dropped.
LEMMA LateChunkKeeps ==
  ASSUME IInv, NEW r \in Rec, LateChunk(r)
  PROVE  IInv'
<1>1. RendTypeOK /\ MediaInv /\ MainInv
  BY DEF IInv, RendInv
<1>2. /\ media[r] = "cut" /\ media' = [media EXCEPT ![r] = "off"]
      /\ UNCHANGED rec \/ AppendChunk(r, FALSE)
      /\ UNCHANGED <<ffmpeg, sessions, file, volume, torn, crossed>>
      /\ UNCHANGED <<status, session, flow, stopping, pending, buf, handle, quit, doubled, late>>
  BY DEF LateChunk, bufVars, histVars
<1>3. Evolves /\ NoneCloses /\ KeepsHoled
  <2>1. CASE UNCHANGED rec
    <3>1. Evolves /\ NoneCloses
      BY <1>1, <1>2, <2>1, IdleEvolves
    <3> QED BY <2>1, <3>1 DEF KeepsHoled
  <2>2. CASE AppendChunk(r, FALSE)
    BY <1>1, <1>2, <2>2, AppendEvolves DEF KeepsHoled
  <2> QED BY <1>2, <2>1, <2>2
<1>4. MainInv' /\ ChunksKept' /\ VolumeInv' /\ RecsKept
  BY <1>2, <1>3, MainEvolves
<1>5. Halts(r) /\ media[r] \notin Unused
  BY <1>2 DEF Halts, Halted, Unused
<1>6. MediaMoves /\ media' \in [Rec -> Media] /\ pending' \in [Rec -> BOOLEAN]
  BY <1>2, <1>5, HaltMoves DEF IInv
<1>7. RendTypeOK'
  BY <1>1, <1>2, <1>6 DEF RendTypeOK
<1>8. Dwindles /\ BufMoves
  BY <1>2 DEF Dwindles, BufMoves, StartOf, SaveOf
<1>9. BufferInv'
  BY <1>2 DEF IInv, RendInv, BufferInv, BufOK
<1>10. QuietInv'
  BY <1>3, <1>6, MovesKeepQuiet DEF IInv, Evolves
<1>11. RendInv'
  BY <1>4, <1>6, <1>7, <1>8, <1>9, <1>10, MovesKeepRend DEF IInv
<1> QED BY <1>4, <1>11 DEF IInv

\* finalize of a recording that nothing is pending of.
LEMMA FinalizeQuiet ==
  ASSUME IInv, NEW r \in Rec, Finalize(r), ffmpeg' = ffmpeg, crossed' = crossed,
         media[r] \in Halted, ~pending[r], MediaMoves
  PROVE  /\ MainInv' /\ ChunksKept' /\ VolumeInv' /\ RecsKept /\ QuietInv'
         /\ rec'[r].job # "open" /\ Evolves
<1>1. rec[r].answer \notin {"none", "threw"}
  BY DEF IInv, RendInv, MediaInv, Halted
<1>2. /\ Evolves /\ KeepsHoled /\ rec'[r].job # "open"
      /\ \A q \in Rec \ {r} : rec'[q] = rec[q] /\ (q \in sessions' <=> q \in sessions)
  BY <1>1, FinalizeEvolves DEF IInv
<1>3. QuietInv'
  <2> SUFFICES ASSUME NEW q \in sessions', rec'[q].closing
               PROVE  media'[q] \in Halted /\ ~pending'[q]
    BY DEF QuietInv
  <2>1. q \in Rec
    BY <1>2 DEF Evolves
  <2>2. media[q] \in Halted /\ ~pending[q]
    BY <1>2, <2>1 DEF IInv, RendInv, QuietInv
  <2> QED BY <2>1, <2>2 DEF MediaMoves
<1> QED BY <1>2, <1>3, MainEvolves

\* The chunks are drained and finalize is called.
LEMMA DrainedKeeps ==
  ASSUME IInv, NEW r \in Rec, Drained(r)
  PROVE  IInv'
<1>1. RendTypeOK /\ MediaInv
  BY DEF IInv, RendInv
<1>2. /\ stopping[r] = "draining" /\ ~pending[r] /\ Finalize(r)
      /\ stopping' = [stopping EXCEPT ![r] = "finalizing"]
      /\ UNCHANGED <<ffmpeg, crossed, status, session, flow, media, pending, buf, handle>>
      /\ UNCHANGED <<quit, doubled, late>>
  BY DEF Drained, bufVars, histVars
<1>3. media[r] \in Halted
  BY <1>1, <1>2 DEF MediaInv
<1>4. /\ stopping' \in [Rec -> {"none", "draining", "finalizing"}]
      /\ \A q \in Rec : stopping'[q] # "none" => stopping[q] # "none"
  BY <1>1, <1>2 DEF RendTypeOK
<1>5. MediaMoves
  BY <1>1, <1>2, <1>4 DEF MediaMoves, MediaInv
<1>6. MainInv' /\ ChunksKept' /\ VolumeInv' /\ RecsKept /\ QuietInv'
  BY <1>2, <1>3, <1>5, FinalizeQuiet
<1>7. RendTypeOK'
  BY <1>1, <1>2, <1>4 DEF RendTypeOK
<1>8. Dwindles /\ BufMoves
  BY <1>2 DEF Dwindles, BufMoves, StartOf, SaveOf
<1>9. BufferInv'
  BY <1>2 DEF IInv, RendInv, BufferInv, BufOK
<1>10. RendInv'
  BY <1>5, <1>6, <1>7, <1>8, <1>9, MovesKeepRend DEF IInv
<1> QED BY <1>6, <1>10 DEF IInv

-----------------------------------------------------------------------------
(* The replay buffers *)

\* An update of one buffer.
LEMMA BufUpdate ==
  ASSUME RendTypeOK, NEW b \in Buf, NEW g \in Bufs, buf' = [buf EXCEPT ![b] = g]
  PROVE  /\ buf' \in [Buf -> Bufs] /\ buf'[b] = g
         /\ \A c \in Buf \ {b} : /\ buf'[c] = buf[c]
                                 /\ StartOf(c)' = StartOf(c) /\ SaveOf(c)' = SaveOf(c)
         /\ StartOf(b)' = IF g.start = "beginning" THEN g.active ELSE None
         /\ SaveOf(b)' = IF g.save = "beginning" THEN g.saved ELSE None
<1>1. buf' \in [Buf -> Bufs] /\ buf'[b] = g /\ \A c \in Buf \ {b} : buf'[c] = buf[c]
  BY DEF RendTypeOK
<1> QED BY <1>1 DEF StartOf, SaveOf

\* What becomes of buffer b when it starts nothing, and its MediaRecorder moves as it may.
BufCalm(b, g) ==
  /\ g \in Bufs /\ BufOK(g) /\ buf' = [buf EXCEPT ![b] = g]
  /\ g.start = "beginning" => buf[b].start = "beginning" /\ g.active = buf[b].active
  /\ g.save = "beginning" => buf[b].save = "beginning" /\ g.saved = buf[b].saved
  /\ handle' \in {None, handle, b}
  /\ handle' = b => g.start = "up"
  /\ g.start = "up" => \/ buf[b].start = "up" /\ g.active = buf[b].active
                       \/ media'[g.active] \notin Unused
  /\ g.save \in {"draining", "finalizing"}
       => \/ buf[b].save \in {"draining", "finalizing"} /\ g.saved = buf[b].saved
          \/ media'[g.saved] \in Halted

\* It starts no more than it did.
LEMMA BufCalmDwindles ==
  ASSUME RendTypeOK, NEW b \in Buf, NEW g, BufCalm(b, g), UNCHANGED flow
  PROVE  Dwindles
<1>1. g \in Bufs /\ buf' = [buf EXCEPT ![b] = g]
  BY DEF BufCalm
<1>2. /\ \A c \in Buf \ {b} : StartOf(c)' = StartOf(c) /\ SaveOf(c)' = SaveOf(c)
      /\ StartOf(b)' = IF g.start = "beginning" THEN g.active ELSE None
      /\ SaveOf(b)' = IF g.save = "beginning" THEN g.saved ELSE None
  BY <1>1, BufUpdate
<1>3. StartOf(b)' \in {StartOf(b), None} /\ SaveOf(b)' \in {SaveOf(b), None}
  BY <1>2 DEF BufCalm, StartOf, SaveOf
<1> QED BY <1>2, <1>3 DEF Dwindles

\* Then the renderer keeps its invariant, if main and MediaRecorder do as they may.
LEMMA BufCalmKeepsRend ==
  ASSUME IInv, NEW b \in Buf, NEW g, BufCalm(b, g), MediaMoves, RecsKept, QuietInv',
         UNCHANGED <<status, session, flow, stopping>>,
         media' \in [Rec -> Media], pending' \in [Rec -> BOOLEAN],
         {quit', doubled', late'} \subseteq BOOLEAN
  PROVE  RendInv'
<1>1. RendTypeOK /\ BufferInv
  BY DEF IInv, RendInv
<1>2. g \in Bufs /\ buf' = [buf EXCEPT ![b] = g]
  BY DEF BufCalm
<1>3. /\ buf' \in [Buf -> Bufs] /\ buf'[b] = g
      /\ \A c \in Buf \ {b} : buf'[c] = buf[c]
  BY <1>1, <1>2, BufUpdate
<1>4. handle' \in Buf \union {None}
  BY <1>1 DEF BufCalm, RendTypeOK
<1>5. RendTypeOK'
  BY <1>1, <1>3, <1>4 DEF RendTypeOK
<1>6. Dwindles
  BY <1>1, BufCalmDwindles
<1>7. BufMoves
  BY <1>3 DEF BufMoves, BufCalm
<1>8. BufferInv'
  <2>1. \A c \in Buf : BufOK(buf'[c]) /\ (handle' = c => buf'[c].start = "up")
    <3>1. BufOK(buf'[b]) /\ (handle' = b => buf'[b].start = "up")
      BY <1>3 DEF BufCalm
    <3>2. ASSUME NEW c \in Buf \ {b}
          PROVE  BufOK(buf'[c]) /\ (handle' = c => buf'[c].start = "up")
      <4>1. BufOK(buf[c]) /\ (handle = c => buf[c].start = "up") /\ buf'[c] = buf[c]
        BY <1>1, <1>3, Zenon DEF BufferInv
      <4>2. handle' = c => handle = c
        BY DEF BufCalm, Buf, None
      <4> QED BY <4>1, <4>2, Zenon
    <3> QED BY <3>1, <3>2
  <2>2. \A i \in Flow : flow'[i].pc = "beginning" <=> flow'[i].rec # None
    BY <1>1 DEF BufferInv
  <2> QED BY <2>1, <2>2, Zenon DEF BufferInv, BufOK
<1> QED BY <1>5, <1>6, <1>7, <1>8, MovesKeepRend DEF IInv

\* The buffer moves alone.
LEMMA BufAlone ==
  ASSUME IInv, NEW b \in Buf, NEW g, BufCalm(b, g), UNCHANGED mainVars, UNCHANGED rendVars,
         {quit', doubled', late'} \subseteq BOOLEAN
  PROVE  IInv'
<1>1. MainInv' /\ ChunksKept' /\ VolumeInv' /\ Evolves /\ NoneCloses /\ RecsKept
  BY MainIdle
<1>2. UNCHANGED <<status, session, flow, stopping, media, pending>>
  BY DEF rendVars
<1>3. MediaMoves
  BY <1>2, MediaStays DEF IInv
<1>4. QuietInv'
  BY <1>1, <1>3, MovesKeepQuiet DEF IInv, Evolves
<1>5. media' \in [Rec -> Media] /\ pending' \in [Rec -> BOOLEAN]
  BY <1>2 DEF IInv, RendInv, RendTypeOK
<1>6. RendInv'
  BY <1>1, <1>2, <1>3, <1>4, <1>5, BufCalmKeepsRend
<1> QED BY <1>1, <1>6 DEF IInv

\* The user turns the replay buffer on.
LEMMA StartReplayKeeps ==
  ASSUME IInv, NEW b \in Buf, StartReplay(b)
  PROVE  IInv'
<1> DEFINE g == [buf[b] EXCEPT !.start = "acquiring"]
<1>1. RendTypeOK /\ BufferInv /\ buf[b] \in Bufs
  BY DEF IInv, RendInv, RendTypeOK
<1>2. /\ handle = None /\ buf[b].start = "none" /\ buf' = [buf EXCEPT ![b] = g]
      /\ UNCHANGED mainVars /\ UNCHANGED rendVars /\ UNCHANGED <<handle, quit, late>>
  BY <1>1 DEF StartReplay, RendTypeOK
<1>3. g \in Bufs
  BY <1>1 DEF Bufs
<1>4. /\ g.start = "acquiring" /\ g.active = buf[b].active /\ g.save = buf[b].save
      /\ g.saved = buf[b].saved /\ g.stop = buf[b].stop
  BY <1>1 DEF Bufs
<1> HIDE DEF g
<1>5. BufOK(g) /\ g.save = "none"
  BY <1>1, <1>2, <1>4 DEF BufferInv, BufOK
<1>6. b # None
  BY DEF Buf, None
<1>7. BufCalm(b, g)
  BY <1>2, <1>3, <1>4, <1>5, <1>6 DEF BufCalm
<1>8. doubled' \in BOOLEAN
  BY <1>1 DEF StartReplay, RendTypeOK
<1> QED BY <1>1, <1>2, <1>7, <1>8, BufAlone DEF RendTypeOK

\* The buffer awaits a begin, for its start or for its save.
LEMMA BufBegins ==
  ASSUME IInv, NEW b \in Buf, NEW g \in Bufs, NEW r \in Rec, Begin(r, TRUE),
         BufOK(g), buf' = [buf EXCEPT ![b] = g],
         UNCHANGED rendVars, UNCHANGED <<handle, quit, doubled, late>>,
         buf[b].start = "up" <=> g.start = "up",
         g.start = "up" => g.active = buf[b].active,
         g.save \notin {"draining", "finalizing"},
         \/ g.start = "beginning" /\ g.active = r
         \/ g.start # "beginning" /\ g.save = "beginning" /\ g.saved = r
  PROVE  IInv'
<1>1. RendTypeOK /\ BufferInv /\ OwnerInv /\ BegunInv
  BY DEF IInv, RendInv
<1>2. MainInv' /\ ChunksKept' /\ VolumeInv' /\ RecsKept /\ Begins(r, TRUE)
  BY MainBegins
<1>3. rec[r].job = "none" /\ rec'[r].job # "none"
  BY <1>2 DEF Begins
<1>4. Unowned(r) /\ r # None
  BY <1>3, FreshUnowned DEF IInv
<1>5. /\ buf' \in [Buf -> Bufs] /\ buf'[b] = g
      /\ \A c \in Buf \ {b} : /\ buf'[c] = buf[c]
                              /\ StartOf(c)' = StartOf(c) /\ SaveOf(c)' = SaveOf(c)
      /\ StartOf(b)' = IF g.start = "beginning" THEN g.active ELSE None
      /\ SaveOf(b)' = IF g.save = "beginning" THEN g.saved ELSE None
  BY <1>1, BufUpdate
<1>6. UNCHANGED <<status, session, flow, stopping, media, pending>>
  BY DEF rendVars
<1>7. RendTypeOK'
  BY <1>1, <1>5, <1>6 DEF RendTypeOK
<1>8. BufferInv'
  <2>1. ASSUME NEW c \in Buf \ {b}
        PROVE  BufOK(buf'[c]) /\ (handle' = c => buf'[c].start = "up")
    <3>1. BufOK(buf[c]) /\ (handle = c => buf[c].start = "up") /\ buf'[c] = buf[c]
      BY <1>1, <1>5, Zenon DEF BufferInv
    <3> QED BY <3>1, Zenon
  <2>2. BufOK(buf'[b]) /\ (handle' = b => buf'[b].start = "up")
    BY <1>1, <1>5 DEF BufferInv
  <2>3. \A i \in Flow : flow'[i].pc = "beginning" <=> flow'[i].rec # None
    BY <1>1, <1>6 DEF BufferInv
  <2> QED BY <2>1, <2>2, <2>3, Zenon DEF BufferInv, BufOK
<1>9. OwnerInv' /\ \A q \in Rec \ {r} : Starting(q)' => Starting(q)
  <2>1. b # None
    BY DEF Buf, None
  <2>2. CASE g.start = "beginning" /\ g.active = r
    <3>1. g.save = "none"
      BY <2>2 DEF BufOK
    <3>2. GrowsBy(r, None, b, None)
      BY <1>5, <1>6, <2>1, <2>2, <3>1 DEF GrowsBy, Flow, Buf, None
    <3> QED BY <1>1, <1>4, <3>2, GrowsKeepsOwner
  <2>3. CASE g.start # "beginning" /\ g.save = "beginning" /\ g.saved = r
    <3>1. GrowsBy(r, None, None, b)
      BY <1>5, <1>6, <2>1, <2>3 DEF GrowsBy, Flow, Buf, None
    <3> QED BY <1>1, <1>4, <3>1, GrowsKeepsOwner
  <2> QED BY <2>2, <2>3
<1>10. BegunInv'
  <2>1. \A j \in Flow : flow'[j].rec # None => rec'[flow'[j].rec].answer \notin {"none", "threw"}
    <3> SUFFICES ASSUME NEW j \in Flow, flow[j].rec # None
                 PROVE  rec'[flow[j].rec].answer \notin {"none", "threw"}
      BY <1>6
    <3>1. flow[j].rec \in Rec
      BY <1>1 DEF RendTypeOK, Flows
    <3> QED BY <1>1, <1>2, <3>1 DEF BegunInv, RecsKept
  <2>2. ASSUME NEW c \in Buf \ {b}
        PROVE  /\ buf'[c].start = "beginning" => rec'[buf'[c].active].job # "none"
               /\ buf'[c].save = "beginning" => rec'[buf'[c].saved].job # "none"
               /\ buf'[c].start = "up" => media'[buf'[c].active] \notin Unused
               /\ buf'[c].save \in {"draining", "finalizing"} => media'[buf'[c].saved] \in Halted
    <3>1. /\ buf[c].start = "beginning" => buf[c].active \in Rec
          /\ buf[c].save = "beginning" => buf[c].saved \in Rec
      BY <1>1 DEF RendTypeOK, BufferInv, BufOK, Bufs
    <3>2. /\ buf[c].start = "beginning" => rec'[buf[c].active].job # "none"
          /\ buf[c].save = "beginning" => rec'[buf[c].saved].job # "none"
      BY <1>1, <1>2, <3>1 DEF BegunInv, RecsKept
    <3> QED BY <1>1, <1>5, <1>6, <3>2 DEF BegunInv
  <2>3. /\ g.start = "beginning" => rec'[g.active].job # "none"
        /\ g.save = "beginning" => rec'[g.saved].job # "none"
        /\ g.start = "up" => media'[g.active] \notin Unused
    <3>1. g.start = "beginning" => g.active = r /\ g.save = "none"
      BY DEF BufOK
    <3>2. g.save = "beginning" => g.saved = r
      BY <3>1
    <3> QED BY <1>1, <1>3, <1>6, <3>1, <3>2 DEF BegunInv
  <2> QED BY <1>5, <2>1, <2>2, <2>3 DEF BegunInv
<1>11. RendInv'
  BY <1>2, <1>6, <1>7, <1>8, <1>9, <1>10, BeginKeepsRend
<1> QED BY <1>2, <1>11 DEF IInv

\* The replay's streams are there and its recording begins, or they are not.
LEMMA ReplayAcquiredKeeps ==
  ASSUME IInv, NEW b \in Buf, ReplayAcquired(b)
  PROVE  IInv'
<1>1. RendTypeOK /\ BufferInv /\ buf[b] \in Bufs
  BY DEF IInv, RendInv, RendTypeOK
<1>2. /\ buf[b].start = "acquiring" /\ UNCHANGED rendVars
      /\ UNCHANGED <<handle, quit, doubled, late>> /\ {quit', doubled', late'} \subseteq BOOLEAN
  BY <1>1 DEF ReplayAcquired, histVars, RendTypeOK
<1>3. BufOK(buf[b])
  BY <1>1 DEF BufferInv
<1>4. buf[b].save = "none" /\ buf[b].saved = None /\ buf[b].stop = "none" /\ handle # b
  BY <1>1, <1>2, <1>3 DEF BufferInv, BufOK
<1>5. ASSUME NEW r \in Rec, Begin(r, TRUE),
             buf' = [buf EXCEPT ![b].start = "beginning", ![b].active = r]
      PROVE  IInv'
  <2> DEFINE g == [buf[b] EXCEPT !.start = "beginning", !.active = r]
  <2>1. g \in Bufs
    BY <1>1 DEF Bufs
  <2>2. g.start = "beginning" /\ g.active = r /\ g.save = "none" /\ g.saved = None /\ g.stop = "none"
    BY <1>1, <1>4 DEF Bufs
  <2>3. buf' = [buf EXCEPT ![b] = g]
    BY <1>1, <1>5 DEF RendTypeOK, Bufs
  <2> HIDE DEF g
  <2>4. BufOK(g)
    BY <2>2, MaxRecAssumption DEF BufOK, Rec, None
  <2> QED BY <1>2, <1>5, <2>1, <2>2, <2>3, <2>4, BufBegins
<1>6. CASE buf' = [buf EXCEPT ![b].start = "over"] /\ UNCHANGED mainVars
  <2> DEFINE g == [buf[b] EXCEPT !.start = "over"]
  <2>1. g \in Bufs
    BY <1>1 DEF Bufs
  <2>2. g.start = "over" /\ g.save = "none" /\ g.saved = None /\ g.stop = "none"
    BY <1>1, <1>4 DEF Bufs
  <2>3. buf' = [buf EXCEPT ![b] = g]
    BY <1>1, <1>6 DEF RendTypeOK
  <2> HIDE DEF g
  <2>4. BufCalm(b, g)
    BY <1>2, <1>4, <2>1, <2>2, <2>3 DEF BufCalm, BufOK
  <2> QED BY <1>2, <1>6, <2>4, BufAlone
<1> QED BY <1>5, <1>6 DEF ReplayAcquired

\* The buffer moves together with its MediaRecorder.
LEMMA BufMedia ==
  ASSUME IInv, NEW b \in Buf, NEW g, BufCalm(b, g), UNCHANGED mainVars, MediaMoves,
         UNCHANGED <<status, session, flow, stopping>>,
         media' \in [Rec -> Media], pending' \in [Rec -> BOOLEAN],
         {quit', doubled', late'} \subseteq BOOLEAN
  PROVE  IInv'
<1>1. MainInv' /\ ChunksKept' /\ VolumeInv' /\ Evolves /\ NoneCloses /\ RecsKept
  BY MainIdle
<1>2. QuietInv'
  BY <1>1, MovesKeepQuiet DEF IInv, Evolves
<1>3. RendInv'
  BY <1>1, <1>2, BufCalmKeepsRend
<1> QED BY <1>1, <1>3 DEF IInv

\* The buffer moves together with main, which closes nothing that stays in the map.
LEMMA BufMain ==
  ASSUME IInv, NEW b \in Buf, NEW g, BufCalm(b, g), Evolves, NoneCloses, KeepsHoled,
         UNCHANGED <<ffmpeg, crossed>>, UNCHANGED rendVars,
         {quit', doubled', late'} \subseteq BOOLEAN
  PROVE  IInv'
<1>1. MainInv' /\ ChunksKept' /\ VolumeInv' /\ RecsKept
  BY MainEvolves
<1>2. UNCHANGED <<status, session, flow, stopping, media, pending>>
  BY DEF rendVars
<1>3. MediaMoves
  BY <1>2, MediaStays DEF IInv
<1>4. QuietInv'
  BY <1>3, MovesKeepQuiet DEF IInv, Evolves
<1>5. media' \in [Rec -> Media] /\ pending' \in [Rec -> BOOLEAN]
  BY <1>2 DEF IInv, RendInv, RendTypeOK
<1>6. RendInv'
  BY <1>1, <1>2, <1>3, <1>4, <1>5, BufCalmKeepsRend
<1> QED BY <1>1, <1>6 DEF IInv

\* It has begun, or has thrown.
LEMMA ReplayBegunKeeps ==
  ASSUME IInv, NEW b \in Buf, ReplayBegun(b)
  PROVE  IInv'
<1>1. RendTypeOK /\ BufferInv /\ OwnerInv /\ MediaInv /\ buf[b] \in Bufs
  BY DEF IInv, RendInv, RendTypeOK
<1>2. /\ buf[b].start = "beginning"
      /\ UNCHANGED <<status, session, flow, stopping, pending, quit, doubled, late>>
      /\ {quit', doubled', late'} \subseteq BOOLEAN
  BY <1>1 DEF ReplayBegun, histVars, RendTypeOK
<1>3. BufOK(buf[b])
  BY <1>1 DEF BufferInv
<1>4. /\ buf[b].save = "none" /\ buf[b].saved = None /\ buf[b].stop = "none" /\ handle # b
      /\ buf[b].active \in Rec /\ buf[b].active # None
  BY <1>1, <1>2, <1>3 DEF BufferInv, BufOK, Bufs
<1>5. PICK r \in Rec : r = buf[b].active /\ r # None
  BY <1>4
<1>6. CASE /\ rec[r].answer = "begun" /\ buf' = [buf EXCEPT ![b].start = "up"]
           /\ handle' = b /\ media' = [media EXCEPT ![r] = "on"] /\ UNCHANGED mainVars
  <2> DEFINE g == [buf[b] EXCEPT !.start = "up"]
  <2>1. g \in Bufs
    BY <1>1 DEF Bufs
  <2>2. /\ g.start = "up" /\ g.active = r /\ g.save = "none" /\ g.saved = None
        /\ g.stop = "none"
    BY <1>1, <1>4, <1>5 DEF Bufs
  <2>3. buf' = [buf EXCEPT ![b] = g]
    BY <1>1, <1>6 DEF RendTypeOK
  <2> HIDE DEF g
  <2>4. media'[r] = "on" /\ \A q \in Rec \ {r} : media'[q] = media[q]
    BY <1>1, <1>6 DEF RendTypeOK
  <2>5. BufCalm(b, g)
    BY <1>5, <1>6, <2>1, <2>2, <2>3, <2>4 DEF BufCalm, BufOK, Unused
  <2>6. media[r] = "none"
    BY <1>1, <1>2, <1>5 DEF MediaInv, Starting, StartOf
  <2>7. ~Starting(r)'
    <3>1. /\ \A c \in Buf \ {b} : StartOf(c)' = StartOf(c) /\ SaveOf(c)' = SaveOf(c)
          /\ StartOf(b)' = IF g.start = "beginning" THEN g.active ELSE None
          /\ SaveOf(b)' = IF g.save = "beginning" THEN g.saved ELSE None
      BY <1>1, <2>1, <2>3, BufUpdate
    <3>2. StartOf(b) = r
      BY <1>2, <1>5 DEF StartOf
    <3>3. \A j \in Flow : flow'[j].rec # r
      BY <1>1, <1>2, <1>5, <3>2 DEF OwnerInv
    <3>4. \A c \in Buf : StartOf(c)' # r /\ SaveOf(c)' # r
      BY <1>1, <1>5, <2>2, <3>1, <3>2 DEF OwnerInv
    <3> QED BY <3>3, <3>4 DEF Starting
  <2>8. MediaMoves
    BY <1>1, <1>2, <1>6, <2>4, <2>6, <2>7 DEF MediaMoves, MediaInv, Unused, Halted
  <2>9. MainInv' /\ ChunksKept' /\ VolumeInv' /\ Evolves /\ NoneCloses /\ RecsKept
    BY <1>6, MainIdle
  <2>10. QuietInv'
    BY <2>8, <2>9, MovesKeepQuiet DEF IInv, Evolves
  <2>11. media' \in [Rec -> Media] /\ pending' \in [Rec -> BOOLEAN]
    BY <1>1, <1>2, <1>6 DEF RendTypeOK, Media
  <2>12. RendInv'
    BY <1>2, <2>5, <2>8, <2>9, <2>10, <2>11, BufCalmKeepsRend
  <2> QED BY <2>9, <2>12 DEF IInv
<1>7. CASE /\ buf' = [buf EXCEPT ![b].start = "over", ![b].active = None]
           /\ UNCHANGED mainVars \/ (Cancel(r) /\ UNCHANGED <<ffmpeg, crossed>>)
           /\ UNCHANGED <<handle, media>>
  <2> DEFINE g == [buf[b] EXCEPT !.start = "over", !.active = None]
  <2>1. g \in Bufs
    BY <1>1 DEF Bufs
  <2>2. g.start = "over" /\ g.save = "none" /\ g.saved = None /\ g.stop = "none"
    BY <1>1, <1>4 DEF Bufs
  <2>3. buf' = [buf EXCEPT ![b] = g]
    BY <1>1, <1>7 DEF RendTypeOK, Bufs
  <2> HIDE DEF g
  <2>4. BufCalm(b, g)
    BY <1>4, <1>7, <2>1, <2>2, <2>3 DEF BufCalm, BufOK
  <2>5. UNCHANGED rendVars
    BY <1>2, <1>7 DEF rendVars
  <2>6. CASE UNCHANGED mainVars
    BY <1>2, <2>4, <2>5, <2>6, BufAlone
  <2>7. CASE Cancel(r) /\ UNCHANGED <<ffmpeg, crossed>>
    <3>1. Evolves /\ NoneCloses /\ KeepsHoled
      BY <2>7, CancelEvolves DEF IInv
    <3> QED BY <1>2, <2>4, <2>5, <2>7, <3>1, BufMain
  <2> QED BY <1>7, <2>6, <2>7
<1> QED BY <1>5, <1>6, <1>7 DEF ReplayBegun


\* A replay is saved.
LEMMA SaveReplayKeeps ==
  ASSUME IInv, NEW b \in Buf, SaveReplay(b)
  PROVE  IInv'
<1>1. RendTypeOK /\ BufferInv /\ BegunInv /\ buf[b] \in Bufs /\ BufOK(buf[b])
  BY DEF IInv, RendInv, RendTypeOK, BufferInv
<1>2. /\ handle = b /\ buf[b].start = "up" /\ UNCHANGED mainVars
      /\ UNCHANGED <<status, session, flow, stopping, handle, quit, doubled, late>>
      /\ {quit', doubled', late'} \subseteq BOOLEAN
  BY <1>1 DEF SaveReplay, histVars, RendTypeOK, BufferInv
<1>3. PICK r \in Rec : r = buf[b].active /\ r # None
  BY <1>1, <1>2 DEF BufOK, Bufs
<1>4. StopMedia(r) /\ buf' = [buf EXCEPT ![b].save = "draining", ![b].saved = r]
  BY <1>3 DEF SaveReplay
<1>5. media[r] \notin Unused
  BY <1>1, <1>2, <1>3 DEF BegunInv
<1>6. /\ MediaMoves /\ media'[r] \in Halted
      /\ media' \in [Rec -> Media] /\ pending' \in [Rec -> BOOLEAN]
  BY <1>2, <1>4, <1>5, StopMediaHalts, HaltMoves DEF IInv
<1> DEFINE g == [buf[b] EXCEPT !.save = "draining", !.saved = r]
<1>7. g \in Bufs
  BY <1>1 DEF Bufs
<1>8. /\ g.start = buf[b].start /\ g.active = buf[b].active /\ g.save = "draining" /\ g.saved = r
      /\ g.stop = buf[b].stop
  BY <1>1 DEF Bufs
<1>9. buf' = [buf EXCEPT ![b] = g]
  BY <1>1, <1>4 DEF RendTypeOK, Bufs
<1> HIDE DEF g
<1>10. BufCalm(b, g)
  BY <1>1, <1>2, <1>3, <1>6, <1>7, <1>8, <1>9 DEF BufCalm, BufOK
<1> QED BY <1>2, <1>6, <1>10, BufMedia

\* A replay buffer is stopped.
LEMMA StopReplayKeeps ==
  ASSUME IInv, NEW b \in Buf, StopReplay(b)
  PROVE  IInv'
<1>1. RendTypeOK /\ BufferInv /\ BegunInv /\ buf[b] \in Bufs /\ BufOK(buf[b])
  BY DEF IInv, RendInv, RendTypeOK, BufferInv
<1>2. /\ buf[b].start = "up" /\ UNCHANGED mainVars
      /\ UNCHANGED <<status, session, flow, stopping, handle, quit, doubled, late>>
      /\ {quit', doubled', late'} \subseteq BOOLEAN
  BY <1>1 DEF StopReplay, histVars, RendTypeOK
<1>3. PICK r \in Rec : r = buf[b].active /\ r # None
  BY <1>1, <1>2 DEF BufOK, Bufs
<1>4. media' = [media EXCEPT ![r] = "off"] /\ UNCHANGED pending
  BY <1>3 DEF StopReplay
<1>5. PICK lost \in BOOLEAN :
        buf' = [buf EXCEPT ![b].stopped = TRUE, ![b].stop = "draining", ![b].lost = lost]
  BY DEF StopReplay
<1>6. media[r] \notin Unused
  BY <1>1, <1>2, <1>3 DEF BegunInv
<1>7. MediaMoves /\ media' \in [Rec -> Media] /\ pending' \in [Rec -> BOOLEAN]
  BY <1>2, <1>4, <1>6, HaltMoves DEF IInv, Halts, Halted
<1> DEFINE g == [buf[b] EXCEPT !.stopped = TRUE, !.stop = "draining", !.lost = lost]
<1>8. g \in Bufs
  BY <1>1 DEF Bufs
<1>9. /\ g.start = buf[b].start /\ g.active = buf[b].active /\ g.save = buf[b].save
      /\ g.saved = buf[b].saved /\ g.stop = "draining"
  BY <1>1 DEF Bufs
<1>10. buf' = [buf EXCEPT ![b] = g]
  BY <1>1, <1>5 DEF RendTypeOK, Bufs
<1> HIDE DEF g
<1>11. BufCalm(b, g)
  BY <1>1, <1>2, <1>8, <1>9, <1>10 DEF BufCalm, BufOK
<1> QED BY <1>2, <1>7, <1>11, BufMedia

\* A stopped buffer cancels the recording it has by then.
LEMMA StopDrainedKeeps ==
  ASSUME IInv, NEW b \in Buf, StopDrained(b)
  PROVE  IInv'
<1>1. RendTypeOK /\ BufferInv /\ buf[b] \in Bufs /\ BufOK(buf[b])
  BY DEF IInv, RendInv, RendTypeOK, BufferInv
<1>2. /\ buf[b].stop = "draining" /\ UNCHANGED <<ffmpeg, crossed, handle, quit, doubled, late>>
      /\ UNCHANGED rendVars /\ {quit', doubled', late'} \subseteq BOOLEAN
  BY <1>1 DEF StopDrained, histVars, RendTypeOK
<1>3. buf[b].start = "up"
  BY <1>1, <1>2 DEF BufOK
<1>4. PICK r \in Rec : r = buf[b].active
  BY <1>1, <1>3 DEF BufOK, Bufs
<1>5. Cancel(r) /\ buf' = [buf EXCEPT ![b].stop = "cancelling"]
  BY <1>4 DEF StopDrained
<1>6. Evolves /\ NoneCloses /\ KeepsHoled
  BY <1>5, CancelEvolves DEF IInv
<1> DEFINE g == [buf[b] EXCEPT !.stop = "cancelling"]
<1>7. g \in Bufs
  BY <1>1 DEF Bufs
<1>8. /\ g.start = buf[b].start /\ g.active = buf[b].active /\ g.save = buf[b].save
      /\ g.saved = buf[b].saved /\ g.stop = "cancelling"
  BY <1>1 DEF Bufs
<1>9. buf' = [buf EXCEPT ![b] = g]
  BY <1>1, <1>5 DEF RendTypeOK
<1> HIDE DEF g
<1>10. BufCalm(b, g)
  BY <1>1, <1>2, <1>3, <1>7, <1>8, <1>9 DEF BufCalm, BufOK
<1> QED BY <1>2, <1>6, <1>10, BufMain

\* Its tracks have ended.
LEMMA StopCleanedKeeps ==
  ASSUME IInv, NEW b \in Buf, StopCleaned(b)
  PROVE  IInv'
<1>1. RendTypeOK /\ BufferInv /\ BegunInv /\ MediaInv /\ buf[b] \in Bufs /\ BufOK(buf[b])
  BY DEF IInv, RendInv, RendTypeOK, BufferInv
<1>2. /\ buf[b].stop = "cancelling" /\ handle' = None /\ UNCHANGED mainVars
      /\ UNCHANGED <<status, session, flow, stopping, pending, quit, doubled, late>>
      /\ {quit', doubled', late'} \subseteq BOOLEAN
  BY <1>1 DEF StopCleaned, histVars, RendTypeOK
<1>3. buf[b].start = "up"
  BY <1>1, <1>2 DEF BufOK
<1>4. PICK r \in Rec : r = buf[b].active /\ r # None
  BY <1>1, <1>3 DEF BufOK, Bufs
<1>5. media' = [media EXCEPT ![r] = "off"] /\ buf' = [buf EXCEPT ![b].stop = "over"]
  BY <1>4 DEF StopCleaned
<1>6. media[r] \notin Unused
  BY <1>1, <1>3, <1>4 DEF BegunInv
<1>7. Halts(r)
  BY <1>2, <1>5 DEF Halts, Halted
<1>8. MediaMoves /\ media' \in [Rec -> Media] /\ pending' \in [Rec -> BOOLEAN]
  BY <1>2, <1>6, <1>7, HaltMoves DEF IInv
<1> DEFINE g == [buf[b] EXCEPT !.stop = "over"]
<1>9. g \in Bufs
  BY <1>1 DEF Bufs
<1>10. /\ g.start = buf[b].start /\ g.active = buf[b].active /\ g.save = buf[b].save
       /\ g.saved = buf[b].saved /\ g.stop = "over"
  BY <1>1 DEF Bufs
<1>11. buf' = [buf EXCEPT ![b] = g]
  BY <1>1, <1>5 DEF RendTypeOK
<1> HIDE DEF g
<1>12. BufCalm(b, g)
  <2>1. b # None
    BY DEF Buf, None
  <2> QED BY <1>1, <1>2, <1>3, <1>9, <1>10, <1>11, <2>1 DEF BufCalm, BufOK
<1> QED BY <1>2, <1>8, <1>12, BufMedia

\* The chunks of a saved replay are drained: it is finalized, or cancelled with its window.
LEMMA SaveDrainedKeeps ==
  ASSUME IInv, NEW b \in Buf, SaveDrained(b)
  PROVE  IInv'
<1>1. RendTypeOK /\ BufferInv /\ BegunInv /\ buf[b] \in Bufs /\ BufOK(buf[b])
  BY DEF IInv, RendInv, RendTypeOK, BufferInv
<1>2. /\ buf[b].save = "draining" /\ UNCHANGED <<ffmpeg, crossed, handle, quit, doubled, late>>
      /\ UNCHANGED rendVars /\ {quit', doubled', late'} \subseteq BOOLEAN
  BY <1>1 DEF SaveDrained, histVars, RendTypeOK
<1>3. buf[b].start = "up"
  BY <1>1, <1>2 DEF BufOK
<1>4. PICK r \in Rec : r = buf[b].saved /\ r # None
  BY <1>1, <1>2 DEF BufOK, Bufs
<1>5. CASE buf[b].lost
  <2> DEFINE g == [buf[b] EXCEPT !.save = "none", !.saved = None]
  <2>1. Cancel(r) /\ buf' = [buf EXCEPT ![b].save = "none", ![b].saved = None]
    BY <1>4, <1>5 DEF SaveDrained
  <2>2. Evolves /\ NoneCloses /\ KeepsHoled
    BY <2>1, CancelEvolves DEF IInv
  <2>3. g \in Bufs
    BY <1>1 DEF Bufs
  <2>4. /\ g.start = buf[b].start /\ g.active = buf[b].active /\ g.save = "none"
        /\ g.saved = None /\ g.stop = buf[b].stop
    BY <1>1 DEF Bufs
  <2>5. buf' = [buf EXCEPT ![b] = g]
    BY <1>1, <2>1 DEF RendTypeOK, Bufs
  <2> HIDE DEF g
  <2>6. BufCalm(b, g)
    BY <1>1, <1>2, <1>3, <2>3, <2>4, <2>5 DEF BufCalm, BufOK
  <2> QED BY <1>2, <2>2, <2>6, BufMain
<1>6. CASE ~buf[b].lost
  <2> DEFINE g == [buf[b] EXCEPT !.save = "finalizing"]
  <2>1. ~pending[r] /\ Finalize(r) /\ buf' = [buf EXCEPT ![b].save = "finalizing"]
    BY <1>4, <1>6 DEF SaveDrained
  <2>2. media[r] \in Halted
    BY <1>1, <1>2, <1>4 DEF BegunInv
  <2>3. g \in Bufs
    BY <1>1 DEF Bufs
  <2>4. /\ g.start = buf[b].start /\ g.active = buf[b].active /\ g.save = "finalizing"
        /\ g.saved = buf[b].saved /\ g.stop = buf[b].stop
    BY <1>1 DEF Bufs
  <2>5. buf' = [buf EXCEPT ![b] = g]
    BY <1>1, <2>1 DEF RendTypeOK
  <2> HIDE DEF g
  <2>6. BufCalm(b, g)
    BY <1>1, <1>2, <1>3, <2>3, <2>4, <2>5 DEF BufCalm, BufOK
  <2>7. UNCHANGED <<status, session, flow, stopping, media, pending>>
    BY <1>2 DEF rendVars
  <2>8. MediaMoves
    BY <2>7, MediaStays DEF IInv
  <2>9. MainInv' /\ ChunksKept' /\ VolumeInv' /\ RecsKept /\ QuietInv'
    BY <1>2, <2>1, <2>2, <2>8, FinalizeQuiet
  <2>10. media' \in [Rec -> Media] /\ pending' \in [Rec -> BOOLEAN]
    BY <1>1, <2>7 DEF RendTypeOK
  <2>11. RendInv'
    BY <1>2, <2>6, <2>7, <2>8, <2>9, <2>10, BufCalmKeepsRend
  <2> QED BY <2>9, <2>11 DEF IInv
<1> QED BY <1>5, <1>6

\* It is saved: a buffer that was not stopped begins its next recording.
LEMMA SaveFinalizedKeeps ==
  ASSUME IInv, NEW b \in Buf, SaveFinalized(b)
  PROVE  IInv'
<1>1. RendTypeOK /\ BufferInv /\ buf[b] \in Bufs /\ BufOK(buf[b])
  BY DEF IInv, RendInv, RendTypeOK, BufferInv
<1>2. /\ buf[b].save = "finalizing" /\ UNCHANGED rendVars
      /\ UNCHANGED <<handle, quit, doubled, late>> /\ {quit', doubled', late'} \subseteq BOOLEAN
  BY <1>1 DEF SaveFinalized, histVars, RendTypeOK
<1>3. buf[b].start = "up" /\ buf[b].active # None
  BY <1>1, <1>2 DEF BufOK
<1>4. CASE buf' = [buf EXCEPT ![b].save = "none", ![b].saved = None] /\ UNCHANGED mainVars
  <2> DEFINE g == [buf[b] EXCEPT !.save = "none", !.saved = None]
  <2>1. g \in Bufs
    BY <1>1 DEF Bufs
  <2>2. /\ g.start = buf[b].start /\ g.active = buf[b].active /\ g.save = "none"
        /\ g.saved = None /\ g.stop = buf[b].stop
    BY <1>1 DEF Bufs
  <2>3. buf' = [buf EXCEPT ![b] = g]
    BY <1>1, <1>4 DEF RendTypeOK, Bufs
  <2> HIDE DEF g
  <2>4. BufCalm(b, g)
    BY <1>1, <1>2, <1>3, <2>1, <2>2, <2>3 DEF BufCalm, BufOK
  <2> QED BY <1>2, <1>4, <2>4, BufAlone
<1>5. ASSUME NEW r \in Rec, Begin(r, TRUE),
             buf' = [buf EXCEPT ![b].save = "beginning", ![b].saved = r]
      PROVE  IInv'
  <2> DEFINE g == [buf[b] EXCEPT !.save = "beginning", !.saved = r]
  <2>1. g \in Bufs
    BY <1>1 DEF Bufs
  <2>2. /\ g.start = buf[b].start /\ g.active = buf[b].active /\ g.save = "beginning"
        /\ g.saved = r /\ g.stop = buf[b].stop
    BY <1>1 DEF Bufs
  <2>3. buf' = [buf EXCEPT ![b] = g]
    BY <1>1, <1>5 DEF RendTypeOK, Bufs
  <2> HIDE DEF g
  <2>4. BufOK(g)
    BY <1>1, <1>3, <2>2, MaxRecAssumption DEF BufOK, Rec, None
  <2> QED BY <1>2, <1>3, <1>5, <2>1, <2>2, <2>3, <2>4, BufBegins
<1> QED BY <1>4, <1>5 DEF SaveFinalized

\* The next recording of a replay buffer has begun, or has thrown.
LEMMA SaveBegunKeeps ==
  ASSUME IInv, NEW b \in Buf, SaveBegun(b)
  PROVE  IInv'
<1>1. RendTypeOK /\ BufferInv /\ OwnerInv /\ MediaInv /\ buf[b] \in Bufs /\ BufOK(buf[b])
  BY DEF IInv, RendInv, RendTypeOK, BufferInv
<1>2. /\ buf[b].save = "beginning"
      /\ UNCHANGED <<status, session, flow, stopping, pending, handle, quit, doubled>>
      /\ {quit', doubled', late'} \subseteq BOOLEAN
  BY <1>1 DEF SaveBegun, RendTypeOK
<1>3. buf[b].start = "up" /\ buf[b].active # None
  BY <1>1, <1>2 DEF BufOK
<1>4. PICK r \in Rec : r = buf[b].saved /\ r # None
  BY <1>1, <1>2 DEF BufOK, Bufs
<1>5. CASE /\ buf' = [buf EXCEPT ![b].save = "none", ![b].saved = None, ![b].active = r]
           /\ media' = [media EXCEPT ![r] = "on"] /\ rec[r].answer = "begun"
           /\ UNCHANGED mainVars
  <2> DEFINE g == [buf[b] EXCEPT !.save = "none", !.saved = None, !.active = r]
  <2>1. g \in Bufs
    BY <1>1 DEF Bufs
  <2>2. /\ g.start = "up" /\ g.active = r /\ g.save = "none" /\ g.saved = None
        /\ g.stop = buf[b].stop
    BY <1>1, <1>3 DEF Bufs
  <2>3. buf' = [buf EXCEPT ![b] = g]
    BY <1>1, <1>5 DEF RendTypeOK, Bufs
  <2> HIDE DEF g
  <2>4. media'[r] = "on" /\ \A q \in Rec \ {r} : media'[q] = media[q]
    BY <1>1, <1>5 DEF RendTypeOK
  <2>5. BufCalm(b, g)
    BY <1>2, <1>4, <2>1, <2>2, <2>3, <2>4 DEF BufCalm, BufOK, Unused
  <2>6. SaveOf(b) = r
    BY <1>2, <1>4 DEF SaveOf
  <2>7. media[r] = "none"
    BY <1>1, <2>6 DEF MediaInv, Starting
  <2>8. ~Starting(r)'
    <3>1. /\ \A c \in Buf \ {b} : StartOf(c)' = StartOf(c) /\ SaveOf(c)' = SaveOf(c)
          /\ StartOf(b)' = IF g.start = "beginning" THEN g.active ELSE None
          /\ SaveOf(b)' = IF g.save = "beginning" THEN g.saved ELSE None
      BY <1>1, <2>1, <2>3, BufUpdate
    <3>2. \A j \in Flow : flow'[j].rec # r
      BY <1>1, <1>2, <1>4, <2>6 DEF OwnerInv
    <3>3. \A c \in Buf : StartOf(c)' # r /\ SaveOf(c)' # r
      BY <1>1, <1>4, <2>2, <2>6, <3>1 DEF OwnerInv
    <3> QED BY <3>2, <3>3 DEF Starting
  <2>9. MediaMoves
    BY <1>1, <1>2, <1>5, <2>4, <2>7, <2>8 DEF MediaMoves, MediaInv, Unused, Halted
  <2>10. media' \in [Rec -> Media] /\ pending' \in [Rec -> BOOLEAN]
    BY <1>1, <1>2, <1>5 DEF RendTypeOK, Media
  <2> QED BY <1>2, <1>5, <2>5, <2>9, <2>10, BufMedia
<1>6. CASE /\ Cancel(r)
           /\ buf' = [buf EXCEPT ![b].save = "none", ![b].saved = None, ![b].stopped = TRUE]
           /\ UNCHANGED <<ffmpeg, crossed, media, late>>
  <2> DEFINE g == [buf[b] EXCEPT !.save = "none", !.saved = None, !.stopped = TRUE]
  <2>1. g \in Bufs
    BY <1>1 DEF Bufs
  <2>2. /\ g.start = "up" /\ g.active = buf[b].active /\ g.save = "none" /\ g.saved = None
        /\ g.stop = buf[b].stop
    BY <1>1, <1>3 DEF Bufs
  <2>3. buf' = [buf EXCEPT ![b] = g]
    BY <1>1, <1>6 DEF RendTypeOK, Bufs
  <2> HIDE DEF g
  <2>4. BufCalm(b, g)
    BY <1>2, <1>3, <2>1, <2>2, <2>3 DEF BufCalm, BufOK
  <2>5. Evolves /\ NoneCloses /\ KeepsHoled
    BY <1>6, CancelEvolves DEF IInv
  <2>6. UNCHANGED rendVars
    BY <1>2, <1>6 DEF rendVars
  <2> QED BY <1>2, <1>6, <2>4, <2>5, <2>6, BufMain
<1>7. CASE /\ buf' = [buf EXCEPT ![b].save = "none", ![b].saved = None, ![b].stopped = TRUE]
           /\ UNCHANGED mainVars /\ UNCHANGED <<media, late>>
  <2> DEFINE g == [buf[b] EXCEPT !.save = "none", !.saved = None, !.stopped = TRUE]
  <2>1. g \in Bufs
    BY <1>1 DEF Bufs
  <2>2. /\ g.start = "up" /\ g.active = buf[b].active /\ g.save = "none" /\ g.saved = None
        /\ g.stop = buf[b].stop
    BY <1>1, <1>3 DEF Bufs
  <2>3. buf' = [buf EXCEPT ![b] = g]
    BY <1>1, <1>7 DEF RendTypeOK, Bufs
  <2> HIDE DEF g
  <2>4. BufCalm(b, g)
    BY <1>2, <1>3, <2>1, <2>2, <2>3 DEF BufCalm, BufOK
  <2>5. UNCHANGED rendVars
    BY <1>2, <1>7 DEF rendVars
  <2> QED BY <1>2, <1>7, <2>4, <2>5, BufAlone
<1> QED BY <1>4, <1>5, <1>6, <1>7 DEF SaveBegun

-----------------------------------------------------------------------------
(* The invariant is inductive *)

\* Main moves by itself.
LEMMA MainAlone ==
  ASSUME IInv, Evolves, NoneCloses, KeepsHoled, UNCHANGED <<ffmpeg, crossed>>,
         UNCHANGED rendVars, UNCHANGED bufVars, {quit', doubled', late'} \subseteq BOOLEAN
  PROVE  IInv'
<1>1. MainInv' /\ ChunksKept' /\ VolumeInv'
  BY MainEvolves
<1>2. UNCHANGED <<status, session, flow, stopping, media, pending, buf, handle>>
  BY DEF rendVars, bufVars
<1>3. pending' \in [Rec -> BOOLEAN] /\ \A q \in Rec : pending'[q] => pending[q]
  BY <1>2 DEF IInv, RendInv, RendTypeOK
<1>4. RendInv'
  BY <1>2, <1>3, MainKeepsRend DEF IInv
<1> QED BY <1>1, <1>4 DEF IInv

\* A step of main that nobody calls.
LEMMA MainKeeps ==
  ASSUME IInv, NEW r \in Rec, Main(r)
  PROVE  IInv'
<1>1. MainStep(r) /\ UNCHANGED rendVars /\ UNCHANGED bufVars /\ UNCHANGED <<quit, doubled, late>>
  BY DEF Main, histVars
<1>2. {quit', doubled', late'} \subseteq BOOLEAN
  BY <1>1 DEF IInv, RendInv, RendTypeOK
<1>3. MainInv
  BY DEF IInv
<1>4. Evolves /\ NoneCloses /\ KeepsHoled /\ UNCHANGED <<ffmpeg, crossed>>
  <2>1. CASE BeginVerified(r)
    <3>1. UNCHANGED <<ffmpeg, crossed>>
      BY <2>1 DEF BeginVerified
    <3> QED BY <1>3, <2>1, <3>1, VerifiedEvolves
  <2>2. CASE BeginRefused(r)
    <3>1. UNCHANGED <<ffmpeg, crossed>>
      BY <2>2 DEF BeginRefused
    <3> QED BY <1>3, <2>2, <3>1, RefusedEvolves
  <2>3. CASE SidecarDrained(r)
    <3>1. UNCHANGED <<ffmpeg, crossed>>
      BY <2>3 DEF SidecarDrained
    <3> QED BY <1>3, <2>3, <3>1, DrainedEvolves
  <2>4. CASE DurationProbed(r)
    <3>1. UNCHANGED <<ffmpeg, crossed>>
      BY <2>4 DEF DurationProbed
    <3> QED BY <1>3, <2>4, <3>1, ProbedEvolves
  <2>5. CASE Encoded(r)
    <3>1. UNCHANGED <<ffmpeg, crossed>>
      BY <2>5 DEF Encoded
    <3> QED BY <1>3, <2>5, <3>1, EncodedEvolves
  <2> QED BY <1>1, <2>1, <2>2, <2>3, <2>4, <2>5 DEF MainStep
<1> QED BY <1>1, <1>2, <1>4, MainAlone

\* A sidecar dies.
LEMMA SidecarFailsKeeps ==
  ASSUME IInv, SidecarFails
  PROVE  IInv'
<1>1. PICK r \in Rec : SidecarDies(r)
  BY DEF SidecarFails
<1>2. /\ UNCHANGED rendVars /\ UNCHANGED bufVars /\ UNCHANGED <<quit, doubled, late>>
      /\ UNCHANGED <<ffmpeg, crossed>>
  BY <1>1 DEF SidecarFails, SidecarDies, histVars
<1>3. {quit', doubled', late'} \subseteq BOOLEAN
  BY <1>2 DEF IInv, RendInv, RendTypeOK
<1>4. Evolves /\ NoneCloses /\ KeepsHoled
  BY <1>1, DiesEvolves DEF IInv
<1> QED BY <1>2, <1>3, <1>4, MainAlone

\* The app quits.
LEMMA QuitKeeps ==
  ASSUME IInv, Quit
  PROVE  IInv'
<1>1. /\ CancelAll /\ quit' = TRUE /\ UNCHANGED <<doubled, late>>
      /\ UNCHANGED rendVars /\ UNCHANGED bufVars /\ UNCHANGED <<ffmpeg, crossed>>
  BY DEF Quit
<1>2. {quit', doubled', late'} \subseteq BOOLEAN
  BY <1>1 DEF IInv, RendInv, RendTypeOK
<1>3. Evolves /\ NoneCloses /\ KeepsHoled
  BY <1>1, CancelAllEvolves DEF IInv
<1> QED BY <1>1, <1>2, <1>3, MainAlone

\* It holds at first.
LEMMA InitHolds ==
  ASSUME Init
  PROVE  IInv
<1> USE MaxRecAssumption, RendererAssumption
<1>1. /\ ffmpeg \in BOOLEAN /\ rec = [r \in Rec |-> Fresh] /\ sessions = {}
      /\ file = [d \in Fd |-> None] /\ volume = "user" /\ torn = FALSE /\ crossed = FALSE
  BY DEF Init, MainInit
<1>2. Fresh \in Recordings
  BY DEF Fresh, Recordings, Volumes
<1>3. MainTypeOK
  BY <1>1, <1>2 DEF MainTypeOK, Volumes
<1>4. RecordInv
  <2>1. RecordOK(Fresh, FALSE)
    BY DEF RecordOK, Fresh
  <2>2. ASSUME NEW r \in Rec
        PROVE  RecordOK(rec[r], r \in sessions)
    <3>1. rec[r] = Fresh /\ (r \in sessions) = FALSE
      BY <1>1
    <3> QED BY <2>1, <3>1, Zenon
  <2> QED BY <2>2, Zenon DEF RecordInv
<1>5. FileInv
  BY <1>1 DEF FileInv
<1>6. ChunksKept /\ VolumeInv
  BY <1>1 DEF ChunksKept, VolumeInv, Fresh
<1>7. /\ status = "idle" /\ session = None /\ flow = [i \in Flow |-> NoFlow]
      /\ stopping = [r \in Rec |-> "none"] /\ media = [r \in Rec |-> "none"]
      /\ pending = [r \in Rec |-> FALSE] /\ buf = [b \in Buf |-> NoBuf] /\ handle = None
      /\ quit = FALSE /\ doubled = FALSE /\ late = FALSE
  BY DEF Init
<1>8. \A i \in Flow : flow[i].rec = None /\ flow[i].pc = "none"
  BY <1>7 DEF NoFlow
<1>9. \A b \in Buf : /\ buf[b].start = "none" /\ buf[b].active = None /\ buf[b].save = "none"
                     /\ buf[b].saved = None /\ buf[b].stop = "none"
                     /\ StartOf(b) = None /\ SaveOf(b) = None
  BY <1>7 DEF NoBuf, StartOf, SaveOf
<1>10. RendTypeOK
  <2>1. NoFlow \in Flows /\ NoBuf \in Bufs
    BY DEF NoFlow, Flows, NoBuf, Bufs
  <2> QED BY <1>7, <2>1 DEF RendTypeOK, Media
<1>11. OwnerInv
  BY <1>8, <1>9 DEF OwnerInv
<1>12. BufferInv
  BY <1>7, <1>8, <1>9 DEF BufferInv, BufOK, Buf, None
<1>13. MediaInv
  BY <1>7 DEF MediaInv, Rec, None
<1>14. BegunInv /\ QuietInv
  BY <1>1, <1>8, <1>9 DEF BegunInv, QuietInv
<1> QED BY <1>3, <1>4, <1>5, <1>6, <1>10, <1>11, <1>12, <1>13, <1>14 DEF IInv, MainInv, RendInv

\* Every step keeps it.
LEMMA NextHolds ==
  ASSUME IInv, [Next]_vars
  PROVE  IInv'
<1>1. CASE UNCHANGED vars
  <2>1. UNCHANGED mainVars /\ UNCHANGED rendVars /\ UNCHANGED bufVars /\ UNCHANGED <<quit, doubled, late>>
    BY <1>1 DEF vars, histVars
  <2>2. {quit', doubled', late'} \subseteq BOOLEAN
    BY <2>1 DEF IInv, RendInv, RendTypeOK
  <2>3. Evolves /\ NoneCloses /\ KeepsHoled /\ UNCHANGED <<ffmpeg, crossed>>
    BY <2>1, IdleEvolves DEF IInv, mainVars
  <2> QED BY <2>1, <2>2, <2>3, MainAlone
<1>2. ASSUME NEW i \in Flow, ClickRecord(i) \/ FlowStep(i)
      PROVE  IInv'
  BY <1>2, ClickRecordKeeps, PrepareKeeps, AcquiredKeeps, StartedKeeps DEF FlowStep
<1>3. ASSUME NEW r \in Rec, Main(r) \/ Chunk(r) \/ WriteChunk(r) \/ LastChunk(r) \/ LateChunk(r)
                           \/ TracksEnd(r) \/ StopStep(r)
      PROVE  IInv'
  BY <1>3, MainKeeps, ChunkKeeps, WriteChunkKeeps, LastChunkKeeps, LateChunkKeeps, TracksEndKeeps,
     DrainedKeeps, FinalizedKeeps DEF StopStep
<1>4. CASE StopFlow
  BY <1>4, StopFlowKeeps
<1>5. ASSUME NEW b \in Buf, StartReplay(b) \/ SaveReplay(b) \/ StopReplay(b)
      PROVE  IInv'
  BY <1>5, StartReplayKeeps, SaveReplayKeeps, StopReplayKeeps
<1>6. ASSUME NEW b \in Buf, ReplayStep(b)
      PROVE  IInv'
  BY <1>6, ReplayAcquiredKeeps, ReplayBegunKeeps, SaveDrainedKeeps, SaveFinalizedKeeps,
     SaveBegunKeeps, StopDrainedKeeps, StopCleanedKeeps DEF ReplayStep
<1>7. CASE SidecarFails
  BY <1>7, SidecarFailsKeeps
<1>8. CASE Quit
  BY <1>8, QuitKeeps
<1> QED BY <1>1, <1>2, <1>3, <1>4, <1>5, <1>6, <1>7, <1>8 DEF Next

\* So it holds always.
LEMMA Inductive == Spec => []IInv
BY InitHolds, NextHolds, PTL DEF Spec

-----------------------------------------------------------------------------
(* What it gives *)

\* Every variable of main and of the renderer has its type, whatever the bounds: no step writes a
\* field of a recording, of a flow or of a replay buffer that is not one.
THEOREM TypeCorrect == Spec => []TypeOK
<1>1. IInv => TypeOK
  BY DEF IInv, MainInv, MainTypeOK, RendInv, RendTypeOK, TypeOK
<1> QED BY <1>1, Inductive, PTL

\* What a finalize answers (src/electron/recorder.ts) is not the end of the footage: unless it was
\* cancelled, the output or the temp file is there, and as long as no close has hit the descriptor
\* of another recording, it lacks no chunk but one whose write has failed or one that a recorder
\* that had ended by itself sent too late.
THEOREM FootageIsSafe == Spec => []FootageSafe
<1>1. IInv => FootageSafe
  <2> SUFFICES ASSUME IInv, NEW r \in Rec
               PROVE  /\ rec[r].answer \in {"saved", "failed", "rejected"} /\ rec[r].job \in {"over", "stuck"}
                           => rec[r].cancelled \/ rec[r].temp \/ rec[r].output
                      /\ rec[r].job = "encoding" \/ rec[r].output => torn \/ ~rec[r].holed
    BY DEF FootageSafe
  <2>1. RecordOK(rec[r], r \in sessions)
    BY DEF IInv, MainInv, RecordInv
  <2> QED BY <2>1 DEF RecordOK, IInv, ChunksKept
<1> QED BY <1>1, Inductive, PTL

\* The monitor source (src/electron/recorder.ts) has the volume of the user whenever no recording
\* holds it, unless two recordings have held it together.
THEOREM VolumeIsRestored == Spec => []VolumeRestored
<1>1. IInv => VolumeRestored
  BY DEF IInv, VolumeInv, VolumeRestored
<1> QED BY <1>1, Inductive, PTL

-----------------------------------------------------------------------------
(* Who ends a recording *)

Live(s)   == s.job \in {"verifying", "open"}
Closed(s) == s.job \notin {"none", "verifying", "open"}

\* A recording that was finalized is closed; a save is of the recording that is active, and begins
\* the next one only when that is closed.
EndInv ==
  /\ \A r \in Rec : stopping[r] = "finalizing" => Closed(rec[r])
  /\ \A b \in Buf : /\ buf[b].save \in {"draining", "finalizing"} => buf[b].saved = buf[b].active
                    /\ buf[b].save \in {"finalizing", "beginning"} => Closed(rec[buf[b].active])

\* At most one flow is under way, and the status tells where it is.
StatusInv ==
  /\ \A i, j \in Flow : flow[i].pc # "none" /\ flow[j].pc # "none" => i = j
  /\ \A r, q \in Rec : stopping[r] # "none" /\ stopping[q] # "none" => r = q
  /\ status = "recording" <=> session # None
  /\ status = "preparing" <=> \E i \in Flow : flow[i].pc \in {"acquiring", "beginning"}
  /\ status = "finalizing" <=> \E r \in Rec : stopping[r] # "none"
  /\ \A i \in Flow : flow[i].pc = "asking" => status = "idle"

\* A recording that takes chunks, or awaits the first answer, is somebody's to end, unless its
\* MediaRecorder has failed to start.
HeldInv == \A r \in Rec : Live(rec[r]) /\ media[r] # "dead" => Tended(r)

Raced == doubled \/ late

OrphanInv == EndInv /\ (Raced \/ (StatusInv /\ HeldInv))

\* A MediaRecorder that has failed to start never does.
DeadStays == \A q \in Rec : media[q] = "dead" => media'[q] = "dead"

\* The histories are kept, a closed recording stays closed, and only n may come to life.
Ends(n) ==
  /\ (doubled => doubled') /\ (late => late') /\ DeadStays
  /\ \A q \in Rec : /\ Closed(rec[q]) => Closed(rec'[q])
                    /\ Live(rec'[q]) => Live(rec[q]) \/ q = n

\* A step of main on recordings that have begun brings none to life.
LEMMA EvolvesEnds ==
  ASSUME Evolves, DeadStays, doubled => doubled', late => late', NEW n
  PROVE  Ends(n)
BY DEF Evolves, Moves, Ends, Live, Closed

\* A begin brings one to life.
LEMMA BeginEnds ==
  ASSUME NEW r \in Rec, NEW replay, Begins(r, replay), DeadStays,
         doubled => doubled', late => late'
  PROVE  Ends(r)
BY DEF Begins, Ends, Live, Closed

\* MediaRecorder runs only for a recording that has begun.
LEMMA RunningBegun ==
  ASSUME IInv, NEW r \in Rec, media[r] # "none"
  PROVE  rec[r].answer \notin {"none", "threw"} /\ rec[r].job \notin {"none", "verifying"}
<1>1. rec[r].answer \notin {"none", "threw"}
  BY DEF IInv, RendInv, MediaInv
<1>2. RecordOK(rec[r], r \in sessions)
  BY DEF IInv, MainInv, RecordInv
<1> QED BY <1>1, <1>2 DEF RecordOK

\* A recording that has begun is closed once it is out of the map.
LEMMA UnlistedCloses ==
  ASSUME NEW r \in Rec, MainInv', RecsKept, rec[r].answer \notin {"none", "threw"},
         r \notin sessions' \/ rec'[r].job # "open"
  PROVE  Closed(rec'[r])
<1>1. RecordOK(rec'[r], r \in sessions')
  BY DEF MainInv, RecordInv
<1>2. rec'[r].answer \notin {"none", "threw"}
  BY DEF RecsKept
<1> QED BY <1>1, <1>2 DEF RecordOK, Closed

\* So is one that was cancelled.
LEMMA CancelCloses ==
  ASSUME IInv, NEW r \in Rec, Cancel(r), MainInv', rec[r].answer \notin {"none", "threw"}
  PROVE  Closed(rec'[r])
<1>1. RecsKept
  BY CancelEvolves, EvolvesKeepsRecs DEF IInv
<1>2. r \notin sessions'
  BY DEF Cancel
<1> QED BY <1>1, <1>2, UnlistedCloses

\* The one who is to end a recording stays the same.
LEMMA SameOwners ==
  ASSUME OrphanInv, Ends(None), RendTypeOK, RendTypeOK', BufferInv,
         UNCHANGED <<status, session, flow, stopping, buf>>
  PROVE  OrphanInv'
<1>1. EndInv'
  <2>1. \A r \in Rec : stopping'[r] = "finalizing" => Closed(rec'[r])
    BY DEF OrphanInv, EndInv, Ends
  <2>2. ASSUME NEW b \in Buf
        PROVE  /\ buf'[b].save \in {"draining", "finalizing"} => buf'[b].saved = buf'[b].active
               /\ buf'[b].save \in {"finalizing", "beginning"} => Closed(rec'[buf'[b].active])
    <3>1. buf[b].save # "none" => buf[b].active \in Rec
      BY DEF RendTypeOK, Bufs, BufferInv, BufOK
    <3> QED BY <3>1 DEF OrphanInv, EndInv, Ends
  <2> QED BY <2>1, <2>2 DEF EndInv
<1>2. Raced => Raced'
  BY DEF Raced, Ends
<1>3. StatusInv => StatusInv'
  BY DEF StatusInv
<1>4. HeldInv => HeldInv'
  <2>1. \A q \in Rec : q # None
    BY MaxRecAssumption DEF Rec, None
  <2>2. \A q \in Rec : Tended(q) => Tended(q)'
    BY DEF Tended
  <2> QED BY <2>1, <2>2 DEF HeldInv, Ends, DeadStays
<1> QED BY <1>1, <1>2, <1>3, <1>4 DEF OrphanInv

\* What a replay buffer has to end.
BufHolds(h, q) == (h.active = q /\ h.stop \notin {"cancelling", "over"}) \/ h.saved = q

\* Who tends a recording, with the replay buffers apart.
LEMMA TendedBy ==
  ASSUME NEW q \in Rec
  PROVE  Tended(q) <=> \/ session = q \/ stopping[q] # "none" \/ \E i \in Flow : flow[i].rec = q
                       \/ \E b \in Buf : BufHolds(buf[b], q)
BY DEF Tended, BufHolds

\* A step of a replay buffer leaves no recording without an owner.
BufEnds(b, g) ==
  /\ buf' = [buf EXCEPT ![b] = g]
  /\ g.save \in {"draining", "finalizing"} => g.saved = g.active
  /\ g.save \in {"finalizing", "beginning"} => Closed(rec'[g.active])
  /\ late' \/ \A q \in Rec : BufHolds(buf[b], q) => BufHolds(g, q) \/ ~Live(rec'[q])

\* Such a step keeps the invariant, if the recording it begins is its own.
LEMMA BufOrphan ==
  ASSUME IInv, OrphanInv, NEW b \in Buf, NEW g \in Bufs, NEW n, BufEnds(b, g), Ends(n),
         n = None \/ BufHolds(g, n), UNCHANGED <<status, session, flow, stopping>>
  PROVE  OrphanInv'
<1>1. /\ RendTypeOK /\ BufferInv /\ buf' = [buf EXCEPT ![b] = g]
      /\ g.save \in {"draining", "finalizing"} => g.saved = g.active
      /\ g.save \in {"finalizing", "beginning"} => Closed(rec'[g.active])
      /\ late' \/ \A q \in Rec : BufHolds(buf[b], q) => BufHolds(g, q) \/ ~Live(rec'[q])
  BY DEF IInv, RendInv, BufEnds
<1>2. buf'[b] = g /\ \A c \in Buf \ {b} : buf'[c] = buf[c]
  BY <1>1 DEF RendTypeOK
<1>3. EndInv'
  <2>1. \A r \in Rec : stopping'[r] = "finalizing" => Closed(rec'[r])
    BY DEF OrphanInv, EndInv, Ends
  <2>2. ASSUME NEW c \in Buf \ {b}
        PROVE  /\ buf'[c].save \in {"draining", "finalizing"} => buf'[c].saved = buf'[c].active
               /\ buf'[c].save \in {"finalizing", "beginning"} => Closed(rec'[buf'[c].active])
    <3>1. buf[c].save # "none" => buf[c].active \in Rec
      BY <1>1 DEF RendTypeOK, Bufs, BufferInv, BufOK
    <3> QED BY <1>2, <3>1 DEF OrphanInv, EndInv, Ends
  <2> QED BY <1>1, <1>2, <2>1, <2>2 DEF EndInv
<1>4. Raced => Raced'
  BY DEF Raced, Ends
<1>5. StatusInv => StatusInv'
  BY DEF StatusInv
<1>6. HeldInv => HeldInv' \/ late'
  <2> SUFFICES ASSUME HeldInv, ~late', NEW q \in Rec, Live(rec'[q]), media'[q] # "dead"
               PROVE  Tended(q)'
    BY DEF HeldInv, DeadStays
  <2>1. q # None
    BY MaxRecAssumption DEF Rec, None
  <2>2. Tended(q)' <=> \/ session' = q \/ stopping'[q] # "none" \/ \E i \in Flow : flow'[i].rec = q
                       \/ \E c \in Buf : BufHolds(buf'[c], q)
    BY DEF Tended, BufHolds
  <2>3. CASE q = n
    BY <1>2, <2>1, <2>2, <2>3
  <2>4. CASE q # n
    <3>1. Tended(q)
      BY <2>4 DEF HeldInv, Ends, DeadStays
    <3>2. CASE \E c \in Buf : BufHolds(buf[c], q)
      BY <1>1, <1>2, <2>2, <3>2
    <3> QED BY <2>2, <3>1, <3>2, TendedBy
  <2> QED BY <2>3, <2>4
<1> QED BY <1>3, <1>4, <1>5, <1>6 DEF OrphanInv, Raced

\* The steps of main that nobody calls, and the chunks, change no owner.
LEMMA MainOrphan ==
  ASSUME IInv, IInv', OrphanInv, DeadStays,
         \/ \E r \in Rec : Main(r) \/ Chunk(r) \/ WriteChunk(r) \/ LastChunk(r) \/ LateChunk(r)
                            \/ TracksEnd(r)
         \/ SidecarFails \/ Quit \/ UNCHANGED vars
  PROVE  OrphanInv'
<1>1. UNCHANGED <<status, session, flow, stopping, buf, doubled, late>>
  BY DEF Main, Chunk, WriteChunk, LastChunk, LateChunk, TracksEnd, SidecarFails, Quit, vars,
     rendVars, bufVars, histVars
<1>2. RendTypeOK /\ RendTypeOK' /\ BufferInv /\ MainInv
  BY DEF IInv, RendInv
<1>3. Evolves
  <2>1. ASSUME NEW r \in Rec, Main(r)
        PROVE  Evolves
    BY <1>2, <2>1, VerifiedEvolves, RefusedEvolves, DrainedEvolves, ProbedEvolves, EncodedEvolves
       DEF Main, MainStep
  <2>2. ASSUME NEW r \in Rec, Chunk(r) \/ LastChunk(r) \/ TracksEnd(r)
        PROVE  Evolves
    <3>1. UNCHANGED <<rec, sessions, file, volume, torn>>
      BY <2>2 DEF Chunk, LastChunk, TracksEnd, mainVars
    <3> QED BY <1>2, <3>1, IdleEvolves
  <2>3. ASSUME NEW r \in Rec, WriteChunk(r)
        PROVE  Evolves
    <3>1. AppendChunk(r, TRUE) /\ UNCHANGED <<sessions, file, torn, volume>>
      BY <2>3 DEF WriteChunk
    <3> QED BY <1>2, <3>1, AppendEvolves
  <2>7. ASSUME NEW r \in Rec, LateChunk(r)
        PROVE  Evolves
    <3>1. /\ UNCHANGED rec \/ AppendChunk(r, FALSE)
          /\ UNCHANGED <<sessions, file, torn, volume>>
      BY <2>7 DEF LateChunk
    <3> QED BY <1>2, <3>1, AppendEvolves, IdleEvolves
  <2>4. CASE SidecarFails
    BY <1>2, <2>4, DiesEvolves DEF SidecarFails
  <2>5. CASE Quit
    BY <1>2, <2>5, CancelAllEvolves DEF Quit
  <2>6. CASE UNCHANGED vars
    <3>1. UNCHANGED <<rec, sessions, file, volume, torn>>
      BY <2>6 DEF vars, mainVars
    <3> QED BY <1>2, <3>1, IdleEvolves
  <2> QED BY <2>1, <2>2, <2>3, <2>4, <2>5, <2>6, <2>7
<1>4. Ends(None)
  BY <1>1, <1>3, EvolvesEnds
<1> QED BY <1>1, <1>2, <1>4, SameOwners

-----------------------------------------------------------------------------
(* The owners: start and stop of a recording *)

\* A second start while one is under way is a race.
LEMMA ClickRecordOrphan ==
  ASSUME IInv, OrphanInv, DeadStays, NEW i \in Flow, ClickRecord(i)
  PROVE  OrphanInv'
<1>1. RendTypeOK /\ BufferInv /\ flow \in [Flow -> Flows]
  BY DEF IInv, RendInv, RendTypeOK
<1>2. /\ status = "idle" /\ flow[i].pc = "none" /\ flow' = [flow EXCEPT ![i].pc = "asking"]
      /\ doubled' = (doubled \/ \E j \in Flow : flow[j].pc # "none")
      /\ UNCHANGED <<rec, status, session, stopping, buf, late>>
  BY DEF ClickRecord, mainVars, bufVars
<1>3. /\ flow'[i].pc = "asking" /\ flow'[i].rec = flow[i].rec
      /\ \A j \in Flow \ {i} : flow'[j] = flow[j]
  BY <1>1, <1>2 DEF Flows
<1>4. EndInv'
  BY <1>2 DEF OrphanInv, EndInv
<1>5. CASE Raced'
  BY <1>4, <1>5 DEF OrphanInv
<1>6. CASE ~Raced'
  <2>1. ~Raced /\ \A j \in Flow : flow[j].pc = "none"
    BY <1>2, <1>6 DEF Raced
  <2>2. StatusInv /\ HeldInv
    BY <2>1 DEF OrphanInv
  <2>3. StatusInv'
    BY <1>2, <1>3, <2>1, <2>2 DEF StatusInv
  <2>4. HeldInv'
    <3>1. \A q \in Rec : Tended(q) => Tended(q)'
      BY <1>2, <1>3 DEF Tended
    <3> QED BY <1>2, <2>2, <3>1 DEF HeldInv, DeadStays
  <2> QED BY <1>4, <2>3, <2>4 DEF OrphanInv
<1> QED BY <1>5, <1>6

\* The status goes with the flow.
LEMMA PrepareOrphan ==
  ASSUME IInv, OrphanInv, DeadStays, NEW i \in Flow, Prepare(i)
  PROVE  OrphanInv'
<1>1. RendTypeOK /\ BufferInv /\ flow \in [Flow -> Flows] /\ flow[i].rec = None
  BY DEF IInv, RendInv, RendTypeOK, BufferInv, Prepare
<1>2. /\ flow[i].pc = "asking" /\ UNCHANGED <<rec, session, stopping, buf, doubled, late>>
      /\ \/ status' = "preparing" /\ flow' = [flow EXCEPT ![i].pc = "acquiring"]
         \/ flow' = [flow EXCEPT ![i] = NoFlow] /\ UNCHANGED status
  BY DEF Prepare, mainVars, bufVars, histVars
<1>3. /\ flow'[i].rec = None /\ \A j \in Flow \ {i} : flow'[j] = flow[j]
      /\ \/ status' = "preparing" /\ flow'[i].pc = "acquiring"
         \/ flow'[i].pc = "none" /\ UNCHANGED status
  BY <1>1, <1>2 DEF Flows, NoFlow
<1>4. EndInv'
  BY <1>2 DEF OrphanInv, EndInv
<1>5. Raced => Raced'
  BY <1>2 DEF Raced
<1>6. ASSUME StatusInv, HeldInv
      PROVE  StatusInv' /\ HeldInv'
  <2>1. status = "idle" /\ \A j \in Flow \ {i} : flow[j].pc = "none"
    BY <1>2, <1>6 DEF StatusInv
  <2>2. StatusInv'
    BY <1>2, <1>3, <1>6, <2>1 DEF StatusInv
  <2>3. \A q \in Rec : Tended(q) => Tended(q)'
    <3>1. \A q \in Rec : q # None
      BY MaxRecAssumption DEF Rec, None
    <3>2. \A j \in Flow : flow'[j].rec = flow[j].rec
      BY <1>1, <1>3
    <3> QED BY <1>2, <3>2 DEF Tended
  <2> QED BY <1>2, <1>6, <2>2, <2>3 DEF HeldInv, DeadStays
<1> QED BY <1>4, <1>5, <1>6 DEF OrphanInv

\* The flow that begins a recording is there to end it.
LEMMA AcquiredOrphan ==
  ASSUME IInv, OrphanInv, DeadStays, NEW i \in Flow, Acquired(i)
  PROVE  OrphanInv'
<1>1. RendTypeOK /\ BufferInv /\ flow \in [Flow -> Flows] /\ flow[i].rec = None
  BY DEF IInv, RendInv, RendTypeOK, BufferInv, Acquired
<1>2. /\ flow[i].pc = "acquiring" /\ UNCHANGED <<session, stopping, buf, doubled, late>>
  BY DEF Acquired, bufVars, histVars
<1>3. PICK n \in Rec \union {None} : /\ Ends(n) /\ flow'[i].rec = n
                                     /\ \A j \in Flow \ {i} : flow'[j] = flow[j]
                                     /\ \/ flow'[i].pc = "beginning" /\ UNCHANGED status
                                        \/ flow'[i].pc = "none" /\ status' = "idle"
  <2>1. ASSUME NEW r \in Rec, Begin(r, FALSE), UNCHANGED status,
               flow' = [flow EXCEPT ![i] = [pc |-> "beginning", rec |-> r]]
        PROVE  /\ Ends(r) /\ flow'[i].rec = r /\ flow'[i].pc = "beginning"
               /\ \A j \in Flow \ {i} : flow'[j] = flow[j]
    <3>1. Begins(r, FALSE)
      BY <2>1, MainBegins
    <3>2. Ends(r)
      BY <1>2, <3>1, BeginEnds
    <3> QED BY <1>1, <2>1, <3>2
  <2>2. ASSUME flow' = [flow EXCEPT ![i] = NoFlow], UNCHANGED mainVars
        PROVE  /\ Ends(None) /\ flow'[i].rec = None /\ flow'[i].pc = "none"
               /\ \A j \in Flow \ {i} : flow'[j] = flow[j]
    <3>1. Ends(None)
      BY <1>2, <2>2, MainIdle, EvolvesEnds
    <3> QED BY <1>1, <2>2, <3>1 DEF NoFlow
  <2> QED BY <2>1, <2>2 DEF Acquired
<1>4. EndInv'
  <2>1. \A b \in Buf : buf[b].save # "none" => buf[b].active \in Rec
    BY <1>1 DEF RendTypeOK, Bufs, BufferInv, BufOK
  <2> QED BY <1>2, <1>3, <2>1 DEF OrphanInv, EndInv, Ends
<1>5. Raced => Raced'
  BY <1>2 DEF Raced
<1>6. ASSUME StatusInv, HeldInv
      PROVE  StatusInv' /\ HeldInv'
  <2>1. status = "preparing" /\ \A j \in Flow \ {i} : flow[j].pc = "none"
    BY <1>2, <1>6 DEF StatusInv
  <2>2. StatusInv'
    BY <1>2, <1>3, <1>6, <2>1 DEF StatusInv
  <2>3. \A q \in Rec : q # None
    BY MaxRecAssumption DEF Rec, None
  <2>4. \A q \in Rec : Tended(q) \/ q = n => Tended(q)'
    BY <1>1, <1>2, <1>3, <2>3 DEF Tended
  <2> QED BY <1>3, <1>6, <2>2, <2>4 DEF HeldInv, Ends, DeadStays
<1> QED BY <1>4, <1>5, <1>6 DEF OrphanInv

\* Then it becomes the session, and there was none before, or its MediaRecorder is dead.
LEMMA StartedOrphan ==
  ASSUME IInv, OrphanInv, DeadStays, NEW i \in Flow, Started(i)
  PROVE  OrphanInv'
<1>1. /\ RendTypeOK /\ BufferInv /\ flow \in [Flow -> Flows]
      /\ flow[i].rec \in Rec /\ flow[i].rec # None
  BY DEF IInv, RendInv, RendTypeOK, BufferInv, Started, Flows
<1>2. /\ flow[i].pc = "beginning"
      /\ \/ session' = flow[i].rec /\ status' = "recording"
         \/ /\ UNCHANGED session /\ status' = "idle"
            /\ media' = [media EXCEPT ![flow[i].rec] = "dead"]
      /\ flow' = [flow EXCEPT ![i] = NoFlow]
      /\ UNCHANGED <<rec, stopping, buf, doubled, late>>
  BY DEF Started, mainVars, bufVars, histVars
<1>3. flow'[i].pc = "none" /\ \A j \in Flow \ {i} : flow'[j] = flow[j]
  BY <1>1, <1>2 DEF NoFlow
<1>4. EndInv'
  BY <1>2 DEF OrphanInv, EndInv
<1>5. Raced => Raced'
  BY <1>2 DEF Raced
<1>6. ASSUME StatusInv, HeldInv
      PROVE  StatusInv' /\ HeldInv'
  <2>1. /\ status = "preparing" /\ session = None
        /\ \A j \in Flow \ {i} : flow[j].pc = "none"
    BY <1>2, <1>6 DEF StatusInv
  <2>2. StatusInv'
    BY <1>1, <1>2, <1>3, <1>6, <2>1 DEF StatusInv
  <2>3. \A q \in Rec : q # None
    BY MaxRecAssumption DEF Rec, None
  <2>4. \A q \in Rec : Tended(q) => Tended(q)' \/ media'[q] = "dead"
    <3>1. CASE session' = flow[i].rec
      BY <1>2, <1>3, <2>1, <2>3, <3>1 DEF Tended
    <3>2. CASE UNCHANGED session /\ media' = [media EXCEPT ![flow[i].rec] = "dead"]
      <4>1. media'[flow[i].rec] = "dead"
        BY <1>1, <3>2 DEF RendTypeOK
      <4> QED BY <1>2, <1>3, <3>2, <4>1 DEF Tended
    <3> QED BY <1>2, <3>1, <3>2
  <2> QED BY <1>2, <1>6, <2>2, <2>4 DEF HeldInv, DeadStays
<1> QED BY <1>4, <1>5, <1>6 DEF OrphanInv

\* The session that ends is the one stopFlow finalizes.
LEMMA StopFlowOrphan ==
  ASSUME IInv, OrphanInv, DeadStays, StopFlow
  PROVE  OrphanInv'
<1>1. RendTypeOK /\ BufferInv /\ stopping \in [Rec -> {"none", "draining", "finalizing"}]
  BY DEF IInv, RendInv, RendTypeOK
<1>2. /\ session # None /\ session' = None /\ status' = "finalizing"
      /\ stopping' = [stopping EXCEPT ![session] = "draining"]
      /\ UNCHANGED <<rec, flow, buf, doubled, late>>
  BY DEF StopFlow, mainVars, bufVars, histVars
<1>3. PICK r \in Rec : r = session
  BY <1>1, <1>2 DEF RendTypeOK
<1>4. stopping'[r] = "draining" /\ \A q \in Rec \ {r} : stopping'[q] = stopping[q]
  BY <1>1, <1>2, <1>3
<1>5. EndInv'
  BY <1>2, <1>4 DEF OrphanInv, EndInv
<1>6. Raced => Raced'
  BY <1>2 DEF Raced
<1>7. ASSUME StatusInv, HeldInv
      PROVE  StatusInv' /\ HeldInv'
  <2>1. status = "recording" /\ \A q \in Rec : stopping[q] = "none"
    BY <1>2, <1>7 DEF StatusInv
  <2>2. StatusInv'
    BY <1>2, <1>4, <1>7, <2>1 DEF StatusInv
  <2>3. \A q \in Rec : Tended(q) => Tended(q)'
    BY <1>2, <1>3, <1>4 DEF Tended
  <2> QED BY <1>2, <1>7, <2>2, <2>3 DEF HeldInv, DeadStays
<1> QED BY <1>5, <1>6, <1>7 DEF OrphanInv

\* What was drained is closed.
LEMMA DrainedOrphan ==
  ASSUME IInv, IInv', OrphanInv, DeadStays, NEW r \in Rec, Drained(r)
  PROVE  OrphanInv'
<1>1. RendTypeOK /\ BufferInv /\ stopping \in [Rec -> {"none", "draining", "finalizing"}]
  BY DEF IInv, RendInv, RendTypeOK
<1>2. /\ stopping[r] = "draining" /\ Finalize(r)
      /\ stopping' = [stopping EXCEPT ![r] = "finalizing"]
      /\ UNCHANGED <<status, session, flow, buf, doubled, late>>
  BY DEF Drained, bufVars, histVars
<1>3. media[r] # "none"
  BY <1>2 DEF IInv, RendInv, MediaInv, Halted
<1>4. rec[r].answer \notin {"none", "threw"}
  BY <1>3, RunningBegun
<1>5. Evolves /\ rec'[r].job # "open"
  BY <1>2, <1>4, FinalizeEvolves DEF IInv
<1>6. Ends(None)
  BY <1>2, <1>5, EvolvesEnds
<1>7. Closed(rec'[r])
  BY <1>4, <1>5, EvolvesKeepsRecs, UnlistedCloses DEF IInv
<1>8. stopping'[r] = "finalizing" /\ \A q \in Rec \ {r} : stopping'[q] = stopping[q]
  BY <1>1, <1>2
<1>9. EndInv'
  <2>1. \A b \in Buf : buf[b].save # "none" => buf[b].active \in Rec
    BY <1>1 DEF RendTypeOK, Bufs, BufferInv, BufOK
  <2> QED BY <1>2, <1>6, <1>7, <1>8, <2>1 DEF OrphanInv, EndInv, Ends
<1>10. Raced => Raced'
  BY <1>2 DEF Raced
<1>11. ASSUME StatusInv, HeldInv
       PROVE  StatusInv' /\ HeldInv'
  <2>1. StatusInv'
    BY <1>2, <1>8, <1>11 DEF StatusInv
  <2>2. \A q \in Rec : Tended(q) => Tended(q)'
    BY <1>2, <1>8 DEF Tended
  <2>3. \A q \in Rec : q # None
    BY MaxRecAssumption DEF Rec, None
  <2> QED BY <1>6, <1>11, <2>1, <2>2, <2>3 DEF HeldInv, Ends, DeadStays
<1> QED BY <1>9, <1>10, <1>11 DEF OrphanInv

\* And once finalize has answered nobody need end it.
LEMMA FinalizedOrphan ==
  ASSUME IInv, OrphanInv, DeadStays, NEW r \in Rec, Finalized(r)
  PROVE  OrphanInv'
<1>1. RendTypeOK /\ BufferInv /\ stopping \in [Rec -> {"none", "draining", "finalizing"}]
  BY DEF IInv, RendInv, RendTypeOK
<1>2. /\ stopping[r] = "finalizing" /\ status' = "idle"
      /\ stopping' = [stopping EXCEPT ![r] = "none"]
      /\ UNCHANGED <<rec, session, flow, buf, doubled, late>>
  BY DEF Finalized, mainVars, bufVars, histVars
<1>3. stopping'[r] = "none" /\ \A q \in Rec \ {r} : stopping'[q] = stopping[q]
  BY <1>1, <1>2
<1>4. EndInv'
  BY <1>2, <1>3 DEF OrphanInv, EndInv
<1>5. Raced => Raced'
  BY <1>2 DEF Raced
<1>6. ASSUME StatusInv, HeldInv
      PROVE  StatusInv' /\ HeldInv'
  <2>1. status = "finalizing" /\ \A q \in Rec \ {r} : stopping[q] = "none"
    BY <1>2, <1>6 DEF StatusInv
  <2>2. StatusInv'
    BY <1>2, <1>3, <1>6, <2>1 DEF StatusInv
  <2>3. ~Live(rec'[r])
    BY <1>2 DEF OrphanInv, EndInv, Live, Closed
  <2>4. \A q \in Rec \ {r} : Tended(q) => Tended(q)'
    BY <1>2, <1>3 DEF Tended
  <2> QED BY <1>2, <1>6, <2>2, <2>3, <2>4 DEF HeldInv, DeadStays
<1> QED BY <1>4, <1>5, <1>6 DEF OrphanInv

-----------------------------------------------------------------------------
(* The owners: replay buffers *)

\* As main does not move, nothing ends.
LEMMA IdleEnds ==
  ASSUME IInv, UNCHANGED mainVars, DeadStays, doubled => doubled', late => late'
  PROVE  Ends(None)
BY MainIdle, EvolvesEnds

\* A buffer that is turned on has nothing yet.
LEMMA StartReplayOrphan ==
  ASSUME IInv, OrphanInv, DeadStays, NEW b \in Buf, StartReplay(b)
  PROVE  OrphanInv'
<1> DEFINE g == [buf[b] EXCEPT !.start = "acquiring"]
<1>1. RendTypeOK /\ BufferInv /\ buf[b] \in Bufs /\ BufOK(buf[b])
  BY DEF IInv, RendInv, RendTypeOK, BufferInv
<1>2. /\ buf[b].start = "none" /\ buf' = [buf EXCEPT ![b] = g] /\ UNCHANGED mainVars
      /\ UNCHANGED <<status, session, flow, stopping, late>> /\ (doubled => doubled')
  BY <1>1 DEF StartReplay, RendTypeOK, rendVars
<1>3. g \in Bufs
  BY <1>1 DEF Bufs
<1>4. /\ g.active = buf[b].active /\ g.save = buf[b].save
      /\ g.saved = buf[b].saved /\ g.stop = buf[b].stop
  BY <1>1 DEF Bufs
<1> HIDE DEF g
<1>5. g.save = "none"
  BY <1>1, <1>2, <1>4 DEF BufOK
<1>6. BufEnds(b, g)
  BY <1>2, <1>4, <1>5 DEF BufEnds, BufHolds
<1>7. Ends(None)
  BY <1>2, IdleEnds
<1> QED BY <1>2, <1>3, <1>6, <1>7, BufOrphan

\* The buffer that begins a recording is there to end it.
LEMMA ReplayAcquiredOrphan ==
  ASSUME IInv, OrphanInv, DeadStays, NEW b \in Buf, ReplayAcquired(b)
  PROVE  OrphanInv'
<1>1. RendTypeOK /\ BufferInv /\ buf[b] \in Bufs /\ BufOK(buf[b])
  BY DEF IInv, RendInv, RendTypeOK, BufferInv
<1>2. /\ buf[b].start = "acquiring"
      /\ UNCHANGED <<status, session, flow, stopping, doubled, late>>
  BY DEF ReplayAcquired, rendVars, histVars
<1>3. /\ buf[b].save = "none" /\ buf[b].saved = None /\ buf[b].stop = "none"
      /\ buf[b].active = None
  BY <1>1, <1>2 DEF BufOK
<1>4. \A q \in Rec : ~BufHolds(buf[b], q)
  BY <1>3, MaxRecAssumption DEF BufHolds, Rec, None
<1>5. ASSUME NEW r \in Rec, Begin(r, TRUE),
             buf' = [buf EXCEPT ![b].start = "beginning", ![b].active = r]
      PROVE  OrphanInv'
  <2> DEFINE g == [buf[b] EXCEPT !.start = "beginning", !.active = r]
  <2>1. g \in Bufs
    BY <1>1 DEF Bufs
  <2>2. g.active = r /\ g.save = "none" /\ g.stop = "none"
    BY <1>1, <1>3 DEF Bufs
  <2>3. buf' = [buf EXCEPT ![b] = g]
    BY <1>1, <1>5 DEF RendTypeOK, Bufs
  <2> HIDE DEF g
  <2>4. BufEnds(b, g) /\ BufHolds(g, r)
    BY <1>4, <2>2, <2>3 DEF BufEnds, BufHolds
  <2>5. Ends(r)
    BY <1>2, <1>5, MainBegins, BeginEnds
  <2> QED BY <1>2, <2>1, <2>4, <2>5, BufOrphan
<1>6. CASE buf' = [buf EXCEPT ![b].start = "over"] /\ UNCHANGED mainVars
  <2> DEFINE g == [buf[b] EXCEPT !.start = "over"]
  <2>1. g \in Bufs
    BY <1>1 DEF Bufs
  <2>2. g.save = "none"
    BY <1>1, <1>3 DEF Bufs
  <2>3. buf' = [buf EXCEPT ![b] = g]
    BY <1>1, <1>6 DEF RendTypeOK
  <2> HIDE DEF g
  <2>4. BufEnds(b, g)
    BY <1>4, <2>2, <2>3 DEF BufEnds
  <2>5. Ends(None)
    BY <1>2, <1>6, IdleEnds
  <2> QED BY <1>2, <2>1, <2>4, <2>5, BufOrphan
<1> QED BY <1>5, <1>6 DEF ReplayAcquired

\* A recording whose begin threw needs no end.
LEMMA ThrewCloses ==
  ASSUME IInv, NEW r \in Rec, rec[r].answer = "threw"
  PROVE  ~Live(rec[r])
<1>1. RecordOK(rec[r], r \in sessions)
  BY DEF IInv, MainInv, RecordInv
<1> QED BY <1>1 DEF RecordOK, Live

\* The buffer is up with its recording, or has none.
LEMMA ReplayBegunOrphan ==
  ASSUME IInv, IInv', OrphanInv, DeadStays, NEW b \in Buf, ReplayBegun(b)
  PROVE  OrphanInv'
<1>1. RendTypeOK /\ BufferInv /\ buf[b] \in Bufs /\ BufOK(buf[b]) /\ MainInv'
  BY DEF IInv, RendInv, RendTypeOK, BufferInv
<1>2. /\ buf[b].start = "beginning"
      /\ UNCHANGED <<status, session, flow, stopping, doubled, late>>
  BY DEF ReplayBegun, histVars
<1>3. buf[b].save = "none" /\ buf[b].saved = None /\ buf[b].stop = "none"
  BY <1>1, <1>2 DEF BufOK
<1>4. PICK r \in Rec : r = buf[b].active
  BY <1>1, <1>2 DEF BufOK, Bufs
<1>5. CASE buf' = [buf EXCEPT ![b].start = "up"] /\ UNCHANGED mainVars
  <2> DEFINE g == [buf[b] EXCEPT !.start = "up"]
  <2>1. g \in Bufs
    BY <1>1 DEF Bufs
  <2>2. g.active = buf[b].active /\ g.save = "none" /\ g.saved = buf[b].saved /\ g.stop = buf[b].stop
    BY <1>1, <1>3 DEF Bufs
  <2>3. buf' = [buf EXCEPT ![b] = g]
    BY <1>1, <1>5 DEF RendTypeOK
  <2> HIDE DEF g
  <2>4. BufEnds(b, g)
    BY <2>2, <2>3 DEF BufEnds, BufHolds
  <2>5. Ends(None)
    BY <1>2, <1>5, IdleEnds
  <2> QED BY <1>2, <2>1, <2>4, <2>5, BufOrphan
<1>6. CASE /\ \/ rec[r].answer = "threw" /\ UNCHANGED mainVars
              \/ rec[r].answer = "begun" /\ Cancel(r)
           /\ buf' = [buf EXCEPT ![b].start = "over", ![b].active = None]
  <2> DEFINE g == [buf[b] EXCEPT !.start = "over", !.active = None]
  <2>1. g \in Bufs
    BY <1>1 DEF Bufs
  <2>2. g.save = "none"
    BY <1>1, <1>3 DEF Bufs
  <2>3. buf' = [buf EXCEPT ![b] = g]
    BY <1>1, <1>6 DEF RendTypeOK, Bufs
  <2> HIDE DEF g
  <2>4. \A q \in Rec : BufHolds(buf[b], q) => q = r
    BY <1>3, <1>4, MaxRecAssumption DEF BufHolds, Rec, None
  <2>5. ~Live(rec'[r]) /\ Ends(None)
    <3>1. CASE rec[r].answer = "threw" /\ UNCHANGED mainVars
      <4>1. Ends(None) /\ UNCHANGED rec
        BY <1>2, <3>1, IdleEnds DEF mainVars
      <4> QED BY <3>1, <4>1, ThrewCloses
    <3>2. CASE rec[r].answer = "begun" /\ Cancel(r)
      <4>1. Closed(rec'[r])
        BY <1>1, <3>2, CancelCloses
      <4>2. Ends(None)
        BY <1>2, <3>2, CancelEvolves, EvolvesEnds DEF IInv
      <4> QED BY <4>1, <4>2 DEF Closed, Live
    <3> QED BY <1>6, <3>1, <3>2
  <2>6. BufEnds(b, g)
    BY <2>2, <2>3, <2>4, <2>5 DEF BufEnds
  <2> QED BY <1>2, <2>1, <2>5, <2>6, BufOrphan
<1> QED BY <1>4, <1>5, <1>6 DEF ReplayBegun

\* What is saved is what is active.
LEMMA SaveReplayOrphan ==
  ASSUME IInv, OrphanInv, DeadStays, NEW b \in Buf, SaveReplay(b)
  PROVE  OrphanInv'
<1>1. RendTypeOK /\ BufferInv /\ buf[b] \in Bufs /\ BufOK(buf[b])
  BY DEF IInv, RendInv, RendTypeOK, BufferInv
<1>2. /\ buf[b].save = "none" /\ UNCHANGED mainVars
      /\ UNCHANGED <<status, session, flow, stopping, doubled, late>>
      /\ buf[b].start = "up"
      /\ buf' = [buf EXCEPT ![b].save = "draining", ![b].saved = buf[b].active]
  BY <1>1 DEF SaveReplay, histVars, BufferInv
<1> DEFINE g == [buf[b] EXCEPT !.save = "draining", !.saved = buf[b].active]
<1>3. g \in Bufs
  BY <1>1 DEF Bufs
<1>4. g.active = buf[b].active /\ g.save = "draining" /\ g.saved = g.active /\ g.stop = buf[b].stop
  BY <1>1 DEF Bufs
<1>5. buf' = [buf EXCEPT ![b] = g]
  BY <1>1, <1>2 DEF RendTypeOK, Bufs
<1> HIDE DEF g
<1>6. buf[b].saved = None /\ \A q \in Rec : q # None
  BY <1>1, <1>2, MaxRecAssumption DEF BufOK, Rec, None
<1>7. BufEnds(b, g)
  BY <1>4, <1>5, <1>6 DEF BufEnds, BufHolds
<1>8. Ends(None)
  BY <1>2, IdleEnds
<1> QED BY <1>2, <1>3, <1>7, <1>8, BufOrphan

\* A stopped buffer still has to end what it has.
LEMMA StopReplayOrphan ==
  ASSUME IInv, OrphanInv, DeadStays, NEW b \in Buf, StopReplay(b)
  PROVE  OrphanInv'
<1>1. RendTypeOK /\ BufferInv /\ buf[b] \in Bufs /\ BufOK(buf[b]) /\ EndInv
  BY DEF IInv, RendInv, RendTypeOK, BufferInv, OrphanInv
<1>2. /\ UNCHANGED mainVars /\ UNCHANGED <<status, session, flow, stopping, doubled, late>>
      /\ buf[b].start = "up"
  BY DEF StopReplay, histVars
<1>3. PICK lost \in BOOLEAN :
        buf' = [buf EXCEPT ![b].stopped = TRUE, ![b].stop = "draining", ![b].lost = lost]
  BY DEF StopReplay
<1> DEFINE g == [buf[b] EXCEPT !.stopped = TRUE, !.stop = "draining", !.lost = lost]
<1>4. g \in Bufs
  BY <1>1 DEF Bufs
<1>5. g.active = buf[b].active /\ g.save = buf[b].save /\ g.saved = buf[b].saved /\ g.stop = "draining"
  BY <1>1 DEF Bufs
<1>6. buf' = [buf EXCEPT ![b] = g]
  BY <1>1, <1>3 DEF RendTypeOK, Bufs
<1> HIDE DEF g
<1>7. UNCHANGED rec
  BY <1>2 DEF mainVars
<1>8. BufEnds(b, g)
  BY <1>1, <1>5, <1>6, <1>7 DEF BufEnds, BufHolds, EndInv
<1>9. Ends(None)
  BY <1>2, IdleEnds
<1> QED BY <1>2, <1>4, <1>8, <1>9, BufOrphan

\* The recording it has by then is cancelled; one that its save begins stays with the save.
LEMMA StopDrainedOrphan ==
  ASSUME IInv, IInv', OrphanInv, DeadStays, NEW b \in Buf, StopDrained(b)
  PROVE  OrphanInv'
<1>1. RendTypeOK /\ BufferInv /\ buf[b] \in Bufs /\ BufOK(buf[b]) /\ EndInv /\ MainInv'
  BY DEF IInv, RendInv, RendTypeOK, BufferInv, OrphanInv
<1>2. /\ buf[b].stop = "draining" /\ UNCHANGED <<status, session, flow, stopping, doubled, late>>
      /\ Cancel(buf[b].active) /\ buf' = [buf EXCEPT ![b].stop = "cancelling"]
  BY DEF StopDrained, rendVars, histVars
<1>3. buf[b].start = "up" /\ buf[b].active \in Rec
  BY <1>1, <1>2 DEF BufOK, Bufs
<1>4. PICK r \in Rec : r = buf[b].active
  BY <1>3
<1>5. Cancel(r) /\ media[r] # "none"
  BY <1>2, <1>3, <1>4 DEF IInv, RendInv, BegunInv, Unused
<1>6. rec[r].answer \notin {"none", "threw"}
  BY <1>5, RunningBegun
<1>7. Closed(rec'[r])
  BY <1>1, <1>5, <1>6, CancelCloses
<1>8. Ends(None)
  BY <1>2, <1>5, CancelEvolves, EvolvesEnds DEF IInv
<1> DEFINE g == [buf[b] EXCEPT !.stop = "cancelling"]
<1>9. g \in Bufs
  BY <1>1 DEF Bufs
<1>10. g.active = r /\ g.save = buf[b].save /\ g.saved = buf[b].saved /\ g.stop = "cancelling"
  BY <1>1, <1>4 DEF Bufs
<1>11. buf' = [buf EXCEPT ![b] = g]
  BY <1>1, <1>2 DEF RendTypeOK
<1> HIDE DEF g
<1>12. BufEnds(b, g)
  <2>1. ~Live(rec'[r])
    BY <1>7 DEF Closed, Live
  <2> QED BY <1>1, <1>4, <1>7, <1>10, <1>11, <2>1 DEF BufEnds, BufHolds, EndInv
<1> QED BY <1>2, <1>8, <1>9, <1>12, BufOrphan

\* Nothing is left to end.
LEMMA StopCleanedOrphan ==
  ASSUME IInv, OrphanInv, DeadStays, NEW b \in Buf, StopCleaned(b)
  PROVE  OrphanInv'
<1>1. RendTypeOK /\ BufferInv /\ buf[b] \in Bufs /\ BufOK(buf[b]) /\ EndInv
  BY DEF IInv, RendInv, RendTypeOK, BufferInv, OrphanInv
<1>2. /\ buf[b].stop = "cancelling" /\ UNCHANGED <<status, session, flow, stopping, doubled, late>>
      /\ buf' = [buf EXCEPT ![b].stop = "over"] /\ UNCHANGED mainVars
  BY DEF StopCleaned, histVars
<1>3. Ends(None) /\ UNCHANGED rec
  BY <1>2, IdleEnds DEF mainVars
<1> DEFINE g == [buf[b] EXCEPT !.stop = "over"]
<1>4. g \in Bufs
  BY <1>1 DEF Bufs
<1>5. g.active = buf[b].active /\ g.save = buf[b].save /\ g.saved = buf[b].saved /\ g.stop = "over"
  BY <1>1 DEF Bufs
<1>6. buf' = [buf EXCEPT ![b] = g]
  BY <1>1, <1>2 DEF RendTypeOK
<1> HIDE DEF g
<1>7. BufEnds(b, g)
  BY <1>1, <1>2, <1>3, <1>5, <1>6 DEF BufEnds, BufHolds, EndInv
<1> QED BY <1>2, <1>3, <1>4, <1>7, BufOrphan

\* What is saved is cancelled, or finalized, with its chunks: closed either way.
LEMMA SaveDrainedOrphan ==
  ASSUME IInv, IInv', OrphanInv, DeadStays, NEW b \in Buf, SaveDrained(b)
  PROVE  OrphanInv'
<1>1. RendTypeOK /\ BufferInv /\ buf[b] \in Bufs /\ BufOK(buf[b]) /\ EndInv /\ MainInv'
  BY DEF IInv, RendInv, RendTypeOK, BufferInv, OrphanInv
<1>2. /\ buf[b].save = "draining" /\ UNCHANGED <<status, session, flow, stopping, doubled, late>>
  BY DEF SaveDrained, rendVars, histVars
<1>3. PICK r \in Rec : r = buf[b].saved /\ r # None
  BY <1>1, <1>2 DEF BufOK, Bufs
<1>4. buf[b].active = r
  BY <1>1, <1>2, <1>3 DEF EndInv
<1>5. media[r] # "none"
  BY <1>2, <1>3 DEF IInv, RendInv, BegunInv, Halted
<1>6. rec[r].answer \notin {"none", "threw"}
  BY <1>5, RunningBegun
<1>7. \A q \in Rec : BufHolds(buf[b], q) => q = r
  BY <1>3, <1>4 DEF BufHolds
<1>8. CASE Cancel(r) /\ buf' = [buf EXCEPT ![b].save = "none", ![b].saved = None]
  <2> DEFINE g == [buf[b] EXCEPT !.save = "none", !.saved = None]
  <2>1. g \in Bufs
    BY <1>1 DEF Bufs
  <2>2. g.save = "none"
    BY <1>1 DEF Bufs
  <2>3. buf' = [buf EXCEPT ![b] = g]
    BY <1>1, <1>8 DEF RendTypeOK, Bufs
  <2> HIDE DEF g
  <2>4. Closed(rec'[r])
    BY <1>1, <1>6, <1>8, CancelCloses
  <2>5. \A q \in Rec : BufHolds(buf[b], q) => ~Live(rec'[q])
    BY <1>7, <2>4 DEF Live, Closed
  <2>6. BufEnds(b, g)
    BY <2>2, <2>3, <2>5 DEF BufEnds
  <2>7. Ends(None)
    BY <1>2, <1>8, CancelEvolves, EvolvesEnds DEF IInv
  <2> QED BY <1>2, <2>1, <2>6, <2>7, BufOrphan
<1>9. CASE Finalize(r) /\ buf' = [buf EXCEPT ![b].save = "finalizing"]
  <2> DEFINE g == [buf[b] EXCEPT !.save = "finalizing"]
  <2>1. g \in Bufs
    BY <1>1 DEF Bufs
  <2>2. g.save = "finalizing" /\ g.saved = r /\ g.active = r
    BY <1>1, <1>3, <1>4 DEF Bufs
  <2>3. buf' = [buf EXCEPT ![b] = g]
    BY <1>1, <1>9 DEF RendTypeOK
  <2> HIDE DEF g
  <2>4. Evolves /\ rec'[r].job # "open"
    BY <1>6, <1>9, FinalizeEvolves DEF IInv
  <2>5. Closed(rec'[r])
    BY <1>1, <1>6, <2>4, EvolvesKeepsRecs, UnlistedCloses
  <2>6. \A q \in Rec : BufHolds(buf[b], q) => ~Live(rec'[q])
    BY <1>7, <2>5 DEF Live, Closed
  <2>7. BufEnds(b, g)
    BY <2>2, <2>3, <2>5, <2>6 DEF BufEnds
  <2>8. Ends(None)
    BY <1>2, <2>4, EvolvesEnds
  <2> QED BY <1>2, <2>1, <2>7, <2>8, BufOrphan
<1> QED BY <1>3, <1>8, <1>9 DEF SaveDrained

\* The next recording is the save's, the one before is closed.
LEMMA SaveFinalizedOrphan ==
  ASSUME IInv, OrphanInv, DeadStays, NEW b \in Buf, SaveFinalized(b)
  PROVE  OrphanInv'
<1>1. RendTypeOK /\ BufferInv /\ buf[b] \in Bufs /\ BufOK(buf[b]) /\ EndInv
  BY DEF IInv, RendInv, RendTypeOK, BufferInv, OrphanInv
<1>2. /\ buf[b].save = "finalizing" /\ UNCHANGED <<status, session, flow, stopping, doubled, late>>
  BY DEF SaveFinalized, rendVars, histVars
<1>3. PICK a \in Rec : a = buf[b].active
  BY <1>1, <1>2 DEF BufOK, Bufs
<1>4. buf[b].saved = a /\ Closed(rec[a])
  BY <1>1, <1>2, <1>3 DEF EndInv
<1>5. \A q \in Rec : BufHolds(buf[b], q) => q = a
  BY <1>3, <1>4 DEF BufHolds
<1>6. ASSUME NEW n, Ends(n)
      PROVE  Closed(rec'[a]) /\ \A q \in Rec : BufHolds(buf[b], q) => ~Live(rec'[q])
  BY <1>4, <1>5, <1>6 DEF Ends, Live, Closed
<1>7. CASE buf' = [buf EXCEPT ![b].save = "none", ![b].saved = None] /\ UNCHANGED mainVars
  <2> DEFINE g == [buf[b] EXCEPT !.save = "none", !.saved = None]
  <2>1. g \in Bufs
    BY <1>1 DEF Bufs
  <2>2. g.save = "none"
    BY <1>1 DEF Bufs
  <2>3. buf' = [buf EXCEPT ![b] = g]
    BY <1>1, <1>7 DEF RendTypeOK, Bufs
  <2> HIDE DEF g
  <2>4. Ends(None)
    BY <1>2, <1>7, IdleEnds
  <2>5. BufEnds(b, g)
    BY <1>6, <2>2, <2>3, <2>4 DEF BufEnds
  <2> QED BY <1>2, <2>1, <2>4, <2>5, BufOrphan
<1>8. ASSUME NEW r \in Rec, Begin(r, TRUE),
             buf' = [buf EXCEPT ![b].save = "beginning", ![b].saved = r]
      PROVE  OrphanInv'
  <2> DEFINE g == [buf[b] EXCEPT !.save = "beginning", !.saved = r]
  <2>1. g \in Bufs
    BY <1>1 DEF Bufs
  <2>2. g.save = "beginning" /\ g.saved = r /\ g.active = a
    BY <1>1, <1>3 DEF Bufs
  <2>3. buf' = [buf EXCEPT ![b] = g]
    BY <1>1, <1>8 DEF RendTypeOK, Bufs
  <2> HIDE DEF g
  <2>4. Ends(r)
    BY <1>2, <1>8, MainBegins, BeginEnds
  <2>5. BufEnds(b, g) /\ BufHolds(g, r)
    BY <1>6, <2>2, <2>3, <2>4 DEF BufEnds, BufHolds
  <2> QED BY <1>2, <2>1, <2>4, <2>5, BufOrphan
<1> QED BY <1>7, <1>8 DEF SaveFinalized

\* It becomes the active one, unless the buffer was cancelled meanwhile: that is the race.
LEMMA SaveBegunOrphan ==
  ASSUME IInv, IInv', OrphanInv, DeadStays, NEW b \in Buf, SaveBegun(b)
  PROVE  OrphanInv'
<1>1. RendTypeOK /\ BufferInv /\ buf[b] \in Bufs /\ BufOK(buf[b]) /\ EndInv /\ MainInv'
  BY DEF IInv, RendInv, RendTypeOK, BufferInv, OrphanInv
<1>2. /\ buf[b].save = "beginning" /\ UNCHANGED <<status, session, flow, stopping, doubled>>
  BY DEF SaveBegun
<1>3. PICK r \in Rec : r = buf[b].saved /\ r # None
  BY <1>1, <1>2 DEF BufOK, Bufs
<1>4. PICK a \in Rec : a = buf[b].active
  BY <1>1, <1>2 DEF BufOK, Bufs
<1>5. Closed(rec[a])
  BY <1>1, <1>2, <1>4 DEF EndInv
<1>6. \A q \in Rec : BufHolds(buf[b], q) => q = a \/ q = r
  BY <1>3, <1>4 DEF BufHolds
<1>7. ASSUME Ends(None)
      PROVE  ~Live(rec'[a])
  BY <1>5, <1>7 DEF Ends, Live, Closed
<1>8. CASE /\ buf[b].stop # "over" /\ UNCHANGED mainVars
           /\ buf' = [buf EXCEPT ![b].save = "none", ![b].saved = None, ![b].active = r]
           /\ late' = (late \/ buf[b].stop = "cancelling")
  <2> DEFINE g == [buf[b] EXCEPT !.save = "none", !.saved = None, !.active = r]
  <2>1. g \in Bufs
    BY <1>1 DEF Bufs
  <2>2. g.save = "none" /\ g.active = r /\ g.stop = buf[b].stop
    BY <1>1 DEF Bufs
  <2>3. buf' = [buf EXCEPT ![b] = g]
    BY <1>1, <1>8 DEF RendTypeOK, Bufs
  <2> HIDE DEF g
  <2>4. Ends(None)
    BY <1>2, <1>8, IdleEnds
  <2>5. late' \/ BufHolds(g, r)
    BY <1>8, <2>2 DEF BufHolds
  <2>6. BufEnds(b, g)
    BY <1>6, <1>7, <2>2, <2>3, <2>4, <2>5 DEF BufEnds
  <2> QED BY <1>2, <2>1, <2>4, <2>6, BufOrphan
<1>9. CASE /\ rec[r].answer = "begun" /\ Cancel(r) /\ UNCHANGED late
           /\ buf' = [buf EXCEPT ![b].save = "none", ![b].saved = None, ![b].stopped = TRUE]
  <2> DEFINE g == [buf[b] EXCEPT !.save = "none", !.saved = None, !.stopped = TRUE]
  <2>1. g \in Bufs
    BY <1>1 DEF Bufs
  <2>2. g.save = "none"
    BY <1>1 DEF Bufs
  <2>3. buf' = [buf EXCEPT ![b] = g]
    BY <1>1, <1>9 DEF RendTypeOK, Bufs
  <2> HIDE DEF g
  <2>4. Ends(None)
    BY <1>2, <1>9, CancelEvolves, EvolvesEnds DEF IInv
  <2>5. Closed(rec'[r])
    BY <1>1, <1>9, CancelCloses
  <2>6. \A q \in Rec : BufHolds(buf[b], q) => ~Live(rec'[q])
    BY <1>6, <1>7, <2>4, <2>5 DEF Live, Closed
  <2>7. BufEnds(b, g)
    BY <2>2, <2>3, <2>6 DEF BufEnds
  <2> QED BY <1>2, <2>1, <2>4, <2>7, BufOrphan
<1>10. CASE /\ rec[r].answer = "threw" /\ UNCHANGED mainVars /\ UNCHANGED late
            /\ buf' = [buf EXCEPT ![b].save = "none", ![b].saved = None, ![b].stopped = TRUE]
  <2> DEFINE g == [buf[b] EXCEPT !.save = "none", !.saved = None, !.stopped = TRUE]
  <2>1. g \in Bufs
    BY <1>1 DEF Bufs
  <2>2. g.save = "none"
    BY <1>1 DEF Bufs
  <2>3. buf' = [buf EXCEPT ![b] = g]
    BY <1>1, <1>10 DEF RendTypeOK, Bufs
  <2> HIDE DEF g
  <2>4. Ends(None) /\ UNCHANGED rec
    BY <1>2, <1>10, IdleEnds DEF mainVars
  <2>5. ~Live(rec'[r])
    BY <1>10, <2>4, ThrewCloses
  <2>6. \A q \in Rec : BufHolds(buf[b], q) => ~Live(rec'[q])
    BY <1>6, <1>7, <2>4, <2>5
  <2>7. BufEnds(b, g)
    BY <2>2, <2>3, <2>6 DEF BufEnds
  <2> QED BY <1>2, <2>1, <2>4, <2>7, BufOrphan
<1> QED BY <1>3, <1>8, <1>9, <1>10 DEF SaveBegun

-----------------------------------------------------------------------------
(* No recording is forgotten *)

\* At first there is nothing to end.
LEMMA OrphanInit ==
  ASSUME Init
  PROVE  OrphanInv
<1>1. /\ rec = [r \in Rec |-> Fresh] /\ status = "idle" /\ session = None
      /\ flow = [i \in Flow |-> NoFlow] /\ stopping = [r \in Rec |-> "none"]
      /\ buf = [b \in Buf |-> NoBuf]
  BY DEF Init, MainInit
<1> QED BY <1>1 DEF OrphanInv, EndInv, StatusInv, HeldInv, Fresh, NoFlow, NoBuf, Live

\* Only a flow whose start throws makes a MediaRecorder a dead one, and nothing moves it then.
LEMMA DeadAlways ==
  ASSUME IInv, [Next]_vars
  PROVE  DeadStays
<1>1. RendTypeOK /\ OwnerInv /\ BufferInv /\ MediaInv /\ BegunInv
  BY DEF IInv, RendInv
<1>2. ASSUME NEW r \in Rec, NEW m, media[r] # "dead", media' = [media EXCEPT ![r] = m]
      PROVE  DeadStays
  BY <1>1, <1>2 DEF RendTypeOK, DeadStays
<1>3. ASSUME UNCHANGED media
      PROVE  DeadStays
  BY <1>3 DEF DeadStays
<1>4. ASSUME NEW r \in Rec, media[r] \notin Unused, StopMedia(r)
      PROVE  DeadStays
  <2>1. media[r] # "dead" /\ \E m : media' = [media EXCEPT ![r] = m]
    BY <1>4 DEF StopMedia, Unused
  <2> QED BY <1>2, <2>1
<1>5. ASSUME NEW i \in Flow, ClickRecord(i) \/ FlowStep(i)
      PROVE  DeadStays
  <2>1. CASE Started(i)
    <3>1. flow[i].rec \in Rec /\ Starting(flow[i].rec)
      BY <1>1, <2>1 DEF Started, RendTypeOK, Flows, BufferInv, Starting
    <3>2. media[flow[i].rec] # "dead"
      BY <1>1, <3>1 DEF MediaInv
    <3> QED BY <1>2, <2>1, <3>1, <3>2 DEF Started
  <2>2. CASE ClickRecord(i) \/ Prepare(i) \/ Acquired(i)
    BY <1>3, <2>2 DEF ClickRecord, Prepare, Acquired
  <2> QED BY <1>5, <2>1, <2>2 DEF FlowStep
<1>6. ASSUME NEW r \in Rec, LastChunk(r) \/ LateChunk(r) \/ TracksEnd(r)
      PROVE  DeadStays
  <2>1. media[r] # "dead" /\ \E m : media' = [media EXCEPT ![r] = m]
    BY <1>6 DEF LastChunk, LateChunk, TracksEnd
  <2> QED BY <1>2, <2>1
<1>7. ASSUME NEW r \in Rec, Main(r) \/ Chunk(r) \/ WriteChunk(r) \/ StopStep(r)
      PROVE  DeadStays
  BY <1>3, <1>7 DEF Main, Chunk, WriteChunk, StopStep, Drained, Finalized, rendVars
<1>8. CASE StopFlow
  <2>1. session \in Rec /\ media[session] \notin Unused /\ StopMedia(session)
    BY <1>1, <1>8 DEF StopFlow, RendTypeOK, MediaInv
  <2> QED BY <1>4, <2>1
<1>9. ASSUME NEW b \in Buf, buf[b].start = "up"
      PROVE  buf[b].active \in Rec /\ media[buf[b].active] \notin Unused
  BY <1>1, <1>9 DEF BufferInv, BufOK, RendTypeOK, Bufs, BegunInv
<1>10. ASSUME NEW b \in Buf, SaveReplay(b) \/ StopReplay(b) \/ StopCleaned(b)
       PROVE  DeadStays
  <2>1. buf[b].start = "up"
    BY <1>1, <1>10 DEF SaveReplay, StopReplay, StopCleaned, BufferInv, BufOK
  <2>2. buf[b].active \in Rec /\ media[buf[b].active] \notin Unused
    BY <1>9, <2>1
  <2>3. CASE SaveReplay(b)
    BY <1>4, <2>2, <2>3 DEF SaveReplay
  <2>4. CASE StopReplay(b) \/ StopCleaned(b)
    BY <1>2, <2>2, <2>4 DEF StopReplay, StopCleaned, Unused
  <2> QED BY <1>10, <2>3, <2>4
<1>11. ASSUME NEW b \in Buf, NEW r \in Rec, r \in {StartOf(b), SaveOf(b)}
       PROVE  media[r] # "dead"
  BY <1>1, <1>11 DEF MediaInv, Starting
<1>12. ASSUME NEW b \in Buf, ReplayBegun(b)
       PROVE  DeadStays
  <2>1. buf[b].active \in Rec /\ buf[b].active = StartOf(b)
    BY <1>1, <1>12 DEF ReplayBegun, BufferInv, BufOK, RendTypeOK, Bufs, StartOf
  <2>2. media[buf[b].active] # "dead"
    BY <1>11, <2>1
  <2> QED BY <1>2, <1>3, <1>12, <2>1, <2>2 DEF ReplayBegun
<1>13. ASSUME NEW b \in Buf, SaveBegun(b)
       PROVE  DeadStays
  <2>1. buf[b].saved \in Rec /\ buf[b].saved = SaveOf(b)
    BY <1>1, <1>13 DEF SaveBegun, BufferInv, BufOK, RendTypeOK, Bufs, SaveOf
  <2>2. media[buf[b].saved] # "dead"
    BY <1>11, <2>1
  <2> QED BY <1>2, <1>3, <1>13, <2>1, <2>2 DEF SaveBegun
<1>14. ASSUME NEW b \in Buf, \/ StartReplay(b) \/ ReplayAcquired(b) \/ SaveDrained(b)
                             \/ SaveFinalized(b) \/ StopDrained(b)
       PROVE  DeadStays
  BY <1>3, <1>14 DEF StartReplay, ReplayAcquired, SaveDrained, SaveFinalized, StopDrained, rendVars
<1>15. CASE SidecarFails \/ Quit \/ UNCHANGED vars
  BY <1>3, <1>15 DEF SidecarFails, Quit, vars, rendVars
<1> QED BY <1>5, <1>6, <1>7, <1>8, <1>10, <1>12, <1>13, <1>14, <1>15 DEF Next, ReplayStep

\* No step leaves a recording behind, but in a race.
LEMMA OrphanNext ==
  ASSUME IInv, IInv', OrphanInv, [Next]_vars
  PROVE  OrphanInv'
<1>0. DeadStays
  BY DeadAlways
<1>1. CASE UNCHANGED vars \/ SidecarFails \/ Quit
  BY <1>0, <1>1, MainOrphan
<1>2. ASSUME NEW i \in Flow, ClickRecord(i) \/ FlowStep(i)
      PROVE  OrphanInv'
  BY <1>0, <1>2, ClickRecordOrphan, PrepareOrphan, AcquiredOrphan, StartedOrphan DEF FlowStep
<1>3. ASSUME NEW r \in Rec, Main(r) \/ Chunk(r) \/ WriteChunk(r) \/ LastChunk(r) \/ LateChunk(r)
                           \/ TracksEnd(r)
      PROVE  OrphanInv'
  BY <1>0, <1>3, MainOrphan
<1>4. ASSUME NEW r \in Rec, StopStep(r)
      PROVE  OrphanInv'
  BY <1>0, <1>4, DrainedOrphan, FinalizedOrphan DEF StopStep
<1>5. CASE StopFlow
  BY <1>0, <1>5, StopFlowOrphan
<1>6. ASSUME NEW b \in Buf, StartReplay(b) \/ SaveReplay(b) \/ StopReplay(b)
      PROVE  OrphanInv'
  BY <1>0, <1>6, StartReplayOrphan, SaveReplayOrphan, StopReplayOrphan
<1>7. ASSUME NEW b \in Buf, ReplayStep(b)
      PROVE  OrphanInv'
  BY <1>0, <1>7, ReplayAcquiredOrphan, ReplayBegunOrphan, SaveDrainedOrphan, SaveFinalizedOrphan,
     SaveBegunOrphan, StopDrainedOrphan, StopCleanedOrphan DEF ReplayStep
<1> QED BY <1>1, <1>2, <1>3, <1>4, <1>5, <1>6, <1>7 DEF Next

\* In the app (src/src/App.tsx, src/src/recorder-client.ts) every recording that runs has a flow,
\* a session or a replay buffer that will end it, and the status is that of the flows under way,
\* unless two starts were under way together or a replay began after its buffer was cancelled;
\* but a recording whose MediaRecorder throws on start has nobody.
THEOREM NoneIsOrphan == Spec => []NoOrphan
<1>1. Spec => []OrphanInv
  BY InitHolds, NextHolds, OrphanInit, OrphanNext, PTL DEF Spec
<1>2. OrphanInv => NoOrphan
  <2>1. \A r \in Rec : rec[r].job = "open" => Live(rec[r])
    BY DEF Live
  <2> QED BY <2>1 DEF OrphanInv, Raced, StatusInv, HeldInv, NoOrphan
<1> QED BY <1>1, <1>2, PTL
=============================================================================
