------------------------ MODULE ReplayClient_proofs ------------------------
(* Proofs about the replay client, for every value of its constants.  What *)
(* the renderer shows depends on what can be under way: the kind of each   *)
(* message follows from its type, the ids in it are ids, and the helper    *)
(* creates a snapshot for a click only.                                    *)
EXTENDS ReplayClient, SequenceTheorems, TLAPS

Ops == {"requestSession", "startStream", "stop", "save", "release", "export"}

Engines == {"ready", "crashed", "unavailable"}

\* A snapshot that is released has an id.
Calls == {r \in [op : Ops, arg : Nat, try : Nat] : r.op = "release" => r.arg \in Snapshot}

\* The calls that create no snapshot.
Others == {r \in Calls : r.op # "save"}

\* The releases that wait for their next attempt.
Waiting == {r \in Others : r.op = "release" /\ r.try \in 1 .. Attempts - 1}

KindOf(type) ==
  IF type \in Ops THEN "answer" ELSE IF type \in Engines THEN "engine" ELSE "event"

Mail == {m \in [kind : {"event", "engine", "answer"}, type : Types, id : Nat, ok : BOOLEAN,
                request : Calls \cup {NoRequest}] :
           /\ m.kind = KindOf(m.type)
           /\ m.kind = "answer" => m.request \in Calls /\ m.request.op = m.type
           /\ m.type = "sessionReady" => m.id \in Session
           /\ m.type = "pinned" => m.id \in Snapshot
           /\ (m.type = "save" /\ m.ok) => m.id \in Snapshot
           /\ (m.type = "export" /\ m.ok) => m.id \in Export}

TrafficOK ==
  /\ inbox \in Seq(Mail)
  /\ requests \in Seq(Calls)
  /\ BagToSet(backoff) \subseteq Waiting

IdsOK ==
  /\ v2SessionId \in Session \cup {None} /\ v2SnapshotId \in Snapshot \cup {None}
  /\ v2ExportId \in Export \cup {None}
  /\ session \in 0 .. MaxSessions /\ saved \in Nat /\ snapshots \subseteq Snapshot

\* The state of the renderer, of the helper and of the history.
StatesOK ==
  /\ v2State \in {"BOOTING", "IDLE", "RECORDING", "SAVING", "EXPORTING", "ENGINE_DOWN",
                  "ENGINE_UNAVAILABLE"}
  /\ watchdog \in BOOLEAN
  /\ starting \in {"no", "request", "stream", "ready", "stop"}
  /\ engine \in {"up", "down", "unavailable"} /\ capture \in {"idle", "requested", "recording"}
  /\ export \in [Export -> {"none", "running", "ended", "gone"}]
  /\ of \in [Export -> Snapshot \cup {None}]
  /\ events \in 0 .. MaxEvents /\ restarting \in BOOLEAN
  /\ upsets \subseteq {"overlap", "timeout", "sink", "restart"}

\* A session is counted before the helper captures it, and none is captured
\* without a helper.
CaptureInv ==
  /\ capture # "idle" => session # None
  /\ ~Up => capture = "idle"

\* There is a click for each snapshot and for each save under way: c counts the
\* clicks up to a request.
Counts(c, rs) ==
  /\ saved <= c[0]
  /\ \A k \in 1 .. Len(rs) : c[k - 1] <= c[k] /\ (rs[k].op = "save" => c[k - 1] < c[k])

SavesCounted == \E c \in [0 .. Len(requests) -> 0 .. events] : Counts(c, requests)

-----------------------------------------------------------------------------
(* Sequences, bags and traffic *)

\* Ids are numbers.
LEMMA IdsAreNat ==
  Session \subseteq Nat /\ Snapshot \subseteq Nat /\ Export \subseteq Nat
BY ConstantsAssumption DEF Session, Snapshot, Export

\* Removing a message from a sequence of messages leaves one.
LEMMA RemoveAtType ==
  ASSUME NEW S, NEW s \in Seq(S), NEW k \in DOMAIN s
  PROVE  s[k] \in S /\ RemoveAt(s, k) \in Seq(S)
<1>1. k \in 1 .. Len(s)
  OBVIOUS
<1>2. SubSeq(s, 1, k - 1) \in Seq(S) /\ SubSeq(s, k + 1, Len(s)) \in Seq(S)
  BY <1>1
<1> QED
  BY <1>1, <1>2 DEF RemoveAt

\* What comes after it moves up by one.
LEMMA RemoveAtParts ==
  ASSUME NEW S, NEW s \in Seq(S), NEW k \in DOMAIN s
  PROVE  /\ Len(RemoveAt(s, k)) = Len(s) - 1
         /\ \A j \in 1 .. Len(s) - 1 :
              RemoveAt(s, k)[j] = IF j < k THEN s[j] ELSE s[j + 1]
<1> DEFINE a == SubSeq(s, 1, k - 1)
           b == SubSeq(s, k + 1, Len(s))
<1>1. k \in 1 .. Len(s) /\ Len(s) \in Nat
  OBVIOUS
<1>2. a \in Seq(S) /\ Len(a) = k - 1 /\ \A j \in 1 .. k - 1 : a[j] = s[j]
  BY <1>1
<1>3. b \in Seq(S) /\ Len(b) = Len(s) - k /\ \A j \in 1 .. Len(s) - k : b[j] = s[k + j]
  BY <1>1
<1>4. RemoveAt(s, k) = a \o b
  BY DEF RemoveAt
<1> HIDE DEF a, b
<1>5. \A j \in 1 .. Len(a) + Len(b) : (a \o b)[j] = IF j <= Len(a) THEN a[j] ELSE b[j - Len(a)]
  BY <1>2, <1>3, ConcatProperties
<1>6. Len(a \o b) = Len(a) + Len(b)
  BY <1>2, <1>3, ConcatProperties
<1>7. ASSUME NEW j \in 1 .. Len(s) - 1
      PROVE  (a \o b)[j] = IF j < k THEN s[j] ELSE s[j + 1]
  <2>1. CASE j < k
    BY <2>1, <1>1, <1>2, <1>3, <1>5
  <2>2. CASE ~(j < k)
    <3>1. j - Len(a) \in 1 .. Len(s) - k /\ k + (j - Len(a)) = j + 1 /\ ~(j <= Len(a))
      BY <2>2, <1>1, <1>2
    <3>2. (a \o b)[j] = b[j - Len(a)]
      <4>1. j \in 1 .. Len(a) + Len(b)
        BY <1>1, <1>2, <1>3
      <4> QED
        BY <4>1, <3>1, <1>5
    <3>3. b[j - Len(a)] = s[j + 1]
      BY <3>1, <1>3
    <3> QED
      BY <2>2, <3>2, <3>3
  <2> QED
    BY <2>1, <2>2
<1>8. Len(a \o b) = Len(s) - 1
  BY <1>1, <1>2, <1>3, <1>6
<1> QED
  BY <1>4, <1>7, <1>8, Zenon

\* The calls that create no snapshot are calls.
LEMMA OthersAreCalls ==
  ASSUME NEW rs \in Seq(Others)
  PROVE  rs \in Seq(Calls) /\ \A k \in 1 .. Len(rs) : rs[k].op # "save"
<1>1. Others \subseteq Calls /\ \A r \in Others : r.op # "save"
  BY DEF Others
<1>2. \A k \in 1 .. Len(rs) : rs[k] \in Others
  OBVIOUS
<1> QED
  BY <1>1, <1>2

\* What is rejected is answered, one answer to each call.
LEMMA RejectionsType ==
  ASSUME NEW rs \in Seq(Calls)
  PROVE  /\ Rejections(rs) \in Seq(Mail)
         /\ \A k \in 1 .. Len(Rejections(rs)) : Rejections(rs)[k].kind = "answer"
<1>1. \A r \in Calls : Answer(r, FALSE, None) \in Mail
  BY DEF Answer, Message, Mail, Calls, KindOf, Ops, Types, None
<1>2. rs \in [1 .. Len(rs) -> Calls] /\ Len(rs) \in Nat
  BY LenProperties
<1>3. \A k \in 1 .. Len(rs) : rs[k] \in Calls
  BY <1>2
<1>4. Rejections(rs) \in [1 .. Len(rs) -> Mail]
  BY <1>1, <1>2, <1>3 DEF Rejections
<1>5. Rejections(rs) \in Seq(Mail)
  BY <1>2, <1>4, SeqDef
<1>6. Len(Rejections(rs)) = Len(rs)
  BY <1>2, <1>4, <1>5, LenProperties
<1>7. \A k \in 1 .. Len(rs) : Rejections(rs)[k] = Answer(rs[k], FALSE, None)
  BY <1>2 DEF Rejections
<1>8. \A r \in Calls : Answer(r, FALSE, None).kind = "answer"
  BY DEF Answer, Message
<1> QED
  BY <1>3, <1>5, <1>6, <1>7, <1>8

\* Events and announcements are mail, with the ids that they need.
LEMMA EventsType ==
  /\ \A t \in {"sessionLost", "released", "completed", "failed"}, n \in Nat : Event(t, n) \in Mail
  /\ \A n \in Session : Event("sessionReady", n) \in Mail
  /\ \A n \in Snapshot : Event("pinned", n) \in Mail
  /\ \A t \in Engines : Engine(t) \in Mail
<1> USE DEF Message, Mail, KindOf, Ops, Engines, Types
<1>1. \A t \in {"sessionLost", "released", "completed", "failed"}, n \in Nat : Event(t, n) \in Mail
  BY DEF Event
<1>2. \A n \in Session : Event("sessionReady", n) \in Mail
  BY IdsAreNat DEF Event
<1>3. \A n \in Snapshot : Event("pinned", n) \in Mail
  BY IdsAreNat DEF Event
<1>4. \A t \in Engines : Engine(t) \in Mail
  BY DEF Engine, None
<1> QED
  BY <1>1, <1>2, <1>3, <1>4

\* An answer that says yes to a save or an export bears its id.
LEMMA AnswerType ==
  ASSUME NEW r \in Calls, NEW ok \in BOOLEAN, NEW n \in Nat,
         (ok /\ r.op = "save") => n \in Snapshot,
         (ok /\ r.op = "export") => n \in Export
  PROVE  Answer(r, ok, n) \in Mail /\ Answer(r, ok, n).kind = "answer"
<1>1. r.op \in Ops
  BY DEF Calls
<1>2. Ops \subseteq Types /\ Ops \cap {"sessionReady", "pinned"} = {}
  BY DEF Ops, Types
<1> QED
  BY <1>1, <1>2 DEF Answer, Message, Mail, KindOf

\* The renderer's calls keep the traffic well typed.
LEMMA CallType ==
  ASSUME TrafficOK, NEW rs \in Seq(Calls), NEW ms \in Seq(Mail), Call(rs, ms)
  PROVE  inbox' \in Seq(Mail) /\ requests' \in Seq(Calls)
BY RejectionsType DEF Call, TrafficOK

\* And so do the answers of the helper.
LEMMA ReplyType ==
  ASSUME TrafficOK, NEW op, Serving(op), NEW sent \in Seq(Mail), NEW ok \in BOOLEAN,
         NEW n \in Nat, (ok /\ op = "save") => n \in Snapshot,
         (ok /\ op = "export") => n \in Export, Reply(sent, ok, n)
  PROVE  inbox' \in Seq(Mail) /\ requests' \in Seq(Calls)
<1>1. Head(requests) \in Calls /\ Tail(requests) \in Seq(Calls) /\ Head(requests).op = op
  BY DEF TrafficOK, Serving
<1>2. Answer(Head(requests), ok, n) \in Mail
  BY <1>1, AnswerType
<1> QED
  BY <1>1, <1>2 DEF Reply, TrafficOK

\* The calls of the renderer.
LEMMA CallsType ==
  /\ StopStarted \in Seq(Others) /\ StopClicked \in Seq(Others)
  /\ \A op \in {"requestSession", "startStream", "export"}, a \in Nat :
       <<Request(op, a, 0)>> \in Seq(Others)
  /\ v2SnapshotId \in Snapshot \cup {None} => ReleaseCurrent \in Seq(Others)
  /\ <<Request("save", None, 0)>> \in Seq(Calls)
<1>1. \A op \in {"requestSession", "startStream", "export", "stop"}, a \in Nat :
        Request(op, a, 0) \in Others
  BY DEF Request, Calls, Others, Ops
<1>2. \A s \in Snapshot : Request("release", s, 0) \in Others
  BY IdsAreNat DEF Request, Calls, Others, Ops
<1>3. Request("save", None, 0) \in Calls
  BY DEF Request, Calls, Ops, None
<1> QED
  BY <1>1, <1>2, <1>3 DEF StopStarted, StopClicked, Release, ReleaseCurrent

\* The parts of a message.
LEMMA MailParts ==
  ASSUME NEW m \in Mail
  PROVE  /\ m.type \in Types /\ m.id \in Nat /\ m.ok \in BOOLEAN /\ m.kind = KindOf(m.type)
         /\ m.type \in Ops => m.request \in Calls /\ m.request.op = m.type
         /\ m.type = "sessionReady" => m.id \in Session
         /\ m.type = "pinned" => m.id \in Snapshot
         /\ (m.type = "save" /\ m.ok) => m.id \in Snapshot
         /\ (m.type = "export" /\ m.ok) => m.id \in Export
BY DEF Mail, KindOf

\* A bag changed by one element holds no other.
LEMMA BagType ==
  ASSUME NEW S, NEW B, NEW x, BagToSet(B) \subseteq S
  PROVE  /\ x \in S => BagToSet(BagAdd(B, x)) \subseteq S
         /\ BagToSet(BagRemove(B, x)) \subseteq S
<1>1. BagToSet(BagAdd(B, x)) \subseteq DOMAIN B \cup {x}
  BY DEF BagToSet, BagAdd
<1>2. BagToSet(BagRemove(B, x)) \subseteq DOMAIN B
  BY DEF BagToSet, BagRemove
<1> QED
  BY <1>1, <1>2 DEF BagToSet

-----------------------------------------------------------------------------
(* Clicks and saves *)

\* A save under way is counted by a click.
LEMMA SavesBound ==
  ASSUME requests \in Seq(Calls), SavesCounted, saved \in Nat, events \in 0 .. MaxEvents
  PROVE  /\ saved <= events
         /\ (requests # <<>> /\ Head(requests).op = "save") => saved + 1 \in Snapshot
<1>1. PICK c \in [0 .. Len(requests) -> 0 .. events] : Counts(c, requests)
  BY DEF SavesCounted
<1>2. Len(requests) \in Nat /\ events \in Nat /\ MaxEvents \in Nat /\ events <= MaxEvents
  BY ConstantsAssumption
<1>3. c[0] \in 0 .. events /\ saved <= c[0]
  BY <1>1, <1>2 DEF Counts
<1>4. ASSUME requests # <<>>, Head(requests).op = "save" PROVE saved + 1 \in Snapshot
  <2>1. 1 \in 1 .. Len(requests) /\ requests[1].op = "save"
    BY <1>4
  <2>2. c[1 - 1] < c[1] /\ c[1] \in 0 .. events
    <3>1. c[1 - 1] < c[1]
      BY <1>1, <2>1 DEF Counts
    <3>2. 1 \in 0 .. Len(requests)
      BY <1>2, <2>1
    <3> QED
      BY <3>1, <3>2
  <2>3. c[0] < c[1]
    BY <2>2
  <2> QED
    BY <1>2, <1>3, <2>2, <2>3 DEF Snapshot
<1> QED
  BY <1>2, <1>3, <1>4

\* Calls that create no snapshot leave the count alone, and so does a crash.
LEMMA SavesKept ==
  ASSUME requests \in Seq(Calls), SavesCounted, saved \in Nat, saved' = saved,
         events \in Nat, events' \in Nat, events <= events', NEW rs \in Seq(Others),
         requests' \in {requests, requests \o rs, <<>>}
  PROVE  SavesCounted'
<1>1. PICK c \in [0 .. Len(requests) -> 0 .. events] : Counts(c, requests)
  BY DEF SavesCounted
<1>2. /\ Len(requests) \in Nat /\ Len(rs) \in Nat /\ rs \in Seq(Calls)
      /\ \A k \in 1 .. Len(rs) : rs[k].op # "save"
  BY OthersAreCalls
<1>3. /\ Len(requests \o rs) = Len(requests) + Len(rs)
      /\ \A k \in 1 .. Len(requests) + Len(rs) :
           (requests \o rs)[k] = IF k <= Len(requests) THEN requests[k] ELSE rs[k - Len(requests)]
  BY <1>2, ConcatProperties
<1>4. PICK n \in Nat : /\ Len(requests') = n
                       /\ \A k \in 1 .. n : IF k <= Len(requests) THEN requests'[k] = requests[k]
                                            ELSE requests'[k].op # "save"
  <2>1. CASE requests' = requests
    BY <2>1, <1>2
  <2>2. CASE requests' = <<>>
    BY <2>2
  <2>3. CASE requests' = requests \o rs
    <3>1. Len(requests) + Len(rs) \in Nat
      BY <1>2
    <3>2. ASSUME NEW k \in 1 .. Len(requests) + Len(rs), ~(k <= Len(requests))
          PROVE  (requests \o rs)[k].op # "save"
      <4>1. k - Len(requests) \in 1 .. Len(rs)
        BY <1>2, <3>2
      <4> QED
        BY <1>2, <1>3, <3>2, <4>1
    <3> QED
      BY <1>3, <2>3, <3>1, <3>2
  <2> QED
    BY <2>1, <2>2, <2>3
<1> DEFINE l == Len(requests)
           d == [k \in 0 .. n |-> IF k <= l THEN c[k] ELSE c[l]]
<1>5. /\ l \in Nat /\ \A k \in 0 .. l : c[k] \in 0 .. events
      /\ saved <= c[0]
      /\ \A k \in 1 .. l : c[k - 1] <= c[k] /\ (requests[k].op = "save" => c[k - 1] < c[k])
  BY <1>1, <1>2 DEF Counts
<1> HIDE DEF l
<1>6. d \in [0 .. n -> 0 .. events']
  <2>1. ASSUME NEW k \in 0 .. n PROVE (IF k <= l THEN c[k] ELSE c[l]) \in 0 .. events'
    <3>1. l \in 0 .. l /\ (k <= l => k \in 0 .. l)
      BY <1>5
    <3>2. \A i \in 0 .. l : c[i] \in 0 .. events'
      BY <1>5
    <3> QED
      BY <3>1, <3>2
  <2> QED
    BY <2>1
<1>7. saved <= d[0]
  <2>1. d[0] = c[0]
    BY <1>5
  <2> QED
    BY <1>5, <2>1
<1>8. ASSUME NEW k \in 1 .. n
      PROVE  d[k - 1] <= d[k] /\ (requests'[k].op = "save" => d[k - 1] < d[k])
  <2>1. CASE k <= l
    <3>1. k \in 1 .. l /\ d[k - 1] = c[k - 1] /\ d[k] = c[k]
      BY <1>5, <2>1
    <3>2. requests'[k] = requests[k]
      BY <1>4, <2>1 DEF l
    <3>3. c[k - 1] <= c[k] /\ (requests[k].op = "save" => c[k - 1] < c[k])
      BY <1>5, <3>1
    <3> HIDE DEF d
    <3> QED
      BY <3>1, <3>2, <3>3
  <2>2. CASE ~(k <= l)
    <3>1. requests'[k].op # "save"
      BY <1>4, <2>2 DEF l
    <3>2. d[k - 1] = c[l] /\ d[k] = c[l] /\ c[l] \in Int
      <4>1. k - 1 = l \/ ~(k - 1 <= l)
        BY <1>5, <2>2
      <4>2. k - 1 \in 0 .. n /\ k \in 0 .. n
        OBVIOUS
      <4>3. c[l] \in 0 .. events
        BY <1>5
      <4>4. d[k] = c[l]
        BY <2>2, <4>2
      <4>5. d[k - 1] = IF k - 1 <= l THEN c[k - 1] ELSE c[l]
        BY <4>2
      <4> HIDE DEF d
      <4> QED
        BY <4>1, <4>3, <4>4, <4>5
    <3> HIDE DEF d
    <3> QED
      BY <3>1, <3>2
  <2> QED
    BY <2>1, <2>2
<1> HIDE DEF d
<1> QED
  BY <1>4, <1>6, <1>7, <1>8 DEF SavesCounted, Counts

\* A click is counted before its save is.
LEMMA SavesClicked ==
  ASSUME requests \in Seq(Calls), SavesCounted, saved \in Nat, saved' = saved,
         events \in Nat, events' = events + 1, NEW r, requests' \in {requests, Append(requests, r)}
  PROVE  SavesCounted'
<1>1. PICK c \in [0 .. Len(requests) -> 0 .. events] : Counts(c, requests)
  BY DEF SavesCounted
<1> DEFINE l == Len(requests)
           d == [k \in 0 .. l + 1 |-> IF k <= l THEN c[k] ELSE c[l] + 1]
<1>2. /\ l \in Nat /\ \A k \in 0 .. l : c[k] \in 0 .. events
      /\ saved <= c[0]
      /\ \A k \in 1 .. l : c[k - 1] <= c[k] /\ (requests[k].op = "save" => c[k - 1] < c[k])
  BY <1>1 DEF Counts
<1>3. CASE requests' = requests
  <2>1. c \in [0 .. Len(requests') -> 0 .. events']
    <3>1. 0 .. events \subseteq 0 .. events'
      OBVIOUS
    <3> QED
      BY <1>3, <3>1
  <2> QED
    BY <1>1, <1>3, <2>1 DEF SavesCounted, Counts
<1>4. CASE requests' = Append(requests, r)
  <2>1. /\ Len(requests') = l + 1
        /\ \A k \in 1 .. l : requests'[k] = requests[k]
    BY <1>4
  <2> HIDE DEF l
  <2>2. d \in [0 .. l + 1 -> 0 .. events']
    <3>1. ASSUME NEW k \in 0 .. l + 1 PROVE (IF k <= l THEN c[k] ELSE c[l] + 1) \in 0 .. events'
      <4>1. l \in 0 .. l /\ (k <= l => k \in 0 .. l)
        BY <1>2
      <4>2. c[l] \in 0 .. events /\ (k <= l => c[k] \in 0 .. events)
        BY <1>2, <4>1
      <4> QED
        BY <4>2
    <3> QED
      BY <3>1
  <2>3. saved <= d[0]
    <3>1. d[0] = c[0]
      BY <1>2
    <3> QED
      BY <1>2, <3>1
  <2>4. ASSUME NEW k \in 1 .. l + 1
        PROVE  d[k - 1] <= d[k] /\ (requests'[k].op = "save" => d[k - 1] < d[k])
    <3>1. CASE k <= l
      <4>1. k \in 1 .. l /\ k - 1 <= l /\ k \in 0 .. l + 1 /\ k - 1 \in 0 .. l + 1
        BY <1>2, <3>1
      <4>3. d[k - 1] = c[k - 1] /\ d[k] = c[k]
        BY <3>1, <4>1
      <4>4. requests'[k] = requests[k]
        BY <2>1, <4>1
      <4>2. c[k - 1] <= c[k] /\ (requests[k].op = "save" => c[k - 1] < c[k])
        BY <1>2, <4>1
      <4> HIDE DEF d
      <4> QED
        BY <4>2, <4>3, <4>4
    <3>2. CASE ~(k <= l)
      <4>1. k = l + 1 /\ k - 1 = l /\ l \in 0 .. l
        BY <1>2, <3>2
      <4>2. d[k - 1] = c[l] /\ d[k] = c[l] + 1 /\ c[l] \in Int
        BY <1>2, <4>1
      <4> HIDE DEF d
      <4> QED
        BY <4>2
    <3> QED
      BY <3>1, <3>2
  <2> HIDE DEF d
  <2> QED
    BY <2>1, <2>2, <2>3, <2>4, <1>2 DEF SavesCounted, Counts
<1> QED
  BY <1>3, <1>4

\* A save that is served moves from the one count to the other.
LEMMA SavesServed ==
  ASSUME requests \in Seq(Calls), SavesCounted, saved \in Nat, events \in Nat, events' = events,
         requests # <<>>, requests' = Tail(requests),
         saved' = saved \/ (Head(requests).op = "save" /\ saved' = saved + 1)
  PROVE  SavesCounted'
<1>1. PICK c \in [0 .. Len(requests) -> 0 .. events] : Counts(c, requests)
  BY DEF SavesCounted
<1> DEFINE l == Len(requests)
           d == [k \in 0 .. l - 1 |-> c[k + 1]]
<1>2. /\ l \in Nat \ {0} /\ Head(requests) = requests[1]
      /\ Len(requests') = l - 1 /\ \A k \in 1 .. l - 1 : requests'[k] = requests[k + 1]
  OBVIOUS
<1>3. /\ \A k \in 0 .. l : c[k] \in 0 .. events
      /\ saved <= c[0]
      /\ \A k \in 1 .. l : c[k - 1] <= c[k] /\ (requests[k].op = "save" => c[k - 1] < c[k])
  BY <1>1, <1>2 DEF Counts
<1> HIDE DEF l
<1>4. d \in [0 .. l - 1 -> 0 .. events']
  <2>1. \A k \in 0 .. l - 1 : k + 1 \in 0 .. l
    BY <1>2
  <2> QED
    BY <1>3, <2>1
<1>5. saved' <= d[0]
  <2>1. d[0] = c[1] /\ 1 \in 1 .. l /\ 0 \in 0 .. l /\ 1 \in 0 .. l
    BY <1>2
  <2>2. c[0] <= c[1] /\ (requests[1].op = "save" => c[0] < c[1]) /\ c[0] \in Nat /\ c[1] \in Nat
    <3>1. c[1 - 1] <= c[1] /\ (requests[1].op = "save" => c[1 - 1] < c[1])
      BY <1>3, <2>1
    <3>2. c[0] \in 0 .. events /\ c[1] \in 0 .. events
      BY <1>3, <2>1
    <3> QED
      BY <3>1, <3>2
  <2> HIDE DEF d
  <2> QED
    BY <1>2, <1>3, <2>1, <2>2
<1>6. ASSUME NEW k \in 1 .. l - 1
      PROVE  d[k - 1] <= d[k] /\ (requests'[k].op = "save" => d[k - 1] < d[k])
  <2>1. /\ k + 1 \in 1 .. l /\ d[k - 1] = c[(k + 1) - 1] /\ d[k] = c[k + 1]
        /\ requests'[k] = requests[k + 1]
    BY <1>2
  <2>2. c[(k + 1) - 1] <= c[k + 1] /\ (requests[k + 1].op = "save" => c[(k + 1) - 1] < c[k + 1])
    BY <1>3, <2>1
  <2> HIDE DEF d
  <2> QED
    BY <2>1, <2>2
<1> HIDE DEF d
<1> QED
  BY <1>2, <1>4, <1>5, <1>6 DEF SavesCounted, Counts

-----------------------------------------------------------------------------
(* Types, for every step *)

TypeInv == TrafficOK /\ IdsOK /\ StatesOK /\ CaptureInv /\ SavesCounted

\* What the renderer leaves alone when it receives a message.
HelperKept == UNCHANGED <<helperVars, engineVars, events>>

\* It holds at the start.
LEMMA InitType == Init => TypeInv
<1> SUFFICES ASSUME Init PROVE TypeInv
  OBVIOUS
<1>1. TrafficOK
  <2>1. Engine("ready") \in Mail
    BY EventsType DEF Engines
  <2>2. BagToSet(backoff) = {}
    BY DEF Init, EmptyBag, SetToBag, BagToSet
  <2> QED
    BY <2>1, <2>2 DEF Init, TrafficOK
<1>2. IdsOK
  BY ConstantsAssumption DEF Init, IdsOK
<1>3. StatesOK
  <2>1. /\ export \in [Export -> {"none", "running", "ended", "gone"}]
        /\ of \in [Export -> Snapshot \cup {None}]
    BY DEF Init
  <2>2. events \in 0 .. MaxEvents /\ upsets = {}
    BY ConstantsAssumption DEF Init
  <2>3. /\ v2State = "BOOTING" /\ watchdog = FALSE /\ starting = "no"
        /\ engine = "up" /\ capture = "idle" /\ restarting = FALSE
    BY DEF Init
  <2> QED
    BY <2>1, <2>2, <2>3 DEF StatesOK
<1>4. CaptureInv
  BY DEF Init, CaptureInv, Up
<1>5. SavesCounted
  <2> DEFINE c == [k \in 0 .. 0 |-> 0]
  <2>1. requests = <<>> /\ saved = 0 /\ events = 0
    BY DEF Init
  <2>2. c \in [0 .. 0 -> 0 .. 0] /\ c[0] = 0
    OBVIOUS
  <2> HIDE DEF c
  <2>3. Counts(c, <<>>)
    BY <2>1, <2>2 DEF Counts
  <2> QED
    BY <2>1, <2>2, <2>3 DEF SavesCounted
<1> QED
  BY <1>1, <1>2, <1>3, <1>4, <1>5 DEF TypeInv

\* A step that changes nothing but the renderer keeps the rest.
LEMMA HelperKeptType ==
  ASSUME IdsOK, StatesOK, CaptureInv, HelperKept
  PROVE  /\ CaptureInv' /\ events' = events /\ saved' = saved
         /\ session' \in 0 .. MaxSessions /\ saved' \in Nat /\ snapshots' \subseteq Snapshot
         /\ engine' \in {"up", "down", "unavailable"}
         /\ capture' \in {"idle", "requested", "recording"}
         /\ export' \in [Export -> {"none", "running", "ended", "gone"}]
         /\ of' \in [Export -> Snapshot \cup {None}]
         /\ events' \in 0 .. MaxEvents /\ restarting' \in BOOLEAN
BY DEF IdsOK, StatesOK, CaptureInv, HelperKept, helperVars, engineVars, Up

\* The next state of the renderer is one that it has.
LEMMA SetStateType ==
  ASSUME StatesOK, NEW s, SetV2State(s),
         s \in {"BOOTING", "IDLE", "RECORDING", "SAVING", "EXPORTING", "ENGINE_DOWN",
                "ENGINE_UNAVAILABLE"}
  PROVE  /\ v2State' \in {"BOOTING", "IDLE", "RECORDING", "SAVING", "EXPORTING", "ENGINE_DOWN",
                         "ENGINE_UNAVAILABLE"}
         /\ starting' \in {"no", "request", "stream", "ready", "stop"}
BY DEF StatesOK, SetV2State

\* The message that is received.
Received(k) ==
  \/ OnReady(k) \/ OnEngineLost(k) \/ OnSessionReady(k) \/ OnSessionLost(k)
  \/ OnSnapshotPinned(k) \/ OnSnapshotReleased(k) \/ OnExportEnded(k)
  \/ OnSaveAnswer(k) \/ OnExportAnswer(k) \/ OnReleaseAnswer(k)
  \/ OnRequestSessionAnswer(k) \/ OnStartStreamAnswer(k) \/ OnStopAnswer(k)

\* A message that is received is answered with calls that create no snapshot,
\* and the helper is left alone.
LEMMA ReceivedCalls ==
  ASSUME TypeInv, NEW k \in DOMAIN inbox, Received(k)
  PROVE  /\ \E rs \in Seq(Others) : Call(rs, RemoveAt(inbox, k))
         /\ HelperKept
<1>1. inbox[k] \in Mail
  BY RemoveAtType DEF TypeInv, TrafficOK
<1>2. /\ <<>> \in Seq(Others) /\ ReleaseCurrent \in Seq(Others) /\ StopStarted \in Seq(Others)
      /\ \A a \in Nat : <<Request("export", a, 0)>> \in Seq(Others)
      /\ <<Request("startStream", None, 0)>> \in Seq(Others)
  BY CallsType DEF TypeInv, IdsOK, None
<1>3. inbox[k].id \in Nat
  BY <1>1, MailParts
<1> USE DEF HelperKept, Receive
<1>4. CASE OnReady(k) \/ OnEngineLost(k) \/ OnSessionReady(k) \/ OnSessionLost(k)
  BY <1>2, <1>4 DEF OnReady, OnEngineLost, OnSessionReady, OnSessionLost
<1>5. CASE OnSnapshotPinned(k)
  BY <1>2, <1>3, <1>5 DEF OnSnapshotPinned
<1>6. CASE OnSnapshotReleased(k) \/ OnReleaseAnswer(k) \/ OnStopAnswer(k)
  BY <1>2, <1>6 DEF OnSnapshotReleased, OnReleaseAnswer, OnStopAnswer
<1>7. CASE OnExportEnded(k)
  BY <1>2, <1>7 DEF OnExportEnded
<1>8. CASE OnSaveAnswer(k)
  BY <1>2, <1>3, <1>8 DEF OnSaveAnswer
<1>9. CASE OnExportAnswer(k)
  BY <1>2, <1>9 DEF OnExportAnswer
<1>10. CASE OnRequestSessionAnswer(k)
  BY <1>2, <1>10 DEF OnRequestSessionAnswer
<1>11. CASE OnStartStreamAnswer(k)
  BY <1>2, <1>11 DEF OnStartStreamAnswer
<1> QED
  BY <1>4, <1>5, <1>6, <1>7, <1>8, <1>9, <1>10, <1>11 DEF Received

\* The ids that the renderer takes from a message are ids.
LEMMA ReceivedIds ==
  ASSUME TypeInv, NEW k \in DOMAIN inbox, Received(k)
  PROVE  /\ v2SessionId' \in Session \cup {None}
         /\ v2SnapshotId' \in Snapshot \cup {None}
         /\ v2ExportId' \in Export \cup {None}
<1>1. inbox[k] \in Mail
  BY RemoveAtType DEF TypeInv, TrafficOK
<1>2. /\ inbox[k].type = "sessionReady" => inbox[k].id \in Session
      /\ inbox[k].type = "pinned" => inbox[k].id \in Snapshot
      /\ (inbox[k].type = "save" /\ inbox[k].ok) => inbox[k].id \in Snapshot
      /\ (inbox[k].type = "export" /\ inbox[k].ok) => inbox[k].id \in Export
  BY <1>1, MailParts
<1>3. /\ v2SessionId \in Session \cup {None} /\ v2SnapshotId \in Snapshot \cup {None}
      /\ v2ExportId \in Export \cup {None}
  BY DEF TypeInv, IdsOK
<1> USE DEF Receive, idVars
<1>4. CASE OnReady(k) \/ OnReleaseAnswer(k) \/ OnRequestSessionAnswer(k)
           \/ OnStartStreamAnswer(k) \/ OnStopAnswer(k)
  BY <1>3, <1>4 DEF OnReady, OnReleaseAnswer, OnRequestSessionAnswer, OnStartStreamAnswer,
     OnStopAnswer
<1>5. CASE OnEngineLost(k) \/ OnSessionReady(k) \/ OnSessionLost(k)
  BY <1>2, <1>3, <1>5 DEF OnEngineLost, OnSessionReady, OnSessionLost
<1>6. CASE OnSnapshotPinned(k) \/ OnSnapshotReleased(k)
  BY <1>2, <1>3, <1>6 DEF OnSnapshotPinned, OnSnapshotReleased, TakeSnapshot
<1>7. CASE OnExportEnded(k)
  BY <1>3, <1>7 DEF OnExportEnded
<1>8. CASE OnSaveAnswer(k)
  BY <1>2, <1>3, <1>8 DEF OnSaveAnswer, TakeSnapshot
<1>9. CASE OnExportAnswer(k)
  BY <1>2, <1>3, <1>9 DEF OnExportAnswer, ExportRejected
<1> QED
  BY <1>4, <1>5, <1>6, <1>7, <1>8, <1>9 DEF Received

\* The renderer is in one of its states afterwards.
LEMMA ReceivedStates ==
  ASSUME TypeInv, NEW k \in DOMAIN inbox, Received(k)
  PROVE  /\ v2State' \in {"BOOTING", "IDLE", "RECORDING", "SAVING", "EXPORTING", "ENGINE_DOWN",
                         "ENGINE_UNAVAILABLE"}
         /\ watchdog' \in BOOLEAN
         /\ starting' \in {"no", "request", "stream", "ready", "stop"}
         /\ upsets' \subseteq {"overlap", "timeout", "sink", "restart"}
<1>1. /\ v2State \in {"BOOTING", "IDLE", "RECORDING", "SAVING", "EXPORTING", "ENGINE_DOWN",
                     "ENGINE_UNAVAILABLE"}
      /\ watchdog \in BOOLEAN
      /\ starting \in {"no", "request", "stream", "ready", "stop"}
      /\ upsets \subseteq {"overlap", "timeout", "sink", "restart"}
  BY DEF TypeInv, StatesOK
<1> USE DEF SetV2State, stateVars
<1>2. CASE OnReady(k) \/ OnReleaseAnswer(k) \/ OnRequestSessionAnswer(k)
           \/ OnStartStreamAnswer(k) \/ OnStopAnswer(k)
  BY <1>1, <1>2 DEF OnReady, OnReleaseAnswer, OnRequestSessionAnswer, OnStartStreamAnswer,
     OnStopAnswer
<1>3. CASE OnEngineLost(k) \/ OnSessionReady(k) \/ OnSessionLost(k)
  BY <1>1, <1>3 DEF OnEngineLost, OnSessionReady, OnSessionLost
<1>4. CASE OnSnapshotPinned(k) \/ OnSnapshotReleased(k)
  BY <1>1, <1>4 DEF OnSnapshotPinned, OnSnapshotReleased, TakeSnapshot
<1>5. CASE OnExportEnded(k)
  BY <1>1, <1>5 DEF OnExportEnded, AfterExport
<1>6. CASE OnSaveAnswer(k)
  BY <1>1, <1>6 DEF OnSaveAnswer, TakeSnapshot
<1>7. CASE OnExportAnswer(k)
  BY <1>1, <1>7 DEF OnExportAnswer, ExportRejected, AfterExport
<1> QED
  BY <1>2, <1>3, <1>4, <1>5, <1>6, <1>7 DEF Received

\* A release that is refused waits, unless it was the last attempt.
LEMMA ReceivedBackoff ==
  ASSUME TypeInv, NEW k \in DOMAIN inbox, Received(k)
  PROVE  BagToSet(backoff') \subseteq Waiting
<1>1. BagToSet(backoff) \subseteq Waiting
  BY DEF TypeInv, TrafficOK
<1>2. CASE OnReleaseAnswer(k)
  <2> DEFINE q == inbox[k].request
             r == [q EXCEPT !.try = @ + 1]
  <2>1. q \in Calls /\ q.op = "release"
    <3>1. inbox[k] \in Mail
      BY RemoveAtType DEF TypeInv, TrafficOK
    <3>2. inbox[k].type = "release"
      BY <1>2 DEF OnReleaseAnswer, Receive
    <3> QED
      BY <3>1, <3>2, MailParts DEF Ops
  <2>2. backoff' = backoff \/ (backoff' = BagAdd(backoff, r) /\ q.try + 1 < Attempts)
    BY <1>2 DEF OnReleaseAnswer
  <2>3. q.try + 1 < Attempts => r \in Waiting
    <3> HIDE DEF q
    <3>1. q \in [op : Ops, arg : Nat, try : Nat] /\ q.arg \in Snapshot /\ Attempts \in Nat
      BY <2>1, ConstantsAssumption DEF Calls
    <3>2. r \in [op : Ops, arg : Nat, try : Nat] /\ r.op = "release" /\ r.arg = q.arg
          /\ r.try = q.try + 1 /\ q.try \in Nat
      BY <2>1, <3>1
    <3> HIDE DEF r
    <3> QED
      BY <3>1, <3>2 DEF Waiting, Others, Calls
  <2> HIDE DEF q, r
  <2> QED
    BY <1>1, <2>2, <2>3, BagType
<1>3. CASE ~OnReleaseAnswer(k)
  <2>1. backoff' = backoff
    BY <1>3 DEF Received, OnReady, OnEngineLost, OnSessionReady, OnSessionLost,
       OnSnapshotPinned, OnSnapshotReleased, OnExportEnded, OnSaveAnswer, OnExportAnswer,
       OnRequestSessionAnswer, OnStartStreamAnswer, OnStopAnswer
  <2> QED
    BY <1>1, <2>1
<1> QED
  BY <1>2, <1>3

\* What the renderer receives keeps the types.
LEMMA ReceivedType ==
  ASSUME TypeInv, NEW k \in DOMAIN inbox, Received(k) PROVE TypeInv'
<1>1. TrafficOK /\ IdsOK /\ StatesOK /\ CaptureInv /\ SavesCounted
  BY DEF TypeInv
<1>2. PICK rs \in Seq(Others) : Call(rs, RemoveAt(inbox, k))
  BY ReceivedCalls
<1>3. HelperKept
  BY ReceivedCalls
<1>4. TrafficOK'
  <2>1. rs \in Seq(Calls) /\ RemoveAt(inbox, k) \in Seq(Mail)
    BY <1>1, OthersAreCalls, RemoveAtType DEF TrafficOK
  <2>2. inbox' \in Seq(Mail) /\ requests' \in Seq(Calls)
    BY <1>1, <1>2, <2>1, CallType
  <2> QED
    BY <2>2, ReceivedBackoff DEF TrafficOK
<1>5. IdsOK' /\ StatesOK' /\ CaptureInv'
  BY <1>1, <1>3, HelperKeptType, ReceivedIds, ReceivedStates DEF IdsOK, StatesOK
<1>6. SavesCounted'
  <2>1. requests' \in {requests, requests \o rs, <<>>}
    BY <1>2 DEF Call
  <2>2. events' = events /\ saved' = saved /\ events \in Nat /\ saved \in Nat
        /\ requests \in Seq(Calls)
    BY <1>1, <1>3, HelperKeptType DEF StatesOK, IdsOK, TrafficOK
  <2> QED
    BY <1>1, <2>1, <2>2, SavesKept
<1> QED
  BY <1>4, <1>5, <1>6 DEF TypeInv

\* Timers and clicks keep them too.
LEMMA RendererType ==
  ASSUME TypeInv, Retry \/ ExportWatchdog \/ StartTimeout \/ Click
  PROVE  TypeInv'
<1>1. TrafficOK /\ IdsOK /\ StatesOK /\ CaptureInv /\ SavesCounted
  BY DEF TypeInv
<1>2. /\ requests \in Seq(Calls) /\ inbox \in Seq(Mail) /\ BagToSet(backoff) \subseteq Waiting
      /\ saved \in Nat /\ events \in Nat /\ events \in 0 .. MaxEvents
  BY <1>1 DEF TrafficOK, IdsOK, StatesOK
<1>3. CASE Retry \/ ExportWatchdog \/ StartTimeout \/ ClickStart \/ ClickStop
  <2>1. HelperKept
    BY <1>3 DEF Retry, RetryRelease, ExportWatchdog, StartTimeout, ClickStart, ClickStop,
       UnchangedByTimer, HelperKept
  <2>2. PICK rs \in Seq(Others) :
          Call(rs, inbox) \/ (requests' = requests /\ inbox' = inbox)
    <3>1. /\ StopStarted \in Seq(Others) /\ StopClicked \in Seq(Others)
          /\ ReleaseCurrent \in Seq(Others)
          /\ <<Request("requestSession", None, 0)>> \in Seq(Others) /\ <<>> \in Seq(Others)
      BY <1>1, CallsType DEF IdsOK, None
    <3>2. CASE Retry
      <4>1. PICK r \in BagToSet(backoff) : RetryRelease(r)
        BY <3>2 DEF Retry
      <4>2. <<r>> \in Seq(Others)
        BY <1>2 DEF Waiting
      <4> QED
        BY <4>1, <4>2 DEF RetryRelease
    <3>3. CASE ExportWatchdog \/ StartTimeout \/ ClickStart \/ ClickStop
      BY <3>1, <3>3 DEF ExportWatchdog, StartTimeout, ClickStart, ClickStop, trafficVars
    <3> QED
      BY <1>3, <3>2, <3>3
  <2>3. rs \in Seq(Calls)
    BY OthersAreCalls
  <2>4. inbox' \in Seq(Mail) /\ requests' \in Seq(Calls)
    BY <1>1, <1>2, <2>2, <2>3, CallType
  <2>5. BagToSet(backoff') \subseteq Waiting
    <3>1. CASE Retry
      BY <1>2, <3>1, BagType DEF Retry, RetryRelease
    <3>2. CASE ~Retry
      BY <1>2, <1>3, <3>2 DEF ExportWatchdog, StartTimeout, ClickStart, ClickStop
    <3> QED
      BY <3>1, <3>2
  <2>6. IdsOK'
    <3>1. /\ v2SessionId' = v2SessionId /\ v2SnapshotId' = v2SnapshotId
          /\ v2ExportId' \in {None, v2ExportId}
      BY <1>3 DEF Retry, RetryRelease, ExportWatchdog, StartTimeout, ClickStart, ClickStop, idVars
    <3> QED
      BY <1>1, <2>1, <3>1, HelperKeptType DEF IdsOK
  <2>7. StatesOK'
    <3>1. /\ v2State' \in {"BOOTING", "IDLE", "RECORDING", "SAVING", "EXPORTING", "ENGINE_DOWN",
                          "ENGINE_UNAVAILABLE"}
          /\ watchdog' \in BOOLEAN
          /\ starting' \in {"no", "request", "stream", "ready", "stop"}
      BY <1>1, <1>3 DEF StatesOK, Retry, RetryRelease, ExportWatchdog, StartTimeout, ClickStart,
         ClickStop, SetV2State, AfterExport, stateVars
    <3>2. upsets' \in {upsets, upsets \cup {"timeout"}}
      BY <1>3 DEF Retry, RetryRelease, ExportWatchdog, StartTimeout, ClickStart, ClickStop
    <3>3. upsets' \subseteq {"overlap", "timeout", "sink", "restart"}
      BY <1>1, <3>2 DEF StatesOK
    <3> QED
      BY <1>1, <2>1, <3>1, <3>3, HelperKeptType DEF StatesOK
  <2>8. SavesCounted'
    <3>1. requests' \in {requests, requests \o rs, <<>>}
      BY <2>2 DEF Call
    <3>2. events' = events /\ saved' = saved
      BY <1>1, <2>1, HelperKeptType
    <3> QED
      BY <1>1, <1>2, <3>1, <3>2, SavesKept
  <2> QED
    BY <1>1, <2>1, <2>4, <2>5, <2>6, <2>7, <2>8, HelperKeptType DEF TypeInv, TrafficOK
<1>4. CASE ClickSave
  <2> DEFINE r == Request("save", None, 0)
  <2>1. <<r>> \in Seq(Calls) /\ r \in Calls
    BY CallsType DEF Request, Calls, Ops, None
  <2>2. /\ Call(<<r>>, inbox) /\ events < MaxEvents /\ events' = events + 1
        /\ UNCHANGED <<idVars, watchdog, backoff, helperVars, engineVars, upsets>>
        /\ SetV2State("SAVING")
    BY <1>4 DEF ClickSave, Count
  <2> HIDE DEF r
  <2>3. inbox' \in Seq(Mail) /\ requests' \in Seq(Calls)
    BY <1>1, <1>2, <2>1, <2>2, CallType
  <2>4. IdsOK' /\ CaptureInv'
    BY <1>1, <2>2 DEF IdsOK, CaptureInv, Up, idVars, helperVars, engineVars
  <2>5. StatesOK'
    <3>1. events' \in 0 .. MaxEvents
      BY <1>2, <2>2, ConstantsAssumption
    <3>2. v2State' = "SAVING" /\ starting' \in {"no", "request", "stream", "ready", "stop"}
      BY <1>1, <2>2 DEF StatesOK, SetV2State
    <3>3. UNCHANGED <<watchdog, engine, capture, export, of, restarting, upsets>>
      BY <2>2 DEF helperVars, engineVars
    <3> QED
      BY <1>1, <3>1, <3>2, <3>3 DEF StatesOK
  <2>6. SavesCounted'
    <3>1. requests' \in {requests, Append(requests, r)}
      <4>1. requests \o <<r>> = Append(requests, r)
        BY <1>2, <2>1
      <4> QED
        BY <2>2, <4>1 DEF Call
    <3>2. saved' = saved
      BY <2>2 DEF helperVars
    <3> QED
      BY <1>1, <1>2, <2>2, <3>1, <3>2, SavesClicked
  <2>7. backoff' = backoff
    BY <2>2
  <2> QED
    BY <1>2, <2>3, <2>4, <2>5, <2>6, <2>7 DEF TypeInv, TrafficOK
<1>5. CASE ClickRestart
  <2>1. /\ events' = events + 1 /\ events < MaxEvents /\ restarting' = TRUE
        /\ UNCHANGED <<stateVars, idVars, watchdog, backoff, trafficVars, helperVars, engine,
                       upsets>>
    BY <1>5 DEF ClickRestart, Count
  <2>2. TrafficOK' /\ IdsOK' /\ CaptureInv'
    BY <1>1, <2>1 DEF TrafficOK, IdsOK, CaptureInv, Up, idVars, helperVars, trafficVars
  <2>3. StatesOK'
    <3>1. events' \in 0 .. MaxEvents
      BY <1>2, <2>1, ConstantsAssumption
    <3>2. UNCHANGED <<v2State, starting, watchdog, engine, capture, export, of, upsets>>
      BY <2>1 DEF helperVars, stateVars
    <3> QED
      BY <1>1, <2>1, <3>1, <3>2 DEF StatesOK
  <2>4. SavesCounted'
    <3>1. requests' = requests /\ saved' = saved
      BY <2>1 DEF helperVars, trafficVars
    <3> QED
      BY <1>1, <1>2, <2>1, <3>1, SavesClicked
  <2> QED
    BY <2>2, <2>3, <2>4 DEF TypeInv
<1> QED
  BY <1>3, <1>4, <1>5, <1>1 DEF Click

\* What the helper leaves alone.
RendererKept == UNCHANGED <<stateVars, idVars, watchdog, backoff>>

\* A step of the helper keeps the types if what it changes has them.
LEMMA HelperType ==
  ASSUME TypeInv, RendererKept,
         inbox' \in Seq(Mail), requests' \in Seq(Calls),
         session' \in 0 .. MaxSessions, saved' \in Nat, snapshots' \subseteq Snapshot,
         engine' \in {"up", "down", "unavailable"}, restarting' \in BOOLEAN,
         capture' \in {"idle", "requested", "recording"},
         export' \in [Export -> {"none", "running", "ended", "gone"}],
         of' \in [Export -> Snapshot \cup {None}],
         events' \in 0 .. MaxEvents,
         upsets' \in {upsets, upsets \cup {"sink"}, upsets \cup {"restart"}},
         SavesCounted', CaptureInv'
  PROVE  TypeInv'
<1>1. TrafficOK /\ IdsOK /\ StatesOK
  BY DEF TypeInv
<1>2. TrafficOK'
  BY <1>1 DEF TrafficOK, RendererKept
<1>3. IdsOK'
  BY <1>1 DEF IdsOK, RendererKept, idVars
<1>4. StatesOK'
  <2>1. /\ v2State' = v2State /\ watchdog' = watchdog /\ starting' = starting
    BY DEF RendererKept, stateVars
  <2>2. upsets' \subseteq {"overlap", "timeout", "sink", "restart"}
    BY <1>1 DEF StatesOK
  <2> QED
    BY <1>1, <2>1, <2>2 DEF StatesOK
<1> QED
  BY <1>2, <1>3, <1>4 DEF TypeInv

\* What the helper answers keeps the types.
LEMMA ServeType ==
  ASSUME TypeInv, Serve PROVE TypeInv'
<1>1. TrafficOK /\ IdsOK /\ StatesOK /\ CaptureInv /\ SavesCounted
  BY DEF TypeInv
<1>2. RendererKept /\ UNCHANGED <<engineVars, events, upsets>>
  BY DEF Serve, RequestSession, StartStream, StopSession, Save, SnapshotRelease, ExportStart,
     UnchangedByHelper, RendererKept
<1>3. /\ engine' \in {"up", "down", "unavailable"} /\ restarting' \in BOOLEAN
      /\ events' \in 0 .. MaxEvents /\ events' = events /\ upsets' = upsets
      /\ requests \in Seq(Calls) /\ events \in Nat /\ events \in 0 .. MaxEvents
      /\ saved \in Nat
  BY <1>1, <1>2 DEF StatesOK, IdsOK, TrafficOK, engineVars
<1>4. /\ session \in 0 .. MaxSessions /\ saved \in Nat /\ snapshots \subseteq Snapshot
      /\ capture \in {"idle", "requested", "recording"}
      /\ export \in [Export -> {"none", "running", "ended", "gone"}]
      /\ of \in [Export -> Snapshot \cup {None}]
  BY <1>1 DEF IdsOK, StatesOK
<1>5. Up
  BY DEF Serve, RequestSession, StartStream, StopSession, Save, SnapshotRelease, ExportStart,
     Serving
<1>6. <<>> \in Seq(Mail) /\ None \in Nat /\ session \in Nat
  BY <1>4, ConstantsAssumption DEF None
<1>7. <<Event("sessionLost", session)>> \in Seq(Mail)
  BY <1>6, EventsType
\* Unless a snapshot is created.
<1>8. ASSUME requests # <<>>, requests' = Tail(requests), saved' = saved PROVE SavesCounted'
  BY <1>1, <1>3, <1>8, SavesServed
<1>9. ASSUME session' = session, capture' = "idle" \/ session # None PROVE CaptureInv'
  BY <1>1, <1>2, <1>5, <1>9 DEF CaptureInv, Up, engineVars
<1>10. CASE RequestSession
  <2>1. PICK ok \in BOOLEAN, sent \in Seq(Mail) :
          Serving("requestSession") /\ Reply(sent, ok, None)
    BY <1>6, <1>10 DEF RequestSession
  <2>2. inbox' \in Seq(Mail) /\ requests' \in Seq(Calls)
    BY <1>1, <1>6, <2>1, ReplyType
  <2>3. SavesCounted'
    BY <1>8, <1>10, <2>1 DEF Serving, Reply, RequestSession
  <2>4. UNCHANGED <<saved, snapshots, export, of>>
    BY <1>10 DEF RequestSession
  <2>5. /\ session' \in 0 .. MaxSessions /\ capture' \in {"idle", "requested", "recording"}
        /\ CaptureInv'
    <3>1. CASE capture' = "requested" /\ session' = session + 1 /\ session < MaxSessions
      <4>1. session' \in 0 .. MaxSessions /\ session' # None
        BY <1>4, <3>1, ConstantsAssumption DEF None
      <4> QED
        BY <1>2, <1>5, <3>1, <4>1 DEF CaptureInv, Up, engineVars
    <3>2. CASE UNCHANGED <<capture, session>>
      BY <1>1, <1>2, <1>4, <3>2 DEF CaptureInv, Up, engineVars
    <3> QED
      BY <1>10, <3>1, <3>2 DEF RequestSession
  <2> QED
    BY <1>2, <1>3, <1>4, <2>2, <2>3, <2>4, <2>5, HelperType
<1>11. CASE StartStream
  <2>1. UNCHANGED <<session, saved, snapshots, export, of>>
    BY <1>11 DEF StartStream
  <2>2. PICK ok \in BOOLEAN, sent \in Seq(Mail) : Serving("startStream") /\ Reply(sent, ok, None)
    <3>1. capture = "requested" => session \in Session
      BY <1>1, <1>4 DEF CaptureInv, Session, None
    <3>2. capture = "requested" => <<Event("sessionReady", session)>> \in Seq(Mail)
      BY <3>1, EventsType
    <3> QED
      BY <1>6, <1>7, <1>11, <3>2 DEF StartStream
  <2>3. inbox' \in Seq(Mail) /\ requests' \in Seq(Calls)
    BY <1>1, <1>6, <2>2, ReplyType
  <2>4. SavesCounted'
    BY <1>8, <2>1, <2>2 DEF Serving, Reply
  <2>5. capture' \in {"idle", "requested", "recording"} /\ CaptureInv'
    <3>1. \/ capture' = "idle" \/ capture' = capture
          \/ capture = "requested" /\ capture' = "recording"
      BY <1>11 DEF StartStream
    <3>2. capture' = "idle" \/ session # None
      BY <1>1, <3>1 DEF CaptureInv
    <3> QED
      BY <1>4, <1>9, <2>1, <3>1, <3>2
  <2> QED
    BY <1>2, <1>3, <1>4, <2>1, <2>3, <2>4, <2>5, HelperType
<1>12. CASE StopSession
  <2>1. UNCHANGED <<session, saved, snapshots, export, of>> /\ capture' = "idle"
    BY <1>12 DEF StopSession
  <2>2. PICK ok \in BOOLEAN, sent \in Seq(Mail) : Serving("stop") /\ Reply(sent, ok, None)
    BY <1>6, <1>7, <1>12 DEF StopSession
  <2>3. inbox' \in Seq(Mail) /\ requests' \in Seq(Calls)
    BY <1>1, <1>6, <2>2, ReplyType
  <2>4. SavesCounted'
    BY <1>8, <2>1, <2>2 DEF Serving, Reply
  <2>5. CaptureInv'
    BY <1>9, <2>1
  <2> QED
    BY <1>2, <1>3, <1>4, <2>1, <2>3, <2>4, <2>5, HelperType
<1>13. CASE Save
  <2>1. UNCHANGED <<capture, session, export, of>> /\ CaptureInv'
    <3>1. UNCHANGED <<capture, session, export, of>>
      BY <1>13 DEF Save
    <3> QED
      BY <1>1, <1>9, <3>1 DEF CaptureInv
  <2>2. /\ requests # <<>> /\ Head(requests).op = "save" /\ Serving("save")
        /\ requests' = Tail(requests)
    BY <1>13 DEF Save, Serving, Reply
  <2>3. saved + 1 \in Snapshot
    BY <1>1, <1>3, <2>2, SavesBound
  <2>4. saved' \in {saved, saved + 1} /\ SavesCounted'
    <3>1. saved' = saved \/ saved' = saved + 1
      BY <1>13 DEF Save
    <3> QED
      BY <1>1, <1>3, <2>2, <3>1, SavesServed
  <2>5. snapshots' \subseteq Snapshot
    BY <1>4, <1>13, <2>3 DEF Save
  <2>6. PICK ok \in BOOLEAN, sent \in Seq(Mail), n \in Nat :
          Reply(sent, ok, n) /\ (ok => n \in Snapshot)
    <3>1. saved + 1 \in Nat /\ <<Event("pinned", saved + 1)>> \in Seq(Mail)
      BY <1>4, <2>3, EventsType
    <3> QED
      BY <1>6, <1>13, <2>3, <3>1 DEF Save
  <2>7. inbox' \in Seq(Mail) /\ requests' \in Seq(Calls)
    BY <1>1, <2>2, <2>6, ReplyType
  <2>8. saved' \in Nat
    BY <1>4, <2>4
  <2> QED
    BY <1>2, <1>3, <1>4, <2>1, <2>4, <2>5, <2>7, <2>8, HelperType
<1>14. CASE SnapshotRelease
  <2>1. UNCHANGED <<capture, session, saved, export, of>> /\ CaptureInv'
    <3>1. UNCHANGED <<capture, session, saved, export, of>>
      BY <1>14 DEF SnapshotRelease
    <3> QED
      BY <1>1, <1>9, <3>1 DEF CaptureInv
  <2>2. PICK ok \in BOOLEAN, sent \in Seq(Mail) : Serving("release") /\ Reply(sent, ok, None)
    <3>1. Serving("release") => Head(requests) \in Calls
      BY <1>1 DEF TrafficOK, Serving
    <3>2. Serving("release") => Head(requests).arg \in Nat
      BY <3>1 DEF Calls
    <3>3. Serving("release") => <<Event("released", Head(requests).arg)>> \in Seq(Mail)
      BY <3>2, EventsType
    <3> QED
      BY <1>6, <1>14, <3>3 DEF SnapshotRelease
  <2>3. inbox' \in Seq(Mail) /\ requests' \in Seq(Calls)
    BY <1>1, <1>6, <2>2, ReplyType
  <2>4. SavesCounted'
    BY <1>8, <2>1, <2>2 DEF Serving, Reply
  <2>5. snapshots' \subseteq Snapshot
    BY <1>4, <1>14 DEF SnapshotRelease
  <2> QED
    BY <1>2, <1>3, <1>4, <2>1, <2>3, <2>4, <2>5, HelperType
<1>15. CASE ExportStart
  <2>1. UNCHANGED <<capture, session, saved, snapshots>> /\ CaptureInv'
    <3>1. UNCHANGED <<capture, session, saved, snapshots>>
      BY <1>15 DEF ExportStart
    <3> QED
      BY <1>1, <1>9, <3>1 DEF CaptureInv
  <2>2. PICK ok \in BOOLEAN, n \in Nat, sent \in Seq(Mail) :
          Serving("export") /\ Reply(sent, ok, n) /\ (ok => n \in Export)
    BY <1>6, <1>15, IdsAreNat DEF ExportStart
  <2>3. inbox' \in Seq(Mail) /\ requests' \in Seq(Calls)
    BY <1>1, <1>6, <2>2, ReplyType
  <2>4. SavesCounted'
    BY <1>8, <2>1, <2>2 DEF Serving, Reply
  <2>5. /\ export' \in [Export -> {"none", "running", "ended", "gone"}]
        /\ of' \in [Export -> Snapshot \cup {None}]
    <3>1. CASE UNCHANGED <<export, of>>
      BY <1>4, <3>1
    <3>2. CASE \E e \in Export, s \in snapshots :
                 export' = [export EXCEPT ![e] = "running"] /\ of' = [of EXCEPT ![e] = s]
      BY <1>4, <3>2
    <3> QED
      BY <1>15, <3>1, <3>2 DEF ExportStart
  <2> QED
    BY <1>2, <1>3, <1>4, <2>1, <2>3, <2>4, <2>5, HelperType
<1> QED
  BY <1>10, <1>11, <1>12, <1>13, <1>14, <1>15 DEF Serve

\* So do its own events, its death and its boot.
LEMMA EngineType ==
  ASSUME TypeInv,
         \/ CaptureLost \/ SinkFails \/ \E e \in Export : ExportEnds(e) \/ Unregister(e)
         \/ Crash \/ Shutdown \/ Boot \/ BootFails
  PROVE  TypeInv'
<1>1. TrafficOK /\ IdsOK /\ StatesOK /\ CaptureInv /\ SavesCounted
  BY DEF TypeInv
<1>2. /\ requests \in Seq(Calls) /\ inbox \in Seq(Mail) /\ <<>> \in Seq(Others)
      /\ events \in Nat /\ events \in 0 .. MaxEvents /\ MaxEvents \in Nat
      /\ session \in 0 .. MaxSessions /\ session \in Nat
      /\ saved \in Nat /\ snapshots \subseteq Snapshot
      /\ engine \in {"up", "down", "unavailable"} /\ restarting \in BOOLEAN
      /\ capture \in {"idle", "requested", "recording"}
      /\ export \in [Export -> {"none", "running", "ended", "gone"}]
      /\ of \in [Export -> Snapshot \cup {None}]
  <2>1. MaxSessions \in Nat /\ MaxEvents \in Nat
    BY ConstantsAssumption
  <2> QED
    BY <1>1, <2>1 DEF TrafficOK, IdsOK, StatesOK
\* The requests stay or are rejected together.
<1>3. ASSUME events' \in Nat, events <= events', saved' = saved, requests' \in {requests, <<>>}
      PROVE  SavesCounted'
  BY <1>1, <1>2, <1>3, SavesKept
<1>4. Event("sessionLost", session) \in Mail
  BY <1>2, EventsType
<1>5. /\ Engine("ready") \in Mail /\ Engine("crashed") \in Mail /\ Engine("unavailable") \in Mail
  BY EventsType DEF Engines
<1>6. CASE CaptureLost
  <2>1. /\ Up /\ capture' = "idle" /\ RendererKept
        /\ inbox' = Append(inbox, Event("sessionLost", session))
        /\ UNCHANGED <<requests, session, saved, snapshots, export, of, upsets, engine, restarting,
                       events>>
    BY <1>6 DEF CaptureLost, UnchangedByHelper, RendererKept, engineVars
  <2>2. CaptureInv'
    BY <2>1 DEF CaptureInv
  <2>3. inbox' \in Seq(Mail)
    BY <1>2, <1>4, <2>1
  <2>4. SavesCounted'
    BY <1>2, <1>3, <2>1
  <2> QED
    BY <1>2, <2>1, <2>2, <2>3, <2>4, HelperType
<1>7. CASE SinkFails
  <2>1. /\ RendererKept /\ events < MaxEvents /\ events' = events + 1
        /\ inbox' = Append(inbox, Event("sessionLost", session))
        /\ UNCHANGED <<requests, helperVars, engineVars>>
        /\ upsets' = upsets \cup {"sink"}
    BY <1>7 DEF SinkFails, Count, RendererKept
  <2>2. UNCHANGED <<session, saved, snapshots, export, of, capture, engine, restarting>>
    BY <2>1 DEF helperVars, engineVars
  <2>3. CaptureInv'
    BY <1>1, <2>2 DEF CaptureInv, Up
  <2>4. inbox' \in Seq(Mail) /\ events' \in 0 .. MaxEvents
    BY <1>2, <1>4, <2>1
  <2>5. SavesCounted'
    BY <1>2, <1>3, <2>1, <2>2
  <2> QED
    BY <1>2, <2>1, <2>2, <2>3, <2>4, <2>5, HelperType
<1>8. ASSUME NEW e \in Export, ExportEnds(e) \/ Unregister(e) PROVE TypeInv'
  <2>1. /\ RendererKept
        /\ UNCHANGED <<requests, session, saved, snapshots, of, capture, engine, restarting, events,
                       upsets>>
    BY <1>8 DEF ExportEnds, Unregister, UnchangedByHelper, RendererKept, engineVars, trafficVars
  <2>2. CaptureInv'
    BY <1>1, <2>1 DEF CaptureInv, Up
  <2>3. inbox' \in Seq(Mail)
    <3>1. \A t \in {"completed", "failed"} : Event(t, e) \in Mail
      BY EventsType, IdsAreNat
    <3>2. inbox' = inbox \/ \E m \in Mail : inbox' = Append(inbox, m)
      BY <1>8, <3>1 DEF ExportEnds, Unregister, trafficVars
    <3> QED
      BY <1>2, <3>2
  <2>4. export' \in [Export -> {"none", "running", "ended", "gone"}]
    BY <1>2, <1>8 DEF ExportEnds, Unregister
  <2>5. SavesCounted'
    BY <1>2, <1>3, <2>1
  <2> QED
    BY <1>2, <2>1, <2>2, <2>3, <2>4, <2>5, HelperType
<1>9. ASSUME NEW a \in Seq(Mail), HelperGone(a), restarting' \in BOOLEAN,
             events' \in 0 .. MaxEvents, events <= events',
             upsets' \in {upsets, upsets \cup {"restart"}}
      PROVE  TypeInv'
  <2>1. /\ RendererKept /\ engine' = "down" /\ capture' = "idle" /\ snapshots' = {}
        /\ requests' = <<>> /\ inbox' = inbox \o a \o Rejections(requests)
        /\ UNCHANGED <<session, saved, of>>
        /\ export' = [e \in Export |-> IF export[e] = "none" THEN "none" ELSE "gone"]
    BY <1>9 DEF HelperGone, RendererKept
  <2>2. CaptureInv'
    BY <2>1 DEF CaptureInv
  <2>3. inbox' \in Seq(Mail) /\ requests' \in Seq(Calls)
    BY <1>2, <1>9, <2>1, RejectionsType
  <2>4. export' \in [Export -> {"none", "running", "ended", "gone"}]
    BY <2>1
  <2>5. SavesCounted'
    BY <1>2, <1>3, <1>9, <2>1
  <2> QED
    BY <1>2, <1>9, <2>1, <2>2, <2>3, <2>4, <2>5, HelperType
<1>10. CASE Crash
  <2>1. /\ HelperGone(<<Engine("crashed")>>) /\ restarting' = restarting /\ upsets' = upsets
        /\ events < MaxEvents /\ events' = events + 1
    BY <1>10 DEF Crash, Count
  <2>2. <<Engine("crashed")>> \in Seq(Mail) /\ events' \in 0 .. MaxEvents /\ events <= events'
    BY <1>2, <1>5, <2>1
  <2> QED
    BY <1>2, <1>9, <2>1, <2>2
<1>11. CASE Shutdown
  <2>1. CASE HelperGone(<<>>) /\ upsets' = upsets \cup {"restart"}
    <3>1. restarting' = FALSE /\ events' = events /\ <<>> \in Seq(Mail) /\ events <= events'
      BY <1>2, <1>11 DEF Shutdown
    <3> QED
      BY <1>2, <1>9, <2>1, <3>1
  <2>2. CASE ~(HelperGone(<<>>) /\ upsets' = upsets \cup {"restart"})
    <3>1. /\ RendererKept /\ ~Up /\ engine' = "down" /\ restarting' = FALSE
          /\ UNCHANGED <<requests, inbox, session, saved, snapshots, export, of, capture, upsets,
                         events>>
      BY <1>11, <2>2 DEF Shutdown, RendererKept, helperVars, trafficVars
    <3>2. CaptureInv'
      BY <1>1, <3>1 DEF CaptureInv
    <3>3. SavesCounted'
      BY <1>2, <1>3, <3>1
    <3> QED
      BY <1>2, <3>1, <3>2, <3>3, HelperType
  <2> QED
    BY <2>1, <2>2
<1>12. CASE Boot \/ BootFails
  <2>1. /\ RendererKept
        /\ UNCHANGED <<requests, session, saved, snapshots, export, of, capture, upsets, events,
                       restarting>>
        /\ engine' \in {"up", "unavailable"} /\ engine = "down"
    BY <1>12 DEF Boot, BootFails, UnchangedByBoot, RendererKept, helperVars
  <2>2. inbox' \in Seq(Mail)
    <3>1. \E m \in Mail : inbox' = Append(inbox, m)
      BY <1>5, <1>12 DEF Boot, BootFails
    <3> QED
      BY <1>2, <3>1
  <2>3. CaptureInv'
    <3>1. capture = "idle"
      BY <1>1, <2>1 DEF CaptureInv, Up
    <3> QED
      BY <2>1, <3>1 DEF CaptureInv
  <2>4. SavesCounted'
    BY <1>2, <1>3, <2>1
  <2> QED
    BY <1>2, <2>1, <2>2, <2>3, <2>4, HelperType
<1> QED
  BY <1>6, <1>7, <1>8, <1>10, <1>11, <1>12

\* Every step keeps the types.
LEMMA NextType == TypeInv /\ [Next]_vars => TypeInv'
<1> SUFFICES ASSUME TypeInv, [Next]_vars PROVE TypeInv'
  OBVIOUS
<1>1. CASE Deliver
  BY <1>1, ReceivedType DEF Deliver, Received
<1>2. CASE Retry \/ ExportWatchdog \/ StartTimeout \/ Click
  BY <1>2, RendererType
<1>3. CASE Serve
  BY <1>3, ServeType
<1>4. CASE \/ CaptureLost \/ SinkFails \/ \E e \in Export : ExportEnds(e) \/ Unregister(e)
           \/ Crash \/ Shutdown \/ Boot \/ BootFails
  BY <1>4, EngineType
<1>5. CASE UNCHANGED vars
  <2> USE <1>5 DEF vars, stateVars, idVars, trafficVars, helperVars, engineVars
  <2>1. TrafficOK' /\ IdsOK' /\ CaptureInv'
    BY DEF TypeInv, TrafficOK, IdsOK, CaptureInv, Up
  <2>2. StatesOK'
    BY DEF TypeInv, StatesOK
  <2>3. SavesCounted'
    BY DEF TypeInv, SavesCounted, Counts
  <2> QED
    BY <2>1, <2>2, <2>3 DEF TypeInv
<1> QED
  BY <1>1, <1>2, <1>3, <1>4, <1>5 DEF Next

-----------------------------------------------------------------------------
(* What is under way decides what will be shown *)

Lost       == {"crashed", "unavailable"}
DownStates == {"ENGINE_DOWN", "ENGINE_UNAVAILABLE"}

\* The messages that change the session the renderer knows, and how.
Settles(m)      == m.type \in {"sessionReady", "sessionLost"} \cup Lost
SessionAfter(m) == IF m.type = "sessionReady" THEN m.id ELSE None

\* With v known and ms to come the renderer will know t.
WillShow(ms, v, t) ==
  /\ \A k \in 1 .. Len(ms) :
       Settles(ms[k]) /\ (\A j \in 1 .. Len(ms) : j > k => ~Settles(ms[j]))
         => SessionAfter(ms[k]) = t
  /\ (\A k \in 1 .. Len(ms) : ~Settles(ms[k])) => v = t

Answers(ms) == \A k \in 1 .. Len(ms) : ms[k].kind = "answer"

\* In state s, with ms to come, the renderer will show that the helper is down.
WillShowDown(ms, s) ==
  \/ \E k \in 1 .. Len(ms) :
       ms[k].type \in Lost /\ \A j \in 1 .. Len(ms) : j > k => ms[j].kind = "answer"
  \/ Answers(ms) /\ s \in DownStates

\* The session that the helper captures.
Captured == IF capture = "recording" THEN session ELSE None

SessionInv == upsets \cap {"sink", "restart"} = {} => WillShow(inbox, v2SessionId, Captured)
DownInv    == ~Up /\ "restart" \notin upsets => WillShowDown(inbox, v2State)

\* No answer settles anything; the announcements are no events.
LEMMA KindsApart ==
  ASSUME NEW m \in Mail
  PROVE  /\ m.kind = "answer" => ~Settles(m) /\ m.type \notin Lost
         /\ m.type \in Lost => m.kind = "engine"
BY MailParts DEF KindOf, Ops, Engines, Settles, Lost

\* What comes last and settles nothing makes no difference.
LEMMA ShowTail ==
  ASSUME NEW ms \in Seq(Mail), NEW bs \in Seq(Mail), NEW v, NEW t,
         \A k \in 1 .. Len(bs) : ~Settles(bs[k]), WillShow(ms, v, t)
  PROVE  WillShow(ms \o bs, v, t)
<1> DEFINE cs == ms \o bs
           l  == Len(ms)
<1>1. l \in Nat /\ Len(bs) \in Nat /\ Len(cs) = l + Len(bs)
      /\ \A k \in 1 .. l + Len(bs) : cs[k] = IF k <= l THEN ms[k] ELSE bs[k - l]
  BY ConcatProperties
<1> HIDE DEF cs
<1>2. \A k \in 1 .. l : k \in 1 .. Len(cs) /\ cs[k] = ms[k]
  BY <1>1
<1>3. ASSUME NEW k \in 1 .. Len(cs), Settles(cs[k]) PROVE k \in 1 .. l
  <2>1. CASE ~(k <= l)
    <3>1. k - l \in 1 .. Len(bs) /\ cs[k] = bs[k - l]
      BY <1>1, <2>1
    <3> QED
      BY <1>3, <3>1
  <2> QED
    BY <1>1, <2>1
<1>4. ASSUME NEW k \in 1 .. Len(cs), Settles(cs[k]),
             \A j \in 1 .. Len(cs) : j > k => ~Settles(cs[j])
      PROVE  SessionAfter(cs[k]) = t
  <2>1. k \in 1 .. l /\ cs[k] = ms[k]
    BY <1>2, <1>3, <1>4
  <2>2. \A j \in 1 .. l : j > k => ~Settles(ms[j])
    BY <1>2, <1>4
  <2>3. SessionAfter(ms[k]) = t
    BY <1>4, <2>1, <2>2 DEF WillShow
  <2> QED
    BY <2>1, <2>3
<1>5. (\A k \in 1 .. Len(cs) : ~Settles(cs[k])) => v = t
  <2>1. (\A k \in 1 .. Len(cs) : ~Settles(cs[k])) => \A k \in 1 .. l : ~Settles(ms[k])
    BY <1>2
  <2> QED
    BY <2>1 DEF WillShow
<1> QED
  BY <1>4, <1>5 DEF WillShow, cs

\* What comes last and settles it decides.
LEMMA ShowLast ==
  ASSUME NEW ms \in Seq(Mail), NEW m \in Mail, NEW v, Settles(m)
  PROVE  WillShow(ms \o <<m>>, v, SessionAfter(m))
<1> DEFINE cs == ms \o <<m>>
<1>1. Len(ms) \in Nat /\ Len(cs) = Len(ms) + 1 /\ cs[Len(ms) + 1] = m
  OBVIOUS
<1> HIDE DEF cs
<1>2. Len(cs) \in 1 .. Len(cs) /\ cs[Len(cs)] = m
  BY <1>1
<1>3. ASSUME NEW k \in 1 .. Len(cs), \A j \in 1 .. Len(cs) : j > k => ~Settles(cs[j])
      PROVE  SessionAfter(cs[k]) = SessionAfter(m)
  <2>1. ~(Len(cs) > k)
    BY <1>2, <1>3
  <2>2. k = Len(cs)
    BY <1>1, <2>1
  <2> QED
    BY <1>2, <2>2
<1> QED
  BY <1>2, <1>3 DEF WillShow, cs

\* A message that is received does to the renderer what it was to do.
LEMMA ShowReceived ==
  ASSUME NEW ms \in Seq(Mail), NEW k \in 1 .. Len(ms), NEW v, NEW t, WillShow(ms, v, t),
         k = 1 \/ \A j \in 1 .. k - 1 : ms[j].kind = "answer"
  PROVE  WillShow(RemoveAt(ms, k), IF Settles(ms[k]) THEN SessionAfter(ms[k]) ELSE v, t)
<1> DEFINE rs == RemoveAt(ms, k)
           l  == Len(ms)
           w  == IF Settles(ms[k]) THEN SessionAfter(ms[k]) ELSE v
<1>1. /\ l \in Nat /\ k \in 1 .. l /\ Len(rs) = l - 1
      /\ \A j \in 1 .. l - 1 : rs[j] = IF j < k THEN ms[j] ELSE ms[j + 1]
  BY RemoveAtParts
<1> HIDE DEF rs
<1>2. \A j \in 1 .. k - 1 : ~Settles(ms[j])
  <2>1. ASSUME NEW j \in 1 .. k - 1 PROVE ms[j].kind = "answer" /\ ms[j] \in Mail
    BY <1>1
  <2> QED
    BY <2>1, KindsApart
<1>3. \A i \in k + 1 .. l : i - 1 \in 1 .. l - 1 /\ rs[i - 1] = ms[i]
  BY <1>1
<1>4. ASSUME NEW j \in 1 .. l - 1, Settles(rs[j]),
             \A i \in 1 .. l - 1 : i > j => ~Settles(rs[i])
      PROVE  SessionAfter(rs[j]) = t
  <2>1. ~(j < k)
    <3>1. j < k => j \in 1 .. k - 1 /\ rs[j] = ms[j]
      BY <1>1
    <3> QED
      BY <1>2, <1>4, <3>1
  <2>2. j + 1 \in 1 .. l /\ rs[j] = ms[j + 1]
    BY <1>1, <2>1
  <2>3. ASSUME NEW i \in 1 .. l, i > j + 1 PROVE ~Settles(ms[i])
    <3>1. i \in k + 1 .. l /\ i - 1 > j
      BY <1>1, <2>1, <2>3
    <3> QED
      BY <1>3, <1>4, <3>1
  <2>4. Settles(ms[j + 1])
    BY <1>4, <2>2
  <2>5. SessionAfter(ms[j + 1]) = t
    BY <2>2, <2>3, <2>4 DEF WillShow
  <2> QED
    BY <2>2, <2>5
<1>5. ASSUME \A j \in 1 .. l - 1 : ~Settles(rs[j]) PROVE w = t
  <2>1. \A i \in k + 1 .. l : ~Settles(ms[i])
    BY <1>3, <1>5
  <2>2. \A i \in 1 .. l : i # k => ~Settles(ms[i])
    <3>1. \A i \in 1 .. l : i \in 1 .. k - 1 \/ i = k \/ i \in k + 1 .. l
      BY <1>1
    <3> QED
      BY <1>2, <2>1, <3>1
  <2>3. CASE Settles(ms[k])
    <3>1. \A i \in 1 .. l : i > k => ~Settles(ms[i])
      BY <1>1, <2>2
    <3>2. SessionAfter(ms[k]) = t
      BY <1>1, <2>3, <3>1 DEF WillShow
    <3> QED
      BY <2>3, <3>2
  <2>4. CASE ~Settles(ms[k])
    <3>1. \A i \in 1 .. l : ~Settles(ms[i])
      BY <2>2, <2>4
    <3>2. v = t
      BY <3>1 DEF WillShow
    <3> QED
      BY <2>4, <3>2
  <2> QED
    BY <2>3, <2>4
<1> HIDE DEF w
<1>6. WillShow(rs, w, t)
  BY <1>1, <1>4, <1>5 DEF WillShow
<1> QED
  BY <1>6 DEF rs, w

\* Answers make no difference to a helper that is down.
LEMMA DownTail ==
  ASSUME NEW ms \in Seq(Mail), NEW bs \in Seq(Mail), NEW s, Answers(bs), WillShowDown(ms, s)
  PROVE  WillShowDown(ms \o bs, s)
<1> DEFINE cs == ms \o bs
           l  == Len(ms)
<1>1. l \in Nat /\ Len(bs) \in Nat /\ Len(cs) = l + Len(bs)
      /\ \A k \in 1 .. l + Len(bs) : cs[k] = IF k <= l THEN ms[k] ELSE bs[k - l]
  BY ConcatProperties
<1> HIDE DEF cs
<1>2. \A k \in 1 .. l : k \in 1 .. Len(cs) /\ cs[k] = ms[k]
  BY <1>1
<1>3. ASSUME NEW k \in 1 .. Len(cs), ~(k <= l) PROVE cs[k].kind = "answer"
  <2>1. k - l \in 1 .. Len(bs) /\ cs[k] = bs[k - l]
    BY <1>1, <1>3
  <2> QED
    BY <2>1 DEF Answers
<1>4. CASE \E k \in 1 .. l :
             ms[k].type \in Lost /\ \A j \in 1 .. l : j > k => ms[j].kind = "answer"
  <2>1. PICK k \in 1 .. l :
          ms[k].type \in Lost /\ \A j \in 1 .. l : j > k => ms[j].kind = "answer"
    BY <1>4
  <2>2. ASSUME NEW j \in 1 .. Len(cs), j > k PROVE cs[j].kind = "answer"
    <3>1. CASE j <= l
      <4>1. j \in 1 .. l
        BY <1>1, <3>1
      <4> QED
        BY <1>2, <2>1, <2>2, <4>1
    <3> QED
      BY <1>3, <3>1
  <2>3. k \in 1 .. Len(cs) /\ cs[k].type \in Lost
    BY <1>2, <2>1
  <2> QED
    BY <2>2, <2>3 DEF WillShowDown, cs
<1>5. CASE Answers(ms) /\ s \in DownStates
  <2>1. ASSUME NEW k \in 1 .. Len(cs) PROVE cs[k].kind = "answer"
    <3>1. CASE k <= l
      <4>1. k \in 1 .. l
        BY <1>1, <3>1
      <4> QED
        BY <1>2, <1>5, <4>1 DEF Answers
    <3> QED
      BY <1>3, <3>1
  <2>2. Answers(cs)
    BY <2>1 DEF Answers
  <2> QED
    BY <1>5, <2>2 DEF WillShowDown, cs
<1> QED
  BY <1>4, <1>5 DEF WillShowDown

\* The announcement that is last is followed by no event.
LEMMA DownLast ==
  ASSUME NEW ms \in Seq(Mail), NEW m \in Mail, NEW s, m.type \in Lost
  PROVE  WillShowDown(ms \o <<m>>, s)
<1> DEFINE cs == ms \o <<m>>
<1>1. Len(ms) \in Nat /\ Len(cs) = Len(ms) + 1 /\ cs[Len(ms) + 1] = m
  OBVIOUS
<1> HIDE DEF cs
<1>2. Len(cs) \in 1 .. Len(cs) /\ cs[Len(cs)].type \in Lost
  BY <1>1
<1>3. \A j \in 1 .. Len(cs) : ~(j > Len(cs))
  BY <1>1
<1> QED
  BY <1>2, <1>3 DEF WillShowDown, cs

\* The announcement is received at last, and an answer does no harm.
LEMMA DownReceived ==
  ASSUME NEW ms \in Seq(Mail), NEW k \in 1 .. Len(ms), NEW s, NEW t, WillShowDown(ms, s),
         k = 1 \/ (ms[k].kind = "event" /\ \A j \in 1 .. k - 1 : ms[j].kind = "answer"),
         ms[k].type \in Lost => t \in DownStates,
         (ms[k].kind = "answer" /\ s \in DownStates) => t \in DownStates
  PROVE  WillShowDown(RemoveAt(ms, k), t)
<1> DEFINE rs == RemoveAt(ms, k)
           l  == Len(ms)
<1>1. /\ l \in Nat /\ k \in 1 .. l /\ Len(rs) = l - 1
      /\ \A j \in 1 .. l - 1 : rs[j] = IF j < k THEN ms[j] ELSE ms[j + 1]
  BY RemoveAtParts
<1> HIDE DEF rs
<1>2. CASE \E i \in 1 .. l :
             ms[i].type \in Lost /\ \A j \in 1 .. l : j > i => ms[j].kind = "answer"
  <2>1. PICK i \in 1 .. l :
          ms[i].type \in Lost /\ \A j \in 1 .. l : j > i => ms[j].kind = "answer"
    BY <1>2
  <2>2. ms[i] \in Mail /\ ms[i].kind = "engine"
    BY <2>1, KindsApart
  <2>3. ~(k > i)
    <3>1. k > i => ms[k].kind = "answer" /\ k # 1 /\ i \in 1 .. k - 1
      BY <1>1, <2>1
    <3> QED
      BY <2>2, <3>1
  <2>4. CASE k = i
    <3>1. k = 1
      <4>1. ms[k].kind # "event"
        BY <2>2, <2>4
      <4> QED
        BY <4>1
    <3>2. ASSUME NEW j \in 1 .. l - 1 PROVE rs[j].kind = "answer"
      <4>1. j + 1 \in 1 .. l /\ j + 1 > i /\ rs[j] = ms[j + 1]
        BY <1>1, <2>4, <3>1
      <4> QED
        BY <2>1, <4>1
    <3>3. Answers(rs)
      BY <1>1, <3>2 DEF Answers
    <3>4. t \in DownStates
      BY <2>1, <2>4
    <3> QED
      BY <3>3, <3>4 DEF WillShowDown, rs
  <2>5. CASE k < i
    <3>1. i - 1 \in 1 .. l - 1 /\ rs[i - 1] = ms[i]
      BY <1>1, <2>5
    <3>2. ASSUME NEW j \in 1 .. l - 1, j > i - 1 PROVE rs[j].kind = "answer"
      <4>1. j + 1 \in 1 .. l /\ j + 1 > i /\ rs[j] = ms[j + 1]
        BY <1>1, <2>5, <3>2
      <4> QED
        BY <2>1, <4>1
    <3> QED
      BY <1>1, <2>1, <3>1, <3>2 DEF WillShowDown, rs
  <2> QED
    BY <1>1, <2>3, <2>4, <2>5
<1>3. CASE Answers(ms) /\ s \in DownStates
  <2>1. t \in DownStates
    BY <1>1, <1>3 DEF Answers
  <2>2. ASSUME NEW j \in 1 .. l - 1 PROVE rs[j].kind = "answer"
    <3>1. j \in 1 .. l /\ j + 1 \in 1 .. l /\ (rs[j] = ms[j] \/ rs[j] = ms[j + 1])
      BY <1>1
    <3> QED
      BY <1>3, <3>1 DEF Answers
  <2>3. Answers(rs)
    BY <1>1, <2>2 DEF Answers
  <2> QED
    BY <2>1, <2>3 DEF WillShowDown, rs
<1> QED
  BY <1>2, <1>3 DEF WillShowDown

-----------------------------------------------------------------------------
(* The session and the state of the helper are shown in the end *)

\* Rejected calls settle nothing.
LEMMA CallsShow ==
  ASSUME NEW ms \in Seq(Mail), NEW rs \in Seq(Calls), NEW v, NEW t,
         inbox' \in {ms, ms \o Rejections(rs)}, WillShow(ms, v, t)
  PROVE  WillShow(inbox', v, t)
<1> DEFINE bs == Rejections(rs)
<1>1. bs \in Seq(Mail) /\ \A k \in 1 .. Len(bs) : bs[k].kind = "answer"
  BY RejectionsType
<1>2. inbox' = ms \/ inbox' = ms \o bs
  OBVIOUS
<1> HIDE DEF bs
<1>3. \A k \in 1 .. Len(bs) : ~Settles(bs[k])
  <2>1. \A k \in 1 .. Len(bs) : bs[k] \in Mail
    BY <1>1
  <2> QED
    BY <1>1, <2>1, KindsApart
<1>4. WillShow(ms \o bs, v, t)
  BY <1>1, <1>3, ShowTail
<1> QED
  BY <1>2, <1>4

\* They are no news of a helper that is down.
LEMMA CallsShowDown ==
  ASSUME NEW ms \in Seq(Mail), NEW rs \in Seq(Calls), NEW s,
         inbox' \in {ms, ms \o Rejections(rs)}, WillShowDown(ms, s)
  PROVE  WillShowDown(inbox', s)
<1> DEFINE bs == Rejections(rs)
<1>1. bs \in Seq(Mail) /\ \A k \in 1 .. Len(bs) : bs[k].kind = "answer"
  BY RejectionsType
<1>2. inbox' = ms \/ inbox' = ms \o bs
  OBVIOUS
<1> HIDE DEF bs
<1>3. Answers(bs)
  BY <1>1 DEF Answers
<1>4. WillShowDown(ms \o bs, s)
  BY <1>1, <1>3, DownTail
<1> QED
  BY <1>2, <1>4

\* The renderer learns of a session what the message that it receives says.
LEMMA ReceivedSession ==
  ASSUME TypeInv, NEW k \in DOMAIN inbox, Received(k)
  PROVE  v2SessionId' = IF Settles(inbox[k]) THEN SessionAfter(inbox[k]) ELSE v2SessionId
<1> USE DEF Receive, idVars, Settles, Lost, SessionAfter
<1>1. CASE OnReady(k) \/ OnReleaseAnswer(k) \/ OnRequestSessionAnswer(k)
           \/ OnStartStreamAnswer(k) \/ OnStopAnswer(k)
  BY <1>1 DEF OnReady, OnReleaseAnswer, OnRequestSessionAnswer, OnStartStreamAnswer, OnStopAnswer
<1>2. CASE OnEngineLost(k) \/ OnSessionReady(k) \/ OnSessionLost(k)
  BY <1>2 DEF OnEngineLost, OnSessionReady, OnSessionLost
<1>3. CASE OnSnapshotPinned(k) \/ OnSnapshotReleased(k)
  BY <1>3 DEF OnSnapshotPinned, OnSnapshotReleased, TakeSnapshot
<1>4. CASE OnExportEnded(k)
  BY <1>4 DEF OnExportEnded
<1>5. CASE OnSaveAnswer(k)
  BY <1>5 DEF OnSaveAnswer, TakeSnapshot
<1>6. CASE OnExportAnswer(k)
  BY <1>6 DEF OnExportAnswer
<1> QED
  BY <1>1, <1>2, <1>3, <1>4, <1>5, <1>6 DEF Received

\* The announcement that the helper is gone is shown, and no answer hides it.
LEMMA ReceivedDown ==
  ASSUME TypeInv, NEW k \in DOMAIN inbox, Received(k)
  PROVE  /\ inbox[k].type \in Lost => v2State' \in DownStates
         /\ inbox[k].kind = "answer" /\ v2State \in DownStates => v2State' \in DownStates
<1>1. inbox[k] \in Mail
  BY RemoveAtType DEF TypeInv, TrafficOK
<1>2. inbox[k].kind = "answer" => inbox[k].type \in Ops
  BY <1>1, MailParts DEF KindOf
<1> USE DEF Receive, SetV2State, stateVars, Lost, DownStates, Ops
<1>3. CASE OnReady(k) \/ OnSessionReady(k) \/ OnSessionLost(k) \/ OnSnapshotPinned(k)
           \/ OnSnapshotReleased(k) \/ OnExportEnded(k)
  BY <1>2, <1>3 DEF OnReady, OnSessionReady, OnSessionLost, OnSnapshotPinned, OnSnapshotReleased,
     OnExportEnded
<1>4. CASE OnEngineLost(k)
  BY <1>4 DEF OnEngineLost
<1>5. CASE OnSaveAnswer(k)
  BY <1>5 DEF OnSaveAnswer
<1>6. CASE OnExportAnswer(k)
  BY <1>6 DEF OnExportAnswer, ExportRejected
<1>7. CASE OnReleaseAnswer(k) \/ OnRequestSessionAnswer(k) \/ OnStartStreamAnswer(k)
           \/ OnStopAnswer(k)
  BY <1>7 DEF OnReleaseAnswer, OnRequestSessionAnswer, OnStartStreamAnswer, OnStopAnswer
<1> QED
  BY <1>3, <1>4, <1>5, <1>6, <1>7 DEF Received

\* What the renderer receives is what was to be shown next.
LEMMA ReceivedShown ==
  ASSUME TypeInv, SessionInv, DownInv, NEW k \in DOMAIN inbox, Deliverable(k), Received(k)
  PROVE  SessionInv' /\ DownInv'
<1> DEFINE ms == RemoveAt(inbox, k)
           v  == IF Settles(inbox[k]) THEN SessionAfter(inbox[k]) ELSE v2SessionId
<1>1. inbox \in Seq(Mail) /\ k \in 1 .. Len(inbox) /\ ms \in Seq(Mail) /\ inbox[k] \in Mail
  BY RemoveAtType DEF TypeInv, TrafficOK
<1>2. PICK rs \in Seq(Others) : Call(rs, ms)
  BY ReceivedCalls
<1>3. HelperKept
  BY ReceivedCalls
<1>4. rs \in Seq(Calls) /\ inbox' \in {ms, ms \o Rejections(rs)}
  BY <1>2, OthersAreCalls DEF Call
<1>5. k = 1 \/ (inbox[k].kind = "event" /\ \A j \in 1 .. k - 1 : inbox[j].kind = "answer")
  BY DEF Deliverable
<1>6. v2SessionId' = v
  BY ReceivedSession
<1>7. upsets' = upsets \/ upsets' = upsets \cup {"overlap"}
  BY DEF Received, OnReady, OnEngineLost, OnSessionReady, OnSessionLost, OnSnapshotPinned,
     OnSnapshotReleased, OnExportEnded, OnSaveAnswer, OnExportAnswer, OnReleaseAnswer,
     OnRequestSessionAnswer, OnStartStreamAnswer, OnStopAnswer
<1>8. Captured' = Captured /\ engine' = engine
  BY <1>3 DEF HelperKept, helperVars, engineVars, Captured
<1>9. SessionInv'
  <2>1. WillShow(inbox, v2SessionId, Captured) => WillShow(ms, v, Captured)
    BY <1>1, <1>5, ShowReceived
  <2> HIDE DEF ms, v
  <2>2. WillShow(ms, v, Captured) => WillShow(inbox', v, Captured)
    BY <1>1, <1>4, CallsShow
  <2>3. upsets' \cap {"sink", "restart"} = {} => upsets \cap {"sink", "restart"} = {}
    BY <1>7
  <2> QED
    BY <1>6, <1>8, <2>1, <2>2, <2>3 DEF SessionInv
<1>10. DownInv'
  <2>1. WillShowDown(inbox, v2State) => WillShowDown(ms, v2State')
    <3>1. /\ inbox[k].type \in Lost => v2State' \in DownStates
          /\ (inbox[k].kind = "answer" /\ v2State \in DownStates) => v2State' \in DownStates
      BY ReceivedDown
    <3> QED
      BY <1>1, <1>5, <3>1, DownReceived
  <2> HIDE DEF ms
  <2>2. WillShowDown(ms, v2State') => WillShowDown(inbox', v2State')
    BY <1>1, <1>4, CallsShowDown
  <2>3. "restart" \notin upsets' => "restart" \notin upsets
    BY <1>7
  <2> QED
    BY <1>8, <2>1, <2>2, <2>3 DEF DownInv, Up
<1> QED
  BY <1>9, <1>10

\* Timers and clicks leave it as it is.
LEMMA RendererShown ==
  ASSUME TypeInv, SessionInv, DownInv, Retry \/ ExportWatchdog \/ StartTimeout \/ Click
  PROVE  SessionInv' /\ DownInv'
<1>1. inbox \in Seq(Mail) /\ BagToSet(backoff) \subseteq Waiting
  BY DEF TypeInv, TrafficOK
<1>2. PICK rs \in Seq(Calls) : inbox' \in {inbox, inbox \o Rejections(rs)}
  <2>1. CASE Retry
    <3>1. PICK r \in BagToSet(backoff) : RetryRelease(r)
      BY <2>1 DEF Retry
    <3>2. <<r>> \in Seq(Calls)
      BY <1>1, <3>1 DEF Waiting, Others
    <3> QED
      BY <3>1, <3>2 DEF RetryRelease, Call
  <2>2. CASE ExportWatchdog \/ StartTimeout \/ Click
    <3>1. /\ StopStarted \in Seq(Calls) /\ StopClicked \in Seq(Calls)
          /\ ReleaseCurrent \in Seq(Calls) /\ <<Request("save", None, 0)>> \in Seq(Calls)
          /\ <<Request("requestSession", None, 0)>> \in Seq(Calls)
      <4>1. <<Request("requestSession", None, 0)>> \in Seq(Others)
        BY CallsType DEF None
      <4> QED
        BY <4>1, CallsType, OthersAreCalls DEF TypeInv, IdsOK
    <3>2. inbox' = inbox \/ \E rs \in Seq(Calls) : Call(rs, inbox)
      BY <2>2, <3>1 DEF ExportWatchdog, StartTimeout, Click, ClickStart, ClickStop, ClickSave,
         ClickRestart, trafficVars
    <3>3. <<>> \in Seq(Calls)
      OBVIOUS
    <3> QED
      BY <3>2, <3>3 DEF Call
  <2> QED
    BY <2>1, <2>2
<1>3. UNCHANGED <<v2SessionId, helperVars, engine>>
  BY DEF Retry, RetryRelease, ExportWatchdog, StartTimeout, Click, ClickStart, ClickStop, ClickSave,
     ClickRestart, UnchangedByTimer, idVars, engineVars
<1>4. upsets' = upsets \/ upsets' = upsets \cup {"timeout"}
  BY DEF Retry, RetryRelease, ExportWatchdog, StartTimeout, Click, ClickStart, ClickStop, ClickSave,
     ClickRestart
<1>5. v2State \in DownStates => v2State' = v2State
  BY DEF Retry, RetryRelease, ExportWatchdog, StartTimeout, Click, ClickStart, ClickStop, ClickSave,
     ClickRestart, stateVars, DownStates
<1>6. Captured' = Captured
  BY <1>3 DEF Captured, helperVars
<1>7. SessionInv'
  <2>1. WillShow(inbox, v2SessionId, Captured) => WillShow(inbox', v2SessionId, Captured)
    BY <1>1, <1>2, CallsShow
  <2>2. upsets' \cap {"sink", "restart"} = {} => upsets \cap {"sink", "restart"} = {}
    BY <1>4
  <2> QED
    BY <1>3, <1>6, <2>1, <2>2 DEF SessionInv
<1>8. DownInv'
  <2>1. WillShowDown(inbox, v2State) => WillShowDown(inbox, v2State')
    BY <1>5 DEF WillShowDown
  <2>2. WillShowDown(inbox, v2State') => WillShowDown(inbox', v2State')
    BY <1>1, <1>2, CallsShowDown
  <2>3. "restart" \notin upsets' => "restart" \notin upsets
    BY <1>4
  <2> QED
    BY <1>3, <2>1, <2>2, <2>3 DEF DownInv, Up
<1> QED
  BY <1>7, <1>8

\* The answer that follows what the helper sent settles nothing.
LEMMA ReplyShown ==
  ASSUME TypeInv, NEW op, Serving(op), NEW sent \in Seq(Mail), NEW ok \in BOOLEAN, NEW n \in Nat,
         (ok /\ op = "save") => n \in Snapshot, (ok /\ op = "export") => n \in Export,
         Reply(sent, ok, n), NEW v, NEW t, WillShow(inbox \o sent, v, t)
  PROVE  WillShow(inbox', v, t)
<1> DEFINE m == Answer(Head(requests), ok, n)
<1>1. Head(requests) \in Calls /\ Head(requests).op = op /\ inbox \in Seq(Mail)
  BY DEF TypeInv, TrafficOK, Serving
<1>2. m \in Mail /\ m.kind = "answer"
  BY <1>1, AnswerType
<1>3. inbox' = (inbox \o sent) \o <<m>>
  BY DEF Reply
<1> HIDE DEF m
<1>4. ~Settles(m)
  BY <1>2, KindsApart
<1>5. <<m>> \in Seq(Mail) /\ \A k \in 1 .. Len(<<m>>) : ~Settles(<<m>>[k])
  BY <1>2, <1>4
<1>6. inbox \o sent \in Seq(Mail)
  BY <1>1
<1> QED
  BY <1>3, <1>5, <1>6, ShowTail

\* What the helper sends says what it captures.
LEMMA ServeShown ==
  ASSUME TypeInv, SessionInv, DownInv, Serve
  PROVE  SessionInv' /\ DownInv'
<1>1. /\ Up /\ UNCHANGED <<v2SessionId, engine, upsets>>
  BY DEF Serve, RequestSession, StartStream, StopSession, Save, SnapshotRelease, ExportStart,
     Serving, UnchangedByHelper, idVars, engineVars
<1>2. DownInv'
  BY <1>1 DEF DownInv, Up
<1>3. SUFFICES ASSUME WillShow(inbox, v2SessionId, Captured)
               PROVE  WillShow(inbox', v2SessionId, Captured')
  BY <1>1, <1>2 DEF SessionInv
<1>4. /\ inbox \in Seq(Mail) /\ requests \in Seq(Calls) /\ None \in Nat /\ session \in Nat
      /\ saved \in Nat /\ events \in 0 .. MaxEvents /\ SavesCounted
      /\ capture # "idle" => session # None
      /\ session \in 0 .. MaxSessions
  BY ConstantsAssumption DEF TypeInv, TrafficOK, IdsOK, StatesOK, CaptureInv, None
<1>5. inbox \o <<>> = inbox /\ <<>> \in Seq(Mail)
  BY <1>4
\* A message that settles what is captured afterwards.
<1>6. ASSUME NEW m \in Mail, Settles(m), SessionAfter(m) = Captured'
      PROVE  <<m>> \in Seq(Mail) /\ WillShow(inbox \o <<m>>, v2SessionId, Captured')
  BY <1>4, <1>6, ShowLast
\* A message that settles nothing.
<1>7. ASSUME NEW m \in Mail, ~Settles(m), Captured' = Captured
      PROVE  <<m>> \in Seq(Mail) /\ WillShow(inbox \o <<m>>, v2SessionId, Captured')
  <2>1. <<m>> \in Seq(Mail) /\ \A k \in 1 .. Len(<<m>>) : ~Settles(<<m>>[k])
    BY <1>7
  <2> QED
    BY <1>3, <1>4, <1>7, <2>1, ShowTail
<1>8. ASSUME Captured' = Captured PROVE WillShow(inbox \o <<>>, v2SessionId, Captured')
  BY <1>3, <1>5, <1>8
<1>9. Event("sessionLost", session) \in Mail /\ Settles(Event("sessionLost", session))
      /\ SessionAfter(Event("sessionLost", session)) = None
  BY <1>4, EventsType DEF Event, Message, Settles, SessionAfter
<1>10. CASE RequestSession
  <2>1. Captured' = Captured
    BY <1>10 DEF RequestSession, Captured
  <2>2. PICK ok \in BOOLEAN, sent \in Seq(Mail) :
          /\ Serving("requestSession") /\ Reply(sent, ok, None)
          /\ WillShow(inbox \o sent, v2SessionId, Captured')
    BY <1>5, <1>8, <1>10, <2>1 DEF RequestSession
  <2> QED
    BY <1>4, <2>2, ReplyShown
<1>11. CASE StartStream
  <2>1. PICK ok \in BOOLEAN, sent \in Seq(Mail) :
          /\ Serving("startStream") /\ Reply(sent, ok, None)
          /\ WillShow(inbox \o sent, v2SessionId, Captured')
    <3>1. CASE capture = "requested" /\ capture' = "recording"
               /\ Reply(<<Event("sessionReady", session)>>, TRUE, None)
      <4> DEFINE m == Event("sessionReady", session)
      <4>1. session \in Session
        BY <1>4, <3>1 DEF Session, None
      <4>2. session' = session
        BY <1>11 DEF StartStream
      <4>3. m \in Mail /\ Settles(m) /\ SessionAfter(m) = session
        BY <4>1, EventsType DEF Event, Message, Settles, SessionAfter
      <4>4. Captured' = session
        BY <3>1, <4>2 DEF Captured
      <4> HIDE DEF m
      <4>5. <<m>> \in Seq(Mail) /\ WillShow(inbox \o <<m>>, v2SessionId, Captured')
        BY <1>6, <4>3, <4>4
      <4>6. Serving("startStream") /\ Reply(<<m>>, TRUE, None)
        BY <1>11, <3>1 DEF StartStream, m
      <4> QED
        BY <4>5, <4>6
    <3>2. CASE capture' = "idle" /\ Reply(<<Event("sessionLost", session)>>, FALSE, None)
      <4> DEFINE m == Event("sessionLost", session)
      <4>1. Captured' = None
        BY <3>2 DEF Captured
      <4>2. m \in Mail /\ Settles(m) /\ SessionAfter(m) = None
        BY <1>9
      <4>3. Serving("startStream") /\ Reply(<<m>>, FALSE, None)
        BY <1>11, <3>2 DEF StartStream
      <4> HIDE DEF m
      <4>4. <<m>> \in Seq(Mail) /\ WillShow(inbox \o <<m>>, v2SessionId, Captured')
        BY <1>6, <4>1, <4>2
      <4> QED
        BY <4>3, <4>4
    <3>3. CASE Reply(<<>>, FALSE, None) /\ capture' = capture
      <4>1. Captured' = Captured
        BY <1>11, <3>3 DEF StartStream, Captured
      <4>2. Serving("startStream")
        BY <1>11 DEF StartStream
      <4> QED
        BY <1>5, <1>8, <3>3, <4>1, <4>2
    <3> QED
      BY <1>11, <3>1, <3>2, <3>3 DEF StartStream
  <2> QED
    BY <1>4, <2>1, ReplyShown
<1>12. CASE StopSession
  <2>1. PICK ok \in BOOLEAN, sent \in Seq(Mail) :
          /\ Serving("stop") /\ Reply(sent, ok, None)
          /\ WillShow(inbox \o sent, v2SessionId, Captured')
    <3>1. Captured' = None
      BY <1>12 DEF StopSession, Captured
    <3>2. CASE capture # "idle"
      <4> DEFINE m == Event("sessionLost", session)
      <4>1. m \in Mail /\ Settles(m) /\ SessionAfter(m) = None
        BY <1>9
      <4>2. Serving("stop") /\ Reply(<<m>>, TRUE, None)
        BY <1>12, <3>2 DEF StopSession
      <4> HIDE DEF m
      <4>3. <<m>> \in Seq(Mail) /\ WillShow(inbox \o <<m>>, v2SessionId, Captured')
        BY <1>6, <3>1, <4>1
      <4> QED
        BY <4>2, <4>3
    <3>3. CASE capture = "idle"
      <4>1. Captured' = Captured
        BY <3>1, <3>3 DEF Captured
      <4>2. Serving("stop") /\ Reply(<<>>, FALSE, None)
        BY <1>12, <3>3 DEF StopSession
      <4> QED
        BY <1>5, <1>8, <4>1, <4>2
    <3> QED
      BY <3>2, <3>3
  <2> QED
    BY <1>4, <2>1, ReplyShown
<1>13. CASE Save
  <2>1. Captured' = Captured
    BY <1>13 DEF Save, Captured
  <2>2. Serving("save") /\ (saved + 1 \in Snapshot)
    <3>1. requests # <<>> /\ Head(requests).op = "save" /\ Serving("save")
      BY <1>13 DEF Save, Serving
    <3> QED
      BY <1>4, <3>1, SavesBound
  <2>3. PICK ok \in BOOLEAN, sent \in Seq(Mail), n \in Nat :
          /\ Reply(sent, ok, n) /\ (ok => n \in Snapshot)
          /\ WillShow(inbox \o sent, v2SessionId, Captured')
    <3>1. CASE Reply(<<Event("pinned", saved + 1)>>, TRUE, saved + 1)
      <4> DEFINE m == Event("pinned", saved + 1)
      <4>1. m \in Mail /\ ~Settles(m)
        BY <2>2, EventsType DEF Event, Message, Settles, Lost
      <4>2. Reply(<<m>>, TRUE, saved + 1)
        BY <3>1
      <4> HIDE DEF m
      <4>3. <<m>> \in Seq(Mail) /\ WillShow(inbox \o <<m>>, v2SessionId, Captured')
        BY <1>7, <2>1, <4>1
      <4>4. saved + 1 \in Nat
        BY <1>4
      <4> QED
        BY <2>2, <4>2, <4>3, <4>4
    <3>2. CASE Reply(<<>>, FALSE, None)
      BY <1>4, <1>5, <1>8, <2>1, <3>2
    <3> QED
      BY <1>13, <3>1, <3>2 DEF Save
  <2> QED
    BY <2>2, <2>3, ReplyShown
<1>14. CASE SnapshotRelease
  <2>1. Captured' = Captured
    BY <1>14 DEF SnapshotRelease, Captured
  <2>2. PICK ok \in BOOLEAN, sent \in Seq(Mail) :
          /\ Serving("release") /\ Reply(sent, ok, None)
          /\ WillShow(inbox \o sent, v2SessionId, Captured')
    <3> DEFINE m == Event("released", Head(requests).arg)
    <3>1. Serving("release")
      BY <1>14 DEF SnapshotRelease
    <3>2. Head(requests).arg \in Nat
      BY <1>4, <3>1 DEF Serving, Calls
    <3>3. m \in Mail /\ ~Settles(m)
      BY <3>2, EventsType DEF Event, Message, Settles, Lost
    <3>4. Reply(<<m>>, TRUE, None) \/ Reply(<<>>, FALSE, None)
      BY <1>14 DEF SnapshotRelease
    <3> HIDE DEF m
    <3>5. <<m>> \in Seq(Mail) /\ WillShow(inbox \o <<m>>, v2SessionId, Captured')
      BY <1>7, <2>1, <3>3
    <3> QED
      BY <1>5, <1>8, <2>1, <3>1, <3>4, <3>5
  <2> QED
    BY <1>4, <2>2, ReplyShown
<1>15. CASE ExportStart
  <2>1. Captured' = Captured
    BY <1>15 DEF ExportStart, Captured
  <2>2. PICK ok \in BOOLEAN, n \in Nat, sent \in Seq(Mail) :
          /\ Serving("export") /\ Reply(sent, ok, n) /\ (ok => n \in Export)
          /\ WillShow(inbox \o sent, v2SessionId, Captured')
    BY <1>4, <1>5, <1>8, <1>15, <2>1, IdsAreNat DEF ExportStart
  <2> QED
    BY <2>2, ReplyShown
<1> QED
  BY <1>10, <1>11, <1>12, <1>13, <1>14, <1>15 DEF Serve

\* So do its own events, its death and its boot.
LEMMA EngineShown ==
  ASSUME TypeInv, SessionInv, DownInv,
         \/ CaptureLost \/ SinkFails \/ \E e \in Export : ExportEnds(e) \/ Unregister(e)
         \/ Crash \/ Shutdown \/ Boot \/ BootFails
  PROVE  SessionInv' /\ DownInv'
<1>1. /\ inbox \in Seq(Mail) /\ requests \in Seq(Calls) /\ session \in Nat
      /\ ~Up => capture = "idle"
  BY ConstantsAssumption DEF TypeInv, TrafficOK, IdsOK, CaptureInv
<1>2. /\ v2SessionId' = v2SessionId /\ v2State' = v2State
  BY DEF CaptureLost, SinkFails, ExportEnds, Unregister, Crash, HelperGone, Shutdown, Boot,
     BootFails, UnchangedByHelper, UnchangedByBoot, stateVars, idVars
<1>3. \A m \in Mail : Append(inbox, m) = inbox \o <<m>> /\ <<m>> \in Seq(Mail)
  BY <1>1
\* A message that settles what is captured afterwards.
<1>4. ASSUME NEW m \in Mail, Settles(m), SessionAfter(m) = Captured'
      PROVE  WillShow(inbox \o <<m>>, v2SessionId, Captured')
  BY <1>1, <1>4, ShowLast
\* A message that settles nothing.
<1>5. ASSUME NEW m \in Mail, ~Settles(m), inbox' = Append(inbox, m), Captured' = Captured,
             upsets' = upsets
      PROVE  SessionInv'
  <2>1. <<m>> \in Seq(Mail) /\ \A k \in 1 .. Len(<<m>>) : ~Settles(<<m>>[k])
    BY <1>5
  <2>2. WillShow(inbox, v2SessionId, Captured) => WillShow(inbox \o <<m>>, v2SessionId, Captured)
    BY <1>1, <2>1, ShowTail
  <2> QED
    BY <1>2, <1>3, <1>5, <2>2 DEF SessionInv
<1>6. CASE CaptureLost
  <2> DEFINE m == Event("sessionLost", session)
  <2>1. /\ Up /\ engine' = engine /\ capture' = "idle" /\ inbox' = Append(inbox, m)
    BY <1>6 DEF CaptureLost, UnchangedByHelper, engineVars
  <2>2. m \in Mail /\ Settles(m) /\ SessionAfter(m) = None
    BY <1>1, EventsType DEF Event, Message, Settles, SessionAfter
  <2> HIDE DEF m
  <2>3. Captured' = None
    BY <2>1 DEF Captured
  <2>4. WillShow(inbox', v2SessionId', Captured')
    BY <1>2, <1>3, <1>4, <2>1, <2>2, <2>3
  <2> QED
    BY <2>1, <2>4 DEF SessionInv, DownInv, Up
<1>7. CASE SinkFails
  BY <1>7 DEF SinkFails, SessionInv, DownInv, Up, engineVars
<1>8. ASSUME NEW e \in Export, ExportEnds(e) \/ Unregister(e) PROVE SessionInv' /\ DownInv'
  <2>1. /\ Up /\ engine' = engine /\ Captured' = Captured /\ upsets' = upsets
    BY <1>8 DEF ExportEnds, Unregister, UnchangedByHelper, engineVars, Captured
  <2>2. CASE ExportEnds(e)
    <3>1. PICK type \in {"completed", "failed"} : inbox' = Append(inbox, Event(type, e))
      BY <2>2 DEF ExportEnds
    <3>2. Event(type, e) \in Mail /\ ~Settles(Event(type, e))
      BY EventsType, IdsAreNat DEF Event, Message, Settles, Lost
    <3> QED
      BY <1>5, <2>1, <3>1, <3>2 DEF DownInv, Up
  <2>3. CASE Unregister(e)
    <3>1. inbox' = inbox
      BY <2>3 DEF Unregister, trafficVars
    <3> QED
      BY <1>2, <2>1, <3>1 DEF SessionInv, DownInv, Up
  <2> QED
    BY <1>8, <2>2, <2>3
<1>9. CASE Crash
  <2> DEFINE m  == Engine("crashed")
             ms == inbox \o <<m>>
  <2>1. HelperGone(<<m>>) /\ upsets' = upsets
    BY <1>9 DEF Crash
  <2>2. /\ m \in Mail /\ Settles(m) /\ SessionAfter(m) = None /\ m.type \in Lost
    BY EventsType DEF Engines, Engine, Message, Settles, SessionAfter, Lost
  <2>3. capture' = "idle" /\ inbox' = ms \o Rejections(requests)
    BY <2>1 DEF HelperGone
  <2>4. Captured' = None
    BY <2>3 DEF Captured
  <2> HIDE DEF m
  <2>5. ms \in Seq(Mail) /\ WillShow(ms, v2SessionId, Captured') /\ WillShowDown(ms, v2State)
    BY <1>1, <1>3, <1>4, <2>2, <2>4, DownLast
  <2> HIDE DEF ms
  <2>6. PICK rs \in Seq(Calls) : inbox' \in {ms, ms \o Rejections(rs)}
    BY <1>1, <2>3
  <2>7. WillShow(inbox', v2SessionId, Captured')
    BY <2>5, <2>6, CallsShow
  <2>8. WillShowDown(inbox', v2State)
    BY <2>5, <2>6, CallsShowDown
  <2> QED
    BY <1>2, <2>7, <2>8 DEF SessionInv, DownInv
<1>10. CASE Shutdown
  <2>1. CASE "restart" \in upsets'
    BY <2>1 DEF SessionInv, DownInv
  <2>2. CASE "restart" \notin upsets'
    <3>1. ~Up /\ UNCHANGED <<trafficVars, helperVars, upsets>>
      BY <1>10, <2>2 DEF Shutdown
    <3> QED
      BY <1>2, <3>1 DEF SessionInv, DownInv, trafficVars, helperVars, Captured
  <2> QED
    BY <2>1, <2>2
<1>11. CASE Boot
  <2>1. /\ engine' = "up" /\ inbox' = Append(inbox, Engine("ready")) /\ Captured' = Captured
        /\ upsets' = upsets
    BY <1>11 DEF Boot, UnchangedByBoot, helperVars, Captured
  <2>2. Engine("ready") \in Mail /\ ~Settles(Engine("ready"))
    BY EventsType DEF Engines, Engine, Message, Settles, Lost
  <2> QED
    BY <1>5, <2>1, <2>2 DEF DownInv, Up
<1>12. CASE BootFails
  <2> DEFINE m == Engine("unavailable")
  <2>1. /\ ~Up /\ inbox' = Append(inbox, m) /\ Captured' = Captured
    BY <1>12 DEF BootFails, UnchangedByBoot, helperVars, Captured, Up
  <2>2. m \in Mail /\ Settles(m) /\ SessionAfter(m) = None /\ m.type \in Lost
    BY EventsType DEF Engines, Engine, Message, Settles, SessionAfter, Lost
  <2> HIDE DEF m
  <2>3. Captured' = None
    BY <1>1, <2>1 DEF Captured
  <2>4. inbox' = inbox \o <<m>>
    BY <1>3, <2>1, <2>2
  <2>5. WillShow(inbox \o <<m>>, v2SessionId, Captured')
    BY <1>4, <2>2, <2>3
  <2>6. WillShowDown(inbox \o <<m>>, v2State)
    BY <1>1, <2>2, DownLast
  <2> QED
    BY <1>2, <2>4, <2>5, <2>6 DEF SessionInv, DownInv
<1> QED
  BY <1>6, <1>7, <1>8, <1>9, <1>10, <1>11, <1>12

-----------------------------------------------------------------------------
(* The two invariants of the renderer's state *)

\* What the renderer receives keeps them.
LEMMA ReceivedWatched ==
  ASSUME TypeInv, ExportingIsWatched, RecordingHasSession, NEW k \in DOMAIN inbox, Received(k)
  PROVE  ExportingIsWatched' /\ RecordingHasSession'
<1> USE DEF ExportingIsWatched, RecordingHasSession, SetV2State, idVars, stateVars
<1>1. CASE OnReady(k)
  BY <1>1 DEF OnReady
<1>2. CASE OnEngineLost(k)
  BY <1>2 DEF OnEngineLost
<1>3. CASE OnSessionReady(k)
  <2>1. inbox[k].id # None
    <3>1. inbox[k] \in Mail
      BY RemoveAtType DEF TypeInv, TrafficOK
    <3>2. inbox[k].id \in Session
      BY <1>3, <3>1, MailParts DEF OnSessionReady, Receive
    <3> QED
      BY <3>2 DEF Session, None
  <2> QED
    BY <1>3, <2>1 DEF OnSessionReady
<1>4. CASE OnSessionLost(k)
  BY <1>4 DEF OnSessionLost
<1>5. CASE OnSnapshotPinned(k)
  BY <1>5 DEF OnSnapshotPinned, TakeSnapshot
<1>6. CASE OnExportEnded(k)
  BY <1>6 DEF OnExportEnded, AfterExport
<1>7. CASE OnSaveAnswer(k)
  BY <1>7 DEF OnSaveAnswer, TakeSnapshot
<1>8. CASE OnExportAnswer(k)
  BY <1>8 DEF OnExportAnswer, ExportRejected, AfterExport
<1>9. CASE OnSnapshotReleased(k) \/ OnReleaseAnswer(k)
  BY <1>9 DEF OnSnapshotReleased, OnReleaseAnswer
<1>10. CASE OnRequestSessionAnswer(k) \/ OnStartStreamAnswer(k) \/ OnStopAnswer(k)
  BY <1>10 DEF OnRequestSessionAnswer, OnStartStreamAnswer, OnStopAnswer
<1> QED
  BY <1>1, <1>2, <1>3, <1>4, <1>5, <1>6, <1>7, <1>8, <1>9, <1>10 DEF Received

-----------------------------------------------------------------------------
(* The inductive invariant *)

IInv ==
  /\ TypeInv
  /\ ExportingIsWatched /\ RecordingHasSession
  /\ SessionInv /\ DownInv

\* It holds at the start.
LEMMA InitHolds == Init => IInv
<1> SUFFICES ASSUME Init PROVE IInv
  OBVIOUS
<1>1. ExportingIsWatched /\ RecordingHasSession
  BY DEF Init, ExportingIsWatched, RecordingHasSession
<1>2. DownInv
  BY DEF Init, DownInv, Up
<1>3. SessionInv
  <2> DEFINE m == Engine("ready")
  <2>1. inbox = <<m>> /\ v2SessionId = None /\ Captured = None
    BY DEF Init, Captured
  <2>2. ~Settles(m)
    BY DEF Engine, Message, Settles, Lost
  <2> HIDE DEF m
  <2>3. WillShow(<<m>>, None, None)
    BY <2>2 DEF WillShow
  <2> QED
    BY <2>1, <2>3 DEF SessionInv
<1> QED
  BY <1>1, <1>2, <1>3, InitType DEF IInv

\* Every step keeps it.
LEMMA NextHolds == IInv /\ [Next]_vars => IInv'
<1> SUFFICES ASSUME IInv, [Next]_vars PROVE IInv'
  OBVIOUS
<1>1. TypeInv /\ ExportingIsWatched /\ RecordingHasSession /\ SessionInv /\ DownInv /\ TypeInv'
  BY NextType DEF IInv
<1>2. CASE Deliver
  <2>1. PICK k \in DOMAIN inbox : Deliverable(k) /\ Received(k)
    BY <1>2 DEF Deliver, Received
  <2> QED
    BY <1>1, <2>1, ReceivedWatched, ReceivedShown DEF IInv
<1>3. CASE Retry \/ ExportWatchdog \/ StartTimeout \/ Click
  <2>1. ExportingIsWatched' /\ RecordingHasSession'
    <3> USE <1>1 DEF ExportingIsWatched, RecordingHasSession, stateVars, idVars, SetV2State
    <3>1. CASE Retry \/ StartTimeout
      BY <3>1 DEF Retry, RetryRelease, StartTimeout
    <3>2. CASE ExportWatchdog
      BY <3>2 DEF ExportWatchdog, AfterExport
    <3>3. CASE Click
      BY <3>3 DEF Click, ClickStart, ClickStop, ClickSave, ClickRestart
    <3> QED
      BY <1>3, <3>1, <3>2, <3>3
  <2> QED
    BY <1>1, <1>3, <2>1, RendererShown DEF IInv
<1>4. CASE Serve
  <2>1. UNCHANGED <<v2State, v2SessionId, watchdog>>
    BY <1>4 DEF Serve, RequestSession, StartStream, StopSession, Save, SnapshotRelease,
       ExportStart, UnchangedByHelper, stateVars, idVars
  <2>2. ExportingIsWatched' /\ RecordingHasSession'
    BY <1>1, <2>1 DEF ExportingIsWatched, RecordingHasSession
  <2> QED
    BY <1>1, <1>4, <2>2, ServeShown DEF IInv
<1>5. CASE \/ CaptureLost \/ SinkFails \/ \E e \in Export : ExportEnds(e) \/ Unregister(e)
           \/ Crash \/ Shutdown \/ Boot \/ BootFails
  <2>1. UNCHANGED <<v2State, v2SessionId, watchdog>>
    BY <1>5 DEF CaptureLost, SinkFails, ExportEnds, Unregister, Crash, HelperGone, Shutdown, Boot,
       BootFails, UnchangedByHelper, UnchangedByBoot, stateVars, idVars
  <2>2. ExportingIsWatched' /\ RecordingHasSession'
    BY <1>1, <2>1 DEF ExportingIsWatched, RecordingHasSession
  <2> QED
    BY <1>1, <1>5, <2>2, EngineShown DEF IInv
<1>6. CASE UNCHANGED vars
  <2> USE <1>1, <1>6 DEF vars, stateVars, idVars, trafficVars, helperVars, engineVars
  <2>1. ExportingIsWatched' /\ RecordingHasSession'
    BY DEF ExportingIsWatched, RecordingHasSession
  <2>2. SessionInv' /\ DownInv'
    BY DEF SessionInv, DownInv, Captured, Up
  <2> QED
    BY <2>1, <2>2 DEF IInv
<1> QED
  BY <1>2, <1>3, <1>4, <1>5, <1>6 DEF Next

\* What it says of messages and counts includes the types that TLC checks.
LEMMA TypesAreOK == TypeInv => TypeOK
<1> SUFFICES ASSUME TypeInv PROVE TypeOK
  OBVIOUS
<1>1. TrafficOK /\ IdsOK /\ StatesOK /\ SavesCounted
  BY DEF TypeInv
<1>2. \A k \in DOMAIN inbox : inbox[k].type \in Types
  <2>1. \A k \in DOMAIN inbox : inbox[k] \in Mail
    BY <1>1 DEF TrafficOK
  <2> QED
    BY <2>1, MailParts
<1>3. \A k \in DOMAIN requests : requests[k].op \in Types
  <2>1. \A k \in DOMAIN requests : requests[k] \in Calls
    BY <1>1 DEF TrafficOK
  <2> QED
    BY <2>1 DEF Calls, Ops, Types
<1>4. \A r \in BagToSet(backoff) :
        r.op = "release" /\ r.arg \in Snapshot /\ r.try \in 1 .. Attempts - 1
  BY <1>1 DEF TrafficOK, Waiting, Others, Calls
<1>5. saved \in 0 .. events
  <2>1. saved \in Nat /\ events \in 0 .. MaxEvents /\ requests \in Seq(Calls)
    BY <1>1 DEF IdsOK, StatesOK, TrafficOK
  <2>2. saved <= events
    BY <1>1, <2>1, SavesBound
  <2> QED
    BY <2>1, <2>2
<1>6. /\ v2SessionId \in Session \cup {None} /\ v2SnapshotId \in Snapshot \cup {None}
      /\ v2ExportId \in Export \cup {None}
      /\ session \in 0 .. MaxSessions /\ snapshots \subseteq Snapshot
  BY <1>1 DEF IdsOK
<1>7. /\ v2State \in {"BOOTING", "IDLE", "RECORDING", "SAVING", "EXPORTING", "ENGINE_DOWN",
                      "ENGINE_UNAVAILABLE"}
      /\ watchdog \in BOOLEAN
      /\ starting \in {"no", "request", "stream", "ready", "stop"}
      /\ engine \in {"up", "down", "unavailable"} /\ capture \in {"idle", "requested", "recording"}
      /\ export \in [Export -> {"none", "running", "ended", "gone"}]
      /\ of \in [Export -> Snapshot \cup {None}]
      /\ events \in 0 .. MaxEvents /\ restarting \in BOOLEAN
      /\ upsets \subseteq {"overlap", "timeout", "sink", "restart"}
  BY <1>1 DEF StatesOK
<1> QED
  BY <1>2, <1>3, <1>4, <1>5, <1>6, <1>7, Zenon DEF TypeOK

\* With nothing under way, what was to be shown is shown.
LEMMA QuietShows == IInv => SessionIsShown
<1> SUFFICES ASSUME IInv, Quiet, "restart" \notin upsets
             PROVE  /\ ~Up => v2State \in {"ENGINE_DOWN", "ENGINE_UNAVAILABLE"}
                    /\ "sink" \notin upsets =>
                         v2SessionId = IF capture = "recording" THEN session ELSE None
  BY DEF SessionIsShown
<1>1. inbox = <<>> /\ Len(<<>>) = 0 /\ SessionInv /\ DownInv
  BY DEF IInv, Quiet
<1>2. \A k \in 1 .. Len(inbox) : FALSE
  BY <1>1
<1>3. ~Up => v2State \in DownStates
  BY <1>1, <1>2 DEF DownInv, WillShowDown
<1>4. "sink" \notin upsets => v2SessionId = Captured
  <2>1. WillShow(inbox, v2SessionId, Captured) => v2SessionId = Captured
    BY <1>2 DEF WillShow
  <2>2. "sink" \notin upsets => upsets \cap {"sink", "restart"} = {}
    OBVIOUS
  <2> QED
    BY <1>1, <2>1, <2>2 DEF SessionInv
<1> QED
  BY <1>3, <1>4 DEF DownStates, Captured

-----------------------------------------------------------------------------
\* Every variable keeps its type: no answer that outlives a crash brings an id
\* that was never given, a release is tried no more than Attempts times, and
\* there is a click for every snapshot.
THEOREM TypeCorrect == Spec => []TypeOK
<1>1. IInv => TypeOK
  BY TypesAreOK DEF IInv
<1> QED
  BY <1>1, InitHolds, NextHolds, PTL DEF Spec

\* The renderer never waits for an export without the timer that ends the
\* wait: no order of answers, late events and crashes in engine.ts stops the
\* watchdog and leaves EXPORTING.
THEOREM ExportingWatched == Spec => []ExportingIsWatched
<1>1. IInv => ExportingIsWatched
  BY DEF IInv
<1> QED
  BY <1>1, InitHolds, NextHolds, PTL DEF Spec

\* RECORDING and SAVING are shown only with a capture session known, whatever
\* engine.ts returns to after a failed save or an export.
THEOREM RecordingInSession == Spec => []RecordingHasSession
<1>1. IInv => RecordingHasSession
  BY DEF IInv
<1> QED
  BY <1>1, InitHolds, NextHolds, PTL DEF Spec

\* With all traffic over, the renderer shows the session that the helper
\* captures, and a helper that crashed as down, in whatever order events have
\* overtaken answers and however many crashes, boots and starts there were.
THEOREM SessionShown == Spec => []SessionIsShown
BY QuietShows, InitHolds, NextHolds, PTL DEF Spec

=============================================================================
