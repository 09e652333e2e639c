------------------------ MODULE DisplayMedia_proofs ------------------------
(***************************************************************************)
(* Proofs about DisplayMedia. IInv is inductive: SelInv says whom a region *)
(* selection is for, PickInv what the variables of the handler hold for a  *)
(* flow that has armed them and is yet to be answered.                     *)
(***************************************************************************)
EXTENDS DisplayMedia, TLAPS

(* A flow that has armed nothing yet and will hint a kind only. *)
KindOnly(c) == At(c, "hinting") /\ client[c].want = None

(* Only recordings are of a region. *)
NoRegionForReplay == client[Replay].pc \notin {"enumerating", "selecting"}

(* The pending selection is of a flow that waits for one. *)
PendingSelects == pendingSelection # None => At(pendingSelection, "selecting")

(* Without a pending selection no overlay is left on the screen. *)
OverlayPending == raced \/ (pendingSelection = None => overlays = {})

(* Screens do not close. *)
ScreensStay == Screens \subseteq open

(* Only the last two stations hold a stream. *)
GotLive == \A c \in Client : client[c].got # None => client[c].pc \in {"wrapping", "capturing"}

(* Who is to arm a pick has one; without one only the replay is armed on X11. *)
Chosen ==
  \A c \in Client :
    /\ client[c].pc \in {"selecting", "picking", "legacy"} => client[c].want # None
    /\ ~wayland /\ Armed(c) /\ client[c].want = None => c = Replay

(* Of two armed flows one is yet to hint a kind and has armed no pick. *)
Alone ==
  ~wayland /\ ~crossed =>
    \A c, d \in Client : c # d /\ Armed(c) /\ Armed(d) => KindOnly(c) \/ KindOnly(d)

(* What is armed is what the armed flow wants. *)
HeldFor ==
  ~wayland /\ ~crossed =>
    \A c \in Client :
      /\ Armed(c) /\ client[c].want # None => picked = client[c].want
      /\ client[c].pc \in {"asking", "answering"} /\ client[c].want = None => picked = None \/ stale
      /\ At(c, "asking") /\ client[c].want = None => types = {"screen"}
      /\ client[c].pc \in {"hinting", "answering"} /\ client[c].want = None
           => client[c].kinds = {"screen"}

(* A pick that is armed is of a flow still to be answered, or was left behind. *)
Owned ==
  ~wayland /\ ~crossed /\ picked # None =>
    stale \/ \E d \in Client : Armed(d) /\ client[d].want # None

SelInv  == NoRegionForReplay /\ PendingSelects /\ OverlayPending /\ SelectionSettled
PickInv == ScreensStay /\ GotLive /\ Chosen /\ Alone /\ HeldFor /\ Owned /\ PickHonoured
IInv    == TypeOK /\ SelInv /\ PickInv

USE SourcesAssumption, ClientsAssumption

----------------------------------------------------------------------------
\* A flow that waits for nothing.
LEMMA IdleFlow ==
  Idle \in Flows /\ Idle.pc = "idle" /\ Idle.want = None /\ Idle.got = None
BY DEF Idle, Flows, Kinds

\* The next rung is one of the ladder.
LEMMA RearmFlow ==
  ASSUME NEW c, NEW f \in Flows, f.rung < 3
  PROVE  /\ Rearm(c, f) \in Flows
         /\ Rearm(c, f).want = f.want /\ Rearm(c, f).got = f.got
         /\ Rearm(c, f).pc = IF f.want = None THEN "hinting" ELSE "picking"
         /\ f.want = None => Rearm(c, f).kinds = f.kinds
<1> DEFINE pc == IF f.want = None THEN "hinting" ELSE "picking"
           kinds == IF f.want = None THEN f.kinds ELSE {Kind(f.want)}
<1>1. f.rung + 1 \in 1..3
  BY DEF Flows
<1>2. pc \in {"hinting", "picking"}
  OBVIOUS
<1>3. kinds \in SUBSET Kinds
  BY DEF Flows, Kind, Kinds
<1>4. Rearm(c, f) = [f EXCEPT !.rung = @ + 1, !.pc = pc, !.kinds = kinds]
  BY DEF Rearm
<1> HIDE DEF pc, kinds
<1>5. /\ Rearm(c, f) \in Flows
      /\ Rearm(c, f).want = f.want /\ Rearm(c, f).got = f.got
      /\ Rearm(c, f).pc = pc /\ Rearm(c, f).kinds = kinds
  BY <1>1, <1>2, <1>3, <1>4 DEF Flows
<1> QED
  BY <1>5 DEF pc, kinds

\* Where a failed request leaves its flow: at its end, at the next rung of the
\* ladder, or at the legacy constraint; with the pick it had, if any.
LEMMA RefusedLeaves ==
  ASSUME TypeOK, NEW c \in Client, Refused(c)
  PROVE  \E f \in Flows :
           /\ client' = [client EXCEPT ![c] = f]
           /\ f.got \in {None, client[c].got}
           /\ \/ f.pc = "idle" /\ f.want = None
              \/ f.pc \in {"legacy", "picking"} /\ f.want = client[c].want /\ f.want # None
              \/ f.pc = "hinting" /\ f.want = None /\ client[c].want = None
                 /\ f.kinds = client[c].kinds
<1>1. client[c] \in Flows
  BY DEF TypeOK
<1>2. CASE client[c].rung < 3 /\ client' = [client EXCEPT ![c] = Rearm(c, @)]
  <2> DEFINE f == Rearm(c, client[c])
  <2>1. client' = [client EXCEPT ![c] = f]
    BY <1>2
  <2>2. /\ f \in Flows /\ f.want = client[c].want /\ f.got = client[c].got
        /\ f.pc = IF client[c].want = None THEN "hinting" ELSE "picking"
        /\ client[c].want = None => f.kinds = client[c].kinds
    BY <1>1, <1>2, RearmFlow
  <2> HIDE DEF f
  <2> QED
    BY <2>1, <2>2
<1>3. CASE c \in Recs /\ client[c].want # None /\ Goto(c, "legacy")
  <2> DEFINE f == [client[c] EXCEPT !.pc = "legacy"]
  <2>1. client' = [client EXCEPT ![c] = f]
    BY <1>3 DEF Goto
  <2>2. f \in Flows /\ f.pc = "legacy" /\ f.want = client[c].want /\ f.got = client[c].got
    BY <1>1 DEF Flows
  <2> HIDE DEF f
  <2> QED
    BY <1>3, <2>1, <2>2
<1>4. CASE Leave(c)
  BY <1>4, IdleFlow DEF Leave
<1> QED
  BY <1>2, <1>3, <1>4 DEF Refused

\* Where a stream leaves its flow: nowhere if it is not one of the picked
\* window, else it holds it.
LEMMA OpenedGives ==
  ASSUME TypeOK, NEW c \in Client, NEW s \in Source, Opened(c, s)
  PROVE  \E f \in Flows :
           /\ client' = [client EXCEPT ![c] = f]
           /\ \/ f.pc = "idle" /\ f.want = None /\ f.got = None
              \/ /\ f.pc = "wrapping" /\ f.want = client[c].want /\ f.got = s
                 /\ c \in Recs /\ f.want \in Windows => s \notin Screens
<1>1. CASE Leave(c)
  BY <1>1, IdleFlow DEF Leave
<1>2. CASE Holds(c, s) /\ ~(c \in Recs /\ client[c].want \in Windows /\ s \in Screens)
  <2> DEFINE f == [Idle EXCEPT !.pc = "wrapping", !.want = client[c].want, !.got = s]
  <2>1. client[c].want \in Source \union {None}
    BY DEF TypeOK, Flows
  <2>2. f \in Flows /\ f.pc = "wrapping" /\ f.want = client[c].want /\ f.got = s
    BY <2>1, IdleFlow DEF Flows
  <2>3. client' = [client EXCEPT ![c] = f]
    BY <1>2 DEF Holds
  <2> HIDE DEF f
  <2> QED
    BY <1>2, <2>2, <2>3
<1> QED
  BY <1>1, <1>2 DEF Opened

\* What the handler hands out is a source that exists.
LEMMA OffersExist ==
  ASSUME TypeOK, NEW c \in Client,
         NEW s \in IF picked = None THEN Default(client[c].kinds) ELSE {picked} \intersect open
  PROVE  s \in open /\ s \in Source
BY DEF TypeOK, Default, OfKind

\* A flow that asked goes on to one of the states above, and to no region.
LEMMA AskedLeaves ==
  ASSUME TypeOK, NEW c \in Client, Answer(c) \/ Portal(c) \/ Legacy(c)
  PROVE  \E f \in Flows :
           client' = [client EXCEPT ![c] = f] /\ f.pc \notin {"enumerating", "selecting"}
<1>1. CASE Refused(c)
  BY <1>1, RefusedLeaves
<1>2. ASSUME NEW s \in Source, Opened(c, s)
      PROVE  \E f \in Flows :
               client' = [client EXCEPT ![c] = f] /\ f.pc \notin {"enumerating", "selecting"}
  BY <1>2, OpenedGives
<1>3. CASE Leave(c)
  BY <1>3, IdleFlow DEF Leave
<1>4. CASE Answer(c)
  BY <1>1, <1>2, <1>4, OffersExist DEF Answer
<1>5. CASE Portal(c)
  BY <1>1, <1>2, <1>5 DEF Portal, TypeOK
<1>6. CASE Legacy(c)
  BY <1>2, <1>3, <1>6 DEF Legacy, TypeOK
<1> QED
  BY <1>4, <1>5, <1>6

\* An empty cache is one.
LEMMA NoCacheType == NoCache \in [kinds : SUBSET Kinds, sources : SUBSET Source, fresh : BOOLEAN]
BY DEF NoCache

\* The invariant holds when the application starts.
LEMMA InitInv == Init => IInv
<1> SUFFICES ASSUME Init PROVE IInv
  OBVIOUS
<1>1. client \in [Client -> Flows] /\ \A c \in Client : client[c] = Idle
  BY IdleFlow DEF Init
<1>2. TypeOK
  BY <1>1, NoCacheType DEF Init, TypeOK, Source, Kinds
<1>3. \A c \in Client : client[c].pc = "idle" /\ client[c].got = None
  BY <1>1, IdleFlow
<1>4. SelInv
  BY <1>3 DEF Init, SelInv, NoRegionForReplay, PendingSelects, OverlayPending, SelectionSettled,
              At, Client
<1>5. ScreensStay
  BY DEF Init, ScreensStay, Source
<1>6. GotLive /\ Chosen /\ Alone /\ PickHonoured
  BY <1>3 DEF GotLive, Chosen, Alone, PickHonoured, Armed
<1>7. HeldFor /\ Owned
  BY <1>3 DEF Init, HeldFor, Owned, Armed, At
<1> QED
  BY <1>2, <1>4, <1>5, <1>6, <1>7 DEF IInv, PickInv

\* The overlay goes up after an await, and the check is not repeated: a second
\* selection is then noted.
LEMMA ShowOverlaySel ==
  ASSUME IInv, NEW c \in Client, ShowOverlay(c)
  PROVE  SelInv'
<1>1. /\ TypeOK /\ NoRegionForReplay /\ PendingSelects /\ OverlayPending /\ SelectionSettled
      /\ At(c, "enumerating") /\ c \in Recs
      /\ pendingSelection' = c /\ overlayWindow' = c /\ overlays' = overlays \union {c}
      /\ raced' = (raced \/ pendingSelection # None)
  BY DEF IInv, SelInv, ShowOverlay, NoRegionForReplay, At, Client
<1>2. PICK s : client' = [client EXCEPT ![c].pc = "selecting", ![c].want = s]
  BY DEF ShowOverlay
<1>3. /\ client'[c].pc = "selecting"
      /\ \A d \in Client : d # c => client'[d] = client[d]
  <2>1. client \in [Client -> Flows] /\ client[c] \in Flows
    BY <1>1 DEF TypeOK
  <2> QED
    BY <1>2, <2>1 DEF Flows
<1>4. NoRegionForReplay'
  BY <1>1, <1>3 DEF NoRegionForReplay, Client
<1>5. PendingSelects' /\ OverlayPending'
  BY <1>1, <1>3 DEF PendingSelects, OverlayPending, At
<1>6. SelectionSettled'
  <2>1. SUFFICES ASSUME ~raced, pendingSelection = None
                 PROVE  SelectionSettled'
    BY <1>1 DEF SelectionSettled
  <2>2. overlays = {} /\ \A d \in Recs : ~At(d, "selecting")
    BY <1>1, <2>1 DEF OverlayPending, SelectionSettled
  <2>3. \A d \in Recs : At(d, "selecting")' => d = c
    BY <1>3, <2>2 DEF At, Client
  <2> QED
    BY <1>1, <1>3, <2>2, <2>3 DEF SelectionSettled, At
<1> QED
  BY <1>4, <1>5, <1>6 DEF SelInv

\* A flow that asks waits for no region, before or after.
LEMMA AskedSel ==
  ASSUME IInv, NEW c \in Client, Answer(c) \/ Portal(c) \/ Legacy(c)
  PROVE  SelInv'
<1>1. /\ TypeOK /\ SelInv
      /\ client[c].pc \notin {"enumerating", "selecting"}
      /\ UNCHANGED <<selVars, raced>>
  BY DEF IInv, Answer, Portal, Legacy, At
<1>2. PICK f \in Flows :
        client' = [client EXCEPT ![c] = f] /\ f.pc \notin {"enumerating", "selecting"}
  BY <1>1, AskedLeaves
<1>3. /\ client'[c].pc \notin {"enumerating", "selecting"}
      /\ \A d \in Client : d # c => client'[d] = client[d]
  BY <1>1, <1>2 DEF TypeOK
<1>4. \A d \in Client : At(d, "selecting")' <=> At(d, "selecting")
  BY <1>1, <1>3 DEF At
<1>5. NoRegionForReplay'
  BY <1>1, <1>3 DEF SelInv, NoRegionForReplay, Client
<1> QED
  BY <1>1, <1>4, <1>5 DEF SelInv, PendingSelects, OverlayPending, SelectionSettled, selVars,
                          Client, TypeOK

\* And it stays a flow.
LEMMA AskedType ==
  ASSUME TypeOK, NEW c \in Client, Answer(c) \/ Portal(c) \/ Legacy(c)
  PROVE  TypeOK'
<1>1. PICK f \in Flows : client' = [client EXCEPT ![c] = f]
  BY AskedLeaves
<1>2. client' \in [Client -> Flows]
  BY <1>1 DEF TypeOK
<1>3. picked' \in Source \union {None} /\ types' \in SUBSET Kinds
  BY DEF TypeOK, Answer, Portal, Legacy, mainVars
<1>4. stale' \in BOOLEAN
  BY DEF TypeOK, Answer, Portal, Legacy
<1>5. UNCHANGED <<wayland, open, cache, selVars, crossed, raced>>
  BY DEF Answer, Portal, Legacy, mainVars
<1> QED
  BY <1>2, <1>3, <1>4, <1>5 DEF TypeOK, selVars

\* A failed request or an opened stream leaves the inductive invariant of the
\* pick intact: the handler asked for a flow that was armed.
LEMMA AnswerPick ==
  ASSUME IInv, NEW c \in Client, Answer(c)
  PROVE  PickInv'
<1> DEFINE Step(f) == client' = [client EXCEPT ![c] = f]
           Off(f)  == f.pc \in {"idle", "legacy", "picking", "wrapping"}
           Hinted(f) == f.pc = "hinting" /\ f.want = None /\ client[c].want = None
                        /\ f.kinds = client[c].kinds
           Given(f) == \/ f.got = None
                       \/ /\ f.pc = "wrapping" /\ f.want = client[c].want
                          /\ f.got \in IF picked = None THEN Default(client[c].kinds) ELSE {picked}
                          /\ c \in Recs /\ f.want \in Windows => f.got \notin Screens
<1>1. /\ TypeOK /\ ScreensStay /\ GotLive /\ Chosen /\ Alone /\ HeldFor /\ Owned /\ PickHonoured
      /\ At(c, "answering") /\ Armed(c) /\ ~KindOnly(c)
      /\ wayland' = wayland /\ open' = open /\ types' = types /\ crossed' = crossed
  BY DEF IInv, PickInv, Answer, At, Armed, KindOnly
<1>2. \/ picked' = None /\ stale' = stale
      \/ picked' = picked /\ (picked # None => stale') /\ (stale => stale')
  BY DEF Answer
<1>3. client[c].got = None
  BY <1>1 DEF GotLive, At
<1>4. PICK f \in Flows :
        /\ Step(f) /\ (Off(f) \/ Hinted(f)) /\ Given(f)
        /\ f.pc \in {"legacy", "picking"} => f.want # None
  <2>1. CASE Refused(c)
    BY <1>1, <1>3, <2>1, RefusedLeaves
  <2>2. ASSUME NEW s \in IF picked = None THEN Default(client[c].kinds) ELSE {picked} \intersect open,
               Opened(c, s)
        PROVE  \E f \in Flows :
                 /\ Step(f) /\ (Off(f) \/ Hinted(f)) /\ Given(f)
                 /\ f.pc \in {"legacy", "picking"} => f.want # None
    <3>1. s \in Source
      BY <1>1, <2>2, OffersExist
    <3>2. s \in IF picked = None THEN Default(client[c].kinds) ELSE {picked}
      BY <2>2
    <3> QED
      BY <1>1, <2>2, <3>1, <3>2, OpenedGives
  <2> QED
    BY <2>1, <2>2 DEF Answer
<1>5. /\ client'[c] = f
      /\ \A d \in Client : d # c => client'[d] = client[d]
  BY <1>1, <1>4 DEF TypeOK
<1>6. ~wayland /\ ~crossed => \A d \in Client : d # c /\ Armed(d) => KindOnly(d)
  BY <1>1 DEF Alone
<1> HIDE DEF Step
<1>7. ScreensStay'
  BY <1>1 DEF ScreensStay
<1>8. GotLive'
  BY <1>1, <1>4, <1>5 DEF GotLive
<1>9. Chosen'
  BY <1>1, <1>4, <1>5 DEF Chosen, Armed
<1>10. Alone'
  BY <1>1, <1>4, <1>5 DEF Alone, Armed, KindOnly, At
<1>11. HeldFor'
  <2> SUFFICES ASSUME ~wayland, ~crossed, NEW d \in Client
               PROVE  /\ Armed(d)' /\ client'[d].want # None => picked' = client'[d].want
                      /\ client'[d].pc \in {"asking", "answering"} /\ client'[d].want = None
                           => picked' = None \/ stale'
                      /\ At(d, "asking")' /\ client'[d].want = None => types' = {"screen"}
                      /\ client'[d].pc \in {"hinting", "answering"} /\ client'[d].want = None
                           => client'[d].kinds = {"screen"}
    BY <1>1 DEF HeldFor
  <2>1. CASE d = c
    BY <1>1, <1>4, <1>5, <2>1 DEF HeldFor, Armed, At
  <2>2. CASE d # c
    BY <1>1, <1>5, <1>6, <2>2 DEF HeldFor, Armed, KindOnly, At
  <2> QED
    BY <2>1, <2>2
<1>12. Owned'
  BY <1>1, <1>2 DEF Owned
<1>13. PickHonoured'
  <2> SUFFICES ASSUME NEW d \in Client, client'[d].got # None, ~wayland
               PROVE  /\ \/ client'[d].got = client'[d].want
                         \/ client'[d].want = None /\ (client'[d].got \in Screens \/ stale')
                         \/ crossed
                      /\ d \in Recs /\ client'[d].want \in Windows => client'[d].got \notin Screens
    BY <1>1 DEF PickHonoured
  <2>1. CASE d # c
    BY <1>1, <1>2, <1>5, <2>1 DEF PickHonoured
  <2>2. CASE d = c
    <3>1. /\ f.pc = "wrapping" /\ f.want = client[c].want /\ f.got # None
          /\ f.got \in IF picked = None THEN Default(client[c].kinds) ELSE {picked}
          /\ c \in Recs /\ f.want \in Windows => f.got \notin Screens
      BY <1>4, <1>5, <2>2
    <3>2. CASE client[c].want # None
      BY <1>1, <1>5, <2>2, <3>1, <3>2 DEF HeldFor
    <3>3. CASE client[c].want = None /\ picked # None
      BY <1>1, <1>2, <1>5, <2>2, <3>1, <3>3 DEF HeldFor, At
    <3>4. CASE client[c].want = None /\ picked = None /\ ~crossed
      <4>1. client[c].kinds = {"screen"}
        BY <1>1, <3>4 DEF HeldFor, At
      <4>2. OfKind(open, {"screen"}) = Screens
        BY <1>1 DEF OfKind, Kind, ScreensStay, TypeOK, Source
      <4>3. f.got \in Screens
        BY <3>1, <3>4, <4>1, <4>2 DEF Default
      <4> QED
        BY <1>5, <2>2, <3>1, <3>4, <4>3
    <3> QED
      BY <1>5, <2>2, <3>1, <3>2, <3>3, <3>4
  <2> QED
    BY <2>1, <2>2
<1> QED
  BY <1>7, <1>8, <1>9, <1>10, <1>11, <1>12, <1>13 DEF PickInv

\* With the portal of Wayland the handler is not involved.
LEMMA PortalPick ==
  ASSUME IInv, NEW c \in Client, Portal(c)
  PROVE  PickInv'
<1>1. /\ TypeOK /\ ScreensStay /\ GotLive /\ Chosen /\ At(c, "asking")
      /\ wayland /\ wayland' = wayland /\ open' = open
  BY DEF IInv, PickInv, Portal
<1>2. client[c].got = None
  BY <1>1 DEF GotLive, At
<1>3. PICK f \in Flows :
        /\ client' = [client EXCEPT ![c] = f]
        /\ f.pc \in {"legacy", "picking"} => f.want # None
        /\ f.pc # "selecting"
        /\ f.got # None => f.pc = "wrapping"
  <2>1. CASE Refused(c)
    BY <1>1, <1>2, <2>1, RefusedLeaves
  <2>2. ASSUME NEW s \in Source, Opened(c, s)
        PROVE  \E f \in Flows :
                 /\ client' = [client EXCEPT ![c] = f]
                 /\ f.pc \in {"legacy", "picking"} => f.want # None
                 /\ f.pc # "selecting"
                 /\ f.got # None => f.pc = "wrapping"
    BY <1>1, <2>2, OpenedGives
  <2> QED
    BY <1>1, <2>1, <2>2 DEF Portal, TypeOK
<1>4. /\ client'[c] = f
      /\ \A d \in Client : d # c => client'[d] = client[d]
  BY <1>1, <1>3 DEF TypeOK
<1>5. ScreensStay'
  BY <1>1 DEF ScreensStay
<1>6. GotLive'
  BY <1>1, <1>3, <1>4 DEF GotLive
<1>7. Chosen'
  BY <1>1, <1>3, <1>4 DEF Chosen
<1>8. Alone' /\ HeldFor' /\ Owned' /\ PickHonoured'
  BY <1>1 DEF Alone, HeldFor, Owned, PickHonoured
<1> QED
  BY <1>5, <1>6, <1>7, <1>8 DEF PickInv

\* The legacy constraint names the picked source.
LEMMA LegacyPick ==
  ASSUME IInv, NEW c \in Client, Legacy(c)
  PROVE  PickInv'
<1>1. /\ TypeOK /\ ScreensStay /\ GotLive /\ Chosen /\ Alone /\ HeldFor /\ Owned /\ PickHonoured
      /\ At(c, "legacy") /\ ~Armed(c)
      /\ wayland' = wayland /\ open' = open /\ types' = types /\ picked' = picked
      /\ crossed' = crossed /\ stale' = stale
  BY DEF IInv, PickInv, Legacy, At, Armed, mainVars
<1>2. PICK f \in Flows :
        /\ client' = [client EXCEPT ![c] = f]
        /\ \/ f.pc = "idle" /\ f.got = None
           \/ /\ f.pc = "wrapping" /\ f.got = f.want
              /\ c \in Recs /\ f.want \in Windows => f.got \notin Screens
  <2>1. CASE Leave(c)
    BY <2>1, IdleFlow DEF Leave
  <2>2. CASE client[c].want \in open /\ Opened(c, client[c].want)
    <3>1. client[c].want \in Source
      BY <1>1, <2>2 DEF TypeOK
    <3> QED
      BY <1>1, <2>2, <3>1, OpenedGives
  <2> QED
    BY <2>1, <2>2 DEF Legacy
<1>3. /\ client'[c] = f
      /\ \A d \in Client : d # c => client'[d] = client[d]
  BY <1>1, <1>2 DEF TypeOK
<1>4. ScreensStay'
  BY <1>1 DEF ScreensStay
<1>5. GotLive'
  BY <1>1, <1>2, <1>3 DEF GotLive
<1>6. Chosen'
  BY <1>1, <1>2, <1>3 DEF Chosen, Armed
<1>7. Alone'
  BY <1>1, <1>2, <1>3 DEF Alone, Armed, KindOnly, At
<1>8. HeldFor'
  BY <1>1, <1>2, <1>3 DEF HeldFor, Armed, At
<1>9. Owned'
  BY <1>1, <1>3 DEF Owned, Armed
<1>10. PickHonoured'
  BY <1>1, <1>2, <1>3 DEF PickHonoured
<1> QED
  BY <1>4, <1>5, <1>6, <1>7, <1>8, <1>9, <1>10 DEF PickInv

\* Arming: unless crossed, no other flow is armed, so the variables hold what
\* this flow put there.
LEMMA ArmPick ==
  ASSUME IInv, NEW c \in Client, Pick(c) \/ Hint(c)
  PROVE  PickInv'
<1>1. /\ TypeOK /\ ScreensStay /\ GotLive /\ Chosen /\ Alone /\ HeldFor /\ Owned /\ PickHonoured
      /\ wayland' = wayland /\ open' = open /\ stale' = stale
      /\ client[c].pc \in {"picking", "hinting"}
      /\ crossed => crossed'
      /\ ~crossed' => \A d \in Client : d # c => ~Armed(d)
  BY DEF IInv, PickInv, Pick, Hint, At, Crosses
<1>2. PICK f \in Flows :
        /\ client' = [client EXCEPT ![c] = f]
        /\ f.want = client[c].want /\ f.kinds = client[c].kinds /\ f.got = client[c].got
        /\ \/ /\ At(c, "picking") /\ f.pc = "hinting" /\ picked' = f.want /\ types' = types
           \/ /\ At(c, "hinting") /\ f.pc = "asking" /\ picked' = picked /\ types' = f.kinds
  <2>1. CASE Pick(c)
    <3> DEFINE f == [client[c] EXCEPT !.pc = "hinting"]
    <3>1. f \in Flows /\ f.want = client[c].want /\ f.kinds = client[c].kinds
          /\ f.got = client[c].got /\ f.pc = "hinting"
      BY <1>1 DEF TypeOK, Flows
    <3>2. client' = [client EXCEPT ![c] = f]
      BY <2>1 DEF Pick, Goto
    <3> HIDE DEF f
    <3> QED
      BY <2>1, <3>1, <3>2 DEF Pick
  <2>2. CASE Hint(c)
    <3> DEFINE f == [client[c] EXCEPT !.pc = "asking"]
    <3>1. f \in Flows /\ f.want = client[c].want /\ f.kinds = client[c].kinds
          /\ f.got = client[c].got /\ f.pc = "asking"
      BY <1>1 DEF TypeOK, Flows
    <3>2. client' = [client EXCEPT ![c] = f]
      BY <2>2 DEF Hint, Goto
    <3> HIDE DEF f
    <3> QED
      BY <2>2, <3>1, <3>2 DEF Hint
  <2> QED
    BY <2>1, <2>2
<1>3. /\ client'[c] = f
      /\ \A d \in Client : d # c => client'[d] = client[d]
  BY <1>1, <1>2 DEF TypeOK
<1>4. f.got = None
  BY <1>1, <1>2 DEF GotLive
<1>5. ScreensStay'
  BY <1>1 DEF ScreensStay
<1>6. GotLive'
  BY <1>1, <1>2, <1>3, <1>4 DEF GotLive
<1>7. Chosen'
  BY <1>1, <1>2, <1>3 DEF Chosen, Armed, At
<1>8. Alone'
  BY <1>1, <1>3 DEF Alone, Armed
<1>9. HeldFor'
  <2> SUFFICES ASSUME ~wayland, ~crossed', NEW d \in Client
               PROVE  /\ Armed(d)' /\ client'[d].want # None => picked' = client'[d].want
                      /\ client'[d].pc \in {"asking", "answering"} /\ client'[d].want = None
                           => picked' = None \/ stale'
                      /\ At(d, "asking")' /\ client'[d].want = None => types' = {"screen"}
                      /\ client'[d].pc \in {"hinting", "answering"} /\ client'[d].want = None
                           => client'[d].kinds = {"screen"}
    BY <1>1 DEF HeldFor
  <2>1. CASE d # c
    BY <1>1, <1>3, <2>1 DEF Armed, At
  <2>2. CASE d = c /\ At(c, "picking")
    BY <1>1, <1>2, <1>3, <2>2 DEF Chosen, At
  <2>3. CASE d = c /\ At(c, "hinting")
    <3>1. picked # None /\ f.want = None => stale
      BY <1>1, <1>2, <2>3 DEF Owned
    <3> QED
      BY <1>1, <1>2, <1>3, <2>3, <3>1 DEF HeldFor, Armed, At
  <2> QED
    BY <1>1, <2>1, <2>2, <2>3 DEF At
<1>10. Owned'
  <2>1. CASE At(c, "picking")
    BY <1>2, <1>3, <2>1 DEF Owned, Armed, At
  <2>2. CASE At(c, "hinting")
    BY <1>1, <1>2, <1>3, <2>2 DEF Owned, Armed, At
  <2> QED
    BY <1>1, <2>1, <2>2 DEF At
<1>11. PickHonoured'
  BY <1>1, <1>2, <1>3, <1>4 DEF PickHonoured
<1> QED
  BY <1>5, <1>6, <1>7, <1>8, <1>9, <1>10, <1>11 DEF PickInv

\* Every step keeps the types.
LEMMA TypeStep == IInv /\ [Next]_vars => TypeOK'
<1> SUFFICES ASSUME IInv, [Next]_vars PROVE TypeOK'
  OBVIOUS
<1>1. ASSUME NEW c \in Client, Start(c) PROVE TypeOK'
  BY <1>1 DEF Start, Goto, mainVars, selVars, At, Flows, IInv, TypeOK, Client, SelInv,
           NoRegionForReplay
<1>2. ASSUME NEW c \in Client, Choose(c) PROVE TypeOK'
  BY <1>2 DEF Choose, Leave, Begins, Idle, Listed, Listing, CacheHit, OfKind, Source, Kinds,
           selVars, At, Flows, IInv, TypeOK, Client, SelInv, NoRegionForReplay
<1>3. ASSUME NEW c \in Client, ChooseKind(c) PROVE TypeOK'
  BY <1>3 DEF ChooseKind, Begins, Idle, Kinds, mainVars, selVars, At, Flows, IInv, TypeOK,
           Client, SelInv, NoRegionForReplay
<1>4. ASSUME NEW c \in Client, SelectCropRegion(c) PROVE TypeOK'
  BY <1>4 DEF SelectCropRegion, Goto, Leave, Idle, mainVars, selVars, At, Flows, IInv, TypeOK,
           Client, SelInv, NoRegionForReplay
<1>5. ASSUME NEW c \in Client, ShowOverlay(c) PROVE TypeOK'
  BY <1>5 DEF ShowOverlay, Listed, Listing, CacheHit, OfKind, Source, Kinds, At, Flows, IInv,
           TypeOK, Client, SelInv, NoRegionForReplay
<1>6. ASSUME NEW c \in Client, OverlayClosed(c) PROVE TypeOK'
  BY <1>6 DEF OverlayClosed, Closed, Answered, Begins, Leave, Idle, Kinds, mainVars, At,
           Flows, IInv, TypeOK, Client, SelInv, NoRegionForReplay
<1>7. ASSUME NEW c \in Client, Pick(c) PROVE TypeOK'
  BY <1>7 DEF Pick, Goto, Crosses, selVars, At, Flows, IInv, TypeOK, Client, SelInv,
           NoRegionForReplay
<1>8. ASSUME NEW c \in Client, Hint(c) PROVE TypeOK'
  BY <1>8 DEF Hint, Goto, Crosses, selVars, At, Flows, IInv, TypeOK, Client, SelInv,
           NoRegionForReplay
<1>9. ASSUME NEW c \in Client, Ask(c) PROVE TypeOK'
  BY <1>9 DEF Ask, Kinds, selVars, At, Flows, IInv, TypeOK, Client, SelInv, NoRegionForReplay
<1>10. ASSUME NEW c \in Client, Answer(c) PROVE TypeOK'
  BY <1>10, AskedType DEF IInv
<1>11. ASSUME NEW c \in Client, Portal(c) PROVE TypeOK'
  BY <1>11, AskedType DEF IInv
<1>12. ASSUME NEW c \in Client, Legacy(c) PROVE TypeOK'
  BY <1>12, AskedType DEF IInv
<1>13. ASSUME NEW c \in Client, Wrap(c) PROVE TypeOK'
  BY <1>13, NoCacheType DEF Wrap, Goto, Leave, Idle, selVars, At, Flows, IInv, TypeOK, Client,
           SelInv, NoRegionForReplay
<1>14. ASSUME NEW c \in Client, Stop(c) PROVE TypeOK'
  BY <1>14 DEF Stop, Leave, Idle, mainVars, selVars, At, Flows, IInv, TypeOK, Client, SelInv,
           NoRegionForReplay
<1>15. ASSUME OverlaySends PROVE TypeOK'
  BY <1>15 DEF OverlaySends, ResolveSelection, Answered, Begins, Leave, Idle, Kinds, mainVars,
           At, Flows, IInv, TypeOK, Client, SelInv, NoRegionForReplay
<1>16. ASSUME CacheExpires PROVE TypeOK'
  BY <1>16, NoCacheType DEF CacheExpires, selVars, At, Flows, IInv, TypeOK, Client, SelInv,
           NoRegionForReplay
<1>17. ASSUME WindowCloses PROVE TypeOK'
  BY <1>17 DEF WindowCloses, mainVars, selVars, At, Flows, IInv, TypeOK, Client, SelInv,
           NoRegionForReplay
<1>18. ASSUME UNCHANGED vars PROVE TypeOK'
  BY <1>18 DEF vars, mainVars, selVars, At, IInv, TypeOK, Client, SelInv, NoRegionForReplay
<1>19. ASSUME NEW c \in Client, NothingListed(c) PROVE TypeOK'
  BY <1>19, NoCacheType DEF NothingListed, Leave, Idle, selVars, At, Flows, IInv, TypeOK, Client,
           SelInv, NoRegionForReplay
<1> QED
  BY <1>1, <1>2, <1>3, <1>4, <1>5, <1>6, <1>7, <1>8, <1>9, <1>10, <1>11, <1>12, <1>13, <1>14, <1>15, <1>16, <1>17, <1>18,
     <1>19 DEF Next

\* Every step keeps the invariant of the selections.
LEMMA SelStep == IInv /\ [Next]_vars => SelInv'
<1> SUFFICES ASSUME IInv, [Next]_vars PROVE SelInv'
  OBVIOUS
<1>1. ASSUME NEW c \in Client, Start(c) PROVE SelInv'
  BY <1>1 DEF Start, Goto, mainVars, selVars, At, Flows, IInv, TypeOK, Client, SelInv,
           NoRegionForReplay, PendingSelects, OverlayPending, SelectionSettled
<1>2. ASSUME NEW c \in Client, Choose(c) PROVE SelInv'
  BY <1>2 DEF Choose, Leave, Begins, Idle, selVars, At, Flows, IInv, TypeOK, Client, SelInv,
           NoRegionForReplay, PendingSelects, OverlayPending, SelectionSettled
<1>3. ASSUME NEW c \in Client, ChooseKind(c) PROVE SelInv'
  BY <1>3 DEF ChooseKind, Begins, Idle, mainVars, selVars, At, Flows, IInv, TypeOK, Client,
           SelInv, NoRegionForReplay, PendingSelects, OverlayPending, SelectionSettled
<1>4. ASSUME NEW c \in Client, SelectCropRegion(c) PROVE SelInv'
  BY <1>4 DEF SelectCropRegion, Goto, Leave, Idle, mainVars, selVars, At, Flows, IInv, TypeOK,
           Client, SelInv, NoRegionForReplay, PendingSelects, OverlayPending,
           SelectionSettled
<1>5. ASSUME NEW c \in Client, ShowOverlay(c) PROVE SelInv'
  BY <1>5, ShowOverlaySel
<1>6. ASSUME NEW c \in Client, OverlayClosed(c) PROVE SelInv'
  BY <1>6 DEF OverlayClosed, Closed, Answered, Begins, Leave, Idle, mainVars, At, Flows, IInv,
           TypeOK, Client, SelInv, NoRegionForReplay, PendingSelects, OverlayPending,
           SelectionSettled
<1>7. ASSUME NEW c \in Client, Pick(c) PROVE SelInv'
  BY <1>7 DEF Pick, Goto, Crosses, selVars, At, Flows, IInv, TypeOK, Client, SelInv,
           NoRegionForReplay, PendingSelects, OverlayPending, SelectionSettled
<1>8. ASSUME NEW c \in Client, Hint(c) PROVE SelInv'
  BY <1>8 DEF Hint, Goto, Crosses, selVars, At, Flows, IInv, TypeOK, Client, SelInv,
           NoRegionForReplay, PendingSelects, OverlayPending, SelectionSettled
<1>9. ASSUME NEW c \in Client, Ask(c) PROVE SelInv'
  BY <1>9 DEF Ask, selVars, At, Flows, IInv, TypeOK, Client, SelInv, NoRegionForReplay,
           PendingSelects, OverlayPending, SelectionSettled
<1>10. ASSUME NEW c \in Client, Answer(c) PROVE SelInv'
  BY <1>10, AskedSel
<1>11. ASSUME NEW c \in Client, Portal(c) PROVE SelInv'
  BY <1>11, AskedSel
<1>12. ASSUME NEW c \in Client, Legacy(c) PROVE SelInv'
  BY <1>12, AskedSel
<1>13. ASSUME NEW c \in Client, Wrap(c) PROVE SelInv'
  BY <1>13 DEF Wrap, Goto, Leave, Idle, selVars, At, Flows, IInv, TypeOK, Client, SelInv,
           NoRegionForReplay, PendingSelects, OverlayPending, SelectionSettled
<1>14. ASSUME NEW c \in Client, Stop(c) PROVE SelInv'
  BY <1>14 DEF Stop, Leave, Idle, mainVars, selVars, At, Flows, IInv, TypeOK, Client, SelInv,
           NoRegionForReplay, PendingSelects, OverlayPending, SelectionSettled
<1>15. ASSUME OverlaySends PROVE SelInv'
  BY <1>15 DEF OverlaySends, ResolveSelection, Answered, Begins, Leave, Idle, mainVars, At,
           Flows, IInv, TypeOK, Client, SelInv, NoRegionForReplay, PendingSelects,
           OverlayPending, SelectionSettled
<1>16. ASSUME CacheExpires PROVE SelInv'
  BY <1>16 DEF CacheExpires, selVars, At, Flows, IInv, TypeOK, Client, SelInv,
           NoRegionForReplay, PendingSelects, OverlayPending, SelectionSettled
<1>17. ASSUME WindowCloses PROVE SelInv'
  BY <1>17 DEF WindowCloses, mainVars, selVars, At, Flows, IInv, TypeOK, Client, SelInv,
           NoRegionForReplay, PendingSelects, OverlayPending, SelectionSettled
<1>18. ASSUME UNCHANGED vars PROVE SelInv'
  BY <1>18 DEF vars, mainVars, selVars, At, IInv, TypeOK, Client, SelInv, NoRegionForReplay, PendingSelects, OverlayPending, SelectionSettled
<1>19. ASSUME NEW c \in Client, NothingListed(c) PROVE SelInv'
  BY <1>19 DEF NothingListed, Leave, Idle, selVars, At, Flows, IInv, TypeOK, Client, SelInv,
           NoRegionForReplay, PendingSelects, OverlayPending, SelectionSettled
<1> QED
  BY <1>1, <1>2, <1>3, <1>4, <1>5, <1>6, <1>7, <1>8, <1>9, <1>10, <1>11, <1>12, <1>13, <1>14, <1>15, <1>16, <1>17, <1>18,
     <1>19 DEF Next

\* Every step keeps the invariant of the pick.
LEMMA PickStep == IInv /\ [Next]_vars => PickInv'
<1> SUFFICES ASSUME IInv, [Next]_vars PROVE PickInv'
  OBVIOUS
<1>1. ASSUME NEW c \in Client, Start(c) PROVE PickInv'
  BY <1>1 DEF Start, Goto, mainVars, selVars, At, Flows, IInv, TypeOK, Client, SelInv,
           PendingSelects, PickInv, ScreensStay, GotLive, Chosen, Alone, HeldFor, Owned,
           PickHonoured, Armed, KindOnly
<1>2. ASSUME NEW c \in Client, Choose(c) PROVE PickInv'
  BY <1>2 DEF Choose, Leave, Begins, Idle, Listing, CacheHit, OfKind, Source, selVars, At,
           Flows, IInv, TypeOK, Client, SelInv, PendingSelects, PickInv, ScreensStay, GotLive,
           Chosen, Alone, HeldFor, Owned, PickHonoured, Armed, KindOnly
<1>3. ASSUME NEW c \in Client, ChooseKind(c) PROVE PickInv'
  BY <1>3 DEF ChooseKind, Begins, Idle, Kinds, mainVars, selVars, At, Flows, IInv, TypeOK,
           Client, SelInv, PendingSelects, PickInv, ScreensStay, GotLive, Chosen, Alone,
           HeldFor, Owned, PickHonoured, Armed, KindOnly
<1>4. ASSUME NEW c \in Client, SelectCropRegion(c) PROVE PickInv'
  BY <1>4 DEF SelectCropRegion, Goto, Leave, Idle, mainVars, selVars, At, Flows, IInv, TypeOK,
           Client, SelInv, PendingSelects, PickInv, ScreensStay, GotLive, Chosen, Alone,
           HeldFor, Owned, PickHonoured, Armed, KindOnly
<1>5. ASSUME NEW c \in Client, ShowOverlay(c) PROVE PickInv'
  BY <1>5 DEF ShowOverlay, Listing, CacheHit, OfKind, Source, Kinds, At, Flows, IInv, TypeOK,
           Client, SelInv, PendingSelects, PickInv, ScreensStay, GotLive, Chosen, Alone,
           HeldFor, Owned, PickHonoured, Armed, KindOnly
<1>6. ASSUME NEW c \in Client, OverlayClosed(c) PROVE PickInv'
  BY <1>6 DEF OverlayClosed, Closed, Answered, Begins, Leave, Idle, Kinds, mainVars, At,
           Flows, IInv, TypeOK, Client, SelInv, PendingSelects, PickInv, ScreensStay, GotLive,
           Chosen, Alone, HeldFor, Owned, PickHonoured, Armed, KindOnly
<1>7. ASSUME NEW c \in Client, Pick(c) PROVE PickInv'
  BY <1>7, ArmPick
<1>8. ASSUME NEW c \in Client, Hint(c) PROVE PickInv'
  BY <1>8, ArmPick
<1>9. ASSUME NEW c \in Client, Ask(c) PROVE PickInv'
  BY <1>9 DEF Ask, Kinds, selVars, At, Flows, IInv, TypeOK, Client, SelInv, PendingSelects,
           PickInv, ScreensStay, GotLive, Chosen, Alone, HeldFor, Owned, PickHonoured, Armed,
           KindOnly
<1>10. ASSUME NEW c \in Client, Answer(c) PROVE PickInv'
  BY <1>10, AnswerPick
<1>11. ASSUME NEW c \in Client, Portal(c) PROVE PickInv'
  BY <1>11, PortalPick
<1>12. ASSUME NEW c \in Client, Legacy(c) PROVE PickInv'
  BY <1>12, LegacyPick
<1>13. ASSUME NEW c \in Client, Wrap(c) PROVE PickInv'
  BY <1>13 DEF Wrap, Goto, Leave, Idle, selVars, At, Flows, IInv, TypeOK, Client, SelInv,
           PendingSelects, PickInv, ScreensStay, GotLive, Chosen, Alone, HeldFor, Owned,
           PickHonoured, Armed, KindOnly
<1>14. ASSUME NEW c \in Client, Stop(c) PROVE PickInv'
  BY <1>14 DEF Stop, Leave, Idle, mainVars, selVars, At, Flows, IInv, TypeOK, Client, SelInv,
           PendingSelects, PickInv, ScreensStay, GotLive, Chosen, Alone, HeldFor, Owned,
           PickHonoured, Armed, KindOnly
<1>15. ASSUME OverlaySends PROVE PickInv'
  BY <1>15 DEF OverlaySends, ResolveSelection, Answered, Begins, Leave, Idle, Kinds, mainVars,
           At, Flows, IInv, TypeOK, Client, SelInv, PendingSelects, PickInv, ScreensStay,
           GotLive, Chosen, Alone, HeldFor, Owned, PickHonoured, Armed, KindOnly
<1>16. ASSUME CacheExpires PROVE PickInv'
  BY <1>16 DEF CacheExpires, selVars, At, Flows, IInv, TypeOK, Client, SelInv, PendingSelects,
           PickInv, ScreensStay, GotLive, Chosen, Alone, HeldFor, Owned, PickHonoured, Armed,
           KindOnly
<1>17. ASSUME WindowCloses PROVE PickInv'
  BY <1>17 DEF WindowCloses, mainVars, selVars, At, Flows, IInv, TypeOK, Client, SelInv,
           PendingSelects, PickInv, ScreensStay, GotLive, Chosen, Alone, HeldFor, Owned,
           PickHonoured, Armed, KindOnly
<1>18. ASSUME UNCHANGED vars PROVE PickInv'
  BY <1>18 DEF vars, mainVars, selVars, At, IInv, TypeOK, Client, SelInv, PendingSelects, PickInv, ScreensStay, GotLive, Chosen, Alone, HeldFor, Owned, PickHonoured, Armed, KindOnly
<1>19. ASSUME NEW c \in Client, NothingListed(c) PROVE PickInv'
  BY <1>19 DEF NothingListed, Leave, Idle, selVars, At, Flows, IInv, TypeOK, Client, SelInv,
           PendingSelects, PickInv, ScreensStay, GotLive, Chosen, Alone, HeldFor, Owned,
           PickHonoured, Armed, KindOnly
<1> QED
  BY <1>1, <1>2, <1>3, <1>4, <1>5, <1>6, <1>7, <1>8, <1>9, <1>10, <1>11, <1>12, <1>13, <1>14, <1>15, <1>16, <1>17, <1>18,
     <1>19 DEF Next

\* The inductive invariant holds in every state that can be reached.
LEMMA Invariant == Spec => []IInv
<1>1. IInv /\ [Next]_vars => IInv'
  BY TypeStep, SelStep, PickStep DEF IInv
<1> QED
  BY InitInv, <1>1, PTL DEF Spec

\* Whatever the flows, the sources and the handler do, every variable of the
\* two processes keeps its type.
THEOREM TypeCorrect == Spec => []TypeOK
<1>1. IInv => TypeOK
  BY DEF IInv
<1> QED
  BY Invariant, <1>1, PTL

\* For any number of recordings and sources: what is recorded is what was
\* picked, unless another flow armed its pick in between or one that was refused
\* left its own behind; a recording of a window is never one of a screen.
THEOREM SourcePicked == Spec => []PickHonoured
<1>1. IInv => PickHonoured
  BY DEF IInv, PickInv
<1> QED
  BY Invariant, <1>1, PTL

\* For any number of recordings: a flow that waits for a region has the pending
\* selection and the only overlay, unless a second start slipped in.
THEOREM RegionAnswered == Spec => []SelectionSettled
<1>1. IInv => SelectionSettled
  BY DEF IInv, SelInv
<1> QED
  BY Invariant, <1>1, PTL
=============================================================================
