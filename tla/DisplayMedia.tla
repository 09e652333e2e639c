---------------------------- MODULE DisplayMedia ----------------------------
(***************************************************************************)
(* How a recording and the replay buffer get their stream: the source the  *)
(* user picks goes to the main process in two IPC calls that arm variables *)
(* read once by the display-media handler (src/electron/main.ts), with an  *)
(* await between; getDisplayMedia may fail for the sound and is asked up   *)
(* to three times (src/src/recorder-client.ts). On X11 a region is drawn   *)
(* on an overlay window first. Windows close at any time.                  *)
(***************************************************************************)
EXTENDS Integers, FiniteSets

CONSTANTS Screens, Windows,  \* what desktopCapturer may list
          Recs,              \* start flows of a recording; two only in a double start
          Replay,            \* the start flow of the replay buffer
          None

ASSUME SourcesAssumption == Screens # {} /\ Screens \intersect Windows = {}
ASSUME ClientsAssumption == Replay \notin Recs /\ None \notin Recs \union {Replay} \union Screens \union Windows

Source  == Screens \union Windows
Client  == Recs \union {Replay}
Kinds   == {"screen", "window"}
Kind(s) == IF s \in Screens THEN "screen" ELSE "window"
OfKind(S, kinds) == {s \in S : Kind(s) \in kinds}

VARIABLES
  wayland,           \* detectSessionType() = "wayland"
  open,              \* sources that exist
  cache,             \* cachedSources, its key and whether it is fresh
  types,             \* nextDisplayMediaTypes
  picked,            \* pendingPickedSourceId
  client,            \* the flows
  pendingSelection,  \* the flow a drawn region is for
  overlayWindow,     \* the flow whose overlay the variable refers to
  overlays,          \* overlay windows on the screen
  crossed,           \* history: a flow armed its pick while another was armed
  stale,             \* history: a request ended with a pick still armed
  raced              \* history: a second selection passed the check of the first

mainVars == <<cache, types, picked>>
selVars  == <<pendingSelection, overlayWindow, overlays>>
vars == <<wayland, open, mainVars, client, selVars, crossed, stale, raced>>

(* pc: where the flow awaits; want: the picked source; kinds: what it hints, then what *)
(* the handler has read; rung: of the ladder, 3 is video only; got: its live stream.   *)
Idle == [pc |-> "idle", want |-> None, kinds |-> Kinds, rung |-> 1, got |-> None]
Flows == [pc : {"idle", "starting", "enumerating", "selecting", "picking", "hinting", "asking",
                "answering", "legacy", "wrapping", "capturing"},
          want : Source \union {None}, kinds : SUBSET Kinds, rung : 1..3,
          got : Source \union {None}]

NoCache == [kinds |-> {}, sources |-> {}, fresh |-> FALSE]

Init ==
  /\ wayland \in BOOLEAN
  /\ open = Source
  /\ cache = NoCache
  /\ types = Kinds /\ picked = None
  /\ client = [c \in Client |-> Idle]
  /\ pendingSelection = None /\ overlayWindow = None /\ overlays = {}
  /\ crossed = FALSE /\ stale = FALSE /\ raced = FALSE

At(c, pc)     == client[c].pc = pc
Goto(c, pc)   == client' = [client EXCEPT ![c].pc = pc]
Leave(c)      == client' = [client EXCEPT ![c] = Idle]
Armed(c)      == client[c].pc \in {"hinting", "asking", "answering"}
Crosses(c)    == \E d \in Client \ {c} : Armed(d)

----------------------------------------------------------------------------
(* What to record *)

(* getSourcesCached: 30 s old at most and for the same kinds, else a new enumeration.  *)
CacheHit(kinds) == cache.fresh /\ cache.kinds = kinds /\ cache.sources # {}
Listing(kinds)  == IF CacheHit(kinds) THEN cache.sources ELSE OfKind(open, kinds)
Listed(kinds)   ==
  cache' = IF CacheHit(kinds) THEN cache
           ELSE [kinds |-> kinds, sources |-> Listing(kinds), fresh |-> TRUE]

(* The 30 s are over, or invalidateSourceCache runs as a display changes. *)
CacheExpires ==
  /\ cache.fresh
  /\ cache' = NoCache
  /\ UNCHANGED <<wayland, open, types, picked, client, selVars, crossed, stale, raced>>

(* begin*, startReplay: status is "idle" as long as the flow asks for the app's info   *)
(* and, its modal being open, for a source.                                            *)
Start(c) ==
  /\ At(c, "idle")
  /\ c \in Recs => \A d \in Recs \ {c} : client[d].pc \in {"idle", "starting"}
  /\ Goto(c, "starting")
  /\ UNCHANGED <<wayland, open, mainVars, selVars, crossed, stale, raced>>

(* First rung without sound is the last of those with. *)
Begins(c, pc, want, kinds) ==
  \E rung \in {1, 3} :
    client' = [client EXCEPT ![c] = [pc |-> pc, want |-> want, kinds |-> kinds,
                                     rung |-> rung, got |-> None]]

(* A source out of the list, which may be 30 s old; or the user cancels. The replay    *)
(* buffer lets pick windows only.                                                      *)
Choose(c) ==
  /\ At(c, "starting") /\ ~wayland
  /\ \E kind \in Kinds :
       /\ c = Replay => kind = "window"
       /\ Listed({kind})
       /\ \/ Leave(c)
          \/ \E s \in Listing({kind}) : Begins(c, "picking", s, {kind})
  /\ UNCHANGED <<wayland, open, types, picked, selVars, crossed, stale, raced>>

(* No source, but a kind: the portal of Wayland will ask; the replay of a screen       *)
(* leaves the choice to the handler.                                                   *)
ChooseKind(c) ==
  /\ At(c, "starting")
  /\ \E kind \in Kinds :
       /\ wayland \/ (c = Replay /\ kind = "screen")
       /\ Begins(c, "hinting", None, {kind})
  /\ UNCHANGED <<wayland, open, mainVars, selVars, crossed, stale, raced>>

----------------------------------------------------------------------------
(* A region *)

(* startCropSelection up to its await. *)
SelectCropRegion(c) ==
  /\ At(c, "starting") /\ c \in Recs /\ ~wayland
  /\ IF pendingSelection # None THEN Leave(c) ELSE Goto(c, "enumerating")
  /\ UNCHANGED <<wayland, open, mainVars, selVars, crossed, stale, raced>>

(* The check of pendingSelection is not repeated after the await. The screen is the    *)
(* one with the cursor's display id, or the first listed.                              *)
ShowOverlay(c) ==
  /\ At(c, "enumerating")
  /\ Listed({"screen"})
  /\ \E s \in Listing({"screen"}) :
       client' = [client EXCEPT ![c].pc = "selecting", ![c].want = s]
  /\ pendingSelection' = c /\ overlayWindow' = c
  /\ overlays' = overlays \union {c}
  /\ raced' = (raced \/ pendingSelection # None)
  /\ UNCHANGED <<wayland, open, types, picked, crossed, stale>>

(* The enumeration fails, or lists nothing: there is nothing to choose, and no overlay. *)
NothingListed(c) ==
  /\ \/ At(c, "enumerating") /\ ~CacheHit({"screen"})
     \/ At(c, "starting") /\ ~wayland /\ \E kind \in Kinds : ~CacheHit({kind})
  /\ Leave(c)
  /\ cache' \in {cache, NoCache}
  /\ UNCHANGED <<wayland, open, types, picked, selVars, crossed, stale, raced>>

(* The answer of select-crop-region: a region goes on to startWithSource. *)
Answered(c, region) ==
  IF c = None THEN UNCHANGED client
  ELSE \/ region /\ Begins(c, "picking", client[c].want, {"screen"})
       \/ ~region /\ Leave(c)

Closed_Unheard(pending) == overlayWindow' = None /\ UNCHANGED <<pendingSelection, client>>

(* The "closed" event of an overlay window, whichever it is. *)
Closed(pending) ==
  /\ overlayWindow' = None /\ pendingSelection' = None
  /\ Answered(pending, FALSE)

(* resolveSelection: pendingSelection is cleared first, so that the "closed" event     *)
(* that destroyOverlay causes finds nothing to cancel.                                 *)
ResolveSelection(region) ==
  /\ pendingSelection' = None
  /\ overlays' = overlays \ {overlayWindow}
  /\ overlayWindow' = None
  /\ Answered(pendingSelection, region)

(* selection-commit and selection-cancel, from any overlay that is on the screen. *)
OverlaySends ==
  /\ overlays # {}
  /\ \E region \in BOOLEAN : ResolveSelection(region)
  /\ UNCHANGED <<wayland, open, mainVars, crossed, stale, raced>>

(* The window manager closes one. *)
OverlayClosed(c) ==
  /\ c \in overlays
  /\ overlays' = overlays \ {c}
  /\ Closed(pendingSelection)
  /\ UNCHANGED <<wayland, open, mainVars, crossed, stale, raced>>

----------------------------------------------------------------------------
(* Arming and asking *)

(* setPickedDisplayMediaSource. *)
Pick(c) ==
  /\ At(c, "picking")
  /\ picked' = client[c].want
  /\ Goto(c, "hinting")
  /\ crossed' = (crossed \/ Crosses(c))
  /\ UNCHANGED <<wayland, open, cache, types, selVars, stale, raced>>

(* setNextDisplayMedia, then getDisplayMedia is called. *)
Hint(c) ==
  /\ At(c, "hinting")
  /\ types' = client[c].kinds
  /\ Goto(c, "asking")
  /\ crossed' = (crossed \/ Crosses(c))
  /\ UNCHANGED <<wayland, open, cache, picked, selVars, stale, raced>>

(* The handler takes the hint; on X11 it enumerates. *)
Ask(c) ==
  /\ At(c, "asking") /\ ~wayland
  /\ client' = [client EXCEPT ![c].pc = "answering", ![c].kinds = types]
  /\ types' = Kinds
  /\ UNCHANGED <<wayland, open, cache, picked, selVars, crossed, stale, raced>>

(* The rungs of acquireDisplayStream arm anew before each retry. *)
Rearm_Forgotten(c, s) == [s EXCEPT !.pc = "asking", !.rung = @ + 1]

Rearm(c, s) ==
  [s EXCEPT !.rung = @ + 1, !.pc = IF s.want = None THEN "hinting" ELSE "picking",
            !.kinds = IF s.want = None THEN @ ELSE {Kind(s.want)}]

Refused_WithoutEnd(c) ==
  client' = [client EXCEPT ![c] = Rearm(c, @)]

(* getDisplayMedia has failed. A failure of the sound leads to the next rung, another  *)
(* one to the caller: a recording of a picked source then tries the legacy constraint. *)
Refused(c) ==
  \/ /\ client[c].rung < 3
     /\ client' = [client EXCEPT ![c] = Rearm(c, @)]
  \/ IF c \in Recs /\ client[c].want # None THEN Goto(c, "legacy") ELSE Leave(c)

Holds(c, s) ==
  client' = [client EXCEPT ![c] = [Idle EXCEPT !.pc = "wrapping", !.want = client[c].want,
                                               !.got = s]]

(* There is a stream. Of a picked window, startCapture gives up one of a monitor.      *)
Opened(c, s) ==
  IF c \in Recs /\ client[c].want \in Windows /\ s \in Screens
  THEN Leave(c)
  ELSE Holds(c, s)

(* What the handler gives when there is no pick: one of the hinted kinds, or any. *)
Default(kinds) == IF OfKind(open, kinds) # {} THEN OfKind(open, kinds) ELSE open

(* The enumeration is there. It has failed or is empty: the pick stays armed. Else the *)
(* pick of whoever armed last is taken, or nothing was picked; Chromium may still fail.*)
Answer(c) ==
  /\ At(c, "answering")
  /\ \/ /\ Refused(c)
        /\ stale' = (stale \/ picked # None)
        /\ UNCHANGED picked
     \/ /\ \E s \in IF picked = None THEN Default(client[c].kinds) ELSE {picked} \intersect open :
             Opened(c, s)
        /\ picked' = None /\ UNCHANGED stale
     \/ /\ Refused(c)
        /\ picked' = None /\ UNCHANGED stale
  /\ UNCHANGED <<wayland, open, cache, types, selVars, crossed, raced>>

(* The portal: the user picks what they like, or cancels, or the sound fails. *)
Portal(c) ==
  /\ At(c, "asking") /\ wayland
  /\ types' = Kinds
  /\ Refused(c) \/ \E s \in open : Opened(c, s)
  /\ UNCHANGED <<wayland, open, cache, picked, selVars, crossed, stale, raced>>

(* getUserMedia with the id that was picked. *)
Legacy(c) ==
  /\ At(c, "legacy")
  /\ \/ client[c].want \in open /\ Opened(c, client[c].want)
     \/ Leave(c)
  /\ UNCHANGED <<wayland, open, mainVars, selVars, crossed, stale, raced>>

(* wrapStreamIntoSession, startReplayBuffer: begin invalidates the cache. Without a    *)
(* MIME type, or when a replay does not begin, the tracks are stopped; those of a      *)
(* recording that does not begin run on, unless its caller stops them. Either way no   *)
(* flow holds the stream any more.                                                     *)
Wrap(c) ==
  /\ At(c, "wrapping")
  /\ \/ Goto(c, "capturing") /\ cache' = NoCache
     \/ Leave(c) /\ UNCHANGED cache
  /\ UNCHANGED <<wayland, open, types, picked, selVars, crossed, stale, raced>>

Stop(c) ==
  /\ At(c, "capturing")
  /\ Leave(c)
  /\ UNCHANGED <<wayland, open, mainVars, selVars, crossed, stale, raced>>

WindowCloses ==
  /\ \E w \in open \intersect Windows : open' = open \ {w}
  /\ UNCHANGED <<wayland, mainVars, client, selVars, crossed, stale, raced>>

Next ==
  \/ \E c \in Client :
       \/ Start(c) \/ Choose(c) \/ ChooseKind(c) \/ SelectCropRegion(c) \/ ShowOverlay(c)
       \/ NothingListed(c) \/ OverlayClosed(c) \/ Pick(c) \/ Hint(c) \/ Ask(c) \/ Answer(c) \/ Portal(c)
       \/ Legacy(c) \/ Wrap(c) \/ Stop(c)
  \/ OverlaySends
  \/ CacheExpires
  \/ WindowCloses

Spec == Init /\ [][Next]_vars

----------------------------------------------------------------------------
(* Every variable has its type. *)
TypeOK ==
  /\ wayland \in BOOLEAN /\ open \in SUBSET Source
  /\ cache \in [kinds : SUBSET Kinds, sources : SUBSET Source, fresh : BOOLEAN]
  /\ types \in SUBSET Kinds /\ picked \in Source \union {None}
  /\ client \in [Client -> Flows]
  /\ pendingSelection \in Recs \union {None} /\ overlayWindow \in Recs \union {None}
  /\ overlays \in SUBSET Recs
  /\ crossed \in BOOLEAN /\ stale \in BOOLEAN /\ raced \in BOOLEAN

(* What is recorded is what the user picked, however often the sound made it ask       *)
(* again, whatever has closed since the list was made and whatever the handler falls   *)
(* back on; a screen when a screen was asked for. Not so when another flow armed its   *)
(* pick in between, or when one that was refused left its pick behind; even then a     *)
(* recording of a window never becomes one of a screen, while a replay may.            *)
PickHonoured ==
  \A c \in Client : client[c].got # None /\ ~wayland =>
    /\ \/ client[c].got = client[c].want
       \/ client[c].want = None /\ (client[c].got \in Screens \/ stale)
       \/ crossed
    /\ c \in Recs /\ client[c].want \in Windows => client[c].got \notin Screens

(* A flow that waits for a region can be answered: the selection is its own and so is  *)
(* the overlay, and no other overlay lies on the screen. Not so when a second start    *)
(* slipped in during the enumeration.                                                  *)
SelectionSettled ==
  raced \/ /\ \A c \in Recs : At(c, "selecting") => pendingSelection = c /\ c \in overlays
           /\ overlays \subseteq {overlayWindow} \ {None}
           /\ pendingSelection # None => At(pendingSelection, "selecting")
=============================================================================
