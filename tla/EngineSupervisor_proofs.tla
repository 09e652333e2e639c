---------------------- MODULE EngineSupervisor_proofs ----------------------
(***************************************************************************)
(* Proofs about EngineSupervisor, for any number of processes, sockets,    *)
(* restarts, deaths and failures: type correctness, one recovery at a      *)
(* time, a ready helper that is watched, and no helper forgotten.          *)
(*                                                                         *)
(* Until a late close event is taken for a crash (stale), the invariant is *)
(* CycleInv, in which the state of the supervisor says whether there is a  *)
(* boot, a timer, a shutdown, or a socket to lose, and ProcInv, by which   *)
(* the only helper of ours that runs is proc.  IInv is inductive alone,    *)
(* PInv together with it.                                                  *)
(***************************************************************************)
EXTENDS EngineSupervisor, TLAPS

USE BoundsAssumption DEF BoundsAssumption

Booting(b) == boot[b] # NoBoot
Live(c)    == conn[c] \in {"open", "dying"}
Ours       == alive \ (lost \union {Foreign})

(* A boot has a station, and its socket when it waits for the answer. *)
HandshakeOK ==
  \A b \in Slot :
    /\ boot[b].pc = "none" => boot[b] = NoBoot
    /\ boot[b].pc = "handshake" => boot[b].conn \in Conn /\ conn[boot[b].conn] # "unused"

UsedArmed == \A c \in armed : conn[c] # "unused"

(* A shutdown is asked for as long as there is one, and has its station in state. *)
ShutdownInv ==
  /\ asked <=> shutdown # "none"
  /\ shutdown = "boot" => held.boot \in Slot /\ \A b \in Slot : Booting(b) => b = held.boot
  /\ shutdown \in {"rpc", "kill"} => state = "shuttingDown"
  /\ shutdown = "done" => state = "idle"
  /\ state = "shuttingDown" => shutdown \in {"rpc", "kill"}

(* There is one boot, only while the state is "starting". *)
BootInv ==
  /\ \A b \in Slot : Booting(b) => runningBoot = b /\ state = "starting" /\ shutdown \in {"none", "boot"}
  /\ \A b \in Slot : runningBoot = b => Booting(b)

TimerInv == timer => state = "restarting" /\ ~asked

(* Only the helper in use, or about to be asked to end, has a socket to lose. *)
SocketInv ==
  /\ \A c \in armed : Live(c) =>
       c = rpc /\ (state = "ready" \/ (shutdown = "rpc" /\ held.rpc = c))
  /\ \A b \in Slot : boot[b].pc = "handshake" => boot[b].conn = rpc /\ rpc \notin armed
  /\ state = "ready" /\ ~asked => rpc \in armed

CycleInv == ShutdownInv /\ BootInv /\ TimerInv /\ SocketInv

(* A process that runs, or is behind a socket, was started before. *)
Started == {Foreign} \union 1..born
BornInv == alive \subseteq Started /\ \A c \in Conn : peer[c] \in Started \union {None}

(* What runs and is ours is proc, until it dies. *)
ProcInv ==
  /\ Ours \subseteq {proc}
  /\ \A c \in Conn : conn[c] = "dying" => peer[c] \notin Ours
  /\ \A b \in Slot :
       /\ boot[b].pc \in {"adopt", "spawn"} => proc = None
       /\ boot[b].pc = "connect" /\ proc # None => sockFile = proc
       /\ boot[b].pc = "handshake" /\ proc # None => peer[rpc] = proc
  /\ state = "ready" /\ proc # None => rpc \in Conn /\ peer[rpc] = proc
  /\ proc # None => state \in {"starting", "ready", "shuttingDown"}
  /\ proc # None /\ state = "starting" =>
       \E b \in Slot : boot[b].pc \in {"connect", "handshake"}
  /\ shutdown \in {"rpc", "kill"} => held.proc = proc
  /\ quit = "exited" => Ours = {}

IInv == TypeOK /\ HandshakeOK /\ UsedArmed /\ (stale \/ CycleInv)

PInv == BornInv /\ (stale \/ ProcInv)

----------------------------------------------------------------------------
ConnStates == {"unused", "open", "dying", "destroyed", "closed"}

(* Boot b is over, or at p; the other boots are where they were. *)
BootOver(b) ==
  /\ boot' \in [Slot -> Boots] /\ boot'[b] = NoBoot /\ runningBoot' = None
  /\ \A d \in Slot : d # b => boot'[d] = boot[d]

BootAt(b, p, a, c) ==
  /\ boot' \in [Slot -> Boots]
  /\ boot'[b] # NoBoot /\ boot'[b].pc = p /\ boot'[b].adopted = a /\ boot'[b].conn = c
  /\ \A d \in Slot : d # b => boot'[d] = boot[d]

(* Sockets of the dead begin to close, and some are destroyed. *)
Waning(cs, dead) ==
  /\ cs \in [Conn -> ConnStates]
  /\ \A d \in Conn : \/ cs[d] = conn[d]
                     \/ conn[d] = "open" /\ peer[d] \in dead /\ cs[d] = "dying"
                     \/ Live(d) /\ cs[d] = "destroyed"

FailuresOK == failures' \in 0..MaxFailures

(* The supervisor has given up, backs off, or leaves it to the shutdown. *)
Ended ==
  /\ FailuresOK
  /\ \/ asked /\ UNCHANGED <<state, timer>>
     \/ state' = "unavailable" /\ UNCHANGED timer
     \/ ~asked /\ state' = "restarting" /\ timer' = TRUE

\* A boot that has not begun.
LEMMA NoBootType == NoBoot \in Boots /\ NoBoot.pc = "none"
BY DEF NoBoot, Boots

\* A restart is scheduled, given up, or not wanted any more.
LEMMA ScheduleGives ==
  ASSUME TypeOK, ScheduleRestart
  PROVE  Ended
<1>1. failures \in 0..MaxFailures
  BY DEF TypeOK
<1>2. FailuresOK
  BY <1>1 DEF ScheduleRestart, FailuresOK, backVars
<1> QED
  BY <1>2 DEF ScheduleRestart, Ended, backVars

\* bootCycle finds a free slot, or misses a dependency.
LEMMA CycleGives ==
  ASSUME TypeOK, NEW by \in {"start", "timer"}, BootCycle(by)
  PROVE  \/ \E b \in Slot : /\ boot[b] = NoBoot /\ BootAt(b, "adopt", FALSE, None)
                            /\ runningBoot' = b /\ state' = "starting"
         \/ state' = "unavailable" /\ UNCHANGED bootVars
<1>1. ASSUME NEW b \in Slot, boot[b] = NoBoot,
             boot' = [boot EXCEPT ![b] = [NoBoot EXCEPT !.pc = "adopt", !.by = by]]
      PROVE  BootAt(b, "adopt", FALSE, None)
  <2> DEFINE f == [NoBoot EXCEPT !.pc = "adopt", !.by = by]
  <2>1. f \in Boots /\ f.pc = "adopt" /\ f.adopted = FALSE /\ f.conn = None
    BY DEF NoBoot, Boots
  <2>2. boot' = [boot EXCEPT ![b] = f]
    BY <1>1
  <2>3. f # NoBoot
    BY <2>1, NoBootType
  <2> HIDE DEF f
  <2> QED
    BY <2>1, <2>2, <2>3 DEF TypeOK, BootAt
<1> QED
  BY <1>1 DEF BootCycle

\* bootCycle ends.
LEMMA EndGives ==
  ASSUME TypeOK, NEW b \in Slot, BootEnds(b)
  PROVE  BootOver(b)
BY NoBootType DEF TypeOK, BootEnds, BootOver

\* An error of a boot ends it.
LEMMA ThrowGives ==
  ASSUME TypeOK, NEW b \in Slot, NEW code, BootThrows(b, code)
  PROVE  BootOver(b) /\ Ended
<1>1. BootOver(b)
  BY EndGives DEF BootThrows
<1>2. CASE state' = "unavailable" /\ UNCHANGED backVars
  <2>1. FailuresOK
    BY Zenon, <1>2 DEF TypeOK, FailuresOK, backVars
  <2> QED
    BY <1>1, <1>2, <2>1 DEF Ended, backVars
<1>3. CASE ScheduleRestart
  BY <1>1, <1>3, ScheduleGives
<1> QED
  BY <1>2, <1>3 DEF BootThrows

\* What Destroy does to the sockets.
LEMMA DestroyGives ==
  ASSUME NEW c \in Conn \union {None}, NEW cs \in [Conn -> ConnStates]
  PROVE  /\ Destroy(c, cs) \in [Conn -> ConnStates]
         /\ \A d \in Conn : \/ Destroy(c, cs)[d] = cs[d] /\ (d = c => cs[d] \notin {"open", "dying"})
                            \/ /\ d = c /\ cs[d] \in {"open", "dying"}
                               /\ Destroy(c, cs)[d] = "destroyed"
<1>1. CASE c \in Conn /\ cs[c] \in {"open", "dying"}
  BY <1>1 DEF Destroy, ConnStates, None, Conn
<1>2. CASE ~(c \in Conn /\ cs[c] \in {"open", "dying"})
  BY <1>2 DEF Destroy, None
<1> QED
  BY <1>1, <1>2

\* What Orphaned does to the sockets.
LEMMA OrphanedGives ==
  ASSUME NEW dead, NEW cs \in [Conn -> ConnStates]
  PROVE  /\ Orphaned(dead, cs) \in [Conn -> ConnStates]
         /\ \A d \in Conn : \/ Orphaned(dead, cs)[d] = cs[d]
                            \/ cs[d] = "open" /\ peer[d] \in dead /\ Orphaned(dead, cs)[d] = "dying"
BY DEF Orphaned, ConnStates

\* A failed boot kills its process and destroys its socket.
LEMMA CleanupGives ==
  ASSUME TypeOK, CleanupFailedBoot
  PROVE  /\ alive' = alive \ {proc} /\ proc' = None /\ rpc' = None
         /\ Waning(conn', {proc}) /\ (rpc # None => conn'[rpc] \notin {"open", "dying"})
<1> DEFINE cs == Destroy(rpc, conn)
<1>1. conn \in [Conn -> ConnStates] /\ rpc \in Conn \union {None}
  BY DEF TypeOK, ConnStates
<1>2. /\ cs \in [Conn -> ConnStates]
      /\ \A d \in Conn : \/ cs[d] = conn[d] /\ (d = rpc => conn[d] \notin {"open", "dying"})
                         \/ d = rpc /\ conn[d] \in {"open", "dying"} /\ cs[d] = "destroyed"
  BY <1>1, DestroyGives
<1>3. alive' = alive \ {proc} /\ proc' = None /\ rpc' = None /\ conn' = Orphaned({proc}, cs)
  BY DEF CleanupFailedBoot
<1> HIDE DEF cs
<1>4. /\ conn' \in [Conn -> ConnStates]
      /\ \A d \in Conn : \/ conn'[d] = cs[d]
                         \/ cs[d] = "open" /\ peer[d] \in {proc} /\ conn'[d] = "dying"
  BY <1>2, <1>3, OrphanedGives
<1> QED
  BY <1>1, <1>2, <1>3, <1>4 DEF Waning, Live

\* connectAndVerify threw: the process is killed and its socket destroyed; the boot is
\* over, or spawns in place of the helper it had adopted.
LEMMA FailGives ==
  ASSUME TypeOK, NEW b \in Slot, NEW code, BootFails(b, code)
  PROVE  /\ alive' = alive \ {proc} /\ proc' = None /\ rpc' = None
         /\ Waning(conn', {proc}) /\ (rpc # None => conn'[rpc] \notin {"open", "dying"})
         /\ UNCHANGED <<peer, armed>>
         /\ \/ BootOver(b) /\ Ended /\ UNCHANGED fileVars
            \/ /\ BootAt(b, "spawn", FALSE, None) /\ ~asked /\ pidFile' = None /\ sockFile' = None
               /\ UNCHANGED <<state, backVars, runningBoot>>
<1>1. /\ alive' = alive \ {proc} /\ proc' = None /\ rpc' = None
      /\ Waning(conn', {proc}) /\ (rpc # None => conn'[rpc] \notin {"open", "dying"})
      /\ UNCHANGED <<peer, armed>>
  BY CleanupGives DEF BootFails
<1>2. CASE asked /\ BootEnds(b) /\ UNCHANGED <<state, backVars, fileVars>>
  <2>1. FailuresOK
    BY Zenon, <1>2 DEF TypeOK, FailuresOK, backVars
  <2>2. BootOver(b) /\ Ended
    BY <1>2, <2>1, EndGives DEF Ended, backVars
  <2> QED
    BY <1>1, <1>2, <2>2
<1>3. CASE BootThrows(b, code) /\ UNCHANGED fileVars
  BY <1>1, <1>3, ThrowGives
<1>4. CASE /\ boot' = [boot EXCEPT ![b].pc = "spawn", ![b].adopted = FALSE, ![b].conn = None]
           /\ ~asked /\ pidFile' = None /\ sockFile' = None
           /\ UNCHANGED <<state, backVars, runningBoot>>
  <2> DEFINE f == [boot[b] EXCEPT !.pc = "spawn", !.adopted = FALSE, !.conn = None]
  <2>1. f \in Boots /\ f.pc = "spawn" /\ f.adopted = FALSE /\ f.conn = None
    <3>1. boot[b] \in Boots
      BY DEF TypeOK
    <3> QED
      BY <3>1 DEF Boots
  <2>2. boot' = [boot EXCEPT ![b] = f]
    BY <1>4
  <2>3. f # NoBoot
    BY <2>1, NoBootType
  <2> HIDE DEF f
  <2>4. BootAt(b, "spawn", FALSE, None)
    BY <2>1, <2>2, <2>3 DEF TypeOK, BootAt
  <2> QED
    BY <1>1, <1>4, <2>4
<1> QED
  BY <1>2, <1>3, <1>4 DEF BootFails

(* A shutdown takes the helper down at once, or waits for the boot. *)
TakesDown ==
  \/ /\ state = "idle" /\ shutdown' = "done" /\ state' = state /\ held' = held
  \/ /\ state' = "shuttingDown" /\ held'.rpc = rpc /\ held'.proc = proc
     /\ \/ shutdown' = "rpc" /\ rpc # None /\ Live(rpc)
        \/ shutdown' = "kill" /\ (rpc # None => ~Live(rpc))

HeldType == [boot : Slot \union {None}, rpc : Conn \union {None}, proc : Helper \union {None}]

\* What TakeDown does.
LEMMA TakeDownGives ==
  ASSUME TypeOK, TakeDown
  PROVE  TakesDown /\ held' \in HeldType
<1>1. CASE state = "idle"
  BY <1>1 DEF TakeDown, TakesDown, TypeOK, HeldType
<1>2. CASE state # "idle"
  <2>1. held' \in HeldType /\ held'.rpc = rpc /\ held'.proc = proc
    BY <1>2 DEF TakeDown, TypeOK, HeldType
  <2> QED
    BY <1>2, <2>1 DEF TakeDown, TakesDown, Live
<1> QED
  BY <1>1, <1>2

\* What a call of shutdown() does.
LEMMA CallGives ==
  ASSUME TypeOK, CallShutdown
  PROVE  /\ asked' = TRUE /\ held' \in HeldType
         /\ \/ shutdown # "none" /\ UNCHANGED <<state, shutdown, held>>
            \/ /\ shutdown = "none" /\ runningBoot \in Slot /\ shutdown' = "boot"
               /\ held'.boot = runningBoot /\ state' = state
            \/ shutdown = "none" /\ runningBoot = None /\ TakesDown
<1>1. CASE shutdown # "none"
  BY <1>1 DEF CallShutdown, TypeOK, HeldType
<1>2. CASE shutdown = "none" /\ runningBoot # None
  <2>1. held' \in HeldType /\ held'.boot = runningBoot
    BY <1>2 DEF CallShutdown, TypeOK, HeldType
  <2> QED
    BY <1>2, <2>1 DEF CallShutdown, TypeOK
<1>3. CASE shutdown = "none" /\ runningBoot = None
  BY <1>3, TakeDownGives DEF CallShutdown
<1> QED
  BY <1>1, <1>2, <1>3

----------------------------------------------------------------------------
(* TypeOK in two parts, which the provers take in different ways: the truth values *)
(* and counters, and the rest.                                                     *)
FlagsOK ==
  /\ asked \in BOOLEAN /\ timer \in BOOLEAN /\ stale \in BOOLEAN /\ restarts \in BOOLEAN
  /\ failures \in 0..MaxFailures /\ born \in 0..MaxSpawn
  /\ clicks \in 0..MaxRestarts /\ faults \in 0..MaxFaults

DataOK ==
  /\ state \in States
  /\ shutdown \in {"none", "boot", "rpc", "kill", "done"}
  /\ held \in [boot : Slot \union {None}, rpc : Conn \union {None}, proc : Helper \union {None}]
  /\ boot \in [Slot -> Boots] /\ runningBoot \in Slot \union {None}
  /\ proc \in Helper \union {None}
  /\ rpc \in {None} \union {c \in Conn : conn[c] # "unused"}
  /\ conn \in [Conn -> {"unused", "open", "dying", "destroyed", "closed"}]
  /\ peer \in [Conn -> Proc \union {None}] /\ armed \subseteq Conn
  /\ alive \subseteq Proc /\ lost \subseteq Proc
  /\ pidFile \in Proc \union {None} /\ sockFile \in Proc \union {None}
  /\ quit \in {"no", "waiting", "overtaken", "exited", "timed out", "gone"}

\* The two parts are all of it.
LEMMA TypeParts == TypeOK <=> FlagsOK /\ DataOK
BY Zenon DEF TypeOK, FlagsOK, DataOK

\* The same of the next state.
LEMMA TypePartsNext == TypeOK' <=> FlagsOK' /\ DataOK'
BY Zenon DEF TypeOK, FlagsOK, DataOK

(* What a step leaves in the files, and the number of processes it comes to. *)
FilesOK == pidFile' \in Proc \union {None} /\ sockFile' \in Proc \union {None}
BornOK  == born' \in 0..MaxSpawn

----------------------------------------------------------------------------
(* The actions. *)

\* A boot begins: the slot is free, and nothing waits for an answer in it.
LEMMA StartStep ==
  ASSUME IInv, Start, stale' = stale
  PROVE  IInv'
<1> USE DEF IInv, Start
<1>1. TypeOK /\ UNCHANGED <<backVars, proc, rpc, connVars, procVars, fileVars, downVars, userVars>>
  OBVIOUS
<1>2. \/ \E b \in Slot : /\ boot[b] = NoBoot /\ BootAt(b, "adopt", FALSE, None)
                         /\ runningBoot' = b /\ state' = "starting"
      \/ state' = "unavailable" /\ UNCHANGED bootVars
  BY CycleGives
<1>3. TypeOK'
  BY <1>1, <1>2
  DEF TypeOK, BootAt, bootVars, backVars, connVars, procVars, fileVars, downVars, userVars, States
<1>4. HandshakeOK' /\ UsedArmed'
  BY <1>1, <1>2 DEF HandshakeOK, UsedArmed, BootAt, bootVars, connVars
<1>5. CycleInv => CycleInv'
  BY <1>1, <1>2
  DEF CycleInv, ShutdownInv, BootInv, TimerInv, SocketInv, BootAt, bootVars, backVars, connVars,
      downVars, Booting, Live
<1> QED
  BY <1>3, <1>4, <1>5

\* The timer fires into a boot, or after a shutdown was asked for.
LEMMA TimerStep ==
  ASSUME IInv, RestartTimer, stale' = stale
  PROVE  IInv'
<1> USE DEF IInv, RestartTimer
<1>1. /\ TypeOK /\ timer /\ timer' = FALSE
      /\ UNCHANGED <<failures, proc, rpc, connVars, procVars, fileVars, downVars, userVars>>
  OBVIOUS
<1>2. \/ \E b \in Slot : /\ ~asked /\ boot[b] = NoBoot /\ BootAt(b, "adopt", FALSE, None)
                         /\ runningBoot' = b /\ state' = "starting"
      \/ ~asked /\ state' = "unavailable" /\ UNCHANGED bootVars
      \/ asked /\ UNCHANGED <<state, bootVars>>
  BY CycleGives
<1>3. TypeOK'
  <2>1. FlagsOK'
    BY Zenon, TypeParts, <1>1 DEF FlagsOK, downVars, userVars, procVars
  <2>2. DataOK'
    BY TypeParts, <1>1, <1>2
    DEF DataOK, BootAt, bootVars, connVars, procVars, fileVars, downVars, userVars, States
  <2> QED
    BY <2>1, <2>2, TypePartsNext
<1>4. HandshakeOK' /\ UsedArmed'
  BY <1>1, <1>2 DEF HandshakeOK, UsedArmed, BootAt, bootVars, connVars
<1>5. CycleInv => CycleInv'
  BY <1>1, <1>2
  DEF CycleInv, ShutdownInv, BootInv, TimerInv, SocketInv, BootAt, bootVars, connVars, downVars,
      Booting, Live
<1> QED
  BY <1>3, <1>4, <1>5

\* Failures leave the window.
LEMMA WindowStep ==
  ASSUME IInv, WindowPasses, stale' = stale
  PROVE  IInv'
<1>1. UNCHANGED <<state, downVars, bootVars, timer, proc, rpc, connVars, procVars, fileVars,
                  userVars, stale>>
  BY DEF WindowPasses
<1>2. TypeOK'
  <2>1. failures' \in 0..MaxFailures
    <3>1. failures \in 0..MaxFailures
      BY DEF IInv, TypeOK
    <3> QED
      BY <3>1 DEF WindowPasses
  <2>2. FlagsOK'
    BY Zenon, TypeParts, <1>1, <2>1 DEF IInv, FlagsOK, downVars, userVars, procVars
  <2>3. DataOK'
    <3>1. DataOK
      BY TypeParts DEF IInv
    <3>2. UNCHANGED <<state, shutdown, held, boot, runningBoot, proc, rpc, conn, peer, armed,
                      alive, lost, pidFile, sockFile, quit>>
      BY <1>1 DEF bootVars, connVars, procVars, fileVars, downVars, userVars
    <3>3. rpc' \in {None} \union {c \in Conn : conn'[c] # "unused"}
      BY <3>1, <3>2 DEF DataOK
    <3>4. boot' \in [Slot -> Boots] /\ held' = held /\ conn' = conn /\ peer' = peer
      BY <3>1, <3>2 DEF DataOK
    <3> QED
      BY ZenonT(30), <3>1, <3>2, <3>3, <3>4 DEF DataOK
  <2> QED
    BY <2>2, <2>3, TypePartsNext
<1>3. HandshakeOK' /\ UsedArmed' /\ (CycleInv => CycleInv')
  BY <1>1 DEF IInv, HandshakeOK, UsedArmed, CycleInv, ShutdownInv, BootInv, TimerInv, SocketInv,
              bootVars, connVars, downVars, Booting, Live
<1> QED
  BY <1>2, <1>3, <1>1 DEF IInv

\* A boot that ends without a ready helper leaves at most a timer behind.
LEMMA OverKeeps ==
  ASSUME IInv, NEW b \in Slot, NEW dead, boot[b] # NoBoot, BootOver(b), Ended,
         Waning(conn', dead), rpc' \in {rpc, None}, proc' \in {proc, None},
         alive' \subseteq Proc, FilesOK, BornOK,
         UNCHANGED <<peer, armed, faults, lost, downVars, userVars, stale>>
  PROVE  IInv'
<1>1. TypeOK'
  <2>1. timer' = timer \/ timer' = TRUE
    BY DEF Ended
  <2>2. FlagsOK'
    BY Zenon, TypeParts, <2>1 DEF IInv, FlagsOK, Ended, FailuresOK, BornOK, downVars, userVars
  <2>3. state' \in States
    BY TypeParts DEF IInv, DataOK, Ended, States
  <2>4. rpc' \in {None} \union {c \in Conn : conn'[c] # "unused"}
    BY TypeParts DEF IInv, DataOK, Waning, Live
  <2>5. conn' \in [Conn -> {"unused", "open", "dying", "destroyed", "closed"}]
    BY DEF Waning, ConnStates
  <2>6. DataOK'
    BY TypeParts, <2>3, <2>4, <2>5 DEF IInv, DataOK, FilesOK, BootOver, downVars, userVars
  <2> QED
    BY <2>2, <2>6, TypePartsNext
<1>2. HandshakeOK'
  BY NoBootType DEF IInv, HandshakeOK, BootOver, Waning, Live
<1>3. UsedArmed'
  BY DEF IInv, TypeOK, UsedArmed, Waning, Live
<1>4. CycleInv => CycleInv'
  <2> SUFFICES ASSUME CycleInv PROVE CycleInv'
    OBVIOUS
  <2>1. /\ state = "starting" /\ shutdown \in {"none", "boot"} /\ runningBoot = b
        /\ \A d \in Slot : boot'[d] = NoBoot
        /\ \A c \in armed : ~Live(c)
    BY DEF CycleInv, ShutdownInv, BootInv, SocketInv, Booting, BootOver, None, Slot
  <2>2. \A c \in armed' : ~Live(c)'
    BY <2>1 DEF IInv, TypeOK, Waning, Live
  <2>3. BootInv' /\ SocketInv'
    BY <2>1, <2>2, NoBootType DEF BootInv, SocketInv, Booting, BootOver, None, Slot, Ended
  <2>4. ShutdownInv' /\ TimerInv'
    BY <2>1 DEF CycleInv, ShutdownInv, TimerInv, Booting, Ended, downVars
  <2> QED
    BY <2>3, <2>4 DEF CycleInv
<1> QED
  BY <1>1, <1>2, <1>3, <1>4 DEF IInv

\* A boot that goes on, and does not wait for an answer, has no socket to lose.
LEMMA AtKeeps ==
  ASSUME IInv, NEW b \in Slot, NEW p \in {"spawn", "connect"}, NEW a, NEW c, NEW dead,
         boot[b] # NoBoot, BootAt(b, p, a, c), Waning(conn', dead), rpc' \in {rpc, None},
         proc' \in Helper \union {None}, alive' \subseteq Proc, FilesOK, BornOK,
         UNCHANGED <<state, backVars, runningBoot, peer, armed, faults, lost, downVars, userVars,
                     stale>>
  PROVE  IInv'
<1>1. TypeOK'
  <2>1. FlagsOK'
    BY Zenon, TypeParts DEF IInv, FlagsOK, BornOK, backVars, downVars, userVars
  <2>2. rpc' \in {None} \union {d \in Conn : conn'[d] # "unused"}
    BY TypeParts DEF IInv, DataOK, Waning, Live
  <2>3. boot' \in [Slot -> Boots]
    BY DEF BootAt
  <2>4. conn' \in [Conn -> {"unused", "open", "dying", "destroyed", "closed"}]
    BY DEF Waning, ConnStates
  <2>5. DataOK'
    BY ZenonT(30), TypeParts, <2>2, <2>3, <2>4 DEF IInv, DataOK, FilesOK, downVars, userVars
  <2> QED
    BY <2>1, <2>5, TypePartsNext
<1>2. HandshakeOK'
  BY NoBootType DEF IInv, HandshakeOK, BootAt, Waning, Live
<1>3. UsedArmed'
  BY DEF IInv, TypeOK, UsedArmed, Waning, Live
<1>4. CycleInv => CycleInv'
  <2> SUFFICES ASSUME CycleInv PROVE CycleInv'
    OBVIOUS
  <2>1. /\ state = "starting" /\ runningBoot = b
        /\ \A d \in Slot : d # b => boot[d] = NoBoot
        /\ \A d \in armed : ~Live(d)
    BY DEF CycleInv, ShutdownInv, BootInv, SocketInv, Booting, None, Slot
  <2>2. \A d \in armed' : ~Live(d)'
    BY <2>1 DEF IInv, TypeOK, Waning, Live
  <2>3. BootInv' /\ SocketInv'
    BY <2>1, <2>2, NoBootType DEF CycleInv, BootInv, SocketInv, Booting, BootAt, downVars
  <2>4. ShutdownInv' /\ TimerInv'
    BY <2>1 DEF CycleInv, ShutdownInv, TimerInv, Booting, BootAt, backVars, downVars
  <2> QED
    BY <2>3, <2>4 DEF CycleInv
<1> QED
  BY <1>1, <1>2, <1>3, <1>4 DEF IInv

\* Sockets that do not change, or are lost with their process, only wane.
LEMMA NothingWanes ==
  ASSUME TypeOK, UNCHANGED conn
  PROVE  Waning(conn', {})
BY DEF TypeOK, Waning, ConnStates

\* A process is adopted or is to be spawned, unless the boot ends here.
LEMMA AdoptStep ==
  ASSUME IInv, NEW b \in Slot, BootAdopt(b), stale' = stale
  PROVE  IInv'
<1>1. /\ TypeOK /\ boot[b] # NoBoot /\ boot[b].pc = "adopt"
      /\ UNCHANGED <<rpc, connVars, procVars, downVars, userVars, stale>>
  BY NoBootType DEF IInv, BootAdopt
<1>2. ASSUME NEW p \in {"connect", "spawn"}, NEW a \in BOOLEAN,
             boot' = [boot EXCEPT ![b].pc = p, ![b].adopted = a]
      PROVE  BootAt(b, p, a, boot[b].conn)
  <2> DEFINE f == [boot[b] EXCEPT !.pc = p, !.adopted = a]
  <2>1. f \in Boots /\ f.pc = p /\ f.adopted = a /\ f.conn = boot[b].conn
    <3>1. boot[b] \in Boots
      BY <1>1 DEF TypeOK
    <3> QED
      BY <3>1 DEF Boots
  <2>2. boot' = [boot EXCEPT ![b] = f]
    BY <1>2
  <2>3. f # NoBoot
    BY <2>1, NoBootType
  <2> HIDE DEF f
  <2> QED
    BY <1>1, <2>1, <2>2, <2>3 DEF TypeOK, BootAt
<1>3. CASE /\ \E p \in {"connect", "spawn"}, a \in BOOLEAN : BootAt(b, p, a, boot[b].conn)
           /\ proc' \in {proc, None}
           /\ pidFile' \in {pidFile, None} /\ sockFile' \in {sockFile, None}
           /\ UNCHANGED <<state, backVars, runningBoot>>
  <2>1. Waning(conn', {}) /\ rpc' = rpc /\ alive' \subseteq Proc /\ UNCHANGED <<peer, armed, faults, lost>>
    BY <1>1, NothingWanes DEF TypeOK, connVars, procVars
  <2>2. FilesOK /\ proc' \in Helper \union {None}
    BY <1>1, <1>3 DEF TypeOK, FilesOK
  <2>3. BornOK
    BY Zenon, <1>1 DEF TypeOK, BornOK, procVars
  <2> QED
    BY <1>1, <1>3, <2>1, <2>2, <2>3, AtKeeps
<1>4. CASE BootOver(b) /\ Ended /\ UNCHANGED <<proc, fileVars>>
  <2>1. Waning(conn', {}) /\ FilesOK /\ BornOK
    BY <1>1, <1>4, TypeParts, NothingWanes
    DEF DataOK, FlagsOK, FilesOK, BornOK, connVars, procVars, fileVars
  <2>2. alive' \subseteq Proc /\ UNCHANGED <<peer, armed, faults, lost, rpc, proc>>
    BY <1>1, <1>4 DEF TypeOK, connVars, procVars
  <2> QED
    BY <1>1, <1>4, <2>1, <2>2, OverKeeps
<1>5. CASE pidFile \in alive /\ asked /\ BootEnds(b) /\ UNCHANGED <<state, backVars, proc, fileVars>>
  <2>1. FailuresOK
    BY Zenon, <1>1, <1>5 DEF TypeOK, FailuresOK, backVars
  <2> QED
    BY <1>1, <1>4, <1>5, <2>1, EndGives DEF Ended, backVars
<1>6. CASE BootThrows(b, "no code") /\ UNCHANGED <<proc, fileVars>>
  BY <1>1, <1>4, <1>6, ThrowGives
<1>7. CASE /\ boot' = [boot EXCEPT ![b].pc = "connect", ![b].adopted = TRUE]
           /\ proc' = None
           /\ UNCHANGED <<state, backVars, runningBoot, fileVars>>
  BY <1>2, <1>3, <1>7 DEF fileVars
<1>8. CASE /\ boot' = [boot EXCEPT ![b].pc = "spawn", ![b].adopted = FALSE]
           /\ IF pidFile = None THEN UNCHANGED fileVars ELSE pidFile' = None /\ sockFile' = None
           /\ UNCHANGED <<state, backVars, runningBoot, proc>>
  BY <1>2, <1>3, <1>8 DEF fileVars
<1> QED
  BY <1>5, <1>6, <1>7, <1>8 DEF BootAdopt

\* A process is spawned, and killed at once when a shutdown was asked for.
LEMMA SpawnStep ==
  ASSUME IInv, NEW b \in Slot, BootSpawn(b), stale' = stale
  PROVE  IInv'
<1>1. /\ TypeOK /\ boot[b] # NoBoot /\ boot[b].pc = "spawn"
      /\ UNCHANGED <<rpc, connVars, faults, lost, downVars, userVars, stale>>
  BY NoBootType DEF IInv, BootSpawn
<1>2. Waning(conn', {}) /\ rpc' = rpc /\ UNCHANGED <<peer, armed>>
  BY <1>1, NothingWanes DEF connVars
<1>3. CASE /\ \E code \in SpawnErrors : BootThrows(b, code)
           /\ UNCHANGED <<proc, alive, born, fileVars>>
  <2>1. BootOver(b) /\ Ended
    BY <1>1, <1>3, ThrowGives
  <2>2. FilesOK /\ alive' \subseteq Proc /\ proc' = proc
    BY <1>1, <1>3 DEF TypeOK, FilesOK, fileVars
  <2>3. BornOK
    BY Zenon, <1>1, <1>3 DEF TypeOK, BornOK
  <2> QED
    BY <1>1, <1>2, <2>1, <2>2, <2>3, OverKeeps
<1>4. ASSUME born < MaxSpawn, born' = born + 1, pidFile' = born', sockFile' = born'
      PROVE  BornOK /\ FilesOK /\ born' \in Helper
  <2>1. born \in 0..MaxSpawn
    BY <1>1 DEF TypeOK
  <2>2. born + 1 \in 1..MaxSpawn
    BY <1>4, <2>1
  <2>3. born' \in Helper
    BY <1>4, <2>2 DEF Helper
  <2>4. BornOK
    BY <1>4, <2>2 DEF BornOK
  <2> QED
    BY <1>4, <2>3, <2>4 DEF FilesOK, Proc
<1>5. CASE /\ born < MaxSpawn /\ born' = born + 1 /\ pidFile' = born' /\ sockFile' = born'
           /\ asked /\ BootEnds(b) /\ UNCHANGED <<proc, alive, state, backVars>>
  <2>1. FailuresOK
    BY Zenon, <1>1, <1>5 DEF TypeOK, FailuresOK, backVars
  <2>2. BootOver(b) /\ Ended
    BY <1>1, <1>5, <2>1, EndGives DEF Ended, backVars
  <2>3. alive' \subseteq Proc /\ proc' = proc
    BY <1>1, <1>5 DEF TypeOK
  <2> QED
    BY <1>1, <1>2, <1>4, <1>5, <2>2, <2>3, OverKeeps
<1>6. CASE /\ born < MaxSpawn /\ born' = born + 1 /\ pidFile' = born' /\ sockFile' = born'
           /\ proc' = born' /\ alive' = alive \union {born'}
           /\ boot' = [boot EXCEPT ![b].pc = "connect"]
           /\ UNCHANGED <<runningBoot, state, backVars>>
  <2> DEFINE f == [boot[b] EXCEPT !.pc = "connect"]
  <2>1. f \in Boots /\ f.pc = "connect" /\ f.adopted = boot[b].adopted /\ f.conn = boot[b].conn
    <3>1. boot[b] \in Boots
      BY <1>1 DEF TypeOK
    <3> QED
      BY <3>1 DEF Boots
  <2>2. boot' = [boot EXCEPT ![b] = f]
    BY <1>6
  <2>3. f # NoBoot
    BY <2>1, NoBootType
  <2> HIDE DEF f
  <2>4. BootAt(b, "connect", boot[b].adopted, boot[b].conn)
    BY <1>1, <2>1, <2>2, <2>3 DEF TypeOK, BootAt
  <2>5. alive' \subseteq Proc /\ proc' \in Helper
    BY <1>1, <1>4, <1>6 DEF TypeOK, Proc
  <2> QED
    BY <1>1, <1>2, <1>4, <1>6, <2>4, <2>5, AtKeeps
<1> QED
  BY <1>3, <1>5, <1>6 DEF BootSpawn

\* A boot that fails leaves no socket to lose.
LEMMA FailStep ==
  ASSUME IInv, NEW b \in Slot, NEW code, boot[b] # NoBoot, BootFails(b, code),
         UNCHANGED <<born, faults, lost, downVars, userVars, stale>>
  PROVE  IInv'
<1>1. /\ TypeOK /\ alive' = alive \ {proc} /\ proc' = None /\ rpc' = None
      /\ Waning(conn', {proc}) /\ UNCHANGED <<peer, armed>>
      /\ \/ BootOver(b) /\ Ended /\ UNCHANGED fileVars
         \/ /\ BootAt(b, "spawn", FALSE, None) /\ ~asked /\ pidFile' = None /\ sockFile' = None
            /\ UNCHANGED <<state, backVars, runningBoot>>
  BY FailGives DEF IInv
<1>2. FilesOK /\ alive' \subseteq Proc
  BY <1>1 DEF TypeOK, FilesOK, fileVars
<1>3. BornOK
  BY Zenon, <1>1 DEF TypeOK, BornOK
<1>4. CASE BootOver(b) /\ Ended
  BY <1>1, <1>2, <1>3, <1>4, OverKeeps
<1>5. CASE BootAt(b, "spawn", FALSE, None) /\ UNCHANGED <<state, backVars, runningBoot>>
  BY <1>1, <1>2, <1>3, <1>5, AtKeeps
<1> QED
  BY <1>1, <1>4, <1>5

\* A helper that refuses the handshake fails the boot.
LEMMA RefusedStep ==
  ASSUME IInv, NEW b \in Slot, BootRefused(b), stale' = stale
  PROVE  IInv'
BY FailStep, NoBootType DEF BootRefused

\* The socket that a boot opens was not armed, and waits for its answer.
LEMMA ConnectStep ==
  ASSUME IInv, NEW b \in Slot, BootConnect(b), stale' = stale
  PROVE  IInv'
<1>1. /\ TypeOK /\ boot[b] # NoBoot /\ boot[b].pc = "connect"
      /\ UNCHANGED <<born, faults, lost, downVars, userVars, stale>>
  BY NoBootType DEF IInv, BootConnect
<1>2. CASE BootFails(b, "no code")
  BY <1>1, <1>2, FailStep
<1>3. ASSUME NEW c \in Conn, conn[c] = "unused", conn' = [conn EXCEPT ![c] = "open"],
             sockFile \in alive, peer' = [peer EXCEPT ![c] = sockFile], rpc' = c,
             boot' = [boot EXCEPT ![b].pc = "handshake", ![b].conn = c],
             UNCHANGED <<state, armed, runningBoot, backVars, proc, alive, fileVars>>
      PROVE  IInv'
  <2>1. BootAt(b, "handshake", boot[b].adopted, c)
    <3> DEFINE f == [boot[b] EXCEPT !.pc = "handshake", !.conn = c]
    <3>1. f \in Boots /\ f.pc = "handshake" /\ f.adopted = boot[b].adopted /\ f.conn = c
      <4>1. boot[b] \in Boots
        BY <1>1 DEF TypeOK
      <4> QED
        BY <4>1 DEF Boots
    <3>2. boot' = [boot EXCEPT ![b] = f]
      BY <1>3
    <3>3. f # NoBoot
      BY <3>1, NoBootType
    <3> HIDE DEF f
    <3> QED
      BY <1>1, <3>1, <3>2, <3>3 DEF TypeOK, BootAt
  <2>2. /\ conn' \in [Conn -> ConnStates] /\ conn'[c] = "open"
        /\ \A d \in Conn : d # c => conn'[d] = conn[d]
    BY <1>1, <1>3 DEF TypeOK, ConnStates
  <2>3. TypeOK'
    <3>1. FlagsOK'
      BY Zenon, TypeParts, <1>1, <1>3 DEF FlagsOK, backVars, downVars, userVars
    <3>2. rpc' \in {None} \union {d \in Conn : conn'[d] # "unused"}
      BY <1>3, <2>2
    <3>3. boot' \in [Slot -> Boots] /\ conn' \in [Conn -> {"unused", "open", "dying", "destroyed", "closed"}]
      BY <2>1, <2>2 DEF BootAt, ConnStates
    <3>4. peer' \in [Conn -> Proc \union {None}]
      BY <1>1, <1>3 DEF TypeOK
    <3>5. DataOK'
      BY ZenonT(30), TypeParts, <1>1, <1>3, <3>2, <3>3, <3>4
      DEF DataOK, fileVars, downVars, userVars
    <3> QED
      BY <3>1, <3>5, TypePartsNext
  <2>4. HandshakeOK'
    BY <2>1, <2>2, <1>1, NoBootType DEF IInv, HandshakeOK, BootAt
  <2>5. UsedArmed' /\ c \notin armed
    BY <1>1, <1>3, <2>2 DEF IInv, TypeOK, UsedArmed
  <2>6. CycleInv => CycleInv'
    <3> SUFFICES ASSUME CycleInv PROVE CycleInv'
      OBVIOUS
    <3>1. /\ state = "starting" /\ runningBoot = b
          /\ \A d \in Slot : d # b => boot[d] = NoBoot
          /\ \A d \in armed : ~Live(d)
      BY <1>1 DEF CycleInv, ShutdownInv, BootInv, SocketInv, Booting, None, Slot
    <3>2. \A d \in armed' : ~Live(d)'
      BY <1>1, <1>3, <2>2, <2>5, <3>1 DEF TypeOK, Live
    <3>3. BootInv' /\ SocketInv'
      BY <1>1, <1>3, <2>1, <2>5, <3>1, <3>2, NoBootType
      DEF CycleInv, BootInv, SocketInv, Booting, BootAt, downVars
    <3>4. ShutdownInv' /\ TimerInv'
      BY <1>1, <1>3, <2>1, <3>1
      DEF CycleInv, ShutdownInv, TimerInv, Booting, BootAt, backVars, downVars
    <3> QED
      BY <3>3, <3>4 DEF CycleInv
  <2> QED
    BY <1>1, <2>3, <2>4, <2>5, <2>6 DEF IInv
<1> QED
  BY <1>2, <1>3 DEF BootConnect

\* The helper is ready when its socket is watched.
LEMMA ReadyStep ==
  ASSUME IInv, NEW b \in Slot, BootReady(b), stale' = stale
  PROVE  IInv'
<1>1. /\ TypeOK /\ boot[b] # NoBoot /\ boot[b].pc = "handshake"
      /\ boot[b].conn \in Conn /\ conn[boot[b].conn] = "open"
      /\ armed' = armed \union {boot[b].conn} /\ state' = "ready"
      /\ UNCHANGED <<backVars, proc, rpc, conn, peer, procVars, fileVars, downVars, userVars, stale>>
  BY NoBootType DEF IInv, BootReady, HandshakeOK
<1>2. BootOver(b)
  BY <1>1, EndGives DEF BootReady
<1>3. TypeOK'
  <2>1. FlagsOK'
    BY Zenon, TypeParts, <1>1 DEF FlagsOK, backVars, downVars, userVars, procVars
  <2>2. rpc' \in {None} \union {d \in Conn : conn'[d] # "unused"}
    BY <1>1 DEF TypeOK
  <2>3. /\ state' \in States /\ armed' \subseteq Conn
        /\ boot' \in [Slot -> Boots] /\ runningBoot' \in Slot \union {None}
    BY <1>1, <1>2 DEF TypeOK, States, BootOver
  <2>4. DataOK'
    BY ZenonT(30), TypeParts, <1>1, <2>2, <2>3 DEF DataOK, procVars, fileVars, downVars, userVars
  <2> QED
    BY <2>1, <2>4, TypePartsNext
<1>4. HandshakeOK' /\ UsedArmed'
  BY <1>1, <1>2, NoBootType DEF IInv, HandshakeOK, UsedArmed, BootOver
<1>5. CycleInv => CycleInv'
  <2> SUFFICES ASSUME CycleInv PROVE CycleInv'
    OBVIOUS
  <2>1. /\ state = "starting" /\ runningBoot = b /\ boot[b].conn = rpc /\ ~timer
        /\ shutdown \in {"none", "boot"}
        /\ \A d \in Slot : boot'[d] = NoBoot
        /\ \A d \in armed : ~Live(d)
    BY <1>1, <1>2
    DEF CycleInv, ShutdownInv, BootInv, TimerInv, SocketInv, Booting, BootOver, None, Slot
  <2>2. BootInv' /\ SocketInv'
    BY <1>1, <1>2, <2>1, NoBootType DEF BootInv, SocketInv, Booting, Live, BootOver, None, Slot
  <2>3. ShutdownInv' /\ TimerInv'
    BY <1>1, <2>1 DEF CycleInv, ShutdownInv, TimerInv, Booting, backVars, downVars
  <2> QED
    BY <2>2, <2>3 DEF CycleInv
<1> QED
  BY <1>1, <1>3, <1>4, <1>5 DEF IInv

\* A close event that is not late belongs to the helper in use.
LEMMA CloseStep ==
  ASSUME IInv, NEW c \in Conn, OnClose(c)
  PROVE  IInv'
<1>1. /\ TypeOK /\ conn[c] \in {"dying", "destroyed"}
      /\ conn' = [conn EXCEPT ![c] = "closed"] /\ armed' = armed \ {c}
      /\ UNCHANGED <<rpc, peer, bootVars, procVars, fileVars, downVars, userVars>>
  BY DEF IInv, OnClose
<1>2. /\ conn' \in [Conn -> ConnStates] /\ conn'[c] = "closed"
      /\ \A d \in Conn : d # c => conn'[d] = conn[d]
  BY <1>1 DEF TypeOK, ConnStates
<1>3. HandshakeOK' /\ UsedArmed'
  BY <1>1, <1>2 DEF IInv, TypeOK, HandshakeOK, UsedArmed, bootVars
<1>4. ASSUME state' \in States, proc' \in {proc, None}, timer' \in BOOLEAN, stale' \in BOOLEAN, FailuresOK
      PROVE  TypeOK'
  <2>1. FlagsOK'
    BY Zenon, TypeParts, <1>1, <1>4 DEF FlagsOK, FailuresOK, downVars, userVars, procVars
  <2>2. rpc' \in {None} \union {d \in Conn : conn'[d] # "unused"}
    BY <1>1, <1>2 DEF TypeOK
  <2>3. /\ armed' \subseteq Conn /\ proc' \in Helper \union {None}
        /\ conn' \in [Conn -> {"unused", "open", "dying", "destroyed", "closed"}]
    BY <1>1, <1>2, <1>4 DEF TypeOK, ConnStates
  <2>4. DataOK'
    BY ZenonT(30), TypeParts, <1>1, <1>4, <2>2, <2>3
    DEF DataOK, bootVars, procVars, fileVars, downVars, userVars
  <2> QED
    BY <2>1, <2>4, TypePartsNext
<1>5. \A d \in armed' : d # c /\ d \in armed /\ (Live(d)' => Live(d))
  BY <1>1, <1>2 DEF TypeOK, Live
<1>6. CASE ~(c \in armed /\ ~asked /\ state # "shuttingDown") /\ UNCHANGED <<state, backVars, proc, stale>>
  <2>1. TypeOK'
    <3>1. FailuresOK /\ timer' \in BOOLEAN /\ stale' \in BOOLEAN
      BY Zenon, <1>1, <1>6 DEF TypeOK, FailuresOK, backVars
    <3>2. state' \in States
      BY <1>1, <1>6 DEF TypeOK
    <3> QED
      BY Zenon, <1>4, <1>6, <3>1, <3>2
  <2>2. CycleInv => CycleInv'
    BY <1>1, <1>5, <1>6 DEF CycleInv, ShutdownInv, BootInv, TimerInv, SocketInv, Booting,
                            bootVars, backVars, downVars
  <2> QED
    BY <1>3, <1>6, <2>1, <2>2 DEF IInv
<1>7. CASE /\ c \in armed /\ ~asked /\ state # "shuttingDown" /\ proc' = None /\ ScheduleRestart
           /\ stale' = (stale \/ conn[c] = "destroyed")
  <2>1. Ended
    BY <1>1, <1>7, ScheduleGives
  <2>2. TypeOK'
    <3>1. FailuresOK /\ timer' \in BOOLEAN
      BY Zenon, <1>1, <2>1 DEF TypeOK, Ended
    <3>2. state' \in States
      BY <1>1, <2>1 DEF TypeOK, Ended, States
    <3>3. stale' \in BOOLEAN
      BY Zenon, <1>7
    <3> QED
      BY Zenon, <1>4, <1>7, <3>1, <3>2, <3>3
  <2>3. CASE stale \/ conn[c] = "destroyed"
    BY <1>3, <1>7, <2>2, <2>3 DEF IInv
  <2>4. CASE ~stale /\ conn[c] = "dying"
    <3>1. CycleInv
      BY <2>4 DEF IInv
    <3>2. c = rpc /\ state = "ready" /\ shutdown = "none"
      BY <1>7, <2>4, <3>1 DEF CycleInv, ShutdownInv, SocketInv, Live
    <3>3. \A d \in Slot : boot[d] = NoBoot
      BY <3>1, <3>2 DEF CycleInv, BootInv, Booting
    <3>4. \A d \in armed' : ~Live(d)'
      BY <1>5, <3>1, <3>2 DEF CycleInv, SocketInv
    <3>5. state' \in {"unavailable", "restarting"} /\ (timer' => state' = "restarting")
      BY <1>7, <2>1, <3>1, <3>2 DEF Ended, CycleInv, TimerInv
    <3>6. BootInv' /\ SocketInv'
      BY <1>1, <3>1, <3>3, <3>4, <3>5, NoBootType
      DEF CycleInv, BootInv, SocketInv, Booting, bootVars
    <3>7. ShutdownInv' /\ TimerInv'
      BY <1>1, <1>7, <3>1, <3>2, <3>5 DEF CycleInv, ShutdownInv, TimerInv, downVars
    <3> QED
      BY <1>3, <2>2, <3>6, <3>7 DEF IInv, CycleInv
  <2> QED
    BY <1>1, <2>3, <2>4
<1> QED
  BY <1>6, <1>7 DEF OnClose

\* A shutdown that takes the helper down may still lose its socket, and no other.
LEMMA DownKeeps ==
  ASSUME IInv, TakesDown, held' \in HeldType,
         asked' \in BOOLEAN, timer' \in BOOLEAN, restarts' \in BOOLEAN, clicks' \in 0..MaxRestarts,
         CycleInv => asked' /\ ~timer' /\ \A b \in Slot : boot[b] = NoBoot,
         quit' \in {"waiting", quit},
         UNCHANGED <<failures, bootVars, proc, rpc, connVars, procVars, fileVars, stale>>
  PROVE  IInv'
<1>1. TypeOK'
  <2>1. FlagsOK'
    BY Zenon, TypeParts DEF IInv, FlagsOK, procVars
  <2>2. rpc' \in {None} \union {d \in Conn : conn'[d] # "unused"}
    BY TypeParts DEF IInv, DataOK, connVars
  <2>3. /\ state' \in States /\ shutdown' \in {"none", "boot", "rpc", "kill", "done"}
        /\ quit' \in {"no", "waiting", "overtaken", "exited", "timed out", "gone"}
    BY TypeParts DEF IInv, DataOK, TakesDown, States
  <2>4. DataOK'
    BY ZenonT(30), TypeParts, <2>2, <2>3
    DEF IInv, DataOK, HeldType, bootVars, connVars, procVars, fileVars
  <2> QED
    BY <2>1, <2>4, TypePartsNext
<1>2. HandshakeOK' /\ UsedArmed'
  BY DEF IInv, HandshakeOK, UsedArmed, bootVars, connVars
<1>3. CycleInv => CycleInv'
  <2> SUFFICES ASSUME CycleInv PROVE CycleInv'
    OBVIOUS
  <2>1. \A c \in armed : Live(c) => c = rpc /\ state # "idle"
    BY DEF CycleInv, ShutdownInv, SocketInv
  <2>2. \A c \in armed' : Live(c)' => c = rpc' /\ shutdown' = "rpc" /\ held'.rpc = c
    <3>1. \A c \in armed : c # None
      <4>1. \A c \in Conn : c # None
        BY DEF None, Conn
      <4> QED
        BY <4>1 DEF IInv, TypeOK
    <3>2. armed' = armed /\ rpc' = rpc /\ \A c : Live(c)' <=> Live(c)
      BY DEF Live, connVars
    <3> QED
      BY <2>1, <3>1, <3>2 DEF TakesDown
  <2>3. state' \in {"idle", "shuttingDown"} /\ asked' /\ ~timer'
    BY DEF TakesDown
  <2>4. BootInv' /\ SocketInv'
    BY <2>2, <2>3, NoBootType DEF CycleInv, BootInv, SocketInv, Booting, bootVars
  <2>5. ShutdownInv' /\ TimerInv'
    BY <2>3 DEF TakesDown, ShutdownInv, TimerInv
  <2> QED
    BY <2>4, <2>5 DEF CycleInv
<1> QED
  BY <1>1, <1>2, <1>3 DEF IInv

\* The boot that the shutdown waited for is over.
LEMMA AfterBootStep ==
  ASSUME IInv, ShutdownAfterBoot, stale' = stale
  PROVE  IInv'
<1>1. /\ TypeOK /\ shutdown = "boot" /\ boot[held.boot] = NoBoot /\ TakeDown
      /\ UNCHANGED <<asked, bootVars, backVars, proc, rpc, connVars, procVars, fileVars, userVars, stale>>
  BY DEF IInv, ShutdownAfterBoot
<1>2. TakesDown /\ held' \in HeldType
  BY <1>1, TakeDownGives
<1>3. CycleInv => asked' /\ ~timer' /\ \A b \in Slot : boot[b] = NoBoot
  BY <1>1 DEF CycleInv, ShutdownInv, TimerInv, Booting, backVars
<1>4. /\ asked' \in BOOLEAN /\ timer' \in BOOLEAN /\ restarts' \in BOOLEAN /\ clicks' \in 0..MaxRestarts
      /\ UNCHANGED failures
  BY Zenon, <1>1 DEF TypeOK, backVars, userVars
<1>5. quit' \in {"waiting", quit}
  BY <1>1 DEF userVars
<1> QED
  BY <1>1, <1>2, <1>3, <1>4, <1>5, DownKeeps

\* shutdown() begins, waits for the boot, or is already under way.
LEMMA CallKeeps ==
  ASSUME IInv, CallShutdown, timer' \in BOOLEAN, timer' => timer /\ shutdown # "none",
         restarts' \in BOOLEAN, clicks' \in 0..MaxRestarts, quit' \in {"waiting", quit},
         UNCHANGED <<failures, bootVars, proc, rpc, connVars, procVars, fileVars, stale>>
  PROVE  IInv'
<1>1. /\ TypeOK /\ asked' = TRUE /\ held' \in HeldType
      /\ \/ shutdown # "none" /\ UNCHANGED <<state, shutdown, held>>
         \/ /\ shutdown = "none" /\ runningBoot \in Slot /\ shutdown' = "boot"
            /\ held'.boot = runningBoot /\ state' = state
         \/ shutdown = "none" /\ runningBoot = None /\ TakesDown
  BY CallGives DEF IInv
<1>2. CycleInv => ~timer'
  BY DEF CycleInv, ShutdownInv, TimerInv
<1>3. CASE shutdown = "none" /\ runningBoot = None /\ TakesDown
  <2>1. CycleInv => \A b \in Slot : boot[b] = NoBoot
    BY <1>3 DEF CycleInv, BootInv, Booting, None, Slot
  <2>2. asked' \in BOOLEAN /\ asked'
    BY <1>1
  <2> QED
    BY <1>1, <1>2, <1>3, <2>1, <2>2, DownKeeps
<1>4. CASE \/ shutdown # "none" /\ UNCHANGED <<state, shutdown, held>>
           \/ /\ shutdown = "none" /\ runningBoot \in Slot /\ shutdown' = "boot"
              /\ held'.boot = runningBoot /\ state' = state
  <2>1. TypeOK'
    <3>1. FlagsOK'
      BY Zenon, TypeParts, <1>1 DEF FlagsOK, procVars
    <3>2. rpc' \in {None} \union {d \in Conn : conn'[d] # "unused"}
      BY <1>1 DEF TypeOK, connVars
    <3>3. /\ state' \in States /\ shutdown' \in {"none", "boot", "rpc", "kill", "done"}
          /\ quit' \in {"no", "waiting", "overtaken", "exited", "timed out", "gone"}
      BY <1>1, <1>4 DEF TypeOK
    <3>4. DataOK'
      BY ZenonT(30), TypeParts, <1>1, <3>2, <3>3
      DEF DataOK, HeldType, bootVars, connVars, procVars, fileVars
    <3> QED
      BY <3>1, <3>4, TypePartsNext
  <2>2. HandshakeOK' /\ UsedArmed'
    BY DEF IInv, HandshakeOK, UsedArmed, bootVars, connVars
  <2>3. CycleInv => CycleInv'
    <3> SUFFICES ASSUME CycleInv PROVE CycleInv'
      OBVIOUS
    <3>1. ShutdownInv' /\ TimerInv'
      BY <1>1, <1>2, <1>4 DEF CycleInv, ShutdownInv, BootInv, TimerInv, Booting, bootVars
    <3>2. BootInv' /\ SocketInv'
      BY <1>1, <1>4 DEF CycleInv, ShutdownInv, BootInv, SocketInv, Booting, Live, bootVars, connVars
    <3> QED
      BY <3>1, <3>2 DEF CycleInv
  <2> QED
    BY <2>1, <2>2, <2>3 DEF IInv
<1> QED
  BY <1>1, <1>3, <1>4

\* restart() begins with a shutdown and clears the timer.
LEMMA RestartStep ==
  ASSUME IInv, Restart, stale' = stale
  PROVE  IInv'
<1>1. clicks' \in 0..MaxRestarts
  <2>1. clicks \in 0..MaxRestarts
    BY DEF IInv, TypeOK
  <2> QED
    BY <2>1 DEF Restart
<1>2. timer' \in BOOLEAN /\ ~timer' /\ restarts' \in BOOLEAN /\ quit' = quit
  BY DEF Restart
<1>3. CallShutdown /\ UNCHANGED <<failures, bootVars, proc, rpc, connVars, procVars, fileVars>>
  BY DEF Restart
<1> QED
  BY <1>1, <1>2, <1>3, CallKeeps

\* So does before-quit, unless a shutdown is under way.
LEMMA QuitStep ==
  ASSUME IInv, Quit, stale' = stale
  PROVE  IInv'
<1>1. clicks' \in 0..MaxRestarts /\ restarts' \in BOOLEAN
  BY Zenon DEF IInv, TypeOK, Quit
<1>2. timer' \in BOOLEAN /\ (timer' => timer /\ shutdown # "none") /\ quit' = "waiting"
  BY DEF Quit
<1>3. CallShutdown /\ UNCHANGED <<failures, bootVars, proc, rpc, connVars, procVars, fileVars>>
  BY DEF Quit
<1> QED
  BY <1>1, <1>2, <1>3, CallKeeps

\* What wanes is not armed more than before.
LEMMA WaningKeeps ==
  ASSUME IInv, NEW dead, Waning(conn', dead), UNCHANGED armed
  PROVE  UsedArmed' /\ \A c \in armed' : Live(c)' => Live(c)
BY DEF IInv, TypeOK, UsedArmed, Waning, Live

\* engine.shutdown is over, the socket of the helper is destroyed.
LEMMA ShutdownRpcStep ==
  ASSUME IInv, ShutdownRpc, stale' = stale
  PROVE  IInv'
<1>1. /\ TypeOK /\ shutdown = "rpc" /\ rpc' = None /\ shutdown' = "kill"
      /\ UNCHANGED <<state, asked, held, bootVars, backVars, proc, peer, armed, born, faults, lost,
                     fileVars, userVars, stale>>
  BY DEF IInv, ShutdownRpc
<1>2. alive' \subseteq Proc
  BY <1>1 DEF ShutdownRpc, TypeOK
<1>3. /\ Waning(conn', alive \ alive')
      /\ held.rpc \in Conn => conn'[held.rpc] \notin {"open", "dying"}
  <2> DEFINE cs == Orphaned(alive \ alive', conn)
  <2>1. conn \in [Conn -> ConnStates] /\ held.rpc \in Conn \union {None}
    BY <1>1 DEF TypeOK, ConnStates
  <2>2. /\ cs \in [Conn -> ConnStates]
        /\ \A d \in Conn : \/ cs[d] = conn[d]
                           \/ conn[d] = "open" /\ peer[d] \in alive \ alive' /\ cs[d] = "dying"
    BY <2>1, OrphanedGives
  <2>3. conn' = Destroy(held.rpc, cs)
    BY DEF ShutdownRpc
  <2> HIDE DEF cs
  <2>4. /\ conn' \in [Conn -> ConnStates]
        /\ \A d \in Conn : \/ conn'[d] = cs[d] /\ (d = held.rpc => cs[d] \notin {"open", "dying"})
                           \/ d = held.rpc /\ cs[d] \in {"open", "dying"} /\ conn'[d] = "destroyed"
    BY <2>1, <2>2, <2>3, DestroyGives
  <2>5. \A d \in Conn : cs[d] \in {"open", "dying"} => Live(d)
    BY <2>2 DEF Live
  <2> QED
    BY <2>2, <2>4, <2>5 DEF Waning
<1>4. TypeOK'
  <2>1. FlagsOK'
    BY Zenon, TypeParts, <1>1 DEF FlagsOK, backVars, userVars
  <2>2. conn' \in [Conn -> {"unused", "open", "dying", "destroyed", "closed"}]
    BY <1>3 DEF Waning, ConnStates
  <2>3. DataOK'
    BY ZenonT(30), TypeParts, <1>1, <1>2, <2>2 DEF DataOK, bootVars, fileVars, userVars
  <2> QED
    BY <2>1, <2>3, TypePartsNext
<1>5. HandshakeOK'
  BY <1>1, <1>3 DEF IInv, HandshakeOK, Waning, Live, bootVars
<1>6. UsedArmed' /\ \A c \in armed' : Live(c)' => Live(c)
  BY <1>1, <1>3, WaningKeeps
<1>7. CycleInv => CycleInv'
  <2> SUFFICES ASSUME CycleInv PROVE CycleInv'
    OBVIOUS
  <2>1. state = "shuttingDown" /\ asked
    BY <1>1 DEF CycleInv, ShutdownInv
  <2>2. \A c \in armed : Live(c) => c = held.rpc
    BY <1>1, <2>1 DEF CycleInv, SocketInv
  <2>3. \A c \in armed' : ~Live(c)'
    BY <1>1, <1>3, <1>6, <2>2 DEF Live, TypeOK
  <2>4. BootInv' /\ SocketInv'
    BY <1>1, <2>1, <2>3, NoBootType DEF CycleInv, BootInv, SocketInv, Booting, bootVars
  <2>5. ShutdownInv' /\ TimerInv'
    BY <1>1, <2>1 DEF CycleInv, ShutdownInv, TimerInv, backVars
  <2> QED
    BY <2>4, <2>5 DEF CycleInv
<1> QED
  BY <1>1, <1>4, <1>5, <1>6, <1>7 DEF IInv

\* The process is killed, the supervisor is idle.
LEMMA ShutdownKillStep ==
  ASSUME IInv, ShutdownKill, stale' = stale
  PROVE  IInv'
<1>1. /\ TypeOK /\ shutdown = "kill" /\ alive' = alive \ {held.proc}
      /\ conn' = Orphaned({held.proc}, conn)
      /\ pidFile' = None /\ sockFile' = None /\ proc' = None
      /\ state' = "idle" /\ shutdown' = "done" /\ held' = NothingHeld
      /\ UNCHANGED <<asked, bootVars, backVars, rpc, peer, armed, born, faults, lost, userVars, stale>>
  BY DEF IInv, ShutdownKill, KillWithEscalation
<1>2. Waning(conn', {held.proc})
  <2>1. conn \in [Conn -> ConnStates]
    BY <1>1 DEF TypeOK, ConnStates
  <2> QED
    BY <1>1, <2>1, OrphanedGives DEF Waning
<1>3. TypeOK'
  <2>1. FlagsOK'
    BY Zenon, TypeParts, <1>1 DEF FlagsOK, backVars, userVars
  <2>2. conn' \in [Conn -> {"unused", "open", "dying", "destroyed", "closed"}]
    BY <1>2 DEF Waning, ConnStates
  <2>3. rpc' \in {None} \union {d \in Conn : conn'[d] # "unused"}
    BY <1>1, <1>2 DEF TypeOK, Waning, Live
  <2>4. held' \in [boot : Slot \union {None}, rpc : Conn \union {None}, proc : Helper \union {None}]
    BY <1>1 DEF NothingHeld
  <2>5. /\ state' \in States /\ proc' \in Helper \union {None} /\ alive' \subseteq Proc
        /\ pidFile' \in Proc \union {None} /\ sockFile' \in Proc \union {None}
    BY <1>1 DEF TypeOK, States
  <2>6. DataOK'
    BY ZenonT(30), TypeParts, <1>1, <2>2, <2>3, <2>4, <2>5 DEF DataOK, bootVars, userVars
  <2> QED
    BY <2>1, <2>6, TypePartsNext
<1>4. HandshakeOK'
  BY <1>1, <1>2 DEF IInv, HandshakeOK, Waning, Live, bootVars
<1>5. UsedArmed' /\ \A c \in armed' : Live(c)' => Live(c)
  BY <1>1, <1>2, WaningKeeps
<1>6. CycleInv => CycleInv'
  <2> SUFFICES ASSUME CycleInv PROVE CycleInv'
    OBVIOUS
  <2>1. state = "shuttingDown" /\ asked
    BY <1>1 DEF CycleInv, ShutdownInv
  <2>2. \A c \in armed' : ~Live(c)'
    BY <1>1, <1>5, <2>1 DEF CycleInv, SocketInv
  <2>3. BootInv' /\ SocketInv'
    BY <1>1, <2>1, <2>2, NoBootType DEF CycleInv, BootInv, SocketInv, Booting, bootVars
  <2>4. ShutdownInv' /\ TimerInv'
    BY <1>1, <2>1 DEF CycleInv, ShutdownInv, TimerInv, backVars
  <2> QED
    BY <2>3, <2>4 DEF CycleInv
<1> QED
  BY <1>1, <1>3, <1>4, <1>5, <1>6 DEF IInv

\* A restart that waited begins the next boot.
LEMMA ResumeStep ==
  ASSUME IInv, RestartResumes, stale' = stale
  PROVE  IInv'
<1>1. /\ TypeOK /\ shutdown = "done" /\ restarts' = FALSE /\ asked' = FALSE /\ shutdown' = "none"
      /\ quit' \in {"overtaken", quit} /\ clicks' = clicks
      /\ UNCHANGED <<held, backVars, proc, rpc, connVars, procVars, fileVars, stale>>
  BY DEF IInv, RestartResumes
<1>2. \/ \E b \in Slot : /\ boot[b] = NoBoot /\ BootAt(b, "adopt", FALSE, None)
                         /\ runningBoot' = b /\ state' = "starting"
      \/ state' = "unavailable" /\ UNCHANGED bootVars
      \/ state # "idle" /\ UNCHANGED <<state, bootVars>>
  BY <1>1, CycleGives DEF RestartResumes
<1>3. TypeOK'
  <2>1. FlagsOK'
    BY Zenon, TypeParts, <1>1 DEF FlagsOK, backVars, procVars
  <2>2. rpc' \in {None} \union {d \in Conn : conn'[d] # "unused"}
    BY <1>1 DEF TypeOK, connVars
  <2>3. /\ state' \in States /\ boot' \in [Slot -> Boots] /\ runningBoot' \in Slot \union {None}
        /\ quit' \in {"no", "waiting", "overtaken", "exited", "timed out", "gone"}
    BY <1>1, <1>2 DEF TypeOK, States, BootAt, bootVars
  <2>4. DataOK'
    BY ZenonT(30), TypeParts, <1>1, <2>2, <2>3 DEF DataOK, connVars, procVars, fileVars
  <2> QED
    BY <2>1, <2>4, TypePartsNext
<1>4. HandshakeOK' /\ UsedArmed'
  BY <1>1, <1>2 DEF IInv, HandshakeOK, UsedArmed, BootAt, bootVars, connVars
<1>5. CycleInv => CycleInv'
  BY <1>1, <1>2 DEF CycleInv, ShutdownInv, BootInv, TimerInv, SocketInv, BootAt,
                    bootVars, backVars, connVars, Booting, Live
<1> QED
  BY <1>1, <1>3, <1>4, <1>5 DEF IInv

\* The program ends.
LEMMA ExitStep ==
  ASSUME IInv, Exit, stale' = stale
  PROVE  IInv'
<1>1. /\ TypeOK /\ quit' \in {"exited", "timed out", "gone"}
      /\ UNCHANGED <<state, downVars, bootVars, backVars, proc, rpc, connVars, procVars, fileVars,
                     restarts, clicks, stale>>
  BY DEF IInv, Exit
<1>2. TypeOK'
  <2>1. FlagsOK'
    BY Zenon, TypeParts, <1>1 DEF FlagsOK, downVars, backVars, procVars
  <2>2. rpc' \in {None} \union {d \in Conn : conn'[d] # "unused"}
    BY <1>1 DEF TypeOK, connVars
  <2>3. quit' \in {"no", "waiting", "overtaken", "exited", "timed out", "gone"}
    BY <1>1
  <2>4. DataOK'
    BY ZenonT(30), TypeParts, <1>1, <2>2, <2>3
    DEF DataOK, downVars, bootVars, connVars, procVars, fileVars
  <2> QED
    BY <2>1, <2>4, TypePartsNext
<1>3. HandshakeOK' /\ UsedArmed' /\ (CycleInv => CycleInv')
  BY <1>1 DEF IInv, HandshakeOK, UsedArmed, CycleInv, ShutdownInv, BootInv, TimerInv, SocketInv,
              bootVars, backVars, connVars, downVars, Booting, Live
<1> QED
  BY <1>2, <1>3 DEF IInv

\* A helper dies or closes its socket.
LEMMA FailsStep ==
  ASSUME IInv, NEW h \in Proc, HelperFails(h), stale' = stale
  PROVE  IInv'
<1>1. /\ TypeOK /\ conn' = Orphaned({h}, conn)
      /\ UNCHANGED <<state, downVars, bootVars, backVars, proc, rpc, peer, armed, born, fileVars,
                     userVars, stale>>
  BY DEF IInv, HelperFails
<1>2. faults' \in 0..MaxFaults
  <2>1. faults \in 0..MaxFaults
    BY <1>1 DEF TypeOK
  <2> QED
    BY <2>1 DEF HelperFails
<1>3. alive' \subseteq Proc /\ lost' \subseteq Proc
  BY <1>1 DEF TypeOK, HelperFails
<1>4. Waning(conn', {h})
  <2>1. conn \in [Conn -> ConnStates]
    BY <1>1 DEF TypeOK, ConnStates
  <2> QED
    BY <1>1, <2>1, OrphanedGives DEF Waning
<1>5. TypeOK'
  <2>1. FlagsOK'
    BY Zenon, TypeParts, <1>1, <1>2 DEF FlagsOK, downVars, backVars, userVars
  <2>2. rpc' \in {None} \union {d \in Conn : conn'[d] # "unused"}
    BY <1>1, <1>4 DEF TypeOK, Waning, Live
  <2>3. conn' \in [Conn -> {"unused", "open", "dying", "destroyed", "closed"}]
    BY <1>4 DEF Waning, ConnStates
  <2>4. DataOK'
    BY ZenonT(30), TypeParts, <1>1, <1>3, <2>2, <2>3
    DEF DataOK, downVars, bootVars, fileVars, userVars
  <2> QED
    BY <2>1, <2>4, TypePartsNext
<1>6. HandshakeOK'
  BY <1>1, <1>4 DEF IInv, HandshakeOK, Waning, Live, bootVars
<1>7. UsedArmed' /\ \A c \in armed' : Live(c)' => Live(c)
  BY <1>1, <1>4, WaningKeeps
<1>8. CycleInv => CycleInv'
  BY <1>1, <1>7 DEF CycleInv, ShutdownInv, BootInv, TimerInv, SocketInv, Booting,
                    bootVars, backVars, downVars
<1> QED
  BY <1>1, <1>5, <1>6, <1>7, <1>8 DEF IInv

----------------------------------------------------------------------------
\* At launch there is no boot, no timer and no socket.
LEMMA InitHolds == Init => IInv
<1> SUFFICES ASSUME Init PROVE IInv
  OBVIOUS
<1>1. TypeOK
  <2>1. FlagsOK
    <3>1. 0 \in 0..MaxFailures /\ 0 \in 0..MaxSpawn /\ 0 \in 0..MaxRestarts /\ 0 \in 0..MaxFaults
      OBVIOUS
    <3> QED
      BY Zenon, <3>1 DEF Init, FlagsOK
  <2>2. boot \in [Slot -> Boots] /\ held \in HeldType
    BY NoBootType DEF Init, NothingHeld, HeldType
  <2>3. DataOK
    BY <2>2 DEF Init, DataOK, HeldType, States, Proc
  <2> QED
    BY <2>1, <2>3, TypeParts
<1>2. HandshakeOK /\ UsedArmed
  BY NoBootType DEF Init, HandshakeOK, UsedArmed
<1>3. CycleInv
  BY NoBootType DEF Init, CycleInv, ShutdownInv, BootInv, TimerInv, SocketInv, Booting, None, Slot
<1> QED
  BY <1>1, <1>2, <1>3 DEF IInv

\* Nothing changes.
LEMMA StutterHolds == IInv /\ UNCHANGED vars => IInv'
<1> SUFFICES ASSUME IInv, UNCHANGED vars PROVE IInv'
  OBVIOUS
<1>1. TypeOK /\ UNCHANGED <<state, downVars, bootVars, backVars, proc, rpc, connVars, procVars,
                            fileVars, userVars, stale>>
  BY DEF IInv, vars
<1>2. TypeOK'
  <2>1. FlagsOK'
    BY Zenon, TypeParts, <1>1 DEF FlagsOK, downVars, backVars, procVars, userVars
  <2>2. rpc' \in {None} \union {d \in Conn : conn'[d] # "unused"}
    BY <1>1 DEF TypeOK, connVars
  <2>3. DataOK'
    BY ZenonT(30), TypeParts, <1>1, <2>2
    DEF DataOK, downVars, bootVars, connVars, procVars, fileVars, userVars
  <2> QED
    BY <2>1, <2>3, TypePartsNext
<1>3. HandshakeOK' /\ UsedArmed' /\ (CycleInv => CycleInv')
  BY <1>1 DEF IInv, HandshakeOK, UsedArmed, CycleInv, ShutdownInv, BootInv, TimerInv, SocketInv,
              bootVars, backVars, connVars, downVars, Booting, Live
<1> QED
  BY <1>1, <1>2, <1>3 DEF IInv

(* The invariant is inductive. *)
THEOREM Inductive == Spec => []IInv
<1>1. IInv /\ [Next]_vars => IInv'
  <2> SUFFICES ASSUME IInv, [Next]_vars PROVE IInv'
    OBVIOUS
  <2>1. ASSUME NEW b \in Slot, BootStep(b), stale' = stale PROVE IInv'
    BY <2>1, AdoptStep, SpawnStep, ConnectStep, ReadyStep, RefusedStep DEF BootStep
  <2>2. ASSUME NEW c \in Conn, OnClose(c) PROVE IInv'
    BY <2>2, CloseStep
  <2>3. ASSUME NEW h \in Proc, HelperFails(h), stale' = stale PROVE IInv'
    BY <2>3, FailsStep
  <2>4. CASE (Start \/ RestartTimer \/ WindowPasses \/ Restart \/ RestartResumes) /\ stale' = stale
    BY <2>4, StartStep, TimerStep, WindowStep, RestartStep, ResumeStep
  <2>5. CASE (ShutdownAfterBoot \/ ShutdownRpc \/ ShutdownKill \/ Quit \/ Exit) /\ stale' = stale
    BY <2>5, AfterBootStep, ShutdownRpcStep, ShutdownKillStep, QuitStep, ExitStep
  <2>6. CASE UNCHANGED vars
    BY <2>6, StutterHolds
  <2> QED
    BY <2>1, <2>2, <2>3, <2>4, <2>5, <2>6 DEF Next
<1> QED
  BY InitHolds, <1>1, PTL DEF Spec

----------------------------------------------------------------------------
(* The helpers that run. *)

\* No process of ours runs when there is no proc.
LEMMA NoProcNoHelper ==
  ASSUME TypeOK, Ours \subseteq {None}
  PROVE  Ours = {}
<1>1. None \notin Proc
  BY DEF None, Proc, Foreign, Helper
<1> QED
  BY <1>1 DEF TypeOK, Ours

\* Processes end; no socket opens.
LEMMA BornKeeps ==
  ASSUME BornInv, alive' \subseteq alive, UNCHANGED <<born, peer>>
  PROVE  BornInv'
BY DEF BornInv, Started

\* Processes die together with their sockets.
LEMMA DeathKeeps ==
  ASSUME TypeOK, ProcInv, NEW dead, Waning(conn', dead), UNCHANGED peer,
         Ours' \subseteq Ours \ dead
  PROVE  \A c \in Conn : conn'[c] = "dying" => peer'[c] \notin Ours'
BY DEF ProcInv, Waning

\* Nothing that matters to the processes changes.
LEMMA BeginProc ==
  ASSUME IInv, IInv', CycleInv, CycleInv', BornInv, ProcInv, Running,
         state \in {"idle", "restarting"}, quit' \in {"overtaken", quit},
         shutdown' \in {"none", "boot"},
         \/ \E b \in Slot : /\ boot[b] = NoBoot /\ BootAt(b, "adopt", FALSE, None)
                            /\ runningBoot' = b /\ state' = "starting"
         \/ state' \in {"unavailable", state} /\ UNCHANGED bootVars,
         UNCHANGED <<proc, rpc, connVars, procVars, fileVars>>
  PROVE  PInv'
<1>1. proc = None /\ Ours' = Ours /\ quit' # "exited"
  BY DEF ProcInv, Ours, procVars, Running
<1>2. BornInv'
  BY BornKeeps DEF procVars, connVars
<1>3. \A b \in Slot : boot[b] = NoBoot
  BY DEF CycleInv, BootInv, Booting
<1>4. \A b \in Slot : boot'[b].pc \in {"none", "adopt"}
  BY <1>3, NoBootType DEF BootAt, bootVars
<1>5. ProcInv'
  BY <1>1, <1>4 DEF ProcInv, connVars
<1> QED
  BY <1>2, <1>5 DEF PInv

\* A boot that is over leaves no process.
LEMMA OverProc ==
  ASSUME IInv, IInv', CycleInv, CycleInv', BornInv, ProcInv, Running, NEW b \in Slot, NEW dead,
         boot[b] # NoBoot, BootOver(b), Ours' = {}, proc' = None,
         Waning(conn', dead), quit' = quit, shutdown' = shutdown, BornInv'
  PROVE  PInv'
<1>1. shutdown' \in {"none", "boot"} /\ quit' # "exited" /\ \A d \in Slot : boot'[d] = NoBoot
  BY DEF CycleInv, BootInv, Booting, BootOver, None, Slot, Running
<1>2. ProcInv'
  BY <1>1, NoBootType DEF ProcInv
<1> QED
  BY <1>2 DEF PInv

\* A boot that has its process, or none, goes on.
LEMMA AtProc ==
  ASSUME IInv, CycleInv, BornInv', Running, NEW b \in Slot, NEW p \in {"spawn", "connect"}, NEW a, NEW c,
         boot[b] # NoBoot, BootAt(b, p, a, c), Ours' \subseteq {proc'},
         \A d \in Conn : conn'[d] = "dying" => peer'[d] \notin Ours',
         proc' # None => p = "connect" /\ sockFile' = proc',
         UNCHANGED <<state, quit, shutdown>>
  PROVE  PInv'
<1>1. /\ shutdown' \in {"none", "boot"} /\ quit' # "exited" /\ state' = "starting"
      /\ \A d \in Slot : d # b => boot'[d] = NoBoot
  BY DEF CycleInv, BootInv, Booting, BootAt, None, Slot, Running
<1>2. ProcInv'
  BY <1>1, NoBootType DEF ProcInv, BootAt
<1> QED
  BY <1>2 DEF PInv

\* A boot fails: its process is killed.
LEMMA FailProc ==
  ASSUME IInv, IInv', CycleInv, CycleInv', BornInv, ProcInv, Running, NEW b \in Slot, NEW code,
         boot[b] # NoBoot, BootFails(b, code), UNCHANGED <<born, lost, quit, shutdown>>
  PROVE  PInv'
<1>1. /\ TypeOK /\ alive' = alive \ {proc} /\ proc' = None /\ rpc' = None
      /\ Waning(conn', {proc}) /\ UNCHANGED <<peer, armed>>
      /\ \/ BootOver(b)
         \/ BootAt(b, "spawn", FALSE, None) /\ UNCHANGED state
  BY FailGives DEF IInv
<1>2. Ours' = {}
  BY <1>1 DEF Ours, ProcInv
<1>3. BornInv'
  BY <1>1, BornKeeps
<1> QED
  BY <1>1, <1>2, <1>3, OverProc, AtProc

\* Every step names the processes it starts anew.
LEMMA BornStep ==
  ASSUME IInv, BornInv, [Next]_vars
  PROVE  BornInv'
<1>1. TypeOK
  BY DEF IInv
<1>2. ASSUME NEW c \in Conn, OnClose(c) PROVE BornInv'
  BY <1>2, BornKeeps DEF OnClose, procVars
<1>3. ASSUME NEW b \in Slot, BootAdopt(b) PROVE BornInv'
  BY <1>3, BornKeeps DEF BootAdopt, procVars, connVars
<1>4. ASSUME NEW b \in Slot, BootSpawn(b) PROVE BornInv'
  <2>1. peer' = peer
    BY <1>4 DEF BootSpawn, connVars
  <2>2. CASE UNCHANGED <<alive, born>>
    BY <2>1, <2>2, BornKeeps
  <2>3. CASE born' = born + 1 /\ alive' \subseteq alive \union {born'}
    <3>1. born \in 0..MaxSpawn
      BY <1>1 DEF TypeOK
    <3>2. 1..born \subseteq 1..(born + 1) /\ born + 1 \in 1..(born + 1)
      BY <3>1
    <3>3. Started \subseteq Started' /\ born' \in Started'
      BY <2>3, <3>2 DEF Started
    <3> QED
      BY <2>1, <2>3, <3>3 DEF BornInv
  <2> QED
    BY <1>4, <2>2, <2>3 DEF BootSpawn
<1>5. ASSUME NEW b \in Slot, NEW code, BootFails(b, code), born' = born PROVE BornInv'
  BY <1>1, <1>5, FailGives, BornKeeps
<1>6. ASSUME NEW b \in Slot, BootConnect(b) PROVE BornInv'
  <2>1. CASE BootFails(b, "no code")
    BY <1>5, <1>6, <2>1 DEF BootConnect
  <2>2. ASSUME sockFile \in alive, NEW c \in Conn, peer' = [peer EXCEPT ![c] = sockFile], alive' = alive
        PROVE  BornInv'
    <3>1. Started' = Started
      BY <1>6 DEF BootConnect, Started
    <3>2. peer \in [Conn -> Proc \union {None}]
      BY <1>1 DEF TypeOK
    <3> QED
      BY <2>2, <3>1, <3>2 DEF BornInv
  <2> QED
    BY <1>6, <2>1, <2>2 DEF BootConnect
<1>7. ASSUME NEW b \in Slot, BootReady(b) PROVE BornInv'
  BY <1>7, BornKeeps DEF BootReady, procVars
<1>8. ASSUME NEW b \in Slot, BootRefused(b) PROVE BornInv'
  BY <1>5, <1>8 DEF BootRefused
<1>9. CASE Start \/ RestartTimer \/ WindowPasses \/ Restart \/ RestartResumes \/ Quit \/ Exit \/ ShutdownAfterBoot
  BY <1>9, BornKeeps DEF Start, RestartTimer, WindowPasses, Restart, RestartResumes, Quit, Exit,
                         ShutdownAfterBoot, procVars, connVars
<1>10. CASE ShutdownRpc \/ ShutdownKill
  BY <1>10, BornKeeps DEF ShutdownRpc, ShutdownKill, KillWithEscalation
<1>11. ASSUME NEW h \in Proc, HelperFails(h) PROVE BornInv'
  BY <1>11, BornKeeps DEF HelperFails
<1>12. CASE UNCHANGED vars
  BY <1>12, BornKeeps DEF vars, procVars, connVars
<1> QED
  BY <1>2, <1>3, <1>4, <1>6, <1>7, <1>8, <1>9, <1>10, <1>11, <1>12 DEF Next, BootStep

\* A boot adopts only a helper of a former run, and has no process then.
LEMMA AdoptProc ==
  ASSUME IInv, IInv', CycleInv, CycleInv', BornInv, BornInv', ProcInv, NEW b \in Slot, BootAdopt(b)
  PROVE  PInv'
<1>1. /\ TypeOK /\ boot[b] # NoBoot /\ boot[b].pc = "adopt" /\ Running
      /\ UNCHANGED <<rpc, connVars, procVars, downVars, userVars>>
  BY NoBootType DEF IInv, BootAdopt
<1>2. proc = None /\ proc' = None
  BY <1>1 DEF ProcInv, BootAdopt
<1>3. Ours = {} /\ Ours' = {}
  BY <1>1, <1>2, NoProcNoHelper DEF ProcInv, Ours, procVars
<1>4. CASE BootOver(b)
  <2>1. Waning(conn', {}) /\ quit' = quit /\ shutdown' = shutdown
    BY <1>1, NothingWanes DEF connVars, userVars, downVars
  <2> QED
    BY <1>1, <1>2, <1>3, <1>4, <2>1, OverProc
<1>5. ASSUME NEW p \in {"connect", "spawn"}, NEW a \in BOOLEAN, state' = state,
             boot' = [boot EXCEPT ![b].pc = p, ![b].adopted = a]
      PROVE  PInv'
  <2> DEFINE f == [boot[b] EXCEPT !.pc = p, !.adopted = a]
  <2>1. f \in Boots /\ f.pc = p /\ f.adopted = a /\ f.conn = boot[b].conn
    <3>1. boot[b] \in Boots
      BY <1>1 DEF TypeOK
    <3> QED
      BY <3>1 DEF Boots
  <2>2. boot' = [boot EXCEPT ![b] = f]
    BY <1>5
  <2>3. f # NoBoot
    BY <2>1, NoBootType
  <2> HIDE DEF f
  <2>4. BootAt(b, p, a, boot[b].conn)
    BY <1>1, <2>1, <2>2, <2>3 DEF TypeOK, BootAt
  <2>5. UNCHANGED <<state, quit, shutdown>>
    BY <1>1, <1>5 DEF userVars, downVars
  <2> QED
    BY <1>1, <1>2, <1>3, <2>4, <2>5, AtProc
<1>6. CASE BootEnds(b) \/ BootThrows(b, "no code")
  BY <1>1, <1>4, <1>6, EndGives, ThrowGives
<1> QED
  BY <1>1, <1>5, <1>6 DEF BootAdopt

\* The new process is proc, and no socket that closes is its own.
LEMMA SpawnProc ==
  ASSUME IInv, IInv', CycleInv, CycleInv', BornInv, BornInv', ProcInv, NEW b \in Slot, BootSpawn(b)
  PROVE  PInv'
<1>1. /\ TypeOK /\ boot[b] # NoBoot /\ boot[b].pc = "spawn" /\ Running
      /\ UNCHANGED <<rpc, connVars, faults, lost, downVars, userVars>>
  BY NoBootType DEF IInv, BootSpawn
<1>2. proc = None /\ Ours = {}
  BY <1>1, NoProcNoHelper DEF ProcInv
<1>3. Waning(conn', {}) /\ quit' = quit /\ shutdown' = shutdown
  BY <1>1, NothingWanes DEF connVars, userVars, downVars
<1>4. CASE BootOver(b) /\ UNCHANGED <<proc, alive>>
  <2>1. Ours' = {}
    BY <1>1, <1>2, <1>4 DEF Ours
  <2> QED
    BY <1>1, <1>2, <1>3, <1>4, <2>1, OverProc
<1>5. CASE /\ born' = born + 1 /\ sockFile' = born' /\ proc' = born' /\ alive' = alive \union {born'}
           /\ boot' = [boot EXCEPT ![b].pc = "connect"] /\ state' = state
  <2> DEFINE f == [boot[b] EXCEPT !.pc = "connect"]
  <2>1. f \in Boots /\ f.pc = "connect" /\ f.adopted = boot[b].adopted /\ f.conn = boot[b].conn
    <3>1. boot[b] \in Boots
      BY <1>1 DEF TypeOK
    <3> QED
      BY <3>1 DEF Boots
  <2>2. boot' = [boot EXCEPT ![b] = f]
    BY <1>5
  <2>3. f # NoBoot
    BY <2>1, NoBootType
  <2> HIDE DEF f
  <2>4. BootAt(b, "connect", boot[b].adopted, boot[b].conn)
    BY <1>1, <2>1, <2>2, <2>3 DEF TypeOK, BootAt
  <2>5. Ours' \subseteq {proc'}
    BY <1>1, <1>2, <1>5 DEF Ours
  <2>6. born' \notin Started \union {None}
    <3>1. born \in 0..MaxSpawn
      BY <1>1 DEF TypeOK
    <3> QED
      BY <1>5, <3>1 DEF Started, None, Foreign
  <2>7. \A d \in Conn : conn'[d] = "dying" => peer'[d] \notin Ours'
    BY <1>1, <1>5, <2>5, <2>6 DEF BornInv, connVars
  <2> QED
    BY <1>1, <1>3, <1>5, <2>4, <2>5, <2>7, AtProc
<1>6. CASE BootEnds(b) /\ UNCHANGED <<proc, alive>>
  BY <1>1, <1>4, <1>6, EndGives
<1>7. CASE (\E code \in SpawnErrors : BootThrows(b, code)) /\ UNCHANGED <<proc, alive>>
  BY <1>1, <1>4, <1>7, ThrowGives
<1> QED
  BY <1>5, <1>6, <1>7 DEF BootSpawn

\* The socket leads to the process that was spawned.
LEMMA ConnectProc ==
  ASSUME IInv, IInv', CycleInv, CycleInv', BornInv, BornInv', ProcInv, NEW b \in Slot, BootConnect(b)
  PROVE  PInv'
<1>1. /\ TypeOK /\ boot[b] # NoBoot /\ boot[b].pc = "connect" /\ Running
      /\ UNCHANGED <<born, faults, lost, downVars, userVars>>
  BY NoBootType DEF IInv, BootConnect
<1>2. quit' = quit /\ quit' # "exited" /\ shutdown' = shutdown /\ shutdown' \in {"none", "boot"}
  BY <1>1 DEF CycleInv, BootInv, Booting, userVars, downVars, Running
<1>3. CASE BootFails(b, "no code")
  BY <1>1, <1>2, <1>3, FailProc
<1>4. ASSUME NEW c \in Conn, conn[c] = "unused", conn' = [conn EXCEPT ![c] = "open"],
             peer' = [peer EXCEPT ![c] = sockFile], rpc' = c, state' = state,
             boot' = [boot EXCEPT ![b].pc = "handshake", ![b].conn = c],
             UNCHANGED <<proc, alive>>
      PROVE  PInv'
  <2>1. Ours' = Ours
    BY <1>1, <1>4 DEF Ours
  <2>2. \A d \in Conn : conn'[d] = "dying" => peer'[d] \notin Ours'
    BY <1>1, <1>4, <2>1 DEF ProcInv, TypeOK
  <2>3. proc # None => peer'[c] = proc
    BY <1>1, <1>4 DEF ProcInv, TypeOK
  <2>4. state' = "starting" /\ boot'[b].pc = "handshake" /\ \A d \in Slot : d # b => boot'[d].pc = "none"
    <3>1. state = "starting" /\ runningBoot = b /\ \A d \in Slot : d # b => boot[d] = NoBoot
      BY <1>1 DEF CycleInv, BootInv, Booting, None, Slot
    <3>2. boot'[b].pc = "handshake"
      <4> DEFINE f == [boot[b] EXCEPT !.pc = "handshake", !.conn = c]
      <4>1. boot[b] \in Boots /\ boot \in [Slot -> Boots]
        BY <1>1 DEF TypeOK
      <4>2. f.pc = "handshake"
        BY <4>1 DEF Boots
      <4>3. boot'[b] = f
        BY <1>4, <4>1
      <4> QED
        BY <4>2, <4>3
    <3>3. \A d \in Slot : d # b => boot'[d] = boot[d]
      BY <1>1, <1>4 DEF TypeOK
    <3> QED
      BY <1>4, <3>1, <3>2, <3>3, NoBootType
  <2>5. ProcInv'
    BY <1>1, <1>2, <1>4, <2>1, <2>2, <2>3, <2>4 DEF ProcInv
  <2> QED
    BY <2>5 DEF PInv
<1> QED
  BY <1>3, <1>4 DEF BootConnect

\* The helper that is ready is proc, when it is ours.
LEMMA ReadyProc ==
  ASSUME IInv, IInv', CycleInv, CycleInv', BornInv, BornInv', ProcInv, NEW b \in Slot, BootReady(b)
  PROVE  PInv'
<1>1. /\ TypeOK /\ boot[b] # NoBoot /\ boot[b].pc = "handshake" /\ Running /\ state' = "ready"
      /\ boot[b].conn \in Conn
      /\ UNCHANGED <<proc, rpc, conn, peer, procVars, downVars, userVars>>
  BY NoBootType DEF IInv, BootReady, HandshakeOK
<1>2. quit' # "exited" /\ shutdown' \in {"none", "boot"} /\ boot[b].conn = rpc
  BY <1>1 DEF CycleInv, BootInv, SocketInv, Booting, userVars, downVars, Running
<1>3. \A d \in Slot : boot'[d].pc = "none"
  BY <1>1, NoBootType DEF CycleInv, BootInv, Booting
<1>4. Ours' = Ours
  BY <1>1 DEF Ours, procVars
<1>5. ProcInv'
  BY <1>1, <1>2, <1>3, <1>4 DEF ProcInv
<1> QED
  BY <1>5 DEF PInv

\* When the helper in use closes its connection, it does not run any more, or is lost.
LEMMA CloseProc ==
  ASSUME IInv, IInv', CycleInv, CycleInv', BornInv, BornInv', ProcInv, ~stale', NEW c \in Conn, OnClose(c)
  PROVE  PInv'
<1>1. /\ TypeOK /\ conn[c] \in {"dying", "destroyed"} /\ Running
      /\ conn' = [conn EXCEPT ![c] = "closed"] /\ armed' = armed \ {c}
      /\ UNCHANGED <<rpc, peer, bootVars, procVars, fileVars, downVars, userVars>>
  BY DEF IInv, OnClose
<1>2. \A d \in Conn : conn'[d] = "dying" => conn[d] = "dying"
  BY <1>1 DEF TypeOK
<1>3. Ours' = Ours /\ quit' # "exited"
  BY <1>1 DEF Ours, procVars, userVars, Running
<1>4. CASE UNCHANGED <<state, proc>>
  <2>1. ProcInv'
    BY <1>1, <1>2, <1>3, <1>4 DEF ProcInv, bootVars, fileVars, downVars
  <2> QED
    BY <2>1 DEF PInv
<1>5. CASE c \in armed /\ ~asked /\ proc' = None /\ conn[c] = "dying"
  <2>1. c = rpc /\ state = "ready" /\ shutdown = "none"
    BY <1>5 DEF CycleInv, ShutdownInv, SocketInv, Live
  <2>2. Ours \subseteq {None}
    BY <1>5, <2>1 DEF ProcInv
  <2>3. Ours' = {}
    BY <1>1, <1>3, <2>2, NoProcNoHelper
  <2>4. \A d \in Slot : boot'[d].pc = "none"
    BY <1>1, <2>1, NoBootType DEF CycleInv, BootInv, Booting, bootVars
  <2>5. shutdown' = "none"
    BY <1>1, <2>1 DEF downVars
  <2>6. ProcInv'
    BY <1>3, <1>5, <2>3, <2>4, <2>5 DEF ProcInv
  <2> QED
    BY <2>6 DEF PInv
<1> QED
  BY <1>1, <1>4, <1>5 DEF OnClose

\* doShutdown holds the process it has to kill.
LEMMA DownProc ==
  ASSUME IInv, IInv', CycleInv, CycleInv', BornInv', ProcInv,
         \/ UNCHANGED <<state, shutdown, held>>
         \/ shutdown' = "boot" /\ UNCHANGED state
         \/ TakesDown /\ \A b \in Slot : boot[b] = NoBoot,
         quit' \in {"waiting", quit}, UNCHANGED <<bootVars, proc, rpc, connVars, procVars, fileVars>>
  PROVE  PInv'
<1>1. Ours' = Ours
  BY DEF Ours, procVars
<1>2. CASE UNCHANGED <<state, shutdown, held>> \/ (shutdown' = "boot" /\ UNCHANGED state)
  <2>1. ProcInv'
    BY <1>1, <1>2 DEF ProcInv, bootVars, connVars, fileVars
  <2> QED
    BY <2>1 DEF PInv
<1>3. CASE TakesDown /\ \A b \in Slot : boot[b] = NoBoot
  <2>1. \A b \in Slot : boot'[b].pc = "none"
    BY <1>3, NoBootType DEF bootVars
  <2>2. proc' = None \/ state' = "shuttingDown"
    BY <1>3 DEF ProcInv, TakesDown
  <2>3. shutdown' \in {"rpc", "kill"} => held'.proc = proc'
    BY <1>3 DEF TakesDown
  <2>4. quit' = "exited" => Ours' = {}
    BY <1>1 DEF ProcInv
  <2>5. ProcInv'
    BY <1>1, <2>1, <2>2, <2>3, <2>4 DEF ProcInv, connVars
  <2> QED
    BY <2>5 DEF PInv
<1> QED
  BY <1>2, <1>3

\* The same for a call of shutdown().
LEMMA CallProc ==
  ASSUME IInv, IInv', CycleInv, CycleInv', BornInv', ProcInv, CallShutdown, quit' \in {"waiting", quit},
         UNCHANGED <<bootVars, proc, rpc, connVars, procVars, fileVars>>
  PROVE  PInv'
<1>1. runningBoot = None => \A b \in Slot : boot[b] = NoBoot
  BY DEF CycleInv, BootInv, Booting, None, Slot
<1> QED
  BY <1>1, CallGives, DownProc DEF IInv

\* The same when the boot it waited for is over.
LEMMA AfterBootProc ==
  ASSUME IInv, IInv', CycleInv, CycleInv', BornInv', ProcInv, ShutdownAfterBoot
  PROVE  PInv'
<1>1. \A b \in Slot : boot[b] = NoBoot
  BY DEF ShutdownAfterBoot, CycleInv, ShutdownInv, Booting
<1>2. TakesDown
  BY TakeDownGives DEF IInv, ShutdownAfterBoot
<1> QED
  BY <1>1, <1>2, DownProc DEF ShutdownAfterBoot, userVars

\* What engine.shutdown ends is gone together with its sockets.
LEMMA ShutdownRpcProc ==
  ASSUME IInv, IInv', CycleInv, CycleInv', BornInv', ProcInv, ShutdownRpc
  PROVE  PInv'
<1>1. /\ TypeOK /\ shutdown = "rpc" /\ shutdown' = "kill" /\ Running
      /\ alive' \subseteq alive
      /\ UNCHANGED <<state, held, bootVars, proc, peer, lost, userVars>>
  BY DEF IInv, ShutdownRpc
<1>2. Waning(conn', alive \ alive')
  <2> DEFINE cs == Orphaned(alive \ alive', conn)
  <2>1. conn \in [Conn -> ConnStates] /\ held.rpc \in Conn \union {None}
    BY <1>1 DEF TypeOK, ConnStates
  <2>2. /\ cs \in [Conn -> ConnStates]
        /\ \A d \in Conn : \/ cs[d] = conn[d]
                           \/ conn[d] = "open" /\ peer[d] \in alive \ alive' /\ cs[d] = "dying"
    BY <2>1, OrphanedGives
  <2>3. conn' = Destroy(held.rpc, cs)
    BY DEF ShutdownRpc
  <2> HIDE DEF cs
  <2>4. /\ conn' \in [Conn -> ConnStates]
        /\ \A d \in Conn : \/ conn'[d] = cs[d] /\ (d = held.rpc => cs[d] \notin {"open", "dying"})
                           \/ d = held.rpc /\ cs[d] \in {"open", "dying"} /\ conn'[d] = "destroyed"
    BY <2>1, <2>2, <2>3, DestroyGives
  <2>5. \A d \in Conn : cs[d] \in {"open", "dying"} => Live(d)
    BY <2>2 DEF Live
  <2> QED
    BY <2>2, <2>4, <2>5 DEF Waning
<1>3. Ours' \subseteq Ours \ (alive \ alive') /\ quit' # "exited"
  BY <1>1 DEF Ours, userVars, Running
<1>4. \A c \in Conn : conn'[c] = "dying" => peer'[c] \notin Ours'
  BY <1>1, <1>2, <1>3, DeathKeeps
<1>5. state' = "shuttingDown" /\ \A b \in Slot : boot'[b].pc = "none"
  BY <1>1, NoBootType DEF CycleInv, ShutdownInv, BootInv, Booting, bootVars
<1>6. held'.proc = proc' /\ Ours' \subseteq {proc'}
  BY <1>1, <1>3 DEF ProcInv
<1>7. ProcInv'
  BY <1>3, <1>4, <1>5, <1>6 DEF ProcInv
<1> QED
  BY <1>7 DEF PInv

\* killWithEscalation leaves nothing of ours.
LEMMA ShutdownKillProc ==
  ASSUME IInv, IInv', CycleInv, CycleInv', BornInv', ProcInv, ShutdownKill
  PROVE  PInv'
<1>1. /\ TypeOK /\ shutdown = "kill" /\ alive' = alive \ {held.proc} /\ proc' = None
      /\ state' = "idle" /\ shutdown' = "done" /\ Running /\ UNCHANGED <<bootVars, lost, userVars>>
  BY DEF IInv, ShutdownKill, KillWithEscalation
<1>2. Ours' = {}
  BY <1>1 DEF ProcInv, Ours
<1>3. \A b \in Slot : boot'[b].pc = "none"
  BY <1>1, NoBootType DEF CycleInv, BootInv, Booting, bootVars
<1>4. ProcInv'
  BY <1>1, <1>2, <1>3 DEF ProcInv
<1> QED
  BY <1>4 DEF PInv

\* The program exits when the supervisor is idle.
LEMMA ExitProc ==
  ASSUME IInv, IInv', CycleInv, CycleInv', BornInv', ProcInv, Exit
  PROVE  PInv'
<1>1. /\ TypeOK /\ (quit' = "exited" => shutdown = "done")
      /\ UNCHANGED <<state, downVars, bootVars, proc, rpc, connVars, procVars, fileVars>>
  BY DEF IInv, Exit
<1>2. Ours' = Ours
  BY <1>1 DEF Ours, procVars
<1>3. shutdown = "done" => Ours = {}
  BY NoProcNoHelper DEF IInv, CycleInv, ShutdownInv, ProcInv
<1>4. UNCHANGED <<state, shutdown, held, boot, proc, rpc, conn, peer, sockFile>>
  BY <1>1 DEF downVars, bootVars, connVars, fileVars
<1>5. quit' = "exited" => Ours' = {}
  BY <1>1, <1>2, <1>3
<1>6. ProcInv'
  BY <1>2, <1>4, <1>5 DEF ProcInv
<1> QED
  BY <1>6 DEF PInv

\* A helper that dies, or is lost, is not ours any more.
LEMMA FailsProc ==
  ASSUME IInv, IInv', CycleInv, CycleInv', BornInv', ProcInv, NEW h \in Proc, HelperFails(h)
  PROVE  PInv'
<1>1. /\ TypeOK /\ conn' = Orphaned({h}, conn) /\ Running
      /\ UNCHANGED <<state, downVars, bootVars, proc, rpc, peer, fileVars, userVars>>
  BY DEF IInv, HelperFails
<1>2. Ours' \subseteq Ours \ {h} /\ quit' # "exited"
  BY <1>1 DEF HelperFails, Ours, userVars, Running
<1>3. Waning(conn', {h})
  <2>1. conn \in [Conn -> ConnStates]
    BY <1>1 DEF TypeOK, ConnStates
  <2> QED
    BY <1>1, <2>1, OrphanedGives DEF Waning
<1>4. \A c \in Conn : conn'[c] = "dying" => peer'[c] \notin Ours'
  BY <1>1, <1>2, <1>3, DeathKeeps
<1>5. ProcInv'
  BY <1>1, <1>2, <1>4 DEF ProcInv, downVars, bootVars, fileVars
<1> QED
  BY <1>5 DEF PInv

(* NoStrayHelper is inductive, with the invariant above. *)
THEOREM ProcInductive == Spec => [](IInv /\ PInv)
<1>1. Init => PInv
  <2> SUFFICES ASSUME Init PROVE PInv
    OBVIOUS
  <2>1. BornInv
    BY DEF Init, BornInv, Started
  <2>2. Ours = {} /\ \A b \in Slot : boot[b].pc = "none"
    BY NoBootType DEF Init, Ours
  <2>3. ProcInv
    BY <2>2 DEF Init, ProcInv
  <2> QED
    BY <2>1, <2>3 DEF PInv
<1>2. IInv /\ IInv' /\ PInv /\ [Next]_vars => PInv'
  <2> SUFFICES ASSUME IInv, IInv', PInv, [Next]_vars PROVE PInv'
    OBVIOUS
  <2>1. BornInv /\ BornInv'
    BY BornStep DEF PInv
  <2>2. CASE stale'
    BY <2>1, <2>2 DEF PInv
  <2>3. CASE ~stale'
    <3>1. ~stale
      <4>1. CASE stale' = stale
        BY <2>3, <4>1
      <4>2. ASSUME NEW c \in Conn, OnClose(c) PROVE ~stale
        BY <2>3, <4>2 DEF OnClose
      <4> QED
        BY <4>1, <4>2 DEF Next, vars
    <3>2. CycleInv /\ CycleInv' /\ ProcInv
      BY <2>3, <3>1 DEF IInv, PInv
    <3>3. ASSUME NEW b \in Slot, BootStep(b) PROVE PInv'
      <4>1. CASE BootRefused(b)
        <5>1. boot[b] # NoBoot /\ Running /\ UNCHANGED <<born, lost, quit, shutdown>>
          BY <4>1, NoBootType DEF BootRefused, userVars, downVars
        <5> QED
          BY <2>1, <3>2, <4>1, <5>1, FailProc DEF BootRefused
      <4> QED
        BY <2>1, <3>2, <3>3, <4>1, AdoptProc, SpawnProc, ConnectProc, ReadyProc DEF BootStep
    <3>4. ASSUME NEW c \in Conn, OnClose(c) PROVE PInv'
      BY <2>1, <2>3, <3>2, <3>4, CloseProc
    <3>5. ASSUME NEW h \in Proc, HelperFails(h) PROVE PInv'
      BY <2>1, <3>2, <3>5, FailsProc
    <3>6. CASE Start \/ RestartTimer \/ RestartResumes
      <4>1. \/ \E b \in Slot : /\ boot[b] = NoBoot /\ BootAt(b, "adopt", FALSE, None)
                               /\ runningBoot' = b /\ state' = "starting"
            \/ state' \in {"unavailable", state} /\ UNCHANGED bootVars
        BY <3>6, CycleGives DEF Start, RestartTimer, RestartResumes, IInv
      <4>2. state \in {"idle", "restarting"} /\ shutdown' \in {"none", "boot"}
        BY <3>2, <3>6
        DEF Start, RestartTimer, RestartResumes, CycleInv, ShutdownInv, TimerInv, downVars
      <4>3. Running /\ quit' \in {"overtaken", quit} /\ UNCHANGED <<proc, rpc, connVars, procVars, fileVars>>
        BY <3>6 DEF Start, RestartTimer, RestartResumes, userVars
      <4> QED
        BY <2>1, <3>2, <4>1, <4>2, <4>3, BeginProc
    <3>7. CASE Restart \/ Quit
      BY <2>1, <3>2, <3>7, CallProc DEF Restart, Quit
    <3>8. CASE WindowPasses \/ UNCHANGED vars
      <4>1. UNCHANGED <<state, shutdown, held, quit, bootVars, proc, rpc, connVars, procVars, fileVars>>
        BY <3>8 DEF WindowPasses, vars, downVars, userVars
      <4> QED
        BY <2>1, <3>2, <4>1, DownProc
    <3>9. CASE ShutdownAfterBoot \/ ShutdownRpc \/ ShutdownKill \/ Exit
      BY <2>1, <3>2, <3>9, AfterBootProc, ShutdownRpcProc, ShutdownKillProc, ExitProc
    <3> QED
      BY <3>3, <3>4, <3>5, <3>6, <3>7, <3>8, <3>9 DEF Next
  <2> QED
    BY <2>2, <2>3
<1> QED
  BY <1>1, <1>2, Inductive, PTL DEF Spec

----------------------------------------------------------------------------
(* Every field has its type; a socket of the supervisor was opened by a boot. *)
THEOREM TypeCorrect == Spec => []TypeOK
<1>1. IInv => TypeOK
  BY DEF IInv
<1> QED
  BY <1>1, Inductive, PTL

(* One recovery at a time, until a late close event is taken for a crash: never two *)
(* boots under way, and no timer outside of "restarting".                           *)
THEOREM OneCycle == Spec => []SingleCycle
<1>1. IInv => SingleCycle
  BY NoBootType DEF IInv, SingleCycle, CycleInv, BootInv, TimerInv, Booting, Slot
<1> QED
  BY <1>1, Inductive, PTL

(* A helper shown as ready is watched. *)
THEOREM ReadyIsWatched == Spec => []ReadyListens
<1>1. IInv => ReadyListens
  BY DEF IInv, ReadyListens, CycleInv, SocketInv
<1> QED
  BY <1>1, Inductive, PTL

(* No helper is forgotten, and none of ours runs after the exit. *)
THEOREM NoneForgotten == Spec => []NoStrayHelper
<1>1. PInv => NoStrayHelper
  BY DEF PInv, ProcInv, NoStrayHelper, Ours
<1> QED
  BY <1>1, ProcInductive, PTL
=============================================================================
