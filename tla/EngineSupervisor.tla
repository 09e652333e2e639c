-------------------------- MODULE EngineSupervisor --------------------------
(***************************************************************************)
(* The Electron main process owns the native helper: it boots, watches,    *)
(* restarts and shuts it down (src/electron/engine-supervisor.ts) and      *)
(* speaks to it over one socket per boot (src/electron/engine-rpc.ts).     *)
(* Every await of the code is a step boundary here, so a boot, the backoff *)
(* timer, a shutdown, restarts by the user, the quit of the application    *)
(* and the close events of sockets interleave as they do in Node.          *)
(***************************************************************************)
EXTENDS Integers, FiniteSets

CONSTANTS MaxSpawn,     \* bound: processes the supervisor starts
          MaxConn,      \* bound: sockets it opens
          MaxRestarts,  \* bound: clicks on "restart engine"
          MaxFaults,    \* bound: deaths of a helper that nobody asked for
          MaxFailures   \* MAX_FAILURES: failures in the window before giving up

ASSUME BoundsAssumption ==
  /\ MaxSpawn \in Nat /\ MaxConn \in Nat /\ MaxRestarts \in Nat
  /\ MaxFaults \in Nat /\ MaxFailures \in Nat \ {0}

None    == 0
Foreign == -1                \* a helper that a former run of the program has left
Helper  == 1..MaxSpawn
Proc    == {Foreign} \union Helper
Conn    == 1..MaxConn
Slot    == 1..2              \* bound: boots that may be under way together
States  == {"idle", "starting", "ready", "restarting", "shuttingDown", "unavailable"}
NoBoot  == [pc |-> "none", by |-> "start", adopted |-> FALSE, conn |-> None]
NothingHeld == [boot |-> None, rpc |-> None, proc |-> None]
Boots   == [pc : {"none", "adopt", "spawn", "connect", "handshake"},
            by : {"start", "timer"}, adopted : BOOLEAN, conn : Conn \union {None}]

VARIABLES
  state,        \* SupervisorState
  asked,        \* shutdownRequested
  shutdown,     \* where doShutdown stands; "none": shutdownPromise is null
  held,         \* the boot, the rpc and the proc that doShutdown read before its awaits
  boot,         \* the executions of doBoot, by slot
  runningBoot,  \* the slot that runningBoot stands for
  timer,        \* restartTimer is armed
  failures,     \* failureTimestamps within the window
  proc, rpc,    \* this.proc and this._rpc
  conn,         \* sockets: unused, open, dying (peer gone), destroyed (by us), closed
  peer,         \* the process behind a socket
  armed,        \* sockets whose once("disconnect") handler waits
  alive, born,  \* processes that run; how many were spawned
  pidFile, sockFile,  \* the process each file belongs to
  restarts,     \* calls of restart() await the shutdown
  clicks, faults,     \* bounded counters
  quit,         \* before-quit: no, waiting for the shutdown, overtaken by a restart; then
                \* how the program ended: exited, timed out, gone (after being overtaken)
  stale,        \* history: a socket we destroyed was taken for a crash
  lost          \* history: helpers that outlived the socket we had to them

bootVars == <<boot, runningBoot>>
backVars == <<timer, failures>>
connVars == <<conn, peer, armed>>
procVars == <<alive, born, faults, lost>>
fileVars == <<pidFile, sockFile>>
downVars == <<asked, shutdown, held>>
userVars == <<restarts, clicks, quit>>
vars == <<state, downVars, bootVars, backVars, proc, rpc, connVars, procVars, fileVars,
          userVars, stale>>

Init ==
  /\ state = "idle" /\ asked = FALSE /\ shutdown = "none"
  /\ held = NothingHeld
  /\ boot = [b \in Slot |-> NoBoot] /\ runningBoot = None
  /\ timer = FALSE /\ failures = 0
  /\ proc = None /\ rpc = None
  /\ conn = [c \in Conn |-> "unused"] /\ peer = [c \in Conn |-> None] /\ armed = {}
  /\ born = 0 /\ faults = 0
  /\ \/ alive = {} /\ pidFile = None /\ sockFile = None
     \/ alive \in {{}, {Foreign}} /\ pidFile = Foreign /\ sockFile = Foreign
  /\ restarts = FALSE /\ clicks = 0 /\ quit = "no" /\ stale = FALSE /\ lost = {}

Running == quit \notin {"exited", "timed out", "gone"}

(* EngineRpc.disconnect: the socket is destroyed, its close event is still due. *)
Destroy(c, cs) ==
  IF c # None /\ cs[c] \in {"open", "dying"} THEN [cs EXCEPT ![c] = "destroyed"] ELSE cs

(* killWithEscalation: SIGTERM after 5 s, SIGKILL after 7 s, for a process of our own. *)
KillWithEscalation(p) == alive \ {p}

(* The sockets of processes that end are about to close. *)
Orphaned(dead, cs) ==
  [c \in Conn |-> IF cs[c] = "open" /\ peer[c] \in dead THEN "dying" ELSE cs[c]]

----------------------------------------------------------------------------
(* Restart policy *)

(* The codes of the errors that a restart would not mend, and where they come from. *)
Structural        == {"sha256-mismatch", "protocol-mismatch", "missing-dependency"}
DependencyErrors  == {"missing-dependency"}
Sha256Errors      == {"sha256-mismatch", "no code"}
SocketDirErrors   == {"no code"}
SpawnHelperErrors == {"no code"}
SpawnErrors       == Sha256Errors \union SocketDirErrors \union SpawnHelperErrors
HandshakeErrors   == {"protocol-mismatch", "no code"}

ScheduleRestart_NeverGivesUp ==
  IF asked THEN UNCHANGED <<state, backVars>>
  ELSE failures' = failures + 1 /\ state' = "restarting" /\ timer' = TRUE

(* scheduleRestart: give up at MaxFailures within the window, else back off. *)
ScheduleRestart ==
  IF asked THEN UNCHANGED <<state, backVars>>
  ELSE IF failures + 1 >= MaxFailures
       THEN failures' = MaxFailures /\ state' = "unavailable" /\ UNCHANGED timer
       ELSE failures' = failures + 1 /\ state' = "restarting" /\ timer' = TRUE

(* Failures leave the window of 60 s. The boots of a row of failures, at most two *)
(* connects and two handshakes of 5 s and a delay of 2 s each, all fit in it.     *)
WindowPasses ==
  /\ Running /\ state \in {"ready", "unavailable"} /\ ~timer
  /\ \E recent \in 0..(failures - 1) : failures' = recent
  /\ UNCHANGED <<state, downVars, bootVars, timer, proc, rpc, connVars, procVars, fileVars,
                 userVars>>

(* bootCycle up to the first await of doBoot; a missing dependency throws at once. *)
BootCycle(by) ==
  \/ \E b \in Slot :
       /\ boot[b] = NoBoot /\ \A d \in 1..(b - 1) : boot[d] # NoBoot
       /\ boot' = [boot EXCEPT ![b] = [NoBoot EXCEPT !.pc = "adopt", !.by = by]]
       /\ runningBoot' = b
       /\ state' = "starting"
  \/ \E code \in DependencyErrors :
       code \in Structural /\ state' = "unavailable" /\ UNCHANGED bootVars

(* The finally of bootCycle clears runningBoot, also when it stands for another boot. *)
BootEnds(b) == boot' = [boot EXCEPT ![b] = NoBoot] /\ runningBoot' = None

BootThrows_NoRetry(b, code) ==
  /\ BootEnds(b)
  /\ IF boot[b].by = "start" \/ code \in Structural THEN state' = "unavailable" ELSE UNCHANGED state
  /\ UNCHANGED backVars

(* What start() and the timer do when the boot they began throws. *)
BootThrows(b, code) ==
  /\ BootEnds(b)
  /\ IF boot[b].by = "start" \/ code \in Structural
     THEN state' = "unavailable" /\ UNCHANGED backVars
     ELSE ScheduleRestart

RestartTimer ==
  /\ Running /\ timer
  /\ timer' = FALSE
  /\ IF asked THEN UNCHANGED <<state, bootVars>> ELSE BootCycle("timer")
  /\ UNCHANGED <<failures, proc, rpc, connVars, procVars, fileVars, downVars, userVars>>

----------------------------------------------------------------------------
(* Boot *)

(* adoptOrSpawn reads the PID file: the live process of this user is adopted, the *)
(* one of another user refused, the files of a dead one removed.                  *)
BootAdopt(b) ==
  /\ Running /\ boot[b].pc = "adopt"
  /\ \/ /\ pidFile \in alive /\ asked
        /\ BootEnds(b)
        /\ UNCHANGED <<state, backVars, proc, fileVars>>
     \/ /\ pidFile \in alive /\ ~asked
        /\ boot' = [boot EXCEPT ![b].pc = "connect", ![b].adopted = TRUE]
        /\ proc' = None
        /\ UNCHANGED <<state, backVars, runningBoot, fileVars>>
     \/ /\ pidFile \in alive /\ pidFile = Foreign
        /\ BootThrows(b, "no code")
        /\ UNCHANGED <<proc, fileVars>>
     \/ /\ pidFile \notin alive
        /\ boot' = [boot EXCEPT ![b].pc = "spawn", ![b].adopted = FALSE]
        /\ IF pidFile = None THEN UNCHANGED fileVars ELSE pidFile' = None /\ sockFile' = None
        /\ UNCHANGED <<state, backVars, runningBoot, proc>>
  /\ UNCHANGED <<rpc, connVars, procVars, downVars, userVars>>

BootSpawn_LeavesItRunning(b) ==
  /\ Running /\ boot[b].pc = "spawn" /\ born < MaxSpawn
  /\ born' = born + 1 /\ pidFile' = born' /\ sockFile' = born'
  /\ alive' = alive \union {born'}
  /\ IF asked
     THEN BootEnds(b) /\ UNCHANGED proc
     ELSE proc' = born' /\ boot' = [boot EXCEPT ![b].pc = "connect"] /\ UNCHANGED runningBoot
  /\ UNCHANGED <<state, backVars, rpc, connVars, faults, lost, downVars, userVars>>

(* spawnFresh: the checksum or the spawn fails, or the process runs, its PID file is *)
(* written and it binds the socket; a shutdown asked for meanwhile kills it at once. *)
BootSpawn(b) ==
  /\ Running /\ boot[b].pc = "spawn"
  /\ \/ /\ \E code \in SpawnErrors : BootThrows(b, code)
        /\ UNCHANGED <<proc, alive, born, fileVars>>
     \/ /\ born < MaxSpawn
        /\ born' = born + 1
        /\ pidFile' = born' /\ sockFile' = born'
        /\ IF asked
           THEN BootEnds(b) /\ UNCHANGED <<proc, alive>>
           ELSE /\ proc' = born'
                /\ alive' = alive \union {born'}
                /\ boot' = [boot EXCEPT ![b].pc = "connect"]
                /\ UNCHANGED runningBoot
        /\ UNCHANGED <<state, backVars>>
  /\ UNCHANGED <<rpc, connVars, faults, lost, downVars, userVars>>

CleanupFailedBoot ==
  /\ alive' = alive \ {proc}
  /\ proc' = None /\ rpc' = None
  /\ conn' = Orphaned({proc}, Destroy(rpc, conn))

(* connectAndVerify threw: cleanupFailedBoot, then a spawn in place of a helper that *)
(* was adopted and is gone, else the error.                                          *)
BootFails(b, code) ==
  /\ CleanupFailedBoot
  /\ \/ asked /\ BootEnds(b) /\ UNCHANGED <<state, backVars, fileVars>>
     \/ /\ ~asked
        /\ ~boot[b].adopted \/ pidFile \in alive'
        /\ BootThrows(b, code)
        /\ UNCHANGED fileVars
     \/ /\ ~asked /\ boot[b].adopted /\ pidFile \notin alive'
        /\ pidFile' = None /\ sockFile' = None
        /\ boot' = [boot EXCEPT ![b].pc = "spawn", ![b].adopted = FALSE, ![b].conn = None]
        /\ UNCHANGED <<state, backVars, runningBoot>>
  /\ UNCHANGED <<peer, armed>>

(* connectWithRetry: a new EngineRpc reaches the process on the socket, or 5 s pass. *)
BootConnect(b) ==
  /\ Running /\ boot[b].pc = "connect"
  /\ \/ /\ sockFile \in alive
        /\ \E c \in Conn :
             /\ conn[c] = "unused" /\ \A d \in 1..(c - 1) : conn[d] # "unused"
             /\ conn' = [conn EXCEPT ![c] = "open"]
             /\ peer' = [peer EXCEPT ![c] = sockFile]
             /\ rpc' = c
             /\ boot' = [boot EXCEPT ![b].pc = "handshake", ![b].conn = c]
        /\ UNCHANGED <<state, armed, runningBoot, backVars, proc, alive, fileVars>>
     \/ BootFails(b, "no code")
  /\ UNCHANGED <<born, faults, lost, downVars, userVars>>

BootReady_Unwatched(b) ==
  /\ Running /\ boot[b].pc = "handshake" /\ conn[boot[b].conn] = "open"
  /\ state' = "ready" /\ BootEnds(b)
  /\ UNCHANGED <<backVars, proc, rpc, connVars, procVars, fileVars, downVars, userVars>>

(* engine.version answers with the right protocol: only now a disconnect counts. *)
BootReady(b) ==
  /\ Running /\ boot[b].pc = "handshake" /\ conn[boot[b].conn] = "open"
  /\ armed' = armed \union {boot[b].conn}
  /\ state' = "ready"
  /\ BootEnds(b)
  /\ UNCHANGED <<backVars, proc, rpc, conn, peer, procVars, fileVars, downVars, userVars>>

(* It names another protocol, is rejected, or does not come within 5 s. *)
BootRefused(b) ==
  /\ Running /\ boot[b].pc = "handshake"
  /\ \E code \in HandshakeErrors : BootFails(b, code)
  /\ UNCHANGED <<born, faults, lost, downVars, userVars>>

(* The close event of a socket: EngineRpc emits "disconnect", the supervisor takes *)
(* it for a crash unless it is shutting down.                                      *)
OnClose(c) ==
  /\ Running /\ conn[c] \in {"dying", "destroyed"}
  /\ conn' = [conn EXCEPT ![c] = "closed"]
  /\ armed' = armed \ {c}
  /\ IF c \in armed /\ ~asked /\ state # "shuttingDown"
     THEN /\ proc' = None /\ ScheduleRestart
          /\ stale' = (stale \/ conn[c] = "destroyed")
     ELSE UNCHANGED <<state, backVars, proc, stale>>
  /\ UNCHANGED <<rpc, peer, bootVars, procVars, fileVars, downVars, userVars>>

----------------------------------------------------------------------------
(* Shutdown, restart and quit *)

(* doShutdown from the settled boot to its first await. *)
TakeDown ==
  IF state = "idle"
  THEN shutdown' = "done" /\ UNCHANGED <<state, held>>
  ELSE /\ state' = "shuttingDown"
       /\ held' = [held EXCEPT !.rpc = rpc, !.proc = proc]
       /\ shutdown' = IF rpc # None /\ conn[rpc] \in {"open", "dying"} THEN "rpc" ELSE "kill"

(* shutdown(): one promise, shared by every caller until restart() drops it. *)
CallShutdown ==
  /\ asked' = TRUE
  /\ IF shutdown # "none" THEN UNCHANGED <<state, shutdown, held>>
     ELSE IF runningBoot # None
          THEN shutdown' = "boot" /\ held' = [held EXCEPT !.boot = runningBoot] /\ UNCHANGED state
          ELSE TakeDown

ShutdownAfterBoot ==
  /\ Running /\ shutdown = "boot" /\ boot[held.boot] = NoBoot
  /\ TakeDown
  /\ UNCHANGED <<asked, bootVars, backVars, proc, rpc, connVars, procVars, fileVars, userVars>>

(* engine.shutdown answers and the helper ends, or 3 s pass and it runs on. *)
ShutdownRpc ==
  /\ Running /\ shutdown = "rpc"
  /\ \E obeys \in BOOLEAN :
       alive' = IF obeys THEN alive \ {peer[held.rpc]} ELSE alive
  /\ conn' = Destroy(held.rpc, Orphaned(alive \ alive', conn))
  /\ rpc' = None
  /\ shutdown' = "kill"
  /\ UNCHANGED <<state, asked, held, bootVars, backVars, proc, peer, armed, born, faults, lost,
                 fileVars, userVars>>

(* killWithEscalation ends only a process of our own; then the files are removed. *)
ShutdownKill ==
  /\ Running /\ shutdown = "kill"
  /\ alive' = KillWithEscalation(held.proc)
  /\ conn' = Orphaned({held.proc}, conn)
  /\ pidFile' = None /\ sockFile' = None /\ proc' = None
  /\ state' = "idle" /\ shutdown' = "done" /\ held' = NothingHeld
  /\ UNCHANGED <<asked, bootVars, backVars, rpc, peer, armed, born, faults, lost, userVars>>

Restart_KeepsTimer ==
  /\ Running /\ clicks < MaxRestarts
  /\ clicks' = clicks + 1 /\ restarts' = TRUE
  /\ CallShutdown
  /\ UNCHANGED <<timer, failures, bootVars, proc, rpc, connVars, procVars, fileVars, quit>>

(* restart(): clears the backoff timer and waits for the shutdown. *)
Restart ==
  /\ Running /\ clicks < MaxRestarts
  /\ clicks' = clicks + 1
  /\ restarts' = TRUE
  /\ timer' = FALSE
  /\ CallShutdown
  /\ UNCHANGED <<failures, bootVars, proc, rpc, connVars, procVars, fileVars, quit>>

(* Every waiting restart() goes on when the shutdown is done: the flags are reset *)
(* and the first of them starts the helper, start() being a no-op for the others. *)
RestartResumes ==
  /\ Running /\ shutdown = "done" /\ restarts
  /\ restarts' = FALSE
  /\ asked' = FALSE /\ shutdown' = "none"
  /\ IF state = "idle" THEN BootCycle("start") ELSE UNCHANGED <<state, bootVars>>
  /\ quit' = IF quit = "waiting" THEN "overtaken" ELSE quit
  /\ UNCHANGED <<held, backVars, proc, rpc, connVars, procVars, fileVars, clicks>>

(* start() at launch. *)
Start ==
  /\ Running /\ state = "idle" /\ clicks = 0 /\ ~asked /\ shutdown = "none"
  /\ BootCycle("start")
  /\ UNCHANGED <<backVars, proc, rpc, connVars, procVars, fileVars, downVars, userVars>>

(* before-quit: a second one finds helperShutdownPromise and waits with the first. *)
Quit ==
  /\ quit = "no"
  /\ quit' = "waiting"
  /\ CallShutdown
  /\ timer' = (timer /\ shutdown # "none")
  /\ UNCHANGED <<failures, bootVars, proc, rpc, connVars, procVars, fileVars, restarts, clicks>>

(* The race of before-quit ends: the shutdown it waits for is done, or 15 s are over. *)
(* A restart() that waited for the same shutdown goes on before it.                  *)
Exit ==
  /\ \/ quit = "waiting" /\ shutdown = "done" /\ ~restarts /\ quit' = "exited"
     \/ quit = "waiting" /\ shutdown # "done" /\ quit' = "timed out"
     \/ quit = "overtaken" /\ quit' = "gone"
  /\ UNCHANGED <<state, downVars, bootVars, backVars, proc, rpc, connVars, procVars, fileVars,
                 restarts, clicks>>

(* A helper dies, or closes the connection and runs on, without being asked. *)
HelperFails(h) ==
  /\ Running /\ h \in alive /\ faults < MaxFaults
  /\ faults' = faults + 1
  /\ \/ alive' = alive \ {h} /\ UNCHANGED lost
     \/ /\ \E c \in Conn : conn[c] = "open" /\ peer[c] = h
        /\ lost' = lost \union {h} /\ UNCHANGED alive
  /\ conn' = Orphaned({h}, conn)
  /\ UNCHANGED <<state, downVars, bootVars, backVars, proc, rpc, peer, armed, born, fileVars,
                 userVars>>

BootStep(b) == BootAdopt(b) \/ BootSpawn(b) \/ BootConnect(b) \/ BootReady(b) \/ BootRefused(b)

Next ==
  \/ \E c \in Conn : OnClose(c)
  \/ /\ UNCHANGED stale
     /\ \/ Start \/ RestartTimer \/ WindowPasses \/ Restart \/ RestartResumes
        \/ \E b \in Slot : BootStep(b)
        \/ ShutdownAfterBoot \/ ShutdownRpc \/ ShutdownKill
        \/ Quit \/ Exit
        \/ \E h \in Proc : HelperFails(h)

Spec == Init /\ [][Next]_vars
FairSpec ==
  /\ Spec
  /\ \A b \in Slot : WF_vars(BootStep(b) /\ UNCHANGED stale)
  /\ \A c \in Conn : WF_vars(OnClose(c))
  /\ WF_vars((RestartTimer \/ RestartResumes) /\ UNCHANGED stale)
  /\ WF_vars((ShutdownAfterBoot \/ ShutdownRpc \/ ShutdownKill) /\ UNCHANGED stale)

----------------------------------------------------------------------------
(* Every field has its type; a socket of the supervisor was opened by a boot. *)
TypeOK ==
  /\ state \in States /\ asked \in BOOLEAN /\ timer \in BOOLEAN /\ stale \in BOOLEAN
  /\ shutdown \in {"none", "boot", "rpc", "kill", "done"}
  /\ held \in [boot : Slot \union {None}, rpc : Conn \union {None}, proc : Helper \union {None}]
  /\ boot \in [Slot -> Boots] /\ runningBoot \in Slot \union {None}
  /\ failures \in 0..MaxFailures
  /\ proc \in Helper \union {None}
  /\ rpc \in {None} \union {c \in Conn : conn[c] # "unused"}
  /\ conn \in [Conn -> {"unused", "open", "dying", "destroyed", "closed"}]
  /\ peer \in [Conn -> Proc \union {None}] /\ armed \subseteq Conn
  /\ alive \subseteq Proc /\ born \in 0..MaxSpawn /\ lost \subseteq Proc
  /\ pidFile \in Proc \union {None} /\ sockFile \in Proc \union {None}
  /\ restarts \in BOOLEAN /\ clicks \in 0..MaxRestarts /\ faults \in 0..MaxFaults
  /\ quit \in {"no", "waiting", "overtaken", "exited", "timed out", "gone"}

(* One recovery at a time: never two boots under way, and the backoff timer is armed *)
(* only while the supervisor shows "restarting", so it cannot fire into a boot, a    *)
(* ready helper or a shutdown. The code loses this, and only this way, when restart()*)
(* resets shutdownRequested before the close event of the socket that the shutdown   *)
(* destroyed: that event is then taken for a crash of the helper being booted.       *)
SingleCycle ==
  stale \/ /\ \E b \in Slot : boot[b] = NoBoot
           /\ timer => state = "restarting"

(* A helper shown as ready is watched: its socket, the one requests go to, has its   *)
(* disconnect handler, so its loss will be noticed.                                  *)
ReadyListens == stale \/ (state = "ready" /\ ~asked => rpc \in armed)

(* No helper is forgotten: one that we spawned and that runs is the process that the *)
(* supervisor or its shutdown will kill, or the PID file names it for adoption; once *)
(* the program has exited after its shutdown, none runs. Excepted is a helper that   *)
(* outlived its socket: it is adopted at best, an adopted helper is only asked to    *)
(* end, and a shutdown that finds no connection removes its PID file all the same.   *)
NoStrayHelper ==
  stale \/ LET ours == alive \ (lost \union {Foreign})
           IN  ours \subseteq {proc, held.proc, pidFile} /\ (quit = "exited" => ours = {})

(* No transitional state is final: the helper gets ready, is given up, or stays down *)
(* after a shutdown, whatever the interleaving of boots, failures, restarts and quit.*)
Settles ==
  (Running /\ state \in {"starting", "shuttingDown", "restarting"})
    ~> (~Running \/ state \in {"ready", "unavailable", "idle"})
=============================================================================
