-------------------------- MODULE ValidationRunner --------------------------
(***************************************************************************)
(* The validation harness (src/validation): a suite runs rows one after    *)
(* another. A row starts fixtures (a helper of its own, a load that moves  *)
(* on the screen, a display mode, a snapshot, an export, a directory),     *)
(* speaks to the helper over an RPC client whose every wait has a time     *)
(* out, returns from any step with a report, and undoes its fixtures in    *)
(* its finally block. The helper dies, or does not, when it likes.         *)
(***************************************************************************)
EXTENDS ValidationDrivers, Integers, FiniteSets

CONSTANTS
  MaxRows,  \* bound: rows of a suite that are run here, in its order; others are left out
  MaxLeft   \* bound: what is left of earlier rows when another one begins

ASSUME MaxRowsAssumption == MaxRows \in Nat \ {0}
ASSUME MaxLeftAssumption == MaxLeft \in Nat

Pid == 1..MaxRows   \* the helper of the n-th row that runs

VARIABLES
  kind,         \* the command: "smoke", "rc", or "row" for a single one
  over,         \* the suite: "no", or how it has ended
  n, row,       \* how many rows have begun, and which is the current or the last
  part, pc,     \* where it stands; part is "between" when no row runs
  report,       \* the report's status, "none" before there is one
  local,        \* the driver's variables that its finally block looks at
  alive, told,  \* helpers that run; those that were asked to end
  socks,        \* connections to helpers
  pinned,       \* helpers that hold a snapshot
  exporting, settling,  \* helpers whose export runs; those whose export has sent its
                        \* terminal event but is among the active ones still
  loads, dirs,  \* rows whose load runs, its script or its browser; whose directory is there
  forced,       \* the display is in a mode of ours
  \* history
  deaf, refused, cancelled,   \* helpers of which an answer is missing; which refused a
                              \* release for the sake of an export; which were asked to
                              \* cancel their export and have answered
  lost, unstopped, unremoved  \* a mode that could not be read or set back; rows whose
                              \* load outlived its teardown; whose directory its removal

suiteVars   == <<kind, over, n, row>>
rowVars     == <<part, pc, report>>
heldVars    == <<pinned, exporting, settling>>
answerVars  == <<deaf, refused, cancelled>>
helperVars  == <<alive, told, socks, heldVars, answerVars>>
loadVars    == <<loads, unstopped>>
modeVars    == <<forced, lost>>
dirVars     == <<dirs, unremoved>>
hostVars    == <<loadVars, modeVars, dirVars>>
vars == <<suiteVars, rowVars, local, helperVars, hostVars>>

Local == [base : SUBSET Pid, left : SUBSET Pid, spawned : BOOLEAN, rpc : BOOLEAN, load : BOOLEAN,
          modeset : {"none", "same", "set"}, snapshotId : BOOLEAN, exportId : BOOLEAN,
          dir : BOOLEAN, owned : BOOLEAN]
Fresh == [base |-> {}, left |-> {}, spawned |-> FALSE, rpc |-> FALSE, load |-> FALSE,
          modeset |-> "none", snapshotId |-> FALSE, exportId |-> FALSE, dir |-> FALSE,
          owned |-> FALSE]

Init ==
  /\ kind \in {"smoke", "rc", "row"} /\ over = "no"
  /\ n = 0 /\ row = 0
  /\ part = "between" /\ pc = 1 /\ report = "none"
  /\ local = Fresh
  /\ alive = {} /\ told = {} /\ socks = {}
  /\ pinned = {} /\ exporting = {} /\ settling = {}
  /\ deaf = {} /\ refused = {} /\ cancelled = {}
  /\ loads = {} /\ unstopped = {} /\ dirs = {} /\ unremoved = {}
  /\ forced = FALSE /\ lost = FALSE

Script == CASE part = "body"    -> Rows[row].body
            [] part = "bail"    -> Rows[row].bail
            [] part = "finally" -> Rows[row].finally
            [] part = "caller"  -> Rows[row].caller
            [] part = "cleanup" -> Rows[row].cleanup
            [] OTHER            -> <<>>

At(ops) == part # "between" /\ pc <= Len(Script) /\ Script[pc].op \in ops
s       == Script[pc]

(* How the current step may end. *)
Good       == pc' = pc + 1 /\ UNCHANGED <<part, report>>
Outcome(o) ==
  CASE o = "next" -> Good
    [] o = "bail" -> part' = "bail" /\ pc' = 1 /\ UNCHANGED report
    [] OTHER      -> /\ part' = IF part = "caller" THEN "cleanup" ELSE "finally"
                     /\ pc' = 1 /\ report' = o
Bad        == \E o \in s.bad : Outcome(o)
Throws     == \E o \in s.thrown : Outcome(o)

(* The call reaches the helper of this row and its answer comes back, or not. *)
Answers == local.rpc /\ n \in socks

----------------------------------------------------------------------------
(* runSuite, executeRow *)

Left == Cardinality(alive) + Cardinality(pinned) + Cardinality(exporting \union settling)
        + Cardinality(loads) + Cardinality(dirs)

Begin ==
  /\ part = "between" /\ over = "no"
  /\ n < IF kind = "row" THEN 1 ELSE MaxRows
  /\ Left <= MaxLeft
  /\ n' = n + 1
  /\ row' \in (row + 1)..Len(IF kind = "smoke" THEN SmokeRows ELSE Rows)
  /\ local' = Fresh /\ report' = "none" /\ pc' = 1
  /\ \/ part' = "body" /\ UNCHANGED over
     \/ over' = "aborted" /\ UNCHANGED part   \* no directory for the evidence
  /\ UNCHANGED <<kind, helperVars, hostVars>>

(* A row returns its report; the first red row of a smoke suite is its last. One that  *)
(* throws ends the program.                                                            *)
RowReturns ==
  /\ part' = "between" /\ pc' = 1
  /\ over' = IF report = "aborted" THEN "aborted"
             ELSE IF kind # "rc" /\ report \in {"fail", "error"} THEN "stopped" ELSE over
  /\ UNCHANGED report

Suspend(p) == part' = p /\ pc' = 1 /\ UNCHANGED <<report, over>>

(* A sequence is at its end. *)
PartEnds ==
  /\ part # "between" /\ pc > Len(Script)
  /\ \/ part = "body" /\ Suspend("finally")
     \/ /\ part = "bail" /\ report' = Rows[row].bailAs
        /\ part' = "finally" /\ pc' = 1 /\ UNCHANGED over
     \/ part = "finally" /\ IF report = "none" THEN Suspend("caller") ELSE RowReturns
     \/ part = "cleanup" /\ RowReturns
  /\ UNCHANGED <<kind, n, row, local, helperVars, hostVars>>

SuiteEnds ==
  /\ part = "between" /\ over = "no"
  /\ over' = "done"
  /\ UNCHANGED <<kind, n, row, rowVars, local, helperVars, hostVars>>

----------------------------------------------------------------------------
(* The environment *)

(* It crashes, or ends as it was told; its connections, pins and exports go with it, *)
(* and what was asked of it is of no interest any more.                              *)
HelperExits(i) ==
  /\ i \in alive
  /\ alive' = alive \ {i} /\ told' = told \ {i} /\ socks' = socks \ {i}
  /\ pinned' = pinned \ {i} /\ exporting' = exporting \ {i} /\ settling' = settling \ {i}
  /\ deaf' = deaf \ {i} /\ refused' = refused \ {i} /\ cancelled' = cancelled \ {i}
  /\ UNCHANGED <<suiteVars, rowVars, local, hostVars>>

(* The terminal event, whatever the export's end; then it leaves active_exports. *)
ExportStops(i) ==
  /\ \/ /\ i \in exporting
        /\ exporting' = exporting \ {i} /\ settling' = settling \union {i}
     \/ /\ i \in settling
        /\ settling' = settling \ {i} /\ UNCHANGED exporting
  /\ UNCHANGED <<suiteVars, rowVars, local, alive, told, socks, pinned, answerVars, hostVars>>

LoadEnds(i) ==
  /\ i \in loads
  /\ loads' = loads \ {i} /\ unstopped' = unstopped \ {i}
  /\ UNCHANGED <<suiteVars, rowVars, local, helperVars, modeVars, dirVars>>

(* The compositor goes back to the user's mode. *)
ModeReverts ==
  /\ forced
  /\ forced' = FALSE
  /\ UNCHANGED <<suiteVars, rowVars, local, helperVars, loadVars, lost, dirVars>>

----------------------------------------------------------------------------
(* Steps that change nothing *)

(* Probes, source text, notifications waited for, evidence. *)
Look ==
  /\ At({"look"})
  /\ Good \/ Bad \/ Throws
  /\ UNCHANGED <<suiteVars, local, helperVars, hostVars>>

(* A call of no consequence to the fixtures. *)
Call ==
  /\ At({"call"})
  /\ (Answers /\ (Good \/ Bad)) \/ Throws
  /\ UNCHANGED <<suiteVars, local, helperVars, hostVars>>

(* ffprobe, or the walk over its atoms, of the file that was exported. *)
ReadFile ==
  /\ At({"read"})
  /\ (n \in dirs /\ Good) \/ Bad \/ Throws
  /\ UNCHANGED <<suiteVars, local, helperVars, hostVars>>

(* A row that has counted processes passes only when none is left. *)
Judge ==
  /\ At({"gates"})
  /\ \/ local.left = {} /\ Outcome("pass")
     \/ Bad
     \/ Throws
  /\ UNCHANGED <<suiteVars, local, helperVars, hostVars>>

----------------------------------------------------------------------------
(* The helper process *)

Running(base) == alive \ base

(* pgrepCheck without and with a baseline. *)
Baseline ==
  /\ At({"baseline"})
  /\ \/ Good /\ local' = [local EXCEPT !.base = Running({})]
     \/ Throws /\ UNCHANGED local
  /\ UNCHANGED <<suiteVars, helperVars, hostVars>>

Count ==
  /\ At({"count"})
  /\ \/ Good /\ local' = [local EXCEPT !.left = Running(local.base)]
     \/ Throws /\ UNCHANGED local
  /\ UNCHANGED <<suiteVars, helperVars, hostVars>>

(* No binary, or it dies at once; no socket within 10 s: SIGTERM. *)
Spawn ==
  /\ At({"spawn"})
  /\ \/ Good /\ alive' = alive \union {n} /\ local' = [local EXCEPT !.spawned = TRUE]
        /\ UNCHANGED told
     \/ Throws /\ UNCHANGED <<alive, told, local>>
     \/ Throws /\ alive' = alive \union {n} /\ told' = told \union {n} /\ UNCHANGED local
  /\ UNCHANGED <<suiteVars, socks, heldVars, answerVars, hostVars>>

Connect ==
  /\ At({"connect"})
  /\ \/ /\ n \in alive
        /\ Good /\ socks' = socks \union {n} /\ local' = [local EXCEPT !.rpc = TRUE]
     \/ Throws /\ UNCHANGED <<socks, local>>
  /\ UNCHANGED <<suiteVars, alive, told, heldVars, answerVars, hostVars>>

Close ==
  /\ At({"close"})
  /\ Good
  /\ socks' = IF local.rpc THEN socks \ {n} ELSE socks
  /\ UNCHANGED <<suiteVars, local, alive, told, heldVars, answerVars, hostVars>>

(* cleanup, sigtermSpawned: a signal, unless the exit event has come. It is not waited *)
(* for beyond a second.                                                                *)
Sigterm ==
  /\ At({"sigterm"})
  /\ Good \/ (n \notin alive /\ Throws)
  /\ told' = IF local.spawned THEN told \union {n} ELSE told
  /\ UNCHANGED <<suiteVars, local, alive, socks, heldVars, answerVars, hostVars>>

(* Five seconds for the exit event. *)
Exited ==
  /\ At({"exited"})
  /\ IF n \in alive THEN Bad ELSE Good
  /\ UNCHANGED <<suiteVars, local, helperVars, hostVars>>

----------------------------------------------------------------------------
(* Calls that the fixtures hang on. The helper may do what it is asked and its answer  *)
(* be lost, or not be written down: deaf.                                              *)

NoAnswer == Throws /\ deaf' = deaf \union {n}
Answered == Good /\ UNCHANGED deaf
Refused  == Answers /\ Bad /\ UNCHANGED deaf

(* shutdownHelper does not look at an error in the answer. *)
Shutdown ==
  /\ At({"shutdown"})
  /\ \/ Answers /\ Answered /\ told' = told \union {n}
     \/ Answers /\ Answered /\ UNCHANGED told
     \/ Answers /\ NoAnswer /\ told' = told \union {n}
     \/ NoAnswer /\ UNCHANGED told
  /\ UNCHANGED <<suiteVars, local, alive, socks, heldVars, refused, cancelled, hostVars>>

Save ==
  /\ At({"save"})
  /\ \/ Answers /\ pinned' = pinned \union {n} /\ (Answered \/ NoAnswer)
     \/ (Refused \/ NoAnswer) /\ UNCHANGED pinned
  /\ UNCHANGED <<suiteVars, local, alive, told, socks, exporting, settling, refused, cancelled,
                 hostVars>>

(* The answer, and the notification, may not have it. *)
SnapshotId ==
  /\ At({"snapshotId"})
  /\ \/ Answered /\ local' = [local EXCEPT !.snapshotId = TRUE]
     \/ Bad /\ deaf' = deaf \union {n} /\ UNCHANGED local
  /\ UNCHANGED <<suiteVars, alive, told, socks, heldVars, refused, cancelled, hostVars>>

StartExport ==
  /\ At({"export"})
  /\ \/ /\ Answers /\ exporting' = exporting \union {n}
        /\ \/ Answered /\ local' = [local EXCEPT !.exportId = TRUE]
           \/ NoAnswer /\ UNCHANGED local
     \/ (Refused \/ NoAnswer) /\ UNCHANGED <<exporting, local>>
  /\ UNCHANGED <<suiteVars, alive, told, socks, pinned, settling, refused, cancelled, hostVars>>

(* One of the three terminal notifications, or the deadline. *)
Terminal ==
  /\ At({"terminal"})
  /\ \/ n \notin exporting /\ Good /\ local' = [local EXCEPT !.exportId = FALSE]
     \/ Throws /\ UNCHANGED local
  /\ UNCHANGED <<suiteVars, helperVars, hostVars>>

(* The export of n is among the active ones: its snapshot cannot be released. *)
Referenced == n \in exporting \union settling

(* Forgotten once released, by one driver even if refused; the second time only if     *)
(* there is an id still.                                                               *)
Release ==
  /\ At({"release", "releaseOnce"})
  /\ IF local.snapshotId /\ local.rpc
     THEN \/ /\ Answers /\ ~Referenced /\ pinned' = pinned \ {n}
             /\ \/ Answered /\ local' = [local EXCEPT !.snapshotId = FALSE]
                \/ NoAnswer /\ UNCHANGED local
             /\ UNCHANGED refused
          \/ /\ Refused /\ (Referenced \/ n \notin pinned) /\ UNCHANGED pinned
             /\ refused' = IF Referenced THEN refused \union {n} ELSE refused
             /\ local' = [local EXCEPT !.snapshotId = @ /\ s.op = "release"]
          \/ NoAnswer /\ UNCHANGED <<pinned, refused, local>>
     ELSE Answered /\ UNCHANGED <<pinned, refused, local>>
  /\ UNCHANGED <<suiteVars, alive, told, socks, exporting, settling, cancelled, hostVars>>

(* It is signalled, or told that it is too late for that: the export ends by itself.    *)
(* One that is not among the active ones is refused.                                   *)
Cancel ==
  /\ At({"cancel"})
  /\ IF local.exportId /\ local.rpc
     THEN \/ Answers /\ Referenced /\ Answered /\ cancelled' = cancelled \union {n}
          \/ ~Referenced /\ Refused /\ UNCHANGED cancelled
          \/ NoAnswer /\ UNCHANGED cancelled
     ELSE Answered /\ UNCHANGED cancelled
  /\ UNCHANGED <<suiteVars, local, alive, told, socks, heldVars, refused, hostVars>>

----------------------------------------------------------------------------
(* The load, the display, the directory *)

Load ==
  /\ At({"load"})
  /\ \/ Good /\ loads' = loads \union {n} /\ local' = [local EXCEPT !.load = TRUE]
     \/ (Bad \/ Throws) /\ UNCHANGED <<loads, local>>
  /\ UNCHANGED <<suiteVars, helperVars, unstopped, modeVars, dirVars>>

(* The script, which may be gone before the browser it started. *)
LoadRuns ==
  /\ At({"loadRuns"})
  /\ (n \in loads /\ Good) \/ Bad \/ Throws
  /\ UNCHANGED <<suiteVars, local, helperVars, hostVars>>

(* SIGTERM to the script, and SIGKILL after two seconds: then its browser goes on, and *)
(* so it does when the script is gone already.                                         *)
Teardown ==
  /\ At({"teardown"})
  /\ Good
  /\ \/ loads' = (IF local.load THEN loads \ {n} ELSE loads) /\ UNCHANGED unstopped
     \/ local.load /\ n \in loads /\ unstopped' = unstopped \union {n} /\ UNCHANGED loads
  /\ UNCHANGED <<suiteVars, local, helperVars, modeVars, dirVars>>

(* enforceDisplayMode: unreadable; the mode is the wanted one; set, verified or not    *)
(* after three attempts. Without a former mode there is none to restore.               *)
EnforceDisplayMode ==
  /\ At({"mode"})
  /\ \/ Bad /\ UNCHANGED <<local, forced, lost>>
     \/ Good /\ local' = [local EXCEPT !.modeset = "same"] /\ UNCHANGED <<forced, lost>>
     \/ /\ \/ Good /\ forced' = TRUE
           \/ Bad /\ forced' \in BOOLEAN
        /\ \/ local' = [local EXCEPT !.modeset = "set"] /\ UNCHANGED lost
           \/ lost' = TRUE /\ UNCHANGED local
  /\ UNCHANGED <<suiteVars, helperVars, loadVars, dirVars>>

(* The second time its result is not kept. *)
RecheckDisplayMode ==
  /\ At({"remode"})
  /\ \/ Bad /\ UNCHANGED forced
     \/ (forced \/ local.modeset = "same") /\ Good /\ UNCHANGED forced
     \/ /\ ~forced /\ local.modeset # "same"
        /\ \/ Good /\ forced' = TRUE
           \/ Bad /\ forced' = TRUE
  /\ UNCHANGED <<suiteVars, local, helperVars, loadVars, lost, dirVars>>

(* kscreen-doctor may fail, or take longer than ten seconds; nobody looks. The next row *)
(* takes the mode it finds for the former one.                                         *)
RestoreDisplayMode ==
  /\ At({"restore"})
  /\ Good
  /\ \/ forced' = (forced /\ local.modeset # "set") /\ UNCHANGED lost
     \/ forced /\ local.modeset = "set" /\ lost' = TRUE /\ UNCHANGED forced
  /\ UNCHANGED <<suiteVars, local, helperVars, loadVars, dirVars>>

MakeDirectory ==
  /\ At({"mkdir"})
  /\ \/ Good /\ dirs' = dirs \union {n} /\ local' = [local EXCEPT !.dir = TRUE]
     \/ Throws /\ UNCHANGED <<dirs, local>>
  /\ UNCHANGED <<suiteVars, helperVars, loadVars, modeVars, unremoved>>

(* callerOwnsCleanup. *)
HandOver ==
  /\ At({"hand"})
  /\ Good
  /\ local' = [local EXCEPT !.owned = TRUE]
  /\ UNCHANGED <<suiteVars, helperVars, hostVars>>

(* rmSync may throw; nobody looks. *)
RemoveDirectory ==
  LET ours == local.dir /\ ~(part = "finally" /\ local.owned) IN
  /\ At({"rmdir"})
  /\ Good
  /\ \/ dirs' = (IF ours THEN dirs \ {n} ELSE dirs) /\ UNCHANGED unremoved
     \/ ours /\ n \in dirs /\ unremoved' = unremoved \union {n} /\ UNCHANGED dirs
  /\ UNCHANGED <<suiteVars, local, helperVars, loadVars, modeVars>>

----------------------------------------------------------------------------
Done == over # "no" /\ alive = {} /\ UNCHANGED vars

Next ==
  \/ Begin \/ PartEnds \/ SuiteEnds
  \/ \E i \in Pid : HelperExits(i) \/ ExportStops(i) \/ LoadEnds(i)
  \/ ModeReverts
  \/ Look \/ Call \/ ReadFile \/ Judge
  \/ Baseline \/ Count \/ Spawn \/ Connect \/ Close \/ Sigterm \/ Exited
  \/ Shutdown \/ Save \/ SnapshotId \/ StartExport \/ Terminal \/ Release \/ Cancel
  \/ Load \/ LoadRuns \/ Teardown
  \/ EnforceDisplayMode \/ RecheckDisplayMode \/ RestoreDisplayMode
  \/ MakeDirectory \/ HandOver \/ RemoveDirectory
  \/ Done

Spec == Init /\ [][Next]_vars

----------------------------------------------------------------------------
(* Every variable has its type. *)
TypeOK ==
  /\ kind \in {"smoke", "rc", "row"} /\ over \in {"no", "done", "stopped", "aborted"}
  /\ n \in 0..MaxRows /\ row \in 0..Len(Rows)
  /\ part \in {"between", "body", "bail", "finally", "caller", "cleanup"}
  /\ pc \in 1..(Len(Script) + 1)
  /\ report \in Statuses \union {"none", "aborted"}
  /\ local \in Local
  /\ alive \in SUBSET Pid /\ told \in SUBSET Pid /\ socks \in SUBSET Pid
  /\ pinned \in SUBSET Pid /\ exporting \in SUBSET Pid /\ settling \in SUBSET Pid
  /\ deaf \in SUBSET Pid /\ refused \in SUBSET Pid /\ cancelled \in SUBSET Pid
  /\ loads \in SUBSET Pid /\ unstopped \in SUBSET Pid
  /\ dirs \in SUBSET Pid /\ unremoved \in SUBSET Pid
  /\ forced \in BOOLEAN /\ lost \in BOOLEAN

(* Wherever a row returns, its finally blocks have tried to undo all that it began.    *)
(* What is left, of any row, is a load that outlived its teardown, a directory that    *)
(* could not be removed, a display mode whose former one could not be read or set back, *)
(* and helpers that were told to end. If every answer of such a helper has come, an     *)
(* export it runs was asked to cancel, and a snapshot it holds was to be released when  *)
(* the export that needs it had not ended yet.                                         *)
RowsLeaveNothing ==
  part = "between" =>
    /\ loads \subseteq unstopped /\ dirs \subseteq unremoved
    /\ forced => lost
    /\ alive \subseteq told
    /\ exporting \subseteq deaf \union cancelled
    /\ pinned \subseteq deaf \union refused

(* A row about clean-up that passes has seen its own helper gone, whatever helpers     *)
(* earlier rows have left behind; and the file a row exported is there while its       *)
(* caller reads it.                                                                    *)
CleanupRows == {"VAL-PROC-001", "VAL-PROC-002", "VAL-PROC-003", "VAL-EXP-001"}
CleanupProven ==
  /\ row > 0 /\ Rows[row].id \in CleanupRows /\ report = "pass" => n \notin alive
  /\ part = "caller" => n \in dirs
=============================================================================
