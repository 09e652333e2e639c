------------------------ MODULE ReplayExport_proofs ------------------------
(***************************************************************************)
(* Proofs about ReplayExport: every property of its safety run, for any    *)
(* number of requests, snapshots, exports and paths.  IInv is inductive:   *)
(* its first parts say who may touch a snapshot or a new export, ExportInv *)
(* what each station of an export's task implies for its event and files.  *)
(***************************************************************************)
EXTENDS ReplayExport, TLAPS

USE ConstantsAssumption

Terminal == {"completed", "cancelled", "failed", "exited"}

(* A request that has registered an export and has yet to start its task. *)
Starting(h) == step[h] \in {"lookup", "missing", "spawn"}

(* A request that has taken a snapshot or session out of the maps. *)
Claims(h) == step[h] \in {"insert", "discard", "relist", "release"}

(* What a request works on has its type, and who has the lock is where it is held. *)
HandlerOK ==
  \A h \in Handler :
    /\ Claims(h) \/ Starting(h) \/ step[h] = "remove" => snap[h] \in Snapshot
    /\ step[h] \in {"discard", "relist"} => snap[h] \in Recovered
    /\ Starting(h) \/ step[h] = "cancel" => exp[h] \in Export
    /\ exportsLock = h <=> step[h] \in {"remove", "cancel"}

(* From the check to the removal of a release nobody registers an export of the    *)
(* snapshot; an export that starts is of one request and keeps its snapshot.       *)
RegistryInv ==
  /\ \A h \in Handler :
       /\ step[h] = "remove" => ~References(snap[h])
       /\ Starting(h) => exp[h] \in exports /\ of[exp[h]] = snap[h] /\ task[exp[h]] = "none"
       /\ step[h] = "spawn" => snap[h] \in snapshots
  /\ \A g, h \in Handler : g # h /\ Starting(g) /\ Starting(h) => exp[g] # exp[h]
  /\ \A e \in Export : of[e] = Nil => e \notin exports /\ task[e] = "none"

(* A snapshot in the map has its files and its pins, and nobody claims it. *)
SnapshotInv ==
  /\ \A s \in snapshots : s \notin listed /\ sources[s] # "none" /\ (s \in Live => s \in pinned)
  /\ \A s \in Recovered : sources[s] # "none"
  /\ \A h \in Handler : Claims(h) => snap[h] \notin snapshots \cup listed /\ sources[snap[h]] # "none"
  /\ \A h \in Handler : step[h] = "insert" /\ snap[h] \in Live => snap[h] \in pinned
  /\ \A g, h \in Handler : g # h /\ Claims(g) /\ Claims(h) => snap[g] # snap[h]

(* An export emits one event, at its end. *)
EventOf(e) ==
  /\ e \notin fired => events[e] = <<>> /\ task[e] # "ended"
  /\ e \in fired => task[e] \in {"returned", "ended"} /\ \E ev \in Terminal : events[e] = <<ev>>

(* A file of kind k is there, and no removal of it has failed. *)
Has(e, k) == k \in files[e] /\ k \notin stuck[e]

(* The hint of e is there, or could not be written. *)
Hinted(e) == "hint" \in files[e] \/ e \in unhinted

(* The files a task may have at each station; a .part file has its hint until the  *)
(* next helper reaps both.                                                         *)
FilesOf(e) ==
  /\ task[e] \in {"none", "checks"} => files[e] = {}
  /\ Has(e, "tmp") => task[e] \notin {"renamePart", "removeHint", "published"}
  /\ Has(e, "part") => task[e] \in {"copyPart", "renamePart", "removeHint", "returned", "ended"}
  /\ Has(e, "hint") => task[e] \in {"probe", "unprobe", "openPart", "copyPart", "renamePart",
                                    "removeHint", "returned", "ended"}
  /\ Has(e, "probe") => task[e] = "unprobe"
  /\ stage # "booted" =>
       /\ Has(e, "part") => Hinted(e)
       /\ task[e] \in {"probe", "unprobe", "openPart", "copyPart", "renamePart"} => Hinted(e)

(* Its file is at its path only once its task has published it. *)
OutOf(e) ==
  /\ task[e] \in {"unlink", "removeHint", "published"} => out[path[e]] = e
  /\ \A p \in Path : out[p] = e =>
       task[e] \in {"unlink", "removeHint", "published", "returned", "ended"}
  /\ of[e] # Nil => path[e] \in Path

(* EventMatchesFile and NoLeftovers, of an export with its one event. *)
MatchOf(e) ==
  /\ events[e] = <<"completed">> => out[path[e]] = e
  /\ events[e] = <<"cancelled">> => \A p \in Path : out[p] # e

LeftOf(e) ==
  \A ev \in Terminal \ {"exited"} : events[e] = <<ev>> =>
    \A k \in Kind : Has(e, k) => k = "diag" /\ ev = "failed"

ExportOf(e) == EventOf(e) /\ FilesOf(e) /\ OutOf(e) /\ MatchOf(e) /\ LeftOf(e)

ExportInv == \A e \in Export : ExportOf(e)

IInv ==
  /\ TypeOK /\ HandlerOK /\ RegistryInv /\ SnapshotInv /\ ReadersHoldSnapshot
  /\ ExportInv /\ BootsClean

-----------------------------------------------------------------------------
Stations == {"idle", "insert", "discard", "relist", "remove", "release",
             "lookup", "missing", "spawn", "cancel"}

(* Handler h is now at p with s and e, and the others are where they were. *)
Moves(h, p, s, e) ==
  /\ step' \in [Handler -> Stations]
  /\ snap' \in [Handler -> Snapshot \cup {Nil}] /\ exp' \in [Handler -> Export \cup {Nil}]
  /\ step'[h] = p /\ snap'[h] = s /\ exp'[h] = e
  /\ \A g \in Handler : g # h => step'[g] = step[g] /\ snap'[g] = snap[g] /\ exp'[g] = exp[g]

\* Goto moves one handler.
LEMMA GotoMoves ==
  ASSUME TypeOK, NEW h \in Handler, NEW p \in Stations,
         NEW s \in Snapshot \cup {Nil}, NEW e \in Export \cup {Nil}, Goto(h, p, s, e)
  PROVE  Moves(h, p, s, e)
BY DEF TypeOK, Goto, Moves, Stations

\* So do Advance and Reply.
LEMMA AdvanceMoves ==
  ASSUME TypeOK, NEW h \in Handler, NEW p \in Stations, Advance(h, p)
  PROVE  Moves(h, p, snap[h], exp[h])
<1>1. snap[h] \in Snapshot \cup {Nil} /\ exp[h] \in Export \cup {Nil}
  BY DEF TypeOK
<1> QED
  BY <1>1, GotoMoves DEF Advance

LEMMA ReplyMoves ==
  ASSUME TypeOK, NEW h \in Handler, Reply(h)
  PROVE  Moves(h, "idle", Nil, Nil)
BY GotoMoves DEF Reply, Stations

\* A deletion touches the files of its session only, and leaves what can be
\* told from a snapshot never made.
LEMMA DeleteKeeps ==
  ASSUME TypeOK, NEW s \in Snapshot, sources[s] # "none", DeleteSession(s)
  PROVE  /\ sources' \in [Snapshot -> {"none", "whole", "partial", "gone"}]
         /\ sources'[s] # "none" /\ \A x \in Snapshot : x # s => sources'[x] = sources[x]
         /\ faults' \in Nat
<1>1. CASE sources' = [sources EXCEPT ![s] = "gone"] /\ UNCHANGED faults
  BY <1>1 DEF TypeOK
<1>2. ASSUME NEW left \in {sources[s], "partial"}, sources' = [sources EXCEPT ![s] = left], Fault
      PROVE  /\ sources' \in [Snapshot -> {"none", "whole", "partial", "gone"}]
             /\ sources'[s] # "none" /\ \A x \in Snapshot : x # s => sources'[x] = sources[x]
             /\ faults' \in Nat
  <2>1. left \in {"whole", "partial", "gone"}
    BY <1>2 DEF TypeOK
  <2>2. faults' \in Nat
    BY <1>2 DEF Fault, TypeOK
  <2> QED
    BY <1>2, <2>1, <2>2 DEF TypeOK
<1> QED
  BY <1>1, <1>2 DEF DeleteSession

\* A request that neither registers nor releases leaves the registrations.
LEMMA RegistryKept ==
  ASSUME RegistryInv, NEW h \in Handler, NEW p, NEW s, NEW e, Moves(h, p, s, e),
         p \notin {"remove", "lookup", "missing", "spawn"},
         UNCHANGED <<exports, of, task>>, snapshots \subseteq snapshots'
  PROVE  RegistryInv'
BY DEF RegistryInv, Moves, Starting, References

\* A request that touches no snapshot leaves the claims, also as it gives up.
LEMMA ClaimsKept ==
  ASSUME SnapshotInv, NEW h \in Handler, NEW p, NEW s, NEW e, Moves(h, p, s, e),
         p \notin {"insert", "discard", "relist", "release"}, UNCHANGED snapshotVars
  PROVE  SnapshotInv'
BY DEF SnapshotInv, Moves, Claims, snapshotVars

\* One that works on snapshot x, which nobody else claims, leaves it claimed, in
\* the map, in the list, or in none of them.
LEMMA ClaimMoved ==
  ASSUME TypeOK, HandlerOK, SnapshotInv, NEW h \in Handler, NEW p, NEW s, NEW e,
         Moves(h, p, s, e), NEW x \in Snapshot,
         \A y \in Snapshot : y # x =>
           /\ (y \in snapshots' => y \in snapshots) /\ (y \in listed' => y \in listed)
           /\ (y \in pinned => y \in pinned') /\ sources'[y] = sources[y],
         \A g \in Handler : g # h /\ Claims(g) => snap[g] # x,
         p \in {"insert", "discard", "relist", "release"} =>
           s = x /\ x \notin snapshots' \cup listed',
         p = "insert" /\ x \in Live => x \in pinned',
         x \in snapshots' => x \notin listed' /\ (x \in Live => x \in pinned'),
         snapshots' \subseteq Snapshot, sources'[x] # "none"
  PROVE  SnapshotInv'
<1>1. \A g \in Handler : Claims(g) => snap[g] \in Snapshot
  BY DEF HandlerOK
<1>2. \A y \in snapshots' : y \notin listed' /\ sources'[y] # "none" /\ (y \in Live => y \in pinned')
  BY DEF SnapshotInv, TypeOK, Snapshot
<1>3. \A y \in Recovered : sources'[y] # "none"
  BY DEF SnapshotInv, Snapshot
<1>4. \A g \in Handler : Claims(g)' => snap'[g] \notin snapshots' \cup listed' /\ sources'[snap'[g]] # "none"
  BY <1>1 DEF SnapshotInv, Moves, Claims
<1>5. \A g \in Handler : step'[g] = "insert" /\ snap'[g] \in Live => snap'[g] \in pinned'
  BY <1>1 DEF SnapshotInv, Moves, Claims
<1>6. \A f, g \in Handler : f # g /\ Claims(f)' /\ Claims(g)' => snap'[f] # snap'[g]
  BY <1>1 DEF SnapshotInv, Moves, Claims
<1> QED
  BY <1>2, <1>3, <1>4, <1>5, <1>6 DEF SnapshotInv

\* Requests keep the types, what they work on, the registrations, the claims on
\* snapshots, and what a running export reads.
LEMMA HandlerKeeps ==
  ASSUME IInv, NEW h \in Handler, Request(h) \/ HandlerStep(h) \/ AbortDispatch(h)
  PROVE  TypeOK' /\ HandlerOK' /\ RegistryInv' /\ SnapshotInv' /\ ReadersHoldSnapshot'
<1> DEFINE Goal == TypeOK /\ HandlerOK /\ RegistryInv /\ SnapshotInv /\ ReadersHoldSnapshot
<1> USE DEF IInv
<1>1. ASSUME NEW s \in Snapshot, Save(h, s) PROVE Goal'
  <2>1. Moves(h, "insert", s, Nil)
    BY <1>1, GotoMoves DEF Save, Stations, Snapshot
  <2>2. TypeOK'
    BY <1>1, <2>1 DEF Save, At, Up, UnchangedBySnapshots, exportVars, flagVars, eventVars,
           fileVars, TypeOK, Moves, Stations
  <2>3. HandlerOK'
    BY <1>1, <2>1 DEF Save, At, Up, UnchangedBySnapshots, exportVars, flagVars, eventVars,
           fileVars, TypeOK, HandlerOK, Claims, Starting, Snapshot, Moves
  <2>4. RegistryInv'
    BY <1>1, <2>1, RegistryKept DEF Save, UnchangedBySnapshots, exportVars, flagVars,
           eventVars, fileVars
  <2>5. SnapshotInv'
    <3>1. /\ snapshots' = snapshots /\ listed' = listed /\ pinned' = pinned \cup {s}
          /\ sources[s] = "none" /\ s \in Live
          /\ sources'[s] = "whole" /\ \A y \in Snapshot : y # s => sources'[y] = sources[y]
      BY <1>1 DEF Save, TypeOK
    <3>2. s \notin snapshots \cup listed /\ \A g \in Handler : Claims(g) => snap[g] # s
      BY <3>1 DEF SnapshotInv, TypeOK
    <3>3. snapshots' \subseteq Snapshot
      BY <3>1 DEF TypeOK
    <3> QED
      BY <2>1, <3>1, <3>2, <3>3, ClaimMoved
  <2>6. ReadersHoldSnapshot'
    BY <1>1, <2>1 DEF Save, At, Up, UnchangedBySnapshots, exportVars, flagVars, eventVars,
           fileVars, TypeOK, HandlerOK, Starting, Snapshot, RegistryInv, ReadersHoldSnapshot,
           References, Running, Moves
  <2> QED
    BY <2>2, <2>3, <2>4, <2>5, <2>6
<1>2. ASSUME NEW s \in Snapshot, Restore(h, s) PROVE Goal'
  <2>1. Moves(h, "insert", s, Nil)
    BY <1>2, GotoMoves DEF Restore, Stations, Snapshot
  <2>2. TypeOK'
    BY <1>2, <2>1 DEF Restore, At, Up, UnchangedBySnapshots, exportVars, flagVars, eventVars,
           fileVars, TypeOK, Moves, Stations
  <2>3. HandlerOK'
    BY <1>2, <2>1 DEF Restore, At, Up, UnchangedBySnapshots, exportVars, flagVars, eventVars,
           fileVars, TypeOK, HandlerOK, Claims, Starting, Snapshot, Moves
  <2>4. RegistryInv'
    BY <1>2, <2>1, RegistryKept DEF Restore, UnchangedBySnapshots, exportVars, flagVars,
           eventVars, fileVars
  <2>5. SnapshotInv'
    <3>1. /\ UNCHANGED <<snapshots, pinned, sources>> /\ listed' = listed \ {s} /\ s \in listed
      BY <1>2 DEF Restore
    <3>2. /\ s \notin snapshots /\ sources[s] # "none" /\ s \notin Live
          /\ \A g \in Handler : Claims(g) => snap[g] # s
      BY <3>1 DEF SnapshotInv, TypeOK
    <3>3. snapshots' \subseteq Snapshot
      BY <3>1 DEF TypeOK
    <3> QED
      BY <2>1, <3>1, <3>2, <3>3, ClaimMoved
  <2>6. ReadersHoldSnapshot'
    BY <1>2, <2>1 DEF Restore, At, Up, UnchangedBySnapshots, exportVars, flagVars, eventVars,
           fileVars, TypeOK, HandlerOK, Starting, Snapshot, RegistryInv, ReadersHoldSnapshot,
           References, Running, Moves
  <2> QED
    BY <2>2, <2>3, <2>4, <2>5, <2>6
<1>3. ASSUME NEW s \in Snapshot, Discard(h, s) PROVE Goal'
  <2>1. Moves(h, "discard", s, Nil)
    BY <1>3, GotoMoves DEF Discard, Stations, Snapshot
  <2>2. TypeOK'
    BY <1>3, <2>1 DEF Discard, At, Up, UnchangedBySnapshots, exportVars, flagVars, eventVars,
           fileVars, TypeOK, Moves, Stations
  <2>3. HandlerOK'
    BY <1>3, <2>1 DEF Discard, At, Up, UnchangedBySnapshots, exportVars, flagVars, eventVars,
           fileVars, TypeOK, HandlerOK, Claims, Starting, Snapshot, Moves
  <2>4. RegistryInv'
    BY <1>3, <2>1, RegistryKept DEF Discard, UnchangedBySnapshots, exportVars, flagVars,
           eventVars, fileVars
  <2>5. SnapshotInv'
    <3>1. /\ UNCHANGED <<snapshots, pinned, sources>> /\ listed' = listed \ {s} /\ s \in listed
      BY <1>3 DEF Discard
    <3>2. /\ s \notin snapshots /\ sources[s] # "none" /\ s \notin Live
          /\ \A g \in Handler : Claims(g) => snap[g] # s
      BY <3>1 DEF SnapshotInv, TypeOK
    <3>3. snapshots' \subseteq Snapshot
      BY <3>1 DEF TypeOK
    <3> QED
      BY <2>1, <3>1, <3>2, <3>3, ClaimMoved
  <2>6. ReadersHoldSnapshot'
    BY <1>3, <2>1 DEF Discard, At, Up, UnchangedBySnapshots, exportVars, flagVars, eventVars,
           fileVars, TypeOK, HandlerOK, Starting, Snapshot, RegistryInv, ReadersHoldSnapshot,
           References, Running, Moves
  <2> QED
    BY <2>2, <2>3, <2>4, <2>5, <2>6
<1>4. ASSUME NEW s \in Snapshot, ReleaseCheck(h, s) PROVE Goal'
  <2>1. Moves(h, "remove", s, Nil)
    BY <1>4, GotoMoves DEF ReleaseCheck, Stations, Snapshot
  <2>2. TypeOK'
    BY <1>4, <2>1 DEF ReleaseCheck, At, Up, References, ExportsUnlocked, UnchangedBySnapshots,
           exportVars, flagVars, eventVars, fileVars, snapshotVars, TypeOK, Moves, Stations
  <2>3. HandlerOK'
    BY <1>4, <2>1 DEF ReleaseCheck, At, Up, References, ExportsUnlocked, UnchangedBySnapshots,
           exportVars, flagVars, eventVars, fileVars, snapshotVars, TypeOK, HandlerOK, Claims,
           Starting, Snapshot, Moves
  <2>4. RegistryInv'
    <3>1. /\ UNCHANGED <<exports, of, task, snapshots>> /\ ~References(s)
      BY <1>4 DEF ReleaseCheck, UnchangedBySnapshots, exportVars, snapshotVars
    <3> QED
      BY <2>1, <3>1 DEF RegistryInv, Moves, Starting, References
  <2>5. SnapshotInv'
    BY <1>4, <2>1, ClaimsKept DEF ReleaseCheck, UnchangedBySnapshots, snapshotVars
  <2>6. ReadersHoldSnapshot'
    BY <1>4, <2>1 DEF ReleaseCheck, At, Up, References, ExportsUnlocked, UnchangedBySnapshots,
           exportVars, flagVars, eventVars, fileVars, snapshotVars, TypeOK, HandlerOK,
           Starting, Snapshot, RegistryInv, ReadersHoldSnapshot, Running, Moves
  <2> QED
    BY <2>2, <2>3, <2>4, <2>5, <2>6
<1>5. ASSUME NEW e \in Export, NEW s \in Snapshot, NEW p \in Path, ExportStart(h, e, s, p) PROVE Goal'
  <2>1. Moves(h, "lookup", s, e)
    BY <1>5, GotoMoves DEF ExportStart, Stations, Snapshot
  <2>2. TypeOK'
    BY <1>5, <2>1 DEF ExportStart, At, Up, ExportsUnlocked, snapshotVars, flagVars, eventVars,
           fileVars, TypeOK, Moves, Stations
  <2>3. HandlerOK'
    BY <1>5, <2>1 DEF ExportStart, At, Up, ExportsUnlocked, snapshotVars, flagVars, eventVars,
           fileVars, TypeOK, HandlerOK, Claims, Starting, Snapshot, Moves
  <2>4. RegistryInv'
    <3>1. /\ UNCHANGED <<task, snapshots>> /\ exports' = exports \cup {e} /\ of[e] = Nil
          /\ of'[e] = s /\ \A x \in Export : x # e => of'[x] = of[x]
          /\ e \notin exports /\ task[e] = "none" /\ Nil \notin Snapshot
          /\ \A g \in Handler : step[g] # "remove"
      BY <1>5 DEF ExportStart, ExportsUnlocked, snapshotVars, TypeOK, RegistryInv, HandlerOK, Snapshot
    <3>2. \A g \in Handler : Starting(g) => exp[g] \in Export /\ exp[g] # e
      BY <3>1 DEF RegistryInv, HandlerOK
    <3>3. \A g \in Handler : step'[g] # "remove"
      BY <2>1, <3>1 DEF Moves
    <3>4. \A g \in Handler :
            /\ Starting(g)' => /\ exp'[g] \in exports' /\ of'[exp'[g]] = snap'[g]
                             /\ task'[exp'[g]] = "none"
            /\ step'[g] = "spawn" => snap'[g] \in snapshots'
      BY <2>1, <3>1, <3>2 DEF RegistryInv, Moves, Starting
    <3>5. \A f, g \in Handler : f # g /\ Starting(f)' /\ Starting(g)' => exp'[f] # exp'[g]
      BY <2>1, <3>2 DEF RegistryInv, Moves, Starting
    <3>6. \A x \in Export : of'[x] = Nil => x \notin exports' /\ task'[x] = "none"
      BY <3>1 DEF RegistryInv
    <3> QED
      BY <3>3, <3>4, <3>5, <3>6 DEF RegistryInv
  <2>5. SnapshotInv'
    BY <1>5, <2>1, ClaimsKept DEF ExportStart, snapshotVars
  <2>6. ReadersHoldSnapshot'
    BY <1>5, <2>1 DEF ExportStart, At, Up, ExportsUnlocked, snapshotVars, flagVars, eventVars,
           fileVars, TypeOK, HandlerOK, Starting, Snapshot, RegistryInv, ReadersHoldSnapshot,
           References, Running, Moves
  <2> QED
    BY <2>2, <2>3, <2>4, <2>5, <2>6
<1>6. ASSUME NEW e \in Export, CancelCheck(h, e) PROVE Goal'
  <2>1. Moves(h, "cancel", Nil, e)
    BY <1>6, GotoMoves DEF CancelCheck, Stations
  <2>2. TypeOK'
    BY <1>6, <2>1 DEF CancelCheck, At, Up, ExportsUnlocked, snapshotVars, exportVars,
           flagVars, eventVars, fileVars, TypeOK, Moves, Stations
  <2>3. HandlerOK'
    BY <1>6, <2>1 DEF CancelCheck, At, Up, ExportsUnlocked, snapshotVars, exportVars,
           flagVars, eventVars, fileVars, TypeOK, HandlerOK, Claims, Starting, Snapshot,
           Moves
  <2>4. RegistryInv'
    BY <1>6, <2>1, RegistryKept DEF CancelCheck, snapshotVars, exportVars, flagVars,
           eventVars, fileVars
  <2>5. SnapshotInv'
    BY <1>6, <2>1, ClaimsKept DEF CancelCheck, snapshotVars
  <2>6. ReadersHoldSnapshot'
    BY <1>6, <2>1 DEF CancelCheck, At, Up, ExportsUnlocked, snapshotVars, exportVars,
           flagVars, eventVars, fileVars, TypeOK, HandlerOK, Starting, Snapshot, RegistryInv,
           ReadersHoldSnapshot, References, Running, Moves
  <2> QED
    BY <2>2, <2>3, <2>4, <2>5, <2>6
<1>7. CASE InsertSnapshot(h)
  <2>1. Moves(h, "idle", Nil, Nil)
    BY <1>7, ReplyMoves DEF InsertSnapshot, Stations
  <2>2. snap[h] \in Snapshot
    BY <1>7 DEF InsertSnapshot, At, HandlerOK, Claims, Starting
  <2>3. TypeOK'
    BY <1>7, <2>1, <2>2 DEF InsertSnapshot, At, Up, UnchangedBySnapshots, exportVars,
           flagVars, eventVars, fileVars, TypeOK, Moves, Stations
  <2>4. HandlerOK'
    BY <1>7, <2>1, <2>2 DEF InsertSnapshot, At, Up, UnchangedBySnapshots, exportVars,
           flagVars, eventVars, fileVars, TypeOK, HandlerOK, Claims, Starting, Snapshot,
           Moves
  <2>5. RegistryInv'
    BY <1>7, <2>1, RegistryKept DEF InsertSnapshot, UnchangedBySnapshots, exportVars,
           flagVars, eventVars, fileVars
  <2>6. SnapshotInv'
    <3>1. /\ UNCHANGED <<listed, pinned, sources>> /\ snapshots' = snapshots \cup {snap[h]}
          /\ step[h] = "insert" /\ Claims(h)
      BY <1>7 DEF InsertSnapshot, At, Claims
    <3>2. /\ snap[h] \in Snapshot /\ snap[h] \notin snapshots \cup listed
          /\ sources[snap[h]] # "none"
          /\ \A g \in Handler : g # h /\ Claims(g) => snap[g] # snap[h]
      BY <3>1 DEF SnapshotInv, HandlerOK
    <3>3. snapshots \subseteq Snapshot
      BY DEF TypeOK
    <3>4. snap[h] \in Live => snap[h] \in pinned
      BY <3>1 DEF SnapshotInv
    <3> QED
      BY <2>1, <3>1, <3>2, <3>3, <3>4, ClaimMoved
  <2>7. ReadersHoldSnapshot'
    BY <1>7, <2>1, <2>2 DEF InsertSnapshot, At, Up, UnchangedBySnapshots, exportVars,
           flagVars, eventVars, fileVars, TypeOK, HandlerOK, Starting, Snapshot, RegistryInv,
           ReadersHoldSnapshot, References, Running, Moves
  <2> QED
    BY <2>3, <2>4, <2>5, <2>6, <2>7
<1>8. CASE DiscardFiles(h)
  <2>1. Moves(h, "relist", snap[h], exp[h]) \/ Moves(h, "idle", Nil, Nil)
    BY <1>8, AdvanceMoves, ReplyMoves DEF DiscardFiles, Stations
  <2>2. snap[h] \in Snapshot /\ sources[snap[h]] # "none" /\ Claims(h)
    BY <1>8 DEF DiscardFiles, At, HandlerOK, SnapshotInv, Claims
  <2>3. /\ sources' \in [Snapshot -> {"none", "whole", "partial", "gone"}]
        /\ sources'[snap[h]] # "none" /\ faults' \in Nat
        /\ \A x \in Snapshot : x # snap[h] => sources'[x] = sources[x]
    BY <1>8, <2>2, DeleteKeeps DEF DiscardFiles
  <2>4. TypeOK'
    BY <1>8, <2>1, <2>2, <2>3 DEF DiscardFiles, At, Up, UnchangedBySnapshots, exportVars,
           flagVars, eventVars, fileVars, TypeOK, Moves, Stations
  <2>5. HandlerOK'
    BY <1>8, <2>1, <2>2, <2>3 DEF DiscardFiles, At, Up, UnchangedBySnapshots, exportVars,
           flagVars, eventVars, fileVars, TypeOK, HandlerOK, Claims, Starting, Snapshot,
           Moves
  <2>6. RegistryInv'
    BY <1>8, <2>1, RegistryKept DEF DiscardFiles, UnchangedBySnapshots, exportVars, flagVars,
           eventVars, fileVars
  <2>7. SnapshotInv'
    <3>1. UNCHANGED <<snapshots, listed, pinned>> /\ Claims(h)
      BY <1>8 DEF DiscardFiles, At, Claims
    <3>2. /\ snap[h] \in Snapshot /\ snap[h] \notin snapshots \cup listed
          /\ sources[snap[h]] # "none"
          /\ \A g \in Handler : g # h /\ Claims(g) => snap[g] # snap[h]
      BY <3>1 DEF SnapshotInv, HandlerOK
    <3>3. snapshots \subseteq Snapshot
      BY DEF TypeOK
    <3> QED
      BY <2>1, <2>3, <3>1, <3>2, <3>3, ClaimMoved
  <2>8. ReadersHoldSnapshot'
    BY <1>8, <2>1, <2>2, <2>3 DEF DiscardFiles, At, Up, UnchangedBySnapshots, exportVars,
           flagVars, eventVars, fileVars, TypeOK, HandlerOK, Starting, Snapshot, RegistryInv,
           ReadersHoldSnapshot, References, Running, Moves
  <2> QED
    BY <2>4, <2>5, <2>6, <2>7, <2>8
<1>9. CASE Relist(h)
  <2>1. Moves(h, "idle", Nil, Nil)
    BY <1>9, ReplyMoves DEF Relist, Stations
  <2>2. snap[h] \in Recovered
    BY <1>9 DEF Relist, At, HandlerOK, Claims, Starting
  <2>3. TypeOK'
    BY <1>9, <2>1, <2>2 DEF Relist, At, Up, UnchangedBySnapshots, exportVars, flagVars,
           eventVars, fileVars, TypeOK, Moves, Stations
  <2>4. HandlerOK'
    BY <1>9, <2>1, <2>2 DEF Relist, At, Up, UnchangedBySnapshots, exportVars, flagVars,
           eventVars, fileVars, TypeOK, HandlerOK, Claims, Starting, Snapshot, Moves
  <2>5. RegistryInv'
    BY <1>9, <2>1, RegistryKept DEF Relist, UnchangedBySnapshots, exportVars, flagVars,
           eventVars, fileVars
  <2>6. SnapshotInv'
    <3>1. /\ UNCHANGED <<snapshots, pinned, sources>> /\ listed' = listed \cup {snap[h]} /\ Claims(h)
      BY <1>9 DEF Relist, At, Claims
    <3>2. /\ snap[h] \in Snapshot /\ snap[h] \notin snapshots \cup listed
          /\ sources[snap[h]] # "none"
          /\ \A g \in Handler : g # h /\ Claims(g) => snap[g] # snap[h]
      BY <3>1 DEF SnapshotInv, HandlerOK
    <3>3. snapshots \subseteq Snapshot
      BY DEF TypeOK
    <3> QED
      BY <2>1, <3>1, <3>2, <3>3, ClaimMoved
  <2>7. ReadersHoldSnapshot'
    BY <1>9, <2>1, <2>2 DEF Relist, At, Up, UnchangedBySnapshots, exportVars, flagVars,
           eventVars, fileVars, TypeOK, HandlerOK, Starting, Snapshot, RegistryInv,
           ReadersHoldSnapshot, References, Running, Moves
  <2> QED
    BY <2>3, <2>4, <2>5, <2>6, <2>7
<1>10. CASE ReleaseRemove(h)
  <2>1. \/ Moves(h, "release", snap[h], exp[h]) /\ snap[h] \in snapshots
        \/ Moves(h, "idle", Nil, Nil)
    BY <1>10, AdvanceMoves, ReplyMoves DEF ReleaseRemove, Stations
  <2>2. TypeOK'
    BY <1>10, <2>1 DEF ReleaseRemove, At, Up, UnchangedBySnapshots, exportVars, flagVars,
           eventVars, fileVars, TypeOK, Moves, Stations
  <2>3. HandlerOK'
    BY <1>10, <2>1 DEF ReleaseRemove, At, Up, UnchangedBySnapshots, exportVars, flagVars,
           eventVars, fileVars, TypeOK, HandlerOK, Claims, Starting, Snapshot, Moves
  <2>4. RegistryInv'
    <3>1. /\ UNCHANGED <<exports, of, task>> /\ snapshots' = snapshots \ {snap[h]}
          /\ ~References(snap[h]) /\ snap[h] \in Snapshot
      BY <1>10 DEF ReleaseRemove, UnchangedBySnapshots, exportVars, At, RegistryInv, HandlerOK
    <3>2. \A g \in Handler : step[g] = "spawn" => snap[g] # snap[h]
      BY <3>1 DEF RegistryInv, Starting, References
    <3>3. \A g \in Handler :
            /\ step'[g] = "remove" => ~References(snap[g])'
            /\ Starting(g)' => /\ exp'[g] \in exports' /\ of'[exp'[g]] = snap'[g]
                             /\ task'[exp'[g]] = "none"
            /\ step'[g] = "spawn" => snap'[g] \in snapshots'
      BY <2>1, <3>1, <3>2 DEF RegistryInv, Moves, Starting, References
    <3>4. \A f, g \in Handler : f # g /\ Starting(f)' /\ Starting(g)' => exp'[f] # exp'[g]
      BY <2>1 DEF RegistryInv, Moves, Starting
    <3>5. \A x \in Export : of'[x] = Nil => x \notin exports' /\ task'[x] = "none"
      BY <3>1 DEF RegistryInv
    <3> QED
      BY <3>3, <3>4, <3>5 DEF RegistryInv
  <2>5. SnapshotInv'
    <3>1. /\ UNCHANGED <<listed, pinned, sources>> /\ snapshots' = snapshots \ {snap[h]}
      BY <1>10 DEF ReleaseRemove
    <3>2. CASE snap[h] \notin snapshots
      <4>1. Moves(h, "idle", Nil, Nil) /\ UNCHANGED snapshotVars
        BY <2>1, <3>1, <3>2 DEF snapshotVars
      <4> QED
        BY <4>1, ClaimsKept
    <3>3. CASE snap[h] \in snapshots
      <4>1. /\ snap[h] \in Snapshot /\ snap[h] \notin listed /\ sources[snap[h]] # "none"
            /\ \A g \in Handler : Claims(g) => snap[g] # snap[h]
        BY <3>3 DEF SnapshotInv, TypeOK
      <4>2. snapshots' \subseteq Snapshot
        BY <3>1 DEF TypeOK
      <4> QED
        BY <2>1, <3>1, <4>1, <4>2, ClaimMoved
    <3> QED
      BY <3>2, <3>3
  <2>6. ReadersHoldSnapshot'
    BY <1>10, <2>1 DEF ReleaseRemove, At, Up, UnchangedBySnapshots, exportVars, flagVars,
           eventVars, fileVars, TypeOK, HandlerOK, Starting, Snapshot, RegistryInv,
           ReadersHoldSnapshot, References, Running, Moves
  <2> QED
    BY <2>2, <2>3, <2>4, <2>5, <2>6
<1>11. CASE Unpin(h)
  <2>1. Moves(h, "idle", Nil, Nil)
    BY <1>11, ReplyMoves DEF Unpin, Stations
  <2>2. TypeOK'
    BY <1>11, <2>1 DEF Unpin, At, Up, UnchangedBySnapshots, exportVars, flagVars, eventVars,
           fileVars, TypeOK, Moves, Stations
  <2>3. HandlerOK'
    BY <1>11, <2>1 DEF Unpin, At, Up, UnchangedBySnapshots, exportVars, flagVars, eventVars,
           fileVars, TypeOK, HandlerOK, Claims, Starting, Snapshot, Moves
  <2>4. RegistryInv'
    BY <1>11, <2>1, RegistryKept DEF Unpin, UnchangedBySnapshots, exportVars, flagVars,
           eventVars, fileVars
  <2>5. SnapshotInv'
    <3>1. /\ UNCHANGED <<snapshots, listed, sources>> /\ pinned' = pinned \ {snap[h]} /\ Claims(h)
      BY <1>11 DEF Unpin, At, Claims
    <3>2. /\ snap[h] \in Snapshot /\ snap[h] \notin snapshots \cup listed
          /\ sources[snap[h]] # "none"
          /\ \A g \in Handler : g # h /\ Claims(g) => snap[g] # snap[h]
      BY <3>1 DEF SnapshotInv, HandlerOK
    <3>3. snapshots \subseteq Snapshot
      BY DEF TypeOK
    <3> QED
      BY <2>1, <3>1, <3>2, <3>3, ClaimMoved
  <2>6. ReadersHoldSnapshot'
    BY <1>11, <2>1 DEF Unpin, At, Up, UnchangedBySnapshots, exportVars, flagVars, eventVars,
           fileVars, TypeOK, HandlerOK, Starting, Snapshot, RegistryInv, ReadersHoldSnapshot,
           References, Running, Moves
  <2> QED
    BY <2>2, <2>3, <2>4, <2>5, <2>6
<1>12. CASE ReleaseFiles(h)
  <2>1. Moves(h, "insert", snap[h], exp[h]) \/ Moves(h, "idle", Nil, Nil)
    BY <1>12, AdvanceMoves, ReplyMoves DEF ReleaseFiles, Stations
  <2>2. snap[h] \in Snapshot /\ sources[snap[h]] # "none" /\ Claims(h)
    BY <1>12 DEF ReleaseFiles, At, HandlerOK, SnapshotInv, Claims
  <2>3. /\ sources' \in [Snapshot -> {"none", "whole", "partial", "gone"}]
        /\ sources'[snap[h]] # "none" /\ faults' \in Nat
        /\ \A x \in Snapshot : x # snap[h] => sources'[x] = sources[x]
    BY <1>12, <2>2, DeleteKeeps DEF ReleaseFiles
  <2>4. TypeOK'
    BY <1>12, <2>1, <2>2, <2>3 DEF ReleaseFiles, At, Up, UnchangedBySnapshots, exportVars,
           flagVars, eventVars, fileVars, TypeOK, Moves, Stations
  <2>5. HandlerOK'
    BY <1>12, <2>1, <2>2, <2>3 DEF ReleaseFiles, At, Up, UnchangedBySnapshots, exportVars,
           flagVars, eventVars, fileVars, TypeOK, HandlerOK, Claims, Starting, Snapshot,
           Moves
  <2>6. RegistryInv'
    BY <1>12, <2>1, RegistryKept DEF ReleaseFiles, UnchangedBySnapshots, exportVars, flagVars,
           eventVars, fileVars
  <2>7. SnapshotInv'
    <3>1. UNCHANGED <<snapshots, listed, pinned>> /\ Claims(h) /\ snap[h] \notin Live
      BY <1>12 DEF ReleaseFiles, At, Claims
    <3>2. /\ snap[h] \in Snapshot /\ snap[h] \notin snapshots \cup listed
          /\ sources[snap[h]] # "none"
          /\ \A g \in Handler : g # h /\ Claims(g) => snap[g] # snap[h]
      BY <3>1 DEF SnapshotInv, HandlerOK
    <3>3. snapshots \subseteq Snapshot
      BY DEF TypeOK
    <3> QED
      BY <2>1, <2>3, <3>1, <3>2, <3>3, ClaimMoved
  <2>8. ReadersHoldSnapshot'
    BY <1>12, <2>1, <2>2, <2>3 DEF ReleaseFiles, At, Up, UnchangedBySnapshots, exportVars,
           flagVars, eventVars, fileVars, TypeOK, HandlerOK, Starting, Snapshot, RegistryInv,
           ReadersHoldSnapshot, References, Running, Moves
  <2> QED
    BY <2>4, <2>5, <2>6, <2>7, <2>8
<1>13. CASE Lookup(h)
  <2>1. \/ Moves(h, "spawn", snap[h], exp[h]) /\ snap[h] \in snapshots
        \/ Moves(h, "missing", snap[h], exp[h])
    BY <1>13, AdvanceMoves DEF Lookup, Stations
  <2>2. TypeOK'
    BY <1>13, <2>1 DEF Lookup, At, Up, snapshotVars, exportVars, flagVars, eventVars,
           fileVars, TypeOK, Moves, Stations
  <2>3. HandlerOK'
    BY <1>13, <2>1 DEF Lookup, At, Up, snapshotVars, exportVars, flagVars, eventVars,
           fileVars, TypeOK, HandlerOK, Claims, Starting, Snapshot, Moves
  <2>4. RegistryInv'
    <3>1. UNCHANGED <<exports, of, task, snapshots>> /\ step[h] = "lookup"
      BY <1>13 DEF Lookup, At, exportVars, snapshotVars
    <3> QED
      BY <2>1, <3>1 DEF RegistryInv, Moves, Starting, References
  <2>5. SnapshotInv'
    BY <1>13, <2>1, ClaimsKept DEF Lookup, snapshotVars
  <2>6. ReadersHoldSnapshot'
    BY <1>13, <2>1 DEF Lookup, At, Up, snapshotVars, exportVars, flagVars, eventVars,
           fileVars, TypeOK, HandlerOK, Starting, Snapshot, RegistryInv, ReadersHoldSnapshot,
           References, Running, Moves
  <2> QED
    BY <2>2, <2>3, <2>4, <2>5, <2>6
<1>14. CASE SnapshotMissing(h)
  <2>1. Moves(h, "idle", Nil, Nil)
    BY <1>14, ReplyMoves DEF SnapshotMissing, Stations
  <2>2. TypeOK'
    BY <1>14, <2>1 DEF SnapshotMissing, At, Up, ExportsUnlocked, snapshotVars, flagVars,
           eventVars, fileVars, TypeOK, Moves, Stations
  <2>3. HandlerOK'
    BY <1>14, <2>1 DEF SnapshotMissing, At, Up, ExportsUnlocked, snapshotVars, flagVars,
           eventVars, fileVars, TypeOK, HandlerOK, Claims, Starting, Snapshot, Moves
  <2>4. RegistryInv'
    <3>1. UNCHANGED <<of, task, snapshots>> /\ exports' = exports \ {exp[h]} /\ Starting(h)
      BY <1>14 DEF SnapshotMissing, At, snapshotVars, Starting
    <3> QED
      BY <2>1, <3>1 DEF RegistryInv, Moves, Starting, References
  <2>5. SnapshotInv'
    BY <1>14, <2>1, ClaimsKept DEF SnapshotMissing, snapshotVars
  <2>6. ReadersHoldSnapshot'
    BY <1>14, <2>1 DEF SnapshotMissing, At, Up, ExportsUnlocked, snapshotVars, flagVars,
           eventVars, fileVars, TypeOK, HandlerOK, Starting, Snapshot, RegistryInv,
           ReadersHoldSnapshot, References, Running, Moves
  <2> QED
    BY <2>2, <2>3, <2>4, <2>5, <2>6
<1>15. CASE Spawn(h)
  <2>1. Moves(h, "idle", Nil, Nil)
    BY <1>15, ReplyMoves DEF Spawn, Stations
  <2>2. exp[h] \in Export
    BY <1>15 DEF Spawn, At, HandlerOK, Claims, Starting
  <2>3. TypeOK'
    BY <1>15, <2>1, <2>2 DEF Spawn, At, Up, snapshotVars, exportVars, flagVars, eventVars,
           fileVars, TypeOK, Moves, Stations
  <2>4. HandlerOK'
    BY <1>15, <2>1, <2>2 DEF Spawn, At, Up, snapshotVars, exportVars, flagVars, eventVars,
           fileVars, TypeOK, HandlerOK, Claims, Starting, Snapshot, Moves
  <2>5. RegistryInv'
    <3>1. /\ UNCHANGED <<exports, of, snapshots>> /\ Starting(h)
          /\ \A x \in Export : x # exp[h] => task'[x] = task[x]
      BY <1>15 DEF Spawn, At, exportVars, snapshotVars, Starting, TypeOK
    <3>2. of[exp[h]] # Nil
      BY <3>1, <2>2, <1>15 DEF RegistryInv, Spawn, At, HandlerOK, TypeOK, Claims
    <3>3. \A g \in Handler : Starting(g) => exp[g] \in Export
      BY DEF HandlerOK
    <3> QED
      BY <2>1, <2>2, <3>1, <3>2, <3>3 DEF RegistryInv, Moves, Starting, References
  <2>6. SnapshotInv'
    BY <1>15, <2>1, ClaimsKept DEF Spawn, snapshotVars
  <2>7. ReadersHoldSnapshot'
    BY <1>15, <2>1, <2>2 DEF Spawn, At, Up, snapshotVars, exportVars, flagVars, eventVars,
           fileVars, TypeOK, HandlerOK, Starting, Snapshot, RegistryInv, ReadersHoldSnapshot,
           References, Running, Moves
  <2> QED
    BY <2>3, <2>4, <2>5, <2>6, <2>7
<1>16. CASE CancelSend(h)
  <2>1. Moves(h, "idle", Nil, Nil)
    BY <1>16, ReplyMoves DEF CancelSend, Stations
  <2>2. exp[h] \in Export
    BY <1>16 DEF CancelSend, At, HandlerOK, Claims, Starting
  <2>3. TypeOK'
    BY <1>16, <2>1, <2>2 DEF CancelSend, At, Up, snapshotVars, exportVars, eventVars,
           fileVars, TypeOK, Moves, Stations
  <2>4. HandlerOK'
    BY <1>16, <2>1, <2>2 DEF CancelSend, At, Up, snapshotVars, exportVars, eventVars,
           fileVars, TypeOK, HandlerOK, Claims, Starting, Snapshot, Moves
  <2>5. RegistryInv'
    BY <1>16, <2>1, RegistryKept DEF CancelSend, snapshotVars, exportVars, eventVars,
           fileVars
  <2>6. SnapshotInv'
    BY <1>16, <2>1, ClaimsKept DEF CancelSend, snapshotVars
  <2>7. ReadersHoldSnapshot'
    BY <1>16, <2>1, <2>2 DEF CancelSend, At, Up, snapshotVars, exportVars, eventVars,
           fileVars, TypeOK, HandlerOK, Starting, Snapshot, RegistryInv, ReadersHoldSnapshot,
           References, Running, Moves
  <2> QED
    BY <2>3, <2>4, <2>5, <2>6, <2>7
<1>17. CASE AbortDispatch(h)
  <2>1. Moves(h, "idle", Nil, Nil)
    BY <1>17, ReplyMoves DEF AbortDispatch, Stations
  <2>2. TypeOK'
    BY <1>17, <2>1 DEF AbortDispatch, At, Up, snapshotVars, exportVars, flagVars, eventVars,
           fileVars, TypeOK, Moves, Stations
  <2>3. HandlerOK'
    BY <1>17, <2>1 DEF AbortDispatch, At, Up, snapshotVars, exportVars, flagVars, eventVars,
           fileVars, TypeOK, HandlerOK, Claims, Starting, Snapshot, Moves
  <2>4. RegistryInv'
    BY <1>17, <2>1, RegistryKept DEF AbortDispatch, snapshotVars, exportVars, flagVars,
           eventVars, fileVars
  <2>5. SnapshotInv'
    BY <1>17, <2>1, ClaimsKept DEF AbortDispatch, snapshotVars
  <2>6. ReadersHoldSnapshot'
    BY <1>17, <2>1 DEF AbortDispatch, At, Up, snapshotVars, exportVars, flagVars, eventVars,
           fileVars, TypeOK, HandlerOK, Starting, Snapshot, RegistryInv, ReadersHoldSnapshot,
           References, Running, Moves
  <2> QED
    BY <2>2, <2>3, <2>4, <2>5, <2>6
<1> QED
  BY <1>1, <1>2, <1>3, <1>4, <1>5, <1>6, <1>7, <1>8, <1>9, <1>10, <1>11, <1>12, <1>13, <1>14, <1>15, <1>16, <1>17 DEF
         Request, HandlerStep

\* Requests touch neither events nor files.
LEMMA HandlerFrame ==
  ASSUME NEW h \in Handler, Request(h) \/ HandlerStep(h) \/ AbortDispatch(h)
  PROVE  Up /\ UNCHANGED <<inMuxing, eventVars, fileVars, out, stage>>
BY DEF Request, HandlerStep, Save, Restore, Discard, ReleaseCheck, ExportStart,
         CancelCheck, InsertSnapshot, DiscardFiles, Relist, ReleaseRemove, Unpin,
         ReleaseFiles, Lookup, SnapshotMissing, Spawn, CancelSend, AbortDispatch,
         UnchangedBySnapshots, flagVars, At

\* Only these touch the files of snapshots.
LEMMA HandlerSources ==
  ASSUME NEW h \in Handler, Request(h) \/ HandlerStep(h) \/ AbortDispatch(h)
  PROVE  \/ \E s \in Snapshot : Save(h, s)
         \/ DiscardFiles(h) \/ ReleaseFiles(h)
         \/ sources' = sources
BY DEF Request, HandlerStep, Restore, Discard, ReleaseCheck, ExportStart, CancelCheck,
         InsertSnapshot, Relist, ReleaseRemove, Unpin, Lookup, SnapshotMissing, Spawn,
         CancelSend, AbortDispatch, snapshotVars

\* Only Spawn touches a task.
LEMMA HandlerTask ==
  ASSUME TypeOK, HandlerOK, RegistryInv, NEW h \in Handler, Request(h) \/ HandlerStep(h) \/ AbortDispatch(h),
         NEW e \in Export
  PROVE  task'[e] = task[e] \/ (task[e] = "none" /\ task'[e] = "checks")
BY DEF TypeOK, HandlerOK, RegistryInv, Starting, At, Request, HandlerStep, Save, Restore,
         Discard, ReleaseCheck, ExportStart, CancelCheck, InsertSnapshot, DiscardFiles,
         Relist, ReleaseRemove, Unpin, ReleaseFiles, Lookup, SnapshotMissing, Spawn,
         CancelSend, AbortDispatch, UnchangedBySnapshots

\* Only ExportStart gives a snapshot and a path, to an export without a task.
LEMMA HandlerRegisters ==
  ASSUME TypeOK, RegistryInv, NEW h \in Handler, Request(h) \/ HandlerStep(h) \/ AbortDispatch(h),
         NEW e \in Export
  PROVE  \/ of'[e] = of[e] /\ path'[e] = path[e]
         \/ task[e] = "none" /\ task'[e] = "none" /\ path'[e] \in Path
BY DEF TypeOK, RegistryInv, Request, HandlerStep, Save, Restore, Discard, ReleaseCheck,
         ExportStart, CancelCheck, InsertSnapshot, DiscardFiles, Relist, ReleaseRemove, Unpin,
         ReleaseFiles, Lookup, SnapshotMissing, Spawn, CancelSend, AbortDispatch,
         UnchangedBySnapshots, exportVars

\* The first event of an export is its only one.
LEMMA FireTells ==
  ASSUME TypeOK, NEW e \in Export, EventOf(e), e \notin fired, NEW ev \in Terminal, Fire(e, ev)
  PROVE  /\ fired' = fired \cup {e} /\ events'[e] = <<ev>>
         /\ \A x \in Export : x # e => events'[x] = events[x]
         /\ events' \in [Export -> Seq(Terminal)]
<1>1. events[e] = <<>> /\ events \in [Export -> Seq(Terminal)]
  BY DEF EventOf, TypeOK, Terminal
<1>2. events' = [events EXCEPT ![e] = Append(<<>>, ev)]
  BY <1>1 DEF Fire
<1>3. Append(<<>>, ev) = <<ev>> /\ <<ev>> \in Seq(Terminal)
  OBVIOUS
<1> QED
  BY <1>1, <1>2, <1>3 DEF Fire

(* The files of e of the kinds K are gone, but for those that stay behind. *)
Removed(e, K) ==
  /\ files' \in [Export -> SUBSET Kind] /\ stuck' \in [Export -> SUBSET Kind] /\ faults' \in Nat
  /\ \A x \in Export : x # e => files'[x] = files[x] /\ stuck'[x] = stuck[x]
  /\ \A k \in Kind :
       /\ k \in K /\ k \in files'[e] => k \in stuck'[e]
       /\ k \notin K => /\ (k \in files'[e] <=> k \in files[e])
                        /\ (k \in stuck'[e] <=> k \in stuck[e])

\* That is what Remove does.
LEMMA RemoveTells ==
  ASSUME TypeOK, NEW e \in Export, NEW K, NEW failed \in Nat, Remove(e, K, failed)
  PROVE  Removed(e, K)
<1>1. PICK left \in SUBSET (files[e] \cap K) :
        /\ files' = [files EXCEPT ![e] = (@ \ K) \cup left]
        /\ stuck' = [stuck EXCEPT ![e] = @ \cup left]
        /\ faults' = faults + failed + (IF left = {} THEN 0 ELSE 1)
  BY DEF Remove
<1>2. files \in [Export -> SUBSET Kind] /\ stuck \in [Export -> SUBSET Kind] /\ faults \in Nat
  BY DEF TypeOK
<1>3. faults' \in Nat
  BY <1>1, <1>2
<1>4. /\ files' \in [Export -> SUBSET Kind] /\ stuck' \in [Export -> SUBSET Kind]
      /\ \A x \in Export : x # e => files'[x] = files[x] /\ stuck'[x] = stuck[x]
      /\ files'[e] = (files[e] \ K) \cup left /\ stuck'[e] = stuck[e] \cup left
  BY <1>1, <1>2
<1> QED
  BY <1>1, <1>3, <1>4 DEF Removed

\* What a task leaves alone.
LEMMA TaskFrame ==
  ASSUME NEW e \in Export, Ffmpeg(e) \/ TaskStep(e) \/ Panic(e)
  PROVE  Up /\ UNCHANGED <<handlerVars, exportsLock, snapshotVars, of, path, cancelled, stage>>
  BY DEF Ffmpeg, TaskStep, StdoutEof, Copied, CopyFails, ChecksFail, SpawnFfmpeg,
         SpawnFfmpegFails, CancelCopy, EnterMuxing, CancelMuxing, CommitToPublish, Publish,
         Unlink, CreateProbe, RemoveProbe,
         PublishFails, WriteHint, OpenPart, CopyPart, CopyPartFails, RenamePart,
         RenamePartFails, RemoveHint, Complete, CompleteFails, Fallback, Unregister, Panic,
         TaskAt, Cancel, UnchangedByTask

\* Where it goes to, and when it leaves the map.
LEMMA TaskGoes ==
  ASSUME TypeOK, NEW e \in Export, Ffmpeg(e) \/ TaskStep(e) \/ Panic(e)
  PROVE  /\ task[e] \notin {"none", "ended"} /\ task'[e] # "none" /\ (Running(e)' => Running(e))
         /\ exports' = exports \/ (exports' = exports \ {e} /\ task'[e] = "ended")
BY DEF TypeOK, Ffmpeg, TaskStep, StdoutEof, Copied, CopyFails, ChecksFail, SpawnFfmpeg,
         SpawnFfmpegFails, CancelCopy, EnterMuxing, CancelMuxing, CommitToPublish, Publish,
         Unlink, CreateProbe, RemoveProbe,
         PublishFails, WriteHint, OpenPart, CopyPart, CopyPartFails, RenamePart,
         RenamePartFails, RemoveHint, Complete, CompleteFails, Fallback, Unregister, Panic,
         TaskAt, Up, TaskGoto, UnchangedByTask, handlerVars, snapshotVars, eventVars,
         fileVars, Return, Fire, Cancel, RenameNoReplace, Fault, Create, Remove, ExportsUnlocked,
         Running

\* Of the other exports it touches nothing.
LEMMA TaskOthers ==
  ASSUME TypeOK, NEW e \in Export, Ffmpeg(e) \/ TaskStep(e) \/ Panic(e)
  PROVE  \A x \in Export : x # e =>
           /\ task'[x] = task[x] /\ events'[x] = events[x]
           /\ (x \in fired' <=> x \in fired) /\ (x \in unhinted' <=> x \in unhinted)
           /\ files'[x] = files[x] /\ stuck'[x] = stuck[x]
BY DEF TypeOK, Ffmpeg, TaskStep, StdoutEof, Copied, CopyFails, ChecksFail, SpawnFfmpeg,
         SpawnFfmpegFails, CancelCopy, EnterMuxing, CancelMuxing, CommitToPublish, Publish,
         Unlink, CreateProbe, RemoveProbe,
         PublishFails, WriteHint, OpenPart, CopyPart, CopyPartFails, RenamePart,
         RenamePartFails, RemoveHint, Complete, CompleteFails, Fallback, Unregister, Panic,
         TaskAt, Up, TaskGoto, UnchangedByTask, handlerVars, snapshotVars, eventVars,
         fileVars, Return, Fire, Cancel, RenameNoReplace, Fault, Create, Remove, ExportsUnlocked,
         Running

\* Nor what is at an output path.
LEMMA TaskOut ==
  ASSUME TypeOK, NEW e \in Export, Ffmpeg(e) \/ TaskStep(e) \/ Panic(e)
  PROVE  /\ out' \in [Path -> Export \cup {UserFile, Nil}]
         /\ \A p \in Path : out[p] # Nil => out'[p] = out[p]
         /\ \A p \in Path : out[p] = Nil => out'[p] \in {Nil, e}
<1>1. CASE RenameNoReplace(e)
  BY <1>1 DEF RenameNoReplace, TypeOK
<1>2. CASE UNCHANGED out
  BY <1>2 DEF TypeOK
<1>3. RenameNoReplace(e) \/ UNCHANGED out
  BY DEF Ffmpeg, TaskStep, StdoutEof, Copied, CopyFails, ChecksFail, SpawnFfmpeg,
         SpawnFfmpegFails, CancelCopy, EnterMuxing, CancelMuxing, CommitToPublish, Publish,
         Unlink, CreateProbe, RemoveProbe,
         PublishFails, WriteHint, OpenPart, CopyPart, CopyPartFails, RenamePart,
         RenamePartFails, RemoveHint, Complete, CompleteFails, Fallback, Unregister, Panic,
         Cancel
<1> QED
  BY <1>1, <1>2, <1>3

\* Tasks keep the types.
LEMMA TaskType ==
  ASSUME TypeOK, NEW e \in Export, Ffmpeg(e) \/ TaskStep(e) \/ Panic(e)
  PROVE  TypeOK'
<1>1. CASE StdoutEof(e)
  BY <1>1 DEF StdoutEof, TaskAt, Up, TaskGoto, UnchangedByTask, handlerVars, snapshotVars,
         eventVars, fileVars, Return, Fault, Running, Create, ExportsUnlocked, TypeOK
<1>2. CASE Copied(e)
  BY <1>2 DEF Copied, TaskAt, Up, TaskGoto, UnchangedByTask, handlerVars, snapshotVars,
         eventVars, fileVars, Return, Fault, Running, Create, ExportsUnlocked, TypeOK
<1>3. CASE CopyFails(e)
  <2>1. Removed(e, {"tmp"})
    BY <1>3, RemoveTells DEF CopyFails
  <2>2. /\ fired' \in SUBSET Export
        /\ events' \in [Export -> Seq(Terminal)]
    BY <1>3 DEF CopyFails, Return, Fire, TypeOK, Terminal
  <2> QED
    BY <1>3, <2>1, <2>2 DEF CopyFails, TaskAt, Up, TaskGoto, UnchangedByTask, handlerVars,
           snapshotVars, eventVars, Return, TypeOK, Removed, Terminal
<1>4. CASE ChecksFail(e)
  <2>1. /\ fired' \in SUBSET Export
        /\ events' \in [Export -> Seq(Terminal)]
    BY <1>4 DEF ChecksFail, Return, Fire, TypeOK, Terminal
  <2> QED
    BY <1>4, <2>1 DEF ChecksFail, TaskAt, Up, TaskGoto, UnchangedByTask, handlerVars,
           snapshotVars, eventVars, fileVars, Return, Fault, Running, Create,
           ExportsUnlocked, TypeOK, Terminal
<1>5. CASE SpawnFfmpeg(e)
  <2>1. files' \in [Export -> SUBSET Kind]
    BY <1>5 DEF SpawnFfmpeg, Create, Kind, TypeOK
  <2> QED
    BY <1>5, <2>1 DEF SpawnFfmpeg, TaskAt, Up, TaskGoto, UnchangedByTask, handlerVars,
           snapshotVars, eventVars, fileVars, Return, Fault, Running, ExportsUnlocked,
           TypeOK
<1>6. CASE SpawnFfmpegFails(e)
  <2>1. files' \in [Export -> SUBSET Kind]
    BY <1>6 DEF SpawnFfmpegFails, Create, Kind, TypeOK
  <2>2. /\ fired' \in SUBSET Export
        /\ events' \in [Export -> Seq(Terminal)]
    BY <1>6 DEF SpawnFfmpegFails, Return, Fire, TypeOK, Terminal
  <2> QED
    BY <1>6, <2>1, <2>2 DEF SpawnFfmpegFails, TaskAt, Up, TaskGoto, UnchangedByTask,
           handlerVars, snapshotVars, eventVars, fileVars, Return, Fault, Running,
           ExportsUnlocked, TypeOK, Terminal
<1>7. CASE CancelCopy(e)
  <2>1. Removed(e, {"tmp", "diag"})
    BY <1>7, RemoveTells DEF CancelCopy, Cancel
  <2>2. /\ fired' \in SUBSET Export
        /\ events' \in [Export -> Seq(Terminal)]
    BY <1>7 DEF CancelCopy, Cancel, Return, Fire, TypeOK, Terminal
  <2> QED
    BY <1>7, <2>1, <2>2 DEF CancelCopy, Cancel, TaskAt, Up, TaskGoto, UnchangedByTask,
           handlerVars, snapshotVars, eventVars, Return, TypeOK, Removed, Terminal
<1>8. CASE EnterMuxing(e)
  BY <1>8 DEF EnterMuxing, TaskAt, Up, TaskGoto, UnchangedByTask, handlerVars, snapshotVars,
         eventVars, fileVars, Return, Fault, Running, Create, ExportsUnlocked, TypeOK
<1>9. CASE CancelMuxing(e)
  <2>1. Removed(e, {"tmp", "diag"})
    BY <1>9, RemoveTells DEF CancelMuxing, Cancel
  <2>2. /\ fired' \in SUBSET Export
        /\ events' \in [Export -> Seq(Terminal)]
    BY <1>9 DEF CancelMuxing, Cancel, Return, Fire, TypeOK, Terminal
  <2> QED
    BY <1>9, <2>1, <2>2 DEF CancelMuxing, Cancel, TaskAt, Up, TaskGoto, UnchangedByTask,
           handlerVars, snapshotVars, eventVars, Return, TypeOK, Removed, Terminal
<1>10. CASE CommitToPublish(e)
  BY <1>10 DEF CommitToPublish, TaskAt, Up, TaskGoto, UnchangedByTask, handlerVars,
         snapshotVars, eventVars, fileVars, Return, Fault, Running, Create, ExportsUnlocked,
         TypeOK
<1>11. CASE Publish(e)
  <2>1. files' \in [Export -> SUBSET Kind]
    <3>1. files' = [files EXCEPT ![e] = @ \ {"tmp"}] \/ files' = files
      BY <1>11 DEF Publish
    <3>2. files \in [Export -> SUBSET Kind] /\ files[e] \ {"tmp"} \in SUBSET Kind
      BY DEF TypeOK
    <3> QED
      BY <3>1, <3>2
  <2>2. out' \in [Path -> Export \cup {UserFile, Nil}]
    BY TaskOut
  <2> QED
    BY <1>11, <2>1, <2>2 DEF Publish, TaskAt, Up, TaskGoto, UnchangedByTask, handlerVars,
           snapshotVars, eventVars, fileVars, Return, Fault, Running, ExportsUnlocked,
           TypeOK
<1>12. CASE Unlink(e)
  <2>1. Removed(e, {"tmp"})
    BY <1>12, RemoveTells DEF Unlink
  <2> QED
    BY <1>12, <2>1 DEF Unlink, TaskAt, Up, TaskGoto, UnchangedByTask, handlerVars,
           snapshotVars, eventVars, Return, TypeOK, Removed
<1>13. CASE PublishFails(e)
  <2>1. Removed(e, {"tmp"})
    BY <1>13, RemoveTells DEF PublishFails, RenameFault
  <2>2. /\ fired' \in SUBSET Export
        /\ events' \in [Export -> Seq(Terminal)]
    BY <1>13 DEF PublishFails, Return, Fire, TypeOK, Terminal
  <2> QED
    BY <1>13, <2>1, <2>2 DEF PublishFails, TaskAt, Up, TaskGoto, UnchangedByTask,
           handlerVars, snapshotVars, eventVars, Return, TypeOK, Removed, Terminal
<1>14. CASE WriteHint(e)
  <2>1. files' \in [Export -> SUBSET Kind]
    <3>1. PICK K \in SUBSET {"hint"} : files' = [files EXCEPT ![e] = @ \cup K]
      BY <1>14 DEF WriteHint, Create
    <3> QED
      BY <3>1 DEF TypeOK, Kind
  <2>2. faults' \in Nat /\ unhinted' \subseteq Export
    BY <1>14 DEF WriteHint, Fault, TypeOK
  <2> QED
    BY <1>14, <2>1, <2>2 DEF WriteHint, TaskAt, Up, TaskGoto, UnchangedByTask, handlerVars,
           snapshotVars, eventVars, TypeOK
<1>15. CASE CreateProbe(e)
  <2>1. files' \in [Export -> SUBSET Kind]
    BY <1>15 DEF CreateProbe, Create, Kind, TypeOK
  <2> QED
    BY <1>15, <2>1 DEF CreateProbe, TaskAt, Up, TaskGoto, UnchangedByTask, handlerVars,
           snapshotVars, eventVars, fileVars, Return, Fault, Running, ExportsUnlocked,
           TypeOK
<1>16. CASE RemoveProbe(e)
  <2>1. Removed(e, {"probe"})
    BY <1>16, RemoveTells DEF RemoveProbe
  <2> QED
    BY <1>16, <2>1 DEF RemoveProbe, TaskAt, Up, TaskGoto, UnchangedByTask, handlerVars,
           snapshotVars, eventVars, Return, TypeOK, Removed
<1>17. CASE OpenPart(e)
  <2>1. files' \in [Export -> SUBSET Kind]
    BY <1>17 DEF OpenPart, Create, Kind, TypeOK
  <2> QED
    BY <1>17, <2>1 DEF OpenPart, TaskAt, Up, TaskGoto, UnchangedByTask, handlerVars,
           snapshotVars, eventVars, fileVars, Return, Fault, Running, ExportsUnlocked,
           TypeOK
<1>18. CASE CopyPart(e)
  <2>1. Removed(e, {"tmp"})
    BY <1>18, RemoveTells DEF CopyPart
  <2> QED
    BY <1>18, <2>1 DEF CopyPart, TaskAt, Up, TaskGoto, UnchangedByTask, handlerVars,
           snapshotVars, eventVars, Return, TypeOK, Removed
<1>19. CASE CopyPartFails(e)
  <2>1. Removed(e, {"probe", "tmp", "part", "hint"})
    BY <1>19, RemoveTells DEF CopyPartFails
  <2>2. /\ fired' \in SUBSET Export
        /\ events' \in [Export -> Seq(Terminal)]
    BY <1>19 DEF CopyPartFails, Return, Fire, TypeOK, Terminal
  <2> QED
    BY <1>19, <2>1, <2>2 DEF CopyPartFails, TaskAt, Up, TaskGoto, UnchangedByTask,
           handlerVars, snapshotVars, eventVars, Return, TypeOK, Removed, Terminal
<1>20. CASE RenamePart(e)
  <2>1. files' \in [Export -> SUBSET Kind]
    <3>1. files' = [files EXCEPT ![e] = @ \ {"part"}] \/ files' = files
      BY <1>20 DEF RenamePart
    <3>2. files \in [Export -> SUBSET Kind] /\ files[e] \ {"part"} \in SUBSET Kind
      BY DEF TypeOK
    <3> QED
      BY <3>1, <3>2
  <2>2. out' \in [Path -> Export \cup {UserFile, Nil}]
    BY TaskOut
  <2> QED
    BY <1>20, <2>1, <2>2 DEF RenamePart, TaskAt, Up, TaskGoto, UnchangedByTask, handlerVars,
           snapshotVars, eventVars, fileVars, Return, Fault, Running, ExportsUnlocked,
           TypeOK
<1>21. CASE RenamePartFails(e)
  <2>1. Removed(e, {"part", "hint"})
    BY <1>21, RemoveTells DEF RenamePartFails, RenameFault
  <2>2. /\ fired' \in SUBSET Export
        /\ events' \in [Export -> Seq(Terminal)]
    BY <1>21 DEF RenamePartFails, Return, Fire, TypeOK, Terminal
  <2> QED
    BY <1>21, <2>1, <2>2 DEF RenamePartFails, TaskAt, Up, TaskGoto, UnchangedByTask,
           handlerVars, snapshotVars, eventVars, Return, TypeOK, Removed, Terminal
<1>22. CASE RemoveHint(e)
  <2>1. Removed(e, {"part", "hint"})
    BY <1>22, RemoveTells DEF RemoveHint
  <2> QED
    BY <1>22, <2>1 DEF RemoveHint, TaskAt, Up, TaskGoto, UnchangedByTask, handlerVars,
           snapshotVars, eventVars, Return, TypeOK, Removed
<1>23. CASE Complete(e)
  <2>1. Removed(e, {"diag"})
    BY <1>23, RemoveTells DEF Complete
  <2>2. /\ fired' \in SUBSET Export
        /\ events' \in [Export -> Seq(Terminal)]
    BY <1>23 DEF Complete, Return, Fire, TypeOK, Terminal
  <2> QED
    BY <1>23, <2>1, <2>2 DEF Complete, TaskAt, Up, TaskGoto, UnchangedByTask, handlerVars,
           snapshotVars, eventVars, Return, TypeOK, Removed, Terminal
<1>24. CASE CompleteFails(e)
  <2>1. /\ fired' \in SUBSET Export
        /\ events' \in [Export -> Seq(Terminal)]
    BY <1>24 DEF CompleteFails, Return, Fire, TypeOK, Terminal
  <2>2. faults' \in Nat
    BY <1>24 DEF CompleteFails, Fault, TypeOK
  <2> QED
    BY <1>24, <2>1, <2>2 DEF CompleteFails, TaskAt, Up, TaskGoto, UnchangedByTask,
           handlerVars, snapshotVars, eventVars, fileVars, Return, TypeOK, Terminal
<1>25. CASE Fallback(e)
  <2>1. /\ fired' \in SUBSET Export
        /\ events' \in [Export -> Seq(Terminal)]
    BY <1>25 DEF Fallback, Return, Fire, TypeOK, Terminal
  <2> QED
    BY <1>25, <2>1 DEF Fallback, TaskAt, Up, TaskGoto, UnchangedByTask, handlerVars,
           snapshotVars, eventVars, fileVars, Return, Fault, Running, Create,
           ExportsUnlocked, TypeOK, Terminal
<1>26. CASE Unregister(e)
  BY <1>26 DEF Unregister, TaskAt, Up, TaskGoto, UnchangedByTask, handlerVars, snapshotVars,
         eventVars, fileVars, Return, Fault, Running, Create, ExportsUnlocked, TypeOK
<1>27. CASE Panic(e)
  BY <1>27 DEF Panic, TaskAt, Up, TaskGoto, UnchangedByTask, handlerVars, snapshotVars,
         eventVars, fileVars, Return, Fault, Running, Create, ExportsUnlocked, TypeOK
<1> QED
  BY <1>1, <1>2, <1>3, <1>4, <1>5, <1>6, <1>7, <1>8, <1>9, <1>10, <1>11, <1>12, <1>13,
         <1>14, <1>15, <1>16, <1>17, <1>18, <1>19, <1>20, <1>21, <1>22, <1>23, <1>24, <1>25,
         <1>26, <1>27 DEF Ffmpeg, TaskStep

\* What a task does to its own export: at each station the event it has emitted,
\* its files and its output path agree.
LEMMA TaskExport ==
  ASSUME IInv, NEW e \in Export, Ffmpeg(e) \/ TaskStep(e) \/ Panic(e)
  PROVE  ExportOf(e)'
<1> USE DEF Terminal
<1>0. /\ TypeOK /\ EventOf(e) /\ FilesOf(e) /\ OutOf(e) /\ MatchOf(e) /\ LeftOf(e)
      /\ task[e] # "none" => path[e] \in Path
  BY DEF IInv, ExportInv, ExportOf, RegistryInv, OutOf
<1>1. CASE StdoutEof(e)
  <2>1. EventOf(e)'
    BY <1>0, <1>1 DEF StdoutEof, TaskAt, Up, TaskGoto, UnchangedByTask, eventVars, fileVars,
           Running, Fault, ExportsUnlocked, RenameNoReplace, Create, TypeOK, EventOf
  <2>2. FilesOf(e)'
    BY <1>0, <1>1 DEF StdoutEof, TaskAt, Up, TaskGoto, UnchangedByTask, eventVars, fileVars,
           Running, Fault, ExportsUnlocked, RenameNoReplace, Create, TypeOK, FilesOf, Has,
           Hinted, Kind
  <2>3. OutOf(e)'
    BY <1>0, <1>1 DEF StdoutEof, TaskAt, Up, TaskGoto, UnchangedByTask, eventVars, fileVars,
           Running, Fault, ExportsUnlocked, RenameNoReplace, Create, TypeOK, OutOf
  <2>4. MatchOf(e)'
    BY <1>0, <1>1 DEF StdoutEof, TaskAt, Up, TaskGoto, UnchangedByTask, eventVars, fileVars,
           Running, Fault, ExportsUnlocked, RenameNoReplace, Create, TypeOK, MatchOf, OutOf,
           EventOf
  <2>5. LeftOf(e)'
    BY <1>0, <1>1 DEF StdoutEof, TaskAt, Up, TaskGoto, UnchangedByTask, eventVars, fileVars,
           Running, Fault, ExportsUnlocked, RenameNoReplace, Create, TypeOK, LeftOf,
           EventOf, FilesOf, Has, Kind
  <2> QED
    BY <2>1, <2>2, <2>3, <2>4, <2>5 DEF ExportOf
<1>2. CASE Copied(e)
  <2>1. EventOf(e)'
    BY <1>0, <1>2 DEF Copied, TaskAt, Up, TaskGoto, UnchangedByTask, eventVars, fileVars,
           Running, Fault, ExportsUnlocked, RenameNoReplace, Create, TypeOK, EventOf
  <2>2. FilesOf(e)'
    BY <1>0, <1>2 DEF Copied, TaskAt, Up, TaskGoto, UnchangedByTask, eventVars, fileVars,
           Running, Fault, ExportsUnlocked, RenameNoReplace, Create, TypeOK, FilesOf, Has,
           Hinted, Kind
  <2>3. OutOf(e)'
    BY <1>0, <1>2 DEF Copied, TaskAt, Up, TaskGoto, UnchangedByTask, eventVars, fileVars,
           Running, Fault, ExportsUnlocked, RenameNoReplace, Create, TypeOK, OutOf
  <2>4. MatchOf(e)'
    BY <1>0, <1>2 DEF Copied, TaskAt, Up, TaskGoto, UnchangedByTask, eventVars, fileVars,
           Running, Fault, ExportsUnlocked, RenameNoReplace, Create, TypeOK, MatchOf, OutOf,
           EventOf
  <2>5. LeftOf(e)'
    BY <1>0, <1>2 DEF Copied, TaskAt, Up, TaskGoto, UnchangedByTask, eventVars, fileVars,
           Running, Fault, ExportsUnlocked, RenameNoReplace, Create, TypeOK, LeftOf,
           EventOf, FilesOf, Has, Kind
  <2> QED
    BY <2>1, <2>2, <2>3, <2>4, <2>5 DEF ExportOf
<1>3. CASE CopyFails(e)
  <2>1. Removed(e, {"tmp"})
    BY <1>0, <1>3, RemoveTells DEF CopyFails
  <2>2. e \notin fired /\ Fire(e, "failed")
    BY <1>0, <1>3 DEF CopyFails, TaskAt, Up, Return, fileVars, EventOf
  <2>3. fired' = fired \cup {e} /\ events'[e] = <<"failed">>
    BY <1>0, <2>2, FireTells
  <2>4. EventOf(e)'
    BY <1>0, <1>3, <2>1, <2>3 DEF CopyFails, TaskAt, Up, TaskGoto, UnchangedByTask,
           fileVars, Return, RenameNoReplace, Create, Removed, TypeOK, EventOf
  <2>5. FilesOf(e)'
    BY <1>0, <1>3, <2>1, <2>3 DEF CopyFails, TaskAt, Up, TaskGoto, UnchangedByTask,
           fileVars, Return, RenameNoReplace, Create, Removed, TypeOK, FilesOf, Has, Hinted,
           Kind
  <2>6. OutOf(e)'
    BY <1>0, <1>3, <2>1, <2>3 DEF CopyFails, TaskAt, Up, TaskGoto, UnchangedByTask,
           fileVars, Return, RenameNoReplace, Create, Removed, TypeOK, OutOf
  <2>7. MatchOf(e)'
    BY <1>0, <1>3, <2>1, <2>3 DEF CopyFails, TaskAt, Up, TaskGoto, UnchangedByTask,
           fileVars, Return, RenameNoReplace, Create, Removed, TypeOK, MatchOf, OutOf,
           EventOf
  <2>8. LeftOf(e)'
    BY <1>0, <1>3, <2>1, <2>3 DEF CopyFails, TaskAt, Up, TaskGoto, UnchangedByTask,
           fileVars, Return, RenameNoReplace, Create, Removed, TypeOK, LeftOf, EventOf,
           FilesOf, Has, Kind
  <2> QED
    BY <2>4, <2>5, <2>6, <2>7, <2>8 DEF ExportOf
<1>4. CASE ChecksFail(e)
  <2>1. e \notin fired /\ Fire(e, "failed")
    BY <1>0, <1>4 DEF ChecksFail, TaskAt, Up, Return, fileVars, EventOf
  <2>2. fired' = fired \cup {e} /\ events'[e] = <<"failed">>
    BY <1>0, <2>1, FireTells
  <2>3. EventOf(e)'
    BY <1>0, <1>4, <2>2 DEF ChecksFail, TaskAt, Up, TaskGoto, UnchangedByTask, fileVars,
           Return, RenameNoReplace, Create, TypeOK, EventOf
  <2>4. FilesOf(e)'
    BY <1>0, <1>4, <2>2 DEF ChecksFail, TaskAt, Up, TaskGoto, UnchangedByTask, fileVars,
           Return, RenameNoReplace, Create, TypeOK, FilesOf, Has, Hinted, Kind
  <2>5. OutOf(e)'
    BY <1>0, <1>4, <2>2 DEF ChecksFail, TaskAt, Up, TaskGoto, UnchangedByTask, fileVars,
           Return, RenameNoReplace, Create, TypeOK, OutOf
  <2>6. MatchOf(e)'
    BY <1>0, <1>4, <2>2 DEF ChecksFail, TaskAt, Up, TaskGoto, UnchangedByTask, fileVars,
           Return, RenameNoReplace, Create, TypeOK, MatchOf, OutOf, EventOf
  <2>7. LeftOf(e)'
    BY <1>0, <1>4, <2>2 DEF ChecksFail, TaskAt, Up, TaskGoto, UnchangedByTask, fileVars,
           Return, RenameNoReplace, Create, TypeOK, LeftOf, EventOf, FilesOf, Has, Kind
  <2> QED
    BY <2>3, <2>4, <2>5, <2>6, <2>7 DEF ExportOf
<1>5. CASE SpawnFfmpeg(e)
  <2>1. EventOf(e)'
    BY <1>0, <1>5 DEF SpawnFfmpeg, TaskAt, Up, TaskGoto, UnchangedByTask, eventVars,
           fileVars, Running, Fault, ExportsUnlocked, RenameNoReplace, Create, TypeOK,
           EventOf
  <2>2. FilesOf(e)'
    BY <1>0, <1>5 DEF SpawnFfmpeg, TaskAt, Up, TaskGoto, UnchangedByTask, eventVars,
           fileVars, Running, Fault, ExportsUnlocked, RenameNoReplace, Create, TypeOK,
           FilesOf, Has, Hinted, Kind
  <2>3. OutOf(e)'
    BY <1>0, <1>5 DEF SpawnFfmpeg, TaskAt, Up, TaskGoto, UnchangedByTask, eventVars,
           fileVars, Running, Fault, ExportsUnlocked, RenameNoReplace, Create, TypeOK, OutOf
  <2>4. MatchOf(e)'
    BY <1>0, <1>5 DEF SpawnFfmpeg, TaskAt, Up, TaskGoto, UnchangedByTask, eventVars,
           fileVars, Running, Fault, ExportsUnlocked, RenameNoReplace, Create, TypeOK,
           MatchOf, OutOf, EventOf
  <2>5. LeftOf(e)'
    BY <1>0, <1>5 DEF SpawnFfmpeg, TaskAt, Up, TaskGoto, UnchangedByTask, eventVars,
           fileVars, Running, Fault, ExportsUnlocked, RenameNoReplace, Create, TypeOK,
           LeftOf, EventOf, FilesOf, Has, Kind
  <2> QED
    BY <2>1, <2>2, <2>3, <2>4, <2>5 DEF ExportOf
<1>6. CASE SpawnFfmpegFails(e)
  <2>1. e \notin fired /\ Fire(e, "failed")
    BY <1>0, <1>6 DEF SpawnFfmpegFails, TaskAt, Up, Return, fileVars, EventOf
  <2>2. fired' = fired \cup {e} /\ events'[e] = <<"failed">>
    BY <1>0, <2>1, FireTells
  <2>3. EventOf(e)'
    BY <1>0, <1>6, <2>2 DEF SpawnFfmpegFails, TaskAt, Up, TaskGoto, UnchangedByTask,
           fileVars, Return, RenameNoReplace, Create, TypeOK, EventOf
  <2>4. FilesOf(e)'
    BY <1>0, <1>6, <2>2 DEF SpawnFfmpegFails, TaskAt, Up, TaskGoto, UnchangedByTask,
           fileVars, Return, RenameNoReplace, Create, TypeOK, FilesOf, Has, Hinted, Kind
  <2>5. OutOf(e)'
    BY <1>0, <1>6, <2>2 DEF SpawnFfmpegFails, TaskAt, Up, TaskGoto, UnchangedByTask,
           fileVars, Return, RenameNoReplace, Create, TypeOK, OutOf
  <2>6. MatchOf(e)'
    BY <1>0, <1>6, <2>2 DEF SpawnFfmpegFails, TaskAt, Up, TaskGoto, UnchangedByTask,
           fileVars, Return, RenameNoReplace, Create, TypeOK, MatchOf, OutOf, EventOf
  <2>7. LeftOf(e)'
    BY <1>0, <1>6, <2>2 DEF SpawnFfmpegFails, TaskAt, Up, TaskGoto, UnchangedByTask,
           fileVars, Return, RenameNoReplace, Create, TypeOK, LeftOf, EventOf, FilesOf, Has,
           Kind
  <2> QED
    BY <2>3, <2>4, <2>5, <2>6, <2>7 DEF ExportOf
<1>7. CASE CancelCopy(e)
  <2>1. Removed(e, {"tmp", "diag"})
    BY <1>0, <1>7, RemoveTells DEF CancelCopy, Cancel
  <2>2. e \notin fired /\ Fire(e, "cancelled")
    BY <1>0, <1>7 DEF CancelCopy, Cancel, TaskAt, Up, Return, fileVars, EventOf
  <2>3. fired' = fired \cup {e} /\ events'[e] = <<"cancelled">>
    BY <1>0, <2>2, FireTells
  <2>4. EventOf(e)'
    BY <1>0, <1>7, <2>1, <2>3 DEF CancelCopy, Cancel, TaskAt, Up, TaskGoto, UnchangedByTask,
           fileVars, Return, RenameNoReplace, Create, Removed, TypeOK, EventOf
  <2>5. FilesOf(e)'
    BY <1>0, <1>7, <2>1, <2>3 DEF CancelCopy, Cancel, TaskAt, Up, TaskGoto, UnchangedByTask,
           fileVars, Return, RenameNoReplace, Create, Removed, TypeOK, FilesOf, Has, Hinted,
           Kind
  <2>6. OutOf(e)'
    BY <1>0, <1>7, <2>1, <2>3 DEF CancelCopy, Cancel, TaskAt, Up, TaskGoto, UnchangedByTask,
           fileVars, Return, RenameNoReplace, Create, Removed, TypeOK, OutOf
  <2>7. MatchOf(e)'
    BY <1>0, <1>7, <2>1, <2>3 DEF CancelCopy, Cancel, TaskAt, Up, TaskGoto, UnchangedByTask,
           fileVars, Return, RenameNoReplace, Create, Removed, TypeOK, MatchOf, OutOf,
           EventOf
  <2>8. LeftOf(e)'
    BY <1>0, <1>7, <2>1, <2>3 DEF CancelCopy, Cancel, TaskAt, Up, TaskGoto, UnchangedByTask,
           fileVars, Return, RenameNoReplace, Create, Removed, TypeOK, LeftOf, EventOf,
           FilesOf, Has, Kind
  <2> QED
    BY <2>4, <2>5, <2>6, <2>7, <2>8 DEF ExportOf
<1>8. CASE EnterMuxing(e)
  <2>1. EventOf(e)'
    BY <1>0, <1>8 DEF EnterMuxing, TaskAt, Up, TaskGoto, UnchangedByTask, eventVars,
           fileVars, Running, Fault, ExportsUnlocked, RenameNoReplace, Create, TypeOK,
           EventOf
  <2>2. FilesOf(e)'
    BY <1>0, <1>8 DEF EnterMuxing, TaskAt, Up, TaskGoto, UnchangedByTask, eventVars,
           fileVars, Running, Fault, ExportsUnlocked, RenameNoReplace, Create, TypeOK,
           FilesOf, Has, Hinted, Kind
  <2>3. OutOf(e)'
    BY <1>0, <1>8 DEF EnterMuxing, TaskAt, Up, TaskGoto, UnchangedByTask, eventVars,
           fileVars, Running, Fault, ExportsUnlocked, RenameNoReplace, Create, TypeOK, OutOf
  <2>4. MatchOf(e)'
    BY <1>0, <1>8 DEF EnterMuxing, TaskAt, Up, TaskGoto, UnchangedByTask, eventVars,
           fileVars, Running, Fault, ExportsUnlocked, RenameNoReplace, Create, TypeOK,
           MatchOf, OutOf, EventOf
  <2>5. LeftOf(e)'
    BY <1>0, <1>8 DEF EnterMuxing, TaskAt, Up, TaskGoto, UnchangedByTask, eventVars,
           fileVars, Running, Fault, ExportsUnlocked, RenameNoReplace, Create, TypeOK,
           LeftOf, EventOf, FilesOf, Has, Kind
  <2> QED
    BY <2>1, <2>2, <2>3, <2>4, <2>5 DEF ExportOf
<1>9. CASE CancelMuxing(e)
  <2>1. Removed(e, {"tmp", "diag"})
    BY <1>0, <1>9, RemoveTells DEF CancelMuxing, Cancel
  <2>2. e \notin fired /\ Fire(e, "cancelled")
    BY <1>0, <1>9 DEF CancelMuxing, Cancel, TaskAt, Up, Return, fileVars, EventOf
  <2>3. fired' = fired \cup {e} /\ events'[e] = <<"cancelled">>
    BY <1>0, <2>2, FireTells
  <2>4. EventOf(e)'
    BY <1>0, <1>9, <2>1, <2>3 DEF CancelMuxing, Cancel, TaskAt, Up, TaskGoto,
           UnchangedByTask, fileVars, Return, RenameNoReplace, Create, Removed, TypeOK,
           EventOf
  <2>5. FilesOf(e)'
    BY <1>0, <1>9, <2>1, <2>3 DEF CancelMuxing, Cancel, TaskAt, Up, TaskGoto,
           UnchangedByTask, fileVars, Return, RenameNoReplace, Create, Removed, TypeOK,
           FilesOf, Has, Hinted, Kind
  <2>6. OutOf(e)'
    BY <1>0, <1>9, <2>1, <2>3 DEF CancelMuxing, Cancel, TaskAt, Up, TaskGoto,
           UnchangedByTask, fileVars, Return, RenameNoReplace, Create, Removed, TypeOK,
           OutOf
  <2>7. MatchOf(e)'
    BY <1>0, <1>9, <2>1, <2>3 DEF CancelMuxing, Cancel, TaskAt, Up, TaskGoto,
           UnchangedByTask, fileVars, Return, RenameNoReplace, Create, Removed, TypeOK,
           MatchOf, OutOf, EventOf
  <2>8. LeftOf(e)'
    BY <1>0, <1>9, <2>1, <2>3 DEF CancelMuxing, Cancel, TaskAt, Up, TaskGoto,
           UnchangedByTask, fileVars, Return, RenameNoReplace, Create, Removed, TypeOK,
           LeftOf, EventOf, FilesOf, Has, Kind
  <2> QED
    BY <2>4, <2>5, <2>6, <2>7, <2>8 DEF ExportOf
<1>10. CASE CommitToPublish(e)
  <2>1. EventOf(e)'
    BY <1>0, <1>10 DEF CommitToPublish, TaskAt, Up, TaskGoto, UnchangedByTask, eventVars,
           fileVars, Running, Fault, ExportsUnlocked, RenameNoReplace, Create, TypeOK,
           EventOf
  <2>2. FilesOf(e)'
    BY <1>0, <1>10 DEF CommitToPublish, TaskAt, Up, TaskGoto, UnchangedByTask, eventVars,
           fileVars, Running, Fault, ExportsUnlocked, RenameNoReplace, Create, TypeOK,
           FilesOf, Has, Hinted, Kind
  <2>3. OutOf(e)'
    BY <1>0, <1>10 DEF CommitToPublish, TaskAt, Up, TaskGoto, UnchangedByTask, eventVars,
           fileVars, Running, Fault, ExportsUnlocked, RenameNoReplace, Create, TypeOK, OutOf
  <2>4. MatchOf(e)'
    BY <1>0, <1>10 DEF CommitToPublish, TaskAt, Up, TaskGoto, UnchangedByTask, eventVars,
           fileVars, Running, Fault, ExportsUnlocked, RenameNoReplace, Create, TypeOK,
           MatchOf, OutOf, EventOf
  <2>5. LeftOf(e)'
    BY <1>0, <1>10 DEF CommitToPublish, TaskAt, Up, TaskGoto, UnchangedByTask, eventVars,
           fileVars, Running, Fault, ExportsUnlocked, RenameNoReplace, Create, TypeOK,
           LeftOf, EventOf, FilesOf, Has, Kind
  <2> QED
    BY <2>1, <2>2, <2>3, <2>4, <2>5 DEF ExportOf
<1>11. CASE Publish(e)
  <2>1. EventOf(e)'
    BY <1>0, <1>11 DEF Publish, TaskAt, Up, TaskGoto, UnchangedByTask, eventVars, fileVars,
           Running, Fault, ExportsUnlocked, RenameNoReplace, Create, TypeOK, EventOf
  <2>2. FilesOf(e)'
    BY <1>0, <1>11 DEF Publish, TaskAt, Up, TaskGoto, UnchangedByTask, eventVars, fileVars,
           Running, Fault, ExportsUnlocked, RenameNoReplace, Create, TypeOK, FilesOf, Has,
           Hinted, Kind
  <2>3. OutOf(e)'
    BY <1>0, <1>11 DEF Publish, TaskAt, Up, TaskGoto, UnchangedByTask, eventVars, fileVars,
           Running, Fault, ExportsUnlocked, RenameNoReplace, Create, TypeOK, OutOf
  <2>4. MatchOf(e)'
    <3>1. events'[e] = <<>>
      BY <1>0, <1>11 DEF Publish, TaskAt, eventVars, EventOf
    <3> QED
      BY <3>1 DEF MatchOf
  <2>5. LeftOf(e)'
    BY <1>0, <1>11 DEF Publish, TaskAt, Up, TaskGoto, UnchangedByTask, eventVars, fileVars,
           Running, Fault, ExportsUnlocked, RenameNoReplace, Create, TypeOK, LeftOf,
           EventOf, FilesOf, Has, Kind
  <2> QED
    BY <2>1, <2>2, <2>3, <2>4, <2>5 DEF ExportOf
<1>12. CASE Unlink(e)
  <2>1. Removed(e, {"tmp"})
    BY <1>0, <1>12, RemoveTells DEF Unlink
  <2>2. EventOf(e)'
    BY <1>0, <1>12, <2>1 DEF Unlink, TaskAt, Up, TaskGoto, UnchangedByTask, eventVars,
           fileVars, Running, Fault, ExportsUnlocked, RenameNoReplace, Create, Removed,
           TypeOK, EventOf
  <2>3. FilesOf(e)'
    BY <1>0, <1>12, <2>1 DEF Unlink, TaskAt, Up, TaskGoto, UnchangedByTask, eventVars,
           fileVars, Running, Fault, ExportsUnlocked, RenameNoReplace, Create, Removed,
           TypeOK, FilesOf, Has, Hinted, Kind
  <2>4. OutOf(e)'
    BY <1>0, <1>12, <2>1 DEF Unlink, TaskAt, Up, TaskGoto, UnchangedByTask, eventVars,
           fileVars, Running, Fault, ExportsUnlocked, RenameNoReplace, Create, Removed,
           TypeOK, OutOf
  <2>5. MatchOf(e)'
    BY <1>0, <1>12, <2>1 DEF Unlink, TaskAt, Up, TaskGoto, UnchangedByTask, eventVars,
           fileVars, Running, Fault, ExportsUnlocked, RenameNoReplace, Create, Removed,
           TypeOK, MatchOf, OutOf, EventOf
  <2>6. LeftOf(e)'
    BY <1>0, <1>12, <2>1 DEF Unlink, TaskAt, Up, TaskGoto, UnchangedByTask, eventVars,
           fileVars, Running, Fault, ExportsUnlocked, RenameNoReplace, Create, Removed,
           TypeOK, LeftOf, EventOf, FilesOf, Has, Kind
  <2> QED
    BY <2>2, <2>3, <2>4, <2>5, <2>6 DEF ExportOf
<1>13. CASE PublishFails(e)
  <2>1. Removed(e, {"tmp"})
    BY <1>0, <1>13, RemoveTells DEF PublishFails, RenameFault
  <2>2. e \notin fired /\ Fire(e, "failed")
    BY <1>0, <1>13 DEF PublishFails, TaskAt, Up, Return, fileVars, EventOf
  <2>3. fired' = fired \cup {e} /\ events'[e] = <<"failed">>
    BY <1>0, <2>2, FireTells
  <2>4. EventOf(e)'
    BY <1>0, <1>13, <2>1, <2>3 DEF PublishFails, TaskAt, Up, TaskGoto, UnchangedByTask,
           fileVars, Return, RenameNoReplace, Create, Removed, TypeOK, EventOf
  <2>5. FilesOf(e)'
    BY <1>0, <1>13, <2>1, <2>3 DEF PublishFails, TaskAt, Up, TaskGoto, UnchangedByTask,
           fileVars, Return, RenameNoReplace, Create, Removed, TypeOK, FilesOf, Has, Hinted,
           Kind
  <2>6. OutOf(e)'
    BY <1>0, <1>13, <2>1, <2>3 DEF PublishFails, TaskAt, Up, TaskGoto, UnchangedByTask,
           fileVars, Return, RenameNoReplace, Create, Removed, TypeOK, OutOf
  <2>7. MatchOf(e)'
    BY <1>0, <1>13, <2>1, <2>3 DEF PublishFails, TaskAt, Up, TaskGoto, UnchangedByTask,
           fileVars, Return, RenameNoReplace, Create, Removed, TypeOK, MatchOf, OutOf,
           EventOf
  <2>8. LeftOf(e)'
    BY <1>0, <1>13, <2>1, <2>3 DEF PublishFails, TaskAt, Up, TaskGoto, UnchangedByTask,
           fileVars, Return, RenameNoReplace, Create, Removed, TypeOK, LeftOf, EventOf,
           FilesOf, Has, Kind
  <2> QED
    BY <2>4, <2>5, <2>6, <2>7, <2>8 DEF ExportOf
<1>14. CASE WriteHint(e)
  <2>1. EventOf(e)'
    BY <1>0, <1>14 DEF WriteHint, TaskAt, Up, TaskGoto, UnchangedByTask, eventVars,
           fileVars, Running, Fault, ExportsUnlocked, RenameNoReplace, Create, TypeOK,
           EventOf
  <2>2. FilesOf(e)'
    BY <1>0, <1>14 DEF WriteHint, TaskAt, Up, TaskGoto, UnchangedByTask, eventVars,
           fileVars, Running, Fault, ExportsUnlocked, RenameNoReplace, Create, TypeOK,
           FilesOf, Has, Hinted, Kind
  <2>3. OutOf(e)'
    BY <1>0, <1>14 DEF WriteHint, TaskAt, Up, TaskGoto, UnchangedByTask, eventVars,
           fileVars, Running, Fault, ExportsUnlocked, RenameNoReplace, Create, TypeOK, OutOf
  <2>4. MatchOf(e)'
    BY <1>0, <1>14 DEF WriteHint, TaskAt, Up, TaskGoto, UnchangedByTask, eventVars,
           fileVars, Running, Fault, ExportsUnlocked, RenameNoReplace, Create, TypeOK,
           MatchOf, OutOf, EventOf
  <2>5. LeftOf(e)'
    BY <1>0, <1>14 DEF WriteHint, TaskAt, Up, TaskGoto, UnchangedByTask, eventVars,
           fileVars, Running, Fault, ExportsUnlocked, RenameNoReplace, Create, TypeOK,
           LeftOf, EventOf, FilesOf, Has, Kind
  <2> QED
    BY <2>1, <2>2, <2>3, <2>4, <2>5 DEF ExportOf
<1>15. CASE CreateProbe(e)
  <2>1. EventOf(e)'
    BY <1>0, <1>15 DEF CreateProbe, TaskAt, Up, TaskGoto, UnchangedByTask, eventVars,
           fileVars, Running, Fault, ExportsUnlocked, RenameNoReplace, Create, TypeOK,
           EventOf
  <2>2. FilesOf(e)'
    BY <1>0, <1>15 DEF CreateProbe, TaskAt, Up, TaskGoto, UnchangedByTask, eventVars,
           fileVars, Running, Fault, ExportsUnlocked, RenameNoReplace, Create, TypeOK,
           FilesOf, Has, Hinted, Kind
  <2>3. OutOf(e)'
    BY <1>0, <1>15 DEF CreateProbe, TaskAt, Up, TaskGoto, UnchangedByTask, eventVars,
           fileVars, Running, Fault, ExportsUnlocked, RenameNoReplace, Create, TypeOK, OutOf
  <2>4. MatchOf(e)'
    BY <1>0, <1>15 DEF CreateProbe, TaskAt, Up, TaskGoto, UnchangedByTask, eventVars,
           fileVars, Running, Fault, ExportsUnlocked, RenameNoReplace, Create, TypeOK,
           MatchOf, OutOf, EventOf
  <2>5. LeftOf(e)'
    BY <1>0, <1>15 DEF CreateProbe, TaskAt, Up, TaskGoto, UnchangedByTask, eventVars,
           fileVars, Running, Fault, ExportsUnlocked, RenameNoReplace, Create, TypeOK,
           LeftOf, EventOf, FilesOf, Has, Kind
  <2> QED
    BY <2>1, <2>2, <2>3, <2>4, <2>5 DEF ExportOf
<1>16. CASE RemoveProbe(e)
  <2>1. Removed(e, {"probe"})
    BY <1>0, <1>16, RemoveTells DEF RemoveProbe
  <2>2. EventOf(e)'
    BY <1>0, <1>16, <2>1 DEF RemoveProbe, TaskAt, Up, TaskGoto, UnchangedByTask, eventVars,
           fileVars, Running, Fault, ExportsUnlocked, RenameNoReplace, Create, Removed,
           TypeOK, EventOf
  <2>3. FilesOf(e)'
    BY <1>0, <1>16, <2>1 DEF RemoveProbe, TaskAt, Up, TaskGoto, UnchangedByTask, eventVars,
           fileVars, Running, Fault, ExportsUnlocked, RenameNoReplace, Create, Removed,
           TypeOK, FilesOf, Has, Hinted, Kind
  <2>4. OutOf(e)'
    BY <1>0, <1>16, <2>1 DEF RemoveProbe, TaskAt, Up, TaskGoto, UnchangedByTask, eventVars,
           fileVars, Running, Fault, ExportsUnlocked, RenameNoReplace, Create, Removed,
           TypeOK, OutOf
  <2>5. MatchOf(e)'
    BY <1>0, <1>16, <2>1 DEF RemoveProbe, TaskAt, Up, TaskGoto, UnchangedByTask, eventVars,
           fileVars, Running, Fault, ExportsUnlocked, RenameNoReplace, Create, Removed,
           TypeOK, MatchOf, OutOf, EventOf
  <2>6. LeftOf(e)'
    BY <1>0, <1>16, <2>1 DEF RemoveProbe, TaskAt, Up, TaskGoto, UnchangedByTask, eventVars,
           fileVars, Running, Fault, ExportsUnlocked, RenameNoReplace, Create, Removed,
           TypeOK, LeftOf, EventOf, FilesOf, Has, Kind
  <2> QED
    BY <2>2, <2>3, <2>4, <2>5, <2>6 DEF ExportOf
<1>17. CASE OpenPart(e)
  <2>1. EventOf(e)'
    BY <1>0, <1>17 DEF OpenPart, TaskAt, Up, TaskGoto, UnchangedByTask, eventVars, fileVars,
           Running, Fault, ExportsUnlocked, RenameNoReplace, Create, TypeOK, EventOf
  <2>2. FilesOf(e)'
    BY <1>0, <1>17 DEF OpenPart, TaskAt, Up, TaskGoto, UnchangedByTask, eventVars, fileVars,
           Running, Fault, ExportsUnlocked, RenameNoReplace, Create, TypeOK, FilesOf, Has,
           Hinted, Kind
  <2>3. OutOf(e)'
    BY <1>0, <1>17 DEF OpenPart, TaskAt, Up, TaskGoto, UnchangedByTask, eventVars, fileVars,
           Running, Fault, ExportsUnlocked, RenameNoReplace, Create, TypeOK, OutOf
  <2>4. MatchOf(e)'
    BY <1>0, <1>17 DEF OpenPart, TaskAt, Up, TaskGoto, UnchangedByTask, eventVars, fileVars,
           Running, Fault, ExportsUnlocked, RenameNoReplace, Create, TypeOK, MatchOf, OutOf,
           EventOf
  <2>5. LeftOf(e)'
    BY <1>0, <1>17 DEF OpenPart, TaskAt, Up, TaskGoto, UnchangedByTask, eventVars, fileVars,
           Running, Fault, ExportsUnlocked, RenameNoReplace, Create, TypeOK, LeftOf,
           EventOf, FilesOf, Has, Kind
  <2> QED
    BY <2>1, <2>2, <2>3, <2>4, <2>5 DEF ExportOf
<1>18. CASE CopyPart(e)
  <2>1. Removed(e, {"tmp"})
    BY <1>0, <1>18, RemoveTells DEF CopyPart
  <2>2. EventOf(e)'
    BY <1>0, <1>18, <2>1 DEF CopyPart, TaskAt, Up, TaskGoto, UnchangedByTask, eventVars,
           fileVars, Running, Fault, ExportsUnlocked, RenameNoReplace, Create, Removed,
           TypeOK, EventOf
  <2>3. FilesOf(e)'
    BY <1>0, <1>18, <2>1 DEF CopyPart, TaskAt, Up, TaskGoto, UnchangedByTask, eventVars,
           fileVars, Running, Fault, ExportsUnlocked, RenameNoReplace, Create, Removed,
           TypeOK, FilesOf, Has, Hinted, Kind
  <2>4. OutOf(e)'
    BY <1>0, <1>18, <2>1 DEF CopyPart, TaskAt, Up, TaskGoto, UnchangedByTask, eventVars,
           fileVars, Running, Fault, ExportsUnlocked, RenameNoReplace, Create, Removed,
           TypeOK, OutOf
  <2>5. MatchOf(e)'
    BY <1>0, <1>18, <2>1 DEF CopyPart, TaskAt, Up, TaskGoto, UnchangedByTask, eventVars,
           fileVars, Running, Fault, ExportsUnlocked, RenameNoReplace, Create, Removed,
           TypeOK, MatchOf, OutOf, EventOf
  <2>6. LeftOf(e)'
    BY <1>0, <1>18, <2>1 DEF CopyPart, TaskAt, Up, TaskGoto, UnchangedByTask, eventVars,
           fileVars, Running, Fault, ExportsUnlocked, RenameNoReplace, Create, Removed,
           TypeOK, LeftOf, EventOf, FilesOf, Has, Kind
  <2> QED
    BY <2>2, <2>3, <2>4, <2>5, <2>6 DEF ExportOf
<1>19. CASE CopyPartFails(e)
  <2>1. Removed(e, {"probe", "tmp", "part", "hint"})
    BY <1>0, <1>19, RemoveTells DEF CopyPartFails
  <2>2. e \notin fired /\ Fire(e, "failed")
    BY <1>0, <1>19 DEF CopyPartFails, TaskAt, Up, Return, fileVars, EventOf
  <2>3. fired' = fired \cup {e} /\ events'[e] = <<"failed">>
    BY <1>0, <2>2, FireTells
  <2>4. EventOf(e)'
    BY <1>0, <1>19, <2>1, <2>3 DEF CopyPartFails, TaskAt, Up, TaskGoto, UnchangedByTask,
           fileVars, Return, RenameNoReplace, Create, Removed, TypeOK, EventOf
  <2>5. FilesOf(e)'
    BY <1>0, <1>19, <2>1, <2>3 DEF CopyPartFails, TaskAt, Up, TaskGoto, UnchangedByTask,
           fileVars, Return, RenameNoReplace, Create, Removed, TypeOK, FilesOf, Has, Hinted,
           Kind
  <2>6. OutOf(e)'
    BY <1>0, <1>19, <2>1, <2>3 DEF CopyPartFails, TaskAt, Up, TaskGoto, UnchangedByTask,
           fileVars, Return, RenameNoReplace, Create, Removed, TypeOK, OutOf
  <2>7. MatchOf(e)'
    BY <1>0, <1>19, <2>1, <2>3 DEF CopyPartFails, TaskAt, Up, TaskGoto, UnchangedByTask,
           fileVars, Return, RenameNoReplace, Create, Removed, TypeOK, MatchOf, OutOf,
           EventOf
  <2>8. LeftOf(e)'
    BY <1>0, <1>19, <2>1, <2>3 DEF CopyPartFails, TaskAt, Up, TaskGoto, UnchangedByTask,
           fileVars, Return, RenameNoReplace, Create, Removed, TypeOK, LeftOf, EventOf,
           FilesOf, Has, Kind
  <2> QED
    BY <2>4, <2>5, <2>6, <2>7, <2>8 DEF ExportOf
<1>20. CASE RenamePart(e)
  <2>1. EventOf(e)'
    BY <1>0, <1>20 DEF RenamePart, TaskAt, Up, TaskGoto, UnchangedByTask, eventVars,
           fileVars, Running, Fault, ExportsUnlocked, RenameNoReplace, Create, TypeOK,
           EventOf
  <2>2. FilesOf(e)'
    BY <1>0, <1>20 DEF RenamePart, TaskAt, Up, TaskGoto, UnchangedByTask, eventVars,
           fileVars, Running, Fault, ExportsUnlocked, RenameNoReplace, Create, TypeOK,
           FilesOf, Has, Hinted, Kind
  <2>3. OutOf(e)'
    BY <1>0, <1>20 DEF RenamePart, TaskAt, Up, TaskGoto, UnchangedByTask, eventVars,
           fileVars, Running, Fault, ExportsUnlocked, RenameNoReplace, Create, TypeOK, OutOf
  <2>4. MatchOf(e)'
    <3>1. events'[e] = <<>>
      BY <1>0, <1>20 DEF RenamePart, TaskAt, eventVars, EventOf
    <3> QED
      BY <3>1 DEF MatchOf
  <2>5. LeftOf(e)'
    BY <1>0, <1>20 DEF RenamePart, TaskAt, Up, TaskGoto, UnchangedByTask, eventVars,
           fileVars, Running, Fault, ExportsUnlocked, RenameNoReplace, Create, TypeOK,
           LeftOf, EventOf, FilesOf, Has, Kind
  <2> QED
    BY <2>1, <2>2, <2>3, <2>4, <2>5 DEF ExportOf
<1>21. CASE RenamePartFails(e)
  <2>1. Removed(e, {"part", "hint"})
    BY <1>0, <1>21, RemoveTells DEF RenamePartFails, RenameFault
  <2>2. e \notin fired /\ Fire(e, "failed")
    BY <1>0, <1>21 DEF RenamePartFails, TaskAt, Up, Return, fileVars, EventOf
  <2>3. fired' = fired \cup {e} /\ events'[e] = <<"failed">>
    BY <1>0, <2>2, FireTells
  <2>4. EventOf(e)'
    BY <1>0, <1>21, <2>1, <2>3 DEF RenamePartFails, TaskAt, Up, TaskGoto, UnchangedByTask,
           fileVars, Return, RenameNoReplace, Create, Removed, TypeOK, EventOf
  <2>5. FilesOf(e)'
    BY <1>0, <1>21, <2>1, <2>3 DEF RenamePartFails, TaskAt, Up, TaskGoto, UnchangedByTask,
           fileVars, Return, RenameNoReplace, Create, Removed, TypeOK, FilesOf, Has, Hinted,
           Kind
  <2>6. OutOf(e)'
    BY <1>0, <1>21, <2>1, <2>3 DEF RenamePartFails, TaskAt, Up, TaskGoto, UnchangedByTask,
           fileVars, Return, RenameNoReplace, Create, Removed, TypeOK, OutOf
  <2>7. MatchOf(e)'
    BY <1>0, <1>21, <2>1, <2>3 DEF RenamePartFails, TaskAt, Up, TaskGoto, UnchangedByTask,
           fileVars, Return, RenameNoReplace, Create, Removed, TypeOK, MatchOf, OutOf,
           EventOf
  <2>8. LeftOf(e)'
    BY <1>0, <1>21, <2>1, <2>3 DEF RenamePartFails, TaskAt, Up, TaskGoto, UnchangedByTask,
           fileVars, Return, RenameNoReplace, Create, Removed, TypeOK, LeftOf, EventOf,
           FilesOf, Has, Kind
  <2> QED
    BY <2>4, <2>5, <2>6, <2>7, <2>8 DEF ExportOf
<1>22. CASE RemoveHint(e)
  <2>1. Removed(e, {"part", "hint"})
    BY <1>0, <1>22, RemoveTells DEF RemoveHint
  <2>2. EventOf(e)'
    BY <1>0, <1>22, <2>1 DEF RemoveHint, TaskAt, Up, TaskGoto, UnchangedByTask, eventVars,
           fileVars, Running, Fault, ExportsUnlocked, RenameNoReplace, Create, Removed,
           TypeOK, EventOf
  <2>3. FilesOf(e)'
    BY <1>0, <1>22, <2>1 DEF RemoveHint, TaskAt, Up, TaskGoto, UnchangedByTask, eventVars,
           fileVars, Running, Fault, ExportsUnlocked, RenameNoReplace, Create, Removed,
           TypeOK, FilesOf, Has, Hinted, Kind
  <2>4. OutOf(e)'
    BY <1>0, <1>22, <2>1 DEF RemoveHint, TaskAt, Up, TaskGoto, UnchangedByTask, eventVars,
           fileVars, Running, Fault, ExportsUnlocked, RenameNoReplace, Create, Removed,
           TypeOK, OutOf
  <2>5. MatchOf(e)'
    BY <1>0, <1>22, <2>1 DEF RemoveHint, TaskAt, Up, TaskGoto, UnchangedByTask, eventVars,
           fileVars, Running, Fault, ExportsUnlocked, RenameNoReplace, Create, Removed,
           TypeOK, MatchOf, OutOf, EventOf
  <2>6. LeftOf(e)'
    BY <1>0, <1>22, <2>1 DEF RemoveHint, TaskAt, Up, TaskGoto, UnchangedByTask, eventVars,
           fileVars, Running, Fault, ExportsUnlocked, RenameNoReplace, Create, Removed,
           TypeOK, LeftOf, EventOf, FilesOf, Has, Kind
  <2> QED
    BY <2>2, <2>3, <2>4, <2>5, <2>6 DEF ExportOf
<1>23. CASE Complete(e)
  <2>1. Removed(e, {"diag"})
    BY <1>0, <1>23, RemoveTells DEF Complete
  <2>2. e \notin fired /\ Fire(e, "completed")
    BY <1>0, <1>23 DEF Complete, TaskAt, Up, Return, fileVars, EventOf
  <2>3. fired' = fired \cup {e} /\ events'[e] = <<"completed">>
    BY <1>0, <2>2, FireTells
  <2>4. EventOf(e)'
    BY <1>0, <1>23, <2>1, <2>3 DEF Complete, TaskAt, Up, TaskGoto, UnchangedByTask,
           fileVars, Return, RenameNoReplace, Create, Removed, TypeOK, EventOf
  <2>5. FilesOf(e)'
    BY <1>0, <1>23, <2>1, <2>3 DEF Complete, TaskAt, Up, TaskGoto, UnchangedByTask,
           fileVars, Return, RenameNoReplace, Create, Removed, TypeOK, FilesOf, Has, Hinted,
           Kind
  <2>6. OutOf(e)'
    BY <1>0, <1>23, <2>1, <2>3 DEF Complete, TaskAt, Up, TaskGoto, UnchangedByTask,
           fileVars, Return, RenameNoReplace, Create, Removed, TypeOK, OutOf
  <2>7. MatchOf(e)'
    BY <1>0, <1>23, <2>1, <2>3 DEF Complete, TaskAt, Up, TaskGoto, UnchangedByTask,
           fileVars, Return, RenameNoReplace, Create, Removed, TypeOK, MatchOf, OutOf,
           EventOf
  <2>8. LeftOf(e)'
    BY <1>0, <1>23, <2>1, <2>3 DEF Complete, TaskAt, Up, TaskGoto, UnchangedByTask,
           fileVars, Return, RenameNoReplace, Create, Removed, TypeOK, LeftOf, EventOf,
           FilesOf, Has, Kind
  <2> QED
    BY <2>4, <2>5, <2>6, <2>7, <2>8 DEF ExportOf
<1>24. CASE CompleteFails(e)
  <2>1. e \notin fired /\ Fire(e, "failed")
    BY <1>0, <1>24 DEF CompleteFails, TaskAt, Up, Return, fileVars, EventOf
  <2>2. fired' = fired \cup {e} /\ events'[e] = <<"failed">>
    BY <1>0, <2>1, FireTells
  <2>3. EventOf(e)'
    BY <1>0, <1>24, <2>2 DEF CompleteFails, TaskAt, Up, TaskGoto, UnchangedByTask, fileVars,
           Return, RenameNoReplace, Create, TypeOK, EventOf
  <2>4. FilesOf(e)'
    BY <1>0, <1>24, <2>2 DEF CompleteFails, TaskAt, Up, TaskGoto, UnchangedByTask, fileVars,
           Return, RenameNoReplace, Create, TypeOK, FilesOf, Has, Hinted, Kind
  <2>5. OutOf(e)'
    BY <1>0, <1>24, <2>2 DEF CompleteFails, TaskAt, Up, TaskGoto, UnchangedByTask, fileVars,
           Return, RenameNoReplace, Create, TypeOK, OutOf
  <2>6. MatchOf(e)'
    BY <1>0, <1>24, <2>2 DEF CompleteFails, TaskAt, Up, TaskGoto, UnchangedByTask, fileVars,
           Return, RenameNoReplace, Create, TypeOK, MatchOf, OutOf, EventOf
  <2>7. LeftOf(e)'
    BY <1>0, <1>24, <2>2 DEF CompleteFails, TaskAt, Up, TaskGoto, UnchangedByTask, fileVars,
           Return, RenameNoReplace, Create, TypeOK, LeftOf, EventOf, FilesOf, Has, Kind
  <2> QED
    BY <2>3, <2>4, <2>5, <2>6, <2>7 DEF ExportOf
<1>25. CASE Fallback(e)
  <2>1. e \notin fired /\ Fire(e, "exited")
    BY <1>0, <1>25 DEF Fallback, TaskAt, Up, Return, fileVars, EventOf
  <2>2. fired' = fired \cup {e} /\ events'[e] = <<"exited">>
    BY <1>0, <2>1, FireTells
  <2>3. EventOf(e)'
    BY <1>0, <1>25, <2>2 DEF Fallback, TaskAt, Up, TaskGoto, UnchangedByTask, fileVars,
           Return, RenameNoReplace, Create, TypeOK, EventOf
  <2>4. FilesOf(e)'
    BY <1>0, <1>25, <2>2 DEF Fallback, TaskAt, Up, TaskGoto, UnchangedByTask, fileVars,
           Return, RenameNoReplace, Create, TypeOK, FilesOf, Has, Hinted, Kind
  <2>5. OutOf(e)'
    BY <1>0, <1>25, <2>2 DEF Fallback, TaskAt, Up, TaskGoto, UnchangedByTask, fileVars,
           Return, RenameNoReplace, Create, TypeOK, OutOf
  <2>6. MatchOf(e)'
    BY <1>0, <1>25, <2>2 DEF Fallback, TaskAt, Up, TaskGoto, UnchangedByTask, fileVars,
           Return, RenameNoReplace, Create, TypeOK, MatchOf, OutOf, EventOf
  <2>7. LeftOf(e)'
    BY <1>0, <1>25, <2>2 DEF Fallback, TaskAt, Up, TaskGoto, UnchangedByTask, fileVars,
           Return, RenameNoReplace, Create, TypeOK, LeftOf, EventOf, FilesOf, Has, Kind
  <2> QED
    BY <2>3, <2>4, <2>5, <2>6, <2>7 DEF ExportOf
<1>26. CASE Unregister(e)
  <2>1. EventOf(e)'
    BY <1>0, <1>26 DEF Unregister, TaskAt, Up, TaskGoto, UnchangedByTask, eventVars,
           fileVars, Running, Fault, ExportsUnlocked, RenameNoReplace, Create, TypeOK,
           EventOf
  <2>2. FilesOf(e)'
    BY <1>0, <1>26 DEF Unregister, TaskAt, Up, TaskGoto, UnchangedByTask, eventVars,
           fileVars, Running, Fault, ExportsUnlocked, RenameNoReplace, Create, TypeOK,
           FilesOf, Has, Hinted, Kind
  <2>3. OutOf(e)'
    BY <1>0, <1>26 DEF Unregister, TaskAt, Up, TaskGoto, UnchangedByTask, eventVars,
           fileVars, Running, Fault, ExportsUnlocked, RenameNoReplace, Create, TypeOK, OutOf
  <2>4. MatchOf(e)'
    BY <1>0, <1>26 DEF Unregister, TaskAt, Up, TaskGoto, UnchangedByTask, eventVars,
           fileVars, Running, Fault, ExportsUnlocked, RenameNoReplace, Create, TypeOK,
           MatchOf, OutOf, EventOf
  <2>5. LeftOf(e)'
    BY <1>0, <1>26 DEF Unregister, TaskAt, Up, TaskGoto, UnchangedByTask, eventVars,
           fileVars, Running, Fault, ExportsUnlocked, RenameNoReplace, Create, TypeOK,
           LeftOf, EventOf, FilesOf, Has, Kind
  <2> QED
    BY <2>1, <2>2, <2>3, <2>4, <2>5 DEF ExportOf
<1>27. CASE Panic(e)
  <2>1. EventOf(e)'
    BY <1>0, <1>27 DEF Panic, TaskAt, Up, TaskGoto, UnchangedByTask, eventVars, fileVars,
           Running, Fault, ExportsUnlocked, RenameNoReplace, Create, TypeOK, EventOf
  <2>2. FilesOf(e)'
    BY <1>0, <1>27 DEF Panic, TaskAt, Up, TaskGoto, UnchangedByTask, eventVars, fileVars,
           Running, Fault, ExportsUnlocked, RenameNoReplace, Create, TypeOK, FilesOf, Has,
           Hinted, Kind
  <2>3. OutOf(e)'
    BY <1>0, <1>27 DEF Panic, TaskAt, Up, TaskGoto, UnchangedByTask, eventVars, fileVars,
           Running, Fault, ExportsUnlocked, RenameNoReplace, Create, TypeOK, OutOf
  <2>4. MatchOf(e)'
    BY <1>0, <1>27 DEF Panic, TaskAt, Up, TaskGoto, UnchangedByTask, eventVars, fileVars,
           Running, Fault, ExportsUnlocked, RenameNoReplace, Create, TypeOK, MatchOf, OutOf,
           EventOf
  <2>5. LeftOf(e)'
    BY <1>0, <1>27 DEF Panic, TaskAt, Up, TaskGoto, UnchangedByTask, eventVars, fileVars,
           Running, Fault, ExportsUnlocked, RenameNoReplace, Create, TypeOK, LeftOf,
           EventOf, FilesOf, Has, Kind
  <2> QED
    BY <2>1, <2>2, <2>3, <2>4, <2>5 DEF ExportOf
<1> QED
  BY <1>1, <1>2, <1>3, <1>4, <1>5, <1>6, <1>7, <1>8, <1>9, <1>10, <1>11, <1>12, <1>13,
         <1>14, <1>15, <1>16, <1>17, <1>18, <1>19, <1>20, <1>21, <1>22, <1>23, <1>24, <1>25,
         <1>26, <1>27 DEF Ffmpeg, TaskStep

\* The other exports are as before: a task touches no output path that holds
\* anything.
LEMMA TaskExports ==
  ASSUME IInv, NEW e \in Export, Ffmpeg(e) \/ TaskStep(e) \/ Panic(e)
  PROVE  ExportInv'
<1>1. TypeOK /\ ExportInv
  BY DEF IInv
<1>2. Up /\ UNCHANGED <<handlerVars, exportsLock, snapshotVars, of, path, cancelled, stage>>
  BY <1>1, TaskFrame
<1>3. /\ out' \in [Path -> Export \cup {UserFile, Nil}]
      /\ \A p \in Path : out[p] # Nil => out'[p] = out[p]
      /\ \A p \in Path : out[p] = Nil => out'[p] \in {Nil, e}
  BY <1>1, TaskOut
<1>4. ASSUME NEW x \in Export, x # e PROVE ExportOf(x)'
  <2>1. ExportOf(x)
    BY <1>1 DEF ExportInv
  <2>2. /\ task'[x] = task[x] /\ events'[x] = events[x]
        /\ (x \in fired' <=> x \in fired) /\ (x \in unhinted' <=> x \in unhinted)
        /\ files'[x] = files[x] /\ stuck'[x] = stuck[x]
    BY <1>1, <1>4, TaskOthers
  <2>3. \A p \in Path : out'[p] = x <=> out[p] = x
    BY <1>1, <1>3, <1>4 DEF TypeOK
  <2>4. EventOf(x)'
    BY <2>1, <2>2 DEF ExportOf, EventOf
  <2>5. FilesOf(x)'
    BY <1>2, <2>1, <2>2 DEF ExportOf, FilesOf, Has, Hinted
  <2>6. task[x] # "none" => path[x] \in Path
    BY <2>1 DEF IInv, RegistryInv, ExportOf, OutOf
  <2>7. OutOf(x)'
    BY <1>2, <2>1, <2>2, <2>3, <2>6 DEF ExportOf, OutOf
  <2>8. MatchOf(x)'
    <3>1. events[x] = <<"completed">> => task[x] # "none"
      BY <2>1 DEF ExportOf, EventOf
    <3> QED
      BY <1>2, <2>1, <2>2, <2>3, <2>6, <3>1 DEF ExportOf, MatchOf
  <2>9. LeftOf(x)'
    BY <1>2, <2>1, <2>2 DEF ExportOf, LeftOf, Has
  <2> QED
    BY <2>4, <2>5, <2>7, <2>8, <2>9 DEF ExportOf
<1> QED
  BY <1>4, TaskExport DEF ExportInv

\* Tasks keep the rest: they only leave the map of exports, at their end.
LEMMA TaskKeeps ==
  ASSUME IInv, NEW e \in Export, Ffmpeg(e) \/ TaskStep(e) \/ Panic(e)
  PROVE  IInv'
<1>1. /\ TypeOK /\ HandlerOK /\ RegistryInv /\ SnapshotInv /\ ReadersHoldSnapshot
  BY DEF IInv
<1>2. Up /\ UNCHANGED <<handlerVars, exportsLock, snapshotVars, of, path, cancelled, stage>>
  BY TaskFrame
<1>3. /\ task[e] \notin {"none", "ended"} /\ task'[e] # "none" /\ (Running(e)' => Running(e))
      /\ exports' = exports \/ (exports' = exports \ {e} /\ task'[e] = "ended")
      /\ \A x \in Export : x # e => task'[x] = task[x]
  BY <1>1, TaskGoes, TaskOthers
<1>4. UNCHANGED <<step, snap, exp, snapshots, listed, pinned, sources, of, exportsLock>>
  BY <1>2 DEF handlerVars, snapshotVars
<1>5. HandlerOK'
  BY <1>1, <1>4 DEF HandlerOK, Claims, Starting
<1>6. RegistryInv'
  <2>1. \A h \in Handler : Starting(h) => exp[h] \in Export /\ exp[h] # e
    BY <1>1, <1>3 DEF RegistryInv, HandlerOK
  <2> QED
    BY <1>1, <1>3, <1>4, <2>1 DEF RegistryInv, References, Starting
<1>7. SnapshotInv'
  BY <1>1, <1>4 DEF SnapshotInv, Claims
<1>8. ReadersHoldSnapshot'
  BY <1>1, <1>3, <1>4 DEF ReadersHoldSnapshot, Running
<1>9. BootsClean'
  BY <1>2 DEF BootsClean, Up
<1> QED
  BY <1>1, <1>5, <1>6, <1>7, <1>8, <1>9, TaskType, TaskExports DEF IInv

\* What requests do for an export: they give it its snapshot and path before it
\* has a task, and start the task.
LEMMA HandlerExports ==
  ASSUME NEW h \in Handler, IInv, Request(h) \/ HandlerStep(h) \/ AbortDispatch(h)
  PROVE  ExportInv' /\ BootsClean'
<1>1. TypeOK /\ HandlerOK /\ RegistryInv /\ ExportInv
  BY DEF IInv
<1>2. Up /\ UNCHANGED <<inMuxing, eventVars, fileVars, out, stage>>
  BY <1>1, HandlerFrame
<1>3. UNCHANGED <<fired, events, files, stuck, unhinted>>
  BY <1>2 DEF eventVars, fileVars
<1>5. ASSUME NEW e \in Export PROVE ExportOf(e)'
  <2>1. ExportOf(e)
    BY <1>1 DEF ExportInv
  <2>2. task'[e] = task[e] \/ (task[e] = "none" /\ task'[e] = "checks")
    BY <1>1, HandlerTask
  <2>3. \/ of'[e] = of[e] /\ path'[e] = path[e]
        \/ task[e] = "none" /\ task'[e] = "none" /\ path'[e] \in Path
    BY <1>1, HandlerRegisters
  <2>4. EventOf(e)'
    BY <1>3, <2>1, <2>2 DEF ExportOf, EventOf
  <2>5. FilesOf(e)'
    BY <1>2, <1>3, <2>1, <2>2 DEF ExportOf, FilesOf, Has, Hinted
  <2>6. OutOf(e)'
    BY <1>2, <2>1, <2>2, <2>3 DEF ExportOf, OutOf
  <2>7. MatchOf(e)'
    BY <1>2, <1>3, <2>1, <2>3 DEF ExportOf, MatchOf, EventOf
  <2>8. LeftOf(e)'
    BY <1>2, <1>3, <2>1 DEF ExportOf, LeftOf, Has
  <2> QED
    BY <2>4, <2>5, <2>6, <2>7, <2>8 DEF ExportOf
<1>6. BootsClean'
  BY <1>2 DEF BootsClean, Up
<1> QED
  BY <1>5, <1>6 DEF ExportInv

\* The buffer, the death of the helper, and the next one.
LEMMA EvictKeeps ==
  ASSUME IInv, NEW s \in Snapshot, Evict(s)
  PROVE  IInv'
<1>1. /\ TypeOK /\ HandlerOK /\ RegistryInv /\ SnapshotInv /\ ReadersHoldSnapshot
      /\ ExportInv /\ BootsClean
  BY DEF IInv
<1>2. /\ UNCHANGED <<step, snap, exp, exportsLock, snapshots, listed, pinned, exports, of, path,
                     inMuxing, cancelled, task, fired, events, files, stuck, unhinted, out,
                     stage, faults>>
      /\ sources[s] = "whole" /\ sources' = [sources EXCEPT ![s] = "gone"]
  BY DEF Evict, handlerVars, exportVars, flagVars, eventVars, fileVars
<1>3. /\ sources' \in [Snapshot -> {"none", "whole", "partial", "gone"}]
      /\ \A x \in Snapshot : sources[x] # "none" => sources'[x] # "none"
  BY <1>1, <1>2 DEF TypeOK
<1>4. TypeOK'
  BY <1>1, <1>2, <1>3 DEF TypeOK
<1>5. HandlerOK' /\ RegistryInv' /\ ReadersHoldSnapshot'
  BY <1>1, <1>2 DEF HandlerOK, RegistryInv, ReadersHoldSnapshot, Claims, Starting, References,
                    Running
<1>6. SnapshotInv'
  BY <1>1, <1>2, <1>3 DEF SnapshotInv, HandlerOK, Claims, Snapshot, TypeOK
<1>7. ExportInv' /\ BootsClean'
  BY <1>1, <1>2 DEF ExportInv, ExportOf, EventOf, FilesOf, OutOf, MatchOf, LeftOf, BootsClean,
                    Has, Hinted
<1> QED
  BY <1>4, <1>5, <1>6, <1>7 DEF IInv

\* The reaping leaves of an export what it cannot remove and what no hint names.
LEMMA ReapTells ==
  ASSUME TypeOK, Reap
  PROVE  /\ files' \in [Export -> SUBSET Kind] /\ stuck' \in [Export -> SUBSET Kind]
         /\ faults' \in Nat
         /\ \A e \in Export : \A k \in Kind :
              /\ k \in files'[e] => k \in files[e]
              /\ k \in stuck[e] => k \in stuck'[e]
              /\ k \in files'[e] /\ k \notin stuck'[e] => k \notin Orphans(e)
<1>1. PICK left \in SUBSET {f \in Export \X Kind : f[2] \in Orphans(f[1])} :
        /\ files' = [e \in Export |-> (files[e] \ Orphans(e)) \cup {k \in Kind : <<e, k>> \in left}]
        /\ stuck' = [e \in Export |-> stuck[e] \cup {k \in Kind : <<e, k>> \in left}]
        /\ faults' = faults \/ faults' = faults + 1
  BY DEF Reap, Fault
<1>2. faults' \in Nat
  BY <1>1 DEF TypeOK
<1>3. \A e \in Export : \A k \in Kind : <<e, k>> \in left => k \in Orphans(e)
  BY <1>1
<1>4. \A e \in Export : Orphans(e) \subseteq files[e] /\ files[e] \subseteq Kind /\ stuck[e] \subseteq Kind
  BY DEF Orphans, TypeOK
<1> QED
  BY <1>1, <1>2, <1>3, <1>4

\* Nothing runs on; the reaping finds every .part file by its hint, unless that
\* could not be written.
LEMMA ProcessKeeps ==
  ASSUME IInv, Crash \/ Reap
  PROVE  IInv'
<1>1. /\ TypeOK /\ HandlerOK /\ RegistryInv /\ SnapshotInv /\ ReadersHoldSnapshot
      /\ ExportInv /\ BootsClean
  BY DEF IInv
<1>2. UNCHANGED <<snapshots, listed, pinned, sources, exports, of, path, task, fired, events,
                  unhinted, out>>
  BY DEF Crash, Reap, snapshotVars, exportVars, eventVars, fileVars
<1>3. \/ /\ stage = "up" /\ stage' = "down" /\ UNCHANGED <<files, stuck, faults>>
      \/ stage = "down" /\ stage' = "booted" /\ Reap
  BY DEF Crash, Reap, Up, fileVars
<1>4. /\ files' \in [Export -> SUBSET Kind] /\ stuck' \in [Export -> SUBSET Kind]
      /\ faults' \in Nat /\ stage' \in {"down", "booted"}
      /\ \A e \in Export : \A k \in Kind :
           k \in files'[e] /\ k \notin stuck'[e] => k \in files[e] /\ k \notin stuck[e]
  <2>1. CASE stage' = "down" /\ UNCHANGED <<files, stuck, faults>>
    BY <1>1, <2>1 DEF TypeOK
  <2>2. CASE stage' = "booted" /\ Reap
    BY <1>1, <2>2, ReapTells
  <2> QED
    BY <1>3, <2>1, <2>2
<1>5. \/ /\ \A h \in Handler : step'[h] = "idle"
         /\ step' \in [Handler -> {"idle"}]
         /\ snap' \in [Handler -> {Nil}] /\ exp' \in [Handler -> {Nil}]
         /\ exportsLock' = Nil /\ inMuxing' = {} /\ cancelled' = {}
      \/ UNCHANGED <<step, snap, exp, exportsLock, inMuxing, cancelled>>
  BY DEF Crash, Reap, handlerVars, flagVars
<1>6. TypeOK'
  BY <1>1, <1>2, <1>4, <1>5 DEF TypeOK
<1>7. HandlerOK' /\ RegistryInv' /\ ReadersHoldSnapshot' /\ SnapshotInv'
  <2>1. RegistryInv' /\ ReadersHoldSnapshot' /\ SnapshotInv'
    BY <1>1, <1>2, <1>5 DEF RegistryInv, ReadersHoldSnapshot, SnapshotInv, Claims, Starting,
                            References, Running
  <2>2. HandlerOK'
    <3>1. CASE \A h \in Handler : step'[h] = "idle" /\ exportsLock' # h
      BY <3>1 DEF HandlerOK, Claims, Starting
    <3>2. CASE UNCHANGED <<step, snap, exp, exportsLock>>
      BY <1>1, <3>2 DEF HandlerOK, Claims, Starting
    <3> QED
      BY <1>5, <3>1, <3>2
  <2> QED
    BY <2>1, <2>2
<1>8. ASSUME NEW e \in Export PROVE ExportOf(e)'
  <2>1. ExportOf(e)
    BY <1>1 DEF ExportInv
  <2>2. EventOf(e)' /\ OutOf(e)' /\ MatchOf(e)'
    BY <1>2, <2>1 DEF ExportOf, EventOf, OutOf, MatchOf
  <2>3. \A k \in Kind : Has(e, k)' => Has(e, k)
    BY <1>4 DEF Has
  <2>4. files[e] = {} => files'[e] = {}
    <3>1. CASE UNCHANGED files
      BY <3>1
    <3>2. CASE Reap
      BY <1>1, <1>4, <3>2, ReapTells
    <3> QED
      BY <1>3, <3>1, <3>2
  <2>5. stage' # "booted" => stage # "booted" /\ UNCHANGED <<files, unhinted>>
    BY <1>2, <1>3
  <2>6. FilesOf(e)'
    BY <1>2, <2>1, <2>3, <2>4, <2>5 DEF ExportOf, FilesOf, Hinted, Kind
  <2>7. LeftOf(e)'
    BY <1>2, <2>1, <2>3 DEF ExportOf, LeftOf
  <2> QED
    BY <2>2, <2>6, <2>7 DEF ExportOf
<1>9. BootsClean'
  <2> SUFFICES ASSUME stage' = "booted", NEW e \in Export, NEW k \in Kind, Has(e, k)'
               PROVE  (k = "part" /\ e \in unhinted) \/ (k = "probe" /\ task[e] = "unprobe")
    BY <1>2, <1>4 DEF BootsClean, Has
  <2>1. stage # "booted" /\ Reap /\ Has(e, k) /\ k \notin Orphans(e) /\ FilesOf(e)
    BY <1>1, <1>3, <1>4, ReapTells DEF Has, ExportInv, ExportOf
  <2>2. k \in {"part", "probe"}
    BY <2>1 DEF Kind, Orphans, Has
  <2>3. CASE k = "part"
    BY <2>1, <2>3 DEF Orphans, Has, FilesOf, Hinted
  <2>4. CASE k = "probe"
    BY <2>1, <2>4 DEF FilesOf
  <2> QED
    BY <2>2, <2>3, <2>4
<1> QED
  BY <1>6, <1>7, <1>8, <1>9 DEF IInv, ExportInv

\* The invariant holds as the helper starts.
LEMMA InitInv == Init => IInv
<1> SUFFICES ASSUME Init PROVE IInv
  OBVIOUS
<1>1. TypeOK
  <2>1. events \in [Export -> Seq({"completed", "cancelled", "failed", "exited"})]
    BY DEF Init
  <2>2. out \in [Path -> Export \cup {UserFile, Nil}]
    BY DEF Init
  <2>3. files \in [Export -> SUBSET Kind] /\ stuck \in [Export -> SUBSET Kind]
    BY DEF Init
  <2> QED
    BY <2>1, <2>2, <2>3 DEF Init, TypeOK, Snapshot
<1>2. HandlerOK /\ RegistryInv /\ SnapshotInv /\ ReadersHoldSnapshot
  BY DEF Init, HandlerOK, RegistryInv, SnapshotInv, ReadersHoldSnapshot, Claims, Starting, Running,
         Snapshot
<1>3. ASSUME NEW e \in Export PROVE ExportOf(e)
  <2>1. events[e] = <<>> /\ task[e] = "none" /\ \A p \in Path : out[p] # e
    BY DEF Init
  <2> QED
    BY <2>1 DEF Init, ExportOf, EventOf, FilesOf, OutOf, MatchOf, LeftOf, Has
<1>4. BootsClean
  BY DEF Init, BootsClean
<1> QED
  BY <1>1, <1>2, <1>3, <1>4 DEF IInv, ExportInv

\* Every step keeps it.
LEMMA StepInv == IInv /\ [Next]_vars => IInv'
<1> SUFFICES ASSUME IInv, [Next]_vars PROVE IInv'
  OBVIOUS
<1>1. ASSUME NEW h \in Handler, Request(h) \/ HandlerStep(h) \/ AbortDispatch(h) PROVE IInv'
  BY <1>1, HandlerKeeps, HandlerExports DEF IInv
<1>2. ASSUME NEW e \in Export, Ffmpeg(e) \/ TaskStep(e) \/ Panic(e) PROVE IInv'
  BY <1>2, TaskKeeps
<1>3. ASSUME NEW s \in Snapshot, Evict(s) PROVE IInv'
  BY <1>3, EvictKeeps
<1>4. CASE Crash \/ Reap
  BY <1>4, ProcessKeeps
<1>5. CASE UNCHANGED vars
  <2>1. UNCHANGED <<step, snap, exp, exportsLock, snapshots, listed, pinned, sources, exports, of,
                    path, inMuxing, cancelled, task, fired, events, files, stuck, unhinted, out,
                    stage, faults>>
    BY <1>5 DEF vars, handlerVars, snapshotVars, exportVars, flagVars, eventVars, fileVars
  <2>2. TypeOK'
    BY <2>1 DEF IInv, TypeOK
  <2>3. HandlerOK' /\ RegistryInv' /\ ReadersHoldSnapshot' /\ SnapshotInv'
    BY <2>1 DEF IInv, HandlerOK, RegistryInv, ReadersHoldSnapshot, SnapshotInv, Claims, Starting,
                References, Running
  <2>4. ExportInv' /\ BootsClean'
    BY <2>1 DEF IInv, ExportInv, ExportOf, EventOf, FilesOf, OutOf, MatchOf, LeftOf, BootsClean,
                Has, Hinted
  <2> QED
    BY <2>2, <2>3, <2>4 DEF IInv
<1> QED
  BY <1>1, <1>2, <1>3, <1>4, <1>5 DEF Next

LEMMA Invariant == Spec => []IInv
BY InitInv, StepInv, PTL DEF Spec

\* An export has no event or one.
LEMMA EventsOf ==
  ASSUME IInv, NEW e \in Export
  PROVE  /\ e \notin fired => events[e] = <<>> /\ Len(events[e]) = 0 /\ task[e] # "ended"
         /\ e \in fired => \E ev \in Terminal :
                             events[e] = <<ev>> /\ Len(events[e]) = 1 /\ events[e][1] = ev
<1>1. EventOf(e)
  BY DEF IInv, ExportInv, ExportOf
<1>2. \A ev \in Terminal : Len(<<ev>>) = 1 /\ <<ev>>[1] = ev
  OBVIOUS
<1> QED
  BY <1>1, <1>2 DEF EventOf

-----------------------------------------------------------------------------
\* Requests, tasks, the buffer and the death of the helper keep every type.
THEOREM TypeCorrect == Spec => []TypeOK
<1>1. IInv => TypeOK
  BY DEF IInv
<1> QED
  BY Invariant, <1>1, PTL

\* For any number of exports and requests: an export emits at most one terminal
\* event, and has emitted one when its task has ended.
THEOREM OneEvent == Spec => []OneTerminalEvent
<1>1. ASSUME IInv, NEW e \in Export
      PROVE  Len(events[e]) <= 1 /\ (task[e] = "ended" => Len(events[e]) = 1)
  <2>1. CASE e \in fired
    <3>1. PICK ev \in Terminal : events[e] = <<ev>>
      BY <1>1, <2>1, EventsOf
    <3>2. Len(events[e]) = 1
      BY <3>1
    <3> QED
      BY <3>2
  <2>2. CASE e \notin fired
    BY <1>1, <2>2, EventsOf
  <2> QED
    BY <2>1, <2>2
<1>2. IInv => OneTerminalEvent
  BY <1>1 DEF OneTerminalEvent
<1> QED
  BY Invariant, <1>2, PTL

\* A running export is registered and so is its snapshot, whatever requests
\* release, restore or give up at the same time.
THEOREM SnapshotHeld == Spec => []ReadersHoldSnapshot
<1>1. IInv => ReadersHoldSnapshot
  BY DEF IInv
<1> QED
  BY Invariant, <1>1, PTL

\* The terminal event tells what became of the file.
THEOREM EventTrue == Spec => []EventMatchesFile
<1>1. IInv => EventMatchesFile
  <2> SUFFICES ASSUME IInv, NEW e \in Export, NEW k \in 1 .. Len(events[e])
               PROVE  /\ events[e][k] = "completed" => out[path[e]] = e
                      /\ events[e][k] = "cancelled" => \A p \in Path : out[p] # e
    BY DEF EventMatchesFile
  <2>1. PICK ev \in Terminal : events[e] = <<ev>> /\ events[e][k] = ev
    BY EventsOf
  <2>2. MatchOf(e)
    BY DEF IInv, ExportInv, ExportOf
  <2> QED
    BY <2>1, <2>2 DEF MatchOf
<1> QED
  BY Invariant, <1>1, PTL

\* An export that ends by itself leaves nothing but the diagnostics of a failure
\* and what it could not remove; what stays after the next helper has reaped is
\* what could not be removed, a .part file whose hint could not be written, and a
\* probe that the death of the helper interrupted.
THEOREM FilesCleared == Spec => []NoLeftovers
<1>1. IInv => NoLeftovers
  <2> SUFFICES ASSUME IInv PROVE NoLeftovers
    OBVIOUS
  <2>1. ASSUME NEW e \in Export, NEW k \in 1 .. Len(events[e]), events[e][k] # "exited",
               NEW f \in files[e] \ stuck[e]
        PROVE  f = "diag" /\ events[e][k] = "failed"
    <3>1. PICK ev \in Terminal : events[e] = <<ev>> /\ events[e][k] = ev
      BY EventsOf
    <3>2. LeftOf(e) /\ f \in Kind
      BY DEF IInv, ExportInv, ExportOf, TypeOK
    <3> QED
      BY <2>1, <3>1, <3>2 DEF LeftOf, Has
  <2>2. EndsClean
    BY <2>1 DEF EndsClean
  <2> QED
    BY <2>2 DEF NoLeftovers, IInv
<1> QED
  BY Invariant, <1>1, PTL

\* No step replaces or removes a file at an output path.
THEOREM FilesStay == Spec => NoClobber
<1>1. IInv /\ [Next]_vars => [\A p \in Path : out[p] # Nil => out'[p] = out[p]]_vars
  <2> SUFFICES ASSUME IInv, Next
               PROVE  \A p \in Path : out[p] # Nil => out'[p] = out[p]
    OBVIOUS
  <2>1. TypeOK
    BY DEF IInv
  <2>2. ASSUME NEW h \in Handler, Request(h) \/ HandlerStep(h) \/ AbortDispatch(h)
        PROVE  out' = out
    BY <2>1, <2>2, HandlerFrame
  <2>3. ASSUME NEW e \in Export, Ffmpeg(e) \/ TaskStep(e) \/ Panic(e)
        PROVE  \A p \in Path : out[p] # Nil => out'[p] = out[p]
    BY <2>1, <2>3, TaskOut
  <2>4. ASSUME NEW s \in Snapshot, Evict(s) PROVE out' = out
    BY <2>4 DEF Evict
  <2>5. CASE Crash \/ Reap
    BY <2>5 DEF Crash, Reap
  <2> QED
    BY <2>2, <2>3, <2>4, <2>5 DEF Next
<1> QED
  BY Invariant, <1>1, PTL DEF Spec, NoClobber

\* No step touches the files that a running export reads.
THEOREM SourcesStay == Spec => SourcesKept
<1>1. IInv /\ [Next]_vars => [\A e \in Export : Running(e) => sources'[of[e]] = sources[of[e]]]_vars
  <2> SUFFICES ASSUME IInv, Next, NEW e \in Export, Running(e)
               PROVE  sources'[of[e]] = sources[of[e]]
    OBVIOUS
  <2>1. /\ TypeOK /\ HandlerOK /\ SnapshotInv /\ of[e] \in snapshots /\ of[e] \in Snapshot
        /\ sources[of[e]] # "none" /\ (of[e] \in Live => of[e] \in pinned)
    BY DEF IInv, ReadersHoldSnapshot, SnapshotInv, TypeOK
  <2>2. ASSUME NEW h \in Handler, Request(h) \/ HandlerStep(h) \/ AbortDispatch(h)
        PROVE  sources'[of[e]] = sources[of[e]]
    <3>1. ASSUME NEW s \in Snapshot, Save(h, s) PROVE sources'[of[e]] = sources[of[e]]
      BY <2>1, <3>1 DEF Save, TypeOK
    <3>2. CASE DiscardFiles(h) \/ ReleaseFiles(h)
      <4>1. DeleteSession(snap[h]) /\ Claims(h)
        BY <3>2 DEF DiscardFiles, ReleaseFiles, At, Claims
      <4>2. snap[h] \in Snapshot /\ snap[h] # of[e] /\ sources[snap[h]] # "none"
        BY <2>1, <4>1 DEF HandlerOK, SnapshotInv
      <4> QED
        BY <2>1, <4>1, <4>2, DeleteKeeps
    <3>3. \/ \E s \in Snapshot : Save(h, s)
          \/ DiscardFiles(h) \/ ReleaseFiles(h)
          \/ sources' = sources
      BY <2>2, HandlerSources
    <3> QED
      BY <3>1, <3>2, <3>3
  <2>3. ASSUME NEW x \in Export, Ffmpeg(x) \/ TaskStep(x) \/ Panic(x) PROVE sources' = sources
    BY <2>3, TaskFrame DEF snapshotVars
  <2>4. ASSUME NEW s \in Snapshot, Evict(s) PROVE sources'[of[e]] = sources[of[e]]
    BY <2>1, <2>4 DEF Evict, TypeOK
  <2>5. CASE Crash \/ Reap
    BY <2>5 DEF Crash, Reap, snapshotVars
  <2> QED
    BY <2>2, <2>3, <2>4, <2>5 DEF Next
<1> QED
  BY Invariant, <1>1, PTL DEF Spec, SourcesKept
=============================================================================
