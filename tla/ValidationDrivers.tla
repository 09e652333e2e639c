-------------------------- MODULE ValidationDrivers -------------------------
(***************************************************************************)
(* The drivers of the validation harness (src/validation/drivers.ts) as    *)
(* scripts for ValidationRunner: a driver is the sequence of its steps,    *)
(* each with the reports the row may return with there, then its finally   *)
(* block. The evidence a step writes and the arithmetic of the gates are   *)
(* left out; writing may fail as the step may.                             *)
(***************************************************************************)
EXTENDS Sequences

Statuses == {"pass", "fail", "skip", "error"}

(* A step: what it does; the reports the row returns with when the answer is bad and   *)
(* when it throws. "next" goes on, "bail" runs the row's shutdown sequence first.      *)
On(op, bad, thrown) == [op |-> op, bad |-> bad, thrown |-> thrown]
Do(op)      == On(op, {}, {"error"})
Or(op, bad) == On(op, {bad}, {"error"})
Try(op)     == On(op, {"next"}, {"next"})

----------------------------------------------------------------------------
(* What the drivers have in common *)

(* No display, no XDG runtime directory, no portal: skip. *)
Environment == <<Or("look", "skip")>>

(* No script: error; no browser: skip; gone after a second: fail. *)
Motion60 == <<Or("load", "skip"), Or("loadRuns", "fail")>>

HelperUp == <<Do("spawn"), Do("connect"), Do("look")>>

(* requestSession: a timeout is a portal nobody answered. *)
RequestSession(bad) == <<On("call", bad, {"skip", "error"})>>

Stream(bad) == <<Or("call", bad), Do("look")>>

(* A probe result of stubs is a skip; no result is not. *)
RealEncoder == <<Or("look", "skip")>>

(* A call whose answer is only written down. *)
Noted == <<On("call", {"next"}, {"error"})>>

(* The id is in the answer or in the notification. *)
Saved(bad) == <<Or("save", bad), Or("snapshotId", "fail")>>

Export == <<Do("mkdir"), Or("export", "fail")>>

(* Until completed, failed or cancelled; then the snapshot is released, twice if need be. *)
Released   == <<Try("release"), Try("release")>>
ExportEnds == <<Do("terminal")>> \o Released

Gates == <<Or("gates", "fail")>>

CancelAndRelease == <<Try("cancel"), Try("release")>>
ShutDown         == <<Do("shutdown"), Do("close")>>
HelperDown       == <<Try("close"), Try("sigterm")>>

----------------------------------------------------------------------------
(* The drivers *)

Proc001_LateBaseline == HelperUp \o <<Do("baseline"), Do("look")>> \o ShutDown
                        \o <<Do("count")>> \o Gates

Proc001 == <<Do("baseline")>> \o HelperUp
           \o <<Do("look")>> \o ShutDown \o <<Do("count")>> \o Gates

Proc007 == HelperUp \o <<Do("look")>> \o ShutDown \o Gates

(* A helper simulated to be denied: no notification of it ends the row with a shutdown. *)
Cap003 == HelperUp \o Noted \o Noted \o <<On("look", {}, {"bail"})>> \o Noted \o ShutDown \o Gates

Proc002 == <<Do("baseline")>> \o HelperUp \o Noted \o Noted
           \o <<Do("look"), Or("call", "bail")>> \o ShutDown \o <<Do("count")>> \o Gates

Proc003 == <<Do("baseline")>> \o HelperUp \o Noted \o Noted
           \o <<Do("look"), Do("close"), Do("sigterm"), Or("exited", "error"), Do("count")>>
           \o Gates

(* Every row of this driver has an expected format, for which the display is set. *)
Cap004Start   == Environment \o Motion60 \o <<Or("mode", "fail")>> \o HelperUp
Cap004Session == RequestSession({"fail"}) \o <<Or("remode", "fail")>> \o Stream("fail")

(* A format other than the one the row is for may be a skip, after a shutdown. *)
Cap004Format == <<Or("look", "bail")>>

(* The session is lost while it is watched: fail. stopSession may fail, shutdown may not. *)
Cap004Watch == <<Or("look", "fail"), Try("call")>> \o ShutDown

Cap004 == Cap004Start \o Cap004Session \o Cap004Format \o Cap004Watch \o Gates

Enc001Start == Environment \o Motion60 \o HelperUp \o RequestSession({"fail"}) \o Stream("error")
Enc001      == Enc001Start \o RealEncoder \o Noted \o Gates

Seg001Start == Environment \o Motion60 \o HelperUp \o RequestSession({"fail"}) \o Stream("error")
Seg001      == Seg001Start \o RealEncoder \o <<Try("look")>> \o Noted \o Gates

Seg003Start == Environment \o Motion60 \o HelperUp \o RequestSession({"fail"}) \o Stream("error")

(* A save that is refused, an id that is missing only fail a gate; the id is forgotten   *)
(* whatever the answer to its release is.                                              *)
Seg003Save == RealEncoder \o <<Or("save", "next"), Or("snapshotId", "next"), Or("releaseOnce", "next")>>
Seg003     == Seg003Start \o Seg003Save \o Noted \o Noted \o Gates

Exp001Start   == <<Do("baseline")>> \o Environment \o Motion60 \o HelperUp
Exp001Session == RequestSession({"fail"}) \o Stream("error") \o RealEncoder
Exp001Export  == Saved("fail") \o Export
Exp001End     == ExportEnds \o <<Try("call"), Do("shutdown"), Do("count")>>
Exp001        == Exp001Start \o Exp001Session \o Exp001Export \o Exp001End \o Gates

(* produceStreamCopyMp4, which three drivers call. *)
ProduceStart   == <<Do("look")>> \o Environment \o Motion60 \o <<Or("mode", "fail")>> \o HelperUp
ProduceSession == RequestSession({"fail"}) \o <<Or("remode", "fail")>> \o Stream("error") \o RealEncoder
ProduceExport  == Saved("fail") \o Export
ProduceEnd     == ExportEnds \o <<Try("call"), Do("shutdown"), Or("look", "fail"), Do("hand")>>

Produce_HandsOverEarly ==
  ProduceStart \o ProduceSession \o <<Do("hand")>> \o ProduceExport \o ProduceEnd

Produce == ProduceStart \o ProduceSession \o ProduceExport \o ProduceEnd

(* ffprobe is missing: skip; it fails or finds nothing: error. What throws past that   *)
(* has no catch.                                                                       *)
Exp010Frames == <<On("read", {"skip", "error"}, {"aborted"})>>
Exp010Gates  == <<On("gates", {"fail"}, {"aborted"})>>
Exp010Reads  == Exp010Frames \o Exp010Gates
Reg002Reads == <<On("read", {"skip", "error"}, {"aborted"}), On("gates", {"fail"}, {"aborted"})>>
Reg001Checks == <<Do("look")>>
Reg001Reads  == <<Do("read")>> \o Gates

Exp012Start   == Environment \o <<Or("mode", "fail")>> \o Motion60 \o HelperUp
Exp012Session == RequestSession({"fail"}) \o <<Or("remode", "fail")>> \o Stream("error") \o RealEncoder
Exp012Export  == Saved("fail") \o Export \o <<Or("look", "fail")>>
Exp012Watch   == <<Do("terminal")>>
Exp012End     == Exp012Watch \o Released \o <<Try("call")>> \o ShutDown
Exp012        == Exp012Start \o Exp012Session \o Exp012Export \o Exp012End \o Gates

(* A portal that denies is a skip. *)
Ui003Start   == <<Do("look")>> \o Environment \o Motion60 \o HelperUp
Ui003Session == RequestSession({"skip", "fail"}) \o Stream("error") \o RealEncoder
Ui003Export  == Saved("fail") \o Export \o <<Or("look", "fail")>>
Ui003Watch   == ExportEnds \o <<Do("look")>>
Ui003        == Ui003Start \o Ui003Session \o Ui003Export \o Ui003Watch \o Gates

Reg007Start == Environment \o HelperUp \o RequestSession({"fail"}) \o Stream("error")
Reg007      == Reg007Start \o Noted \o ShutDown \o Gates

(* Patterns looked for in the application's source text. *)
SourceText == <<Do("look")>> \o Gates
Ui002  == SourceText
Ui004  == SourceText
Cap007 == SourceText
Reg013 == SourceText
Reg004 == SourceText
Reg006 == SourceText

(* Of the installed helper, if the suite has connected to one. *)
Pkg001 == <<Or("look", "skip"), Do("look")>> \o Gates

----------------------------------------------------------------------------
(* The rows: their finally blocks, shutdown sequences and callers *)

Row(id, body, finally) ==
  [id |-> id, body |-> body, finally |-> finally, bail |-> <<>>, bailAs |-> "error",
   caller |-> <<>>, cleanup |-> <<>>]

(* const rpc is not in scope of the finally block. *)
Spawned(id, body) == [Row(id, body, <<Try("sigterm")>>) EXCEPT !.bail = ShutDown]

Cap004Finally == HelperDown \o <<Try("teardown"), Try("restore")>>
Cap004Row(id) ==
  [Row(id, Cap004, Cap004Finally) EXCEPT
     !.bail = <<Try("shutdown"), Try("close")>>, !.bailAs = "skip"]

LoadedFinally == HelperDown \o <<Try("teardown")>>
Seg003Finally == <<Try("release")>> \o LoadedFinally
Exp001Finally == CancelAndRelease \o LoadedFinally \o <<Try("rmdir")>>
ModeFinally   == <<Try("restore")>> \o Exp001Finally
Exp012Finally == ModeFinally
Ui003Finally  == Exp001Finally

(* cleanup runs in the caller's finally block. *)
Produced(id, before, caller) ==
  [Row(id, before \o Produce, ModeFinally) EXCEPT !.caller = caller, !.cleanup = <<Try("rmdir")>>]

(* SMOKE_ROWS, the manual ones without. *)
SmokeRows ==
  << Row("VAL-PKG-001", Pkg001, <<>>), Spawned("VAL-CAP-003", Cap003),
     Cap004Row("VAL-CAP-004"), Row("VAL-ENC-001", Enc001, LoadedFinally),
     Row("VAL-SEG-001", Seg001, LoadedFinally), Row("VAL-SEG-003", Seg003, Seg003Finally),
     Row("VAL-EXP-001", Exp001, Exp001Finally), Produced("VAL-EXP-010", <<>>, Exp010Reads),
     Row("VAL-EXP-012", Exp012, Exp012Finally), Row("VAL-UI-003", Ui003, Ui003Finally),
     Spawned("VAL-PROC-001", Proc001), Spawned("VAL-PROC-002", Proc002),
     Row("VAL-PROC-003", Proc003, HelperDown), Spawned("VAL-PROC-007", Proc007),
     Produced("VAL-REG-002", <<>>, Reg002Reads) >>

CoverageRows ==
  << Cap004Row("VAL-CAP-016"), Cap004Row("VAL-CAP-013"), Cap004Row("VAL-CAP-014"),
     Row("VAL-UI-002", Ui002, <<>>), Row("VAL-UI-004", Ui004, <<>>), Row("VAL-CAP-007", Cap007, <<>>),
     Row("VAL-REG-013", Reg013, <<>>), Row("VAL-REG-004", Reg004, <<>>),
     Row("VAL-REG-007", Reg007, HelperDown), Row("VAL-REG-006", Reg006, <<>>),
     Produced("VAL-REG-001", Reg001Checks, Reg001Reads) >>

Rows == SmokeRows \o CoverageRows
=============================================================================
