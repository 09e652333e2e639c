--------------------------- MODULE MCRecordingApp ---------------------------
(* RecordingApp for TLC: the constants of its configurations are bounds. *)
EXTENDS RecordingApp
=============================================================================
