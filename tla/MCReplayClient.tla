--------------------------- MODULE MCReplayClient ---------------------------
(* The replay client on small instances. *)
EXTENDS ReplayClient
=============================================================================
