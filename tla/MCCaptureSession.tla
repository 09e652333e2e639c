-------------------------- MODULE MCCaptureSession --------------------------
(* CaptureSession for TLC: two sessions that follow one another, whose       *)
(* streams may fail but deliver nothing, or one session with its frames.     *)
EXTENDS CaptureSession

MCBounds ==
  { [sessions |-> 2, formats |-> 1, frames |-> 0, faults |-> 0],
    [sessions |-> 1, formats |-> 2, frames |-> 2, faults |-> 1] }
=============================================================================
