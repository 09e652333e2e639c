---------------------------- MODULE ReplayStore ----------------------------
(***************************************************************************)
(* What the rolling segment buffer promises to those who save replays: a   *)
(* log of recorded segments whose end a snapshot can take, and which may   *)
(* forget any segment, but none that a snapshot has taken and not yet      *)
(* returned.                                                               *)
(***************************************************************************)
EXTENDS Integers

CONSTANT Snap   \* names for snapshots

VARIABLES
  next,   \* index of the next segment
  kept,   \* segments that a snapshot can take now
  taken   \* segments that each snapshot holds

vars == <<next, kept, taken>>

Init ==
  /\ next = 0
  /\ kept = {}
  /\ taken = [s \in Snap |-> {}]

\* The next segment is recorded, or its index is lost to a failed write.
Record ==
  /\ next' = next + 1
  /\ kept' \in {kept, kept \cup {next}}
  /\ UNCHANGED taken

Forget(i) ==
  /\ \A s \in Snap : i \notin taken[s]
  /\ kept' = kept \ {i}
  /\ UNCHANGED <<next, taken>>

\* A snapshot takes the last segments, all those after some point.
Take(s, S) ==
  /\ taken[s] = {}
  /\ \A i \in S, j \in kept : j > i => j \in S
  /\ taken' = [taken EXCEPT ![s] = S]
  /\ UNCHANGED <<next, kept>>

Return(s) ==
  /\ taken' = [taken EXCEPT ![s] = {}]
  /\ UNCHANGED <<next, kept>>

Next ==
  \/ Record
  \/ \E i \in kept : Forget(i)
  \/ \E s \in Snap : Return(s) \/ \E S \in SUBSET kept : Take(s, S)

Spec == Init /\ [][Next]_vars
=============================================================================
