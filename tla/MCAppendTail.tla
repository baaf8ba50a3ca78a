---------------------------- MODULE MCAppendTail ----------------------------
(* AppendTail on small instances: MaxFaults bounds the I/O errors of a       *)
(* behaviour, and no call begins once the last segment has given out its     *)
(* positions below MaxReserved.  A behaviour makes the calls of one menu, and *)
(* meets no I/O error when that has a call in Calm.                           *)
EXTENDS AppendTail, TLC

CONSTANTS MaxFaults, MaxReserved, Menus, Calm

VARIABLE menu

Beginning == {c \in Callers : me[c].pc = "idle" /\ me'[c].pc # "idle"}

Begins == Beginning # {}

MCNext ==
  /\ Next /\ UNCHANGED menu
  /\ \A c \in Beginning : me'[c].op \in menu
  /\ faults' <= (IF menu \cap Calm = {} THEN MaxFaults ELSE 0)
  /\ Begins => seg[MaxSegment].reserved < MaxReserved

MCInit == Init /\ menu \in Menus

MCSpec == MCInit /\ [][MCNext]_<<vars, menu>>

\* Bounded, with every thread that has a step taking it in the end
MCFairSpec == MCSpec /\ Fairness

Symmetry == Permutations(Callers)
=============================================================================
