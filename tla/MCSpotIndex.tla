----------------------------- MODULE MCSpotIndex -----------------------------
(* SpotIndex on small instances.  MaxCalls bounds the writes and reads of a    *)
(* behaviour, and a segment seals only with a record of the key in it: one     *)
(* without changes nothing for the key but the numbers.                        *)
(*                                                                             *)
(* The code does not keep the properties through three overlaps.  Each of      *)
(* these bounds, when FALSE, leaves out the step that completes one:           *)
(*  - Beside: a hand-over takes the key out of the map between a pass's look   *)
(*    at it and its repoint, or its segment is retired while it runs;          *)
(*  - Met: a write is refused by a tentative slot, a settle or a scrub books   *)
(*    one, or a pass asks where a key is while one stands.  The slots          *)
(*    themselves come and go, and reads meet them;                             *)
(*  - Behind: a live slot into a retired segment goes while a write has still  *)
(*    to settle the versions it displaced, or a grave goes while its own       *)
(*    delete has.                                                              *)
EXTENDS SpotIndex, TLC

CONSTANTS MaxCalls, Beside, Met, Behind

VARIABLE reads

HandedBeforeRepoint == pass.pc = "resolved" /\ map # None /\ map' = None
RetiredInHand == pass.pc = "rewrite" /\ pass'.pc = "forgot" /\ hand.pc # "idle" /\ hand.row.seg = pass.seg

Meets(x) ==
  \/ paged' # paged /\ x \notin spot'
  \/ map = None /\ pass' # pass /\ pass.pc # "forgot" /\ pass'.pc # "forgot"
  \/ map = None /\ \E w \in Writers : writer[w].pc = "landed" /\ writer'[w] # writer[w] /\ x.lsn > writer[w].lsn

Settling == {w \in Writers : writer[w].pc \in {"moved", "settling"}}
Dropped == writer' = writer /\ \E x \in LiveSlots(spot) : ~ Standing(x.seg) /\ SlotsAt(spot', Loc(x)) = {}
Pruned == lifted' # lifted /\ \E w \in Settling : writer[w].lsn = map.lsn

MCInit == Init /\ reads = 0

MCNext ==
  /\ Next
  /\ reads' = reads + Cardinality({r \in Readers : reader[r].pc = "idle" /\ reader'[r].pc # "idle"})
  /\ peek' - 1 + reads' <= MaxCalls
  /\ ~ (active' # active /\ {r \in disk : r.seg = active} = {})
  /\ ~ (~ Beside /\ (HandedBeforeRepoint \/ RetiredInHand))
  /\ ~ (~ Met /\ \E x \in Tentative : Meets(x))
  /\ ~ (~ Behind /\ Settling # {} /\ (Dropped \/ Pruned))

MCSpec == MCInit /\ [][MCNext]_<<vars, reads>>

Symmetry == Permutations(Writers)
=============================================================================
