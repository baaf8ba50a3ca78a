---------------------------- MODULE MCCompaction ----------------------------
(* Compaction on a small volume: bounds on the numbers drawn and on faults. *)
EXTENDS Compaction, TLC

CONSTANTS MaxLsn,     \* the highest number drawn
          ReadLsn,    \* the highest number drawn while a reader holds a handle
          FullLsn,    \* the highest number drawn with a fault or with every segment in use
          MaxFaults   \* how many writes fail, passes are given up and crashes there are in all

VARIABLE faults

MCInit == Init /\ faults = 0

\* A handle counts only once its segment is retired, so opening one before the seal adds nothing.
Reads == /\ {r \in Readers : handle'[r] \notin {0, handle[r]} /\ state[handle'[r]] # "sealed"} = {}
         /\ {r \in Readers : handle'[r] # 0 /\ peek' > ReadLsn + 1} = {}

\* Rolling or compacting a segment without a record of the key changes nothing
\* for it, and only uses segments up.
Holds(s) == \E r \in disk : r.seg = s
Matters == /\ {t \in Tails : active'[t] # active[t] /\ ~ Holds(active[t])} = {}
           /\ {p \in Passes : pass'[p].pc = "settled" /\ ~ Holds(pass'[p].seg)} = {}

\* With a number past FullLsn there is no fault and a segment stays unused; with
\* a fault one tail's open segment is empty; with either, writes go one by one.
Bounds == /\ peek' <= MaxLsn + 1
          /\ peek' > FullLsn + 1 => faults' = 0 /\ {s \in Segments : state'[s] = "none"} # {}
          /\ faults' > 0 => {t \in Tails : {r \in disk' : r.seg = active'[t]} = {}} # {}
          /\ faults' > 0 \/ peek' > FullLsn + 1 => Cardinality({w \in Writers : writer'[w].pc # "idle"}) <= 1

\* With no second copy of a record and no file doomed, a pass given up changed
\* nothing, and a crash leaves the volume as if what it lost had not been written.
Midway == \/ \E s \in Segments : state[s] = "retired"
          \/ \E r, q \in disk : r.lsn = q.lsn /\ r.seg # q.seg

Faulty == faults < MaxFaults /\ peek <= FullLsn + 1 /\ faults' = faults + 1

MCNext ==
  \/ Run /\ UNCHANGED faults /\ Reads /\ Matters /\ Bounds
  \/ Faulty /\ Midway = TRUE /\ Fault /\ Bounds
  \/ Faulty /\ (\E w \in Writers : Fail(w)) /\ Bounds

MCSpec == MCInit /\ [][MCNext]_<<vars, faults>>

Symmetry == Permutations(Writers) \union Permutations(Tails)
=============================================================================
