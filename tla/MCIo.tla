-------------------------------- MODULE MCIo --------------------------------
(***************************************************************************)
(* The parts under the store's reads and writes, on small instances: the    *)
(* byte budget, the publish queue, the table answers come through, a        *)
(* thread's own ring, and the calls that move one op's bytes.  They share   *)
(* no state, so a behaviour runs one of them, chosen at the start, and the  *)
(* rest stand still.                                                        *)
(***************************************************************************)
EXTENDS InflightBudget, Sequences, TLC

CONSTANTS
  MaxBatches, MaxTag, MaxCalls, MaxFails,              \* bounds
  Threads, Keys,                                       \* of the publish queue
  Tasks, Blocking, Engine, SlotCount, BatchSlots,      \* of the table
  SqSize, CqSize, PoolSize, TableSize, NoOp, Files, Batch, NoAnswer,    \* of the ring
  BLOCK, MaxIovecs, StageBytes, Lengths, Offsets, Heads, Bodies         \* of the calls

\* Buffers of a write: none, empty ones, and more than one vectored call takes.
Writes == {<<>>, <<0>>, <<1>>, <<3, 1>>, <<1, 0, 2>>, <<0, 1, 1, 2>>, <<3, 2>>}

VARIABLES
  part,
  line, readers, isPublishing, started, finished, gathering, open, following, unparked, index, drawn, batch,
  serving, slots, nextTag, device, ready, polling, claims, batching, woken, kept, asker,
  ring, mode, calls, fails, asked, order, outstanding, answers, owed,
  op, file, landed, cursor, consumed, written, answer

publishVars == <<line, readers, isPublishing, started, finished, gathering, open, following, unparked, index,
                 drawn, batch>>
slotVars == <<serving, slots, nextTag, device, ready, polling, claims, batching, woken, kept, asker>>
ringVars == <<ring, mode, calls, fails, asked, order, outstanding, answers, owed>>
opVars == <<op, file, landed, cursor, consumed, written, answer>>

Publish == INSTANCE PublishBarrier WITH Ops <- {"grouped", "publishing", "readingAll"}, waiting <- line, me <- batch
IoTable == INSTANCE IoSlots WITH Threads <- Blocking, rung <- woken, me <- asker
OwnRing == INSTANCE UringCaller WITH Busy <- TRUE, filled <- answers
Direct == INSTANCE DirectIo WITH filled <- landed

Others(which) ==
  /\ IF which = "budget" THEN TRUE ELSE UNCHANGED vars
  /\ IF which = "publish" THEN TRUE ELSE UNCHANGED publishVars
  /\ IF which = "slots" THEN TRUE ELSE UNCHANGED slotVars
  /\ IF which = "ring" THEN TRUE ELSE UNCHANGED ringVars
  /\ IF which = "op" THEN TRUE ELSE UNCHANGED opVars

PublishNext == Publish!Next /\ drawn' <= MaxBatches

\* Every batch's tags address different slots; the last tag is drawn while a future
\* is idle.
SlotsNext ==
  /\ IoTable!Next /\ nextTag' <= MaxTag
  /\ (nextTag' = MaxTag => \E t \in Tasks : asker'[t].pc = "idle")
  /\ \A t \in Tasks : \A i, j \in DOMAIN asker'[t].wanted :
       i # j => IoTable!IndexOf(asker'[t].wanted[i]) # IoTable!IndexOf(asker'[t].wanted[j])

OwnRingNext == OwnRing!CallerNext /\ calls' <= MaxCalls /\ fails' <= MaxFails

\* The parts that do not run keep one of their initial states.
MCInit ==
  /\ part \in {"budget", "publish", "slots", "ring", "op"}
  /\ Init /\ Publish!Init /\ IoTable!Init /\ OwnRing!CallerInit /\ Direct!Init
  /\ part # "slots" => serving = "engine"
  /\ part # "op" => op = [kind |-> "write", door |-> "posix", offset |-> 0, bufs |-> <<>>] /\ file = <<>>

\* Where a bounded behaviour may end: no call is under way.
AtRest ==
  \/ part = "slots" /\ nextTag >= MaxTag /\ \A a \in Tasks \cup Blocking : asker[a].pc \in {"idle", "build"}
  \/ part = "ring" /\ calls = MaxCalls /\ mode = "idle"
  \/ part = "op" /\ answer # "none"

MCNext ==
  /\ UNCHANGED part
  /\ Others(part)
  /\ \/ part = "budget" /\ Next
     \/ part = "publish" /\ PublishNext
     \/ part = "slots" /\ SlotsNext
     \/ part = "ring" /\ OwnRingNext
     \/ part = "op" /\ Direct!Next
     \/ AtRest /\ UNCHANGED <<vars, publishVars, slotVars, ringVars, opVars>>

MCSpec == MCInit /\ [][MCNext]_<<part, vars, publishVars, slotVars, ringVars, opVars>>

Symmetry == {p @@ q : p \in Permutations(Tasks), q \in Permutations(Files)}

-----------------------------------------------------------------------------
(* Properties, as the parts state them.                                     *)

\* reading_all and the barrier (PublishBarrier).
ReadsWhole == Publish!ReadsWhole

\* A batch moves while its leader holds the barrier (PublishBarrier).
MovesHoldBarrier == Publish!MovesHoldBarrier

\* land, take and take_or_seat (IoSlots).
OwnAnswer == IoTable!OwnAnswer

\* orphan, release_run, claim_whole and collect (IoSlots).
NoSlotLost == IoTable!NoSlotLost

\* run_batch and take_ordered (UringCaller).
BatchInOrder == OwnRing!BatchInOrder

\* Inflight and Buffers through refused enters (UringCaller).
RingAccounted == OwnRing!RingAccounted

\* Files::give_up and make_room (UringCaller).
RightFile == OwnRing!RightFile

\* wait_more (UringCaller).
WaitsForSomething == OwnRing!WaitsForSomething

\* pread_into, read_covering and Pending::complete (DirectIo).
ReadsRange == Direct!ReadsRange

\* pwritev_all_into, direct_writev and StagedWrite (DirectIo).
WritesStream == Direct!WritesStream
=============================================================================
