------------------------------- MODULE MCWaits -------------------------------
(***************************************************************************)
(* The parts of the store that wait, on small instances: the draw gauge,    *)
(* the publish queue, the tail's calls, the ring's engine and the slots its *)
(* answers come through.  They share no state, so a behaviour runs one of   *)
(* them, chosen at the start, and the rest stand still.  The fairness is    *)
(* each part's own: a thread that can run does, nothing makes a call start. *)
(***************************************************************************)
EXTENDS Drawn, Sequences, FiniteSets

CONSTANTS
  \* Bounds: numbers drawn, batches, I/O errors, positions given out, tags, failed enters.
  MaxLsn, MaxBatches, MaxFaults, MaxReserved, MaxTag, MaxFails,
  Threads, Keys, NoOne,                                   \* of the publish queue
  Callers, Cap, Threshold, MaxSegment,                    \* of the tail
  Tasks, Engine, SlotCount, BatchSlots,                   \* of the slots
  SqSize, CqSize, PoolSize, TableSize, NoOp, InboxSize    \* of the ring

VARIABLES
  part,
  waiting, readers, isPublishing, started, finished, gathering, open, following, unparked, index, drawn, batch,
  active, seg, queue, parked, pastSaving, call, faults, menu,
  serving, slots, nextTag, device, ready, polling, claims, batching, rung, kept, asker,
  ring, pc, inbox, asleep, stopping, failed, taken, drained, found, caller, stopper, fails

publishVars == <<waiting, readers, isPublishing, started, finished, gathering, open, following, unparked, index,
                 drawn, batch>>
tailVars == <<active, seg, queue, parked, pastSaving, call, faults>>
slotVars == <<serving, slots, nextTag, device, ready, polling, claims, batching, rung, kept, asker>>
ringVars == <<ring, pc, inbox, asleep, stopping, failed, taken, drained, found, caller, stopper, fails>>

Publish == INSTANCE PublishBarrier WITH Ops <- {"grouped", "publishing", "readingAll"}, me <- batch
TailCalls == INSTANCE AppendTail WITH
  Ops <- {"batch", "batchDurable", "durable", "seal"}, Awaits <- {"batch"}, me <- call
IoTable == INSTANCE IoSlots WITH Threads <- {}, me <- asker
Ring == INSTANCE UringEngine WITH Busy <- FALSE, parked <- asleep, seen <- found

Others(which) ==
  /\ IF which = "gauge" THEN TRUE ELSE UNCHANGED vars
  /\ IF which = "publish" THEN TRUE ELSE UNCHANGED publishVars
  /\ IF which = "tail" THEN TRUE ELSE UNCHANGED <<tailVars, menu>>
  /\ IF which = "slots" THEN TRUE ELSE UNCHANGED slotVars
  /\ IF which = "ring" THEN TRUE ELSE UNCHANGED ringVars

\* The floor is asked only while it trails the counter: asking a caught-up
\* gauge again moves nothing but the epoch.
GaugeNext ==
  /\ Next /\ lsn' <= MaxLsn
  /\ (fpc = "idle" /\ fpc' # "idle") => answer # lsn

PublishNext == Publish!Next /\ drawn' <= MaxBatches

\* The calls of a behaviour are those of one menu; batches meet no I/O error.
Menus == {{"batch"}, {"durable", "seal"}}
TailNext ==
  LET begins == {c \in Callers : call[c].pc = "idle" /\ call'[c].pc # "idle"}
  IN  /\ TailCalls!Next /\ UNCHANGED menu
      /\ \A c \in begins : call'[c].op \in menu
      /\ faults' <= (IF "batch" \in menu THEN 0 ELSE MaxFaults)
      /\ begins # {} => seg[MaxSegment].reserved < MaxReserved

\* Every batch's tags address different slots, and no submission fails halfway.
SlotsNext ==
  /\ IoTable!Next /\ nextTag' <= MaxTag /\ kept' = {}
  /\ \A t \in Tasks : \A i, j \in DOMAIN asker'[t].wanted :
       i # j => IoTable!IndexOf(asker'[t].wanted[i]) # IoTable!IndexOf(asker'[t].wanted[j])

RingNext == Ring!EngineNext /\ fails' <= MaxFails

MCInit ==
  /\ part \in {"gauge", "publish", "tail", "slots", "ring"}
  /\ Init /\ Publish!Init /\ TailCalls!Init /\ IoTable!Init /\ Ring!EngineInit
  /\ menu \in (IF part = "tail" THEN Menus ELSE {{}})
  /\ serving = "engine"

MCNext ==
  /\ UNCHANGED part
  /\ Others(part)
  /\ \/ part = "gauge" /\ GaugeNext
     \/ part = "publish" /\ PublishNext
     \/ part = "tail" /\ TailNext
     \/ part = "slots" /\ SlotsNext
     \/ part = "ring" /\ RingNext

mcVars == <<part, vars, publishVars, tailVars, menu, slotVars, ringVars>>

MCFairSpec ==
  /\ MCInit /\ [][MCNext]_mcVars
  /\ WF_vars(part = "gauge" /\ GaugeNext /\ FloorStep)
  /\ \A w \in Writers : WF_vars(part = "gauge" /\ GaugeNext /\ wpc[w] # "idle" /\ WriterStep(w))
  /\ \A t \in Threads : WF_publishVars(part = "publish" /\ Publish!Step(t))
  /\ \A c \in Callers : WF_tailVars(part = "tail" /\ TailCalls!CallerStep(c))
  /\ WF_tailVars(part = "tail" /\ TailCalls!SealerStep) /\ WF_tailVars(part = "tail" /\ TailCalls!TickStep)
  /\ WF_slotVars(part = "slots" /\ \E tag \in device : IoTable!Answer(tag))
  /\ WF_slotVars(part = "slots" /\ IoTable!Reap)
  /\ WF_slotVars(part = "slots" /\ IoTable!File(Engine)) /\ WF_slotVars(part = "slots" /\ IoTable!RingClaims(Engine))
  /\ \A t \in Tasks : WF_slotVars(part = "slots" /\ IoTable!TaskStep(t)) /\ SF_slotVars(part = "slots" /\ IoTable!TakeTurn(t))
  /\ WF_ringVars(part = "ring" /\ Ring!EngineStep)
  /\ WF_ringVars(part = "ring" /\ Ring!KernelOp) /\ WF_ringVars(part = "ring" /\ Ring!PollFires)
  /\ WF_ringVars(part = "ring" /\ stopper = "kick" /\ Ring!Stop)
  /\ \A c \in Callers : WF_ringVars(part = "ring" /\ Ring!Kick(c))

-----------------------------------------------------------------------------
(* Properties.  The callers of a part are interchangeable, so one is followed.*)

Thread == CHOOSE t \in Threads : TRUE
Caller == CHOOSE c \in Callers : TRUE
Task == CHOOSE t \in Tasks : TRUE

Owed ==
  \/ batch[Thread].pc # "idle"
  \/ call[Caller].pc # "idle"
  \/ asker[Task].pc \notin {"idle", "build"}
  \/ caller[Caller] = "asked" /\ ~ failed
  \/ lsn > FIRST_LSN /\ answer = FIRST_LSN

\* Whatever waits is served in the end: a batch or a read in the publish queue,
\* whose thread has only the unpark of whoever was before it, though reads keep
\* coming; a put, a sync or a seal on a tail that others roll; a future waiting
\* for a slot or for its answer; an op handed to the ring's engine, which may be
\* asleep; and the floor, passing the first number drawn though writers keep
\* entering and leaving around its calls (drawn.rs:51).
WaitsEnd == Owed ~> ~ Owed

\* Flush.is_running (AppendTail).
OneFlush == TailCalls!OneFlush

\* past_saving (AppendTail).
StrandedIsCounted == TailCalls!StrandedIsCounted

\* should_park, kick and arm (UringEngine).
SleepsWithCause == Ring!SleepsWithCause

\* Inbox::stop and serve (UringEngine).
StopsClean == Ring!StopsClean
=============================================================================
