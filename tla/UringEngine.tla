---------------------------- MODULE UringEngine ----------------------------
(***************************************************************************)
(* The thread that serves one ring for callers that have no thread of their *)
(* own (io/uring_backend.rs: serve, deliver, Inbox, Kick).  Callers push    *)
(* ops into the inbox under its lock and write the eventfd only when the    *)
(* engine is marked parked; the ring watches the eventfd with a multishot   *)
(* poll, so that one wait sees the device and the callers.  One action is   *)
(* one lock section, one system call, or the code between two of them.      *)
(***************************************************************************)
EXTENDS UringRing

CONSTANTS
  Callers,
  InboxSize   \* SLOT_COUNT

VARIABLES
  ring, pc,
  inbox, parked, stopping, failed,   \* the queue under its lock
  taken, drained,     \* ops taken and not staged, completions not filed
  seen,               \* the stop flag as the last take saw it
  caller,             \* "ready", "kick", "asked", "answered" or "refused"
  stopper,            \* "run", "kick" or "join"
  fails               \* enters that failed or were cut short

engineVars == <<ring, pc, inbox, parked, stopping, failed, taken, drained, seen,
                caller, stopper, fails>>
queueVars == <<inbox, parked, stopping, failed>>
workVars  == <<taken, drained, seen>>

OpOf(c) == [of |-> c, file |-> c]

\* The poll, while the kernel has it.
KickPoll(r) == {e \in r.kernel : e.op = NoOp}

\* The ring is watched and flushed before the engine is handed out.
EngineInit ==
  /\ ring = Entered([NewRing EXCEPT !.sq = <<KickEntry>>, !.armed = TRUE]) /\ pc = "take"
  /\ inbox = <<>> /\ parked = FALSE /\ stopping = FALSE /\ failed = FALSE
  /\ taken = <<>> /\ drained = {} /\ seen = FALSE
  /\ caller = [c \in Callers |-> "ready"] /\ stopper = "run" /\ fails = 0

-----------------------------------------------------------------------------
(* The callers.                                                             *)

\* hand and hand_one, up to the unlock.
Hand(c) ==
  /\ caller[c] = "ready" /\ stopper = "run"
  /\ \/ /\ failed \/ Len(inbox) >= InboxSize
        /\ caller' = [caller EXCEPT ![c] = "refused"]
        /\ UNCHANGED inbox
     \/ /\ ~ failed /\ Len(inbox) < InboxSize
        /\ inbox' = Append(inbox, OpOf(c))
        /\ caller' = [caller EXCEPT ![c] = IF parked THEN "kick" ELSE "asked"]
  /\ UNCHANGED <<ring, pc, parked, stopping, failed, workVars, stopper, fails>>

\* The eventfd is written; a full counter has a wake pending already.
Written(r) == [r EXCEPT !.ticks = 1, !.poke = TRUE]

Kick(c) ==
  /\ caller[c] = "kick"
  /\ caller' = [caller EXCEPT ![c] = "asked"]
  /\ ring' = Written(ring)
  /\ UNCHANGED <<pc, queueVars, workVars, stopper, fails>>

\* Engine::drop, with no caller inside: the flag, then the kick, then the join.
Stop ==
  /\ \/ /\ stopper = "run" /\ \A c \in Callers : caller[c] # "kick"
        /\ stopper' = "kick" /\ stopping' = TRUE
        /\ UNCHANGED ring
     \/ /\ stopper = "kick" /\ stopper' = "join"
        /\ ring' = Written(ring)
        /\ UNCHANGED stopping
  /\ UNCHANGED <<pc, inbox, parked, failed, workVars, caller, fails>>

-----------------------------------------------------------------------------
(* The engine.                                                              *)

FreeOps(r) == {Free(r)[k].op : k \in DOMAIN Free(r)}

TakeAll ==
  /\ pc = "take"
  /\ taken' = inbox /\ inbox' = <<>> /\ seen' = stopping
  /\ pc' = IF inbox = <<>> THEN "drain" ELSE "deliver"
  /\ UNCHANGED <<ring, parked, stopping, failed, drained, caller, stopper, fails>>

\* deliver, one op, when the ring has room.
DeliverOne ==
  /\ pc = "deliver" /\ taken # <<>> /\ ~ IsFull(ring)
  /\ \/ \E s \in Stage(ring, Head(taken), Unordered) :
          /\ ring' = s.ring /\ fails' = fails + s.fails
          /\ drained' = IF s.on THEN drained ELSE drained \cup {Head(taken)}
     \/ /\ drained' = drained \cup {Head(taken)}    \* off the ring, on posix
        /\ UNCHANGED <<ring, fails>>
  /\ taken' = Tail(taken)
  /\ UNCHANGED <<pc, queueVars, seen, caller, stopper>>

DeliverDrains ==
  /\ pc = "deliver" /\ taken # <<>> /\ IsFull(ring) /\ ring.cq # <<>>
  /\ ring' = TakeFree(Drain(ring))
  /\ drained' = drained \cup FreeOps(Drain(ring))
  /\ UNCHANGED <<pc, queueVars, taken, seen, caller, stopper, fails>>

Entering ==
  \/ ring' = Entered(ring) /\ UNCHANGED fails
  \/ ring' = Interrupted(ring) /\ fails' = fails + 1

DeliverWaits ==
  /\ pc = "deliver" /\ taken # <<>> /\ IsFull(ring) /\ ring.cq = <<>>
  /\ \/ Entering /\ UNCHANGED drained
     \/ /\ ring' = TakeFree(Refuse(ring)) /\ fails' = fails + 1
        /\ drained' = drained \cup FreeOps(Refuse(ring))
  /\ UNCHANGED <<pc, queueVars, taken, seen, caller, stopper>>

Flushing ==
  \/ ring' \in Flushed(ring) /\ UNCHANGED fails
  \/ ring' \in FlushFailed(ring) /\ fails' = fails + 1

\* deliver ends with a flush; what it refused is taken with the drain.
DeliverFlushes ==
  /\ pc = "deliver" /\ taken = <<>>
  /\ Flushing /\ pc' = "drain"
  /\ UNCHANGED <<queueVars, workVars, caller, stopper>>

\* Faulty: a stopping engine leaves with completions it has not filed.
DrainAllLeaves ==
  LET got == drained \cup FreeOps(Drain(ring)) IN
  /\ pc = "drain"
  /\ ring' = TakeFree(Drain(ring)) /\ drained' = got
  /\ pc' = IF seen /\ IsIdle(ring') THEN "gone" ELSE IF got # {} THEN "file" ELSE "arm"
  /\ UNCHANGED <<queueVars, taken, seen, caller, stopper, fails>>

DrainAll ==
  LET got == drained \cup FreeOps(Drain(ring)) IN
  /\ pc = "drain"
  /\ ring' = TakeFree(Drain(ring)) /\ drained' = got
  /\ pc' = IF got # {} THEN "file" ELSE IF seen /\ IsIdle(ring') THEN "gone" ELSE "arm"
  /\ UNCHANGED <<queueVars, taken, seen, caller, stopper, fails>>

\* The completions go into the slot table, which wakes their callers.
File ==
  /\ pc = "file"
  /\ caller' = [c \in Callers |-> IF OpOf(c) \in drained THEN "answered" ELSE caller[c]]
  /\ drained' = {} /\ pc' = "take"
  /\ UNCHANGED <<ring, queueVars, taken, seen, stopper, fails>>

\* The poll goes back on the ring when it fell off.  A full queue whose flush
\* fails leaves it off.
Arm ==
  /\ pc = "arm" /\ pc' = "flush"
  /\ \/ ring.armed /\ UNCHANGED <<ring, fails>>
     \/ /\ ~ ring.armed
        /\ \E q \in IF Len(ring.sq) < SqSize THEN {ring} ELSE Flushed(ring) :
             ring' = [q EXCEPT !.sq = Append(@, KickEntry), !.armed = TRUE]
        /\ UNCHANGED fails
     \/ /\ ~ ring.armed /\ Len(ring.sq) >= SqSize
        /\ ring' \in FlushFailed(ring) /\ fails' = fails + 1
  /\ UNCHANGED <<queueVars, workVars, caller, stopper>>

FlushQueue ==
  /\ pc = "flush" /\ pc' = "ask"
  /\ Flushing
  /\ UNCHANGED <<queueVars, workVars, caller, stopper>>

\* Faulty: the engine parks on what it saw when it took the queue.
ShouldParkUnseen ==
  /\ pc = "ask"
  /\ parked' = TRUE /\ pc' = "park"
  /\ UNCHANGED <<ring, inbox, stopping, failed, workVars, caller, stopper, fails>>

ShouldPark ==
  /\ pc = "ask"
  /\ IF inbox # <<>> \/ stopping THEN pc' = "take" /\ UNCHANGED parked
     ELSE parked' = TRUE /\ pc' = "park"
  /\ UNCHANGED <<ring, inbox, stopping, failed, workVars, caller, stopper, fails>>

\* park: submit_and_wait; an error marks the engine failed and ends it.
Park ==
  /\ pc = "park"
  /\ \/ ring' = Entered(ring) /\ pc' = "asleep" /\ UNCHANGED <<failed, fails>>
     \/ ring' = Interrupted(ring) /\ pc' = "unpark" /\ fails' = fails + 1 /\ UNCHANGED failed
     \/ ring' = Refuse(ring) /\ pc' = "gone" /\ fails' = fails + 1 /\ failed' = TRUE
  /\ UNCHANGED <<inbox, parked, stopping, workVars, caller, stopper>>

Wake ==
  /\ pc = "asleep" /\ ring.cq # <<>>
  /\ pc' = "unpark"
  /\ UNCHANGED <<ring, queueVars, workVars, caller, stopper, fails>>

Unpark ==
  /\ pc = "unpark"
  /\ parked' = FALSE /\ pc' = "take"
  /\ UNCHANGED <<ring, inbox, stopping, failed, workVars, caller, stopper, fails>>

-----------------------------------------------------------------------------
(* The kernel: an op is done, or the poll reports the eventfd, perhaps for   *)
(* the last time.                                                            *)

KernelOp ==
  /\ \E e \in ring.kernel \ KickPoll(ring) : ring' = KernelAnswers(ring, e)
  /\ UNCHANGED <<pc, queueVars, workVars, caller, stopper, fails>>

PollFires ==
  /\ ring.poke
  /\ \E e \in KickPoll(ring), more \in BOOLEAN :
       ring' = [ring EXCEPT !.poke = FALSE,
                            !.cq = Append(@, [e EXCEPT !.hit = more]),
                            !.kernel = IF more THEN @ ELSE @ \ {e}]
  /\ UNCHANGED <<pc, queueVars, workVars, caller, stopper, fails>>

EngineStep == TakeAll \/ DeliverOne \/ DeliverDrains \/ DeliverWaits \/ DeliverFlushes \/ DrainAll
              \/ File \/ Arm \/ FlushQueue \/ ShouldPark \/ Park \/ Wake \/ Unpark
KernelStep == KernelOp \/ PollFires
EngineNext == EngineStep \/ KernelStep \/ Stop \/ \E c \in Callers : Hand(c) \/ Kick(c)
EngineSpec == EngineInit /\ [][EngineNext]_engineVars

\* The engine runs, the kernel answers, and whoever is to kick does.
EngineFairness ==
  /\ WF_engineVars(EngineStep) /\ WF_engineVars(KernelOp) /\ WF_engineVars(PollFires)
  /\ WF_engineVars(stopper = "kick" /\ Stop)
  /\ \A c \in Callers : WF_engineVars(Kick(c))
EngineFairSpec == EngineSpec /\ EngineFairness
-----------------------------------------------------------------------------
\* The engine is never left asleep over work: whenever it sleeps with an op in
\* its inbox or a stop asked for, a completion is on its queue or on its way,
\* or a kick is written or about to be, and the poll is there to see it
\* (should_park, kick, arm).  Enters that fail are counted out: the poll may
\* then stay off the ring.
SleepsWithCause ==
  pc = "asleep" /\ (inbox # <<>> \/ stopping) /\ fails = 0 =>
    \/ ring.cq # <<>> \/ ring.kernel \ KickPoll(ring) # {}
    \/ KickPoll(ring) # {} /\ (ring.poke \/ stopper = "kick" \/ \E c \in Callers : caller[c] = "kick")

\* An engine that was asked to stop and did leaves no op behind: not in the
\* inbox, not on the ring, not unfiled (Inbox::stop, serve).
StopsClean ==
  pc = "gone" /\ ~ failed => /\ inbox = <<>> /\ taken = <<>> /\ drained = {}
                             /\ \A c \in Callers : caller[c] # "asked"

\* Every op handed over is answered, or the engine's ring failed a wait.
HandedIsAnswered == \A c \in Callers : caller[c] = "asked" ~> caller[c] = "answered" \/ failed
=============================================================================
