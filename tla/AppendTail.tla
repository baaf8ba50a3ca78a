----------------------------- MODULE AppendTail -----------------------------
(***************************************************************************)
(* One append tail (append/mod.rs, append/flush.rs, append/sealer.rs,       *)
(* append/journal.rs): callers place records in the active segment under    *)
(* its shared lock, roll it when it is full, share flushes of it, and hand  *)
(* what they rolled to the sealer; the maintenance tick retries the seals   *)
(* that failed.  A record is a position in a segment, one unit wide, and a  *)
(* segment takes records below Cap.  What holds the exclusive lock is one   *)
(* action, and so is what a placed record does under the shared one, since  *)
(* flushes and rolls look at a segment only once nobody holds it shared.    *)
(* An I/O call may fail; faults counts the failures.                        *)
(***************************************************************************)
EXTENDS Naturals, Sequences, FiniteSets

CONSTANTS
  Callers,     \* threads and tasks calling the tail
  Ops,         \* what they call, a subset of Calls
  Awaits,      \* the calls among them that may be made in their awaited form
  Cap,         \* where a segment's records end
  Threshold,   \* SyncPolicy::Bytes in units; above any segment it is Never
  MaxSegment   \* the highest segment number there is

Calls == {"put", "durable", "batch", "batchDurable", "flush", "seal", "finish", "close"}

HEADER == 1

ASSUME CallersAssumption == IsFiniteSet(Callers) /\ {"sealer", "tick"} \cap Callers = {}
ASSUME OpsAssumption == Ops \subseteq Calls /\ Awaits \subseteq {"put", "batch", "flush"}
ASSUME SizesAssumption ==
  Cap \in Nat /\ Cap > HEADER /\ Threshold \in Nat /\ MaxSegment \in Nat \ {0}

Segments  == 1 .. MaxSegment
Positions == HEADER .. Cap - 1
Actors    == Callers \cup {"sealer", "tick"}

VARIABLES
  active,     \* the segment writers append to
  seg,        \* the state of each segment, see Segment
  queue,      \* the sealer's channel
  parked,     \* ReelShared.broken_seals
  pastSaving, \* ReelShared.past_saving
  me,         \* the state of each caller, the sealer and the tick, see Actor
  faults

vars == <<active, seg, queue, parked, pastSaving, me, faults>>

\* Active, SyncState and Flush of one segment.  durable stands for a synced_at
\* of u64::MAX; disk is what a power cut leaves readable, record and row both.
Segment ==
  [reserved : Nat, settled : Nat, cut : Nat,
   landed : SUBSET Positions, pending : SUBSET Positions, rows : SUBSET Positions,
   lost : BOOLEAN, disk : SUBSET Positions,
   syncedAt : Nat, durable : BOOLEAN,
   running : BOOLEAN, broken : BOOLEAN, retired : BOOLEAN,
   terminal : BOOLEAN]

Places ==
  {"idle", "place", "claimed", "roll", "hand", "rollTerminal", "rolledTerminal",
   "rolledBroken", "drain", "settledSync", "owedSync", "pastSaving", "sync", "turn",
   "rows", "device", "publish", "doom", "swap", "sealing", "marking", "counting",
   "parking", "closing", "finishing"}

\* Where an actor is, its call, the segment and position (or covered length) it
\* works on, the position its sync owes, how its last step ended, the records an
\* ok answer speaks for (see Return), and the segment the tail was on when its flush had drained
\* the sealer (0 if one was swapped out and not handed over, or is by now)
Actor ==
  [pc : Places, op : Calls \cup {"none"}, on : Segments, at : Nat, owed : Nat,
   res : {"ok", "err", "none", "terminal", "gone"},
   due : SUBSET (Segments \X Positions), from : Nat]

Job == [kind : {"seal", "flush"}, on : Segments]

-----------------------------------------------------------------------------
(* Derived state.                                                          *)

\* Whether nobody holds the active segment's lock shared
IsFree == \A c \in Callers : me[c].pc # "claimed"

\* Active::end
End(s) == IF seg[s].cut < seg[s].reserved THEN seg[s].cut ELSE seg[s].reserved

\* synced_at >= target
Covers(s, target) == seg[s].durable \/ seg[s].syncedAt >= target

\* Appender::owes_sync, for a segment that has settled this much
OwesSync(s, settled) ==
  Threshold = 0 \/ (~seg[s].durable /\ settled >= seg[s].syncedAt + Threshold)

\* The sealer's count of jobs handed over and not finished
Unfinished == Len(queue) + (IF me["sealer"].pc = "idle" THEN 0 ELSE 1)

Records == {r \in Segments \X Positions : r[2] \in seg[r[1]].landed}
OnDisk  == {r \in Segments \X Positions : r[2] \in seg[r[1]].disk}

\* Segments some caller has swapped out of the tail and neither handed to the
\* sealer nor finished with itself
InHand == {me[c].on : c \in {d \in Callers : me[d].pc \in
  {"hand", "rolledTerminal", "rolledBroken", "sealing", "marking", "counting"}}}

-----------------------------------------------------------------------------

Fresh ==
  [reserved |-> HEADER, settled |-> HEADER, cut |-> Cap + Cardinality(Callers) + 1,
   landed |-> {}, pending |-> {}, rows |-> {}, lost |-> FALSE, disk |-> {},
   syncedAt |-> 0, durable |-> FALSE,
   running |-> FALSE, broken |-> FALSE, retired |-> FALSE,
   terminal |-> FALSE]

Idle ==
  [pc |-> "idle", op |-> "none", on |-> 1, at |-> 0, owed |-> 0, res |-> "ok",
   due |-> {}, from |-> 0]

Init ==
  /\ active = 1
  /\ seg = [s \in Segments |-> Fresh]
  /\ queue = <<>>
  /\ parked = {}
  /\ pastSaving = 0
  /\ me = [a \in Actors |-> Idle]
  /\ faults = 0

Becomes(a, actor)   == me' = [me EXCEPT ![a] = actor]
Changes(s, segment) == seg' = [seg EXCEPT ![s] = segment]
GoTo(a, where)      == Becomes(a, [me[a] EXCEPT !.pc = where])

\* The call returns ok or an error, or its future is dropped ("gone").  What an ok
\* answer speaks for that is not on the device is kept with the idle caller.
Return(a, r) ==
  LET unmet == IF r = "ok" THEN me[a].due \ OnDisk ELSE {}
  IN  Becomes(a, IF unmet = {} THEN Idle
                 ELSE [Idle EXCEPT !.op = me[a].op, !.due = unmet, !.from = me[a].from])

\* The worker and the tick go idle, a caller of seal returns.
Finish(a, r) == IF a \in Callers THEN Return(a, r) ELSE Becomes(a, Idle)

Fault   == faults' = faults + 1
NoFault == UNCHANGED faults

-----------------------------------------------------------------------------
(* Calls.                                                                  *)

Entry(o) ==
  IF o \in {"put", "durable", "batch", "batchDurable"} THEN "place"
  ELSE IF o \in {"flush", "finish"} THEN "drain"
  ELSE IF o = "seal" THEN "swap" ELSE "closing"

Begin(c) ==
  /\ me[c].pc = "idle"
  /\ \E o \in Ops :
       Becomes(c, [Idle EXCEPT !.pc = Entry(o), !.op = o,
                               !.due = IF o = "flush" THEN Records ELSE {}])
  /\ UNCHANGED <<active, seg, queue, parked, pastSaving, faults>>

-----------------------------------------------------------------------------
(* The journal of a segment g: write_locked puts every pending row in the   *)
(* file, or fails: at once when rows were lost before, else with the rows   *)
(* put back or gone with the write.                                         *)

RowsDown(g) == [g EXCEPT !.rows = @ \cup g.pending, !.pending = {}]
RowsGone(g) == [g EXCEPT !.pending = {}, !.lost = TRUE]

JournalWrites(s) == ~seg[s].lost /\ Changes(s, RowsDown(seg[s])) /\ NoFault

JournalFails(s) ==
  IF seg[s].lost
    THEN UNCHANGED <<seg, faults>>
    ELSE /\ seg[s].pending # {}
         /\ Fault
         /\ \/ UNCHANGED seg
            \/ Changes(s, RowsGone(seg[s]))

-----------------------------------------------------------------------------
(* place and place_run: claim, write, settle, pace, or give up and roll.   *)

Place(c) ==
  /\ me[c].pc = "place"
  /\ IF seg[active].terminal
       THEN GoTo(c, "rollTerminal") /\ UNCHANGED seg
       ELSE /\ Becomes(c, [me[c] EXCEPT !.pc = "claimed", !.on = active, !.at = seg[active].reserved])
            /\ Changes(active, [seg[active] EXCEPT !.reserved = @ + 1])
  /\ UNCHANGED <<active, queue, parked, pastSaving, faults>>

\* write_record (or write_run): the record is in the file, its row in memory.
Landed(g, p) ==
  [g EXCEPT !.landed = @ \cup {p}, !.pending = @ \cup {p}, !.settled = @ + 1]

\* The write lands and settles, the pace may put rows down (its error, which may
\* have taken the rows, is ignored), and the sync the call owes is read off a
\* settled length that may already count the other claims in flight.
Land(c) ==
  LET s == me[c].on
      p == me[c].at
      g == Landed(seg[s], p)
      next(isOwed) == IF me[c].op = "batch" THEN "owedSync"
                      ELSE IF me[c].op = "batchDurable" THEN "drain"
                      ELSE IF isOwed THEN "sync" ELSE "idle"
  IN  /\ me[c].pc = "claimed"
      /\ p < Cap
      /\ \/ Changes(s, g) /\ NoFault
         \/ ~g.lost /\ Changes(s, RowsDown(g)) /\ NoFault
         \/ ~g.lost /\ Changes(s, RowsGone(g)) /\ Fault
      /\ \E seen \in g.settled .. g.reserved :
           LET isOwed == me[c].op \in {"durable", "batchDurable"} \/ OwesSync(s, seen)
           IN  Becomes(c, IF next(isOwed) = "idle" THEN Idle ELSE [Idle EXCEPT
                        !.pc = next(isOwed), !.op = me[c].op,
                        !.due = IF isOwed THEN {<<s, p>>} ELSE {},
                        !.on = IF next(isOwed) = "sync" THEN s ELSE 1,
                        !.owed = IF next(isOwed) = "sync" THEN p + 1 ELSE 0])
      /\ UNCHANGED <<active, queue, parked, pastSaving>>

\* Faulty: a failed write is never settled.
LandFailsUnsettled(c) ==
  /\ me[c].pc = "claimed"
  /\ me[c].at < Cap
  /\ Fault
  /\ Return(c, "err")
  /\ UNCHANGED <<active, seg, queue, parked, pastSaving>>

\* A write that fails is settled like one that landed, and lists no row.
LandFails(c) ==
  /\ me[c].pc = "claimed"
  /\ me[c].at < Cap
  /\ Changes(me[c].on, [seg[me[c].on] EXCEPT !.settled = @ + 1])
  /\ Fault
  /\ Return(c, "err")
  /\ UNCHANGED <<active, queue, parked, pastSaving>>

\* The reservation ran past the segment, so the seal cuts below it.
GiveUp(c) ==
  /\ me[c].pc = "claimed"
  /\ me[c].at >= Cap
  /\ Changes(me[c].on, [seg[me[c].on] EXCEPT !.cut = IF me[c].at < @ THEN me[c].at ELSE @,
                                             !.settled = @ + 1])
  /\ Becomes(c, [me[c] EXCEPT !.pc = "roll", !.at = 0])
  /\ UNCHANGED <<active, queue, parked, pastSaving, faults>>

\* Faulty: no end to the segment numbers.
SwapInPastEnd == active' = active + 1 /\ NoFault

\* swap_in_fresh: the next segment takes the place of the active one, or the
\* draw fails, for want of numbers or by an I/O error.
SwapIn == active < MaxSegment /\ active' = active + 1 /\ NoFault
SwapFails == UNCHANGED active /\ IF active = MaxSegment THEN NoFault ELSE Fault

RollFrom(c) ==
  /\ me[c].pc = "roll"
  /\ IsFree
  /\ \/ /\ active # me[c].on
        /\ Becomes(c, [me[c] EXCEPT !.pc = "place", !.on = 1])
        /\ UNCHANGED <<active, faults>>
     \/ active = me[c].on /\ SwapIn /\ GoTo(c, "hand")
     \/ active = me[c].on /\ SwapFails /\ Return(c, "err")
  /\ UNCHANGED <<seg, queue, parked, pastSaving>>

\* retire: the sealer counts the job before it is in its channel.
HandOver(c) ==
  /\ me[c].pc = "hand"
  /\ queue' = Append(queue, [kind |-> "seal", on |-> me[c].on])
  /\ Becomes(c, [me[c] EXCEPT !.pc = "place", !.on = 1])
  /\ UNCHANGED <<active, seg, parked, pastSaving, faults>>

\* A roll of a terminal segment is over: behind a flush that failed the call
\* ends in that error, from place the loop goes round.
RolledOver(c) ==
  IF me[c].res = "err" THEN Return(c, "err") ELSE Becomes(c, [me[c] EXCEPT !.pc = "place", !.on = 1])

RollTerminal(c) ==
  /\ me[c].pc = "rollTerminal"
  /\ IsFree
  /\ \/ ~seg[active].terminal /\ RolledOver(c) /\ UNCHANGED <<active, faults>>
     \/ /\ seg[active].terminal
        /\ SwapIn
        /\ Becomes(c, [me[c] EXCEPT !.pc = "rolledTerminal", !.on = active])
     \/ seg[active].terminal /\ SwapFails /\ Return(c, "err")
  /\ UNCHANGED <<seg, queue, parked, pastSaving>>

\* Faulty: the waiters of the segment are not told.
MarkBrokenQuietly(g) == g

MarkBroken(g) == [g EXCEPT !.broken = @ \/ ~g.durable]

RolledTerminalMark(c) ==
  /\ me[c].pc = "rolledTerminal"
  /\ Changes(me[c].on, MarkBroken(seg[me[c].on]))
  /\ GoTo(c, "rolledBroken")
  /\ UNCHANGED <<active, queue, parked, pastSaving, faults>>

RolledTerminalCount(c) ==
  /\ me[c].pc = "rolledBroken"
  /\ pastSaving' = IF Covers(me[c].on, End(me[c].on)) THEN pastSaving ELSE pastSaving + 1
  /\ RolledOver(c)
  /\ UNCHANGED <<active, seg, queue, parked, faults>>

-----------------------------------------------------------------------------
(* Who owes which sync: flush, write_batch_durable and sync_if_owed.        *)

\* Faulty: the flush does not wait for the sealer.
DrainNothing(c) ==
  /\ me[c].pc = "drain"
  /\ Becomes(c, [me[c] EXCEPT !.pc = "settledSync", !.from = IF InHand = {} THEN active ELSE 0])
  /\ UNCHANGED <<active, seg, queue, parked, pastSaving, faults>>

Drain(c) ==
  /\ me[c].pc = "drain"
  /\ Unfinished = 0
  /\ Becomes(c, [me[c] EXCEPT !.pc = "settledSync", !.from = IF InHand = {} THEN active ELSE 0])
  /\ UNCHANGED <<active, seg, queue, parked, pastSaving, faults>>

\* What a call does once its sync is settled: Reel::flush goes on to
\* check_past_saving, finish to seal_terminal.
Settled(c, from) ==
  \/ me[c].op = "flush"  /\ Becomes(c, [me[c] EXCEPT !.pc = "pastSaving", !.from = from])
  \/ me[c].op = "finish" /\ Becomes(c, [Idle EXCEPT !.pc = "finishing", !.op = "finish"])
  \/ me[c].op \notin {"flush", "finish"} /\ Return(c, "ok")

Owe(c, from) ==
  Becomes(c, [me[c] EXCEPT !.pc = "sync", !.on = active, !.owed = seg[active].settled, !.from = from])

SettledSync(c) ==
  LET from == IF me[c].from = active THEN active ELSE 0
  IN  /\ me[c].pc = "settledSync"
      /\ IF ~seg[active].durable /\ seg[active].settled = seg[active].syncedAt
           THEN Settled(c, from)
           ELSE Owe(c, from)
      /\ UNCHANGED <<active, seg, queue, parked, pastSaving, faults>>

OwedSync(c) ==
  /\ me[c].pc = "owedSync"
  /\ IF OwesSync(active, seg[active].settled) THEN Owe(c, 0) ELSE Return(c, "ok")
  /\ UNCHANGED <<active, seg, queue, parked, pastSaving, faults>>

CheckPastSaving(c) ==
  /\ me[c].pc = "pastSaving"
  /\ Return(c, IF pastSaving = 0 THEN "ok" ELSE "err")
  /\ UNCHANGED <<active, seg, queue, parked, pastSaving, faults>>

-----------------------------------------------------------------------------
(* sync_up_to and sync_up_to_wait: turn_at, with the turn run here or       *)
(* forwarded to the sealer.  A call waiting on a retired segment, or behind *)
(* another's turn, has no step.                                             *)

SyncSettled(c) ==
  /\ me[c].pc = "sync"
  /\ Covers(me[c].on, me[c].owed)
  /\ Settled(c, me[c].from)
  /\ UNCHANGED <<active, seg, queue, parked, pastSaving, faults>>

\* Faulty: a wait over a broken segment answers as if it were settled.
SyncBrokenSettles(c) ==
  /\ me[c].pc = "sync"
  /\ ~Covers(me[c].on, me[c].owed)
  /\ seg[me[c].on].broken
  /\ Settled(c, me[c].from)
  /\ UNCHANGED <<active, seg, queue, parked, pastSaving, faults>>

SyncBroken(c) ==
  /\ me[c].pc = "sync"
  /\ ~Covers(me[c].on, me[c].owed)
  /\ seg[me[c].on].broken
  /\ Return(c, "err")
  /\ UNCHANGED <<active, seg, queue, parked, pastSaving, faults>>

\* Faulty: a turn is taken while another is out.
SyncTurnAnyway(c) ==
  LET g == seg[me[c].on]
  IN  /\ me[c].pc = "sync"
      /\ ~Covers(me[c].on, me[c].owed)
      /\ ~g.broken /\ ~g.retired
      /\ Changes(me[c].on, [g EXCEPT !.running = TRUE])
      /\ GoTo(c, "turn")
      /\ UNCHANGED <<active, queue, parked, pastSaving, faults>>

SyncTurn(c) ==
  LET g == seg[me[c].on]
  IN  /\ me[c].pc = "sync"
      /\ ~Covers(me[c].on, me[c].owed)
      /\ ~g.broken /\ ~g.retired /\ ~g.running
      /\ Changes(me[c].on, [g EXCEPT !.running = TRUE])
      /\ GoTo(c, "turn")
      /\ UNCHANGED <<active, queue, parked, pastSaving, faults>>

ForwardTurn(c) ==
  /\ me[c].pc = "turn"
  /\ me[c].op \in Awaits
  /\ queue' = Append(queue, [kind |-> "flush", on |-> me[c].on])
  /\ GoTo(c, "sync")
  /\ UNCHANGED <<active, seg, parked, pastSaving, faults>>

\* FlushTurn::drop: the future holding an untaken turn is dropped.
DropTurn(c) ==
  /\ me[c].pc = "turn"
  /\ me[c].op \in Awaits \cap {"batch"}
  /\ Changes(me[c].on, [seg[me[c].on] EXCEPT !.running = FALSE])
  /\ Return(c, "gone")
  /\ UNCHANGED <<active, queue, parked, pastSaving, faults>>

DropWait(c) ==
  /\ me[c].pc = "sync"
  /\ me[c].op \in Awaits
  /\ Return(c, "gone")
  /\ UNCHANGED <<active, seg, queue, parked, pastSaving, faults>>

-----------------------------------------------------------------------------
(* flush_active, publish_flush and doom, by a caller or by the sealer.      *)

\* Faulty: what is reserved, read beside the writers, stands for what has settled.
CaptureReserved(a) ==
  /\ me[a].pc = "turn"
  /\ IF active # me[a].on \/ seg[active].terminal
       THEN Becomes(a, [me[a] EXCEPT !.pc = "publish", !.res = "none"])
       ELSE Becomes(a, [me[a] EXCEPT !.pc = "rows", !.at = seg[active].reserved])
  /\ UNCHANGED <<active, seg, queue, parked, pastSaving, faults>>

Capture(a) ==
  /\ me[a].pc = "turn"
  /\ IsFree
  /\ IF active # me[a].on \/ seg[active].terminal
       THEN Becomes(a, [me[a] EXCEPT !.pc = "publish", !.res = "none"])
       ELSE Becomes(a, [me[a] EXCEPT !.pc = "rows", !.at = seg[active].settled])
  /\ UNCHANGED <<active, seg, queue, parked, pastSaving, faults>>

FlushFailed(a) == Becomes(a, [me[a] EXCEPT !.pc = "publish", !.res = "err"])

FlushRows(a) ==
  /\ me[a].pc = "rows"
  /\ \/ JournalWrites(me[a].on) /\ GoTo(a, "device")
     \/ JournalFails(me[a].on) /\ FlushFailed(a)
  /\ UNCHANGED <<active, queue, parked, pastSaving>>

\* The device has what is in the file.
Synced(g) == [g EXCEPT !.disk = @ \cup (g.landed \cap g.rows)]

FlushDevice(a) ==
  /\ me[a].pc = "device"
  /\ \/ /\ Changes(me[a].on, Synced(seg[me[a].on]))
        /\ GoTo(a, "publish")
        /\ NoFault
     \/ FlushFailed(a) /\ Fault /\ UNCHANGED seg
  /\ UNCHANGED <<active, queue, parked, pastSaving>>

\* slack_with: the watermark, never moved back, and the turn handed back in one
PublishFlush(g, r, at) ==
  IF r = "ok" THEN [g EXCEPT !.running = FALSE, !.syncedAt = IF at > @ THEN at ELSE @]
  ELSE IF r = "none" THEN [g EXCEPT !.running = FALSE, !.retired = TRUE]
  ELSE [g EXCEPT !.running = FALSE, !.broken = TRUE]

Publish(a) ==
  /\ me[a].pc = "publish"
  /\ Changes(me[a].on, PublishFlush(seg[me[a].on], me[a].res, me[a].at))
  /\ \/ me[a].res = "err" /\ Becomes(a, [me[a] EXCEPT !.pc = "doom", !.at = 0])
     \/ me[a].res # "err" /\ a = "sealer" /\ Finish(a, "ok")
     \/ /\ me[a].res # "err"
        /\ a \in Callers
        /\ Becomes(a, [me[a] EXCEPT !.pc = "sync", !.at = 0, !.res = "ok"])
  /\ UNCHANGED <<active, queue, parked, pastSaving, faults>>

\* doom_active, and for a caller the roll that follows it
Doom(a) ==
  /\ me[a].pc = "doom"
  /\ Changes(me[a].on, [seg[me[a].on] EXCEPT !.terminal = @ \/ active = me[a].on])
  /\ IF a \in Callers /\ active = me[a].on
       THEN Becomes(a, [me[a] EXCEPT !.pc = "rollTerminal", !.on = 1, !.owed = 0])
       ELSE Finish(a, "err")
  /\ UNCHANGED <<active, queue, parked, pastSaving, faults>>

-----------------------------------------------------------------------------
(* seal_segment, retire_segment, park_broken_seal and retry_broken_seals,   *)
(* by the sealer, by a caller of seal or by the maintenance tick.           *)

TakeJob ==
  /\ me["sealer"].pc = "idle"
  /\ queue # <<>>
  /\ Becomes("sealer", [me["sealer"] EXCEPT !.pc = IF Head(queue).kind = "seal" THEN "sealing" ELSE "turn",
                                            !.on = Head(queue).on])
  /\ queue' = Tail(queue)
  /\ UNCHANGED <<active, seg, parked, pastSaving, faults>>

SealSwap(c) ==
  /\ me[c].pc = "swap"
  /\ IsFree
  /\ \/ SwapIn /\ Becomes(c, [me[c] EXCEPT !.pc = "sealing", !.on = active])
     \/ SwapFails /\ Return(c, "err")
  /\ UNCHANGED <<seg, queue, parked, pastSaving>>

\* The tick takes one parked seal, at remembering whether it was counted.
TickTake ==
  /\ me["tick"].pc = "idle"
  /\ \E job \in parked :
       /\ parked' = parked \ {job}
       /\ Becomes("tick", [me["tick"] EXCEPT !.pc = "sealing", !.on = job.on,
                                             !.at = IF job.counted THEN 1 ELSE 0])
  /\ UNCHANGED <<active, seg, queue, pastSaving, faults>>

\* The footer lists what landed below the end and takes the place of the rows.
SealedAt(g, end) ==
  [g EXCEPT !.disk = {p \in g.landed : p < end}, !.rows = {}, !.pending = {}]

SealSegment(a) ==
  LET s == me[a].on
      ends(r) == Becomes(a, [me[a] EXCEPT !.pc = "marking", !.res = r])
  IN  /\ me[a].pc = "sealing"
      /\ \/ seg[s].terminal /\ ends("terminal") /\ UNCHANGED <<seg, faults>>
         \/ /\ ~seg[s].terminal /\ ~seg[s].lost
            /\ Changes(s, SealedAt(seg[s], End(s)))
            /\ ends("ok")
            /\ NoFault
         \/ /\ ~seg[s].terminal
            /\ \/ JournalFails(s)
               \/ ~seg[s].lost /\ Fault /\ Changes(s, RowsDown(seg[s]))
               \/ Fault /\ UNCHANGED seg
            /\ ends("err")
      /\ UNCHANGED <<active, queue, parked, pastSaving>>

MarkSealed(a) ==
  /\ me[a].pc = "marking"
  /\ \/ me[a].res = "ok" /\ Changes(me[a].on, [seg[me[a].on] EXCEPT !.durable = TRUE])
     \/ me[a].res = "err" /\ a # "tick" /\ Changes(me[a].on, MarkBroken(seg[me[a].on]))
     \/ (me[a].res = "err" => a = "tick") /\ me[a].res # "ok" /\ UNCHANGED seg
  /\ GoTo(a, "counting")
  /\ UNCHANGED <<active, queue, parked, pastSaving, faults>>

\* Faulty: only a failed seal is counted, not a terminal segment's skipped one.
CountSealedFailed(a) ==
  LET s == me[a].on
  IN  /\ me[a].pc = "counting"
      /\ a # "tick"
      /\ pastSaving' = IF me[a].res = "err" /\ ~Covers(s, End(s)) THEN pastSaving + 1 ELSE pastSaving
      /\ IF me[a].res = "err" THEN GoTo(a, "parking") ELSE Finish(a, "ok")
      /\ UNCHANGED <<active, seg, queue, parked, faults>>

CountSealed(a) ==
  LET s == me[a].on
  IN  /\ me[a].pc = "counting"
      /\ a # "tick"
      /\ pastSaving' = IF me[a].res # "ok" /\ ~Covers(s, End(s)) THEN pastSaving + 1 ELSE pastSaving
      /\ IF me[a].res = "err" THEN GoTo(a, "parking") ELSE Finish(a, "ok")
      /\ UNCHANGED <<active, seg, queue, parked, faults>>

Park(a) ==
  LET s == me[a].on
  IN  /\ me[a].pc = "parking"
      /\ parked' = IF seg[s].terminal THEN parked
                   ELSE parked \cup {[on |-> s, counted |-> ~Covers(s, End(s))]}
      /\ Finish(a, "err")
      /\ UNCHANGED <<active, seg, queue, pastSaving, faults>>

TickCount ==
  LET tick == me["tick"]
      wasCounted == tick.at = 1
  IN  /\ tick.pc = "counting"
      /\ pastSaving' = IF tick.res = "ok" /\ wasCounted /\ pastSaving > 0
                         THEN pastSaving - 1 ELSE pastSaving
      /\ parked' = IF tick.res = "err"
                     THEN parked \cup {[on |-> tick.on, counted |-> wasCounted]} ELSE parked
      /\ Finish("tick", "ok")
      /\ UNCHANGED <<active, seg, queue, faults>>

Close(c) ==
  /\ me[c].pc = "closing"
  /\ IsFree
  /\ \/ seg[active].terminal /\ Return(c, "ok") /\ UNCHANGED <<seg, faults>>
     \/ /\ ~seg[active].terminal /\ ~seg[active].lost
        /\ Changes(active, [RowsDown(seg[active]) EXCEPT
                     !.disk = seg[active].landed, !.durable = TRUE, !.terminal = TRUE])
        /\ Return(c, "ok")
        /\ NoFault
     \/ /\ ~seg[active].terminal
        /\ IF seg[active].lost THEN NoFault ELSE Fault
        /\ Changes(active, [MarkBroken(seg[active]) EXCEPT !.terminal = TRUE])
        /\ Return(c, "err")
  /\ UNCHANGED <<active, queue, parked, pastSaving>>

\* seal_terminal: an empty tail is scrapped, any other sealed, and it stops.
SealTerminal(c) ==
  LET g == seg[active]
  IN  /\ me[c].pc = "finishing"
      /\ IsFree
      /\ \/ g.terminal /\ Return(c, "ok") /\ UNCHANGED <<seg, faults>>
         \/ /\ ~g.terminal /\ (g.landed = {} \/ ~g.lost)
            /\ Changes(active, [(IF g.landed = {} THEN g ELSE SealedAt(g, End(active)))
                    EXCEPT !.durable = TRUE, !.terminal = TRUE])
            /\ Return(c, "ok")
            /\ NoFault
         \/ /\ ~g.terminal /\ g.landed # {}
            /\ IF g.lost THEN NoFault ELSE Fault
            /\ Changes(active, [MarkBroken(g) EXCEPT !.terminal = TRUE])
            /\ Return(c, "err")
      /\ UNCHANGED <<active, queue, parked, pastSaving>>

-----------------------------------------------------------------------------

Placing(c)  == Place(c) \/ Land(c) \/ LandFails(c) \/ GiveUp(c)
Rolling(c)  == \/ RollFrom(c) \/ HandOver(c)
               \/ RollTerminal(c) \/ RolledTerminalMark(c) \/ RolledTerminalCount(c)
Asking(c)   == Drain(c) \/ SettledSync(c) \/ OwedSync(c) \/ CheckPastSaving(c)
Waiting(c)  == SyncSettled(c) \/ SyncBroken(c) \/ SyncTurn(c) \/ ForwardTurn(c)
Dropping(c) == DropTurn(c) \/ DropWait(c)
Flushing(a) == Capture(a) \/ FlushRows(a) \/ FlushDevice(a) \/ Publish(a) \/ Doom(a)
Sealing(a)  == SealSegment(a) \/ MarkSealed(a) \/ CountSealed(a) \/ Park(a)

\* A call runs on; whether one is made, and whether a future is dropped, is open.
CallerStep(c) ==
  \/ Placing(c) \/ Rolling(c) \/ Asking(c) \/ Waiting(c) \/ Flushing(c)
  \/ SealSwap(c) \/ Sealing(c) \/ Close(c) \/ SealTerminal(c)
SealerStep == TakeJob \/ Flushing("sealer") \/ Sealing("sealer")
TickStep   == TickTake \/ Sealing("tick") \/ TickCount

Next ==
  \/ \E c \in Callers : Begin(c) \/ CallerStep(c) \/ Dropping(c)
  \/ SealerStep
  \/ TickStep

Spec == Init /\ [][Next]_vars

\* A thread or task that has a step takes it in the end: the scheduler's fairness
Fairness ==
  /\ \A c \in Callers : WF_vars(CallerStep(c))
  /\ WF_vars(SealerStep)
  /\ WF_vars(TickStep)

-----------------------------------------------------------------------------
(* Properties.                                                             *)

\* Every segment keeps the shape of Active, SyncState and Flush, and every caller,
\* the sealer and the tick are at a step the code has.
TypeOK ==
  /\ active \in Segments
  /\ seg \in [Segments -> Segment]
  /\ queue \in Seq(Job)
  /\ parked \subseteq [on : Segments, counted : BOOLEAN]
  /\ pastSaving \in Nat
  /\ me \in [Actors -> Actor]
  /\ faults \in Nat

\* The last call of c answered ok over records that were not on the device.
AnsweredOver(c, ops) == me[c].pc = "idle" /\ me[c].op \in ops /\ me[c].due # {}

\* A put that owed a sync, by Commit::Durable or by crossing the threshold, and
\* answered ok has its record and its row on the device, whoever ran the flush.
PutsHold ==
  \A c \in Callers : ~AnsweredOver(c, {"put", "durable"})

\* SyncState::covered: every record that landed below the watermark, and below
\* where the seal cut the segment, is on the device with its row.
WatermarkHolds ==
  \A s \in Segments : \A p \in seg[s].landed :
    p < End(s) /\ Covers(s, p + 1) => p \in seg[s].disk

\* Reel::flush answers ok only over records that are on the device, as long as
\* no segment was swapped out and not yet handed over when it had drained the
\* sealer, nor swapped out before it read the tail.
FlushHolds ==
  \A c \in Callers : me[c].from # 0 => ~AnsweredOver(c, {"flush"})

\* Flush.is_running: one flush of a segment at a time is anywhere between its
\* turn and its answer, the sealer's channel included.
OneFlush ==
  \A s \in Segments :
    Cardinality({a \in Actors : me[a].pc \in {"turn", "rows", "device", "publish"} /\ me[a].on = s})
      + Cardinality({i \in DOMAIN queue : queue[i] = [kind |-> "flush", on |-> s]})
    = IF seg[s].running THEN 1 ELSE 0

\* Under the exclusive lock everything claimed has settled, which is what lets a
\* flush take settled for a prefix and a roll take the end it cuts at.
NothingInFlight ==
  IsFree => \A s \in Segments : seg[s].settled = seg[s].reserved

\* past_saving counts every rolled segment that holds bytes no sync covered, once
\* nobody works on one: the flushes of the store answer clean on its word.
StrandedIsCounted ==
  (\A a \in Actors : me[a].pc = "idle") /\ queue = <<>> =>
    pastSaving >= Cardinality({s \in 1 .. active - 1 : ~Covers(s, End(s))})

\* Every call returns.
CallsReturn == \A c \in Callers : me[c].pc # "idle" ~> me[c].pc = "idle"

-----------------------------------------------------------------------------
(* What the documents say of the tail, which the code does not keep.        *)

\* "flush() drains that thread before syncing, so a durability ask still covers
\* everything rolled before it": a flush, a durable batch (which flushes its tail)
\* and a batch under a setting that syncs every write answer ok only over records
\* on the device.
AsksCoverRolled ==
  \A c \in Callers : ~AnsweredOver(c, {"flush", "batch", "batchDurable"})

=============================================================================
