------------------------------- MODULE Drawn -------------------------------
(***************************************************************************)
(* The draw gauge (reel/drawn.rs): writers are counted into an epoch before *)
(* they draw sequence numbers and counted out once their records are        *)
(* published, so that the floor a prune works below never passes a number   *)
(* some writer still holds.  One action is one atomic access of the code;   *)
(* the floor runs under the `starts` mutex, so one caller is in it at once. *)
(***************************************************************************)
EXTENDS Naturals

CONSTANTS
  Writers,      \* writes that can be in flight at once
  MostCounted   \* the most records one write counts (a batch counts its run)

ASSUME MostCountedAssumption == MostCounted \in Nat \ {0}

VARIABLES
  epoch,   \* the epoch a writer counts itself into
  out,     \* out[slot][w]: what writer w has added to the slot's counter
  starts,  \* where each slot's epoch began on the sequence counter
  lsn,     \* the sequence counter, the next number to be drawn
  wpc,     \* where each writer is
  seen,    \* the epoch each writer loaded
  count,   \* how many records each writer counts
  held,    \* the first number each writer drew
  fpc,     \* where the caller of floor is
  turn,    \* how many turns of its loop it has taken
  answer   \* the last floor returned

writerVars == <<wpc, seen, count, held>>
floorVars  == <<fpc, turn, answer>>
vars == <<epoch, out, starts, lsn, wpc, seen, count, held, fpc, turn, answer>>

SLOTS == 3
FIRST_LSN == 1
SlotOf(e) == e % SLOTS
Slots == 0 .. SLOTS - 1

WriterAt == {"idle", "adding", "checking", "undoing", "counted", "drawn"}
FloorAt  == {"idle", "looking", "reading", "storing"}

\* A counter is zero exactly when no writer has added to it.
IsEmpty(slot) == \A w \in Writers : out[slot][w] = 0

Init ==
  /\ epoch = 0
  /\ out = [s \in Slots |-> [w \in Writers |-> 0]]
  /\ starts = [s \in Slots |-> 0]
  /\ lsn = FIRST_LSN
  /\ wpc = [w \in Writers |-> "idle"]
  /\ seen = [w \in Writers |-> 0]
  /\ count = [w \in Writers |-> 0]
  /\ held = [w \in Writers |-> 0]
  /\ fpc = "idle"
  /\ turn = 0
  /\ answer = 0

-----------------------------------------------------------------------------
(* A writer: enter, the draw, and leave.                                   *)

GoTo(w, at) == wpc' = [wpc EXCEPT ![w] = at]

\* enter's first load, for a write that counts n records
EnterLoad(w) ==
  /\ wpc[w] = "idle"
  /\ \E n \in 1 .. MostCounted : count' = [count EXCEPT ![w] = n]
  /\ seen' = [seen EXCEPT ![w] = epoch]
  /\ GoTo(w, "adding")
  /\ UNCHANGED <<epoch, out, starts, lsn, held, floorVars>>

EnterAdd(w) ==
  /\ wpc[w] = "adding"
  /\ out' = [out EXCEPT ![SlotOf(seen[w])][w] = @ + count[w]]
  /\ GoTo(w, "checking")
  /\ UNCHANGED <<epoch, starts, lsn, seen, count, held, floorVars>>

\* Faulty variant: the count is trusted without a second look at the epoch.
EnterCheckTrusting(w) ==
  /\ wpc[w] = "checking"
  /\ GoTo(w, "counted")
  /\ UNCHANGED <<epoch, out, starts, lsn, seen, count, held, floorVars>>

EnterCheck(w) ==
  /\ wpc[w] = "checking"
  /\ GoTo(w, IF epoch = seen[w] THEN "counted" ELSE "undoing")
  /\ UNCHANGED <<epoch, out, starts, lsn, seen, count, held, floorVars>>

\* Faulty variant: the retry leaves its first count in the old slot.
EnterUndoForgetful(w) ==
  /\ wpc[w] = "undoing"
  /\ seen' = [seen EXCEPT ![w] = epoch]
  /\ GoTo(w, "adding")
  /\ UNCHANGED <<epoch, out, starts, lsn, count, held, floorVars>>

\* The epoch moved under the add: take the count back and load again.
EnterUndo(w) ==
  /\ wpc[w] = "undoing"
  /\ out' = [out EXCEPT ![SlotOf(seen[w])][w] = @ - count[w]]
  /\ seen' = [seen EXCEPT ![w] = epoch]
  /\ GoTo(w, "adding")
  /\ UNCHANGED <<epoch, starts, lsn, count, held, floorVars>>

\* LsnCounter::issue, or issue_run for a batch
Draw(w) ==
  /\ wpc[w] = "counted"
  /\ held' = [held EXCEPT ![w] = lsn]
  /\ lsn' = lsn + count[w]
  /\ GoTo(w, "drawn")
  /\ UNCHANGED <<epoch, out, starts, seen, count, floorVars>>

\* Faulty variant: a placement that failed before its draw is not counted out.
LeaveIfDrawn(w) ==
  /\ wpc[w] \in {"counted", "drawn"}
  /\ out' = [out EXCEPT ![SlotOf(seen[w])][w] = IF wpc[w] = "drawn" THEN @ - count[w] ELSE @]
  /\ GoTo(w, "idle")
  /\ seen' = [seen EXCEPT ![w] = 0]
  /\ count' = [count EXCEPT ![w] = 0]
  /\ held' = [held EXCEPT ![w] = 0]
  /\ UNCHANGED <<epoch, starts, lsn, floorVars>>

\* The ticket comes back: the records are published, or the placement failed.
Leave(w) ==
  /\ wpc[w] \in {"counted", "drawn"}
  /\ out' = [out EXCEPT ![SlotOf(seen[w])][w] = @ - count[w]]
  /\ GoTo(w, "idle")
  /\ seen' = [seen EXCEPT ![w] = 0]
  /\ count' = [count EXCEPT ![w] = 0]
  /\ held' = [held EXCEPT ![w] = 0]
  /\ UNCHANGED <<epoch, starts, lsn, floorVars>>

-----------------------------------------------------------------------------
(* The floor.  Its own loads of the epoch are stable: only it stores it.   *)

Before == SlotOf(epoch + SLOTS - 1)
After  == SlotOf(epoch + 1)

FloorBegin ==
  /\ fpc = "idle"
  /\ fpc' = "looking"
  /\ UNCHANGED <<epoch, out, starts, lsn, writerVars, turn, answer>>

\* Faulty variant: the loop is not cut off after two turns.
FloorLookForever ==
  /\ fpc = "looking"
  /\ IsEmpty(Before)
  /\ fpc' = "reading"
  /\ UNCHANGED <<epoch, out, starts, lsn, writerVars, turn, answer>>

\* Another turn of the loop when the epoch before is empty ...
FloorLook ==
  /\ fpc = "looking"
  /\ turn < 2
  /\ IsEmpty(Before)
  /\ fpc' = "reading"
  /\ UNCHANGED <<epoch, out, starts, lsn, writerVars, turn, answer>>

\* Faulty variant: a call stopped by a writer answers from one slot too far back.
FloorAnswerTooFarBack ==
  /\ fpc = "looking"
  /\ turn = 2 \/ ~IsEmpty(Before)
  /\ answer' = starts[IF turn = 2 THEN Before ELSE After]
  /\ fpc' = "idle"
  /\ turn' = 0
  /\ UNCHANGED <<epoch, out, starts, lsn, writerVars>>

\* ... and the answer once it is not, or the loop has run out.
FloorAnswer ==
  /\ fpc = "looking"
  /\ turn = 2 \/ ~IsEmpty(Before)
  /\ answer' = starts[Before]
  /\ fpc' = "idle"
  /\ turn' = 0
  /\ UNCHANGED <<epoch, out, starts, lsn, writerVars>>

FloorRead ==
  /\ fpc = "reading"
  /\ starts' = [starts EXCEPT ![After] = lsn]
  /\ fpc' = "storing"
  /\ UNCHANGED <<epoch, out, lsn, writerVars, turn, answer>>

FloorStore ==
  /\ fpc = "storing"
  /\ epoch' = epoch + 1
  /\ turn' = turn + 1
  /\ fpc' = "looking"
  /\ UNCHANGED <<out, starts, lsn, writerVars, answer>>

-----------------------------------------------------------------------------

WriterStep(w) ==
  \/ EnterLoad(w) \/ EnterAdd(w) \/ EnterCheck(w) \/ EnterUndo(w)
  \/ Draw(w) \/ Leave(w)

FloorStep == FloorBegin \/ FloorLook \/ FloorAnswer \/ FloorRead \/ FloorStore

Next == FloorStep \/ \E w \in Writers : WriterStep(w)

Spec == Init /\ [][Next]_vars

-----------------------------------------------------------------------------

\* The gauge's counters, epoch and starts are natural numbers, and the floor's loop
\* stores an epoch at most twice in a call (drawn.rs: floor).
TypeOK ==
  /\ epoch \in Nat
  /\ out \in [Slots -> [Writers -> Nat]]
  /\ starts \in [Slots -> Nat]
  /\ lsn \in Nat
  /\ wpc \in [Writers -> WriterAt]
  /\ seen \in [Writers -> Nat]
  /\ count \in [Writers -> Nat]
  /\ held \in [Writers -> Nat]
  /\ fpc \in FloorAt
  /\ turn \in 0 .. 2
  /\ answer \in Nat

\* The floor never passes a held number (drawn.rs:102): no writer that has drawn
\* and not been counted out holds a number below any floor already returned.
FloorHolds == \A w \in Writers : wpc[w] = "drawn" => answer <= held[w]

\* A floor once returned is never taken back, since a prune has acted on it: the
\* next call of floor answers no lower, whatever epochs moved in between.
FloorAdvances == [][answer <= answer']_vars

\* A write that failed or finished leaves nothing behind in a counter, so it
\* cannot wedge the floor (drawn.rs:51).
NothingLeftBehind ==
  \A w \in Writers : wpc[w] \in {"idle", "adding"} => \A s \in Slots : out[s][w] = 0

=============================================================================
