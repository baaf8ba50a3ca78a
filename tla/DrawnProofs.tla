---------------------------- MODULE DrawnProofs ----------------------------
(***************************************************************************)
(* The floor never passes a held number, for any set of writers, any batch  *)
(* size and with no bound on the epoch or on the sequence counter.          *)
(* FloorHolds alone is not inductive: it needs to know which epochs a       *)
(* counted writer can be in, what it left in the slot of its epoch, and      *)
(* that the epochs' starts are in order.                                    *)
(***************************************************************************)
EXTENDS Drawn, TLAPS

Added(w)   == wpc[w] \in {"checking", "undoing", "counted", "drawn"}
Counted(w) == wpc[w] \in {"counted", "drawn"}

\* A writer past its add has its whole count in the slot of the epoch it loaded,
\* and nothing in the other slots.
AddedIsThere ==
  \A w \in Writers : Added(w) =>
    /\ count[w] > 0
    /\ \A s \in Slots : out[s][w] = IF s = SlotOf(seen[w]) THEN count[w] ELSE 0

\* A writer past its load counts at least one record.
CountsSome == \A w \in Writers : wpc[w] = "adding" => count[w] > 0

\* A counted writer is in this epoch or the one before, and in this one alone
\* once the floor has seen the one before empty.
InTwoEpochs ==
  \A w \in Writers : Counted(w) =>
    /\ seen[w] = epoch \/ seen[w] + 1 = epoch
    /\ fpc \in {"reading", "storing"} => seen[w] = epoch

\* The two epochs in use began in order and at or below the counter, and so did
\* the next one once its start has been read.
StartsInOrder ==
  /\ starts[Before] <= starts[SlotOf(epoch)]
  /\ starts[SlotOf(epoch)] <= lsn
  /\ fpc = "storing" => starts[SlotOf(epoch)] <= starts[After] /\ starts[After] <= lsn

\* A number was drawn after the start of its writer's epoch.
HeldAfterStart ==
  \A w \in Writers : wpc[w] = "drawn" => starts[SlotOf(seen[w])] <= held[w]

\* The loop stores an epoch at most twice.
TurnsLeft == fpc \in {"reading", "storing"} => turn < 2

AnswerTrails == answer <= starts[Before]

GaugeInv ==
  /\ TypeOK
  /\ AddedIsThere
  /\ CountsSome
  /\ NothingLeftBehind
  /\ InTwoEpochs
  /\ StartsInOrder
  /\ HeldAfterStart
  /\ TurnsLeft
  /\ AnswerTrails

-----------------------------------------------------------------------------

\* The slots of three epochs in a row are the three slots.
LEMMA SlotsRotate ==
  ASSUME NEW e \in Nat
  PROVE  /\ SlotOf(e) \in Slots /\ SlotOf(e + 1) \in Slots /\ SlotOf(e + SLOTS - 1) \in Slots
         /\ SlotOf(e) # SlotOf(e + 1)
         /\ SlotOf(e) # SlotOf(e + SLOTS - 1)
         /\ SlotOf(e + 1) # SlotOf(e + SLOTS - 1)
         /\ SlotOf(e + 1 + SLOTS - 1) = SlotOf(e)
         /\ \A d \in Nat : d + 1 = e => SlotOf(d) = SlotOf(e + SLOTS - 1)
  BY DEF SlotOf, Slots, SLOTS

\* The gauge starts with nothing counted and no floor given.
LEMMA GaugeInit == Init => GaugeInv
  BY SMTT(60) DEF Init, GaugeInv, TypeOK, AddedIsThere, CountsSome, NothingLeftBehind, InTwoEpochs,
         StartsInOrder, HeldAfterStart, TurnsLeft, AnswerTrails, Added, Counted, Before, After,
         SlotOf, Slots, SLOTS, WriterAt, FloorAt, FIRST_LSN

\* The loads, adds and subtracts of enter, the draw and leave keep the gauge.
LEMMA WriterKeepsGauge ==
  ASSUME GaugeInv, NEW w \in Writers, WriterStep(w)
  PROVE  GaugeInv'
  <1> USE MostCountedAssumption DEF GaugeInv
  <1>0. /\ epoch' = epoch /\ starts' = starts /\ fpc' = fpc /\ answer' = answer /\ turn' = turn
        /\ SlotOf(seen[w]) \in Slots
        /\ lsn' \in Nat /\ lsn <= lsn'
    <2>1. UNCHANGED <<epoch, starts, floorVars>>
      BY Zenon DEF WriterStep, EnterLoad, EnterAdd, EnterCheck, EnterUndo, Draw, Leave
    <2>2. lsn' = lsn \/ lsn' = lsn + count[w]
      BY Zenon DEF WriterStep, EnterLoad, EnterAdd, EnterCheck, EnterUndo, Draw, Leave
    <2>3. SlotOf(seen[w]) \in Slots
      BY Zenon, SlotsRotate DEF TypeOK
    <2> QED BY <2>1, <2>2, <2>3 DEF TypeOK, floorVars
  <1>a. StartsInOrder' /\ AnswerTrails' /\ TurnsLeft'
    <2>1. Before' = Before /\ After' = After
      BY Zenon, <1>0 DEF Before, After
    <2>2. starts[Before] \in Nat /\ starts[After] \in Nat /\ starts[SlotOf(epoch)] \in Nat
      BY Zenon, SlotsRotate DEF Before, After, TypeOK
    <2> QED BY <1>0, <2>1, <2>2 DEF StartsInOrder, AnswerTrails, TurnsLeft, TypeOK
  <1> DEFINE Rest == /\ TypeOK' /\ AddedIsThere' /\ CountsSome' /\ NothingLeftBehind'
                     /\ InTwoEpochs' /\ HeldAfterStart'
  <1> SUFFICES Rest
    BY Zenon, <1>a
  <1> USE <1>0 DEF TypeOK, AddedIsThere, CountsSome, NothingLeftBehind,
       InTwoEpochs, HeldAfterStart, Added, Counted, WriterAt, GoTo
  <1>1. CASE EnterLoad(w)
    BY <1>1 DEF EnterLoad
  <1>2. CASE EnterAdd(w)
    BY <1>2 DEF EnterAdd
  <1>3. CASE EnterCheck(w)
    BY Zenon, <1>3 DEF EnterCheck
  <1>4. CASE EnterUndo(w)
    BY <1>4 DEF EnterUndo
  <1>5. CASE Draw(w)
    <2>1. starts[SlotOf(seen[w])] <= lsn
      <3>1. SlotOf(seen[w]) \in {SlotOf(epoch), Before}
        BY Zenon, <1>5, SlotsRotate DEF Draw, Before
      <3>2. starts[Before] \in Nat /\ starts[SlotOf(epoch)] \in Nat
        BY Zenon, SlotsRotate DEF Before
      <3> QED BY <3>1, <3>2 DEF StartsInOrder
    <2> QED BY Zenon, <1>5, <2>1 DEF Draw
  <1>6. CASE Leave(w)
    BY <1>6 DEF Leave
  <1> QED BY Zenon, <1>1, <1>2, <1>3, <1>4, <1>5, <1>6 DEF WriterStep

\* The turns of the floor's loop and its answer keep the gauge.
LEMMA FloorKeepsGauge ==
  ASSUME GaugeInv, FloorStep
  PROVE  GaugeInv'
  <1> USE DEF GaugeInv
  <1>0. UNCHANGED <<out, lsn, wpc, seen, count, held>>
    BY Zenon DEF FloorStep, FloorBegin, FloorLook, FloorAnswer, FloorRead, FloorStore, writerVars
  <1>1. AddedIsThere' /\ CountsSome' /\ NothingLeftBehind' /\ TurnsLeft'
    BY Zenon, <1>0 DEF AddedIsThere, CountsSome, NothingLeftBehind, Added, TurnsLeft, TypeOK, FloorStep,
       FloorBegin, FloorLook, FloorAnswer, FloorRead, FloorStore
  <1>2. Before \in Slots /\ After \in Slots /\ SlotOf(epoch) \in Slots
    BY Zenon, SlotsRotate DEF Before, After, TypeOK
  <1>3. CASE FloorBegin
    BY Zenon, <1>0, <1>1, <1>3 DEF FloorBegin, TypeOK, InTwoEpochs, StartsInOrder, HeldAfterStart,
       AnswerTrails, Before, After, Counted, FloorAt
  <1>4. CASE FloorLook
    <2>1. \A v \in Writers : Counted(v) => seen[v] = epoch
      <3>1. SUFFICES ASSUME NEW v \in Writers, Counted(v), seen[v] + 1 = epoch
                     PROVE  FALSE
        BY Zenon DEF InTwoEpochs
      <3>2. SlotOf(seen[v]) = Before
        BY Zenon, <3>1, SlotsRotate DEF Before, TypeOK
      <3>3. out[Before][v] > 0
        BY Zenon, <1>2, <3>1, <3>2 DEF AddedIsThere, Added, Counted
      <3> QED BY <1>4, <3>3 DEF FloorLook, IsEmpty
    <2> QED
      BY Zenon, <1>0, <1>1, <1>4, <2>1 DEF FloorLook, TypeOK, InTwoEpochs, StartsInOrder, HeldAfterStart,
         AnswerTrails, Before, After, Counted, FloorAt
  <1>5. CASE FloorAnswer
    BY <1>0, <1>1, <1>2, <1>5 DEF FloorAnswer, TypeOK, InTwoEpochs, StartsInOrder, HeldAfterStart,
       AnswerTrails, Before, After, Counted, FloorAt
  <1>6. CASE FloorRead
    <2>1. /\ starts'[After] = lsn
          /\ starts'[Before] = starts[Before]
          /\ starts'[SlotOf(epoch)] = starts[SlotOf(epoch)]
      BY Zenon, <1>2, <1>6, SlotsRotate DEF FloorRead, TypeOK, Before, After
    <2>2. TypeOK' /\ InTwoEpochs' /\ Before' = Before /\ After' = After /\ epoch' = epoch
      BY Zenon, <1>0, <1>6 DEF FloorRead, TypeOK, InTwoEpochs, Counted, FloorAt, Before, After
    <2>3. StartsInOrder' /\ AnswerTrails'
      BY <1>0, <1>6, <2>1, <2>2 DEF FloorRead, StartsInOrder, AnswerTrails, TypeOK
    <2>4. HeldAfterStart'
      <3>1. \A v \in Writers : Counted(v) => seen[v] = epoch
        BY Zenon, <1>6 DEF FloorRead, InTwoEpochs
      <3> QED BY Zenon, <1>0, <2>1, <3>1 DEF HeldAfterStart, Counted
    <2> QED BY Zenon, <1>1, <2>2, <2>3, <2>4
  <1>7. CASE FloorStore
    <2>1. Before' = SlotOf(epoch) /\ SlotOf(epoch') = After /\ epoch' = epoch + 1 /\ starts' = starts
      BY Zenon, <1>7, SlotsRotate DEF FloorStore, Before, After, TypeOK
    <2>2. TypeOK' /\ InTwoEpochs'
      BY <1>0, <1>7 DEF FloorStore, TypeOK, InTwoEpochs, TurnsLeft, Counted, FloorAt
    <2>3. StartsInOrder' /\ AnswerTrails'
      <3>1. starts[Before] \in Nat /\ starts[SlotOf(epoch)] \in Nat /\ starts[After] \in Nat
        BY Zenon, <1>2 DEF TypeOK
      <3> QED BY <1>0, <1>7, <2>1, <3>1 DEF FloorStore, StartsInOrder, AnswerTrails, TypeOK
    <2>4. HeldAfterStart'
      BY Zenon, <1>0, <2>1 DEF HeldAfterStart
    <2> QED BY Zenon, <1>1, <2>2, <2>3, <2>4
  <1> QED BY Zenon, <1>3, <1>4, <1>5, <1>6, <1>7 DEF FloorStep

-----------------------------------------------------------------------------

\* The inductive invariant of the draw gauge: every step of a writer's enter, draw
\* and leave and every step of floor keeps it.
THEOREM GaugeInvariant == Spec => []GaugeInv
  <1>1. GaugeInv /\ [Next]_vars => GaugeInv'
    <2> SUFFICES ASSUME GaugeInv, [Next]_vars PROVE GaugeInv'
      BY Zenon
    <2>1. CASE FloorStep
      BY Zenon, <2>1, FloorKeepsGauge
    <2>2. CASE \E w \in Writers : WriterStep(w)
      BY Zenon, <2>2, WriterKeepsGauge
    <2>3. CASE UNCHANGED vars
      BY Zenon, <2>3 DEF vars, GaugeInv, TypeOK, AddedIsThere, CountsSome, NothingLeftBehind, InTwoEpochs,
         StartsInOrder, HeldAfterStart, TurnsLeft, AnswerTrails, Added, Counted, Before, After
    <2> QED BY Zenon, <2>1, <2>2, <2>3 DEF Next
  <1> QED BY <1>1, GaugeInit, PTL DEF Spec

\* No floor ever returned passes a number a writer still holds, whatever the number
\* of writers, the batch sizes and the interleaving of enter, leave and floor.
THEOREM FloorNeverPassesHeld == Spec => []FloorHolds
  <1>1. GaugeInv => FloorHolds
    <2> SUFFICES ASSUME GaugeInv, NEW w \in Writers, wpc[w] = "drawn"
                 PROVE  answer <= held[w]
      BY Zenon DEF FloorHolds
    <2> USE DEF GaugeInv
    <2>1. SlotOf(seen[w]) \in {SlotOf(epoch), Before}
      BY Zenon, SlotsRotate DEF Before, InTwoEpochs, Counted, TypeOK
    <2>2. starts[Before] \in Nat /\ starts[SlotOf(epoch)] \in Nat
      BY Zenon, SlotsRotate DEF Before, TypeOK
    <2>3. answer <= starts[SlotOf(seen[w])]
      BY <2>1, <2>2 DEF StartsInOrder, AnswerTrails, TypeOK
    <2> QED BY <2>1, <2>2, <2>3 DEF HeldAfterStart, TypeOK
  <1> QED BY <1>1, GaugeInvariant, PTL

\* A floor is never taken back: each call of floor answers at or above the last.
THEOREM FloorNeverFalls == Spec => FloorAdvances
  <1>1. GaugeInv /\ [Next]_vars => [answer <= answer']_vars
    <2> SUFFICES ASSUME GaugeInv, Next PROVE answer <= answer'
      BY Zenon
    <2>1. CASE FloorAnswer
      BY Zenon, <2>1 DEF FloorAnswer, GaugeInv, AnswerTrails
    <2>2. CASE ~FloorAnswer
      <3>1. answer' = answer
        BY Zenon, <2>2 DEF Next, FloorStep, FloorBegin, FloorLook, FloorRead, FloorStore, WriterStep,
           EnterLoad, EnterAdd, EnterCheck, EnterUndo, Draw, Leave, floorVars
      <3> QED BY <3>1 DEF GaugeInv, TypeOK
    <2> QED BY Zenon, <2>1, <2>2
  <1> QED BY <1>1, GaugeInvariant, PTL DEF Spec, FloorAdvances

\* Every counter and every place stays in its range, the slots' counts included.
THEOREM GaugeKeepsShape == Spec => []TypeOK
  <1>1. GaugeInv => TypeOK
    BY Zenon DEF GaugeInv
  <1> QED BY <1>1, GaugeInvariant, PTL

\* A writer that is not counted has left nothing in any slot, so an epoch that is
\* seen empty has nobody to wait for, and one that is not has somebody.
THEOREM SlotsEmptyOut == Spec => []NothingLeftBehind
  <1>1. GaugeInv => NothingLeftBehind
    BY Zenon DEF GaugeInv
  <1> QED BY <1>1, GaugeInvariant, PTL
=============================================================================
