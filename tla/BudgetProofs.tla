---------------------------- MODULE BudgetProofs ----------------------------
(***************************************************************************)
(* The byte budget, its ceiling and the wakes of its waitlist, for any      *)
(* writers, record sizes, ceiling and throttles.  What the properties lack  *)
(* to be inductive is where a waiter stands with the gate, the count and    *)
(* its seat, and what a refusal read before the gate went means for those   *)
(* who made room since.                                                     *)
(***************************************************************************)
EXTENDS InflightBudget, FiniteSetTheorems, TLAPS

Gated == {"look", "look2", "again", "again2"}
Away  == {"idle", "slack", "slacken", "ring"}
PCs   == Gated \cup Away \cup {"first", "first2", "gate", "poll", "asleep", "regate", "pending", "holding"}

Place == [pc : PCs, bytes : Nat, held : Nat, ring : SUBSET Pollers]

TypeOK ==
  /\ inFlight \in Nat /\ throttled \in 0 .. Ceiling
  /\ gate \in Writers \cup {NoOne}
  /\ seats \in SUBSET Pollers /\ rung \in SUBSET Pollers
  /\ me \in [Actors -> Place]

\* The tick throttles and wakes; a writer past Begin asks for some bytes, a thread
\* parks and a future pends, and only one that is ringing holds wakers.
Places ==
  /\ me[Tick].pc \in Away
  /\ \A a \in Actors : me[a].pc # "ring" => me[a].ring = {}
  /\ \A w \in Writers :
       /\ me[w].pc \notin Away => me[w].bytes > 0
       /\ me[w].pc \in {"first", "first2", "gate", "asleep", "regate"} => w \in Parkers
       /\ me[w].pc \in {"poll", "pending"} => w \in Pollers

\* The gate is held exactly through a look.
GateHeld == \A w \in Writers : me[w].pc \in Gated <=> gate = w

\* A future has its seat through its second look, and once it pends, it has it
\* still or whoever took it has rung it or is about to.
SeatOf(w) ==
  /\ w \in seats => me[w].pc \in Gated \cup {"pending"}
  /\ me[w].pc \in {"again", "again2"} => w \in seats
  /\ me[w].pc = "pending" /\ w \notin seats /\ w \notin rung => \E a \in Actors : w \in me[a].ring

Seated == \A w \in Pollers : SeatOf(w)

\* Someone made room and has not been through the gate since.
Waking == \E a \in Actors : me[a].pc \in {"slack", "slacken"}

\* Room made after a waiter's last load has a waker that is still outside the
\* gate; so has room a waiter sleeps through.
RoomWakes ==
  \A w \in Writers :
    /\ me[w].pc = "again2" /\ inFlight < me[w].held => Waking
    /\ me[w].pc = "asleep" \/ (me[w].pc = "pending" /\ w \in seats) =>
         (CanAdmit(inFlight, me[w].bytes) => Waking)

\* The gauge is the bytes held.
GaugeTrue == IsFiniteSet(BytesHeld) /\ inFlight = Cardinality(BytesHeld)

\* Past the ceiling one record is alone.
OneOversized == Ceiling # 0 /\ inFlight > Ceiling => \E w \in Writers : Holding = {w}

BudgetInv ==
  /\ TypeOK /\ Places /\ GateHeld /\ Seated
  /\ WaitingCounts /\ RoomWakes /\ GaugeTrue /\ OneOversized
-----------------------------------------------------------------------------

Standing == TypeOK /\ Places /\ GateHeld /\ Seated

\* Nobody has asked for anything at the start.
LEMMA StandingInit == Init => Standing
  BY SMTT(60), CeilingAssumption, WritersAssumption
  DEF Init, Idle, Standing, TypeOK, Place, Places, GateHeld, Seated, SeatOf, PCs, Gated, Away, Actors, Writers

\* A step of one actor that takes nobody's ring leaves the others their seats.
LEMMA SeatedKept ==
  ASSUME Standing, NEW a \in Actors, me[a].pc # "ring", \A b \in Actors : b # a => me'[b] = me[b],
         \A v \in Pollers : v # a => (v \in seats' <=> v \in seats) /\ (v \in rung' <=> v \in rung),
         a \in Pollers => SeatOf(a)'
  PROVE  Seated'
<1>1. ASSUME NEW v \in Pollers, v # a PROVE SeatOf(v)'
  <2>1. SeatOf(v) /\ me'[v] = me[v] /\ (v \in seats' <=> v \in seats) /\ (v \in rung' <=> v \in rung)
    BY <1>1, Zenon DEF Standing, Seated, Actors, Writers
  <2>2. ASSUME NEW b \in Actors, v \in me[b].ring PROVE v \in me'[b].ring
    <3>1. me[a].ring = {}
      BY Zenon DEF Standing, Places
    <3>2. b # a
      BY <2>2, <3>1, Zenon
    <3> QED
      BY <2>2, <3>2, Zenon
  <2> QED
    BY <2>1, <2>2, Zenon DEF SeatOf
<1> QED
  BY <1>1, Zenon DEF Seated

\* A writer's own steps keep its place, the gate and its seat in agreement.
LEMMA WriterKeepsStanding ==
  ASSUME Standing, NEW w \in Writers, WriterStep(w), inFlight' \in Nat
  PROVE  Standing'
<1>0. me \in [Actors -> Place] /\ w \in Actors /\ me[w] \in Place /\ me[w].bytes \in Nat /\ inFlight \in Nat
  <2>1. me \in [Actors -> Place] /\ w \in Actors /\ inFlight \in Nat
    BY Zenon DEF Standing, TypeOK, Actors
  <2> QED
    BY Zenon, <2>1 DEF Place
<1>10. w \in Pollers => SeatOf(w)
  BY Zenon DEF Standing, Seated
<1>11. w \in Pollers => w \notin Parkers
  BY Zenon, WritersAssumption
<1>12. w \in Pollers => me[w].pc # "regate"
  BY <1>11 DEF Standing, Places
<1>1. CASE Begin(w)
  <2>1. /\ me' \in [Actors -> Place]
        /\ \A a \in Actors : a # w => me'[a] = me[a]
        /\ me[w].pc = "idle" /\ me'[w].bytes > 0 /\ me'[w].ring = {} /\ me'[w].pc = IF w \in Parkers THEN "first" ELSE "poll"
    <3>1. PICK b \in Sizes :
            me' = [me EXCEPT ![w] = [Idle EXCEPT !.bytes = b, !.pc = IF w \in Parkers THEN "first" ELSE "poll"]]
      BY <1>1, Zenon DEF Begin
    <3>2. me[w].pc = "idle" /\ b \in Nat /\ b > 0
      BY <1>1, SizesAssumption DEF Begin
    <3>3. [Idle EXCEPT !.bytes = b, !.pc = IF w \in Parkers THEN "first" ELSE "poll"] \in Place
      BY Zenon, <3>2 DEF Idle, Place, PCs
    <3> QED
      BY Zenon, <1>0, <3>1, <3>2, <3>3 DEF Idle
  <2>2. UNCHANGED <<inFlight, throttled, gate, seats, rung>>
    BY <1>1, Zenon DEF Begin
  <2>3. TypeOK'
    BY Zenon, <1>0, <2>1, <2>2 DEF Standing, TypeOK
  <2>4. Places'
    BY ZenonT(60), <1>0, <2>1, WritersAssumption DEF Standing, Places, Away, Actors, Writers
  <2>5. GateHeld'
    BY Zenon, <1>0, <2>1, <2>2, WritersAssumption DEF Standing, GateHeld, Gated, Actors
  <2>6. Seated'
    <3>1. me[w].pc # "ring" /\ \A v \in Pollers : v # w => (v \in seats' <=> v \in seats) /\ (v \in rung' <=> v \in rung)
      BY <2>1, <2>2
    <3>2. w \in Pollers => SeatOf(w)'
      BY <2>1, <2>2, <1>10 DEF SeatOf, Gated
    <3> QED
      BY <1>0, <2>1, <3>1, <3>2, SeatedKept, Zenon
  <2> QED
    BY <2>3, <2>4, <2>5, <2>6, Zenon DEF Standing
<1>2. CASE Load(w)
  <2>1. /\ me' \in [Actors -> Place]
        /\ \A a \in Actors : a # w => me'[a] = me[a]
        /\ me'[w].bytes = me[w].bytes /\ me'[w].ring = me[w].ring
        /\ \/ me[w].pc = "first" /\ me'[w].pc = "first2"
           \/ me[w].pc = "look" /\ me'[w].pc = "look2"
           \/ me[w].pc = "again" /\ me'[w].pc = "again2"
    BY <1>0, <1>2 DEF Load, Trying, Place, PCs, Gated
  <2>2. UNCHANGED <<inFlight, throttled, gate, seats, rung>>
    BY <1>2, Zenon DEF Load
  <2>3. TypeOK'
    BY Zenon, <1>0, <2>1, <2>2 DEF Standing, TypeOK
  <2>4. Places'
    BY ZenonT(60), <1>0, <2>1, WritersAssumption DEF Standing, Places, Away, Actors, Writers
  <2>5. GateHeld'
    BY Zenon, <1>0, <2>1, <2>2, WritersAssumption DEF Standing, GateHeld, Gated, Actors
  <2>6. Seated'
    <3>1. me[w].pc # "ring" /\ \A v \in Pollers : v # w => (v \in seats' <=> v \in seats) /\ (v \in rung' <=> v \in rung)
      BY <2>1, <2>2
    <3>2. w \in Pollers => SeatOf(w)'
      BY <2>1, <2>2, <1>10 DEF SeatOf, Gated
    <3> QED
      BY <1>0, <2>1, <3>1, <3>2, SeatedKept, Zenon
  <2> QED
    BY <2>3, <2>4, <2>5, <2>6, Zenon DEF Standing
<1>3. CASE Retry(w)
  <2>1. /\ me' \in [Actors -> Place]
        /\ \A a \in Actors : a # w => me'[a] = me[a]
        /\ me'[w].bytes = me[w].bytes /\ me'[w].ring = me[w].ring /\ me'[w].pc = me[w].pc
        /\ me[w].pc \in {"first2", "look2", "again2"}
    BY Zenon, <1>0, <1>3 DEF Retry, Place
  <2>2. UNCHANGED <<inFlight, throttled, gate, seats, rung>>
    BY <1>3, Zenon DEF Retry
  <2>3. TypeOK'
    BY Zenon, <1>0, <2>1, <2>2 DEF Standing, TypeOK
  <2>4. Places'
    BY <1>0, <2>1, WritersAssumption DEF Standing, Places, Away, Actors, Writers
  <2>5. GateHeld'
    BY Zenon, <1>0, <2>1, <2>2, WritersAssumption DEF Standing, GateHeld, Gated, Actors
  <2>6. Seated'
    <3>1. me[w].pc # "ring" /\ \A v \in Pollers : v # w => (v \in seats' <=> v \in seats) /\ (v \in rung' <=> v \in rung)
      BY <2>1, <2>2
    <3>2. w \in Pollers => SeatOf(w)'
      BY <2>1, <2>2, <1>10 DEF SeatOf, Gated
    <3> QED
      BY <1>0, <2>1, <3>1, <3>2, SeatedKept, Zenon
  <2> QED
    BY <2>3, <2>4, <2>5, <2>6, Zenon DEF Standing
<1>4. CASE Admit(w)
  <2>1. /\ me' \in [Actors -> Place]
        /\ \A a \in Actors : a # w => me'[a] = me[a]
        /\ me[w].pc \in {"first2", "look2", "again2"} /\ me'[w].pc = "holding" /\ me'[w].bytes = me[w].bytes /\ me'[w].ring = {}
    <3>1. me[w].pc \in {"first2", "look2", "again2"} /\ me' = [me EXCEPT ![w] = [Idle EXCEPT !.pc = "holding", !.bytes = me[w].bytes]]
      BY <1>4, Zenon DEF Admit
    <3>2. [Idle EXCEPT !.pc = "holding", !.bytes = me[w].bytes] \in Place
      BY Zenon, <1>0 DEF Idle, Place, PCs
    <3> QED
      BY Zenon, <1>0, <3>1, <3>2 DEF Idle
  <2>2. UNCHANGED throttled /\ seats' = seats \ {w} /\ rung' = rung \ {w} /\ gate' = IF gate = w THEN NoOne ELSE gate
    BY <1>4, Zenon DEF Admit
  <2>3. TypeOK'
    BY Zenon, <1>0, <2>1, <2>2 DEF Standing, TypeOK
  <2>4. Places'
    BY ZenonT(60), <1>0, <2>1, WritersAssumption DEF Standing, Places, Away, Actors, Writers
  <2>5. GateHeld'
    BY Zenon, <1>0, <2>1, <2>2, WritersAssumption DEF Standing, GateHeld, Gated, Actors
  <2>6. Seated'
    <3>1. me[w].pc # "ring" /\ \A v \in Pollers : v # w => (v \in seats' <=> v \in seats) /\ (v \in rung' <=> v \in rung)
      BY <2>1, <2>2
    <3>2. w \in Pollers => SeatOf(w)'
      BY <2>1, <2>2, <1>10 DEF SeatOf, Gated
    <3> QED
      BY <1>0, <2>1, <3>1, <3>2, SeatedKept, Zenon
  <2> QED
    BY <2>3, <2>4, <2>5, <2>6, Zenon DEF Standing
<1>5. CASE FirstRefused(w)
  <2>1. /\ me' \in [Actors -> Place]
        /\ \A a \in Actors : a # w => me'[a] = me[a]
        /\ me'[w].bytes = me[w].bytes /\ me'[w].ring = me[w].ring /\ me[w].pc = "first2" /\ me'[w].pc = "gate"
    BY Zenon, <1>0, <1>5 DEF FirstRefused, Place, PCs, Gated
  <2>2. UNCHANGED <<inFlight, throttled, gate, seats, rung>>
    BY <1>5, Zenon DEF FirstRefused
  <2>3. TypeOK'
    BY Zenon, <1>0, <2>1, <2>2 DEF Standing, TypeOK
  <2>4. Places'
    BY ZenonT(60), <1>0, <2>1, WritersAssumption DEF Standing, Places, Away, Actors, Writers
  <2>5. GateHeld'
    BY Zenon, <1>0, <2>1, <2>2, WritersAssumption DEF Standing, GateHeld, Gated, Actors
  <2>6. Seated'
    <3>1. me[w].pc # "ring" /\ \A v \in Pollers : v # w => (v \in seats' <=> v \in seats) /\ (v \in rung' <=> v \in rung)
      BY <2>1, <2>2
    <3>2. w \in Pollers => SeatOf(w)'
      BY <2>1, <2>2, <1>10 DEF SeatOf, Gated
    <3> QED
      BY <1>0, <2>1, <3>1, <3>2, SeatedKept, Zenon
  <2> QED
    BY <2>3, <2>4, <2>5, <2>6, Zenon DEF Standing
<1>6. CASE Lock(w)
  <2>1. /\ me' \in [Actors -> Place]
        /\ \A a \in Actors : a # w => me'[a] = me[a]
        /\ me'[w].bytes = me[w].bytes /\ me'[w].ring = me[w].ring /\ me[w].pc \in {"gate", "regate", "poll", "pending"}
        /\ me'[w].pc \in {"again", "look"} /\ (me'[w].pc = "again" <=> me[w].pc = "regate")
    BY Zenon, <1>0, <1>6 DEF Lock, Goes, Place, PCs, Gated
  <2>2. UNCHANGED <<inFlight, throttled, seats>> /\ gate = NoOne /\ gate' = w /\ rung' = rung \ {w}
    BY <1>6, Zenon DEF Lock
  <2>3. TypeOK'
    BY Zenon, <1>0, <2>1, <2>2 DEF Standing, TypeOK
  <2>4. Places'
    BY <1>0, <2>1, WritersAssumption DEF Standing, Places, Away, Actors, Writers
  <2>5. GateHeld'
    BY Zenon, <1>0, <2>1, <2>2, WritersAssumption DEF Standing, GateHeld, Gated, Actors
  <2>6. Seated'
    <3>1. me[w].pc # "ring" /\ \A v \in Pollers : v # w => (v \in seats' <=> v \in seats) /\ (v \in rung' <=> v \in rung)
      BY <2>1, <2>2
    <3>2. w \in Pollers => SeatOf(w)'
      BY <2>1, <2>2, <1>10, <1>12 DEF SeatOf, Gated
    <3> QED
      BY <1>0, <2>1, <3>1, <3>2, SeatedKept, Zenon
  <2> QED
    BY <2>3, <2>4, <2>5, <2>6, Zenon DEF Standing
<1>7. CASE LookRefused(w)
  <2>1. /\ me' \in [Actors -> Place]
        /\ \A a \in Actors : a # w => me'[a] = me[a]
        /\ me'[w].bytes = me[w].bytes /\ me'[w].ring = me[w].ring /\ me[w].pc = "look2" /\ me'[w].pc = "again"
    BY Zenon, <1>0, <1>7 DEF LookRefused, Place, PCs, Gated
  <2>2. UNCHANGED <<inFlight, throttled, gate, rung>> /\ seats' = (IF w \in Pollers THEN seats \cup {w} ELSE seats)
    BY <1>7, Zenon DEF LookRefused
  <2>3. TypeOK'
    BY Zenon, <1>0, <2>1, <2>2 DEF Standing, TypeOK
  <2>4. Places'
    BY <1>0, <2>1, WritersAssumption DEF Standing, Places, Away, Actors, Writers
  <2>5. GateHeld'
    BY Zenon, <1>0, <2>1, <2>2, WritersAssumption DEF Standing, GateHeld, Gated, Actors
  <2>6. Seated'
    <3>1. me[w].pc # "ring" /\ \A v \in Pollers : v # w => (v \in seats' <=> v \in seats) /\ (v \in rung' <=> v \in rung)
      BY <2>1, <2>2
    <3>2. w \in Pollers => SeatOf(w)'
      BY <2>1, <2>2, <1>10 DEF SeatOf, Gated
    <3> QED
      BY <1>0, <2>1, <3>1, <3>2, SeatedKept, Zenon
  <2> QED
    BY <2>3, <2>4, <2>5, <2>6, Zenon DEF Standing
<1>8. CASE AgainRefused(w)
  <2>1. /\ me' \in [Actors -> Place]
        /\ \A a \in Actors : a # w => me'[a] = me[a]
        /\ me'[w].bytes = me[w].bytes /\ me'[w].ring = me[w].ring /\ me[w].pc = "again2"
        /\ me'[w].pc = IF w \in Parkers THEN "asleep" ELSE "pending"
    BY Zenon, <1>0, <1>8 DEF AgainRefused, Place, PCs, Gated
  <2>2. UNCHANGED <<inFlight, throttled, seats, rung>> /\ gate' = NoOne
    BY <1>8, Zenon DEF AgainRefused
  <2>3. TypeOK'
    BY Zenon, <1>0, <2>1, <2>2 DEF Standing, TypeOK
  <2>4. Places'
    BY ZenonT(60), <1>0, <2>1, WritersAssumption DEF Standing, Places, Away, Actors, Writers
  <2>5. GateHeld'
    BY Zenon, <1>0, <2>1, <2>2, WritersAssumption DEF Standing, GateHeld, Gated, Actors
  <2>6. Seated'
    <3>1. me[w].pc # "ring" /\ \A v \in Pollers : v # w => (v \in seats' <=> v \in seats) /\ (v \in rung' <=> v \in rung)
      BY <2>1, <2>2
    <3>2. w \in Pollers => SeatOf(w)'
      BY <2>1, <2>2, <1>10, <1>11 DEF SeatOf, Gated
    <3> QED
      BY <1>0, <2>1, <3>1, <3>2, SeatedKept, Zenon
  <2> QED
    BY <2>3, <2>4, <2>5, <2>6, Zenon DEF Standing
<1>9. CASE Release(w)
  <2>1. /\ me' \in [Actors -> Place]
        /\ \A a \in Actors : a # w => me'[a] = me[a]
        /\ me[w].pc = "holding" /\ me'[w].pc = "slack" /\ me'[w].ring = {}
    <3>1. me[w].pc = "holding" /\ me' = [me EXCEPT ![w] = [Idle EXCEPT !.pc = "slack"]]
      BY <1>9, Zenon DEF Release
    <3>2. [Idle EXCEPT !.pc = "slack"] \in Place
      BY Zenon DEF Idle, Place, PCs, Away
    <3> QED
      BY Zenon, <1>0, <3>1, <3>2 DEF Idle
  <2>2. UNCHANGED <<throttled, gate, seats, rung>>
    BY <1>9, Zenon DEF Release
  <2>3. TypeOK'
    BY Zenon, <1>0, <2>1, <2>2 DEF Standing, TypeOK
  <2>4. Places'
    BY ZenonT(60), <1>0, <2>1, WritersAssumption DEF Standing, Places, Away, Actors, Writers
  <2>5. GateHeld'
    BY Zenon, <1>0, <2>1, <2>2, WritersAssumption DEF Standing, GateHeld, Gated, Actors
  <2>6. Seated'
    <3>1. me[w].pc # "ring" /\ \A v \in Pollers : v # w => (v \in seats' <=> v \in seats) /\ (v \in rung' <=> v \in rung)
      BY <2>1, <2>2
    <3>2. w \in Pollers => SeatOf(w)'
      BY <2>1, <2>2, <1>10 DEF SeatOf, Gated
    <3> QED
      BY <1>0, <2>1, <3>1, <3>2, SeatedKept, Zenon
  <2> QED
    BY <2>3, <2>4, <2>5, <2>6, Zenon DEF Standing
<1> QED
  BY <1>1, <1>2, <1>3, <1>4, <1>5, <1>6, <1>7, <1>8, <1>9, Zenon DEF WriterStep

\* A wake moves its sleepers to the gate and the seats to whoever woke them.
LEMMA SlackenMoves ==
  ASSUME Standing, NEW a \in Actors, Slacken(a), NEW b \in Actors
  PROVE  /\ me'[b] \in Place
         /\ me'[b].pc = IF b = a THEN "ring" ELSE IF me[b].pc = "asleep" THEN "regate" ELSE me[b].pc
         /\ me'[b].ring = IF b = a THEN seats ELSE me[b].ring
         /\ me'[b].bytes = me[b].bytes /\ me'[b].held = me[b].held
<1>1. me'[b] = IF b = a THEN [me[b] EXCEPT !.pc = "ring", !.ring = seats]
               ELSE IF me[b].pc = "asleep" THEN [me[b] EXCEPT !.pc = "regate"] ELSE me[b]
  BY Zenon DEF Slacken
<1>2. me[b] \in Place /\ seats \in SUBSET Pollers
  BY Zenon DEF Standing, TypeOK
<1>3. "ring" \in PCs /\ "regate" \in PCs
  BY Zenon DEF PCs, Away
<1>4. CASE b = a
  BY Zenon, <1>1, <1>2, <1>3, <1>4 DEF Place
<1>5. CASE b # a /\ me[b].pc = "asleep"
  BY Zenon, <1>1, <1>2, <1>3, <1>5 DEF Place
<1>6. CASE b # a /\ me[b].pc # "asleep"
  BY Zenon, <1>1, <1>2, <1>6 DEF Place
<1> QED
  BY Zenon, <1>4, <1>5, <1>6

\* So do a dropped future, a throttle, and whoever looks for waiters, wakes
\* and rings them.
LEMMA WakersKeepStanding ==
  ASSUME Standing,
         \/ \E w \in Pollers : Drop(w)
         \/ Throttle
         \/ \E a \in Actors : IsTaut(a) \/ Slacken(a) \/ Ring(a)
  PROVE  Standing'
<1>0. me \in [Actors -> Place] /\ seats \subseteq Pollers /\ Pollers \subseteq Writers /\ Writers \subseteq Actors /\ Tick \in Actors
  BY Zenon DEF Standing, TypeOK, Actors, Writers
<1>9. Idle \in Place
  BY Zenon DEF Idle, Place, PCs, Away
<1>10. \A w \in Pollers : SeatOf(w)
  BY Zenon DEF Standing, Seated
<1>1. ASSUME NEW w \in Pollers, Drop(w) PROVE Standing'
  <2>1. /\ me' \in [Actors -> Place]
        /\ \A a \in Actors : a # w => me'[a] = me[a]
        /\ me[w].pc = "pending" /\ me'[w].pc = "idle" /\ me'[w].ring = {}
    BY Zenon, <1>0, <1>1, <1>9 DEF Drop, Idle
  <2>2. UNCHANGED <<inFlight, throttled, gate>> /\ seats' = seats \ {w} /\ rung' = rung \ {w}
    BY <1>1, Zenon DEF Drop
  <2>3. TypeOK'
    BY Zenon, <1>0, <2>1, <2>2, CeilingAssumption DEF Standing, TypeOK
  <2>4. Places'
    BY <1>0, <1>1, <2>1, WritersAssumption DEF Standing, Places, Away, Actors, Writers
  <2>5. GateHeld'
    BY Zenon, <1>0, <2>1, <2>2, WritersAssumption DEF Standing, GateHeld, Gated, Actors
  <2>6. Seated'
    <3>1. me[w].pc # "ring" /\ \A v \in Pollers : v # w => (v \in seats' <=> v \in seats) /\ (v \in rung' <=> v \in rung)
      BY <2>1, <2>2
    <3>2. w \in Pollers => SeatOf(w)'
      BY <2>1, <2>2, <1>10 DEF SeatOf, Gated
    <3> QED
      BY <1>0, <2>1, <3>1, <3>2, SeatedKept, Zenon
  <2> QED
    BY <2>3, <2>4, <2>5, <2>6, Zenon DEF Standing
<1>2. CASE Throttle
  <2>1. /\ me' \in [Actors -> Place]
        /\ \A b \in Actors : b # Tick => me'[b] = me[b]
        /\ me[Tick].pc = "idle" /\ me'[Tick].pc \in {"idle", "slack"} /\ me'[Tick].ring = me[Tick].ring
    BY <1>0, <1>2 DEF Throttle, Goes, Place, PCs, Away
  <2>2. UNCHANGED <<inFlight, gate, seats, rung>> /\ throttled' \in Shares
    BY <1>2, Zenon DEF Throttle
  <2>3. TypeOK'
    BY Zenon, <1>0, <2>1, <2>2, CeilingAssumption DEF Standing, TypeOK
  <2>4. Places'
    BY Zenon, <1>0, <1>2, <2>1, WritersAssumption DEF Standing, Places, Away, Actors, Writers
  <2>5. GateHeld'
    BY Zenon, <1>0, <2>1, <2>2, WritersAssumption DEF Standing, GateHeld, Gated, Actors
  <2>6. Seated'
    <3>1. me[Tick].pc # "ring" /\ \A v \in Pollers : v # Tick => (v \in seats' <=> v \in seats) /\ (v \in rung' <=> v \in rung)
      BY <2>1, <2>2
    <3>2. Tick \in Pollers => SeatOf(Tick)'
      BY Zenon, WritersAssumption DEF Writers
    <3> QED
      BY <1>0, <2>1, <3>1, <3>2, SeatedKept, Zenon
  <2> QED
    BY <2>3, <2>4, <2>5, <2>6, Zenon DEF Standing
<1>3. ASSUME NEW a \in Actors, IsTaut(a) PROVE Standing'
  <2>1. /\ me' \in [Actors -> Place]
        /\ \A b \in Actors : b # a => me'[b] = me[b]
        /\ me[a].pc = "slack" /\ me'[a].pc \in {"idle", "slacken"} /\ me'[a].ring = {}
    <3>1. me[a].pc = "slack" /\ me' = [me EXCEPT ![a] = IF waiting # 0 THEN [@ EXCEPT !.pc = "slacken"] ELSE Idle]
      BY <1>3, Zenon DEF IsTaut
    <3>2. me[a].ring = {} /\ me[a] \in Place
      BY Zenon, <1>0, <1>3, <3>1 DEF Standing, Places
    <3>3. CASE waiting # 0
      BY Zenon, <1>0, <3>1, <3>2, <3>3 DEF Place, PCs, Away
    <3>4. CASE waiting = 0
      BY Zenon, <1>0, <1>9, <3>1, <3>2, <3>4 DEF Idle
    <3> QED
      BY Zenon, <3>3, <3>4
  <2>2. UNCHANGED <<inFlight, throttled, gate, seats, rung>>
    BY <1>3, Zenon DEF IsTaut
  <2>3. TypeOK'
    BY Zenon, <1>0, <2>1, <2>2, CeilingAssumption DEF Standing, TypeOK
  <2>4. Places'
    <3>1. me[a].pc \in Away /\ me'[a].pc \in Away
      BY Zenon, <2>1 DEF Away
    <3> QED
      BY ZenonT(60), <1>0, <1>3, <2>1, <3>1 DEF Standing, Places, Away
  <2>5. GateHeld'
    BY Zenon, <1>0, <2>1, <2>2, WritersAssumption DEF Standing, GateHeld, Gated, Actors
  <2>6. Seated'
    <3>1. me[a].pc # "ring" /\ \A v \in Pollers : v # a => (v \in seats' <=> v \in seats) /\ (v \in rung' <=> v \in rung)
      BY <2>1, <2>2
    <3>2. a \in Pollers => SeatOf(a)'
      BY <2>1, <2>2, <1>10 DEF SeatOf, Gated
    <3> QED
      BY <1>0, <2>1, <3>1, <3>2, SeatedKept, Zenon
  <2> QED
    BY <2>3, <2>4, <2>5, <2>6, Zenon DEF Standing
<1>4. ASSUME NEW a \in Actors, Slacken(a) PROVE Standing'
  <2>0. /\ me[a].pc = "slacken" /\ gate = NoOne /\ seats' = {}
        /\ UNCHANGED <<inFlight, throttled, gate, rung>>
    BY <1>4, Zenon DEF Slacken
  <2>1. me' = [b \in Actors |-> me'[b]]
    BY <1>4, Zenon DEF Slacken
  <2>2. \A b \in Actors :
          /\ me'[b] \in Place
          /\ me'[b].pc = IF b = a THEN "ring" ELSE IF me[b].pc = "asleep" THEN "regate" ELSE me[b].pc
          /\ me'[b].ring = IF b = a THEN seats ELSE me[b].ring
          /\ me'[b].bytes = me[b].bytes
    BY <1>4, SlackenMoves, Zenon
  <2>3. TypeOK'
    <3>1. me' \in [Actors -> Place]
      BY <2>1, <2>2, Zenon
    <3> QED
      BY Zenon, <2>0, <3>1 DEF Standing, TypeOK
  <2>4. Places'
    BY ZenonT(60), <1>0, <1>4, <2>0, <2>2, WritersAssumption DEF Standing, Places, Away, Writers
  <2>5. GateHeld'
    BY Zenon, <1>0, <2>0, <2>2, WritersAssumption DEF Standing, GateHeld, Gated
  <2>6. Seated'
    <3> SUFFICES ASSUME NEW w \in Pollers, me'[w].pc = "pending", w \notin rung
                 PROVE  \E b \in Actors : w \in me'[b].ring
      BY ZenonT(60), <1>0, <2>0, <2>2, WritersAssumption DEF Standing, Seated, SeatOf, GateHeld, Gated
    <3>1. w \in Actors /\ me[w].pc = "pending"
      BY Zenon, <1>0, <2>2
    <3>2. CASE w \in seats
      BY Zenon, <1>4, <2>2, <3>2
    <3>3. CASE w \notin seats
      <4>1. PICK b \in Actors : w \in me[b].ring
        BY <3>1, <3>3, Zenon DEF Standing, Seated, SeatOf
      <4>2. me[a].ring = {}
        BY Zenon, <1>4, <2>0 DEF Standing, Places
      <4> QED
        BY Zenon, <2>2, <4>1, <4>2
    <3> QED
      BY Zenon, <3>2, <3>3
  <2> QED
    BY <2>3, <2>4, <2>5, <2>6, Zenon DEF Standing
<1>5. ASSUME NEW a \in Actors, Ring(a) PROVE Standing'
  <2>1. /\ me' \in [Actors -> Place]
        /\ \A b \in Actors : b # a => me'[b] = me[b]
        /\ me[a].pc = "ring" /\ me'[a].pc = "idle" /\ me'[a].ring = {}
    BY Zenon, <1>0, <1>5, <1>9 DEF Ring, Idle
  <2>2. UNCHANGED <<inFlight, throttled, gate, seats>> /\ rung' = rung \cup {w \in me[a].ring : me[w].pc = "pending"}
    BY <1>5, Zenon DEF Ring
  <2>3. TypeOK'
    <3>1. me[a].ring \subseteq Pollers
      BY Zenon, <1>0, <1>5 DEF Place
    <3> QED
      BY Zenon, <2>1, <2>2, <3>1 DEF Standing, TypeOK
  <2>4. Places'
    BY ZenonT(60), <1>0, <1>5, <2>1, WritersAssumption DEF Standing, Places, Away, Actors, Writers
  <2>5. GateHeld'
    BY Zenon, <1>0, <2>1, <2>2, WritersAssumption DEF Standing, GateHeld, Gated
  <2>6. Seated'
    BY Zenon, <1>0, <2>1, <2>2 DEF Standing, Seated, SeatOf, Gated
  <2> QED
    BY <2>3, <2>4, <2>5, <2>6, Zenon DEF Standing
<1> QED
  BY <1>1, <1>2, <1>3, <1>4, <1>5, Zenon

-----------------------------------------------------------------------------
(* The gauge.                                                              *)

\* A record's bytes are as many as its length.
LEMMA BytesOfOne ==
  ASSUME NEW w, NEW n \in Nat
  PROVE  IsFiniteSet({w} \X (1 .. n)) /\ Cardinality({w} \X (1 .. n)) = n
<1>1. IsFiniteSet(1 .. n) /\ Cardinality(1 .. n) = n
  BY FS_Interval
<1>2. IsFiniteSet({w}) /\ Cardinality({w}) = 1
  BY Zenon, FS_Singleton
<1> QED
  BY <1>1, <1>2, FS_Product, SMTT(60)

\* Two finite sets that share nothing.
LEMMA CountsAdd ==
  ASSUME NEW S, NEW T, IsFiniteSet(S), IsFiniteSet(T), S \cap T = {}
  PROVE  /\ IsFiniteSet(S \cup T) /\ Cardinality(S \cup T) = Cardinality(S) + Cardinality(T)
         /\ Cardinality(S) \in Nat /\ Cardinality(T) \in Nat
<1>1. Cardinality(S \cap T) = 0
  BY FS_EmptySet, Zenon
<1>2. Cardinality(S) \in Nat /\ Cardinality(T) \in Nat
  BY Zenon, FS_CardinalityType
<1>3. IsFiniteSet(S \cup T) /\ Cardinality(S \cup T) = Cardinality(S) + Cardinality(T) - Cardinality(S \cap T)
  BY Zenon, FS_Union
<1> QED
  BY <1>1, <1>2, <1>3

\* Taking one away takes its share of the count.
LEMMA OneOfFinite ==
  ASSUME NEW S, NEW x, IsFiniteSet(S)
  PROVE  /\ Cardinality(S \ {x}) = Cardinality(S) - Cardinality({x} \cap S)
         /\ Cardinality({x} \cap S) \in Nat
<1>1. CASE x \in S
  <2>1. {x} \cap S = {x}
    BY Zenon, <1>1
  <2>2. Cardinality({x} \cap S) = 1
    BY <2>1, FS_Singleton, Zenon
  <2> QED
    BY <1>1, <2>2, FS_RemoveElement
<1>2. CASE x \notin S
  <2>1. {x} \cap S = {}
    BY Zenon, <1>2
  <2>2. Cardinality({x} \cap S) = 0
    BY <2>1, FS_EmptySet, Zenon
  <2> QED
    BY <1>2, <2>2, FS_RemoveElement, FS_CardinalityType
<1> QED
  BY Zenon, <1>1, <1>2

\* The bytes held are those of the one and of the others.
LEMMA BytesSplit ==
  ASSUME Standing, NEW w \in Holding
  PROVE  LET rest == UNION {{v} \X (1 .. me[v].bytes) : v \in Holding \ {w}}
         IN  /\ BytesHeld = rest \cup ({w} \X (1 .. me[w].bytes))
             /\ rest \cap ({w} \X (1 .. me[w].bytes)) = {}
  BY DEF BytesHeld
\* What the others hold does not change with w's place.
LEMMA OthersHold ==
  ASSUME Standing, NEW w \in Writers, \A a \in Actors : a # w => me'[a] = me[a]
  PROVE  UNION {{v} \X (1 .. me'[v].bytes) : v \in Holding' \ {w}}
           = UNION {{v} \X (1 .. me[v].bytes) : v \in Holding \ {w}}
<1>1. Holding' \ {w} = Holding \ {w}
  BY Zenon DEF Holding, Actors
<1>2. \A v \in Holding \ {w} : me'[v] = me[v]
  BY Zenon DEF Holding, Actors
<1> DEFINE Was(v) == {v} \X (1 .. me[v].bytes)
           Is(v)  == {v} \X (1 .. me'[v].bytes)
<1>4. \A v \in Holding \ {w} : Is(v) = Was(v)
  BY Zenon, <1>2
<1> HIDE DEF Was, Is
<1>5. {Is(v) : v \in Holding' \ {w}} = {Was(v) : v \in Holding \ {w}}
  BY <1>1, <1>4, Zenon
<1> QED
  BY Zenon, <1>5 DEF Was, Is

\* The bytes of a record are part of the gauge while it is held.
LEMMA HeldIsCounted ==
  ASSUME Standing, GaugeTrue, NEW w \in Holding
  PROVE  /\ me[w].bytes \in Nat /\ me[w].bytes <= inFlight
         /\ LET rest == UNION {{v} \X (1 .. me[v].bytes) : v \in Holding \ {w}}
            IN  IsFiniteSet(rest) /\ Cardinality(rest) = inFlight - me[w].bytes
<1> DEFINE rest == UNION {{v} \X (1 .. me[v].bytes) : v \in Holding \ {w}}
           own  == {w} \X (1 .. me[w].bytes)
<1>1. me[w].bytes \in Nat
  BY Zenon DEF Standing, TypeOK, Place, Holding, Actors
<1>2. IsFiniteSet(own) /\ Cardinality(own) = me[w].bytes
  BY Zenon, <1>1, BytesOfOne
<1>3. BytesHeld = rest \cup own /\ rest \cap own = {}
  BY Zenon, BytesSplit
<1> HIDE DEF rest, own
<1>4. IsFiniteSet(rest)
  <2>1. rest \in SUBSET BytesHeld
    BY Zenon, <1>3
  <2> QED
    BY Zenon, <2>1, FS_Subset DEF GaugeTrue
<1>5. Cardinality(rest \cup own) = Cardinality(rest) + Cardinality(own) /\ Cardinality(rest) \in Nat
  BY Zenon, <1>2, <1>3, <1>4, CountsAdd
<1>6. inFlight = Cardinality(rest) + me[w].bytes
  <2>1. inFlight = Cardinality(rest \cup own)
    BY <1>3, Zenon DEF GaugeTrue
  <2> QED
    BY Zenon, <1>2, <1>5, <2>1
<1> QED
  BY <1>1, <1>4, <1>5, <1>6 DEF rest
\* No other step touches a record in flight.
LEMMA RestHolds ==
  ASSUME Standing, [Next]_vars, \A w \in Writers : ~ Admit(w) /\ ~ Release(w)
  PROVE  /\ inFlight' = inFlight
         /\ \A w \in Writers : /\ me'[w].pc = "holding" <=> me[w].pc = "holding"
                               /\ me[w].pc = "holding" => me'[w].bytes = me[w].bytes
<1> DEFINE Same == /\ inFlight' = inFlight
                   /\ \A w \in Writers : /\ me'[w].pc = "holding" <=> me[w].pc = "holding"
                                         /\ me[w].pc = "holding" => me'[w].bytes = me[w].bytes
<1> SUFFICES Same
  BY Zenon
<1> USE WritersAssumption DEF Standing, TypeOK, Place, Actors, Writers
<1>1. ASSUME NEW w \in Writers, WriterStep(w) PROVE Same
  <2>1. CASE Begin(w)
    BY <2>1 DEF Begin, Idle
  <2>2. CASE Load(w)
    BY <2>2 DEF Load, Trying
  <2>3. CASE Retry(w)
    BY <2>3 DEF Retry
  <2>4. CASE FirstRefused(w)
    BY <2>4 DEF FirstRefused
  <2>5. CASE Lock(w)
    BY <2>5 DEF Lock, Goes
  <2>6. CASE LookRefused(w)
    BY <2>6 DEF LookRefused
  <2>7. CASE AgainRefused(w)
    BY SMTT(60), <2>7 DEF AgainRefused
  <2> QED
    BY Zenon, <1>1, <2>1, <2>2, <2>3, <2>4, <2>5, <2>6, <2>7 DEF WriterStep
<1>2. ASSUME NEW w \in Pollers, Drop(w) PROVE Same
  BY Zenon, <1>2 DEF Drop, Idle
<1>3. CASE Throttle
  BY Zenon, <1>3 DEF Throttle, Goes
<1>4. ASSUME NEW a \in Actors, IsTaut(a) \/ Slacken(a) \/ Ring(a) PROVE Same
  <2>1. CASE IsTaut(a)
    BY SMTT(60), <2>1 DEF IsTaut, Idle
  <2>2. CASE Slacken(a)
    <3>1. \A b \in Actors :
            /\ me'[b].pc = IF b = a THEN "ring" ELSE IF me[b].pc = "asleep" THEN "regate" ELSE me[b].pc
            /\ me'[b].bytes = me[b].bytes
      <4> HIDE DEF Standing, TypeOK, Place, Actors
      <4> QED
        BY <2>2, SlackenMoves, Zenon
    <3>2. inFlight' = inFlight /\ me[a].pc = "slacken"
      BY Zenon, <2>2 DEF Slacken
    <3> QED
      BY Zenon, <3>1, <3>2
  <2>3. CASE Ring(a)
    BY Zenon, <2>3 DEF Ring, Idle
  <2> QED
    BY Zenon, <1>4, <2>1, <2>2, <2>3
<1>5. CASE UNCHANGED vars
  BY Zenon, <1>5 DEF vars
<1> QED
  BY Zenon, <1>1, <1>2, <1>3, <1>4, <1>5 DEF Next

\* The gauge moves by a record's bytes as it is admitted and as it is released, and
\* one that fits only an empty gauge finds it empty.
LEMMA GaugeStep ==
  ASSUME Standing, GaugeTrue, OneOversized, [Next]_vars
  PROVE  inFlight' \in Nat /\ GaugeTrue' /\ OneOversized'
<1> USE CeilingAssumption, WritersAssumption
<1>1. ASSUME NEW w \in Writers, Admit(w)
      PROVE  inFlight' \in Nat /\ GaugeTrue' /\ OneOversized'
  <2> DEFINE own == {w} \X (1 .. me[w].bytes)
  <2>1. /\ me'[w].pc = "holding" /\ me'[w].bytes = me[w].bytes
        /\ \A a \in Actors : a # w => me'[a] = me[a]
        /\ me[w].bytes \in Nat /\ me[w].bytes > 0
        /\ inFlight' = inFlight + me[w].bytes /\ inFlight \in Nat /\ inFlight' \in Nat
        /\ throttled \in 0 .. Ceiling
        /\ w \notin Holding
        /\ Holding' = Holding \cup {w}
    <3>0. me \in [Actors -> Place] /\ inFlight \in Nat /\ throttled \in 0 .. Ceiling /\ w \in Actors
      BY Zenon DEF Standing, TypeOK, Actors
    <3>1. /\ me[w].pc \in {"first2", "look2", "again2"} /\ inFlight' = inFlight + me[w].bytes
          /\ me' = [me EXCEPT ![w] = [Idle EXCEPT !.pc = "holding", !.bytes = me[w].bytes]]
      BY <1>1, Zenon DEF Admit
    <3>2. me'[w].pc = "holding" /\ me'[w].bytes = me[w].bytes /\ \A a \in Actors : a # w => me'[a] = me[a]
      BY <3>0, <3>1, Zenon DEF Idle
    <3>3. me[w].bytes \in Nat
      BY <3>0, Zenon DEF Place
    <3>4. me[w].bytes > 0
      BY <3>1 DEF Standing, Places, Away
    <3>5. w \notin Holding /\ Holding' = Holding \cup {w}
      BY <3>1, <3>2 DEF Holding, Actors
    <3> QED
      BY <3>0, <3>1, <3>2, <3>3, <3>4, <3>5
  <2>2. BytesHeld' = BytesHeld \cup own
    <3> DEFINE Is(v)  == {v} \X (1 .. me'[v].bytes)
               others == UNION {Is(v) : v \in Holding' \ {w}}
    <3>1. others = BytesHeld
      BY Zenon, <2>1, OthersHold, Holding \ {w} = Holding DEF BytesHeld
    <3>2. own = Is(w) /\ w \in Holding'
      BY Zenon, <2>1
    <3>3. BytesHeld' = UNION {Is(v) : v \in Holding'}
      BY Zenon DEF BytesHeld
    <3>4. UNION {Is(v) : v \in Holding'} = others \cup Is(w)
      <4> HIDE DEF Is
      <4>1. {Is(v) : v \in Holding'} = {Is(v) : v \in Holding' \ {w}} \cup {Is(w)}
        BY <3>2, Zenon
      <4> QED
        BY Zenon, <4>1
    <3> HIDE DEF own, Is, others
    <3> QED
      BY <3>1, <3>2, <3>3, <3>4, Zenon
  <2>3. BytesHeld \cap own = {}
    BY <2>1 DEF BytesHeld
  <2>4. IsFiniteSet(own) /\ Cardinality(own) = me[w].bytes
    BY Zenon, <2>1, BytesOfOne
  <2> HIDE DEF own
  <2>5. GaugeTrue'
    <3>1. /\ IsFiniteSet(BytesHeld \cup own)
          /\ Cardinality(BytesHeld \cup own) = inFlight + me[w].bytes
      BY Zenon, <2>3, <2>4, CountsAdd DEF GaugeTrue
    <3>2. IsFiniteSet(BytesHeld') /\ Cardinality(BytesHeld') = inFlight + me[w].bytes
      BY <2>2, <3>1, Zenon
    <3> QED
      BY Zenon, <2>1, <3>2 DEF GaugeTrue
  <2>6. OneOversized'
    <3>1. CASE inFlight = 0
      <4>1. BytesHeld = {}
        BY Zenon, <3>1, FS_EmptySet DEF GaugeTrue
      <4>2. Holding = {}
        <5>1. ASSUME NEW v \in Holding PROVE FALSE
          <6>1. me[v].bytes \in Nat /\ me[v].bytes > 0
            BY Zenon, <5>1 DEF Standing, TypeOK, Place, Places, Away, Holding, Actors, Writers
          <6>2. <<v, 1>> \in BytesHeld
            BY <5>1, <6>1 DEF BytesHeld
          <6> QED
            BY Zenon, <4>1, <6>2
        <5> QED
          BY Zenon, <5>1
      <4> QED
        BY Zenon, <2>1, <4>2 DEF OneOversized
    <3>2. CASE inFlight + me[w].bytes <= throttled
      BY <2>1, <3>2 DEF OneOversized
    <3> QED
      BY Zenon, <1>1, <3>1, <3>2 DEF Admit, CanAdmit, OneOversized
  <2> QED
    BY Zenon, <2>1, <2>5, <2>6
<1>2. ASSUME NEW w \in Writers, Release(w)
      PROVE  inFlight' \in Nat /\ GaugeTrue' /\ OneOversized'
  <2>1. /\ w \in Holding /\ Holding' = Holding \ {w}
        /\ \A a \in Actors : a # w => me'[a] = me[a]
        /\ inFlight' = inFlight - me[w].bytes /\ inFlight \in Nat
    BY Zenon, <1>2 DEF Release, Idle, Standing, TypeOK, Place, Holding, Actors, Writers
  <2>2. BytesHeld' = UNION {{v} \X (1 .. me[v].bytes) : v \in Holding \ {w}}
    BY Zenon, <2>1, OthersHold, Holding' \ {w} = Holding' DEF BytesHeld
  <2>3. /\ me[w].bytes \in Nat /\ me[w].bytes <= inFlight
        /\ IsFiniteSet(BytesHeld') /\ Cardinality(BytesHeld') = inFlight'
    BY Zenon, <2>1, <2>2, HeldIsCounted
  <2>4. OneOversized'
    <3> SUFFICES ASSUME Ceiling # 0, inFlight' > Ceiling PROVE FALSE
      BY Zenon DEF OneOversized
    <3>1. inFlight > Ceiling
      BY <2>1, <2>3
    <3>2. Holding = {w}
      BY Zenon, <2>1, <3>1 DEF OneOversized
    <3>3. BytesHeld' = {}
      BY Zenon, <2>2, <3>2
    <3> QED
      BY <2>3, <3>3, FS_EmptySet
  <2> QED
    BY <2>1, <2>3, <2>4 DEF GaugeTrue
<1>3. ASSUME \A w \in Writers : ~ Admit(w) /\ ~ Release(w)
      PROVE  inFlight' \in Nat /\ GaugeTrue' /\ OneOversized'
  <2>1. inFlight' = inFlight /\ Holding' = Holding /\ \A w \in Holding : me'[w].bytes = me[w].bytes
    BY Zenon, <1>3, RestHolds DEF Holding
  <2> DEFINE Was(v) == {v} \X (1 .. me[v].bytes)
             Is(v)  == {v} \X (1 .. me'[v].bytes)
  <2>2. \A v \in Holding : Is(v) = Was(v)
    BY Zenon, <2>1
  <2> HIDE DEF Was, Is
  <2>3. {Is(v) : v \in Holding'} = {Was(v) : v \in Holding}
    BY <2>1, <2>2, Zenon
  <2>4. BytesHeld' = BytesHeld
    BY Zenon, <2>3 DEF Was, Is, BytesHeld
  <2> QED
    BY Zenon, <2>1, <2>4 DEF GaugeTrue, OneOversized, Standing, TypeOK
<1> QED
  BY Zenon, <1>1, <1>2, <1>3
-----------------------------------------------------------------------------
(* The count of waiters.                                                   *)

\* The seats and the counted threads are finite, and the count is not below either.
LEMMA WaitersFinite ==
  ASSUME Standing, WaitingCounts
  PROVE  /\ IsFiniteSet(seats) /\ Cardinality(seats) \in Nat
         /\ IsFiniteSet(Counted) /\ Cardinality(Counted) \in Nat
         /\ waiting \in Nat
         /\ seats # {} \/ Counted # {} => waiting # 0
<1>1. seats \in SUBSET Pollers /\ Counted \in SUBSET Parkers
  BY Zenon DEF Standing, TypeOK, Counted
<1>2. IsFiniteSet(seats) /\ IsFiniteSet(Counted)
  BY Zenon, <1>1, WritersAssumption, FS_Subset
<1>3. Cardinality(seats) \in Nat /\ Cardinality(Counted) \in Nat
  BY Zenon, <1>2, FS_CardinalityType
<1>4. (seats # {} => Cardinality(seats) # 0) /\ (Counted # {} => Cardinality(Counted) # 0)
  BY Zenon, <1>2, FS_EmptySet
<1> QED
  BY <1>2, <1>3, <1>4 DEF WaitingCounts

\* A thread counts itself once, a future's seat is counted while it is on the list,
\* and whoever takes either off takes it off the count.
LEMMA WaitingStep ==
  ASSUME Standing, WaitingCounts, [Next]_vars
  PROVE  WaitingCounts'
<1> USE WritersAssumption
<1>0. /\ IsFiniteSet(seats) /\ Cardinality(seats) \in Nat
      /\ IsFiniteSet(Counted) /\ Cardinality(Counted) \in Nat
      /\ waiting = Cardinality(seats) + Cardinality(Counted)
  BY Zenon, WaitersFinite DEF WaitingCounts
<1>1. ASSUME waiting' = waiting, seats' = seats, Counted' = Counted
      PROVE  WaitingCounts'
  BY Zenon, <1>1 DEF WaitingCounts
<1>2. ASSUME NEW w \in Writers, Admit(w) PROVE WaitingCounts'
  <2>1. /\ Counted' = Counted \ {w} /\ seats' = seats \ {w}
        /\ waiting' = waiting - Cardinality({w} \cap seats) - (IF w \in Counted THEN 1 ELSE 0)
    BY Zenon, <1>2 DEF Admit, Vacated, Counted, Idle, Standing, TypeOK, Place, Actors, Writers
  <2>2. Cardinality(seats \ {w}) = Cardinality(seats) - Cardinality({w} \cap seats)
        /\ Cardinality({w} \cap seats) \in Nat
    BY Zenon, <1>0, OneOfFinite
  <2>3. Cardinality(Counted \ {w}) = IF w \in Counted THEN Cardinality(Counted) - 1 ELSE Cardinality(Counted)
    BY Zenon, <1>0, FS_RemoveElement
  <2> QED
    BY <1>0, <2>1, <2>2, <2>3 DEF WaitingCounts
<1>3. ASSUME NEW w \in Pollers, Drop(w) PROVE WaitingCounts'
  <2>1. /\ Counted' = Counted /\ seats' = seats \ {w}
        /\ waiting' = waiting - Cardinality({w} \cap seats)
    BY Zenon, <1>3 DEF Drop, Vacated, Counted, Idle, Standing, TypeOK, Place, Actors, Writers
  <2>2. Cardinality(seats \ {w}) = Cardinality(seats) - Cardinality({w} \cap seats)
        /\ Cardinality({w} \cap seats) \in Nat
    BY Zenon, <1>0, OneOfFinite
  <2> QED
    BY <1>0, <2>1, <2>2 DEF WaitingCounts
<1>4. ASSUME NEW w \in Writers, LookRefused(w) PROVE WaitingCounts'
  <2>1. CASE w \in Parkers
    <3>1. Counted' = Counted \cup {w} /\ w \notin Counted
      BY <1>4, <2>1 DEF LookRefused, Counted, Standing, TypeOK, Place, Actors, Writers
    <3>2. seats' = seats /\ waiting' = waiting + 1
      BY Zenon, <1>4, <2>1 DEF LookRefused, Standing, TypeOK
    <3>3. Cardinality(Counted \cup {w}) = Cardinality(Counted) + 1
      BY Zenon, <1>0, <3>1, FS_AddElement
    <3> QED
      BY <1>0, <3>1, <3>2, <3>3 DEF WaitingCounts
  <2>2. CASE w \in Pollers
    <3>1. Counted' = Counted
      BY Zenon, <1>4, <2>2 DEF LookRefused, Counted, Standing, TypeOK, Place, Actors, Writers
    <3>2. seats' = seats \cup {w} /\ waiting' = IF w \in seats THEN waiting ELSE waiting + 1
      BY Zenon, <1>4, <2>2 DEF LookRefused
    <3>3. Cardinality(seats \cup {w}) = IF w \in seats THEN Cardinality(seats) ELSE Cardinality(seats) + 1
      BY Zenon, <1>0, FS_AddElement
    <3> QED
      BY <1>0, <3>1, <3>2, <3>3 DEF WaitingCounts
  <2> QED
    BY Zenon, <2>1, <2>2 DEF Writers
<1>5. ASSUME NEW a \in Actors, Slacken(a) PROVE WaitingCounts'
  <2>1. seats' = {} /\ waiting' = waiting - Cardinality(seats)
    BY Zenon, <1>5 DEF Slacken
  <2>2. Counted' = Counted
    <3>1. me[a].pc = "slacken"
      BY Zenon, <1>5 DEF Slacken
    <3>2. \A b \in Actors : me'[b].pc = IF b = a THEN "ring" ELSE IF me[b].pc = "asleep" THEN "regate" ELSE me[b].pc
      BY <1>5, SlackenMoves, Zenon
    <3>3. Parkers \subseteq Actors
      BY Zenon DEF Actors, Writers
    <3> QED
      BY Zenon, <3>1, <3>2, <3>3 DEF Counted
  <2>3. Cardinality(seats') = 0
    BY <2>1, FS_EmptySet, ZenonT(60)
  <2> QED
    BY <1>0, <2>1, <2>2, <2>3 DEF WaitingCounts
<1>6. ASSUME NEW w \in Writers,
             Begin(w) \/ Load(w) \/ Retry(w) \/ FirstRefused(w) \/ Lock(w) \/ AgainRefused(w) \/ Release(w)
      PROVE  waiting' = waiting /\ seats' = seats /\ Counted' = Counted
  <2> USE DEF Standing, TypeOK, Place, Places, Counted, Actors, Writers
  <2>1. CASE Begin(w)
    BY <2>1 DEF Begin, Idle
  <2>2. CASE Load(w)
    <3>1. /\ \A a \in Actors : a # w => me'[a] = me[a]
          /\ me[w].pc = "again" <=> me'[w].pc = "again2"
          /\ me[w].pc \in Trying /\ me'[w].pc \in {"first2", "look2", "again2"}
      BY <2>2 DEF Load, Trying
    <3>2. Counted' = Counted
      BY Zenon, <3>1 DEF Trying
    <3> QED
      BY <2>2, <3>2, Zenon DEF Load
  <2>3. CASE Retry(w)
    BY ZenonT(60), <2>3 DEF Retry
  <2>4. CASE FirstRefused(w)
    BY ZenonT(60), <2>4 DEF FirstRefused
  <2>5. CASE Lock(w)
    BY ZenonT(60), <2>5 DEF Lock, Goes
  <2>6. CASE AgainRefused(w)
    BY <2>6 DEF AgainRefused
  <2>7. CASE Release(w)
    BY Zenon, <2>7 DEF Release, Idle
  <2> QED
    BY Zenon, <1>6, <2>1, <2>2, <2>3, <2>4, <2>5, <2>6, <2>7
<1>7. ASSUME Throttle \/ (\E a \in Actors : IsTaut(a) \/ Ring(a)) \/ UNCHANGED vars
      PROVE  waiting' = waiting /\ seats' = seats /\ Counted' = Counted
  <2> USE DEF Standing, TypeOK, Place, Places, Away, Counted, Actors, Writers
  <2>1. CASE Throttle
    BY <2>1 DEF Throttle, Goes
  <2>2. ASSUME NEW a \in Actors, IsTaut(a) PROVE waiting' = waiting /\ seats' = seats /\ Counted' = Counted
    BY SMTT(60), <2>2 DEF IsTaut, Idle
  <2>3. ASSUME NEW a \in Actors, Ring(a) PROVE waiting' = waiting /\ seats' = seats /\ Counted' = Counted
    BY ZenonT(60), <2>3 DEF Ring, Idle
  <2> QED
    BY Zenon, <1>7, <2>1, <2>2, <2>3 DEF vars
<1> QED
  BY Zenon, <1>1, <1>2, <1>3, <1>4, <1>5, <1>6, <1>7 DEF Next, WriterStep
-----------------------------------------------------------------------------
(* The wakes.                                                              *)

\* A step that leaves the gauge and everyone else alone, takes no wake back and
\* leaves its own waiter owed.
LEMMA WakesKept ==
  ASSUME RoomWakes, NEW a \in Actors, inFlight' = inFlight, throttled' = throttled,
         \A b \in Actors : b # a => me'[b] = me[b],
         \A b \in Writers : b # a /\ b \in seats' => b \in seats,
         me[a].pc \in {"slack", "slacken"} => me'[a].pc \in {"slack", "slacken"},
         a \in Writers /\ me'[a].pc = "again2" => ~ (inFlight < me'[a].held),
         a \in Writers /\ (me'[a].pc = "asleep" \/ (me'[a].pc = "pending" /\ a \in seats')) =>
           (CanAdmit(inFlight, me'[a].bytes) => Waking)
  PROVE  RoomWakes'
<1>1. Waking => Waking'
  BY Zenon DEF Waking
<1>2. ASSUME NEW x, CanAdmit(inFlight, x)' PROVE CanAdmit(inFlight, x)
  BY <1>2, Zenon DEF CanAdmit
<1>3. ASSUME NEW w \in Writers
      PROVE  /\ me'[w].pc = "again2" /\ inFlight' < me'[w].held => Waking'
             /\ me'[w].pc = "asleep" \/ (me'[w].pc = "pending" /\ w \in seats') =>
                  (CanAdmit(inFlight, me[w].bytes)' => Waking')
  <2>1. CASE w = a
    <3>1. me'[w].pc = "again2" /\ inFlight' < me'[w].held => Waking'
      BY <2>1, <1>3, Zenon
    <3>2. ASSUME me'[w].pc = "asleep" \/ (me'[w].pc = "pending" /\ w \in seats'), CanAdmit(inFlight, me[w].bytes)'
          PROVE  Waking'
      <4>1. CanAdmit(inFlight, me'[w].bytes)
        BY <3>2, Zenon DEF CanAdmit
      <4> QED
        BY <1>1, <1>3, <2>1, <3>2, <4>1, Zenon
    <3> QED
      BY <3>1, <3>2, Zenon
  <2>2. CASE w # a
    <3>1. me'[w] = me[w] /\ (w \in seats' => w \in seats)
      BY <1>3, <2>2, Zenon DEF Actors
    <3>2. /\ me[w].pc = "again2" /\ inFlight < me[w].held => Waking
          /\ me[w].pc = "asleep" \/ (me[w].pc = "pending" /\ w \in seats) =>
               (CanAdmit(inFlight, me[w].bytes) => Waking)
      BY <1>3, Zenon DEF RoomWakes
    <3>3. CanAdmit(inFlight, me[w].bytes)' => CanAdmit(inFlight, me[w].bytes)
      BY <3>1, Zenon DEF CanAdmit
    <3> QED
      BY <1>1, <3>1, <3>2, <3>3, Zenon
  <2> QED
    BY Zenon, <2>1, <2>2
<1> QED
  BY <1>3, Zenon DEF RoomWakes

\* Whoever makes room owes a wake until it has been through the gate, which a
\* waiter holds from its last look until it sleeps.
LEMMA WakesStep ==
  ASSUME Standing, WaitingCounts, RoomWakes, [Next]_vars, Standing', inFlight' \in Nat
  PROVE  RoomWakes'
<1>0. /\ me \in [Actors -> Place] /\ inFlight \in Nat /\ throttled \in Nat
      /\ \A w \in Writers : w \in Actors /\ me[w] \in Place /\ me[w].bytes \in Nat /\ me[w].held \in Nat
  <2>1. me \in [Actors -> Place] /\ inFlight \in Nat /\ throttled \in Nat
    BY CeilingAssumption DEF Standing, TypeOK
  <2>2. ASSUME NEW w \in Writers PROVE w \in Actors /\ me[w] \in Place
    BY <2>1, <2>2, Zenon DEF Actors
  <2>3. ASSUME NEW w \in Writers PROVE me[w].bytes \in Nat /\ me[w].held \in Nat
    BY Zenon, <2>2, <2>3 DEF Place
  <2> QED
    BY Zenon, <2>1, <2>2, <2>3
<1>1. ASSUME NEW w \in Writers, Begin(w) PROVE RoomWakes'
  <2>1. PICK b \in Sizes :
          me' = [me EXCEPT ![w] = [Idle EXCEPT !.bytes = b, !.pc = IF w \in Parkers THEN "first" ELSE "poll"]]
    BY <1>1, Zenon DEF Begin
  <2>2. me[w].pc = "idle" /\ me'[w].pc \in {"first", "poll"} /\ \A a \in Actors : a # w => me'[a] = me[a]
    BY Zenon, <1>0, <1>1, <2>1 DEF Begin, Idle
  <2>3. UNCHANGED <<inFlight, throttled, seats>>
    BY <1>1, Zenon DEF Begin
  <2> QED
    BY Zenon, <1>0, <1>1, <2>2, <2>3, WakesKept
<1>2. ASSUME NEW w \in Writers, Load(w) PROVE RoomWakes'
  <2>1. /\ me[w].pc \in Trying /\ me'[w].pc \in {"first2", "look2", "again2"} /\ me'[w].held = inFlight
        /\ \A a \in Actors : a # w => me'[a] = me[a]
    BY <1>0, <1>2 DEF Load, Trying, Place
  <2>2. UNCHANGED <<inFlight, throttled, seats>>
    BY <1>2, Zenon DEF Load
  <2>3. /\ ~ (inFlight < me'[w].held) /\ me[w].pc \notin {"slack", "slacken"}
        /\ me'[w].pc # "asleep" /\ me'[w].pc # "pending"
    BY <1>0, <2>1 DEF Trying
  <2> QED
    BY <1>0, <1>2, <2>1, <2>2, <2>3, WakesKept, Zenon
<1>3. ASSUME NEW w \in Writers, Retry(w) PROVE RoomWakes'
  <2>1. /\ me[w].pc \in {"first2", "look2", "again2"} /\ me'[w].pc = me[w].pc /\ me'[w].held = inFlight
        /\ \A a \in Actors : a # w => me'[a] = me[a]
    BY Zenon, <1>0, <1>3 DEF Retry, Place
  <2>2. UNCHANGED <<inFlight, throttled, seats>>
    BY <1>3, Zenon DEF Retry
  <2>3. /\ ~ (inFlight < me'[w].held) /\ me[w].pc \notin {"slack", "slacken"}
        /\ me'[w].pc # "asleep" /\ me'[w].pc # "pending"
    BY <1>0, <2>1
  <2> QED
    BY <1>0, <1>3, <2>1, <2>2, <2>3, WakesKept, Zenon
<1>4. ASSUME NEW w \in Writers, Admit(w) PROVE RoomWakes'
  <2>1. /\ me[w].pc \in {"first2", "look2", "again2"} /\ me'[w].pc = "holding"
        /\ \A a \in Actors : a # w => me'[a] = me[a]
    BY Zenon, <1>0, <1>4 DEF Admit, Idle
  <2>2. inFlight' = inFlight + me[w].bytes /\ throttled' = throttled /\ seats' \subseteq seats
    BY Zenon, <1>4 DEF Admit
  <2>3. Waking => Waking'
    BY <1>0, <2>1, Zenon DEF Waking
  <2>4. me[w].bytes > 0
    BY Zenon, <1>4, <2>1 DEF Standing, Places, Away
  <2>5. inFlight < inFlight' /\ inFlight' \in Nat
    BY <1>0, <1>4, <2>2, <2>4
  <2>6. ASSUME NEW b \in Writers
        PROVE  /\ me'[b].pc = "again2" /\ inFlight' < me'[b].held => Waking'
               /\ me'[b].pc = "asleep" \/ (me'[b].pc = "pending" /\ b \in seats') =>
                    (CanAdmit(inFlight, me[b].bytes)' => Waking')
    <3>1. CASE b = w
      BY Zenon, <2>1, <3>1
    <3>2. CASE b # w
      <4>1. me'[b] = me[b]
        BY <1>0, <2>1, <2>6, <3>2, Zenon
      <4>2. inFlight' < me[b].held => inFlight < me[b].held
        BY <1>0, <2>5, <2>6
      <4>3. CanAdmit(inFlight, me[b].bytes)' => CanAdmit(inFlight, me[b].bytes)
        BY <1>0, <2>2, <2>5, <2>6, <4>1 DEF CanAdmit
      <4> QED
        BY <2>2, <2>3, <2>6, <4>1, <4>2, <4>3, Zenon DEF RoomWakes
    <3> QED
      BY Zenon, <3>1, <3>2
  <2> QED
    BY <2>6, Zenon DEF RoomWakes
<1>5. ASSUME NEW w \in Writers, FirstRefused(w) PROVE RoomWakes'
  <2>1. me[w].pc = "first2" /\ me'[w].pc = "gate" /\ \A a \in Actors : a # w => me'[a] = me[a]
    BY Zenon, <1>0, <1>5 DEF FirstRefused, Place
  <2>2. UNCHANGED <<inFlight, throttled, seats>>
    BY <1>5, Zenon DEF FirstRefused
  <2> QED
    BY Zenon, <1>0, <1>5, <2>1, <2>2, WakesKept
<1>6. ASSUME NEW w \in Writers, Lock(w) PROVE RoomWakes'
  <2>1. /\ me[w].pc \in {"gate", "regate", "poll", "pending"} /\ me'[w].pc \in {"again", "look"}
        /\ \A a \in Actors : a # w => me'[a] = me[a]
    BY Zenon, <1>0, <1>6 DEF Lock, Goes, Place
  <2>2. UNCHANGED <<inFlight, throttled, seats>>
    BY <1>6, Zenon DEF Lock
  <2> QED
    BY Zenon, <1>0, <1>6, <2>1, <2>2, WakesKept
<1>7. ASSUME NEW w \in Writers, LookRefused(w) PROVE RoomWakes'
  <2>1. me[w].pc = "look2" /\ me'[w].pc = "again" /\ \A a \in Actors : a # w => me'[a] = me[a]
    BY Zenon, <1>0, <1>7 DEF LookRefused, Place
  <2>2. UNCHANGED <<inFlight, throttled>> /\ seats' \subseteq seats \cup {w}
    BY Zenon, <1>7 DEF LookRefused
  <2> QED
    BY Zenon, <1>0, <1>7, <2>1, <2>2, WakesKept
<1>8. ASSUME NEW w \in Writers, AgainRefused(w) PROVE RoomWakes'
  <2>1. /\ me[w].pc = "again2" /\ me'[w].pc \in {"asleep", "pending"} /\ me'[w].bytes = me[w].bytes
        /\ \A a \in Actors : a # w => me'[a] = me[a]
    BY Zenon, <1>0, <1>8 DEF AgainRefused, Place
  <2>2. UNCHANGED <<inFlight, throttled, seats>> /\ ~ CanAdmit(me[w].held, me[w].bytes)
    BY <1>8, Zenon DEF AgainRefused, Refused
  <2>3. inFlight < me[w].held => Waking
    BY <1>8, <2>1, Zenon DEF RoomWakes
  <2>4. CanAdmit(inFlight, me[w].bytes) => inFlight < me[w].held
    BY <1>0, <1>8, <2>2 DEF CanAdmit
  <2>5. me[w].pc \notin {"slack", "slacken"} /\ me'[w].pc # "again2"
    BY Zenon, <2>1
  <2> QED
    BY <1>0, <1>8, <2>1, <2>2, <2>3, <2>4, <2>5, WakesKept, Zenon
<1>9. ASSUME NEW w \in Writers, Release(w) PROVE RoomWakes'
  <2>1. me'[w].pc = "slack"
    BY Zenon, <1>0, <1>9 DEF Release, Idle
  <2>2. Waking'
    BY Zenon, <1>0, <1>9, <2>1 DEF Waking
  <2> QED
    BY <2>2, Zenon DEF RoomWakes
<1>10. ASSUME NEW w \in Pollers, Drop(w) PROVE RoomWakes'
  <2>0. w \in Writers /\ w \in Actors
    BY <1>10, Zenon DEF Writers, Actors
  <2>1. me[w].pc = "pending" /\ me'[w].pc = "idle" /\ \A a \in Actors : a # w => me'[a] = me[a]
    BY Zenon, <1>0, <1>10, <2>0 DEF Drop, Idle
  <2>2. UNCHANGED <<inFlight, throttled>> /\ seats' \subseteq seats
    BY Zenon, <1>10 DEF Drop
  <2> QED
    BY Zenon, <2>0, <2>1, <2>2, WakesKept
<1>11. ASSUME Throttle PROVE RoomWakes'
  <2>0. Tick \in Actors /\ Tick \notin Writers
    BY WritersAssumption, Zenon DEF Actors
  <2>1. /\ \A b \in Actors : b # Tick => me'[b] = me[b]
        /\ me[Tick].pc = "idle" /\ me'[Tick].pc = IF throttled < throttled' THEN "slack" ELSE "idle"
    BY Zenon, <1>0, <1>11, <2>0 DEF Throttle, Goes, Place
  <2>2. UNCHANGED <<inFlight, seats>> /\ throttled' \in Nat
    BY <1>11, CeilingAssumption DEF Throttle, Standing, TypeOK
  <2>3. CASE throttled < throttled'
    <3>1. Waking'
      BY Zenon, <2>0, <2>1, <2>3 DEF Waking
    <3> QED
      BY <3>1, Zenon DEF RoomWakes
  <2>4. CASE ~ (throttled < throttled')
    <3>1. Waking => Waking'
      <4>1. ASSUME NEW b \in Actors, me[b].pc \in {"slack", "slacken"} PROVE b # Tick
        BY Zenon, <2>1, <4>1
      <4> QED
        BY <2>1, <4>1, Zenon DEF Waking
    <3>2. ASSUME NEW w \in Writers
          PROVE  /\ me'[w] = me[w]
                 /\ CanAdmit(inFlight, me[w].bytes)' => CanAdmit(inFlight, me[w].bytes)
      <4>1. me'[w] = me[w]
        BY <1>0, <2>0, <2>1, <3>2, Zenon
      <4>2. CanAdmit(inFlight, me[w].bytes)' => CanAdmit(inFlight, me[w].bytes)
        BY <1>0, <2>2, <2>4, <3>2, <4>1 DEF CanAdmit
      <4> QED
        BY Zenon, <4>1, <4>2
    <3> QED
      BY <2>2, <3>1, <3>2, ZenonT(60) DEF RoomWakes
  <2> QED
    BY Zenon, <2>3, <2>4
<1>12. ASSUME NEW a \in Actors, IsTaut(a) PROVE RoomWakes'
  <2>1. /\ me[a].pc = "slack" /\ \A b \in Actors : b # a => me'[b] = me[b]
        /\ me'[a].pc = IF waiting # 0 THEN "slacken" ELSE "idle"
    BY Zenon, <1>0, <1>12 DEF IsTaut, Idle, Place
  <2>2. UNCHANGED <<inFlight, throttled, seats>>
    BY <1>12, Zenon DEF IsTaut
  <2>3. CASE waiting # 0
    BY Zenon, <1>12, <2>1, <2>2, <2>3, WakesKept
  <2>4. CASE waiting = 0
    <3>1. seats = {} /\ Counted = {}
      BY Zenon, <2>4, WaitersFinite
    <3>2. ASSUME NEW w \in Writers PROVE me'[w].pc # "again2" /\ me'[w].pc # "asleep"
      <4>1. CASE w = a
        BY Zenon, <2>1, <2>4, <4>1
      <4>2. CASE w # a
        <5>1. me'[w] = me[w]
          BY <1>0, <2>1, <3>2, <4>2, Zenon
        <5>2. w \in Parkers => me[w].pc # "again2" /\ me[w].pc # "asleep"
          BY Zenon, <3>1 DEF Counted
        <5>3. w \in Pollers => me[w].pc # "again2"
          BY Zenon, <3>1 DEF Standing, Seated, SeatOf
        <5>4. me[w].pc = "asleep" => w \in Parkers
          BY Zenon, <3>2 DEF Standing, Places
        <5> QED
          BY <3>2, <5>1, <5>2, <5>3, <5>4, Zenon DEF Writers
      <4> QED
        BY Zenon, <4>1, <4>2
    <3> QED
      BY <2>2, <3>1, <3>2, Zenon DEF RoomWakes
  <2> QED
    BY Zenon, <2>3, <2>4
<1>13. ASSUME NEW a \in Actors, Slacken(a) PROVE RoomWakes'
  <2>1. seats' = {} /\ gate = NoOne /\ me[a].pc = "slacken"
    BY <1>13, Zenon DEF Slacken
  <2>2. \A b \in Actors : me'[b].pc = IF b = a THEN "ring" ELSE IF me[b].pc = "asleep" THEN "regate" ELSE me[b].pc
    BY <1>13, SlackenMoves, Zenon
  <2>3. ASSUME NEW w \in Writers PROVE me'[w].pc # "asleep" /\ me'[w].pc # "again2"
    <3>1. w # NoOne
      BY <2>3, WritersAssumption, Zenon
    <3>2. me[w].pc # "again2"
      BY Zenon, <2>1, <2>3, <3>1 DEF Standing, GateHeld, Gated
    <3> QED
      BY Zenon, <1>0, <2>2, <2>3, <3>2
  <2> QED
    BY <2>1, <2>3, Zenon DEF RoomWakes
<1>14. ASSUME NEW a \in Actors, Ring(a) PROVE RoomWakes'
  <2>1. me[a].pc = "ring" /\ me'[a].pc = "idle" /\ \A b \in Actors : b # a => me'[b] = me[b]
    BY Zenon, <1>0, <1>14 DEF Ring, Idle
  <2>2. UNCHANGED <<inFlight, throttled, seats>>
    BY <1>14, Zenon DEF Ring
  <2> QED
    BY Zenon, <1>14, <2>1, <2>2, WakesKept
<1>15. CASE UNCHANGED vars
  BY <1>15, ZenonT(60) DEF vars, RoomWakes, Waking, CanAdmit
<1> QED
  BY <1>1, <1>2, <1>3, <1>4, <1>5, <1>6, <1>7, <1>8, <1>9, <1>10, <1>11, <1>12, <1>13, <1>14, <1>15, Zenon
  DEF Next, WriterStep
-----------------------------------------------------------------------------
(* The theorems.                                                           *)

\* The gauge and the list start empty.
LEMMA BudgetInit == Init => BudgetInv
<1> SUFFICES ASSUME Init PROVE BudgetInv
  BY Zenon
<1>1. Standing
  BY Zenon, StandingInit
<1>2. Holding = {} /\ BytesHeld = {} /\ Counted = {} /\ seats = {}
  BY Zenon DEF Init, Idle, Holding, BytesHeld, Counted, Actors, Writers
<1>3. IsFiniteSet(BytesHeld) /\ Cardinality(BytesHeld) = 0 /\ Cardinality(Counted) = 0 /\ Cardinality(seats) = 0
  BY <1>2, FS_EmptySet, Zenon
<1>4. WaitingCounts /\ GaugeTrue /\ OneOversized
  BY SMTT(60), <1>3, CeilingAssumption DEF Init, WaitingCounts, GaugeTrue, OneOversized
<1>5. RoomWakes
  BY Zenon DEF Init, Idle, RoomWakes, Actors, Writers
<1> QED
  BY Zenon, <1>1, <1>4, <1>5 DEF BudgetInv, Standing

\* Every step keeps the budget.
LEMMA BudgetNext == BudgetInv /\ [Next]_vars => BudgetInv'
<1> SUFFICES ASSUME BudgetInv, [Next]_vars PROVE BudgetInv'
  BY Zenon
<1>1. Standing /\ WaitingCounts /\ RoomWakes /\ GaugeTrue /\ OneOversized
  BY Zenon DEF BudgetInv, Standing
<1>2. inFlight' \in Nat /\ GaugeTrue' /\ OneOversized'
  BY Zenon, <1>1, GaugeStep
<1>3. Standing'
  <2>1. CASE UNCHANGED vars
    BY Zenon, <1>1, <2>1 DEF vars, Standing, TypeOK, Places, GateHeld, Seated, SeatOf
  <2> QED
    BY Zenon, <1>1, <1>2, <2>1, WriterKeepsStanding, WakersKeepStanding DEF Next
<1>4. WaitingCounts' /\ RoomWakes'
  BY Zenon, <1>1, <1>2, <1>3, WaitingStep, WakesStep
<1> QED
  BY Zenon, <1>2, <1>3, <1>4 DEF BudgetInv, Standing

\* The gauge is the bytes of the records in flight whatever the writers, and past
\* the ceiling one record is in flight alone.
THEOREM BudgetIsHeld == Spec => []BudgetHolds
<1>1. BudgetInv => BudgetHolds
  <2> SUFFICES ASSUME GaugeTrue, OneOversized PROVE BudgetHolds
    BY Zenon DEF BudgetInv
  <2>1. ASSUME NEW w \in Writers, Holding = {w} PROVE Cardinality(Holding) = 1
    BY <2>1, FS_Singleton, Zenon
  <2> QED
    BY Zenon, <2>1 DEF GaugeTrue, OneOversized, BudgetHolds
<1> QED
  BY <1>1, BudgetInit, BudgetNext, PTL DEF Spec

\* The count a releaser reads is the threads counted in and the seats on the list.
THEOREM WaitersAreCounted == Spec => []WaitingCounts
<1>1. BudgetInv => WaitingCounts
  BY Zenon DEF BudgetInv
<1> QED
  BY <1>1, BudgetInit, BudgetNext, PTL DEF Spec

\* No wake is lost: a waiter that could be admitted is not left asleep.
THEOREM NoWakeIsLost == Spec => []SleepersAreOwed
<1>1. BudgetInv => SleepersAreOwed
  BY Zenon DEF BudgetInv, SleepersAreOwed, RoomWakes, Waking, Seated, SeatOf, Places, Writers, Actors
<1> QED
  BY <1>1, BudgetInit, BudgetNext, PTL DEF Spec
=============================================================================
