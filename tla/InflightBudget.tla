--------------------------- MODULE InflightBudget ---------------------------
(***************************************************************************)
(* A volume's byte budget (append/admission.rs) and the waitlist under it   *)
(* (sync/tension.rs), which parks threads and futures on one condition.     *)
(* The bytes in flight, the ceiling and the count of waiters are atomics    *)
(* read outside the gate; one action is one access to one of them, or what  *)
(* runs between two of them under the gate.                                 *)
(***************************************************************************)
EXTENDS Integers, FiniteSets

CONSTANTS
  Parkers,   \* writers that acquire and block
  Pollers,   \* writers that reserve and await, and may drop the future
  Tick,      \* the maintenance tick, which throttles
  Sizes,     \* bytes a record may take
  Ceiling,   \* the configured ceiling, zero for unbounded
  Shares,    \* the ceilings a throttle may set
  NoOne

ASSUME SizesAssumption == Sizes \subseteq Nat \ {0}
ASSUME CeilingAssumption == Ceiling \in Nat /\ Shares \subseteq 0 .. Ceiling

Writers == Parkers \cup Pollers
Actors  == Writers \cup {Tick}

\* A writer blocks or awaits, and there are finitely many; the tick never acquires.
ASSUME WritersAssumption ==
  /\ IsFiniteSet(Parkers) /\ IsFiniteSet(Pollers)
  /\ Parkers \cap Pollers = {}
  /\ Tick \notin Writers /\ NoOne \notin Writers

VARIABLES
  inFlight, throttled,
  waiting,   \* Tension.waiting
  gate,      \* who holds Tension.gate, or NoOne
  seats,     \* the pollers with a seat on the list
  rung,      \* the pollers whose waker was rung since their last poll
  me         \* each actor's place

vars == <<inFlight, throttled, waiting, gate, seats, rung, me>>

\* held: the bytes in flight it loaded; ring: wakers it took off the list.
Idle == [pc |-> "idle", bytes |-> 0, held |-> 0, ring |-> {}]

Init ==
  /\ inFlight = 0 /\ throttled = Ceiling /\ waiting = 0
  /\ gate = NoOne /\ seats = {} /\ rung = {}
  /\ me = [a \in Actors |-> Idle]

Goes(a, pc) == me' = [me EXCEPT ![a].pc = pc]

\* Faulty: room is judged before the record is added.
CanAdmitThrottled(held, bytes) == Ceiling = 0 \/ held < throttled

\* An empty budget always admits, and so does one without a ceiling.
CanAdmit(held, bytes) == Ceiling = 0 \/ held = 0 \/ held + bytes <= throttled

-----------------------------------------------------------------------------
(* try_acquire, outside the gate ("first") or under it ("look", "again").   *)

\* acquire tries once before it parks; reserve polls.
Begin(w) ==
  /\ me[w].pc = "idle"
  /\ \E b \in Sizes :
       me' = [me EXCEPT ![w] = [Idle EXCEPT !.bytes = b, !.pc = IF w \in Parkers THEN "first" ELSE "poll"]]
  /\ UNCHANGED <<inFlight, throttled, waiting, gate, seats, rung>>

Trying == {"first", "look", "again"}

Load(w) ==
  /\ me[w].pc \in Trying
  /\ me' = [me EXCEPT ![w].held = inFlight, ![w].pc = [first |-> "first2", look |-> "look2", again |-> "again2"][@]]
  /\ UNCHANGED <<inFlight, throttled, waiting, gate, seats, rung>>

\* Another writer moved the count between the load and the swap: look again.
Retry(w) ==
  /\ me[w].pc \in {"first2", "look2", "again2"}
  /\ CanAdmit(me[w].held, me[w].bytes)
  /\ inFlight # me[w].held
  /\ me' = [me EXCEPT ![w].held = inFlight]
  /\ UNCHANGED <<inFlight, throttled, waiting, gate, seats, rung>>

\* Faulty: the count falls though the wake took the seat and counted it.
VacatedTwice(w) == IF w \in Pollers THEN waiting - 1 ELSE waiting

\* The seat goes, if a wake has not taken it already (vacate).
Vacated(w) == waiting - Cardinality({w} \cap seats)

\* A thread has counted itself in from its second look on.
Counted == {w \in Parkers : me[w].pc \in {"again", "again2", "asleep", "regate"}}

\* The bytes are taken.  Under the gate, the waiter counts itself out as well.
Admit(w) ==
  /\ me[w].pc \in {"first2", "look2", "again2"}
  /\ CanAdmit(me[w].held, me[w].bytes)
  /\ inFlight = me[w].held
  /\ inFlight' = inFlight + me[w].bytes
  /\ waiting' = Vacated(w) - (IF w \in Counted THEN 1 ELSE 0)
  /\ seats' = seats \ {w}
  /\ rung' = rung \ {w}
  /\ gate' = IF gate = w THEN NoOne ELSE gate
  /\ me' = [me EXCEPT ![w] = [Idle EXCEPT !.pc = "holding", !.bytes = me[w].bytes]]
  /\ UNCHANGED throttled

Refused(w) == ~ CanAdmit(me[w].held, me[w].bytes)

-----------------------------------------------------------------------------
(* Tension::park and Wait::poll.                                           *)

FirstRefused(w) ==
  /\ me[w].pc = "first2" /\ Refused(w)
  /\ me' = [me EXCEPT ![w].pc = "gate", ![w].held = 0]
  /\ UNCHANGED <<inFlight, throttled, waiting, gate, seats, rung>>

\* The gate is taken by a thread that parks or was notified, or by a poll.  A poll
\* comes first of all, after a wake, or for the executor's own reasons.
Lock(w) ==
  /\ me[w].pc \in {"gate", "regate", "poll", "pending"}
  /\ gate = NoOne
  /\ gate' = w
  /\ rung' = rung \ {w}
  /\ Goes(w, IF me[w].pc = "regate" THEN "again" ELSE "look")
  /\ UNCHANGED <<inFlight, throttled, waiting, seats>>

\* Faulty: the waiter counts itself only as it goes to sleep.
LookRefusedUncounted(w) ==
  /\ me[w].pc = "look2" /\ Refused(w)
  /\ gate' = NoOne
  /\ seats' = IF w \in Pollers THEN seats \cup {w} ELSE seats
  /\ waiting' = IF w \in seats THEN waiting ELSE waiting + 1
  /\ me' = [me EXCEPT ![w].held = 0, ![w].pc = IF w \in Parkers THEN "asleep" ELSE "pending"]
  /\ UNCHANGED <<inFlight, throttled, rung>>

\* Count up, or leave a seat, and ask again with that in place.
LookRefused(w) ==
  /\ me[w].pc = "look2" /\ Refused(w)
  /\ seats' = IF w \in Pollers THEN seats \cup {w} ELSE seats
  /\ waiting' = IF w \in seats THEN waiting ELSE waiting + 1
  /\ me' = [me EXCEPT ![w].pc = "again", ![w].held = 0]
  /\ UNCHANGED <<inFlight, throttled, gate, rung>>

\* Sleep on the condition variable, or return pending; either lets the gate go.
AgainRefused(w) ==
  /\ me[w].pc = "again2" /\ Refused(w)
  /\ gate' = NoOne
  /\ me' = [me EXCEPT ![w].held = 0, ![w].pc = IF w \in Parkers THEN "asleep" ELSE "pending"]
  /\ UNCHANGED <<inFlight, throttled, waiting, seats, rung>>

\* The caller drops the future, woken or not.
Drop(w) ==
  /\ me[w].pc = "pending"
  /\ gate = NoOne
  /\ waiting' = Vacated(w)
  /\ seats' = seats \ {w}
  /\ rung' = rung \ {w}
  /\ me' = [me EXCEPT ![w] = Idle]
  /\ UNCHANGED <<inFlight, throttled, gate>>

-----------------------------------------------------------------------------
(* release and throttle, and the slack both end in.                        *)

Release(w) ==
  /\ me[w].pc = "holding"
  /\ inFlight' = inFlight - me[w].bytes
  /\ me' = [me EXCEPT ![w] = [Idle EXCEPT !.pc = "slack"]]
  /\ UNCHANGED <<throttled, waiting, gate, seats, rung>>

\* Faulty: a raised ceiling wakes nobody.
ThrottleQuietly ==
  /\ me[Tick].pc = "idle" /\ Ceiling # 0
  /\ throttled' \in Shares
  /\ UNCHANGED <<inFlight, waiting, gate, seats, rung, me>>

Throttle ==
  /\ me[Tick].pc = "idle" /\ Ceiling # 0
  /\ throttled' \in Shares
  /\ Goes(Tick, IF throttled < throttled' THEN "slack" ELSE "idle")
  /\ UNCHANGED <<inFlight, waiting, gate, seats, rung>>

\* is_taut, outside the gate
IsTaut(a) ==
  /\ me[a].pc = "slack"
  /\ me' = [me EXCEPT ![a] = IF waiting # 0 THEN [@ EXCEPT !.pc = "slacken"] ELSE Idle]
  /\ UNCHANGED <<inFlight, throttled, waiting, gate, seats, rung>>

\* Under the gate: notify every thread, take every seat.
Slacken(a) ==
  /\ me[a].pc = "slacken"
  /\ gate = NoOne
  /\ waiting' = waiting - Cardinality(seats)
  /\ seats' = {}
  /\ me' = [b \in Actors |->
       IF b = a THEN [me[b] EXCEPT !.pc = "ring", !.ring = seats]
       ELSE IF me[b].pc = "asleep" THEN [me[b] EXCEPT !.pc = "regate"]
       ELSE me[b]]
  /\ UNCHANGED <<inFlight, throttled, gate, rung>>

\* The wakers are rung outside it; one whose future is gone or is
\* being polled rings nobody.
Ring(a) ==
  /\ me[a].pc = "ring"
  /\ rung' = rung \cup {w \in me[a].ring : me[w].pc = "pending"}
  /\ me' = [me EXCEPT ![a] = Idle]
  /\ UNCHANGED <<inFlight, throttled, waiting, gate, seats>>

WriterStep(w) ==
  \/ Begin(w) \/ Load(w) \/ Retry(w) \/ Admit(w) \/ FirstRefused(w) \/ Lock(w)
  \/ LookRefused(w) \/ AgainRefused(w) \/ Release(w)

Next ==
  \/ \E w \in Writers : WriterStep(w)
  \/ \E w \in Pollers : Drop(w)
  \/ Throttle
  \/ \E a \in Actors : IsTaut(a) \/ Slacken(a) \/ Ring(a)

Spec == Init /\ [][Next]_vars

-----------------------------------------------------------------------------
(* Properties.                                                             *)

Holding   == {w \in Writers : me[w].pc = "holding"}
BytesHeld == UNION {{w} \X (1 .. me[w].bytes) : w \in Holding}

\* The gauge counts the bytes of the records in flight, and past the configured
\* ceiling there is never more than one of them (can_admit).
BudgetHolds ==
  /\ inFlight = Cardinality(BytesHeld)
  /\ Ceiling # 0 /\ inFlight > Ceiling => Cardinality(Holding) = 1

\* A waiter that could be admitted now is not left asleep: whoever made the room is
\* still on its way to wake it (the race between park's count and slack's look).
SleepersAreOwed ==
  \A w \in Writers :
    /\ me[w].pc = "asleep" \/ (me[w].pc = "pending" /\ w \notin rung)
    /\ CanAdmit(inFlight, me[w].bytes)
    => \E a \in Actors : me[a].pc \in {"slack", "slacken"} \/ w \in me[a].ring

\* The count a releaser reads is exactly the threads counted in and the seats on the
\* list, however wakes, drops and repeated polls interleave.
WaitingCounts ==
  waiting = Cardinality(seats) + Cardinality(Counted)
=============================================================================
