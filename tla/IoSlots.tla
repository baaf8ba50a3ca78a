------------------------------- MODULE IoSlots -------------------------------
(***************************************************************************)
(* The completion slots of one I/O driver (io/slots.rs) and the callers     *)
(* that wait in them (reel/segment.rs): futures that claim, submit and      *)
(* await, with an engine thread or a poll filing what the backend answers,  *)
(* and blocking threads that claim a run, submit it and pump.  A tag's low  *)
(* bits pick its slot, so two tags a table apart share one.  One action is  *)
(* one lock section; the condition variable only shortens a wait that       *)
(* rechecks by itself every 200 microseconds, and is left out.              *)
(***************************************************************************)
EXTENDS Integers, Sequences, FiniteSets

CONSTANTS
  Tasks,       \* futures, polled by an executor and dropped at will
  Threads,     \* blocking callers, on a backend that does not answer in line
  Engine,      \* the thread that files what a ring answers
  SlotCount,   \* the width of the table
  BatchSlots,  \* the most ops one batch asks for
  NoOne

Actors == Tasks \cup Threads \cup {Engine}
Slots  == 0 .. SlotCount - 1

VARIABLES
  serving,   \* "engine": a ring's engine files; "polled": a caller's poll does
  slots, nextTag,
  device,    \* tags submitted and not yet answered
  ready,     \* tags answered and not yet filed
  polling,   \* who holds the drain turn
  claims,    \* the tasks whose wakers wait for any slot to come free
  batching,  \* who holds the lock that serialises batches
  rung,      \* the tasks woken since they were last polled
  kept,      \* tags the engine took though their caller was told it failed
  me         \* each caller's place

vars == <<serving, slots, nextTag, device, ready, polling, claims, batching, rung, kept, me>>

Empty == [tag |-> 0, state |-> "free", done |-> 0, waker |-> NoOne]

\* wanted: the batch's tags; held: how many of them are claimed; at: the tag
\* a loop has come to; got: what each tag came back with, a tag itself;
\* second: whether this is the look after the last; moved: completions still
\* to file; owes: one of them freed a slot; freed: the claims are to be rung.
Idle == [pc |-> "idle", wanted |-> <<>>, held |-> 0, at |-> 1, got |-> <<>>,
         second |-> FALSE, moved |-> {}, drained |-> FALSE, owes |-> FALSE, freed |-> FALSE]

\* Tags start one past zero here: zero stands for no completion.
Init ==
  /\ serving \in {"engine", "polled"}
  /\ slots = [s \in Slots |-> Empty]
  /\ nextTag = 1
  /\ device = {} /\ ready = {}
  /\ polling = NoOne /\ claims = {} /\ batching = NoOne /\ rung = {} /\ kept = {}
  /\ me = [a \in Actors |-> Idle]

IndexOf(tag) == tag % SlotCount
SlotOf(tag)  == slots[IndexOf(tag)]

\* A caller rings the claims before its next step.
At(a, pc) == me[a].pc = pc /\ ~ me[a].freed
Wanted(a) == me[a].wanted[me[a].at]
Free(s)   == [s EXCEPT !.state = "free", !.done = 0, !.waker = NoOne]

\* signal and ring_claims: every waker on the list is taken and woken.
RingClaims(a) ==
  /\ me[a].freed
  /\ rung' = rung \cup claims
  /\ claims' = {}
  /\ me' = [me EXCEPT ![a].freed = FALSE]
  /\ UNCHANGED <<serving, kept, slots, nextTag, device, ready, polling, batching>>

-----------------------------------------------------------------------------
(* Claiming.                                                                *)

\* An op is built, which draws its tag; a batch draws one after another, and
\* other callers draw in between.
Build(a) ==
  /\ At(a, "idle") \/ At(a, "build")
  /\ a \in Threads => serving = "polled"
  /\ Len(me[a].wanted) < BatchSlots
  /\ nextTag' = nextTag + 1
  /\ me' = [me EXCEPT ![a].pc = "build", ![a].wanted = Append(@, nextTag), ![a].got = Append(@, 0)]
  /\ UNCHANGED <<serving, kept, slots, device, ready, polling, claims, batching, rung>>

\* wait_op and wait_batch, or run_op and run_into.
Go(a) ==
  /\ At(a, "build")
  /\ rung' = rung \ {a}
  /\ me' = [me EXCEPT ![a].pc = IF a \in Tasks THEN "turn" ELSE "claim"]
  /\ UNCHANGED <<serving, kept, slots, nextTag, device, ready, polling, claims, batching>>

\* claim_all: only a batch takes the lock.
TakeTurn(t) ==
  /\ At(t, "turn")
  /\ \/ Len(me[t].wanted) < 2 /\ UNCHANGED batching
     \/ Len(me[t].wanted) >= 2 /\ batching = NoOne /\ batching' = t
  /\ me' = [me EXCEPT ![t].pc = "claim"]
  /\ UNCHANGED <<serving, kept, slots, nextTag, device, ready, polling, claims, rung>>

\* The slot of the next tag, taken if it is free.  A task asks for all of its
\* tags, a thread for as many as come.
TryClaim(a) ==
  LET tag == me[a].wanted[me[a].held + 1]
      all == me[a].held + 1 = Len(me[a].wanted) IN
  /\ At(a, "claim")
  /\ SlotOf(tag).state = "free"
  /\ slots' = [slots EXCEPT ![IndexOf(tag)] = [@ EXCEPT !.tag = tag, !.state = "flight"]]
  /\ batching' = IF all /\ batching = a THEN NoOne ELSE batching
  /\ me' = [me EXCEPT ![a].held = @ + 1,
                      ![a].pc = IF ~ all THEN @ ELSE IF a \in Tasks THEN "claimed" ELSE "submit"]
  /\ UNCHANGED <<serving, kept, nextTag, device, ready, polling, claims, rung>>

ClaimRefused(a) ==
  /\ At(a, "claim")
  /\ SlotOf(me[a].wanted[me[a].held + 1]).state # "free"

Refused(t) ==
  /\ t \in Tasks /\ ClaimRefused(t)
  /\ me' = [me EXCEPT ![t].pc = "rollback"]
  /\ UNCHANGED <<serving, kept, slots, nextTag, device, ready, polling, claims, batching, rung>>

\* claim_whole gives back what it took, slot by slot, and rings nobody.
Rollback(t) ==
  /\ At(t, "rollback")
  /\ IF me[t].at <= me[t].held
     THEN /\ slots' = [slots EXCEPT ![IndexOf(Wanted(t))] = Free(@)]
          /\ me' = [me EXCEPT ![t].at = @ + 1]
          /\ UNCHANGED batching
     ELSE /\ batching' = IF batching = t THEN NoOne ELSE batching
          /\ me' = [me EXCEPT ![t].at = 1, ![t].held = 0, ![t].pc = IF me[t].second THEN "asleep" ELSE "seat"]
          /\ UNCHANGED slots
  /\ UNCHANGED <<serving, kept, nextTag, device, ready, polling, claims, rung>>

\* Claim::poll leaves its waker and asks again.
SeatClaim(t) ==
  /\ At(t, "seat")
  /\ claims' = claims \cup {t}
  /\ me' = [me EXCEPT ![t].pc = "turn", ![t].second = TRUE]
  /\ UNCHANGED <<serving, kept, slots, nextTag, device, ready, polling, batching, rung>>

\* A claim that came off on the second ask takes its waker back.
Claimed(t) ==
  /\ At(t, "claimed")
  /\ claims' = IF me[t].second THEN claims \ {t} ELSE claims
  /\ me' = [me EXCEPT ![t].pc = "submit", ![t].second = FALSE]
  /\ UNCHANGED <<serving, kept, slots, nextTag, device, ready, polling, batching, rung>>

-----------------------------------------------------------------------------
(* Submitting.  A thread submits the part of its batch that has slots.      *)

Run(a) == {me[a].wanted[i] : i \in 1 .. me[a].held}

Submit(a) ==
  /\ At(a, "submit")
  /\ device' = device \cup Run(a)
  /\ me' = [me EXCEPT ![a].pc = "gather", ![a].second = FALSE]
  /\ UNCHANGED <<serving, kept, slots, nextTag, ready, polling, claims, batching, rung>>

\* The backend refuses the batch.  An engine whose wake failed has it all the
\* same, and will answer it.
SubmitFails(a) ==
  /\ At(a, "submit")
  /\ \/ UNCHANGED <<device, kept>>
     \/ serving = "engine" /\ device' = device \cup Run(a) /\ kept' = kept \cup Run(a)
  /\ me' = [me EXCEPT ![a].pc = "release"]
  /\ UNCHANGED <<serving, slots, nextTag, ready, polling, claims, batching, rung>>

\* release_run, tag by tag, then one signal.
ReleaseRun(a) ==
  LET mine == SlotOf(Wanted(a)).tag = Wanted(a) /\ SlotOf(Wanted(a)).state = "flight" IN
  /\ At(a, "release")
  /\ IF me[a].at <= me[a].held
     THEN /\ slots' = IF mine THEN [slots EXCEPT ![IndexOf(Wanted(a))] = Free(@)] ELSE slots
          /\ me' = [me EXCEPT ![a].at = @ + 1, ![a].owes = @ \/ mine]
     ELSE /\ me' = [me EXCEPT ![a] = [Idle EXCEPT !.freed = me[a].owes]]
          /\ UNCHANGED slots
  /\ UNCHANGED <<serving, kept, nextTag, device, ready, polling, claims, batching, rung>>

-----------------------------------------------------------------------------
(* The backend, and filing what it answers.                                 *)

\* An op completes.
Answer(tag) ==
  /\ tag \in device
  /\ device' = device \ {tag}
  /\ ready' = ready \cup {tag}
  /\ UNCHANGED <<serving, kept, slots, nextTag, polling, claims, batching, rung, me>>

\* The engine takes what its ring has reaped (serve and take_free).
Reap ==
  /\ serving = "engine" /\ At(Engine, "idle")
  /\ ready # {}
  /\ ready' = {}
  /\ me' = [me EXCEPT ![Engine].pc = "file", ![Engine].moved = ready]
  /\ UNCHANGED <<serving, kept, slots, nextTag, device, polling, claims, batching, rung>>

\* Faulty: the waker stays in the slot, and nobody is woken.
LandQuietly(a, tag) ==
  LET s == SlotOf(tag)
      mine == s.tag = tag IN
  /\ slots' = [slots EXCEPT ![IndexOf(tag)] =
       CASE mine /\ s.state = "flight" -> [@ EXCEPT !.state = "landed", !.done = tag]
         [] mine /\ s.state = "orphan" -> Free(@)
         [] OTHER -> @]
  /\ UNCHANGED rung
  /\ me' = [me EXCEPT ![a].moved = @ \ {tag}, ![a].owes = @ \/ (mine /\ s.state = "orphan")]

\* Faulty: a completion lands on whichever flight has the slot its tag names.
LandAnywhere(a, tag) ==
  LET s == SlotOf(tag)
      mine == s.state = "flight" \/ s.tag = tag IN
  /\ slots' = [slots EXCEPT ![IndexOf(tag)] =
       CASE mine /\ s.state = "flight" -> [@ EXCEPT !.state = "landed", !.done = tag, !.waker = NoOne]
         [] mine /\ s.state = "orphan" -> Free(@)
         [] OTHER -> @]
  /\ rung' = IF mine /\ s.state = "flight" THEN rung \cup ({s.waker} \ {NoOne}) ELSE rung
  /\ me' = [me EXCEPT ![a].moved = @ \ {tag}, ![a].owes = @ \/ (mine /\ s.state = "orphan")]

\* land: to the waiting flight, with its waker woken; into nothing if the
\* caller left, which frees the slot; a stale one is discarded.
Land(a, tag) ==
  LET s == SlotOf(tag)
      mine == s.tag = tag IN
  /\ slots' = [slots EXCEPT ![IndexOf(tag)] =
       CASE mine /\ s.state = "flight" -> [@ EXCEPT !.state = "landed", !.done = tag, !.waker = NoOne]
         [] mine /\ s.state = "orphan" -> Free(@)
         [] OTHER -> @]
  /\ rung' = IF mine /\ s.state = "flight" THEN rung \cup ({s.waker} \ {NoOne}) ELSE rung
  /\ me' = [me EXCEPT ![a].moved = @ \ {tag}, ![a].owes = @ \/ (mine /\ s.state = "orphan")]

\* file: one completion after another, in whatever order they came, then one
\* signal.
File(a) ==
  /\ At(a, "file")
  /\ \/ \E tag \in me[a].moved : Land(a, tag)
     \/ /\ me[a].moved = {}
        /\ me' = [me EXCEPT ![a].pc = IF a = Engine THEN "idle" ELSE "endpoll", ![a].owes = FALSE, ![a].freed = me[a].owes]
        /\ UNCHANGED <<slots, rung>>
  /\ UNCHANGED <<serving, kept, nextTag, device, ready, polling, claims, batching>>

-----------------------------------------------------------------------------
(* Waiting.                                                                 *)

\* take and take_or_seat on the tags still missing: a landed completion is
\* taken and the slot freed; a task leaves its waker in a slot in flight.
Gather(a) ==
  LET s == SlotOf(Wanted(a))
      mine == s.tag = Wanted(a) IN
  /\ At(a, "gather") /\ me[a].at <= me[a].held
  /\ IF me[a].got[me[a].at] = 0 /\ mine /\ s.state = "landed"
     THEN /\ slots' = [slots EXCEPT ![IndexOf(Wanted(a))] = Free(@)]
          /\ me' = [me EXCEPT ![a].got[me[a].at] = s.done, ![a].at = @ + 1, ![a].freed = TRUE]
     ELSE /\ slots' = IF a \in Tasks /\ me[a].got[me[a].at] = 0 /\ mine /\ s.state = "flight"
                      THEN [slots EXCEPT ![IndexOf(Wanted(a))].waker = a] ELSE slots
          /\ me' = [me EXCEPT ![a].at = @ + 1]
  /\ UNCHANGED <<serving, kept, nextTag, device, ready, polling, claims, batching, rung>>

Missing(a) == \E i \in 1 .. me[a].held : me[a].got[i] = 0
Rest(seq, n) == SubSeq(seq, n + 1, Len(seq))

\* The whole run is in: the call is over, or a thread goes on to the rest.
Gathered(a) ==
  /\ At(a, "gather") /\ me[a].at > me[a].held
  /\ ~ Missing(a)
  /\ me' = [me EXCEPT ![a] =
       IF @.held = Len(@.wanted) THEN Idle
       ELSE [Idle EXCEPT !.pc = "claim", !.wanted = Rest(me[a].wanted, me[a].held), !.got = Rest(me[a].got, me[a].held)]]
  /\ UNCHANGED <<serving, kept, slots, nextTag, device, ready, polling, claims, batching, rung>>

\* begin_poll: the drain turn, if nobody has it.  A polled backend hands over
\* what is ready; a ring's own completions never come this way.
Drain(a) ==
  /\ polling = NoOne
  /\ polling' = a
  /\ LET out == IF serving = "polled" THEN ready ELSE {} IN
     /\ ready' = ready \ out
     /\ me' = [me EXCEPT ![a].pc = "file", ![a].moved = out, ![a].drained = out # {}, ![a].at = 1]
  /\ UNCHANGED <<serving, kept, slots, nextTag, device, claims, batching, rung>>

\* wait_op and wait_batch: a poll that finds nothing drains the backend once.
DrainOnce(t) ==
  /\ t \in Tasks
  /\ At(t, "gather") /\ me[t].at > me[t].held /\ Missing(t)
  /\ ~ me[t].second
  /\ Drain(t)

\* Somebody else is draining, or the second look found nothing either.
Pend(t) ==
  /\ t \in Tasks
  /\ At(t, "gather") /\ me[t].at > me[t].held /\ Missing(t)
  /\ me[t].second \/ polling # NoOne
  /\ me' = [me EXCEPT ![t].pc = "pending", ![t].at = 1]
  /\ UNCHANGED <<serving, kept, slots, nextTag, device, ready, polling, claims, batching, rung>>

\* end_poll gives the turn back.  A task looks again if the drain moved
\* anything; a thread looks again in any case.
EndPoll(a) ==
  /\ At(a, "endpoll")
  /\ polling' = NoOne
  /\ me' = [me EXCEPT ![a].drained = FALSE,
       ![a].pc = CASE a \in Tasks /\ ~ me[a].drained -> "pending"
                   [] a \in Threads /\ me[a].held = 0 -> "claim"
                   [] OTHER -> "gather",
       ![a].second = a \in Tasks \/ ~ me[a].drained]
  /\ UNCHANGED <<serving, kept, slots, nextTag, device, ready, claims, batching, rung>>

\* The executor polls a task that was woken, at its claim or at its wait.
Poll(t) ==
  /\ At(t, "asleep") \/ At(t, "pending")
  /\ t \in rung
  /\ rung' = rung \ {t}
  /\ me' = [me EXCEPT ![t].pc = IF @ = "asleep" THEN "turn" ELSE "gather", ![t].second = FALSE]
  /\ UNCHANGED <<serving, kept, slots, nextTag, device, ready, polling, claims, batching>>

\* A future dropped at an await point.  A claim leaves only its waker behind.
Drop(t) ==
  /\ t \in Tasks
  /\ At(t, "asleep") \/ At(t, "pending")
  /\ me' = [me EXCEPT ![t] = IF @.pc = "asleep" THEN Idle ELSE [@ EXCEPT !.pc = "orphan"]]
  /\ UNCHANGED <<serving, kept, slots, nextTag, device, ready, polling, claims, batching, rung>>

\* Faulty: a flight that lands between the drop and the orphaning keeps its slot.
OrphanFlights(a) ==
  LET s == SlotOf(Wanted(a))
      left == s.tag = Wanted(a) /\ me[a].got[me[a].at] = 0 IN
  /\ At(a, "orphan")
  /\ IF me[a].at <= me[a].held
     THEN /\ slots' = IF left /\ s.state = "flight"
                      THEN [slots EXCEPT ![IndexOf(Wanted(a))] = [@ EXCEPT !.state = "orphan", !.waker = NoOne]]
                      ELSE slots
          /\ me' = [me EXCEPT ![a].at = @ + 1]
     ELSE me' = [me EXCEPT ![a] = Idle] /\ UNCHANGED slots
  /\ UNCHANGED <<serving, kept, nextTag, device, ready, polling, claims, batching, rung>>

\* orphan, for each tag not taken: a flight is left to whoever reaps it, a
\* completion that has landed is given up and its slot freed.
Orphan(a) ==
  LET s == SlotOf(Wanted(a))
      left == s.tag = Wanted(a) /\ me[a].got[me[a].at] = 0 IN
  /\ At(a, "orphan")
  /\ IF me[a].at <= me[a].held
     THEN /\ slots' = CASE left /\ s.state = "flight" ->
                             [slots EXCEPT ![IndexOf(Wanted(a))] = [@ EXCEPT !.state = "orphan", !.waker = NoOne]]
                        [] left /\ s.state = "landed" -> [slots EXCEPT ![IndexOf(Wanted(a))] = Free(@)]
                        [] OTHER -> slots
          /\ me' = [me EXCEPT ![a].at = @ + 1, ![a].freed = left /\ s.state = "landed"]
     ELSE me' = [me EXCEPT ![a] = Idle] /\ UNCHANGED slots
  /\ UNCHANGED <<serving, kept, nextTag, device, ready, polling, claims, batching, rung>>

-----------------------------------------------------------------------------
(* Blocking callers.                                                        *)

\* claim_run took part of the batch: that part goes down now.
ClaimedRun(t) ==
  /\ t \in Threads /\ ClaimRefused(t) /\ me[t].held > 0
  /\ me' = [me EXCEPT ![t].pc = "submit"]
  /\ UNCHANGED <<serving, kept, slots, nextTag, device, ready, polling, claims, batching, rung>>

\* wait_free: drain if the turn is free, and otherwise park for a moment.
WaitFree(t) ==
  /\ t \in Threads /\ ClaimRefused(t) /\ me[t].held = 0
  /\ \/ ~ me[t].second /\ Drain(t)
     \/ /\ me[t].second \/ polling # NoOne
        /\ me' = [me EXCEPT ![t].second = ~ @]
        /\ UNCHANGED <<serving, kept, slots, nextTag, device, ready, polling, claims, batching, rung>>

\* The slot did not come free within CLAIM_LIMIT: never_freed.
NeverFreed(t) ==
  /\ t \in Threads /\ ClaimRefused(t) /\ me[t].held = 0 /\ me[t].second
  /\ me' = [me EXCEPT ![t] = Idle]
  /\ UNCHANGED <<serving, kept, slots, nextTag, device, ready, polling, claims, batching, rung>>

\* pump and poll_until_drained: the backend is polled until it has something,
\* or until the rounds run out with nothing.
Pump(t) ==
  /\ t \in Threads
  /\ At(t, "gather") /\ me[t].at > me[t].held /\ Missing(t) /\ ~ me[t].second
  /\ \/ Drain(t)
     \/ /\ polling # NoOne
        /\ me' = [me EXCEPT ![t].at = 1]
        /\ UNCHANGED <<serving, kept, slots, nextTag, device, ready, polling, claims, batching, rung>>

\* The rounds ran out and the last look found nothing: never_completed, and
\* the missing tags are orphaned.
NeverCompleted(t) ==
  /\ t \in Threads
  /\ At(t, "gather") /\ me[t].at > me[t].held /\ Missing(t) /\ me[t].second
  /\ me' = [me EXCEPT ![t].pc = "orphan", ![t].at = 1]
  /\ UNCHANGED <<serving, kept, slots, nextTag, device, ready, polling, claims, batching, rung>>

-----------------------------------------------------------------------------
Step(a) ==
  \/ RingClaims(a)
  \/ TryClaim(a) \/ Submit(a) \/ ReleaseRun(a)
  \/ File(a) \/ Gather(a) \/ Gathered(a) \/ EndPoll(a) \/ Orphan(a)

TaskStep(t) ==
  \/ Step(t)
  \/ TakeTurn(t) \/ Refused(t) \/ Rollback(t) \/ SeatClaim(t) \/ Claimed(t)
  \/ DrainOnce(t) \/ Pend(t) \/ Poll(t)

ThreadStep(t) ==
  \/ Step(t)
  \/ ClaimedRun(t) \/ WaitFree(t) \/ NeverFreed(t) \/ Pump(t) \/ NeverCompleted(t)

Next ==
  \/ \E a \in Tasks \cup Threads : Build(a) \/ Go(a) \/ SubmitFails(a)
  \/ \E t \in Tasks : TaskStep(t) \/ Drop(t)
  \/ \E t \in Threads : ThreadStep(t)
  \/ \E tag \in device : Answer(tag)
  \/ Reap \/ File(Engine) \/ RingClaims(Engine)

Spec == Init /\ [][Next]_vars

\* The backend answers what it took, the engine files it, a task that was
\* woken is polled, and a caller that may go on does.
Fairness ==
  /\ WF_vars(\E tag \in device : Answer(tag))
  /\ WF_vars(Reap) /\ WF_vars(File(Engine)) /\ WF_vars(RingClaims(Engine))
  /\ \A t \in Tasks : WF_vars(TaskStep(t)) /\ SF_vars(TakeTurn(t))
  /\ \A t \in Threads : WF_vars(ThreadStep(t))

FairSpec == Spec /\ Fairness

-----------------------------------------------------------------------------
\* An op's answer reaches the caller that asked for it and nobody else, with
\* slots shared by tags a table apart, callers that left, and answers to ops
\* whose submission was reported failed (land, take and take_or_seat).
OwnAnswer ==
  /\ \A a \in Actors : \A i \in DOMAIN me[a].got : me[a].got[i] \in {0, me[a].wanted[i]}
  /\ \A s \in Slots : slots[s].state = "landed" => slots[s].done = slots[s].tag

\* A slot whose answer came in between a submission that was reported failed
\* and the release_run that follows it: release_run frees flights only
\* (slots.rs:204), so nobody ever takes this one.
Stranded(s) == s.state = "landed" /\ s.tag \in kept

\* A slot in use is somebody's: a caller that will take its answer or give it
\* up, or an answer on its way to a slot whose caller left (orphan,
\* release_run, claim_whole, collect).  The one exception is disclosed, not
\* shown absent: a failed kick leaves the op with an engine that may answer it
\* before its caller releases it, and such a Stranded slot stays taken for the
\* life of the table.  A slot in flight has no exception, kicked or not.
NoSlotLost ==
  \A s \in Slots :
    LET held == \E a \in Actors : \E i \in 1 .. me[a].held :
                  /\ me[a].wanted[i] = slots[s].tag
                  /\ me[a].pc \in {"orphan", "release", "rollback"} => me[a].at <= i IN
    /\ slots[s].state = "flight" => held
    /\ slots[s].state = "landed" => held \/ Stranded(slots[s])
    /\ slots[s].state = "orphan" =>
         slots[s].tag \in device \cup ready \cup UNION {me[a].moved : a \in Actors}

\* Every future served by an engine is answered, refused or dropped in the
\* end, at its claim and at its wait.
TaskEnds(t) == me[t].pc \notin {"idle", "build"} ~> me[t].pc = "idle"
TasksEnd == (serving = "engine" /\ [](kept = {})) => \A t \in Tasks : TaskEnds(t)
=============================================================================
