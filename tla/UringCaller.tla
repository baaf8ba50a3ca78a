---------------------------- MODULE UringCaller ----------------------------
(***************************************************************************)
(* A thread and its own ring: a batch run to its end and answered in submit *)
(* order (run_batch, or run_one when there is one op), or queued for the    *)
(* thread to poll for later (queue_batch, poll, poll_blocking).  An op the  *)
(* ring cannot take is answered in line by the posix backend.  One action   *)
(* is a stretch of code between two looks at the kernel's queue.            *)
(***************************************************************************)
EXTENDS UringRing

CONSTANTS
  Files,
  Batch,      \* the most ops in one call
  NoAnswer

VARIABLES
  ring,
  mode,         \* "idle", "batch" or "queue"
  calls, fails, \* how many calls, and how many enters the kernel refused
  asked,        \* the ops of the call
  order,        \* the place of the op to stage next
  outstanding,  \* ops on the ring that the batch waits for
  filled,       \* the batch's answers by place
  owed          \* ops queued and not yet polled for

callerVars == <<ring, mode, calls, fails, asked, order, outstanding, filled, owed>>

CallerInit ==
  /\ ring = NewRing /\ mode = "idle" /\ calls = 0 /\ fails = 0
  /\ asked = <<>> /\ order = 1 /\ outstanding = 0 /\ filled = <<>> /\ owed = {}

Ops(n) == {[i \in 1 .. n |-> [call |-> calls + 1, at |-> i, file |-> files[i]]] : files \in [1 .. n -> Files]}

\* submit_inline, submit_batch, submit.
Call ==
  /\ mode = "idle"
  /\ mode' \in {"batch", "queue"}
  /\ calls' = calls + 1
  /\ \E n \in 1 .. Batch : asked' \in Ops(n)
  /\ filled' = IF mode' = "batch" THEN [i \in DOMAIN asked' |-> NoAnswer] ELSE <<>>
  /\ owed' = IF mode' = "queue" THEN owed \cup ToSet(asked') ELSE owed
  /\ order' = 1 /\ outstanding' = 0
  /\ UNCHANGED <<ring, fails>>

Staging == order <= Len(asked)
\* make_room or the wait at a batch's end.
Waiting == IF Staging THEN IsFull(ring) ELSE mode = "batch" /\ outstanding > 0


\* Faulty: answers are filled in as they come.
FillAsTheyCome(done) ==
  LET got == SelectSeq(filled, LAMBDA a : a # NoAnswer) \o [k \in DOMAIN done |-> done[k].op] IN
  [i \in DOMAIN filled |-> IF i <= Len(got) THEN got[i] ELSE NoAnswer]

Fill(done) == [i \in DOMAIN filled |->
  IF \E k \in DOMAIN done : done[k].order = i THEN done[CHOOSE k \in DOMAIN done : done[k].order = i].op
  ELSE filled[i]]

\* Faulty: the count of a batch's ops is not brought down.
HarvestUncounted ==
  LET r == Drain(ring) IN
  /\ mode # "idle" /\ Waiting
  /\ ring.cq # <<>> \/ (mode = "batch" /\ Ordered(ring) # <<>>)
  /\ IF mode = "queue" THEN ring' = r /\ UNCHANGED filled
     ELSE ring' = TakeOrdered(r) /\ filled' = Fill(Ordered(r))
  /\ UNCHANGED <<mode, calls, fails, asked, order, outstanding, owed>>

\* harvest in a batch; in a queued call the drain alone.
Harvest ==
  LET r == Drain(ring) IN
  /\ mode # "idle" /\ Waiting
  /\ ring.cq # <<>> \/ (mode = "batch" /\ Ordered(ring) # <<>>)
  /\ IF mode = "queue" THEN ring' = r /\ UNCHANGED <<filled, outstanding>>
     ELSE /\ ring' = TakeOrdered(r)
          /\ filled' = Fill(Ordered(r))
          /\ outstanding' = IF outstanding < Len(Ordered(r)) THEN 0 ELSE outstanding - Len(Ordered(r))
  /\ UNCHANGED <<mode, calls, fails, asked, order, owed>>

\* wait_more: what is queued goes to the kernel before the thread spins or
\* sleeps, unless the enter is cut short or fails.
Entering(r) ==
  \/ r' = Entered(r) /\ UNCHANGED fails
  \/ r' = Interrupted(r) /\ fails' = fails + 1
  \/ r' = Refuse(r) /\ fails' = fails + 1

Wait ==
  /\ mode # "idle" /\ Waiting
  /\ ring.cq = <<>> /\ (mode = "batch" => Ordered(ring) = <<>>)
  /\ Entering(ring)
  /\ UNCHANGED <<mode, calls, asked, order, outstanding, filled, owed>>

Answered(r, op) == [r EXCEPT !.reaped = Append(@, [order |-> Unordered, op |-> op, ok |-> FALSE])]

StageNext ==
  LET op == asked[order] IN
  /\ mode # "idle" /\ Staging /\ ~ Waiting
  /\ \E s \in Stage(ring, op, IF mode = "batch" THEN order ELSE Unordered) :
       /\ fails' = fails + s.fails
       /\ ring' = IF s.on \/ mode = "batch" THEN s.ring ELSE Answered(s.ring, op)
       /\ filled' = IF s.on \/ mode = "queue" THEN filled ELSE [filled EXCEPT ![order] = op]
       /\ outstanding' = IF s.on /\ mode = "batch" THEN outstanding + 1 ELSE outstanding
  /\ order' = order + 1
  /\ UNCHANGED <<mode, calls, asked, owed>>

StageOffRing ==
  LET op == asked[order] IN
  /\ mode # "idle" /\ Staging /\ ~ Waiting
  /\ ring' = IF mode = "batch" THEN ring ELSE Answered(ring, op)
  /\ filled' = IF mode = "queue" THEN filled ELSE [filled EXCEPT ![order] = op]
  /\ order' = order + 1
  /\ UNCHANGED <<mode, calls, fails, asked, outstanding, owed>>

\* A batch hands its answers out; a queued call flushes.
Return ==
  /\ mode # "idle" /\ ~ Staging /\ ~ Waiting
  /\ mode' = "idle"
  /\ \/ mode = "batch" /\ UNCHANGED <<ring, fails>>
     \/ mode = "queue" /\ ring' \in Flushed(ring) /\ UNCHANGED fails
     \/ mode = "queue" /\ ring' \in FlushFailed(ring) /\ fails' = fails + 1
  /\ UNCHANGED <<calls, asked, order, outstanding, filled, owed>>

Poll ==
  LET r == Drain(ring) IN
  /\ mode = "idle" /\ Free(r) # <<>>
  /\ ring' = TakeFree(r)
  /\ owed' = owed \ {Free(r)[k].op : k \in DOMAIN Free(r)}
  /\ UNCHANGED <<mode, calls, fails, asked, order, outstanding, filled>>

\* poll_blocking: nothing landed, so the thread waits while an op is in flight.
PollWaits ==
  /\ mode = "idle" /\ owed # {} /\ ~ IsIdle(ring)
  /\ Free(Drain(ring)) = <<>>
  /\ Entering(ring)
  /\ UNCHANGED <<mode, calls, asked, order, outstanding, filled, owed>>

\* Another thread closes a file of the volume, and the kernel finishes an op.
CloseElsewhere ==
  /\ ring' = [ring EXCEPT !.stale = TRUE]
  /\ ring.table # <<>>
  /\ UNCHANGED <<mode, calls, fails, asked, order, outstanding, filled, owed>>

Kernel ==
  /\ \E e \in ring.kernel : ring' = KernelAnswers(ring, e)
  /\ UNCHANGED <<mode, calls, fails, asked, order, outstanding, filled, owed>>

CallerStep == Harvest \/ Wait \/ StageNext \/ StageOffRing \/ Return \/ Poll \/ PollWaits
CallerNext == Call \/ CallerStep \/ CloseElsewhere \/ Kernel
CallerSpec == CallerInit /\ [][CallerNext]_callerVars

-----------------------------------------------------------------------------
\* A batch comes back whole and in submit order, each place with its own op's
\* completion, whatever order the kernel answered in, whichever ops left the
\* ring, and whatever was queued beside it (run_batch, take_ordered).
BatchInOrder == mode = "idle" => filled \in {<<>>, asked}

\* No op in flight is lost, no slot or registered buffer is lent twice or
\* kept, through refused enters and reused slots alike (Inflight, Buffers).
RingAccounted == Accounted(ring)

\* While no enter has failed, an op reaches the file it names though the
\* registered table is cleared and refilled under way (Files::give_up), and
\* the completion queue never holds more than it has room for (make_room).
RightFile == fails = 0 => /\ \A e \in ring.kernel \cup ToSet(ring.cq) : e.hit = e.op.file
                          /\ Cardinality(ring.kernel) + Len(ring.cq) <= CqSize

\* A thread that waits has something to wait for: an answer it has not taken,
\* or an op whose entry is queued or with the kernel.  A batch that counted
\* wrong, or a poll left with nothing coming, would sleep for good (wait_more).
WaitsForSomething ==
  LET live == {e \in OnTheWay(ring) : Holds(ring, e)} IN
  /\ mode = "batch" /\ Waiting => live # {} \/ Ordered(ring) # <<>>
  /\ mode = "queue" /\ Waiting => live # {}
  /\ \A op \in owed : \/ \E e \in live : e.op = op
                      \/ \E k \in DOMAIN ring.reaped : ring.reaped[k].op = op
                      \/ mode = "queue" /\ op \in {asked[i] : i \in order .. Len(asked)}
=============================================================================
