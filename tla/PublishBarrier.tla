--------------------------- MODULE PublishBarrier ---------------------------
(***************************************************************************)
(* The barrier that keeps a batch's index moves apart from reads that span  *)
(* several keys (append/publish.rs).  A batch moves its keys one by one, a  *)
(* whole read looks at them one by one; the barrier is what makes the read  *)
(* see all of a batch or none of it.  Batches that arrive while one waits   *)
(* or moves join its group and move under its hold.  A whole read first     *)
(* tries to fill itself outside the queue and checks that nothing started.  *)
(***************************************************************************)
EXTENDS Integers, Sequences, FiniteSets

CONSTANTS
  Threads,
  Ops,       \* what a thread may call: "grouped", "publishing", "reading", "readingAll"
  Keys,      \* integers: every batch moves all of them, every whole read looks at all of them
  NoOne

VARIABLES
  waiting,      \* Queue.waiting, as [who, want]
  readers,      \* the threads that Queue.readers counts
  isPublishing, \* Queue.is_publishing
  started, finished,   \* Publishes
  gathering,    \* the leader of the group batches join, or NoOne
  open,         \* the leaders whose group may move (state.0)
  following,    \* leader -> the followers its group still counts (state.1)
  unparked,     \* threads holding an unpark token
  index,        \* key -> the number of the batch it points at
  drawn,        \* the last number a batch drew
  me            \* each thread's place

vars == <<waiting, readers, isPublishing, started, finished, gathering, open, following,
          unparked, index, drawn, me>>
queue   == <<waiting, readers, isPublishing>>
counts  == <<started, finished>>
groups  == <<gathering, open, following>>
entries == <<index, drawn>>

\* lead: the leader of its group; quiet: the started count it read; batch: its
\* number; todo: keys not moved or read yet; got: what it read.
Idle == [pc |-> "idle", op |-> "reading", lead |-> NoOne, quiet |-> 0, batch |-> 0,
         todo |-> {}, got |-> [k \in Keys |-> 0]]

Init ==
  /\ waiting = <<>> /\ readers = {} /\ isPublishing = FALSE
  /\ started = 0 /\ finished = 0
  /\ gathering = NoOne /\ open = {} /\ following = [t \in Threads |-> {}]
  /\ unparked = {}
  /\ index = [k \in Keys |-> 0] /\ drawn = 0
  /\ me = [t \in Threads |-> Idle]

Goes(t, pc) == me' = [me EXCEPT ![t].pc = pc]
Want(t) == IF me[t].op \in {"grouped", "publishing"} THEN "exclusive" ELSE "shared"

Begin(t) ==
  /\ me[t].pc = "idle"
  /\ \E op \in Ops :
       LET isBatch == op \in {"grouped", "publishing"}
       IN  /\ drawn' = IF isBatch THEN drawn + 1 ELSE drawn
           /\ me' = [me EXCEPT ![t] = [Idle EXCEPT !.op = op, !.todo = Keys,
                !.batch = IF isBatch THEN drawn + 1 ELSE 0,
                !.pc = IF op = "grouped" THEN "gather" ELSE IF op = "readingAll" THEN "quiet" ELSE "enter"]]
  /\ UNCHANGED <<queue, counts, groups, unparked, index>>

-----------------------------------------------------------------------------
(* The queue.                                                              *)

\* may_enter, for whoever is at the front
FrontMayEnter(line, inside, publishing) ==
  /\ ~ publishing
  /\ line[1].want = "exclusive" => inside = {}

\* wake_front: the front, with the run of reads behind it if it is one
Woken(line, inside, publishing) ==
  IF line = <<>> \/ ~ FrontMayEnter(line, inside, publishing) THEN {}
  ELSE {line[i].who : i \in {i \in 1 .. Len(line) :
          i = 1 \/ \A j \in 1 .. i : line[j].want = "shared"}}

Inside(t) == IF Want(t) = "exclusive" THEN "start" ELSE "read"

\* The rest of enter once it is this caller's turn
TakeTurn(t, line) ==
  /\ waiting' = Tail(line)
  /\ IF Want(t) = "shared"
       THEN /\ readers' = readers \cup {t}
            /\ unparked' = (unparked \ {t}) \cup Woken(Tail(line), readers \cup {t}, isPublishing)
            /\ UNCHANGED isPublishing
       ELSE /\ isPublishing' = TRUE
            /\ unparked' = unparked \ {t}
            /\ UNCHANGED readers
  /\ Goes(t, Inside(t))

\* Whether it is this caller's turn
MayEnter(t, line) == line[1].who = t /\ FrontMayEnter(line, readers, isPublishing)

\* Join the queue, and enter or park.  A token left from an earlier wake makes the
\* park return at once, which Rouse covers.
Enter(t) ==
  LET line == Append(waiting, [who |-> t, want |-> Want(t)])
  IN  /\ me[t].pc = "enter"
      /\ IF MayEnter(t, line)
           THEN /\ TakeTurn(t, line)
           ELSE /\ waiting' = line
                /\ Goes(t, "parked")
                /\ UNCHANGED <<readers, isPublishing, unparked>>
      /\ UNCHANGED <<counts, groups, entries>>

\* park returned: look again, for the wake may be stale.
Rouse(t) ==
  /\ me[t].pc = "parked"
  /\ t \in unparked
  /\ IF MayEnter(t, waiting)
       THEN /\ TakeTurn(t, waiting)
       ELSE /\ unparked' = unparked \ {t}
            /\ UNCHANGED <<queue, me>>
  /\ UNCHANGED <<counts, groups, entries>>

\* Faulty: a read leaves without a word.
LeaveQuietly(t) ==
  /\ me[t].pc = "leave"
  /\ readers' = readers \ {t}
  /\ isPublishing' = (isPublishing /\ Want(t) = "shared")
  /\ unparked' = IF Want(t) = "shared" THEN unparked ELSE unparked \cup Woken(waiting, readers', isPublishing')
  /\ me' = [me EXCEPT ![t] = Idle]
  /\ UNCHANGED <<waiting, counts, groups, entries>>

Leave(t) ==
  /\ me[t].pc = "leave"
  /\ readers' = readers \ {t}
  /\ isPublishing' = (isPublishing /\ Want(t) = "shared")
  /\ unparked' = unparked \cup Woken(waiting, readers', isPublishing')
  /\ me' = [me EXCEPT ![t] = Idle]
  /\ UNCHANGED <<waiting, counts, groups, entries>>

-----------------------------------------------------------------------------
(* Batches.                                                                *)

\* publish_grouped: follow the group that is gathering, or lead a new one.
Gather(t) ==
  /\ me[t].pc = "gather"
  /\ IF gathering # NoOne
       THEN /\ following' = [following EXCEPT ![gathering] = @ \cup {t}]
            /\ me' = [me EXCEPT ![t] = [@ EXCEPT !.pc = "follow", !.lead = gathering]]
            /\ UNCHANGED gathering
       ELSE /\ gathering' = t
            /\ me' = [me EXCEPT ![t] = [@ EXCEPT !.pc = "enter", !.lead = t]]
            /\ UNCHANGED following
  /\ UNCHANGED <<queue, counts, open, unparked, entries>>

Follow(t) ==
  /\ me[t].pc = "follow"
  /\ me[t].lead \in open
  /\ Goes(t, "move")
  /\ UNCHANGED <<queue, counts, groups, unparked, entries>>

\* Faulty: a batch starts uncounted.
StartUncounted(t) ==
  /\ me[t].pc = "start"
  /\ Goes(t, IF me[t].op = "grouped" THEN "open" ELSE "move")
  /\ UNCHANGED <<queue, counts, groups, unparked, entries>>

Start(t) ==
  /\ me[t].pc = "start"
  /\ started' = started + 1
  /\ Goes(t, IF me[t].op = "grouped" THEN "open" ELSE "move")
  /\ UNCHANGED <<queue, finished, groups, unparked, entries>>

Open(t) ==
  /\ me[t].pc = "open"
  /\ open' = open \cup {t}
  /\ Goes(t, "move")
  /\ UNCHANGED <<queue, counts, gathering, following, unparked, entries>>

\* One key of the batch: the index keeps the newer number.
Move(t) ==
  /\ me[t].pc = "move"
  /\ \E k \in me[t].todo :
       /\ index' = [index EXCEPT ![k] = IF @ < me[t].batch THEN me[t].batch ELSE @]
       /\ me' = [me EXCEPT ![t].todo = @ \ {k}]
  /\ UNCHANGED <<queue, counts, groups, unparked, drawn>>

\* The moves returned: Moving drops, a follower's count or the leader's group.
Moved(t) ==
  /\ me[t].pc = "move"
  /\ me[t].todo = {}
  /\ \/ /\ me[t].lead = NoOne
        /\ Goes(t, "finish") /\ UNCHANGED groups
     \/ /\ me[t].lead = t
        /\ gathering' = NoOne /\ Goes(t, "drain") /\ UNCHANGED <<open, following>>
     \/ /\ me[t].lead \notin {NoOne, t}
        /\ following' = [following EXCEPT ![me[t].lead] = @ \ {t}]
        /\ me' = [me EXCEPT ![t] = Idle]
        /\ UNCHANGED <<gathering, open>>
  /\ UNCHANGED <<queue, counts, unparked, entries>>

\* Faulty: the leader leaves its followers behind.
DrainNot(t) ==
  /\ me[t].pc = "drain"
  /\ open' = open \ {t}
  /\ Goes(t, "finish")
  /\ UNCHANGED <<queue, counts, gathering, following, unparked, entries>>

\* The leader waits for its followers; its group goes with it.
Drain(t) ==
  /\ me[t].pc = "drain"
  /\ following[t] = {}
  /\ open' = open \ {t}
  /\ Goes(t, "finish")
  /\ UNCHANGED <<queue, counts, gathering, following, unparked, entries>>

Finish(t) ==
  /\ me[t].pc = "finish"
  /\ finished' = finished + 1
  /\ Goes(t, "leave")
  /\ UNCHANGED <<queue, started, groups, unparked, entries>>

-----------------------------------------------------------------------------
(* Whole reads.                                                            *)

\* quiet: two loads, and a fill outside the queue only when they agree
QuietStarted(t) ==
  /\ me[t].pc = "quiet"
  /\ me' = [me EXCEPT ![t] = [@ EXCEPT !.pc = "quiet2", !.quiet = started]]
  /\ UNCHANGED <<queue, counts, groups, unparked, entries>>

QuietFinished(t) ==
  /\ me[t].pc = "quiet2"
  /\ Goes(t, IF me[t].quiet = finished THEN "fill" ELSE "enter")
  /\ UNCHANGED <<queue, counts, groups, unparked, entries>>

\* One key of a read, inside the queue or out, in key order
Read(t) ==
  /\ me[t].pc \in {"read", "fill"}
  /\ \E k \in me[t].todo :
       /\ \A l \in me[t].todo : k <= l
       /\ me' = [me EXCEPT ![t] = [@ EXCEPT !.todo = me[t].todo \ {k}, !.got = [me[t].got EXCEPT ![k] = index[k]]]]
  /\ UNCHANGED <<queue, counts, groups, unparked, entries>>

\* A fill nobody published under stands; any other is done over in the queue.
FillCheck(t) ==
  /\ me[t].pc = "fill"
  /\ me[t].todo = {}
  /\ me' = IF started = me[t].quiet
             THEN [me EXCEPT ![t].pc = "answer"]
             ELSE [me EXCEPT ![t] = [@ EXCEPT !.pc = "enter", !.todo = Keys, !.got = Idle.got]]
  /\ UNCHANGED <<queue, counts, groups, unparked, entries>>

FillAnswer(t) ==
  /\ me[t].pc = "answer"
  /\ me' = [me EXCEPT ![t] = Idle]
  /\ UNCHANGED <<queue, counts, groups, unparked, entries>>

ReadDone(t) ==
  /\ me[t].pc = "read"
  /\ me[t].todo = {}
  /\ Goes(t, "leave")
  /\ UNCHANGED <<queue, counts, groups, unparked, entries>>

-----------------------------------------------------------------------------

Step(t) ==
  \/ Enter(t) \/ Rouse(t) \/ Leave(t)
  \/ Gather(t) \/ Follow(t) \/ Start(t) \/ Open(t) \/ Move(t) \/ Moved(t) \/ Drain(t) \/ Finish(t)
  \/ QuietStarted(t) \/ QuietFinished(t) \/ Read(t) \/ FillCheck(t) \/ FillAnswer(t) \/ ReadDone(t)

Next == \E t \in Threads : Begin(t) \/ Step(t)

Spec == Init /\ [][Next]_vars

\* A thread that can run does, and std's locks and condition variables let it.
Fairness == \A t \in Threads : WF_vars(Step(t))

-----------------------------------------------------------------------------
(* Properties.                                                             *)

\* A read over several keys sees all of a batch or none of it, whether it filled
\* itself outside the queue (reading_all) or held its place in it.
ReadsWhole ==
  \A t \in Threads :
    me[t].pc \in {"answer", "leave"} /\ Want(t) = "shared" =>
      \A k, l \in Keys : me[t].got[k] = me[t].got[l]

\* A batch that moves, a follower included, does so while its leader holds the
\* barrier and nobody else is inside.
MovesHoldBarrier ==
  \A t \in Threads : me[t].pc = "move" =>
    /\ isPublishing
    /\ readers = {}
    /\ \A u \in Threads : me[u].pc = "move" => me[u].lead = me[t].lead
    /\ me[t].lead \notin {NoOne, t} => t \in following[me[t].lead]

\* Every batch and every read returns, though a parked thread has only the unpark
\* of whoever was before it, and reads keep coming.
EveryoneReturns == \A t \in Threads : me[t].pc # "idle" ~> me[t].pc = "idle"
=============================================================================
