---------------------------- MODULE PublishProofs ----------------------------
(***************************************************************************)
(* A whole read sees all of a batch or none of it, and a batch moves only   *)
(* under its leader's hold, for any threads, calls and keys and with no     *)
(* bound on the batches.  The invariant says who is inside the queue, what  *)
(* a group's members have to do with its leader, that the two counts differ *)
(* exactly while a batch may move, and that a key behind another is one     *)
(* some batch inside has still to move.                                     *)
(***************************************************************************)
EXTENDS PublishBarrier, TLAPS

PCs == {"idle", "gather", "follow", "enter", "parked", "start", "open", "move", "drain", "finish",
        "leave", "quiet", "quiet2", "fill", "answer", "read"}

Place == [pc : PCs, op : Ops \cup {"reading"}, lead : Threads \cup {NoOne}, quiet : Nat,
          batch : Nat, todo : SUBSET Keys, got : [Keys -> Nat]]

Waiter == [who : Threads, want : {"exclusive", "shared"}]

TypeOK ==
  /\ readers \in SUBSET Threads
  /\ isPublishing \in BOOLEAN
  /\ started \in Nat /\ finished \in Nat /\ drawn \in Nat
  /\ gathering \in Threads \cup {NoOne}
  /\ open \in SUBSET Threads /\ following \in [Threads -> SUBSET Threads]
  /\ index \in [Keys -> Nat]
  /\ me \in [Threads -> Place]

Batch(t) == Want(t) = "exclusive"
Leads(t) == me[t].lead = t
Follows(t) == me[t].lead \in Threads /\ me[t].lead # t

\* Who holds the barrier, and who has counted a start it has not finished.
Holds(t)  == Batch(t) /\ ~ Follows(t) /\ me[t].pc \in {"start", "open", "move", "drain", "finish", "leave"}
Moving(t) == Holds(t) /\ me[t].pc \in {"open", "move", "drain", "finish"}

\* A call's steps are those of a batch or those of a read.
CallOf(t) ==
  /\ me[t].pc \in {"gather", "follow", "start", "open", "move", "drain", "finish"} => Batch(t)
  /\ me[t].pc \in {"quiet", "quiet2", "fill", "answer", "read"} => ~ Batch(t)
  /\ me[t].lead # NoOne \/ me[t].pc = "gather" => me[t].op = "grouped"
  /\ me[t].pc \in {"open", "drain"} => Leads(t)
  /\ me[t].pc = "follow" => Follows(t)
  /\ Follows(t) => me[t].pc \in {"follow", "move"}
  /\ me[t].op = "grouped" /\ me[t].pc \notin {"idle", "gather"} => me[t].lead # NoOne

Calls == \A t \in Threads : CallOf(t)

\* The queue holds those that park, once each.
InLine ==
  /\ waiting \in Seq(Waiter)
  /\ \A i \in 1 .. Len(waiting) :
       waiting[i].want = Want(waiting[i].who) /\ me[waiting[i].who].pc = "parked"
  /\ \A i, j \in 1 .. Len(waiting) : waiting[i].who = waiting[j].who => i = j
  /\ \A t \in Threads : me[t].pc = "parked" => \E i \in 1 .. Len(waiting) : waiting[i].who = t

\* One batch is inside alone, or reads are.
InQueue ==
  /\ readers = {t \in Threads : ~ Batch(t) /\ me[t].pc \in {"read", "leave"}}
  /\ isPublishing => readers = {}
  /\ isPublishing <=> \E t \in Threads : Holds(t)
  /\ \A t, u \in Threads : Holds(t) /\ Holds(u) => t = u

\* A group stands while its leader has not drained it, and its followers move
\* only once it is open.
Groups ==
  /\ gathering # NoOne => Leads(gathering) /\ me[gathering].pc \in {"enter", "parked", "start", "open", "move"}
  /\ \A t \in Threads :
       /\ t \in open <=> Leads(t) /\ me[t].pc \in {"move", "drain"}
       /\ \A u \in Threads : u \in following[t] <=> me[u].lead = t /\ u # t
       /\ following[t] # {} => Leads(t) /\ me[t].pc \in {"enter", "parked", "start", "open", "move", "drain"}
       /\ Follows(t) /\ me[t].pc = "move" => me[t].lead \in open

\* The counts differ exactly while a batch may move.
Counts ==
  /\ (\E t \in Threads : Moving(t)) => started = finished + 1
  /\ (\A t \in Threads : ~ Moving(t)) => started = finished

\* A batch has raised the keys it is done with, and a key behind another is one
\* that some batch inside has still to move.
Raised ==
  /\ \A t \in Threads : me[t].pc = "move" => \A k \in Keys \ me[t].todo : me[t].batch <= index[k]
  /\ \A k, l \in Keys : index[k] < index[l] =>
       \E t \in Threads : me[t].pc = "move" /\ k \in me[t].todo /\ index[l] <= me[t].batch

\* A call that has not begun on its keys has them all to do.
Fresh ==
  \A t \in Threads :
    me[t].pc \in {"gather", "follow", "enter", "parked", "start", "open", "quiet", "quiet2"} => me[t].todo = Keys

\* A read has what the index holds, and a fill too if no batch started since.
ReadOf(t) ==
  /\ me[t].pc = "read" => \A k \in Keys \ me[t].todo : me[t].got[k] = index[k]
  /\ me[t].pc = "fill" =>
       /\ me[t].quiet <= finished
       /\ started = me[t].quiet => \A k \in Keys \ me[t].todo : me[t].got[k] = index[k]

Reading == \A t \in Threads : ReadOf(t)

PublishInv ==
  /\ TypeOK /\ Calls /\ InLine /\ InQueue /\ Groups /\ Counts /\ Fresh /\ Raised /\ Reading /\ ReadsWhole
-----------------------------------------------------------------------------

\* A step keeps the places well formed.
LEMMA PlaceStep ==
  ASSUME me \in [Threads -> Place], gathering \in Threads \cup {NoOne}, index \in [Keys -> Nat],
         started \in Nat, drawn \in Nat, NEW t \in Threads, Begin(t) \/ Step(t)
  PROVE  me' \in [Threads -> Place]
<1> USE DEF Place
<1>0. PCs = {"idle", "gather", "follow", "enter", "parked", "start", "open", "move", "drain", "finish",
             "leave", "quiet", "quiet2", "fill", "answer", "read"}
  BY Zenon DEF PCs
<1>1. CASE Begin(t)
  <2> DEFINE Called(op, p, b) == [Idle EXCEPT !.op = op, !.todo = Keys, !.batch = b, !.pc = p]
  <2>0. PICK op \in Ops : me' = [me EXCEPT ![t] = Called(op,
            IF op = "grouped" THEN "gather" ELSE IF op = "readingAll" THEN "quiet" ELSE "enter",
            IF op \in {"grouped", "publishing"} THEN drawn + 1 ELSE 0)]
    BY Zenon, <1>1 DEF Begin
  <2>1. PICK p \in PCs, b \in Nat : me' = [me EXCEPT ![t] = Called(op, p, b)]
    <3> DEFINE p0 == IF op = "grouped" THEN "gather" ELSE IF op = "readingAll" THEN "quiet" ELSE "enter"
               b0 == IF op \in {"grouped", "publishing"} THEN drawn + 1 ELSE 0
    <3>1. p0 \in PCs /\ b0 \in Nat
      BY <1>0
    <3>2. me' = [me EXCEPT ![t] = Called(op, p0, b0)]
      BY Zenon, <2>0
    <3> HIDE DEF Called, p0, b0
    <3> QED
      BY Zenon, <3>1, <3>2
  <2>2. [k \in Keys |-> 0] \in [Keys -> Nat] /\ 0 \in Nat /\ "reading" \in Ops \cup {"reading"}
    BY Zenon
  <2>3. Called(op, p, b) \in Place
    BY Zenon, <2>2 DEF Idle
  <2> QED
    BY Zenon, <2>1, <2>3
<1>2. CASE Enter(t) \/ Rouse(t)
  <2>1. me' = me \/ \E p \in PCs : me' = [me EXCEPT ![t].pc = p]
    BY Zenon, <1>0, <1>2 DEF Enter, Want, Rouse, TakeTurn, Goes, Inside
  <2> QED
    BY <2>1
<1>4. CASE Leave(t)
  BY Zenon, <1>0, <1>4 DEF Leave, Idle
<1>5. CASE Gather(t)
  <2>0. me[t] \in Place /\ "follow" \in PCs /\ "enter" \in PCs
    BY Zenon, <1>0 DEF PCs
  <2>1. CASE gathering # NoOne
    <3>1. [me[t] EXCEPT !.pc = "follow", !.lead = gathering] \in Place
      BY Zenon, <2>0, <2>1 DEF Place
    <3> QED
      BY ZenonT(60), <1>5, <2>1, <3>1 DEF Gather
  <2>2. CASE gathering = NoOne
    <3>1. [me[t] EXCEPT !.pc = "enter", !.lead = t] \in Place
      BY Zenon, <2>0 DEF Place
    <3> QED
      BY Zenon, <1>5, <2>2, <3>1 DEF Gather
  <2> QED
    BY Zenon, <2>1, <2>2
<1>6. CASE Follow(t)
  BY <1>0, <1>6 DEF Follow, Goes
<1>7. CASE Start(t)
  BY <1>0, <1>7 DEF Start, Goes
<1>8. CASE Open(t)
  BY <1>0, <1>8 DEF Open, Goes
<1>9. CASE Move(t)
  BY <1>0, <1>9 DEF Move
<1>10. CASE Moved(t)
  BY <1>0, <1>10 DEF Moved, Goes, Idle
<1>11. CASE Drain(t)
  BY <1>0, <1>11 DEF Drain, Goes
<1>12. CASE Finish(t)
  BY <1>0, <1>12 DEF Finish, Goes
<1>13. CASE QuietStarted(t)
  <2>1. "quiet2" \in PCs
    BY Zenon, <1>0
  <2>2. [me[t] EXCEPT !.pc = "quiet2", !.quiet = started] \in Place
    BY Zenon, <2>1
  <2> QED
    BY Zenon, <1>13, <2>2 DEF QuietStarted
<1>14. CASE QuietFinished(t)
  BY <1>0, <1>14 DEF QuietFinished, Goes
<1>15. CASE Read(t)
  <2> DEFINE New(k) == [me[t] EXCEPT !.todo = me[t].todo \ {k}, !.got = [me[t].got EXCEPT ![k] = index[k]]]
  <2>1. PICK k \in me[t].todo : me' = [me EXCEPT ![t] = New(k)]
    BY Zenon, <1>15 DEF Read
  <2>2. [me[t].got EXCEPT ![k] = index[k]] \in [Keys -> Nat]
    BY Zenon, <2>1
  <2>3. New(k) \in Place
    <3>1. me[t] \in Place /\ me[t].todo \ {k} \in SUBSET Keys
      BY Zenon
    <3> QED
      BY Zenon, <2>2, <3>1
  <2> HIDE DEF New
  <2> QED
    BY Zenon, <2>1, <2>3
<1>16. CASE FillCheck(t)
  <2>1. CASE started = me[t].quiet
    <3>1. "answer" \in PCs
      BY Zenon, <1>0
    <3> QED
      BY <1>16, <2>1, <3>1 DEF FillCheck
  <2>2. CASE started # me[t].quiet
    <3>1. Idle.got \in [Keys -> Nat]
      BY Zenon DEF Idle
    <3>2. "enter" \in PCs
      BY Zenon, <1>0
    <3>3. [me[t] EXCEPT !.pc = "enter", !.todo = Keys, !.got = Idle.got] \in Place
      BY ZenonT(60), <3>1, <3>2
    <3> QED
      BY Zenon, <1>16, <2>2, <3>3 DEF FillCheck
  <2> QED
    BY Zenon, <2>1, <2>2
<1>17. CASE FillAnswer(t)
  BY Zenon, <1>0, <1>17 DEF FillAnswer, Idle
<1>18. CASE ReadDone(t)
  BY <1>0, <1>18 DEF ReadDone, Goes
<1> QED
  BY Zenon, <1>1, <1>2, <1>4, <1>5, <1>6, <1>7, <1>8, <1>9, <1>10, <1>11, <1>12, <1>13, <1>14, <1>15, <1>16, <1>17, <1>18 DEF Step

\* So it does the queue.
LEMMA LineStep ==
  ASSUME readers \in SUBSET Threads, isPublishing \in BOOLEAN, NEW t \in Threads, Begin(t) \/ Step(t)
  PROVE  readers' \in SUBSET Threads /\ isPublishing' \in BOOLEAN
<1> USE DEF queue, counts, groups, entries, Want
<1>1. CASE Begin(t)
  BY Zenon, <1>1 DEF Begin, Idle
<1>2. CASE Enter(t) \/ Rouse(t)
  <2>1. readers' \in {readers, readers \cup {t}} /\ (isPublishing' = isPublishing \/ isPublishing' = TRUE)
    BY Zenon, <1>2 DEF Enter, Rouse, TakeTurn
  <2> QED
    BY Zenon, <2>1
<1>4. CASE Leave(t)
  BY Zenon, <1>4 DEF Leave, Idle
<1>5. CASE Gather(t)
  BY Zenon, <1>5 DEF Gather
<1>6. CASE Follow(t)
  BY Zenon, <1>6 DEF Follow, Goes
<1>7. CASE Start(t)
  BY Zenon, <1>7 DEF Start, Goes
<1>8. CASE Open(t)
  BY Zenon, <1>8 DEF Open, Goes
<1>9. CASE Move(t)
  BY ZenonT(60), <1>9 DEF Move
<1>10. CASE Moved(t)
  BY Zenon, <1>10 DEF Moved, Goes, Idle
<1>11. CASE Drain(t)
  BY Zenon, <1>11 DEF Drain, Goes
<1>12. CASE Finish(t)
  BY Zenon, <1>12 DEF Finish, Goes
<1>13. CASE QuietStarted(t)
  BY Zenon, <1>13 DEF QuietStarted
<1>14. CASE QuietFinished(t)
  BY Zenon, <1>14 DEF QuietFinished, Goes
<1>15. CASE Read(t)
  BY Zenon, <1>15 DEF Read
<1>16. CASE FillCheck(t)
  BY Zenon, <1>16 DEF FillCheck, Idle
<1>17. CASE FillAnswer(t)
  BY Zenon, <1>17 DEF FillAnswer, Idle
<1>18. CASE ReadDone(t)
  BY Zenon, <1>18 DEF ReadDone, Goes
<1> QED
  BY Zenon, <1>1, <1>2, <1>4, <1>5, <1>6, <1>7, <1>8, <1>9, <1>10, <1>11, <1>12, <1>13, <1>14, <1>15, <1>16, <1>17, <1>18 DEF Step

\* And the counts, the groups and the index.
LEMMA RestStep ==
  ASSUME me \in [Threads -> Place], started \in Nat, finished \in Nat, drawn \in Nat,
         gathering \in Threads \cup {NoOne}, open \in SUBSET Threads,
         following \in [Threads -> SUBSET Threads], index \in [Keys -> Nat], NEW t \in Threads, Begin(t) \/ Step(t)
  PROVE  started' \in Nat /\ finished' \in Nat /\ drawn' \in Nat /\ gathering' \in Threads \cup {NoOne} /\ open' \in SUBSET Threads
         /\ following' \in [Threads -> SUBSET Threads] /\ index' \in [Keys -> Nat]
<1> USE DEF queue, counts, groups, entries, Place
<1>1. CASE Begin(t)
  <2>1. drawn' \in {drawn, drawn + 1} /\ UNCHANGED <<started, finished, gathering, open, following, index>>
    BY Zenon, <1>1 DEF Begin
  <2> QED
    BY SMTT(60), <2>1
<1>2. CASE Enter(t)
  BY Zenon, <1>2 DEF Enter, TakeTurn, MayEnter, Goes, Inside
<1>3. CASE Rouse(t)
  BY Zenon, <1>3 DEF Rouse, TakeTurn, MayEnter, Goes, Inside
<1>4. CASE Leave(t)
  BY Zenon, <1>4 DEF Leave, Idle
<1>5. CASE Gather(t)
  BY <1>5 DEF Gather
<1>6. CASE Follow(t)
  BY Zenon, <1>6 DEF Follow, Goes
<1>7. CASE Start(t)
  BY <1>7 DEF Start, Goes
<1>8. CASE Open(t)
  BY Zenon, <1>8 DEF Open, Goes
<1>9. CASE Move(t)
  BY ZenonT(60), <1>9 DEF Move
<1>10. CASE Moved(t)
  <2>1. following' = following \/ following' = [following EXCEPT ![me[t].lead] = @ \ {t}]
    BY Zenon, <1>10 DEF Moved
  <2>2. following' \in [Threads -> SUBSET Threads]
    BY <2>1
  <2>3. gathering' \in {gathering, NoOne} /\ UNCHANGED <<started, finished, drawn, open, index>>
    BY Zenon, <1>10 DEF Moved
  <2> QED
    BY Zenon, <2>2, <2>3
<1>11. CASE Drain(t)
  BY Zenon, <1>11 DEF Drain, Goes
<1>12. CASE Finish(t)
  BY <1>12 DEF Finish, Goes
<1>13. CASE QuietStarted(t)
  BY Zenon, <1>13 DEF QuietStarted
<1>14. CASE QuietFinished(t)
  BY Zenon, <1>14 DEF QuietFinished, Goes
<1>15. CASE Read(t)
  BY Zenon, <1>15 DEF Read
<1>16. CASE FillCheck(t)
  BY Zenon, <1>16 DEF FillCheck, Idle
<1>17. CASE FillAnswer(t)
  BY Zenon, <1>17 DEF FillAnswer, Idle
<1>18. CASE ReadDone(t)
  BY Zenon, <1>18 DEF ReadDone, Goes
<1> QED
  BY Zenon, <1>1, <1>2, <1>3, <1>4, <1>5, <1>6, <1>7, <1>8, <1>9, <1>10, <1>11, <1>12, <1>13, <1>14, <1>15, <1>16, <1>17, <1>18 DEF Step

\* What a new call starts with.
LEMMA BeginEffect ==
  ASSUME me \in [Threads -> Place], NEW t \in Threads, Begin(t)
  PROVE  /\ \A u \in Threads : u # t => me'[u] = me[u]
         /\ me[t].pc = "idle" /\ me'[t].lead = NoOne /\ me'[t].todo = Keys
         /\ me'[t].pc = IF me'[t].op = "grouped" THEN "gather"
                        ELSE IF me'[t].op = "readingAll" THEN "quiet" ELSE "enter"
         /\ UNCHANGED <<waiting, readers, isPublishing, started, finished, gathering, open, following, index>>
<1>1. PICK op \in Ops : me' = [me EXCEPT ![t] = [Idle EXCEPT !.op = op, !.todo = Keys,
            !.batch = IF op \in {"grouped", "publishing"} THEN drawn + 1 ELSE 0,
            !.pc = IF op = "grouped" THEN "gather" ELSE IF op = "readingAll" THEN "quiet" ELSE "enter"]]
  BY Zenon DEF Begin
<1> QED
  BY Zenon, <1>1 DEF Begin, Idle, Place, queue, counts, groups

\* A step that only moves its caller on keeps the call's kind and its leader.
LEMMA GoesEffect ==
  ASSUME me \in [Threads -> Place], NEW t \in Threads, NEW p, Goes(t, p)
  PROVE  /\ \A u \in Threads : u # t => me'[u] = me[u]
         /\ me'[t].pc = p /\ me'[t].op = me[t].op /\ me'[t].lead = me[t].lead
  BY Zenon DEF Goes, Place

\* A call that is over leaves an idle caller.
LEMMA IdleEffect ==
  ASSUME me \in [Threads -> Place], NEW t \in Threads, me' = [me EXCEPT ![t] = Idle]
  PROVE  /\ \A u \in Threads : u # t => me'[u] = me[u]
         /\ me'[t].pc = "idle" /\ me'[t].op = "reading" /\ me'[t].lead = NoOne
<1>1. me'[t] = Idle /\ \A u \in Threads : u # t => me'[u] = me[u]
  BY Zenon
<1>2. Idle.pc = "idle" /\ Idle.op = "reading" /\ Idle.lead = NoOne
  BY Zenon DEF Idle
<1> QED
  BY <1>1, <1>2, Zenon

\* Where each step that keeps its call moves it.
LEMMA PlainEffect ==
  ASSUME me \in [Threads -> Place], NEW t \in Threads,
         \/ Follow(t) \/ Start(t) \/ Open(t) \/ Move(t) \/ Drain(t) \/ Finish(t)
         \/ QuietStarted(t) \/ QuietFinished(t) \/ Read(t) \/ FillCheck(t) \/ ReadDone(t)
  PROVE  /\ \A u \in Threads : u # t => me'[u] = me[u]
         /\ me'[t].op = me[t].op /\ me'[t].lead = me[t].lead
         /\ Follow(t) => me[t].pc = "follow" /\ me'[t].pc = "move"
         /\ Start(t) => me[t].pc = "start" /\ me'[t].pc = IF me[t].op = "grouped" THEN "open" ELSE "move"
         /\ Open(t) => me[t].pc = "open" /\ me'[t].pc = "move"
         /\ Move(t) => me[t].pc = "move" /\ me'[t].pc = "move"
         /\ Drain(t) => me[t].pc = "drain" /\ me'[t].pc = "finish"
         /\ Finish(t) => me[t].pc = "finish" /\ me'[t].pc = "leave"
         /\ QuietStarted(t) => me[t].pc = "quiet" /\ me'[t].pc = "quiet2"
         /\ QuietFinished(t) => me[t].pc = "quiet2" /\ me'[t].pc \in {"fill", "enter"}
         /\ Read(t) => me[t].pc \in {"read", "fill"} /\ me'[t].pc = me[t].pc
         /\ FillCheck(t) => me[t].pc = "fill" /\ me'[t].pc \in {"answer", "enter"}
         /\ ReadDone(t) => me[t].pc = "read" /\ me'[t].pc = "leave"
<1> DEFINE Kept == /\ \A u \in Threads : u # t => me'[u] = me[u]
                   /\ me'[t].op = me[t].op /\ me'[t].lead = me[t].lead
<1>1. ASSUME Follow(t) PROVE Kept /\ me[t].pc = "follow" /\ me'[t].pc = "move"
  <2>1. me[t].pc = "follow" /\ Goes(t, "move")
    BY <1>1, Zenon DEF Follow
  <2> QED
    BY Zenon, <2>1, GoesEffect
<1>2. ASSUME Start(t) PROVE Kept /\ me[t].pc = "start" /\ me'[t].pc = IF me[t].op = "grouped" THEN "open" ELSE "move"
  <2>1. me[t].pc = "start" /\ Goes(t, IF me[t].op = "grouped" THEN "open" ELSE "move")
    BY <1>2, Zenon DEF Start
  <2> QED
    BY Zenon, <2>1, GoesEffect
<1>3. ASSUME Open(t) PROVE Kept /\ me[t].pc = "open" /\ me'[t].pc = "move"
  <2>1. me[t].pc = "open" /\ Goes(t, "move")
    BY <1>3, Zenon DEF Open
  <2> QED
    BY Zenon, <2>1, GoesEffect
<1>4. ASSUME Move(t) PROVE Kept /\ me[t].pc = "move" /\ me'[t].pc = "move"
  BY <1>4 DEF Move, Place
<1>5. ASSUME Drain(t) PROVE Kept /\ me[t].pc = "drain" /\ me'[t].pc = "finish"
  <2>1. me[t].pc = "drain" /\ Goes(t, "finish")
    BY <1>5, Zenon DEF Drain
  <2> QED
    BY Zenon, <2>1, GoesEffect
<1>6. ASSUME Finish(t) PROVE Kept /\ me[t].pc = "finish" /\ me'[t].pc = "leave"
  <2>1. me[t].pc = "finish" /\ Goes(t, "leave")
    BY <1>6, Zenon DEF Finish
  <2> QED
    BY Zenon, <2>1, GoesEffect
<1>7. ASSUME QuietStarted(t) PROVE Kept /\ me[t].pc = "quiet" /\ me'[t].pc = "quiet2"
  BY Zenon, <1>7 DEF QuietStarted, Place
<1>8. ASSUME QuietFinished(t) PROVE Kept /\ me[t].pc = "quiet2" /\ me'[t].pc \in {"fill", "enter"}
  <2>1. me[t].pc = "quiet2" /\ Goes(t, IF me[t].quiet = finished THEN "fill" ELSE "enter")
    BY <1>8, Zenon DEF QuietFinished
  <2> QED
    BY Zenon, <2>1, GoesEffect
<1>9. ASSUME Read(t) PROVE Kept /\ me[t].pc \in {"read", "fill"} /\ me'[t].pc = me[t].pc
  <2>1. me[t].pc \in {"read", "fill"} /\ \E x, y : me' = [me EXCEPT ![t] = [@ EXCEPT !.todo = x, !.got = y]]
    BY <1>9, Zenon DEF Read
  <2> QED
    BY Zenon, <2>1 DEF Place
<1>10. ASSUME FillCheck(t) PROVE Kept /\ me[t].pc = "fill" /\ me'[t].pc \in {"answer", "enter"}
  BY Zenon, <1>10 DEF FillCheck, Place
<1>11. ASSUME ReadDone(t) PROVE Kept /\ me[t].pc = "read" /\ me'[t].pc = "leave"
  <2>1. me[t].pc = "read" /\ Goes(t, "leave")
    BY <1>11, Zenon DEF ReadDone
  <2> QED
    BY Zenon, <2>1, GoesEffect
<1>12. Kept
  BY <1>1, <1>2, <1>3, <1>4, <1>5, <1>6, <1>7, <1>8, <1>9, <1>10, <1>11, Zenon
<1> QED
  BY <1>1, <1>2, <1>3, <1>4, <1>5, <1>6, <1>7, <1>8, <1>9, <1>10, <1>11, <1>12, Zenon

\* Where a batch joins a group or leads one.
LEMMA GatherEffect ==
  ASSUME me \in [Threads -> Place], gathering \in Threads \cup {NoOne}, NEW t \in Threads, Gather(t)
  PROVE  /\ \A u \in Threads : u # t => me'[u] = me[u]
         /\ me[t].pc = "gather"
         /\ me'[t].lead = IF gathering = NoOne THEN t ELSE gathering
         /\ me'[t].pc = IF gathering = NoOne THEN "enter" ELSE "follow"
         /\ me'[t].op = me[t].op /\ me'[t].batch = me[t].batch /\ me'[t].todo = me[t].todo
         /\ UNCHANGED <<waiting, readers, isPublishing, started, finished, open, index>>
<1> DEFINE new(p, l) == [me[t] EXCEPT !.pc = p, !.lead = l]
<1>0. \A p, l : LET n == new(p, l)
                IN  n.pc = p /\ n.lead = l /\ n.op = me[t].op /\ n.batch = me[t].batch /\ n.todo = me[t].todo
  BY Zenon DEF Place
<1>1. CASE gathering = NoOne
  <2>1. me' = [me EXCEPT ![t] = new("enter", t)]
    BY Zenon, <1>1 DEF Gather
  <2> HIDE DEF new
  <2> QED
    BY <1>0, <1>1, <2>1 DEF Gather, queue, counts, entries
<1>2. CASE gathering # NoOne
  <2>1. me' = [me EXCEPT ![t] = new("follow", gathering)]
    BY Zenon, <1>2 DEF Gather
  <2> HIDE DEF new
  <2> QED
    BY <1>0, <1>2, <2>1 DEF Gather, queue, counts, entries
<1> QED
  BY Zenon, <1>1, <1>2

\* A thread whose turn has come is at the front, with what it wants.
LEMMA TurnIsFront ==
  ASSUME InLine, NEW t \in Threads
  PROVE  LET line == Append(waiting, [who |-> t, want |-> Want(t)])
         IN  /\ me[t].pc = "enter" /\ MayEnter(t, line) => waiting = <<>> /\ line[1].want = Want(t)
             /\ me[t].pc = "parked" /\ MayEnter(t, waiting) => waiting # <<>> /\ waiting[1].want = Want(t)
<1> DEFINE line == Append(waiting, [who |-> t, want |-> Want(t)])
<1>0. waiting \in Seq(Waiter)
  BY Zenon DEF InLine
<1>1. ASSUME me[t].pc = "enter", MayEnter(t, line) PROVE waiting = <<>> /\ line[1].want = Want(t)
  <2>1. CASE waiting = <<>>
    BY <1>0, <2>1
  <2>2. CASE waiting # <<>>
    <3>1. Len(waiting) \in Nat /\ Len(waiting) >= 1 /\ line[1] = waiting[1]
      BY <1>0, <2>2
    <3>2. me[waiting[1].who].pc = "parked" /\ waiting[1].who = t
      BY <1>1, <3>1 DEF InLine, MayEnter
    <3> QED
      BY Zenon, <1>1, <3>2
  <2> QED
    BY Zenon, <2>1, <2>2
<1>2. ASSUME me[t].pc = "parked", MayEnter(t, waiting) PROVE waiting # <<>> /\ waiting[1].want = Want(t)
  BY <1>2 DEF InLine, MayEnter
<1> QED
  BY Zenon, <1>1, <1>2

\* A caller takes its turn, as a read beside others or as a batch alone, or parks.
LEMMA EnterEffect ==
  ASSUME me \in [Threads -> Place], InLine, NEW t \in Threads, Enter(t) \/ Rouse(t)
  PROVE  /\ \A u \in Threads : u # t => me'[u] = me[u]
         /\ me[t].pc \in {"enter", "parked"}
         /\ me'[t].op = me[t].op /\ me'[t].lead = me[t].lead /\ me'[t].batch = me[t].batch
         /\ me'[t].todo = me[t].todo /\ me'[t].got = me[t].got
         /\ \/ me'[t].pc = "parked" /\ UNCHANGED <<readers, isPublishing>>
            \/ /\ ~ Batch(t) /\ ~ isPublishing /\ me'[t].pc = "read"
               /\ readers' = readers \cup {t} /\ isPublishing' = isPublishing
            \/ /\ Batch(t) /\ ~ isPublishing /\ me'[t].pc = "start"
               /\ readers = {} /\ readers' = readers /\ isPublishing' = TRUE
         /\ UNCHANGED <<started, finished, gathering, open, following, index, drawn>>
<1> USE DEF queue, counts, groups, entries
<1>1. ASSUME NEW p, me' = [me EXCEPT ![t].pc = p]
      PROVE  /\ \A u \in Threads : u # t => me'[u] = me[u]
             /\ me'[t].pc = p
             /\ me'[t].op = me[t].op /\ me'[t].lead = me[t].lead /\ me'[t].batch = me[t].batch
             /\ me'[t].todo = me[t].todo /\ me'[t].got = me[t].got
  BY Zenon, <1>1 DEF Place
<1>2. ASSUME NEW line, TakeTurn(t, line), FrontMayEnter(line, readers, isPublishing), line[1].want = Want(t)
      PROVE  \/ /\ ~ Batch(t) /\ ~ isPublishing /\ Goes(t, "read")
                /\ readers' = readers \cup {t} /\ isPublishing' = isPublishing
             \/ /\ Batch(t) /\ ~ isPublishing /\ Goes(t, "start")
                /\ readers = {} /\ readers' = readers /\ isPublishing' = TRUE
  BY Zenon, <1>2 DEF TakeTurn, FrontMayEnter, Batch, Inside, Want
<1>3. CASE Enter(t)
  <2> DEFINE line == Append(waiting, [who |-> t, want |-> Want(t)])
  <2>1. CASE MayEnter(t, line)
    <3>1. TakeTurn(t, line) /\ me[t].pc = "enter" /\ UNCHANGED <<counts, groups, entries>>
      BY Zenon, <1>3, <2>1 DEF Enter
    <3>2. line[1].want = Want(t) /\ FrontMayEnter(line, readers, isPublishing)
      BY Zenon, <2>1, <3>1, TurnIsFront DEF MayEnter
    <3> HIDE DEF line
    <3> QED
      BY Zenon, <1>1, <1>2, <3>1, <3>2 DEF Goes
  <2>2. CASE ~ MayEnter(t, line)
    <3>1. Goes(t, "parked") /\ me[t].pc = "enter" /\ UNCHANGED <<readers, isPublishing, counts, groups, entries>>
      BY Zenon, <1>3, <2>2 DEF Enter
    <3> QED
      BY Zenon, <1>1, <3>1 DEF Goes
  <2> QED
    BY Zenon, <2>1, <2>2
<1>4. CASE Rouse(t)
  <2>1. CASE MayEnter(t, waiting)
    <3>1. TakeTurn(t, waiting) /\ me[t].pc = "parked" /\ UNCHANGED <<counts, groups, entries>>
      BY Zenon, <1>4, <2>1 DEF Rouse
    <3>2. waiting[1].want = Want(t) /\ FrontMayEnter(waiting, readers, isPublishing)
      BY Zenon, <2>1, <3>1, TurnIsFront DEF MayEnter
    <3> QED
      BY Zenon, <1>1, <1>2, <3>1, <3>2 DEF Goes
  <2>2. CASE ~ MayEnter(t, waiting)
    BY Zenon, <1>4, <2>2 DEF Rouse
  <2> QED
    BY Zenon, <2>1, <2>2
<1> QED
  BY Zenon, <1>3, <1>4

\* A step of one call leaves the others what they are.
LEMMA CallsKept ==
  ASSUME Calls, NEW t \in Threads, \A u \in Threads : u # t => me'[u] = me[u], CallOf(t)'
  PROVE  Calls'
<1>1. ASSUME NEW u \in Threads, u # t PROVE CallOf(u)'
  <2>1. CallOf(u)
    BY <1>1, Zenon DEF Calls, CallOf
  <2>2. me'[u] = me[u]
    BY <1>1, Zenon
  <2> QED
    BY <2>1, <2>2, Zenon DEF CallOf, Batch, Want, Leads, Follows
<1>2. \A u \in Threads : CallOf(u)'
  BY <1>1, Zenon
<1> QED
  BY <1>2, Zenon DEF Calls, CallOf

\* A step leaves its call a batch's or a read's.
LEMMA CallsStep ==
  ASSUME NoOne \notin Threads, me \in [Threads -> Place], gathering \in Threads \cup {NoOne}, Calls, Groups, InLine,
         NEW t \in Threads, Begin(t) \/ Step(t)
  PROVE  Calls'
<1>0. CallOf(t) /\ t # NoOne /\ me[t].lead \in Threads \cup {NoOne}
  <2>1. me[t].lead \in Threads \cup {NoOne}
    BY Zenon DEF Place
  <2> QED
    BY <2>1, Zenon DEF Calls, CallOf
<1>1. CASE Begin(t)
  <2>1. /\ \A u \in Threads : u # t => me'[u] = me[u]
        /\ me[t].pc = "idle" /\ me'[t].lead = NoOne
        /\ me'[t].pc = IF me'[t].op = "grouped" THEN "gather"
                       ELSE IF me'[t].op = "readingAll" THEN "quiet" ELSE "enter"
    BY <1>1, BeginEffect, Zenon
  <2>3. CallOf(t)'
    BY Zenon, <1>0, <2>1 DEF CallOf, Batch, Want, Leads, Follows
  <2> QED
    BY <2>1, <2>3, CallsKept, Zenon
<1>2. CASE Enter(t) \/ Rouse(t)
  <2>1. /\ \A u \in Threads : u # t => me'[u] = me[u]
        /\ me[t].pc \in {"enter", "parked"} /\ me'[t].op = me[t].op /\ me'[t].lead = me[t].lead
        /\ me'[t].pc \in {"parked", "read", "start"}
        /\ (Batch(t) => me'[t].pc # "read") /\ (~ Batch(t) => me'[t].pc # "start")
    BY <1>2, EnterEffect, ZenonT(60)
  <2>3. CallOf(t)'
    BY Zenon, <1>0, <2>1 DEF CallOf, Batch, Want, Leads, Follows
  <2> QED
    BY <2>1, <2>3, CallsKept, Zenon
<1>3. CASE Leave(t)
  <2>1. /\ \A u \in Threads : u # t => me'[u] = me[u]
        /\ me[t].pc = "leave" /\ me'[t].lead = NoOne /\ me'[t].pc = "idle" /\ me'[t].op = "reading"
    <3>1. me[t].pc = "leave" /\ me' = [me EXCEPT ![t] = Idle]
      BY <1>3, Zenon DEF Leave
    <3> QED
      BY <3>1, IdleEffect, Zenon
  <2>3. CallOf(t)'
    BY Zenon, <1>0, <2>1 DEF CallOf, Batch, Want, Leads, Follows
  <2> QED
    BY <2>1, <2>3, CallsKept, Zenon
<1>4. CASE Gather(t)
  <2>1. /\ \A u \in Threads : u # t => me'[u] = me[u]
        /\ me[t].pc = "gather" /\ me'[t].op = me[t].op
        /\ me'[t].lead = (IF gathering = NoOne THEN t ELSE gathering)
        /\ me'[t].pc = (IF gathering = NoOne THEN "enter" ELSE "follow")
    BY <1>4, GatherEffect, Zenon
  <2>2. gathering # t
    BY <2>1 DEF Groups
  <2>3. CallOf(t)'
    BY <1>0, <2>1, <2>2 DEF CallOf, Batch, Want, Leads, Follows
  <2> QED
    BY <2>1, <2>3, CallsKept, Zenon
<1>5. CASE Follow(t)
  <2>1. /\ \A u \in Threads : u # t => me'[u] = me[u]
        /\ me'[t].op = me[t].op /\ me'[t].lead = me[t].lead /\ me[t].pc = "follow" /\ me'[t].pc = "move"
    BY <1>5, PlainEffect, Zenon
  <2>3. CallOf(t)'
    BY Zenon, <1>0, <2>1 DEF CallOf, Batch, Want, Leads, Follows
  <2> QED
    BY <2>1, <2>3, CallsKept, Zenon
<1>6. CASE Start(t)
  <2>1. /\ \A u \in Threads : u # t => me'[u] = me[u]
        /\ me'[t].op = me[t].op /\ me'[t].lead = me[t].lead /\ me[t].pc = "start" /\ me'[t].pc = IF me[t].op = "grouped" THEN "open" ELSE "move"
    BY <1>6, PlainEffect, Zenon
  <2>2. Batch(t) /\ (Batch(t)' <=> Batch(t)) /\ (Follows(t)' <=> Follows(t)) /\ (Leads(t)' <=> Leads(t))
    BY <1>0, <2>1, Zenon DEF CallOf, Batch, Want, Leads, Follows
  <2>4. ~ Follows(t) /\ (me[t].lead # NoOne => me[t].op = "grouped") /\ (me[t].op = "grouped" => me[t].lead # NoOne)
    BY Zenon, <1>0, <2>1 DEF CallOf
  <2>5. me[t].op = "grouped" => Leads(t)
    BY Zenon, <1>0, <2>4 DEF Leads, Follows
  <2>3. CallOf(t)'
    <3>1. CASE me[t].op = "grouped"
      <4>1. me'[t].pc = "open"
        BY Zenon, <2>1, <3>1
      <4> QED
        BY Zenon, <2>1, <2>2, <2>4, <2>5, <3>1, <4>1 DEF CallOf
    <3>2. CASE me[t].op # "grouped"
      <4>1. me'[t].pc = "move"
        BY Zenon, <2>1, <3>2
      <4> QED
        BY Zenon, <2>1, <2>2, <2>4, <3>2, <4>1 DEF CallOf
    <3> QED
      BY <3>1, <3>2, Zenon
  <2> QED
    BY <2>1, <2>3, CallsKept, Zenon
<1>7. CASE Open(t)
  <2>1. /\ \A u \in Threads : u # t => me'[u] = me[u]
        /\ me'[t].op = me[t].op /\ me'[t].lead = me[t].lead /\ me[t].pc = "open" /\ me'[t].pc = "move"
    BY <1>7, PlainEffect, Zenon
  <2>3. CallOf(t)'
    BY Zenon, <1>0, <2>1 DEF CallOf, Batch, Want, Leads, Follows
  <2> QED
    BY <2>1, <2>3, CallsKept, Zenon
<1>8. CASE Move(t)
  <2>1. /\ \A u \in Threads : u # t => me'[u] = me[u]
        /\ me'[t].op = me[t].op /\ me'[t].lead = me[t].lead /\ me[t].pc = "move" /\ me'[t].pc = "move"
    BY <1>8, PlainEffect, Zenon
  <2>3. CallOf(t)'
    BY Zenon, <1>0, <2>1 DEF CallOf, Batch, Want, Leads, Follows
  <2> QED
    BY <2>1, <2>3, CallsKept, Zenon
<1>9. CASE Moved(t)
  <2>1. \A u \in Threads : u # t => me'[u] = me[u]
    <3>1. (\E p : Goes(t, p)) \/ me' = [me EXCEPT ![t] = Idle]
      BY <1>9, Zenon DEF Moved
    <3> QED
      BY <3>1, GoesEffect, IdleEffect, Zenon
  <2>2. CASE me[t].lead = NoOne
    <3>1. me[t].pc = "move" /\ Goes(t, "finish")
      BY <1>0, <1>9, <2>2, Zenon DEF Moved
    <3>2. me'[t].pc = "finish" /\ me'[t].op = me[t].op /\ me'[t].lead = me[t].lead
      BY <3>1, GoesEffect, Zenon
    <3>3. CallOf(t)'
      BY Zenon, <1>0, <2>2, <3>1, <3>2 DEF CallOf, Batch, Want, Leads, Follows
    <3> QED
      BY <2>1, <3>3, CallsKept, Zenon
  <2>3. CASE me[t].lead = t
    <3>1. me[t].pc = "move" /\ Goes(t, "drain")
      BY <1>0, <1>9, <2>3, Zenon DEF Moved
    <3>2. me'[t].pc = "drain" /\ me'[t].op = me[t].op /\ me'[t].lead = me[t].lead
      BY <3>1, GoesEffect, Zenon
    <3>3. CallOf(t)'
      BY Zenon, <1>0, <2>3, <3>1, <3>2 DEF CallOf, Batch, Want, Leads, Follows
    <3> QED
      BY <2>1, <3>3, CallsKept, Zenon
  <2>4. CASE me[t].lead \notin {NoOne, t}
    <3>1. me' = [me EXCEPT ![t] = Idle]
      BY <1>9, <2>4, Zenon DEF Moved
    <3>2. me'[t].pc = "idle" /\ me'[t].op = "reading" /\ me'[t].lead = NoOne
      BY <3>1, IdleEffect, Zenon
    <3>3. CallOf(t)'
      BY Zenon, <1>0, <3>2 DEF CallOf, Batch, Want, Leads, Follows
    <3> QED
      BY <2>1, <3>3, CallsKept, Zenon
  <2> QED
    BY <2>2, <2>3, <2>4, Zenon
<1>10. CASE Drain(t)
  <2>1. /\ \A u \in Threads : u # t => me'[u] = me[u]
        /\ me'[t].op = me[t].op /\ me'[t].lead = me[t].lead /\ me[t].pc = "drain" /\ me'[t].pc = "finish"
    BY <1>10, PlainEffect, Zenon
  <2>3. CallOf(t)'
    BY Zenon, <1>0, <2>1 DEF CallOf, Batch, Want, Leads, Follows
  <2> QED
    BY <2>1, <2>3, CallsKept, Zenon
<1>11. CASE Finish(t)
  <2>1. /\ \A u \in Threads : u # t => me'[u] = me[u]
        /\ me'[t].op = me[t].op /\ me'[t].lead = me[t].lead /\ me[t].pc = "finish" /\ me'[t].pc = "leave"
    BY <1>11, PlainEffect, Zenon
  <2>3. CallOf(t)'
    BY Zenon, <1>0, <2>1 DEF CallOf, Batch, Want, Leads, Follows
  <2> QED
    BY <2>1, <2>3, CallsKept, Zenon
<1>12. CASE QuietStarted(t)
  <2>1. /\ \A u \in Threads : u # t => me'[u] = me[u]
        /\ me'[t].op = me[t].op /\ me'[t].lead = me[t].lead /\ me[t].pc = "quiet" /\ me'[t].pc = "quiet2"
    BY <1>12, PlainEffect, Zenon
  <2>3. CallOf(t)'
    BY Zenon, <1>0, <2>1 DEF CallOf, Batch, Want, Leads, Follows
  <2> QED
    BY <2>1, <2>3, CallsKept, Zenon
<1>13. CASE QuietFinished(t)
  <2>1. /\ \A u \in Threads : u # t => me'[u] = me[u]
        /\ me'[t].op = me[t].op /\ me'[t].lead = me[t].lead /\ me[t].pc = "quiet2" /\ me'[t].pc \in {"fill", "enter"}
    BY <1>13, PlainEffect, Zenon
  <2>3. CallOf(t)'
    BY Zenon, <1>0, <2>1 DEF CallOf, Batch, Want, Leads, Follows
  <2> QED
    BY <2>1, <2>3, CallsKept, Zenon
<1>14. CASE Read(t)
  <2>1. /\ \A u \in Threads : u # t => me'[u] = me[u]
        /\ me'[t].op = me[t].op /\ me'[t].lead = me[t].lead /\ me[t].pc \in {"read", "fill"} /\ me'[t].pc = me[t].pc
    BY <1>14, PlainEffect, Zenon
  <2>3. CallOf(t)'
    BY Zenon, <1>0, <2>1 DEF CallOf, Batch, Want, Leads, Follows
  <2> QED
    BY <2>1, <2>3, CallsKept, Zenon
<1>15. CASE FillCheck(t)
  <2>1. /\ \A u \in Threads : u # t => me'[u] = me[u]
        /\ me'[t].op = me[t].op /\ me'[t].lead = me[t].lead /\ me[t].pc = "fill" /\ me'[t].pc \in {"answer", "enter"}
    BY <1>15, PlainEffect, Zenon
  <2>3. CallOf(t)'
    BY Zenon, <1>0, <2>1 DEF CallOf, Batch, Want, Leads, Follows
  <2> QED
    BY <2>1, <2>3, CallsKept, Zenon
<1>16. CASE FillAnswer(t)
  <2>1. /\ \A u \in Threads : u # t => me'[u] = me[u]
        /\ me[t].pc = "answer" /\ me'[t].lead = NoOne /\ me'[t].pc = "idle" /\ me'[t].op = "reading"
    <3>1. me[t].pc = "answer" /\ me' = [me EXCEPT ![t] = Idle]
      BY <1>16, Zenon DEF FillAnswer
    <3> QED
      BY <3>1, IdleEffect, Zenon
  <2>3. CallOf(t)'
    BY Zenon, <1>0, <2>1 DEF CallOf, Batch, Want, Leads, Follows
  <2> QED
    BY <2>1, <2>3, CallsKept, Zenon
<1>17. CASE ReadDone(t)
  <2>1. /\ \A u \in Threads : u # t => me'[u] = me[u]
        /\ me'[t].op = me[t].op /\ me'[t].lead = me[t].lead /\ me[t].pc = "read" /\ me'[t].pc = "leave"
    BY <1>17, PlainEffect, Zenon
  <2>3. CallOf(t)'
    BY Zenon, <1>0, <2>1 DEF CallOf, Batch, Want, Leads, Follows
  <2> QED
    BY <2>1, <2>3, CallsKept, Zenon
<1> QED
  BY <1>1, <1>2, <1>3, <1>4, <1>5, <1>6, <1>7, <1>8, <1>9, <1>10, <1>11, <1>12, <1>13, <1>14, <1>15, <1>16, <1>17, Zenon DEF Step

\* What a call's place says of its kind and its leader.
LEMMA CallFacts ==
  ASSUME Calls, NEW t \in Threads
  PROVE  /\ Batch(t) <=> me[t].op \in {"grouped", "publishing"}
         /\ me[t].pc \in {"gather", "follow", "start", "open", "move", "drain", "finish"} => Batch(t)
         /\ me[t].pc \in {"quiet", "quiet2", "fill", "answer", "read"} => ~ Batch(t)
         /\ me[t].lead # NoOne => me[t].op = "grouped"
         /\ Follows(t) => me[t].pc \in {"follow", "move"}
         /\ me[t].pc \in {"open", "drain"} => me[t].lead = t
         /\ me[t].pc = "follow" => Follows(t)
  BY Zenon DEF Calls, CallOf, Batch, Want, Leads

\* A step that leaves its own caller moving or not, and the counts alone.
LEMMA CountsKept ==
  ASSUME Counts, NEW t \in Threads, \A u \in Threads : u # t => me'[u] = me[u],
         Moving(t)' <=> Moving(t), started' = started, finished' = finished
  PROVE  Counts'
<1>1. \A u \in Threads : Moving(u)' <=> Moving(u)
  BY Zenon DEF Moving, Holds, Follows, Batch, Want
<1> QED
  BY <1>1, Zenon DEF Counts

\* The counts differ while a batch may move.
LEMMA CountsStep ==
  ASSUME NoOne \notin Threads, me \in [Threads -> Place], started \in Nat, finished \in Nat, Calls, InQueue, Counts, InLine, gathering \in Threads \cup {NoOne},
         NEW t \in Threads, Begin(t) \/ Step(t)
  PROVE  Counts'
<1>0. /\ me[t].pc \in {"gather", "follow", "start", "open", "move", "drain", "finish"} => Batch(t)
      /\ Follows(t) => me[t].pc \in {"follow", "move"}
      /\ me[t].pc = "follow" => Follows(t)
      /\ \A u \in Threads : Moving(u) /\ Holds(t) => u = t
  BY CallFacts, Zenon DEF InQueue, Moving
<1>1. CASE Begin(t)
  <2>1. /\ \A u \in Threads : u # t => me'[u] = me[u]
        /\ me[t].pc = "idle" /\ me'[t].lead = NoOne /\ me'[t].pc \in {"gather", "quiet", "enter"}
    BY Zenon, <1>1, BeginEffect
  <2>2. started' = started /\ finished' = finished
    BY <1>1, BeginEffect, Zenon
  <2>3. Moving(t)' <=> Moving(t)
    BY Zenon, <1>0, <2>1 DEF Moving, Holds, Follows, Batch, Want
  <2> QED
    BY <2>1, <2>2, <2>3, CountsKept, Zenon
<1>2. CASE Enter(t) \/ Rouse(t)
  <2>1. /\ \A u \in Threads : u # t => me'[u] = me[u]
        /\ me[t].pc \in {"enter", "parked"} /\ me'[t].op = me[t].op /\ me'[t].lead = me[t].lead
        /\ me'[t].pc \in {"parked", "read", "start"} /\ (Batch(t) => me'[t].pc # "read")
    BY <1>2, EnterEffect, ZenonT(60)
  <2>2. started' = started /\ finished' = finished
    BY <1>2, EnterEffect, ZenonT(60)
  <2>3. Moving(t)' <=> Moving(t)
    BY Zenon, <1>0, <2>1 DEF Moving, Holds, Follows, Batch, Want
  <2> QED
    BY <2>1, <2>2, <2>3, CountsKept, Zenon
<1>3. CASE Leave(t)
  <2>1. /\ \A u \in Threads : u # t => me'[u] = me[u]
        /\ me[t].pc = "leave" /\ me'[t].lead = NoOne /\ me'[t].pc = "idle" /\ me'[t].op = "reading"
    <3>1. me[t].pc = "leave" /\ me' = [me EXCEPT ![t] = Idle]
      BY <1>3, Zenon DEF Leave
    <3> QED
      BY <3>1, IdleEffect, Zenon
  <2>2. started' = started /\ finished' = finished
    BY <1>3, Zenon DEF Leave, counts
  <2>3. Moving(t)' <=> Moving(t)
    BY Zenon, <1>0, <2>1 DEF Moving, Holds, Follows, Batch, Want
  <2> QED
    BY <2>1, <2>2, <2>3, CountsKept, Zenon
<1>4. CASE Gather(t)
  <2>1. /\ \A u \in Threads : u # t => me'[u] = me[u]
        /\ me[t].pc = "gather" /\ me'[t].op = me[t].op /\ me'[t].pc \in {"enter", "follow"}
    BY Zenon, <1>4, GatherEffect
  <2>2. started' = started /\ finished' = finished
    BY <1>4, GatherEffect, Zenon
  <2>3. Moving(t)' <=> Moving(t)
    BY Zenon, <1>0, <2>1 DEF Moving, Holds, Follows, Batch, Want
  <2> QED
    BY <2>1, <2>2, <2>3, CountsKept, Zenon
<1>5. CASE Follow(t)
  <2>1. /\ \A u \in Threads : u # t => me'[u] = me[u]
        /\ me'[t].op = me[t].op /\ me'[t].lead = me[t].lead /\ me[t].pc = "follow" /\ me'[t].pc = "move"
    BY <1>5, PlainEffect, Zenon
  <2>2. started' = started /\ finished' = finished
    BY <1>5, Zenon DEF Follow, counts
  <2>3. Moving(t)' <=> Moving(t)
    BY Zenon, <1>0, <2>1 DEF Moving, Holds, Follows, Batch, Want
  <2> QED
    BY <2>1, <2>2, <2>3, CountsKept, Zenon
<1>6. CASE Start(t)
  <2>1. /\ \A u \in Threads : u # t => me'[u] = me[u]
        /\ me'[t].op = me[t].op /\ me'[t].lead = me[t].lead /\ me[t].pc = "start" /\ me'[t].pc = IF me[t].op = "grouped" THEN "open" ELSE "move"
    BY <1>6, PlainEffect, Zenon
  <2>2. started' = started + 1 /\ finished' = finished
    BY <1>6, Zenon DEF Start, counts
  <2>3. Holds(t) /\ ~ Moving(t) /\ Moving(t)'
    BY Zenon, <1>0, <2>1 DEF Moving, Holds, Follows, Batch, Want
  <2>4. started = finished
    BY <1>0, <2>3, Zenon DEF Counts
  <2> QED
    BY Zenon, <2>2, <2>3, <2>4 DEF Counts
<1>7. CASE Open(t)
  <2>1. /\ \A u \in Threads : u # t => me'[u] = me[u]
        /\ me'[t].op = me[t].op /\ me'[t].lead = me[t].lead /\ me[t].pc = "open" /\ me'[t].pc = "move"
    BY <1>7, PlainEffect, Zenon
  <2>2. started' = started /\ finished' = finished
    BY <1>7, Zenon DEF Open, counts
  <2>3. Moving(t)' <=> Moving(t)
    BY Zenon, <1>0, <2>1 DEF Moving, Holds, Follows, Batch, Want
  <2> QED
    BY <2>1, <2>2, <2>3, CountsKept, Zenon
<1>8. CASE Move(t)
  <2>1. /\ \A u \in Threads : u # t => me'[u] = me[u]
        /\ me'[t].op = me[t].op /\ me'[t].lead = me[t].lead /\ me[t].pc = "move" /\ me'[t].pc = "move"
    BY <1>8, PlainEffect, Zenon
  <2>2. started' = started /\ finished' = finished
    BY <1>8, Zenon DEF Move, counts
  <2>3. Moving(t)' <=> Moving(t)
    BY Zenon, <1>0, <2>1 DEF Moving, Holds, Follows, Batch, Want
  <2> QED
    BY <2>1, <2>2, <2>3, CountsKept, Zenon
<1>9. CASE Moved(t)
  <2>1. /\ \A u \in Threads : u # t => me'[u] = me[u]
        /\ me[t].pc = "move"
        /\ \/ me'[t].pc \in {"finish", "drain"} /\ me'[t].op = me[t].op /\ me'[t].lead = me[t].lead /\ ~ Follows(t)
           \/ me'[t].pc = "idle" /\ me'[t].op = "reading" /\ Follows(t)
    <3>1. CASE me[t].lead \in {NoOne, t}
      <4>1. me[t].pc = "move" /\ \E p \in {"finish", "drain"} : Goes(t, p)
        BY <1>9, <3>1, Zenon DEF Moved
      <4>2. ~ Follows(t)
        BY <3>1, Zenon DEF Follows
      <4> QED
        BY Zenon, <4>1, <4>2, GoesEffect
    <3>2. CASE me[t].lead \notin {NoOne, t}
      <4>1. me[t].pc = "move" /\ me' = [me EXCEPT ![t] = Idle]
        BY <1>9, <3>2, Zenon DEF Moved
      <4>2. Follows(t)
        BY Zenon, <3>2 DEF Follows, Place
      <4> QED
        BY <4>1, <4>2, IdleEffect, Zenon
    <3> QED
      BY <3>1, <3>2, Zenon
  <2>2. started' = started /\ finished' = finished
    BY <1>9, Zenon DEF Moved, counts
  <2>3. Moving(t)' <=> Moving(t)
    BY Zenon, <1>0, <2>1 DEF Moving, Holds, Follows, Batch, Want
  <2> QED
    BY <2>1, <2>2, <2>3, CountsKept, Zenon
<1>10. CASE Drain(t)
  <2>1. /\ \A u \in Threads : u # t => me'[u] = me[u]
        /\ me'[t].op = me[t].op /\ me'[t].lead = me[t].lead /\ me[t].pc = "drain" /\ me'[t].pc = "finish"
    BY <1>10, PlainEffect, Zenon
  <2>2. started' = started /\ finished' = finished
    BY <1>10, Zenon DEF Drain, counts
  <2>3. Moving(t)' <=> Moving(t)
    BY Zenon, <1>0, <2>1 DEF Moving, Holds, Follows, Batch, Want
  <2> QED
    BY <2>1, <2>2, <2>3, CountsKept, Zenon
<1>11. CASE Finish(t)
  <2>1. /\ \A u \in Threads : u # t => me'[u] = me[u]
        /\ me'[t].op = me[t].op /\ me'[t].lead = me[t].lead /\ me[t].pc = "finish" /\ me'[t].pc = "leave"
    BY <1>11, PlainEffect, Zenon
  <2>2. started' = started /\ finished' = finished + 1
    BY <1>11, Zenon DEF Finish, counts
  <2>3. Moving(t) /\ Holds(t) /\ ~ Moving(t)'
    BY Zenon, <1>0, <2>1 DEF Moving, Holds, Follows, Batch, Want
  <2>4. started = finished + 1
    BY <2>3, Zenon DEF Counts
  <2>5. \A u \in Threads : ~ Moving(u)'
    <3>1. \A u \in Threads : u # t => (Moving(u)' <=> Moving(u))
      BY <2>1, Zenon DEF Moving, Holds, Follows, Batch, Want
    <3> QED
      BY <1>0, <2>3, <3>1, Zenon
  <2> QED
    BY Zenon, <2>2, <2>4, <2>5 DEF Counts
<1>12. CASE QuietStarted(t)
  <2>1. /\ \A u \in Threads : u # t => me'[u] = me[u]
        /\ me'[t].op = me[t].op /\ me'[t].lead = me[t].lead /\ me[t].pc = "quiet" /\ me'[t].pc = "quiet2"
    BY <1>12, PlainEffect, Zenon
  <2>2. started' = started /\ finished' = finished
    BY <1>12, Zenon DEF QuietStarted, counts
  <2>3. Moving(t)' <=> Moving(t)
    BY Zenon, <1>0, <2>1 DEF Moving, Holds, Follows, Batch, Want
  <2> QED
    BY <2>1, <2>2, <2>3, CountsKept, Zenon
<1>13. CASE QuietFinished(t)
  <2>1. /\ \A u \in Threads : u # t => me'[u] = me[u]
        /\ me'[t].op = me[t].op /\ me'[t].lead = me[t].lead /\ me[t].pc = "quiet2" /\ me'[t].pc \in {"fill", "enter"}
    BY <1>13, PlainEffect, Zenon
  <2>2. started' = started /\ finished' = finished
    BY <1>13, Zenon DEF QuietFinished, counts
  <2>3. Moving(t)' <=> Moving(t)
    BY Zenon, <1>0, <2>1 DEF Moving, Holds, Follows, Batch, Want
  <2> QED
    BY <2>1, <2>2, <2>3, CountsKept, Zenon
<1>14. CASE Read(t)
  <2>1. /\ \A u \in Threads : u # t => me'[u] = me[u]
        /\ me'[t].op = me[t].op /\ me'[t].lead = me[t].lead /\ me[t].pc \in {"read", "fill"} /\ me'[t].pc = me[t].pc
    BY <1>14, PlainEffect, Zenon
  <2>2. started' = started /\ finished' = finished
    BY <1>14, Zenon DEF Read, counts
  <2>3. Moving(t)' <=> Moving(t)
    BY Zenon, <1>0, <2>1 DEF Moving, Holds, Follows, Batch, Want
  <2> QED
    BY <2>1, <2>2, <2>3, CountsKept, Zenon
<1>15. CASE FillCheck(t)
  <2>1. /\ \A u \in Threads : u # t => me'[u] = me[u]
        /\ me'[t].op = me[t].op /\ me'[t].lead = me[t].lead /\ me[t].pc = "fill" /\ me'[t].pc \in {"answer", "enter"}
    BY <1>15, PlainEffect, Zenon
  <2>2. started' = started /\ finished' = finished
    BY <1>15, Zenon DEF FillCheck, counts
  <2>3. Moving(t)' <=> Moving(t)
    BY Zenon, <1>0, <2>1 DEF Moving, Holds, Follows, Batch, Want
  <2> QED
    BY <2>1, <2>2, <2>3, CountsKept, Zenon
<1>16. CASE FillAnswer(t)
  <2>1. /\ \A u \in Threads : u # t => me'[u] = me[u]
        /\ me[t].pc = "answer" /\ me'[t].lead = NoOne /\ me'[t].pc = "idle" /\ me'[t].op = "reading"
    <3>1. me[t].pc = "answer" /\ me' = [me EXCEPT ![t] = Idle]
      BY <1>16, Zenon DEF FillAnswer
    <3> QED
      BY <3>1, IdleEffect, Zenon
  <2>2. started' = started /\ finished' = finished
    BY <1>16, Zenon DEF FillAnswer, counts
  <2>3. Moving(t)' <=> Moving(t)
    BY Zenon, <1>0, <2>1 DEF Moving, Holds, Follows, Batch, Want
  <2> QED
    BY <2>1, <2>2, <2>3, CountsKept, Zenon
<1>17. CASE ReadDone(t)
  <2>1. /\ \A u \in Threads : u # t => me'[u] = me[u]
        /\ me'[t].op = me[t].op /\ me'[t].lead = me[t].lead /\ me[t].pc = "read" /\ me'[t].pc = "leave"
    BY <1>17, PlainEffect, Zenon
  <2>2. started' = started /\ finished' = finished
    BY <1>17, Zenon DEF ReadDone, counts
  <2>3. Moving(t)' <=> Moving(t)
    BY Zenon, <1>0, <2>1 DEF Moving, Holds, Follows, Batch, Want
  <2> QED
    BY <2>1, <2>2, <2>3, CountsKept, Zenon
<1> QED
  BY <1>1, <1>2, <1>3, <1>4, <1>5, <1>6, <1>7, <1>8, <1>9, <1>10, <1>11, <1>12, <1>13, <1>14, <1>15, <1>16, <1>17, Zenon DEF Step

\* A read that is inside.
Beside(t) == ~ Batch(t) /\ me[t].pc \in {"read", "leave"}

\* Who else is inside stays so.
LEMMA OthersInside ==
  ASSUME NEW t \in Threads, \A u \in Threads : u # t => me'[u] = me[u]
  PROVE  \A u \in Threads : u # t => (Holds(u)' <=> Holds(u)) /\ (Beside(u)' <=> Beside(u))
BY Zenon DEF Holds, Beside, Follows, Batch, Want

\* A step that leaves its caller inside or not, and the queue alone.
LEMMA QueueKept ==
  ASSUME InQueue, NEW t \in Threads, \A u \in Threads : u # t => me'[u] = me[u],
         Holds(t)' <=> Holds(t), Beside(t)' <=> Beside(t), readers' = readers, isPublishing' = isPublishing
  PROVE  InQueue'
<1>1. \A u \in Threads : (Holds(u)' <=> Holds(u)) /\ (Beside(u)' <=> Beside(u))
  BY OthersInside, Zenon
<1>2. readers = {u \in Threads : Beside(u)}
  BY Zenon DEF InQueue, Beside
<1>3. readers' = {u \in Threads : Beside(u)}'
  BY <1>1, <1>2, Zenon
<1>4. /\ isPublishing' => readers' = {}
      /\ isPublishing' <=> \E u \in Threads : Holds(u)'
      /\ \A u, v \in Threads : Holds(u)' /\ Holds(v)' => u = v
  BY <1>1, Zenon DEF InQueue
<1> QED
  BY <1>3, <1>4, Zenon DEF InQueue, Beside

\* One batch is inside alone, or reads are.
LEMMA QueueStep ==
  ASSUME NoOne \notin Threads, me \in [Threads -> Place], isPublishing \in BOOLEAN, Calls, InLine, InQueue, gathering \in Threads \cup {NoOne},
         NEW t \in Threads, Begin(t) \/ Step(t)
  PROVE  InQueue'
<1>0. /\ me[t].pc \in {"gather", "follow", "start", "open", "move", "drain", "finish"} => Batch(t)
      /\ me[t].pc \in {"quiet", "quiet2", "fill", "answer", "read"} => ~ Batch(t)
      /\ Follows(t) => me[t].pc \in {"follow", "move"}
      /\ me[t].pc = "follow" => Follows(t)
  BY CallFacts, Zenon
<1>18. readers = {u \in Threads : Beside(u)} /\ \A u, v \in Threads : Holds(u) /\ Holds(v) => u = v
  BY Zenon DEF InQueue, Beside
<1>19. (isPublishing => readers = {}) /\ (isPublishing <=> \E u \in Threads : Holds(u))
  BY Zenon DEF InQueue
<1>20. ASSUME /\ readers' = {u \in Threads : Beside(u)}'
              /\ isPublishing' => readers' = {}
              /\ isPublishing' <=> \E u \in Threads : Holds(u)'
              /\ \A u, v \in Threads : Holds(u)' /\ Holds(v)' => u = v
       PROVE  InQueue'
  BY <1>20, Zenon DEF InQueue, Beside
<1>1. CASE Begin(t)
  <2>1. /\ \A u \in Threads : u # t => me'[u] = me[u]
        /\ me[t].pc = "idle" /\ me'[t].lead = NoOne /\ me'[t].pc \in {"gather", "quiet", "enter"}
    BY Zenon, <1>1, BeginEffect
  <2>2. readers' = readers /\ isPublishing' = isPublishing
    BY <1>1, BeginEffect, Zenon
  <2>3. Holds(t)' <=> Holds(t)
    BY Zenon, <1>0, <2>1 DEF Holds, Follows, Batch, Want
  <2>4. Beside(t)' <=> Beside(t)
    BY Zenon, <1>0, <2>1 DEF Beside, Batch, Want
  <2> QED
    BY <2>1, <2>2, <2>3, <2>4, QueueKept, Zenon
<1>2. CASE Enter(t) \/ Rouse(t)
  <2>1. /\ \A u \in Threads : u # t => me'[u] = me[u]
        /\ me[t].pc \in {"enter", "parked"} /\ me'[t].op = me[t].op /\ me'[t].lead = me[t].lead
    BY <1>2, EnterEffect, ZenonT(60)
  <2>2. ~ Holds(t) /\ ~ Beside(t) /\ ~ Follows(t)
    BY Zenon, <1>0, <2>1 DEF Holds, Beside
  <2>3. \A u \in Threads : u # t => (Holds(u)' <=> Holds(u)) /\ (Beside(u)' <=> Beside(u))
    BY <2>1, OthersInside, Zenon
  <2>4. CASE me'[t].pc = "parked" /\ readers' = readers /\ isPublishing' = isPublishing
    <3>1. ~ Holds(t)' /\ ~ Beside(t)'
      BY Zenon, <2>4 DEF Holds, Beside
    <3> QED
      BY <2>1, <2>2, <2>4, <3>1, QueueKept, Zenon
  <2>5. CASE /\ ~ Batch(t) /\ ~ isPublishing /\ me'[t].pc = "read"
             /\ readers' = readers \cup {t} /\ isPublishing' = isPublishing
    <3>1. Beside(t)' /\ ~ Holds(t)'
      BY Zenon, <2>1, <2>5 DEF Holds, Beside, Batch, Want
    <3>2. readers' = {u \in Threads : Beside(u)}'
      BY <1>18, <2>3, <2>5, <3>1, Zenon
    <3>3. \A u \in Threads : ~ Holds(u)'
      BY <1>19, <2>3, <2>5, <3>1, Zenon
    <3> QED
      BY <1>20, <2>5, <3>2, <3>3, Zenon
  <2>6. CASE /\ Batch(t) /\ ~ isPublishing /\ me'[t].pc = "start"
             /\ readers = {} /\ readers' = readers /\ isPublishing' = TRUE
    <3>1. Holds(t)' /\ ~ Beside(t)'
      BY Zenon, <2>1, <2>2, <2>6 DEF Holds, Beside, Follows, Batch, Want
    <3>2. readers' = {u \in Threads : Beside(u)}'
      BY <1>18, <2>2, <2>3, <2>6, <3>1, Zenon
    <3>3. \A u \in Threads : Holds(u)' => u = t
      BY <1>19, <2>3, <2>6, Zenon
    <3> QED
      BY <1>20, <2>6, <3>1, <3>2, <3>3, Zenon
  <2> QED
    BY <1>2, <2>4, <2>5, <2>6, EnterEffect, ZenonT(60)
<1>3. CASE Leave(t)
  <2>1. /\ \A u \in Threads : u # t => me'[u] = me[u]
        /\ me[t].pc = "leave" /\ me'[t].pc = "idle"
    <3>1. me[t].pc = "leave" /\ me' = [me EXCEPT ![t] = Idle]
      BY <1>3, Zenon DEF Leave
    <3> QED
      BY <3>1, IdleEffect, Zenon
  <2>2. readers' = readers \ {t} /\ (isPublishing' <=> isPublishing /\ ~ Batch(t))
    <3>1. Want(t) = "shared" <=> ~ Batch(t)
      BY Zenon DEF Batch, Want
    <3> QED
      BY <1>3, <3>1, Zenon DEF Leave
  <2>3. \A u \in Threads : u # t => (Holds(u)' <=> Holds(u)) /\ (Beside(u)' <=> Beside(u))
    BY <2>1, OthersInside, Zenon
  <2>4. ~ Holds(t)' /\ ~ Beside(t)' /\ (Holds(t) <=> Batch(t))
    BY Zenon, <1>0, <2>1 DEF Holds, Beside
  <2>5. readers' = {u \in Threads : Beside(u)}'
    BY <1>18, <2>2, <2>3, <2>4, Zenon
  <2>6. CASE Batch(t)
    <3>1. \A u \in Threads : ~ Holds(u)'
      BY <1>18, <2>3, <2>4, <2>6, Zenon
    <3> QED
      BY <1>20, <2>2, <2>5, <2>6, <3>1, Zenon
  <2>7. CASE ~ Batch(t)
    <3>1. \A u \in Threads : Holds(u)' <=> Holds(u)
      BY <2>3, <2>4, <2>7, Zenon
    <3>2. isPublishing' <=> isPublishing
      BY <2>2, <2>7, Zenon
    <3>3. isPublishing' => readers' = {}
      BY Zenon, <1>19, <2>2, <3>2
    <3> QED
      BY <1>18, <1>19, <1>20, <2>5, <3>1, <3>2, <3>3, Zenon
  <2> QED
    BY <2>6, <2>7, Zenon
<1>4. CASE Gather(t)
  <2>1. /\ \A u \in Threads : u # t => me'[u] = me[u]
        /\ me[t].pc = "gather" /\ me'[t].op = me[t].op /\ me'[t].pc \in {"enter", "follow"}
    BY ZenonT(60), <1>4, GatherEffect
  <2>2. readers' = readers /\ isPublishing' = isPublishing
    BY <1>4, GatherEffect, Zenon
  <2>3. Holds(t)' <=> Holds(t)
    BY Zenon, <1>0, <2>1 DEF Holds, Follows, Batch, Want
  <2>4. Beside(t)' <=> Beside(t)
    BY Zenon, <1>0, <2>1 DEF Beside, Batch, Want
  <2> QED
    BY <2>1, <2>2, <2>3, <2>4, QueueKept, Zenon
<1>5. CASE Follow(t)
  <2>1. /\ \A u \in Threads : u # t => me'[u] = me[u]
        /\ me'[t].op = me[t].op /\ me'[t].lead = me[t].lead /\ me[t].pc = "follow" /\ me'[t].pc = "move"
    BY <1>5, PlainEffect, Zenon
  <2>2. readers' = readers /\ isPublishing' = isPublishing
    BY <1>5, Zenon DEF Follow, queue
  <2>3. Holds(t)' <=> Holds(t)
    BY Zenon, <1>0, <2>1 DEF Holds, Follows, Batch, Want
  <2>4. Beside(t)' <=> Beside(t)
    BY Zenon, <1>0, <2>1 DEF Beside, Batch, Want
  <2> QED
    BY <2>1, <2>2, <2>3, <2>4, QueueKept, Zenon
<1>6. CASE Start(t)
  <2>1. /\ \A u \in Threads : u # t => me'[u] = me[u]
        /\ me'[t].op = me[t].op /\ me'[t].lead = me[t].lead /\ me[t].pc = "start" /\ me'[t].pc = IF me[t].op = "grouped" THEN "open" ELSE "move"
    BY <1>6, PlainEffect, Zenon
  <2>2. readers' = readers /\ isPublishing' = isPublishing
    BY <1>6, Zenon DEF Start, queue
  <2>3. Holds(t)' <=> Holds(t)
    BY Zenon, <1>0, <2>1 DEF Holds, Follows, Batch, Want
  <2>4. Beside(t)' <=> Beside(t)
    BY Zenon, <1>0, <2>1 DEF Beside, Batch, Want
  <2> QED
    BY <2>1, <2>2, <2>3, <2>4, QueueKept, Zenon
<1>7. CASE Open(t)
  <2>1. /\ \A u \in Threads : u # t => me'[u] = me[u]
        /\ me'[t].op = me[t].op /\ me'[t].lead = me[t].lead /\ me[t].pc = "open" /\ me'[t].pc = "move"
    BY <1>7, PlainEffect, Zenon
  <2>2. readers' = readers /\ isPublishing' = isPublishing
    BY <1>7, Zenon DEF Open, queue
  <2>3. Holds(t)' <=> Holds(t)
    BY Zenon, <1>0, <2>1 DEF Holds, Follows, Batch, Want
  <2>4. Beside(t)' <=> Beside(t)
    BY Zenon, <1>0, <2>1 DEF Beside, Batch, Want
  <2> QED
    BY <2>1, <2>2, <2>3, <2>4, QueueKept, Zenon
<1>8. CASE Move(t)
  <2>1. /\ \A u \in Threads : u # t => me'[u] = me[u]
        /\ me'[t].op = me[t].op /\ me'[t].lead = me[t].lead /\ me[t].pc = "move" /\ me'[t].pc = "move"
    BY <1>8, PlainEffect, Zenon
  <2>2. readers' = readers /\ isPublishing' = isPublishing
    BY <1>8, Zenon DEF Move, queue
  <2>3. Holds(t)' <=> Holds(t)
    BY Zenon, <1>0, <2>1 DEF Holds, Follows, Batch, Want
  <2>4. Beside(t)' <=> Beside(t)
    BY Zenon, <1>0, <2>1 DEF Beside, Batch, Want
  <2> QED
    BY <2>1, <2>2, <2>3, <2>4, QueueKept, Zenon
<1>9. CASE Moved(t)
  <2>1. /\ \A u \in Threads : u # t => me'[u] = me[u]
        /\ me[t].pc = "move"
        /\ \/ me'[t].pc \in {"finish", "drain"} /\ me'[t].op = me[t].op /\ me'[t].lead = me[t].lead /\ ~ Follows(t)
           \/ me'[t].pc = "idle" /\ me'[t].op = "reading" /\ Follows(t)
    <3>1. CASE me[t].lead \in {NoOne, t}
      <4>1. me[t].pc = "move" /\ \E p \in {"finish", "drain"} : Goes(t, p)
        BY <1>9, <3>1, Zenon DEF Moved
      <4>2. ~ Follows(t)
        BY <3>1, Zenon DEF Follows
      <4> QED
        BY Zenon, <4>1, <4>2, GoesEffect
    <3>2. CASE me[t].lead \notin {NoOne, t}
      <4>1. me[t].pc = "move" /\ me' = [me EXCEPT ![t] = Idle]
        BY <1>9, <3>2, Zenon DEF Moved
      <4>2. Follows(t)
        BY Zenon, <3>2 DEF Follows, Place
      <4> QED
        BY <4>1, <4>2, IdleEffect, Zenon
    <3> QED
      BY <3>1, <3>2, Zenon
  <2>2. readers' = readers /\ isPublishing' = isPublishing
    BY <1>9, Zenon DEF Moved, queue
  <2>3. Holds(t)' <=> Holds(t)
    BY Zenon, <1>0, <2>1 DEF Holds, Follows, Batch, Want
  <2>4. Beside(t)' <=> Beside(t)
    BY Zenon, <1>0, <2>1 DEF Beside, Batch, Want
  <2> QED
    BY <2>1, <2>2, <2>3, <2>4, QueueKept, Zenon
<1>10. CASE Drain(t)
  <2>1. /\ \A u \in Threads : u # t => me'[u] = me[u]
        /\ me'[t].op = me[t].op /\ me'[t].lead = me[t].lead /\ me[t].pc = "drain" /\ me'[t].pc = "finish"
    BY <1>10, PlainEffect, Zenon
  <2>2. readers' = readers /\ isPublishing' = isPublishing
    BY <1>10, Zenon DEF Drain, queue
  <2>3. Holds(t)' <=> Holds(t)
    BY Zenon, <1>0, <2>1 DEF Holds, Follows, Batch, Want
  <2>4. Beside(t)' <=> Beside(t)
    BY Zenon, <1>0, <2>1 DEF Beside, Batch, Want
  <2> QED
    BY <2>1, <2>2, <2>3, <2>4, QueueKept, Zenon
<1>11. CASE Finish(t)
  <2>1. /\ \A u \in Threads : u # t => me'[u] = me[u]
        /\ me'[t].op = me[t].op /\ me'[t].lead = me[t].lead /\ me[t].pc = "finish" /\ me'[t].pc = "leave"
    BY <1>11, PlainEffect, Zenon
  <2>2. readers' = readers /\ isPublishing' = isPublishing
    BY <1>11, Zenon DEF Finish, queue
  <2>3. Holds(t)' <=> Holds(t)
    BY Zenon, <1>0, <2>1 DEF Holds, Follows, Batch, Want
  <2>4. Beside(t)' <=> Beside(t)
    BY Zenon, <1>0, <2>1 DEF Beside, Batch, Want
  <2> QED
    BY <2>1, <2>2, <2>3, <2>4, QueueKept, Zenon
<1>12. CASE QuietStarted(t)
  <2>1. /\ \A u \in Threads : u # t => me'[u] = me[u]
        /\ me'[t].op = me[t].op /\ me'[t].lead = me[t].lead /\ me[t].pc = "quiet" /\ me'[t].pc = "quiet2"
    BY <1>12, PlainEffect, Zenon
  <2>2. readers' = readers /\ isPublishing' = isPublishing
    BY <1>12, Zenon DEF QuietStarted, queue
  <2>3. Holds(t)' <=> Holds(t)
    BY Zenon, <1>0, <2>1 DEF Holds, Follows, Batch, Want
  <2>4. Beside(t)' <=> Beside(t)
    BY Zenon, <1>0, <2>1 DEF Beside, Batch, Want
  <2> QED
    BY <2>1, <2>2, <2>3, <2>4, QueueKept, Zenon
<1>13. CASE QuietFinished(t)
  <2>1. /\ \A u \in Threads : u # t => me'[u] = me[u]
        /\ me'[t].op = me[t].op /\ me'[t].lead = me[t].lead /\ me[t].pc = "quiet2" /\ me'[t].pc \in {"fill", "enter"}
    BY <1>13, PlainEffect, Zenon
  <2>2. readers' = readers /\ isPublishing' = isPublishing
    BY <1>13, Zenon DEF QuietFinished, queue
  <2>3. Holds(t)' <=> Holds(t)
    BY Zenon, <1>0, <2>1 DEF Holds, Follows, Batch, Want
  <2>4. Beside(t)' <=> Beside(t)
    BY Zenon, <1>0, <2>1 DEF Beside, Batch, Want
  <2> QED
    BY <2>1, <2>2, <2>3, <2>4, QueueKept, Zenon
<1>14. CASE Read(t)
  <2>1. /\ \A u \in Threads : u # t => me'[u] = me[u]
        /\ me'[t].op = me[t].op /\ me'[t].lead = me[t].lead /\ me[t].pc \in {"read", "fill"} /\ me'[t].pc = me[t].pc
    BY <1>14, PlainEffect, Zenon
  <2>2. readers' = readers /\ isPublishing' = isPublishing
    BY <1>14, Zenon DEF Read, queue
  <2>3. Holds(t)' <=> Holds(t)
    BY Zenon, <1>0, <2>1 DEF Holds, Follows, Batch, Want
  <2>4. Beside(t)' <=> Beside(t)
    BY Zenon, <1>0, <2>1 DEF Beside, Batch, Want
  <2> QED
    BY <2>1, <2>2, <2>3, <2>4, QueueKept, Zenon
<1>15. CASE FillCheck(t)
  <2>1. /\ \A u \in Threads : u # t => me'[u] = me[u]
        /\ me'[t].op = me[t].op /\ me'[t].lead = me[t].lead /\ me[t].pc = "fill" /\ me'[t].pc \in {"answer", "enter"}
    BY <1>15, PlainEffect, Zenon
  <2>2. readers' = readers /\ isPublishing' = isPublishing
    BY <1>15, Zenon DEF FillCheck, queue
  <2>3. Holds(t)' <=> Holds(t)
    BY Zenon, <1>0, <2>1 DEF Holds, Follows, Batch, Want
  <2>4. Beside(t)' <=> Beside(t)
    BY Zenon, <1>0, <2>1 DEF Beside, Batch, Want
  <2> QED
    BY <2>1, <2>2, <2>3, <2>4, QueueKept, Zenon
<1>16. CASE FillAnswer(t)
  <2>1. /\ \A u \in Threads : u # t => me'[u] = me[u]
        /\ me[t].pc = "answer" /\ me'[t].lead = NoOne /\ me'[t].pc = "idle" /\ me'[t].op = "reading"
    <3>1. me[t].pc = "answer" /\ me' = [me EXCEPT ![t] = Idle]
      BY <1>16, Zenon DEF FillAnswer
    <3> QED
      BY <3>1, IdleEffect, Zenon
  <2>2. readers' = readers /\ isPublishing' = isPublishing
    BY <1>16, Zenon DEF FillAnswer, queue
  <2>3. Holds(t)' <=> Holds(t)
    BY Zenon, <1>0, <2>1 DEF Holds, Follows, Batch, Want
  <2>4. Beside(t)' <=> Beside(t)
    BY Zenon, <1>0, <2>1 DEF Beside, Batch, Want
  <2> QED
    BY <2>1, <2>2, <2>3, <2>4, QueueKept, Zenon
<1>17. CASE ReadDone(t)
  <2>1. /\ \A u \in Threads : u # t => me'[u] = me[u]
        /\ me'[t].op = me[t].op /\ me'[t].lead = me[t].lead /\ me[t].pc = "read" /\ me'[t].pc = "leave"
    BY <1>17, PlainEffect, Zenon
  <2>2. readers' = readers /\ isPublishing' = isPublishing
    BY <1>17, Zenon DEF ReadDone, queue
  <2>3. Holds(t)' <=> Holds(t)
    BY Zenon, <1>0, <2>1 DEF Holds, Follows, Batch, Want
  <2>4. Beside(t)' <=> Beside(t)
    BY Zenon, <1>0, <2>1 DEF Beside, Batch, Want
  <2> QED
    BY <2>1, <2>2, <2>3, <2>4, QueueKept, Zenon
<1> QED
  BY <1>1, <1>2, <1>3, <1>4, <1>5, <1>6, <1>7, <1>8, <1>9, <1>10, <1>11, <1>12, <1>13, <1>14, <1>15, <1>16, <1>17, Zenon DEF Step

\* A step that keeps its caller's leader and leaves the groups alone, with the caller
\* where its group allows.
LEMMA GroupsKept ==
  ASSUME Groups, NEW t \in Threads, \A u \in Threads : u # t => me'[u] = me[u], me'[t].lead = me[t].lead,
         gathering \in Threads \cup {NoOne}, gathering' = gathering, open' = open, following' = following,
         me[t].lead = t => (me'[t].pc \in {"move", "drain"} <=> me[t].pc \in {"move", "drain"}),
         me[t].lead = t /\ me[t].pc \in {"enter", "parked", "start", "open", "move", "drain"} => me'[t].pc \in {"enter", "parked", "start", "open", "move", "drain"},
         gathering = t => me'[t].pc \in {"enter", "parked", "start", "open", "move"},
         Follows(t) /\ me'[t].pc = "move" => me[t].lead \in open
  PROVE  Groups'
<1>1. \A u \in Threads : me'[u].lead = me[u].lead
  BY Zenon
<1>2. \A u \in Threads : (Leads(u)' <=> Leads(u)) /\ (Follows(u)' <=> Follows(u))
  BY <1>1, Zenon DEF Leads, Follows
<1>3. ASSUME gathering # NoOne
      PROVE  Leads(gathering)' /\ me'[gathering].pc \in {"enter", "parked", "start", "open", "move"}
  <2>1. Leads(gathering) /\ me[gathering].pc \in {"enter", "parked", "start", "open", "move"} /\ gathering \in Threads
    BY <1>3, Zenon DEF Groups
  <2>2. Leads(gathering)'
    BY <1>1, <2>1, Zenon DEF Leads
  <2>3. me'[gathering].pc \in {"enter", "parked", "start", "open", "move"}
    BY <2>1, Zenon
  <2> QED
    BY Zenon, <2>2, <2>3
<1>4. ASSUME NEW u \in Threads
      PROVE  /\ u \in open <=> Leads(u)' /\ me'[u].pc \in {"move", "drain"}
             /\ following[u] # {} => Leads(u)' /\ me'[u].pc \in {"enter", "parked", "start", "open", "move", "drain"}
             /\ Follows(u)' /\ me'[u].pc = "move" => me'[u].lead \in open
  <2>1. CASE u = t
    BY <1>1, <1>2, <1>4, <2>1, Zenon DEF Groups, Leads
  <2>2. CASE u # t
    BY <1>1, <1>2, <1>4, <2>2, Zenon DEF Groups
  <2> QED
    BY Zenon, <2>1, <2>2
<1>5. ASSUME NEW u \in Threads, NEW v \in Threads PROVE v \in following[u] <=> me'[v].lead = u /\ v # u
  BY <1>1 DEF Groups
<1> QED
  BY <1>3, <1>4, <1>5, ZenonT(60) DEF Groups

\* A call that belongs to no group comes or goes.
LEMMA GroupsLeft ==
  ASSUME Groups, NoOne \notin Threads, NEW t \in Threads, \A u \in Threads : u # t => me'[u] = me[u],
         gathering \in Threads \cup {NoOne}, gathering' = gathering, open' = open, following' = following,
         ~ Follows(t), me[t].pc \notin {"enter", "parked", "start", "open", "move", "drain"}, me'[t].lead = NoOne
  PROVE  Groups'
<1>1. ~ Leads(t)' /\ ~ Follows(t)' /\ following[t] = {} /\ t \notin open /\ gathering # t
  BY DEF Groups, Leads, Follows
<1>2. \A u \in Threads : u # t => (Leads(u)' <=> Leads(u)) /\ (Follows(u)' <=> Follows(u))
  BY Zenon DEF Leads, Follows
<1>3. ASSUME gathering # NoOne
      PROVE  me'[gathering].lead = gathering /\ me'[gathering].pc \in {"enter", "parked", "start", "open", "move"}
  <2>1. Leads(gathering) /\ me[gathering].pc \in {"enter", "parked", "start", "open", "move"} /\ gathering \in Threads
    BY <1>3, Zenon DEF Groups
  <2>2. me'[gathering] = me[gathering]
    BY <1>1, <2>1, Zenon
  <2> QED
    BY <2>1, <2>2, Zenon DEF Leads
<1>4. ASSUME NEW u \in Threads
      PROVE  /\ u \in open <=> Leads(u)' /\ me'[u].pc \in {"move", "drain"}
             /\ following[u] # {} => Leads(u)' /\ me'[u].pc \in {"enter", "parked", "start", "open", "move", "drain"}
             /\ Follows(u)' /\ me'[u].pc = "move" => me'[u].lead \in open
  <2>1. CASE u = t
    BY <1>1, <2>1, Zenon
  <2>2. CASE u # t
    BY <1>2, <1>4, <2>2, Zenon DEF Groups
  <2> QED
    BY Zenon, <2>1, <2>2
<1>5. ASSUME NEW u \in Threads, NEW v \in Threads PROVE v \in following[u] <=> me'[v].lead = u /\ v # u
  <2>0. v \in following[u] <=> me[v].lead = u /\ v # u
    BY ZenonT(60) DEF Groups
  <2>1. CASE v = t
    BY Zenon, <1>5, <2>0, <2>1 DEF Follows
  <2>2. CASE v # t
    BY <1>5, <2>0, <2>2, Zenon
  <2> QED
    BY Zenon, <2>1, <2>2
<1>6. gathering' # NoOne => Leads(gathering)' /\ me'[gathering'].pc \in {"enter", "parked", "start", "open", "move"}
  BY <1>3, Zenon DEF Leads
<1>7. \A u \in Threads :
        /\ u \in open' <=> Leads(u)' /\ me'[u].pc \in {"move", "drain"}
        /\ \A v \in Threads : v \in following'[u] <=> me'[v].lead = u /\ v # u
        /\ following'[u] # {} => Leads(u)' /\ me'[u].pc \in {"enter", "parked", "start", "open", "move", "drain"}
        /\ Follows(u)' /\ me'[u].pc = "move" => me'[u].lead \in open'
  BY <1>4, <1>5, ZenonT(60)
<1> QED
  BY <1>6, <1>7, Zenon DEF Groups

\* A group stands until its leader has drained it.
LEMMA GroupsStep ==
  ASSUME NoOne \notin Threads, me \in [Threads -> Place], Calls, InLine, Groups, following \in [Threads -> SUBSET Threads], open \in SUBSET Threads, gathering \in Threads \cup {NoOne},
         NEW t \in Threads, Begin(t) \/ Step(t)
  PROVE  Groups'
<1>0. /\ Batch(t) <=> me[t].op \in {"grouped", "publishing"}
      /\ me[t].pc \in {"quiet", "quiet2", "fill", "answer", "read"} => ~ Batch(t)
      /\ me[t].lead # NoOne => me[t].op = "grouped"
      /\ Follows(t) => me[t].pc \in {"follow", "move"}
      /\ me[t].pc \in {"open", "drain"} => me[t].lead = t
      /\ me[t].lead \in Threads \cup {NoOne}
  <2>1. me[t].lead \in Threads \cup {NoOne}
    BY Zenon DEF Place
  <2> QED
    BY <2>1, CallFacts, Zenon
<1>18. gathering = t => me[t].lead = t /\ me[t].pc \in {"enter", "parked", "start", "open", "move"}
  BY DEF Groups, Leads
<1>19. Follows(t) /\ me[t].pc = "move" => me[t].lead \in open
  BY Zenon DEF Groups
<1>20. ASSUME NEW u \in Threads
       PROVE  /\ u \in open <=> Leads(u) /\ me[u].pc \in {"move", "drain"}
              /\ following[u] # {} => Leads(u) /\ me[u].pc \in {"enter", "parked", "start", "open", "move", "drain"}
              /\ Follows(u) /\ me[u].pc = "move" => me[u].lead \in open
  BY <1>20, Zenon DEF Groups
<1>21. \A u \in Threads : \A v \in Threads : v \in following[u] <=> me[v].lead = u /\ v # u
  BY Zenon DEF Groups
<1>22. gathering # NoOne => Leads(gathering) /\ me[gathering].pc \in {"enter", "parked", "start", "open", "move"}
  BY Zenon DEF Groups
<1>1. CASE Begin(t)
  <2>1. /\ \A u \in Threads : u # t => me'[u] = me[u]
        /\ me[t].pc = "idle" /\ me'[t].lead = NoOne /\ me'[t].pc \in {"gather", "quiet", "enter"}
    BY Zenon, <1>1, BeginEffect
  <2>2. gathering' = gathering /\ open' = open /\ following' = following
    BY <1>1, BeginEffect, Zenon
  <2>3. ~ Follows(t) /\ me[t].pc \notin {"enter", "parked", "start", "open", "move", "drain"}
    BY Zenon, <1>0, <2>1
  <2> QED
    BY <2>1, <2>2, <2>3, GroupsLeft, Zenon
<1>2. CASE Enter(t) \/ Rouse(t)
  <2>1. /\ \A u \in Threads : u # t => me'[u] = me[u]
        /\ me[t].pc \in {"enter", "parked"} /\ me'[t].op = me[t].op /\ me'[t].lead = me[t].lead
        /\ me'[t].pc \in {"parked", "read", "start"} /\ (Batch(t) => me'[t].pc # "read")
    BY <1>2, EnterEffect, ZenonT(60)
  <2>2. gathering' = gathering /\ open' = open /\ following' = following
    BY <1>2, EnterEffect, ZenonT(60)
  <2>3. /\ me[t].lead = t => (me'[t].pc \in {"move", "drain"} <=> me[t].pc \in {"move", "drain"})
        /\ me[t].lead = t /\ me[t].pc \in {"enter", "parked", "start", "open", "move", "drain"} =>
             me'[t].pc \in {"enter", "parked", "start", "open", "move", "drain"}
        /\ gathering = t => me'[t].pc \in {"enter", "parked", "start", "open", "move"}
        /\ Follows(t) /\ me'[t].pc = "move" => me[t].lead \in open
    BY Zenon, <1>0, <1>18, <1>19, <2>1
  <2> QED
    BY <2>1, <2>2, <2>3, GroupsKept, Zenon
<1>3. CASE Leave(t)
  <2>1. /\ \A u \in Threads : u # t => me'[u] = me[u]
        /\ me[t].pc = "leave" /\ me'[t].lead = NoOne /\ me'[t].pc = "idle" /\ me'[t].op = "reading"
    <3>1. me[t].pc = "leave" /\ me' = [me EXCEPT ![t] = Idle]
      BY <1>3, Zenon DEF Leave
    <3> QED
      BY <3>1, IdleEffect, Zenon
  <2>2. gathering' = gathering /\ open' = open /\ following' = following
    BY <1>3, Zenon DEF Leave, groups
  <2>3. ~ Follows(t) /\ me[t].pc \notin {"enter", "parked", "start", "open", "move", "drain"}
    BY Zenon, <1>0, <2>1
  <2> QED
    BY <2>1, <2>2, <2>3, GroupsLeft, Zenon
<1>4. CASE Gather(t)
  <2>1. /\ \A u \in Threads : u # t => me'[u] = me[u]
        /\ me[t].pc = "gather" /\ open' = open
        /\ me'[t].lead = (IF gathering = NoOne THEN t ELSE gathering)
        /\ me'[t].pc = (IF gathering = NoOne THEN "enter" ELSE "follow")
    BY <1>4, GatherEffect, ZenonT(60)
  <2>2. ~ Follows(t) /\ gathering # t
    BY Zenon, <1>0, <1>18, <2>1
  <2>3. CASE gathering = NoOne
    <3>1. gathering' = t /\ following' = following /\ me'[t].lead = t /\ me'[t].pc = "enter"
      BY Zenon, <1>4, <2>1, <2>3 DEF Gather
    <3>2. Leads(t)' /\ ~ Follows(t)' /\ following[t] = {} /\ t \notin open
      BY Zenon, <1>20, <2>1, <3>1 DEF Leads, Follows
    <3>3. \A u \in Threads : u # t => (Leads(u)' <=> Leads(u)) /\ (Follows(u)' <=> Follows(u))
      BY <2>1, Zenon DEF Leads, Follows
    <3>4. ASSUME NEW u \in Threads
          PROVE  /\ u \in open <=> Leads(u)' /\ me'[u].pc \in {"move", "drain"}
                 /\ following[u] # {} => Leads(u)' /\ me'[u].pc \in {"enter", "parked", "start", "open", "move", "drain"}
                 /\ Follows(u)' /\ me'[u].pc = "move" => me'[u].lead \in open
      <4>1. CASE u = t
        BY Zenon, <3>1, <3>2, <4>1
      <4>2. CASE u # t
        BY <1>20, <2>1, <3>3, <3>4, <4>2, Zenon
      <4> QED
        BY <4>1, <4>2, Zenon
    <3>5. ASSUME NEW u \in Threads, NEW v \in Threads PROVE v \in following[u] <=> me'[v].lead = u /\ v # u
      <4>1. CASE v = t
        <5>1. me[t].lead \in {NoOne, t}
          BY Zenon, <1>0, <2>2 DEF Follows
        <5>2. u # t => t \notin following[u]
          BY <1>21, <3>5, <5>1
        <5>3. t \notin following[t]
          BY Zenon, <3>2
        <5> QED
          BY Zenon, <3>1, <4>1, <5>2, <5>3
      <4>2. CASE v # t
        <5>1. me'[v] = me[v]
          BY <2>1, <3>5, <4>2, Zenon
        <5> QED
          BY <1>21, <3>5, <5>1, Zenon
      <4> QED
        BY <4>1, <4>2, Zenon
    <3> QED
      BY <2>1, <3>1, <3>2, <3>4, <3>5, ZenonT(60) DEF Groups
  <2>4. CASE gathering # NoOne
    <3>1. /\ gathering' = gathering /\ me'[t].lead = gathering /\ me'[t].pc = "follow"
          /\ following' = [following EXCEPT ![gathering] = @ \cup {t}]
          /\ gathering \in Threads
      BY Zenon, <1>4, <2>1, <2>4 DEF Gather
    <3>2. ~ Leads(t)' /\ Follows(t)' /\ following[t] = {} /\ t \notin open
      BY Zenon, <1>20, <2>1, <2>2, <3>1 DEF Leads, Follows
    <3>3. \A u \in Threads : u # t => (Leads(u)' <=> Leads(u)) /\ (Follows(u)' <=> Follows(u))
      BY <2>1, Zenon DEF Leads, Follows
    <3>6. /\ following'[gathering] = following[gathering] \cup {t}
          /\ \A u \in Threads : u # gathering => following'[u] = following[u]
      BY Zenon, <3>1
    <3>7. /\ me'[gathering].lead = gathering /\ me'[gathering].pc \in {"enter", "parked", "start", "open", "move"}
      <4>1. me'[gathering] = me[gathering]
        BY <2>1, <2>2, <3>1, Zenon
      <4> QED
        BY Zenon, <1>22, <2>4, <4>1 DEF Leads
    <3>4. ASSUME NEW u \in Threads
          PROVE  /\ u \in open <=> Leads(u)' /\ me'[u].pc \in {"move", "drain"}
                 /\ following'[u] # {} => Leads(u)' /\ me'[u].pc \in {"enter", "parked", "start", "open", "move", "drain"}
                 /\ Follows(u)' /\ me'[u].pc = "move" => me'[u].lead \in open
      <4>1. CASE u = t
        BY Zenon, <2>2, <3>1, <3>2, <3>6, <4>1
      <4>2. CASE u # t
        <5>1. following'[u] # {} => Leads(u)' /\ me'[u].pc \in {"enter", "parked", "start", "open", "move", "drain"}
          <6>1. CASE u = gathering
            BY <3>7, <6>1, Zenon DEF Leads
          <6>2. CASE u # gathering
            BY <1>20, <2>1, <3>3, <3>4, <3>6, <4>2, <6>2, Zenon
          <6> QED
            BY <6>1, <6>2, Zenon
        <5> QED
          BY <1>20, <2>1, <3>3, <3>4, <4>2, <5>1, Zenon
      <4> QED
        BY <4>1, <4>2, Zenon
    <3>5. ASSUME NEW u \in Threads, NEW v \in Threads PROVE v \in following'[u] <=> me'[v].lead = u /\ v # u
      <4>0. v \in following[u] <=> me[v].lead = u /\ v # u
        BY <1>21, <3>5, Zenon
      <4>1. CASE v = t
        <5>1. me[t].lead \in {NoOne, t}
          BY Zenon, <1>0, <2>2 DEF Follows
        <5>2. t \notin following[u]
          BY Zenon, <3>5, <4>0, <4>1, <5>1
        <5> QED
          BY Zenon, <2>2, <3>1, <3>6, <4>1, <5>2
      <4>2. CASE v # t
        BY <2>1, <3>5, <3>6, <4>0, <4>2
      <4> QED
        BY <4>1, <4>2, Zenon
    <3> QED
      BY <2>1, <3>1, <3>4, <3>5, <3>7, ZenonT(60) DEF Groups, Leads
  <2> QED
    BY Zenon, <2>3, <2>4
<1>5. CASE Follow(t)
  <2>1. /\ \A u \in Threads : u # t => me'[u] = me[u]
        /\ me'[t].op = me[t].op /\ me'[t].lead = me[t].lead /\ me[t].pc = "follow" /\ me'[t].pc = "move"
    BY <1>5, PlainEffect, Zenon
  <2>2. gathering' = gathering /\ open' = open /\ following' = following
    BY <1>5, Zenon DEF Follow, groups
  <2>4. me[t].lead \in open
    BY <1>5, Zenon DEF Follow
  <2>3. /\ me[t].lead = t => (me'[t].pc \in {"move", "drain"} <=> me[t].pc \in {"move", "drain"})
        /\ me[t].lead = t /\ me[t].pc \in {"enter", "parked", "start", "open", "move", "drain"} =>
             me'[t].pc \in {"enter", "parked", "start", "open", "move", "drain"}
        /\ gathering = t => me'[t].pc \in {"enter", "parked", "start", "open", "move"}
        /\ Follows(t) /\ me'[t].pc = "move" => me[t].lead \in open
    <3>1. me[t].lead # t
      BY <2>1, Zenon DEF Calls, CallOf, Follows
    <3>2. gathering # t
      BY <1>18, <3>1, Zenon
    <3> QED
      BY <2>1, <2>4, <3>1, <3>2, Zenon
  <2> QED
    BY <2>1, <2>2, <2>3, GroupsKept, Zenon
<1>6. CASE Start(t)
  <2>1. /\ \A u \in Threads : u # t => me'[u] = me[u]
        /\ me'[t].op = me[t].op /\ me'[t].lead = me[t].lead /\ me[t].pc = "start" /\ me'[t].pc = IF me[t].op = "grouped" THEN "open" ELSE "move"
    BY <1>6, PlainEffect, Zenon
  <2>2. gathering' = gathering /\ open' = open /\ following' = following
    BY <1>6, Zenon DEF Start, groups
  <2>3. /\ me[t].lead = t => (me'[t].pc \in {"move", "drain"} <=> me[t].pc \in {"move", "drain"})
        /\ me[t].lead = t /\ me[t].pc \in {"enter", "parked", "start", "open", "move", "drain"} =>
             me'[t].pc \in {"enter", "parked", "start", "open", "move", "drain"}
        /\ gathering = t => me'[t].pc \in {"enter", "parked", "start", "open", "move"}
        /\ Follows(t) /\ me'[t].pc = "move" => me[t].lead \in open
    BY Zenon, <1>0, <1>18, <1>19, <2>1
  <2> QED
    BY <2>1, <2>2, <2>3, GroupsKept, Zenon
<1>7. CASE Open(t)
  <2>1. /\ \A u \in Threads : u # t => me'[u] = me[u]
        /\ me'[t].op = me[t].op /\ me'[t].lead = me[t].lead /\ me[t].pc = "open" /\ me'[t].pc = "move"
    BY <1>7, PlainEffect, Zenon
  <2>2. gathering' = gathering /\ open' = open \cup {t} /\ following' = following
    BY <1>7, Zenon DEF Open, groups
  <2>3. me[t].lead = t /\ me'[t].lead = t
    BY Zenon, <1>0, <2>1
  <2>4. \A u \in Threads : (Leads(u)' <=> Leads(u)) /\ (Follows(u)' <=> Follows(u)) /\ me'[u].lead = me[u].lead
    BY <2>1, Zenon DEF Leads, Follows
  <2>5. Leads(t) /\ ~ Follows(t)
    BY <2>3, Zenon DEF Leads, Follows
  <2>6. ASSUME NEW u \in Threads
        PROVE  /\ u \in open' <=> Leads(u)' /\ me'[u].pc \in {"move", "drain"}
               /\ following[u] # {} => Leads(u)' /\ me'[u].pc \in {"enter", "parked", "start", "open", "move", "drain"}
               /\ Follows(u)' /\ me'[u].pc = "move" => me'[u].lead \in open'
    <3>1. CASE u = t
      BY Zenon, <2>1, <2>2, <2>4, <2>5, <3>1
    <3>2. CASE u # t
      <4>1. me'[u] = me[u] /\ (u \in open' <=> u \in open)
        BY Zenon, <2>1, <2>2, <3>2
      <4> QED
        BY Zenon, <1>20, <2>2, <2>4, <2>6, <4>1
    <3> QED
      BY <3>1, <3>2, Zenon
  <2>7. ASSUME gathering # NoOne
        PROVE  me'[gathering].lead = gathering /\ me'[gathering].pc \in {"enter", "parked", "start", "open", "move"}
    <3>1. gathering \in Threads
      BY Zenon, <2>7
    <3>2. CASE gathering = t
      BY Zenon, <2>1, <2>3, <3>2
    <3>3. CASE gathering # t
      <4>1. me'[gathering] = me[gathering]
        BY <2>1, <3>1, <3>3, Zenon
      <4> QED
        BY Zenon, <1>22, <2>7, <4>1 DEF Leads
    <3> QED
      BY <3>2, <3>3, Zenon
  <2>8. \A u \in Threads : \A v \in Threads : v \in following[u] <=> me'[v].lead = u /\ v # u
    BY <1>21, <2>4, Zenon
  <2> QED
    BY <2>2, <2>6, <2>7, <2>8, ZenonT(60) DEF Groups, Leads
<1>8. CASE Move(t)
  <2>1. /\ \A u \in Threads : u # t => me'[u] = me[u]
        /\ me'[t].op = me[t].op /\ me'[t].lead = me[t].lead /\ me[t].pc = "move" /\ me'[t].pc = "move"
    BY <1>8, PlainEffect, Zenon
  <2>2. gathering' = gathering /\ open' = open /\ following' = following
    BY <1>8, Zenon DEF Move, groups
  <2>3. /\ me[t].lead = t => (me'[t].pc \in {"move", "drain"} <=> me[t].pc \in {"move", "drain"})
        /\ me[t].lead = t /\ me[t].pc \in {"enter", "parked", "start", "open", "move", "drain"} =>
             me'[t].pc \in {"enter", "parked", "start", "open", "move", "drain"}
        /\ gathering = t => me'[t].pc \in {"enter", "parked", "start", "open", "move"}
        /\ Follows(t) /\ me'[t].pc = "move" => me[t].lead \in open
    BY Zenon, <1>0, <1>18, <1>19, <2>1
  <2> QED
    BY <2>1, <2>2, <2>3, GroupsKept, Zenon
<1>9. CASE Moved(t)
  <2>1. me[t].pc = "move" /\ open' = open
    BY <1>9, Zenon DEF Moved, groups
  <2>2. CASE me[t].lead = NoOne
    <3>1. Goes(t, "finish") /\ gathering' = gathering /\ following' = following
      BY <1>9, <2>2, Zenon DEF Moved, groups
    <3>2. me'[t].lead = me[t].lead /\ me'[t].pc = "finish" /\ \A u \in Threads : u # t => me'[u] = me[u]
      BY <3>1, GoesEffect, Zenon
    <3>3. me[t].lead # t /\ gathering # t /\ ~ Follows(t)
      BY Zenon, <1>18, <2>2 DEF Follows
    <3> QED
      BY <2>1, <3>1, <3>2, <3>3, GroupsKept, Zenon
  <2>3. CASE me[t].lead = t
    <3>1. Goes(t, "drain") /\ gathering' = NoOne /\ following' = following
      BY <1>9, <2>3, Zenon DEF Moved, groups
    <3>2. me'[t].lead = t /\ me'[t].pc = "drain" /\ \A u \in Threads : u # t => me'[u] = me[u]
      BY <2>3, <3>1, GoesEffect, Zenon
    <3>3. \A u \in Threads : (Leads(u)' <=> Leads(u)) /\ (Follows(u)' <=> Follows(u)) /\ me'[u].lead = me[u].lead
      BY <2>3, <3>2, Zenon DEF Leads, Follows
    <3>4. Leads(t) /\ ~ Follows(t)
      BY <2>3, Zenon DEF Leads, Follows
    <3>5. ASSUME NEW u \in Threads
          PROVE  /\ u \in open <=> Leads(u)' /\ me'[u].pc \in {"move", "drain"}
                 /\ following[u] # {} => Leads(u)' /\ me'[u].pc \in {"enter", "parked", "start", "open", "move", "drain"}
                 /\ Follows(u)' /\ me'[u].pc = "move" => me'[u].lead \in open
      <4>1. CASE u = t
        BY Zenon, <1>20, <2>1, <3>2, <3>3, <3>4, <4>1
      <4>2. CASE u # t
        BY <1>20, <3>2, <3>3, <3>5, <4>2, Zenon
      <4> QED
        BY <4>1, <4>2, Zenon
    <3>6. \A u \in Threads : \A v \in Threads : v \in following[u] <=> me'[v].lead = u /\ v # u
      BY <1>21, <3>3, Zenon
    <3> QED
      BY <2>1, <3>1, <3>5, <3>6, ZenonT(60) DEF Groups
  <2>4. CASE me[t].lead \notin {NoOne, t}
    <3>1. /\ me' = [me EXCEPT ![t] = Idle] /\ gathering' = gathering
          /\ following' = [following EXCEPT ![me[t].lead] = @ \ {t}]
      BY <1>9, <2>4, Zenon DEF Moved, groups
    <3>2. me'[t].lead = NoOne /\ me'[t].pc = "idle" /\ \A u \in Threads : u # t => me'[u] = me[u]
      BY <3>1, IdleEffect, Zenon
    <3>3. me[t].lead \in Threads /\ gathering # t
      BY Zenon, <1>18, <2>4 DEF Place
    <3>4. following[t] = {} /\ t \notin open
      BY Zenon, <2>4 DEF Groups, Leads
    <3>5. ~ Leads(t)' /\ ~ Follows(t)'
      BY Zenon, <3>2 DEF Leads, Follows
    <3>6. \A u \in Threads : u # t => (Leads(u)' <=> Leads(u)) /\ (Follows(u)' <=> Follows(u))
      BY <3>2, Zenon DEF Leads, Follows
    <3>7. /\ following'[me[t].lead] = following[me[t].lead] \ {t}
          /\ \A u \in Threads : u # me[t].lead => following'[u] = following[u]
      BY Zenon, <3>1, <3>3
    <3>8. \A u \in Threads : following[u] = {} => following'[u] = {}
      BY Zenon, <3>7
    <3>9. ASSUME NEW u \in Threads
          PROVE  /\ u \in open <=> Leads(u)' /\ me'[u].pc \in {"move", "drain"}
                 /\ following'[u] # {} => Leads(u)' /\ me'[u].pc \in {"enter", "parked", "start", "open", "move", "drain"}
                 /\ Follows(u)' /\ me'[u].pc = "move" => me'[u].lead \in open
      <4>1. CASE u = t
        BY <3>4, <3>5, <3>8, <4>1, Zenon
      <4>2. CASE u # t
        BY <1>20, <3>2, <3>6, <3>8, <3>9, <4>2, Zenon
      <4> QED
        BY <4>1, <4>2, Zenon
    <3>10. ASSUME NEW u \in Threads, NEW v \in Threads PROVE v \in following'[u] <=> me'[v].lead = u /\ v # u
      <4>0. v \in following[u] <=> me[v].lead = u /\ v # u
        BY <1>21, <3>10, Zenon
      <4>1. CASE v = t
        <5>1. me'[t].lead # u
          BY Zenon, <3>2, <3>10
        <5>2. t \notin following'[u]
          <6>1. CASE u = me[t].lead
            BY Zenon, <3>7, <6>1
          <6>2. CASE u # me[t].lead
            BY Zenon, <3>7, <3>10, <4>0, <4>1, <6>2
          <6> QED
            BY <6>1, <6>2, Zenon
        <5> QED
          BY <4>1, <5>1, <5>2, Zenon
      <4>2. CASE v # t
        BY Zenon, <3>2, <3>7, <3>10, <4>0, <4>2
      <4> QED
        BY <4>1, <4>2, Zenon
    <3>11. ASSUME gathering # NoOne
           PROVE  me'[gathering].lead = gathering /\ me'[gathering].pc \in {"enter", "parked", "start", "open", "move"}
      <4>1. me'[gathering] = me[gathering]
        BY Zenon, <3>2, <3>3, <3>11
      <4> QED
        BY Zenon, <1>22, <3>11, <4>1 DEF Leads
    <3>12. gathering' # NoOne => Leads(gathering)' /\ me'[gathering'].pc \in {"enter", "parked", "start", "open", "move"}
      BY <3>1, <3>11, Zenon DEF Leads
    <3>13. \A u \in Threads :
            /\ u \in open' <=> Leads(u)' /\ me'[u].pc \in {"move", "drain"}
            /\ \A v \in Threads : v \in following'[u] <=> me'[v].lead = u /\ v # u
            /\ following'[u] # {} => Leads(u)' /\ me'[u].pc \in {"enter", "parked", "start", "open", "move", "drain"}
            /\ Follows(u)' /\ me'[u].pc = "move" => me'[u].lead \in open'
      BY <2>1, <3>9, <3>10, Zenon
    <3> QED
      BY <3>12, <3>13, Zenon DEF Groups
  <2> QED
    BY <2>2, <2>3, <2>4, Zenon
<1>10. CASE Drain(t)
  <2>1. /\ \A u \in Threads : u # t => me'[u] = me[u]
        /\ me'[t].op = me[t].op /\ me'[t].lead = me[t].lead /\ me[t].pc = "drain" /\ me'[t].pc = "finish"
    BY <1>10, PlainEffect, Zenon
  <2>2. gathering' = gathering /\ open' = open \ {t} /\ following' = following /\ following[t] = {}
    BY <1>10, Zenon DEF Drain, groups
  <2>3. me[t].lead = t /\ me'[t].lead = t /\ gathering # t
    BY Zenon, <1>0, <1>18, <2>1
  <2>4. \A u \in Threads : (Leads(u)' <=> Leads(u)) /\ (Follows(u)' <=> Follows(u)) /\ me'[u].lead = me[u].lead
    BY <2>1, Zenon DEF Leads, Follows
  <2>5. ASSUME NEW u \in Threads
        PROVE  /\ u \in open' <=> Leads(u)' /\ me'[u].pc \in {"move", "drain"}
               /\ following[u] # {} => Leads(u)' /\ me'[u].pc \in {"enter", "parked", "start", "open", "move", "drain"}
               /\ Follows(u)' /\ me'[u].pc = "move" => me'[u].lead \in open'
    <3>1. CASE u = t
      <4>1. t \notin open' /\ ~ Follows(t)
        BY Zenon, <2>2, <2>3 DEF Follows
      <4> QED
        BY Zenon, <2>1, <2>2, <2>4, <3>1, <4>1
    <3>2. CASE u # t
      <4>1. me'[u] = me[u] /\ (u \in open' <=> u \in open)
        BY Zenon, <2>1, <2>2, <3>2
      <4>2. Follows(u) => me[u].lead # t
        <5>1. me[u].lead = t => u \in following[t]
          BY <1>21, <2>5, <3>2, Zenon
        <5> QED
          BY Zenon, <2>2, <5>1
      <4> QED
        BY Zenon, <1>20, <2>2, <2>4, <2>5, <4>1, <4>2
    <3> QED
      BY <3>1, <3>2, Zenon
  <2>6. ASSUME gathering # NoOne
        PROVE  me'[gathering].lead = gathering /\ me'[gathering].pc \in {"enter", "parked", "start", "open", "move"}
    <3>1. me'[gathering] = me[gathering]
      BY Zenon, <2>1, <2>3, <2>6
    <3> QED
      BY Zenon, <1>22, <2>6, <3>1 DEF Leads
  <2>7. \A u \in Threads : \A v \in Threads : v \in following[u] <=> me'[v].lead = u /\ v # u
    BY <1>21, <2>4, Zenon
  <2>8. gathering' # NoOne => Leads(gathering)' /\ me'[gathering'].pc \in {"enter", "parked", "start", "open", "move"}
    BY <2>2, <2>6, Zenon DEF Leads
  <2>9. \A u \in Threads :
          /\ u \in open' <=> Leads(u)' /\ me'[u].pc \in {"move", "drain"}
          /\ \A v \in Threads : v \in following'[u] <=> me'[v].lead = u /\ v # u
          /\ following'[u] # {} => Leads(u)' /\ me'[u].pc \in {"enter", "parked", "start", "open", "move", "drain"}
          /\ Follows(u)' /\ me'[u].pc = "move" => me'[u].lead \in open'
    BY <2>2, <2>5, <2>7, Zenon
  <2> QED
    BY <2>8, <2>9, Zenon DEF Groups
<1>11. CASE Finish(t)
  <2>1. /\ \A u \in Threads : u # t => me'[u] = me[u]
        /\ me'[t].op = me[t].op /\ me'[t].lead = me[t].lead /\ me[t].pc = "finish" /\ me'[t].pc = "leave"
    BY <1>11, PlainEffect, Zenon
  <2>2. gathering' = gathering /\ open' = open /\ following' = following
    BY <1>11, Zenon DEF Finish, groups
  <2>3. /\ me[t].lead = t => (me'[t].pc \in {"move", "drain"} <=> me[t].pc \in {"move", "drain"})
        /\ me[t].lead = t /\ me[t].pc \in {"enter", "parked", "start", "open", "move", "drain"} =>
             me'[t].pc \in {"enter", "parked", "start", "open", "move", "drain"}
        /\ gathering = t => me'[t].pc \in {"enter", "parked", "start", "open", "move"}
        /\ Follows(t) /\ me'[t].pc = "move" => me[t].lead \in open
    BY Zenon, <1>0, <1>18, <1>19, <2>1
  <2> QED
    BY <2>1, <2>2, <2>3, GroupsKept, Zenon
<1>12. CASE QuietStarted(t)
  <2>1. /\ \A u \in Threads : u # t => me'[u] = me[u]
        /\ me'[t].op = me[t].op /\ me'[t].lead = me[t].lead /\ me[t].pc = "quiet" /\ me'[t].pc = "quiet2"
    BY <1>12, PlainEffect, Zenon
  <2>2. gathering' = gathering /\ open' = open /\ following' = following
    BY <1>12, Zenon DEF QuietStarted, groups
  <2>3. /\ me[t].lead = t => (me'[t].pc \in {"move", "drain"} <=> me[t].pc \in {"move", "drain"})
        /\ me[t].lead = t /\ me[t].pc \in {"enter", "parked", "start", "open", "move", "drain"} =>
             me'[t].pc \in {"enter", "parked", "start", "open", "move", "drain"}
        /\ gathering = t => me'[t].pc \in {"enter", "parked", "start", "open", "move"}
        /\ Follows(t) /\ me'[t].pc = "move" => me[t].lead \in open
    BY Zenon, <1>0, <1>18, <1>19, <2>1
  <2> QED
    BY <2>1, <2>2, <2>3, GroupsKept, Zenon
<1>13. CASE QuietFinished(t)
  <2>1. /\ \A u \in Threads : u # t => me'[u] = me[u]
        /\ me'[t].op = me[t].op /\ me'[t].lead = me[t].lead /\ me[t].pc = "quiet2" /\ me'[t].pc \in {"fill", "enter"}
    BY <1>13, PlainEffect, Zenon
  <2>2. gathering' = gathering /\ open' = open /\ following' = following
    BY <1>13, Zenon DEF QuietFinished, groups
  <2>3. /\ me[t].lead = t => (me'[t].pc \in {"move", "drain"} <=> me[t].pc \in {"move", "drain"})
        /\ me[t].lead = t /\ me[t].pc \in {"enter", "parked", "start", "open", "move", "drain"} =>
             me'[t].pc \in {"enter", "parked", "start", "open", "move", "drain"}
        /\ gathering = t => me'[t].pc \in {"enter", "parked", "start", "open", "move"}
        /\ Follows(t) /\ me'[t].pc = "move" => me[t].lead \in open
    BY Zenon, <1>0, <1>18, <1>19, <2>1
  <2> QED
    BY <2>1, <2>2, <2>3, GroupsKept, Zenon
<1>14. CASE Read(t)
  <2>1. /\ \A u \in Threads : u # t => me'[u] = me[u]
        /\ me'[t].op = me[t].op /\ me'[t].lead = me[t].lead /\ me[t].pc \in {"read", "fill"} /\ me'[t].pc = me[t].pc
    BY <1>14, PlainEffect, Zenon
  <2>2. gathering' = gathering /\ open' = open /\ following' = following
    BY <1>14, Zenon DEF Read, groups
  <2>3. /\ me[t].lead = t => (me'[t].pc \in {"move", "drain"} <=> me[t].pc \in {"move", "drain"})
        /\ me[t].lead = t /\ me[t].pc \in {"enter", "parked", "start", "open", "move", "drain"} =>
             me'[t].pc \in {"enter", "parked", "start", "open", "move", "drain"}
        /\ gathering = t => me'[t].pc \in {"enter", "parked", "start", "open", "move"}
        /\ Follows(t) /\ me'[t].pc = "move" => me[t].lead \in open
    BY Zenon, <1>0, <1>18, <1>19, <2>1
  <2> QED
    BY <2>1, <2>2, <2>3, GroupsKept, Zenon
<1>15. CASE FillCheck(t)
  <2>1. /\ \A u \in Threads : u # t => me'[u] = me[u]
        /\ me'[t].op = me[t].op /\ me'[t].lead = me[t].lead /\ me[t].pc = "fill" /\ me'[t].pc \in {"answer", "enter"}
    BY <1>15, PlainEffect, Zenon
  <2>2. gathering' = gathering /\ open' = open /\ following' = following
    BY <1>15, Zenon DEF FillCheck, groups
  <2>3. /\ me[t].lead = t => (me'[t].pc \in {"move", "drain"} <=> me[t].pc \in {"move", "drain"})
        /\ me[t].lead = t /\ me[t].pc \in {"enter", "parked", "start", "open", "move", "drain"} =>
             me'[t].pc \in {"enter", "parked", "start", "open", "move", "drain"}
        /\ gathering = t => me'[t].pc \in {"enter", "parked", "start", "open", "move"}
        /\ Follows(t) /\ me'[t].pc = "move" => me[t].lead \in open
    BY Zenon, <1>0, <1>18, <1>19, <2>1
  <2> QED
    BY <2>1, <2>2, <2>3, GroupsKept, Zenon
<1>16. CASE FillAnswer(t)
  <2>1. /\ \A u \in Threads : u # t => me'[u] = me[u]
        /\ me[t].pc = "answer" /\ me'[t].lead = NoOne /\ me'[t].pc = "idle" /\ me'[t].op = "reading"
    <3>1. me[t].pc = "answer" /\ me' = [me EXCEPT ![t] = Idle]
      BY <1>16, Zenon DEF FillAnswer
    <3> QED
      BY <3>1, IdleEffect, Zenon
  <2>2. gathering' = gathering /\ open' = open /\ following' = following
    BY <1>16, Zenon DEF FillAnswer, groups
  <2>3. ~ Follows(t) /\ me[t].pc \notin {"enter", "parked", "start", "open", "move", "drain"}
    BY Zenon, <1>0, <2>1
  <2> QED
    BY <2>1, <2>2, <2>3, GroupsLeft, Zenon
<1>17. CASE ReadDone(t)
  <2>1. /\ \A u \in Threads : u # t => me'[u] = me[u]
        /\ me'[t].op = me[t].op /\ me'[t].lead = me[t].lead /\ me[t].pc = "read" /\ me'[t].pc = "leave"
    BY <1>17, PlainEffect, Zenon
  <2>2. gathering' = gathering /\ open' = open /\ following' = following
    BY <1>17, Zenon DEF ReadDone, groups
  <2>3. /\ me[t].lead = t => (me'[t].pc \in {"move", "drain"} <=> me[t].pc \in {"move", "drain"})
        /\ me[t].lead = t /\ me[t].pc \in {"enter", "parked", "start", "open", "move", "drain"} =>
             me'[t].pc \in {"enter", "parked", "start", "open", "move", "drain"}
        /\ gathering = t => me'[t].pc \in {"enter", "parked", "start", "open", "move"}
        /\ Follows(t) /\ me'[t].pc = "move" => me[t].lead \in open
    BY Zenon, <1>0, <1>18, <1>19, <2>1
  <2> QED
    BY <2>1, <2>2, <2>3, GroupsKept, Zenon
<1> QED
  BY <1>1, <1>2, <1>3, <1>4, <1>5, <1>6, <1>7, <1>8, <1>9, <1>10, <1>11, <1>12, <1>13, <1>14, <1>15, <1>16, <1>17, Zenon DEF Step

\* What the queue's invariant says of its places.
LEMMA LineFacts ==
  ASSUME InLine
  PROVE  /\ waiting \in Seq(Waiter)
         /\ Len(waiting) \in Nat
         /\ \A i \in 1 .. Len(waiting) :
              /\ waiting[i] \in Waiter /\ waiting[i].who \in Threads
              /\ waiting[i].want = Want(waiting[i].who) /\ me[waiting[i].who].pc = "parked"
         /\ \A i, j \in 1 .. Len(waiting) : waiting[i].who = waiting[j].who => i = j
         /\ \A t \in Threads : me[t].pc = "parked" => \E i \in 1 .. Len(waiting) : waiting[i].who = t
<1>1. waiting \in Seq(Waiter)
  BY Zenon DEF InLine
<1>2. Len(waiting) \in Nat /\ \A i \in 1 .. Len(waiting) : waiting[i] \in Waiter
  BY <1>1
<1>3. \A w \in Waiter : w.who \in Threads
  BY Zenon DEF Waiter
<1> QED
  BY <1>1, <1>2, <1>3, Zenon DEF InLine

\* A step that parks nobody and rouses nobody leaves the queue as it is.
LEMMA LineKept ==
  ASSUME InLine, waiting' = waiting,
         \A u \in Threads : me'[u].pc = "parked" <=> me[u].pc = "parked",
         \A u \in Threads : me[u].pc = "parked" => me'[u].op = me[u].op
  PROVE  InLine'
<1>1. waiting' \in Seq(Waiter)
  BY Zenon, LineFacts
<1>2. \A i \in 1 .. Len(waiting) : waiting[i].want = Want(waiting[i].who)' /\ me'[waiting[i].who].pc = "parked"
  BY Zenon, LineFacts DEF Want
<1>3. \A t \in Threads : me'[t].pc = "parked" => \E i \in 1 .. Len(waiting) : waiting[i].who = t
  BY LineFacts, Zenon
<1> QED
  BY <1>1, <1>2, <1>3, LineFacts, Zenon DEF InLine

\* Whoever is at the front and goes in leaves the rest of the queue as it is.
LEMMA LineShrinks ==
  ASSUME InLine, me \in [Threads -> Place], NEW t \in Threads, waiting # <<>>, waiting[1].who = t,
         waiting' = Tail(waiting), me'[t].pc # "parked",
         \A u \in Threads : u # t => me'[u] = me[u]
  PROVE  InLine'
<1>1. /\ waiting' \in Seq(Waiter) /\ Len(waiting') = Len(waiting) - 1 /\ Len(waiting) \in Nat
      /\ \A i \in 1 .. Len(waiting') : i + 1 \in 1 .. Len(waiting) /\ waiting'[i] = waiting[i + 1]
      /\ \A i \in 1 .. Len(waiting) : waiting[i] \in Waiter
  BY SMTT(60), LineFacts
<1>2. \A i \in 1 .. Len(waiting') : waiting'[i].who # t
  BY SMTT(60), <1>1, LineFacts
<1>3. \A i \in 1 .. Len(waiting') : waiting'[i].who \in Threads
  BY Zenon, <1>1 DEF Waiter
<1>4. (\A i \in 1 .. Len(waiting) : waiting[i].want = Want(waiting[i].who) /\ me[waiting[i].who].pc = "parked")'
  <2> SUFFICES ASSUME NEW i \in 1 .. Len(waiting')
               PROVE  (waiting[i].want = Want(waiting[i].who) /\ me[waiting[i].who].pc = "parked")'
    BY Zenon
  <2>0. PICK u \in Threads : u = waiting'[i].who
    BY Zenon, <1>3
  <2>1. /\ u # t /\ u = waiting[i + 1].who
        /\ waiting'[i].want = Want(u) /\ me[u].pc = "parked"
    BY <1>1, <1>2, <2>0, LineFacts
  <2>2. me'[u] = me[u]
    BY Zenon, <2>1
  <2>3. waiting'[i].want = Want(u)' /\ me'[u].pc = "parked"
    BY Zenon, <2>1, <2>2 DEF Want
  <2> QED
    BY Zenon, <2>0, <2>3 DEF Want
<1>5. \A i, j \in 1 .. Len(waiting') : waiting'[i].who = waiting'[j].who => i = j
  BY <1>1, LineFacts
<1>6. ASSUME NEW u \in Threads, me'[u].pc = "parked"
      PROVE  \E i \in 1 .. Len(waiting') : waiting'[i].who = u
  <2>1. PICK i \in 1 .. Len(waiting) : waiting[i].who = u
    BY Zenon, <1>6, LineFacts
  <2>2. i # 1
    BY Zenon, <1>6, <2>1
  <2>3. i - 1 \in 1 .. Len(waiting') /\ waiting'[i - 1] = waiting[i]
    BY <1>1, <2>2
  <2> QED
    BY Zenon, <2>1, <2>3
<1> QED
  BY <1>1, <1>4, <1>5, <1>6, Zenon DEF InLine

\* Whoever joins the queue is not in it yet.
LEMMA LineGrows ==
  ASSUME InLine, me \in [Threads -> Place], NEW t \in Threads, me[t].pc # "parked",
         waiting' = Append(waiting, [who |-> t, want |-> Want(t)]), me'[t].pc = "parked", me'[t].op = me[t].op,
         \A u \in Threads : u # t => me'[u] = me[u]
  PROVE  InLine'
<1> DEFINE w == [who |-> t, want |-> Want(t)]
<1>0. w \in Waiter /\ w.who = t /\ w.want = Want(t)'
  BY Zenon DEF Waiter, Want
<1> HIDE DEF w
<1>1. /\ waiting' = Append(waiting, w)
      /\ waiting' \in Seq(Waiter) /\ Len(waiting') = Len(waiting) + 1 /\ Len(waiting) \in Nat
      /\ \A i \in 1 .. Len(waiting) : waiting'[i] = waiting[i]
      /\ waiting'[Len(waiting) + 1] = w
      /\ \A i \in 1 .. Len(waiting) : waiting[i] \in Waiter
  <2>1. waiting' = Append(waiting, w)
    BY Zenon DEF w
  <2> QED
    <3>1. waiting \in Seq(Waiter)
      BY Zenon DEF InLine
    <3> QED
      BY <1>0, <2>1, <3>1
<1>2. \A i \in 1 .. Len(waiting) : waiting[i].who # t /\ waiting[i].who \in Threads
  BY SMTT(60), LineFacts
<1>3. \A i \in 1 .. Len(waiting') : i \in 1 .. Len(waiting) \/ i = Len(waiting) + 1
  BY SMTT(60), <1>1
<1>4. (\A i \in 1 .. Len(waiting) : waiting[i].want = Want(waiting[i].who) /\ me[waiting[i].who].pc = "parked")'
  <2>0. \A u \in Threads : me'[u].op = me[u].op
    BY Zenon
  <2> SUFFICES ASSUME NEW i \in 1 .. Len(waiting')
               PROVE  (waiting[i].want = Want(waiting[i].who) /\ me[waiting[i].who].pc = "parked")'
    BY Zenon
  <2>4. PICK u \in Threads : u = waiting'[i].who
    BY Zenon, <1>0, <1>1, <1>2, <1>3
  <2>1. waiting'[i].want = Want(u) /\ me'[u].pc = "parked"
    <3>1. CASE i \in 1 .. Len(waiting)
      <4>1. waiting'[i] = waiting[i] /\ u = waiting[i].who /\ u # t
        BY Zenon, <1>1, <1>2, <2>4, <3>1
      <4>2. waiting[i].want = Want(u) /\ me[u].pc = "parked"
        BY Zenon, <3>1, <4>1, LineFacts
      <4> QED
        BY Zenon, <4>1, <4>2
    <3>2. CASE i = Len(waiting) + 1
      <4>1. waiting'[i] = w /\ u = t
        BY Zenon, <1>0, <1>1, <2>4, <3>2
      <4> QED
        BY Zenon, <1>0, <4>1 DEF Want
    <3> QED
      BY Zenon, <1>3, <3>1, <3>2
  <2>3. waiting'[i].want = Want(u)'
    BY Zenon, <2>0, <2>1 DEF Want
  <2> QED
    BY <2>1, <2>3, <2>4, Zenon
<1>5. \A i, j \in 1 .. Len(waiting') : waiting'[i].who = waiting'[j].who => i = j
  <2>1. \A i, j \in 1 .. Len(waiting) : waiting[i].who = waiting[j].who => i = j
    BY Zenon DEF InLine
  <2>2. \A i \in 1 .. Len(waiting) : waiting'[i].who = waiting[i].who /\ waiting'[i].who # t
    BY <1>1, <1>2, Zenon
  <2>3. waiting'[Len(waiting) + 1].who = t
    BY <1>0, <1>1, Zenon
  <2> QED
    <3>1. ASSUME NEW i \in 1 .. Len(waiting'), NEW j \in 1 .. Len(waiting'), waiting'[i].who = waiting'[j].who PROVE i = j
      <4>1. CASE i \in 1 .. Len(waiting) /\ j \in 1 .. Len(waiting)
        BY <2>1, <2>2, <3>1, <4>1, Zenon
      <4>2. CASE i = Len(waiting) + 1 /\ j \in 1 .. Len(waiting)
        BY <2>2, <2>3, <3>1, <4>2, Zenon
      <4>3. CASE i \in 1 .. Len(waiting) /\ j = Len(waiting) + 1
        BY <2>2, <2>3, <3>1, <4>3, Zenon
      <4>4. CASE i = Len(waiting) + 1 /\ j = Len(waiting) + 1
        BY <4>4, Zenon
      <4> QED
        BY <1>3, <4>1, <4>2, <4>3, <4>4, Zenon
    <3> QED
      BY <3>1, Zenon
<1>6. ASSUME NEW u \in Threads, me'[u].pc = "parked"
      PROVE  \E i \in 1 .. Len(waiting') : waiting'[i].who = u
  <2>1. CASE u = t
    BY SMTT(60), <1>0, <1>1, <2>1
  <2>2. CASE u # t
    <3>1. PICK i \in 1 .. Len(waiting) : waiting[i].who = u
      BY Zenon, <1>6, <2>2, LineFacts
    <3> QED
      BY SMTT(60), <1>1, <3>1
  <2> QED
    BY Zenon, <2>1, <2>2
<1> QED
  BY <1>1, <1>4, <1>5, <1>6, Zenon DEF InLine

\* The queue holds those that park, once each.
LEMMA LineHolds ==
  ASSUME NoOne \notin Threads, me \in [Threads -> Place], InLine, gathering \in Threads \cup {NoOne},
         NEW t \in Threads, Begin(t) \/ Step(t)
  PROVE  InLine'
<1>1. CASE Begin(t)
  <2>1. /\ waiting' = waiting /\ me[t].pc # "parked" /\ me'[t].pc # "parked"
        /\ \A u \in Threads : u # t => me'[u] = me[u]
    BY Zenon, <1>1, BeginEffect DEF queue
  <2> QED
    BY <2>1, LineKept, Zenon
<1>2. CASE Enter(t) \/ Rouse(t)
  <2>0. /\ \A u \in Threads : u # t => me'[u] = me[u]
        /\ me[t].pc \in {"enter", "parked"} /\ me'[t].op = me[t].op
    BY Zenon, <1>2, EnterEffect
  <2>1. CASE Enter(t)
    <3> DEFINE line == Append(waiting, [who |-> t, want |-> Want(t)])
    <3>1. CASE MayEnter(t, line)
      <4>1. waiting = <<>>
        BY Zenon, <2>1, <3>1, TurnIsFront DEF Enter
      <4>2. waiting' = waiting /\ me[t].pc = "enter"
        BY <2>1, <3>1, <4>1 DEF Enter, TakeTurn
      <4>3. me'[t].pc # "parked"
        BY SMTT(60), <2>1, <3>1 DEF Enter, TakeTurn, Goes, Inside, Place
      <4> QED
        BY <2>0, <4>2, <4>3, LineKept, Zenon
    <3>2. CASE ~ MayEnter(t, line)
      <4>1. waiting' = line /\ me'[t].pc = "parked" /\ me[t].pc = "enter"
        BY <2>1, <3>2 DEF Enter, Goes, Place
      <4> QED
        BY <2>0, <4>1, LineGrows, Zenon
    <3> QED
      BY Zenon, <3>1, <3>2
  <2>2. CASE Rouse(t)
    <3>1. CASE MayEnter(t, waiting)
      <4>1. waiting # <<>> /\ waiting[1].who = t
        BY <2>2, <3>1, LineFacts DEF Rouse, MayEnter
      <4>2. waiting' = Tail(waiting) /\ me'[t].pc # "parked"
        BY <2>2, <3>1 DEF Rouse, TakeTurn, Goes, Inside, Place
      <4> QED
        BY <2>0, <4>1, <4>2, LineShrinks, Zenon
    <3>2. CASE ~ MayEnter(t, waiting)
      <4>1. waiting' = waiting /\ me' = me
        BY Zenon, <2>2, <3>2 DEF Rouse, queue
      <4> QED
        BY <4>1, LineKept, Zenon
    <3> QED
      BY Zenon, <3>1, <3>2
  <2> QED
    BY Zenon, <1>2, <2>1, <2>2
<1>3. CASE Leave(t)
  <2>1. /\ waiting' = waiting /\ me[t].pc # "parked" /\ me'[t].pc # "parked"
        /\ \A u \in Threads : u # t => me'[u] = me[u]
    BY ZenonT(60), <1>3 DEF Leave, Idle, Place, queue
  <2> QED
    BY <2>1, LineKept, Zenon
<1>4. CASE Gather(t)
  <2>1. /\ waiting' = waiting /\ me[t].pc # "parked" /\ me'[t].pc # "parked"
        /\ \A u \in Threads : u # t => me'[u] = me[u]
    BY ZenonT(60), <1>4, GatherEffect DEF queue
  <2> QED
    BY <2>1, LineKept, Zenon
<1>5. CASE Follow(t)
  <2>1. /\ waiting' = waiting /\ me[t].pc # "parked" /\ me'[t].pc # "parked"
        /\ \A u \in Threads : u # t => me'[u] = me[u]
    BY Zenon, <1>5 DEF Follow, Goes, Place, queue
  <2> QED
    BY <2>1, LineKept, Zenon
<1>6. CASE Start(t)
  <2>1. /\ waiting' = waiting /\ me[t].pc # "parked" /\ me'[t].pc # "parked"
        /\ \A u \in Threads : u # t => me'[u] = me[u]
    BY Zenon, <1>6 DEF Start, Goes, Place, queue
  <2> QED
    BY <2>1, LineKept, Zenon
<1>7. CASE Open(t)
  <2>1. /\ waiting' = waiting /\ me[t].pc # "parked" /\ me'[t].pc # "parked"
        /\ \A u \in Threads : u # t => me'[u] = me[u]
    BY Zenon, <1>7 DEF Open, Goes, Place, queue
  <2> QED
    BY <2>1, LineKept, Zenon
<1>8. CASE Move(t)
  <2>1. /\ waiting' = waiting /\ me[t].pc # "parked" /\ me'[t].pc # "parked"
        /\ \A u \in Threads : u # t => me'[u] = me[u]
    BY <1>8 DEF Move, Place, queue
  <2> QED
    BY <2>1, LineKept, Zenon
<1>9. CASE Moved(t)
  <2>1. /\ waiting' = waiting /\ me[t].pc # "parked" /\ me'[t].pc # "parked"
        /\ \A u \in Threads : u # t => me'[u] = me[u]
    BY <1>9 DEF Moved, Goes, Idle, Place, queue
  <2> QED
    BY <2>1, LineKept, Zenon
<1>10. CASE Drain(t)
  <2>1. /\ waiting' = waiting /\ me[t].pc # "parked" /\ me'[t].pc # "parked"
        /\ \A u \in Threads : u # t => me'[u] = me[u]
    BY Zenon, <1>10 DEF Drain, Goes, Place, queue
  <2> QED
    BY <2>1, LineKept, Zenon
<1>11. CASE Finish(t)
  <2>1. /\ waiting' = waiting /\ me[t].pc # "parked" /\ me'[t].pc # "parked"
        /\ \A u \in Threads : u # t => me'[u] = me[u]
    BY Zenon, <1>11 DEF Finish, Goes, Place, queue
  <2> QED
    BY <2>1, LineKept, Zenon
<1>12. CASE QuietStarted(t)
  <2>1. /\ waiting' = waiting /\ me[t].pc # "parked" /\ me'[t].pc # "parked"
        /\ \A u \in Threads : u # t => me'[u] = me[u]
    BY Zenon, <1>12 DEF QuietStarted, Place, queue
  <2> QED
    BY <2>1, LineKept, Zenon
<1>13. CASE QuietFinished(t)
  <2>1. /\ waiting' = waiting /\ me[t].pc # "parked" /\ me'[t].pc # "parked"
        /\ \A u \in Threads : u # t => me'[u] = me[u]
    BY Zenon, <1>13 DEF QuietFinished, Goes, Place, queue
  <2> QED
    BY <2>1, LineKept, Zenon
<1>14. CASE Read(t)
  <2>1. /\ waiting' = waiting /\ me[t].pc # "parked" /\ me'[t].pc # "parked"
        /\ \A u \in Threads : u # t => me'[u] = me[u]
    BY Zenon, <1>14 DEF Read, Place, queue
  <2> QED
    BY <2>1, LineKept, Zenon
<1>15. CASE FillCheck(t)
  <2>1. /\ waiting' = waiting /\ me[t].pc # "parked" /\ me'[t].pc # "parked"
        /\ \A u \in Threads : u # t => me'[u] = me[u]
    BY SMTT(60), <1>15 DEF FillCheck, Idle, Place, queue
  <2> QED
    BY <2>1, LineKept, Zenon
<1>16. CASE FillAnswer(t)
  <2>1. /\ waiting' = waiting /\ me[t].pc # "parked" /\ me'[t].pc # "parked"
        /\ \A u \in Threads : u # t => me'[u] = me[u]
    BY Zenon, <1>16 DEF FillAnswer, Idle, Place, queue
  <2> QED
    BY <2>1, LineKept, Zenon
<1>17. CASE ReadDone(t)
  <2>1. /\ waiting' = waiting /\ me[t].pc # "parked" /\ me'[t].pc # "parked"
        /\ \A u \in Threads : u # t => me'[u] = me[u]
    BY Zenon, <1>17 DEF ReadDone, Goes, Place, queue
  <2> QED
    BY <2>1, LineKept, Zenon
<1> QED
  BY Zenon, <1>1, <1>2, <1>3, <1>4, <1>5, <1>6, <1>7, <1>8, <1>9, <1>10, <1>11, <1>12, <1>13, <1>14, <1>15, <1>16, <1>17 DEF Step

\* A call that has not begun on its keys has them all to do.
LEMMA FreshStep ==
  ASSUME NoOne \notin Threads, me \in [Threads -> Place], InLine, Fresh, gathering \in Threads \cup {NoOne},
         NEW t \in Threads, Begin(t) \/ Step(t)
  PROVE  Fresh'
<1> USE DEF Place, Fresh
<1>1. CASE Begin(t)
  BY SMTT(60), <1>1, BeginEffect
<1>2. CASE Enter(t) \/ Rouse(t)
  <2>1. /\ \A u \in Threads : u # t => me'[u] = me[u]
        /\ me[t].pc \in {"enter", "parked"} /\ me'[t].todo = me[t].todo
    BY <1>2, EnterEffect, ZenonT(60)
  <2>2. me[t].todo = Keys
    BY Zenon, <2>1
  <2> QED
    BY <2>1, <2>2, Zenon
<1>3. CASE Leave(t)
  BY Zenon, <1>3 DEF Leave, Idle
<1>4. CASE Gather(t)
  <2>1. /\ \A u \in Threads : u # t => me'[u] = me[u]
        /\ me[t].pc = "gather" /\ me'[t].todo = me[t].todo
    BY <1>4, GatherEffect, ZenonT(60)
  <2>2. me[t].todo = Keys
    BY Zenon, <2>1
  <2> QED
    BY <2>1, <2>2, Zenon
<1>5. CASE Follow(t)
  BY Zenon, <1>5 DEF Follow, Goes
<1>6. CASE Start(t)
  BY Zenon, <1>6 DEF Start, Goes
<1>7. CASE Open(t)
  BY Zenon, <1>7 DEF Open, Goes
<1>8. CASE Move(t)
  BY <1>8 DEF Move
<1>9. CASE Moved(t)
  BY <1>9 DEF Moved, Goes, Idle
<1>10. CASE Drain(t)
  BY Zenon, <1>10 DEF Drain, Goes
<1>11. CASE Finish(t)
  BY Zenon, <1>11 DEF Finish, Goes
<1>12. CASE QuietStarted(t)
  BY Zenon, <1>12 DEF QuietStarted
<1>13. CASE QuietFinished(t)
  BY Zenon, <1>13 DEF QuietFinished, Goes
<1>14. CASE Read(t)
  BY <1>14 DEF Read
<1>15. CASE FillCheck(t)
  BY <1>15 DEF FillCheck, Idle
<1>16. CASE FillAnswer(t)
  BY Zenon, <1>16 DEF FillAnswer, Idle
<1>17. CASE ReadDone(t)
  BY Zenon, <1>17 DEF ReadDone, Goes
<1> QED
  BY ZenonT(60), <1>1, <1>2, <1>3, <1>4, <1>5, <1>6, <1>7, <1>8, <1>9, <1>10, <1>11, <1>12, <1>13, <1>14, <1>15, <1>16, <1>17 DEF Step

\* A step that moves no key keeps what is raised.
LEMMA RaisedKept ==
  ASSUME Raised, index' = index, NEW t \in Threads, \A u \in Threads : u # t => me'[u] = me[u],
         me[t].pc = "move" => me[t].todo = {}, me'[t].pc = "move" => me'[t].todo = Keys
  PROVE  Raised'
BY SMTT(60) DEF Raised

\* A batch raises what it moves, and a key behind another is one that a batch has still to move.
LEMMA RaisedStep ==
  ASSUME NoOne \notin Threads, me \in [Threads -> Place], InLine, Fresh, Raised, index \in [Keys -> Nat], gathering \in Threads \cup {NoOne},
         NEW t \in Threads, Begin(t) \/ Step(t)
  PROVE  Raised'
<1>1. CASE Begin(t)
  <2>1. /\ index' = index /\ \A u \in Threads : u # t => me'[u] = me[u]
        /\ me[t].pc = "move" => me[t].todo = {}
        /\ me'[t].pc = "move" => me'[t].todo = Keys
    BY ZenonT(60), <1>1, BeginEffect DEF entries
  <2> QED
    BY <2>1, RaisedKept, Zenon
<1>2. CASE Enter(t) \/ Rouse(t)
  <2>1. /\ index' = index /\ \A u \in Threads : u # t => me'[u] = me[u]
        /\ me[t].pc = "move" => me[t].todo = {}
        /\ me'[t].pc = "move" => me'[t].todo = Keys
    BY ZenonT(60), <1>2, EnterEffect DEF entries
  <2> QED
    BY <2>1, RaisedKept, Zenon
<1>3. CASE Leave(t)
  <2>1. /\ index' = index /\ \A u \in Threads : u # t => me'[u] = me[u]
        /\ me[t].pc = "move" => me[t].todo = {}
        /\ me'[t].pc = "move" => me'[t].todo = Keys
    BY Zenon, <1>3 DEF Leave, Idle, Place, entries, Fresh
  <2> QED
    BY <2>1, RaisedKept, Zenon
<1>4. CASE Gather(t)
  <2>1. /\ index' = index /\ \A u \in Threads : u # t => me'[u] = me[u]
        /\ me[t].pc = "move" => me[t].todo = {}
        /\ me'[t].pc = "move" => me'[t].todo = Keys
    BY ZenonT(60), <1>4, GatherEffect DEF entries
  <2> QED
    BY <2>1, RaisedKept, Zenon
<1>5. CASE Follow(t)
  <2>1. /\ index' = index /\ \A u \in Threads : u # t => me'[u] = me[u]
        /\ me[t].pc = "move" => me[t].todo = {}
        /\ me'[t].pc = "move" => me'[t].todo = Keys
    BY Zenon, <1>5 DEF Follow, Goes, Place, entries, Fresh
  <2> QED
    BY <2>1, RaisedKept, Zenon
<1>6. CASE Start(t)
  <2>1. /\ index' = index /\ \A u \in Threads : u # t => me'[u] = me[u]
        /\ me[t].pc = "move" => me[t].todo = {}
        /\ me'[t].pc = "move" => me'[t].todo = Keys
    BY Zenon, <1>6 DEF Start, Goes, Place, entries, Fresh
  <2> QED
    BY <2>1, RaisedKept, Zenon
<1>7. CASE Open(t)
  <2>1. /\ index' = index /\ \A u \in Threads : u # t => me'[u] = me[u]
        /\ me[t].pc = "move" => me[t].todo = {}
        /\ me'[t].pc = "move" => me'[t].todo = Keys
    BY Zenon, <1>7 DEF Open, Goes, Place, entries, Fresh
  <2> QED
    BY <2>1, RaisedKept, Zenon
<1>8. CASE Move(t)
  <2>1. PICK x \in me[t].todo :
          /\ index' = [index EXCEPT ![x] = IF @ < me[t].batch THEN me[t].batch ELSE @]
          /\ me' = [me EXCEPT ![t].todo = @ \ {x}]
    BY ZenonT(60), <1>8 DEF Move
  <2>2. /\ \A u \in Threads : u # t => me'[u] = me[u]
        /\ me[t].pc = "move" /\ me'[t].pc = "move" /\ me'[t].batch = me[t].batch /\ me'[t].todo = me[t].todo \ {x}
        /\ me[t].batch \in Nat /\ x \in Keys
    BY <1>8, <2>1 DEF Move, Place
  <2>3. /\ \A k \in Keys : k # x => index'[k] = index[k]
        /\ index'[x] = (IF index[x] < me[t].batch THEN me[t].batch ELSE index[x])
        /\ \A k \in Keys : index[k] \in Nat /\ index'[k] \in Nat /\ index[k] <= index'[k]
    BY <2>1, <2>2
  <2>4. ASSUME NEW u \in Threads, me'[u].pc = "move", NEW k \in Keys \ me'[u].todo
        PROVE  me'[u].batch <= index'[k]
    <3>1. CASE k # x \/ u # t
      <4>1. me'[u].batch = me[u].batch /\ me[u].batch \in Nat /\ me[u].pc = "move" /\ k \notin me[u].todo
        BY Zenon, <2>2, <2>4, <3>1 DEF Place
      <4> QED
        BY SMTT(60), <2>3, <4>1 DEF Raised
    <3>2. CASE k = x /\ u = t
      BY SMTT(60), <2>2, <2>3, <3>2
    <3> QED
      BY Zenon, <3>1, <3>2
  <2>5. ASSUME NEW k \in Keys, NEW l \in Keys, index'[k] < index'[l]
        PROVE  \E u \in Threads : me'[u].pc = "move" /\ k \in me'[u].todo /\ index'[l] <= me'[u].batch
    <3>1. CASE l = x /\ index[l] < me[t].batch
      <4>1. index'[l] = me[t].batch /\ k # x /\ index'[k] = index[k] /\ index[k] < me[t].batch
        BY <2>2, <2>3, <2>5, <3>1
      <4>2. k \in me[t].todo
        BY <2>2, <2>3, <4>1 DEF Raised
      <4>3. k \in me'[t].todo
        BY Zenon, <2>2, <4>1, <4>2
      <4> QED
        BY <2>2, <2>3, <4>1, <4>3
    <3>2. CASE l # x \/ ~ (index[l] < me[t].batch)
      <4>1. index'[l] = index[l] /\ index[k] < index[l]
        BY SMTT(60), <2>2, <2>3, <2>5, <3>2
      <4>2. PICK u \in Threads : me[u].pc = "move" /\ k \in me[u].todo /\ index[l] <= me[u].batch
        BY Zenon, <4>1 DEF Raised
      <4>3. u # t \/ k # x
        BY SMTT(60), <2>2, <2>3, <2>5, <4>1, <4>2
      <4> QED
        <5>1. me'[u].pc = "move" /\ k \in me'[u].todo /\ me'[u].batch = me[u].batch
          BY Zenon, <2>2, <4>2, <4>3
        <5> QED
          BY Zenon, <4>1, <4>2, <5>1
    <3> QED
      BY Zenon, <3>1, <3>2
  <2> QED
    BY Zenon, <2>4, <2>5 DEF Raised
<1>9. CASE Moved(t)
  <2>1. /\ index' = index /\ \A u \in Threads : u # t => me'[u] = me[u]
        /\ me[t].pc = "move" => me[t].todo = {}
        /\ me'[t].pc = "move" => me'[t].todo = Keys
    BY <1>9 DEF Moved, Goes, Idle, Place, entries, Fresh
  <2> QED
    BY <2>1, RaisedKept, Zenon
<1>10. CASE Drain(t)
  <2>1. /\ index' = index /\ \A u \in Threads : u # t => me'[u] = me[u]
        /\ me[t].pc = "move" => me[t].todo = {}
        /\ me'[t].pc = "move" => me'[t].todo = Keys
    BY Zenon, <1>10 DEF Drain, Goes, Place, entries, Fresh
  <2> QED
    BY <2>1, RaisedKept, Zenon
<1>11. CASE Finish(t)
  <2>1. /\ index' = index /\ \A u \in Threads : u # t => me'[u] = me[u]
        /\ me[t].pc = "move" => me[t].todo = {}
        /\ me'[t].pc = "move" => me'[t].todo = Keys
    BY Zenon, <1>11 DEF Finish, Goes, Place, entries, Fresh
  <2> QED
    BY <2>1, RaisedKept, Zenon
<1>12. CASE QuietStarted(t)
  <2>1. /\ index' = index /\ \A u \in Threads : u # t => me'[u] = me[u]
        /\ me[t].pc = "move" => me[t].todo = {}
        /\ me'[t].pc = "move" => me'[t].todo = Keys
    BY ZenonT(60), <1>12 DEF QuietStarted, Place, entries, Fresh
  <2> QED
    BY <2>1, RaisedKept, Zenon
<1>13. CASE QuietFinished(t)
  <2>1. /\ index' = index /\ \A u \in Threads : u # t => me'[u] = me[u]
        /\ me[t].pc = "move" => me[t].todo = {}
        /\ me'[t].pc = "move" => me'[t].todo = Keys
    BY ZenonT(60), <1>13 DEF QuietFinished, Goes, Place, entries, Fresh
  <2> QED
    BY <2>1, RaisedKept, Zenon
<1>14. CASE Read(t)
  <2>1. /\ index' = index /\ \A u \in Threads : u # t => me'[u] = me[u]
        /\ me[t].pc = "move" => me[t].todo = {}
        /\ me'[t].pc = "move" => me'[t].todo = Keys
    BY <1>14 DEF Read, Place, entries, Fresh
  <2> QED
    BY <2>1, RaisedKept, Zenon
<1>15. CASE FillCheck(t)
  <2>1. /\ index' = index /\ \A u \in Threads : u # t => me'[u] = me[u]
        /\ me[t].pc = "move" => me[t].todo = {}
        /\ me'[t].pc = "move" => me'[t].todo = Keys
    BY SMTT(60), <1>15 DEF FillCheck, Idle, Place, entries, Fresh
  <2> QED
    BY <2>1, RaisedKept, Zenon
<1>16. CASE FillAnswer(t)
  <2>1. /\ index' = index /\ \A u \in Threads : u # t => me'[u] = me[u]
        /\ me[t].pc = "move" => me[t].todo = {}
        /\ me'[t].pc = "move" => me'[t].todo = Keys
    BY Zenon, <1>16 DEF FillAnswer, Idle, Place, entries, Fresh
  <2> QED
    BY <2>1, RaisedKept, Zenon
<1>17. CASE ReadDone(t)
  <2>1. /\ index' = index /\ \A u \in Threads : u # t => me'[u] = me[u]
        /\ me[t].pc = "move" => me[t].todo = {}
        /\ me'[t].pc = "move" => me'[t].todo = Keys
    BY Zenon, <1>17 DEF ReadDone, Goes, Place, entries, Fresh
  <2> QED
    BY <2>1, RaisedKept, Zenon
<1> QED
  BY Zenon, <1>1, <1>2, <1>3, <1>4, <1>5, <1>6, <1>7, <1>8, <1>9, <1>10, <1>11, <1>12, <1>13, <1>14, <1>15, <1>16, <1>17 DEF Step

\* Whoever moves keys has a holder of the barrier: itself, or its leader.
LEMMA MoverHeld ==
  ASSUME NoOne \notin Threads, me \in [Threads -> Place], Calls, Groups, NEW t \in Threads, me[t].pc = "move"
  PROVE  \E h \in Threads : Moving(h) /\ ((h = t /\ ~ Follows(t)) \/ (h = me[t].lead /\ Follows(t) /\ Leads(h)))
<1>1. Batch(t)
  BY Zenon DEF Calls, CallOf
<1>2. CASE ~ Follows(t)
  <2>1. Moving(t)
    BY Zenon, <1>1, <1>2 DEF Moving, Holds
  <2> QED
    BY Zenon, <1>2, <2>1
<1>3. CASE Follows(t)
  <2>1. PICK h \in Threads : h = me[t].lead /\ h \in open
    BY Zenon, <1>3 DEF Groups, Follows
  <2>2. Leads(h) /\ me[h].pc \in {"move", "drain"}
    BY Zenon, <2>1 DEF Groups
  <2>3. Batch(h) /\ ~ Follows(h)
    BY Zenon, <2>2 DEF Calls, CallOf, Leads, Follows
  <2> QED
    BY Zenon, <1>3, <2>1, <2>2, <2>3 DEF Moving, Holds
<1> QED
  BY Zenon, <1>2, <1>3

\* A batch moves under its leader's hold, alone.
LEMMA HeldMoves ==
  ASSUME NoOne \notin Threads, me \in [Threads -> Place], Calls, InQueue, Groups
  PROVE  MovesHoldBarrier
<1> SUFFICES ASSUME NEW t \in Threads, me[t].pc = "move"
             PROVE  /\ isPublishing /\ readers = {}
                    /\ \A u \in Threads : me[u].pc = "move" => me[u].lead = me[t].lead
                    /\ me[t].lead \notin {NoOne, t} => t \in following[me[t].lead]
  BY Zenon DEF MovesHoldBarrier
<1>1. PICK h \in Threads : Moving(h) /\ ((h = t /\ ~ Follows(t)) \/ (h = me[t].lead /\ Follows(t) /\ Leads(h)))
  BY Zenon, MoverHeld
<1>2. isPublishing /\ readers = {}
  BY Zenon, <1>1 DEF InQueue, Moving
<1>3. ASSUME NEW u \in Threads, me[u].pc = "move" PROVE me[u].lead = me[t].lead
  <2>1. PICK g \in Threads : Moving(g) /\ ((g = u /\ ~ Follows(u)) \/ (g = me[u].lead /\ Follows(u) /\ Leads(g)))
    BY Zenon, <1>3, MoverHeld
  <2>2. g = h
    BY Zenon, <1>1, <2>1 DEF InQueue, Moving
  <2> QED
    BY Zenon, <1>1, <2>1, <2>2 DEF Leads, Follows
<1>4. me[t].lead \notin {NoOne, t} => t \in following[me[t].lead]
  BY SMTT(60) DEF Groups, Place
<1> QED
  BY Zenon, <1>2, <1>3, <1>4

\* With no batch moving, every key is at the same batch.
LEMMA AllAlike ==
  ASSUME Raised, index \in [Keys -> Nat], \A t \in Threads : me[t].pc # "move"
  PROVE  \A k, l \in Keys : index[k] = index[l]
<1>1. \A k, l \in Keys : ~ (index[k] < index[l]) /\ index[k] \in Nat /\ index[l] \in Nat
  BY Zenon DEF Raised
<1> QED
  BY SMTT(60), <1>1

\* Nothing moves while a read is inside.
LEMMA InsideAlone ==
  ASSUME NoOne \notin Threads, me \in [Threads -> Place], Calls, InQueue, Groups,
         NEW r \in Threads, me[r].pc = "read"
  PROVE  \A t \in Threads : me[t].pc # "move"
<1>1. r \in readers
  BY Zenon DEF Calls, CallOf, InQueue
<1> QED
  BY Zenon, <1>1, HeldMoves DEF MovesHoldBarrier

\* While a batch moves, one more has started than finished; at any time at most one has.
LEMMA CountsApart ==
  ASSUME NoOne \notin Threads, me \in [Threads -> Place], Calls, Groups, Counts, started \in Nat, finished \in Nat
  PROVE  /\ finished <= started
         /\ \A t \in Threads : me[t].pc = "move" => started = finished + 1
<1>1. \A t \in Threads : me[t].pc = "move" => started = finished + 1
  BY Zenon, MoverHeld DEF Counts
<1>2. started = finished \/ started = finished + 1
  BY Zenon DEF Counts
<1> QED
  BY <1>1, <1>2

\* A step that changes no key and no count keeps what a read has.
LEMMA ReadingKept ==
  ASSUME Reading, index' = index, started' = started, finished' = finished,
         NEW t \in Threads, \A u \in Threads : u # t => me'[u] = me[u],
         me'[t].pc \in {"read", "fill"} => me'[t].todo = Keys, me'[t].pc = "fill" => me'[t].quiet <= finished
  PROVE  Reading'
<1>1. ASSUME NEW u \in Threads, u # t PROVE ReadOf(u)'
  <2>1. ReadOf(u) /\ me'[u] = me[u]
    BY <1>1, Zenon DEF Reading
  <2> QED
    BY <2>1, Zenon DEF ReadOf
<1>2. ReadOf(t)'
  BY Zenon DEF ReadOf
<1> QED
  BY <1>1, <1>2, Zenon DEF Reading

\* A read has what the index holds.
LEMMA ReadingStep ==
  ASSUME NoOne \notin Threads, me \in [Threads -> Place], gathering \in Threads \cup {NoOne},
         started \in Nat, finished \in Nat, index \in [Keys -> Nat],
         InLine, Calls, InQueue, Groups, Counts, Fresh, Reading,
         NEW t \in Threads, Begin(t) \/ Step(t)
  PROVE  Reading'
<1>1. CASE Begin(t)
  <2>1. /\ index' = index /\ started' = started /\ finished' = finished
        /\ \A u \in Threads : u # t => me'[u] = me[u]
        /\ me'[t].pc \in {"read", "fill"} => me'[t].todo = Keys
        /\ me'[t].pc = "fill" => me'[t].quiet <= finished
    BY Zenon, <1>1, BeginEffect DEF entries
  <2> QED
    BY <2>1, ReadingKept, Zenon
<1>2. CASE Enter(t) \/ Rouse(t)
  <2>1. /\ index' = index /\ started' = started /\ finished' = finished
        /\ \A u \in Threads : u # t => me'[u] = me[u]
        /\ me'[t].pc \in {"read", "fill"} => me'[t].todo = Keys
        /\ me'[t].pc = "fill" => me'[t].quiet <= finished
    BY ZenonT(60), <1>2, EnterEffect DEF Fresh
  <2> QED
    BY <2>1, ReadingKept, Zenon
<1>3. CASE Leave(t)
  <2>1. /\ index' = index /\ started' = started /\ finished' = finished
        /\ \A u \in Threads : u # t => me'[u] = me[u]
        /\ me'[t].pc \in {"read", "fill"} => me'[t].todo = Keys
        /\ me'[t].pc = "fill" => me'[t].quiet <= finished
    BY Zenon, <1>3 DEF Leave, Idle, Place, entries, counts, Fresh
  <2> QED
    BY <2>1, ReadingKept, Zenon
<1>4. CASE Gather(t)
  <2>1. /\ index' = index /\ started' = started /\ finished' = finished
        /\ \A u \in Threads : u # t => me'[u] = me[u]
        /\ me'[t].pc \in {"read", "fill"} => me'[t].todo = Keys
        /\ me'[t].pc = "fill" => me'[t].quiet <= finished
    BY ZenonT(60), <1>4, GatherEffect DEF Fresh
  <2> QED
    BY <2>1, ReadingKept, Zenon
<1>5. CASE Follow(t)
  <2>1. /\ index' = index /\ started' = started /\ finished' = finished
        /\ \A u \in Threads : u # t => me'[u] = me[u]
        /\ me'[t].pc \in {"read", "fill"} => me'[t].todo = Keys
        /\ me'[t].pc = "fill" => me'[t].quiet <= finished
    BY Zenon, <1>5 DEF Follow, Goes, Place, entries, counts, Fresh
  <2> QED
    BY <2>1, ReadingKept, Zenon
<1>6. CASE Start(t)
  <2>1. /\ \A u \in Threads : u # t => me'[u] = me[u]
        /\ index' = index /\ started' = started + 1 /\ finished' = finished /\ me'[t].pc \notin {"read", "fill"}
    BY Zenon, <1>6 DEF Start, Goes, Place, entries
  <2>2. finished <= started /\ \A u \in Threads : me[u].quiet \in Nat
    BY Zenon, CountsApart DEF Place
  <2>3. ASSUME NEW u \in Threads PROVE ReadOf(u)'
    <3>1. CASE u = t
      BY Zenon, <2>1, <3>1 DEF ReadOf
    <3>2. CASE u # t
      <4>1. ReadOf(u) /\ me'[u] = me[u]
        BY <2>1, <3>2, Zenon DEF Reading
      <4>2. me[u].pc = "fill" => me[u].quiet <= finished' /\ started' # me[u].quiet
        BY <2>1, <2>2, <4>1 DEF ReadOf
      <4> QED
        BY <2>1, <4>1, <4>2, Zenon DEF ReadOf
    <3> QED
      BY <3>1, <3>2, Zenon
  <2> QED
    BY <2>3, Zenon DEF Reading
<1>7. CASE Open(t)
  <2>1. /\ index' = index /\ started' = started /\ finished' = finished
        /\ \A u \in Threads : u # t => me'[u] = me[u]
        /\ me'[t].pc \in {"read", "fill"} => me'[t].todo = Keys
        /\ me'[t].pc = "fill" => me'[t].quiet <= finished
    BY Zenon, <1>7 DEF Open, Goes, Place, entries, counts, Fresh
  <2> QED
    BY <2>1, ReadingKept, Zenon
<1>8. CASE Move(t)
  <2>1. /\ \A u \in Threads : u # t => me'[u] = me[u]
        /\ started' = started /\ finished' = finished /\ me[t].pc = "move" /\ me'[t].pc = "move"
    BY SMTT(60), <1>8 DEF Move, Place, counts
  <2>2. started = finished + 1 /\ \A u \in Threads : me[u].pc # "read" /\ me[u].quiet \in Nat
    <3>1. started = finished + 1
      BY Zenon, <2>1, CountsApart
    <3>2. \A u \in Threads : me[u].pc # "read"
      BY Zenon, <2>1, InsideAlone
    <3> QED
      BY Zenon, <3>1, <3>2 DEF Place
  <2>3. ASSUME NEW u \in Threads PROVE ReadOf(u)'
    <3>1. CASE u = t
      BY Zenon, <2>1, <3>1 DEF ReadOf
    <3>2. CASE u # t
      <4>1. ReadOf(u) /\ me'[u] = me[u] /\ me[u].pc # "read"
        BY <2>1, <2>2, <3>2, Zenon DEF Reading
      <4>2. me[u].pc = "fill" => me[u].quiet <= finished' /\ started' # me[u].quiet
        BY <2>1, <2>2, <4>1 DEF ReadOf
      <4> QED
        BY <4>1, <4>2, Zenon DEF ReadOf
    <3> QED
      BY <3>1, <3>2, Zenon
  <2> QED
    BY <2>3, Zenon DEF Reading
<1>9. CASE Moved(t)
  <2>1. /\ index' = index /\ started' = started /\ finished' = finished
        /\ \A u \in Threads : u # t => me'[u] = me[u]
        /\ me'[t].pc \in {"read", "fill"} => me'[t].todo = Keys
        /\ me'[t].pc = "fill" => me'[t].quiet <= finished
    BY <1>9 DEF Moved, Goes, Idle, Place, entries, counts, Fresh
  <2> QED
    BY <2>1, ReadingKept, Zenon
<1>10. CASE Drain(t)
  <2>1. /\ index' = index /\ started' = started /\ finished' = finished
        /\ \A u \in Threads : u # t => me'[u] = me[u]
        /\ me'[t].pc \in {"read", "fill"} => me'[t].todo = Keys
        /\ me'[t].pc = "fill" => me'[t].quiet <= finished
    BY Zenon, <1>10 DEF Drain, Goes, Place, entries, counts, Fresh
  <2> QED
    BY <2>1, ReadingKept, Zenon
<1>11. CASE Finish(t)
  <2>1. /\ \A u \in Threads : u # t => me'[u] = me[u]
        /\ index' = index /\ started' = started /\ finished' = finished + 1 /\ me'[t].pc \notin {"read", "fill"}
    BY Zenon, <1>11 DEF Finish, Goes, Place, entries
  <2>2. \A u \in Threads : me[u].quiet \in Nat
    BY Zenon DEF Place
  <2>3. ASSUME NEW u \in Threads PROVE ReadOf(u)'
    <3>1. CASE u = t
      BY Zenon, <2>1, <3>1 DEF ReadOf
    <3>2. CASE u # t
      <4>1. ReadOf(u) /\ me'[u] = me[u]
        BY <2>1, <3>2, Zenon DEF Reading
      <4>2. me[u].pc = "fill" => me[u].quiet <= finished'
        BY <2>1, <2>2, <4>1 DEF ReadOf
      <4> QED
        BY <2>1, <4>1, <4>2, Zenon DEF ReadOf
    <3> QED
      BY <3>1, <3>2, Zenon
  <2> QED
    BY <2>3, Zenon DEF Reading
<1>12. CASE QuietStarted(t)
  <2>1. /\ index' = index /\ started' = started /\ finished' = finished
        /\ \A u \in Threads : u # t => me'[u] = me[u]
        /\ me'[t].pc \in {"read", "fill"} => me'[t].todo = Keys
        /\ me'[t].pc = "fill" => me'[t].quiet <= finished
    BY Zenon, <1>12 DEF QuietStarted, Place, entries, counts, Fresh
  <2> QED
    BY <2>1, ReadingKept, Zenon
<1>13. CASE QuietFinished(t)
  <2>1. /\ index' = index /\ started' = started /\ finished' = finished
        /\ \A u \in Threads : u # t => me'[u] = me[u]
        /\ me'[t].pc \in {"read", "fill"} => me'[t].todo = Keys
        /\ me'[t].pc = "fill" => me'[t].quiet <= finished
    BY SMTT(60), <1>13 DEF QuietFinished, Goes, Place, entries, counts, Fresh
  <2> QED
    BY <2>1, ReadingKept, Zenon
<1>14. CASE Read(t)
  <2>1. PICK x \in me[t].todo :
          me' = [me EXCEPT ![t] = [@ EXCEPT !.todo = me[t].todo \ {x}, !.got = [me[t].got EXCEPT ![x] = index[x]]]]
    BY ZenonT(60), <1>14 DEF Read
  <2>2. /\ \A u \in Threads : u # t => me'[u] = me[u]
        /\ index' = index /\ started' = started /\ finished' = finished /\ me'[t].pc = me[t].pc
        /\ me'[t].quiet = me[t].quiet /\ me'[t].todo = me[t].todo \ {x}
        /\ me'[t].got = [me[t].got EXCEPT ![x] = index[x]] /\ me[t].got \in [Keys -> Nat] /\ me[t].todo \in SUBSET Keys
    <3> DEFINE new == [me[t] EXCEPT !.todo = me[t].todo \ {x}, !.got = [me[t].got EXCEPT ![x] = index[x]]]
    <3>1. /\ new.pc = me[t].pc /\ new.quiet = me[t].quiet /\ new.todo = me[t].todo \ {x}
          /\ new.got = [me[t].got EXCEPT ![x] = index[x]] /\ me[t].got \in [Keys -> Nat] /\ me[t].todo \in SUBSET Keys
      BY Zenon DEF Place
    <3>2. me' = [me EXCEPT ![t] = new]
      BY Zenon, <2>1
    <3>3. index' = index /\ started' = started /\ finished' = finished
      BY Zenon, <1>14 DEF Read, entries, counts
    <3> HIDE DEF new
    <3> QED
      BY Zenon, <3>1, <3>2, <3>3
  <2>3. \A k \in Keys \ me'[t].todo : me'[t].got[k] = (IF k = x THEN index[k] ELSE me[t].got[k]) /\ (k # x => k \notin me[t].todo)
    BY ZenonT(60), <2>2
  <2>4. ReadOf(t)'
    <3>1. ReadOf(t)
      BY Zenon DEF Reading
    <3>2. ASSUME \A k \in Keys \ me[t].todo : me[t].got[k] = index[k]
          PROVE  \A k \in Keys \ me'[t].todo : me'[t].got[k] = index[k]
      BY <2>3, <3>2
    <3> QED
      BY <2>2, <3>1, <3>2, Zenon DEF ReadOf
  <2>5. ASSUME NEW u \in Threads, u # t PROVE ReadOf(u)'
    <3>1. ReadOf(u) /\ me'[u] = me[u]
      BY <2>2, <2>5, Zenon DEF Reading
    <3> QED
      BY <2>2, <3>1, Zenon DEF ReadOf
  <2> QED
    BY <2>4, <2>5, Zenon DEF Reading
<1>15. CASE FillCheck(t)
  <2>1. /\ index' = index /\ started' = started /\ finished' = finished
        /\ \A u \in Threads : u # t => me'[u] = me[u]
        /\ me'[t].pc \in {"read", "fill"} => me'[t].todo = Keys
        /\ me'[t].pc = "fill" => me'[t].quiet <= finished
    BY Zenon, <1>15 DEF FillCheck, Idle, Place, entries, counts, Fresh
  <2> QED
    BY <2>1, ReadingKept, Zenon
<1>16. CASE FillAnswer(t)
  <2>1. /\ index' = index /\ started' = started /\ finished' = finished
        /\ \A u \in Threads : u # t => me'[u] = me[u]
        /\ me'[t].pc \in {"read", "fill"} => me'[t].todo = Keys
        /\ me'[t].pc = "fill" => me'[t].quiet <= finished
    BY Zenon, <1>16 DEF FillAnswer, Idle, Place, entries, counts, Fresh
  <2> QED
    BY <2>1, ReadingKept, Zenon
<1>17. CASE ReadDone(t)
  <2>1. /\ index' = index /\ started' = started /\ finished' = finished
        /\ \A u \in Threads : u # t => me'[u] = me[u]
        /\ me'[t].pc \in {"read", "fill"} => me'[t].todo = Keys
        /\ me'[t].pc = "fill" => me'[t].quiet <= finished
    BY SMTT(60), <1>17 DEF ReadDone, Goes, Place, entries, counts, Fresh
  <2> QED
    BY <2>1, ReadingKept, Zenon
<1> QED
  BY Zenon, <1>1, <1>2, <1>3, <1>4, <1>5, <1>6, <1>7, <1>8, <1>9, <1>10, <1>11, <1>12, <1>13, <1>14, <1>15, <1>16, <1>17 DEF Step

\* A step that ends no read keeps what the done ones saw.
LEMMA WholeKept ==
  ASSUME ReadsWhole, NEW t \in Threads, \A u \in Threads : u # t => me'[u] = me[u],
         \/ me'[t].pc \in {"answer", "leave"} => me'[t].op \in {"grouped", "publishing"}
         \/ \A k, l \in Keys : me'[t].got[k] = me'[t].got[l]
  PROVE  ReadsWhole'
<1>1. ASSUME NEW u \in Threads, u # t, me'[u].pc \in {"answer", "leave"}, Want(u)' = "shared"
      PROVE  \A k, l \in Keys : me'[u].got[k] = me'[u].got[l]
  <2>1. me'[u] = me[u]
    BY <1>1, Zenon
  <2>2. me[u].pc \in {"answer", "leave"} /\ Want(u) = "shared"
    BY <1>1, <2>1, Zenon DEF Want
  <2>3. \A k, l \in Keys : me[u].got[k] = me[u].got[l]
    BY <2>2, Zenon DEF ReadsWhole
  <2> QED
    BY <2>1, <2>3, Zenon
<1>2. ASSUME me'[t].pc \in {"answer", "leave"}, Want(t)' = "shared"
      PROVE  \A k, l \in Keys : me'[t].got[k] = me'[t].got[l]
  <2>1. me'[t].op \notin {"grouped", "publishing"}
    BY Zenon, <1>2 DEF Want
  <2> QED
    BY <1>2, <2>1, Zenon
<1> QED
  BY <1>1, <1>2, Zenon DEF ReadsWhole

\* A read that is done saw every key at the same batch.
LEMMA WholeStep ==
  ASSUME NoOne \notin Threads, me \in [Threads -> Place], gathering \in Threads \cup {NoOne},
         started \in Nat, finished \in Nat, index \in [Keys -> Nat],
         InLine, Calls, InQueue, Groups, Counts, Raised, Reading, ReadsWhole,
         NEW t \in Threads, Begin(t) \/ Step(t)
  PROVE  ReadsWhole'
<1>1. CASE Begin(t)
  <2>1. /\ \A u \in Threads : u # t => me'[u] = me[u]
        /\ me'[t].pc \in {"answer", "leave"} => me'[t].op \in {"grouped", "publishing"}
    BY ZenonT(60), <1>1, BeginEffect DEF Place
  <2> QED
    BY <2>1, WholeKept, Zenon
<1>2. CASE Enter(t) \/ Rouse(t)
  <2>1. /\ \A u \in Threads : u # t => me'[u] = me[u]
        /\ me'[t].pc \in {"answer", "leave"} => me'[t].op \in {"grouped", "publishing"}
    BY ZenonT(60), <1>2, EnterEffect DEF Place
  <2> QED
    BY <2>1, WholeKept, Zenon
<1>3. CASE Leave(t)
  <2>1. /\ \A u \in Threads : u # t => me'[u] = me[u]
        /\ me'[t].pc \in {"answer", "leave"} => me'[t].op \in {"grouped", "publishing"}
    BY Zenon, <1>3 DEF Leave, Idle, Place, Calls, CallOf, Batch, Want
  <2> QED
    BY <2>1, WholeKept, Zenon
<1>4. CASE Gather(t)
  <2>1. /\ \A u \in Threads : u # t => me'[u] = me[u]
        /\ me'[t].pc \in {"answer", "leave"} => me'[t].op \in {"grouped", "publishing"}
    BY ZenonT(60), <1>4, GatherEffect DEF Place
  <2> QED
    BY <2>1, WholeKept, Zenon
<1>5. CASE Follow(t)
  <2>1. /\ \A u \in Threads : u # t => me'[u] = me[u]
        /\ me'[t].pc \in {"answer", "leave"} => me'[t].op \in {"grouped", "publishing"}
    BY Zenon, <1>5 DEF Follow, Goes, Place, Calls, CallOf, Batch, Want
  <2> QED
    BY <2>1, WholeKept, Zenon
<1>6. CASE Start(t)
  <2>1. /\ \A u \in Threads : u # t => me'[u] = me[u]
        /\ me'[t].pc \in {"answer", "leave"} => me'[t].op \in {"grouped", "publishing"}
    BY Zenon, <1>6 DEF Start, Goes, Place, Calls, CallOf, Batch, Want
  <2> QED
    BY <2>1, WholeKept, Zenon
<1>7. CASE Open(t)
  <2>1. /\ \A u \in Threads : u # t => me'[u] = me[u]
        /\ me'[t].pc \in {"answer", "leave"} => me'[t].op \in {"grouped", "publishing"}
    BY Zenon, <1>7 DEF Open, Goes, Place, Calls, CallOf, Batch, Want
  <2> QED
    BY <2>1, WholeKept, Zenon
<1>8. CASE Move(t)
  <2>1. /\ \A u \in Threads : u # t => me'[u] = me[u]
        /\ me'[t].pc \in {"answer", "leave"} => me'[t].op \in {"grouped", "publishing"}
    BY <1>8 DEF Move, Place, Calls, CallOf, Batch, Want
  <2> QED
    BY <2>1, WholeKept, Zenon
<1>9. CASE Moved(t)
  <2>1. /\ \A u \in Threads : u # t => me'[u] = me[u]
        /\ me'[t].pc \in {"answer", "leave"} => me'[t].op \in {"grouped", "publishing"}
    BY <1>9 DEF Moved, Goes, Idle, Place, Calls, CallOf, Batch, Want
  <2> QED
    BY <2>1, WholeKept, Zenon
<1>10. CASE Drain(t)
  <2>1. /\ \A u \in Threads : u # t => me'[u] = me[u]
        /\ me'[t].pc \in {"answer", "leave"} => me'[t].op \in {"grouped", "publishing"}
    BY Zenon, <1>10 DEF Drain, Goes, Place, Calls, CallOf, Batch, Want
  <2> QED
    BY <2>1, WholeKept, Zenon
<1>11. CASE Finish(t)
  <2>1. /\ \A u \in Threads : u # t => me'[u] = me[u]
        /\ me'[t].pc \in {"answer", "leave"} => me'[t].op \in {"grouped", "publishing"}
    BY Zenon, <1>11 DEF Finish, Goes, Place, Calls, CallOf, Batch, Want
  <2> QED
    BY <2>1, WholeKept, Zenon
<1>12. CASE QuietStarted(t)
  <2>1. /\ \A u \in Threads : u # t => me'[u] = me[u]
        /\ me'[t].pc \in {"answer", "leave"} => me'[t].op \in {"grouped", "publishing"}
    BY <1>12 DEF QuietStarted, Place, Calls, CallOf, Batch, Want
  <2> QED
    BY <2>1, WholeKept, Zenon
<1>13. CASE QuietFinished(t)
  <2>1. /\ \A u \in Threads : u # t => me'[u] = me[u]
        /\ me'[t].pc \in {"answer", "leave"} => me'[t].op \in {"grouped", "publishing"}
    BY <1>13 DEF QuietFinished, Goes, Place, Calls, CallOf, Batch, Want
  <2> QED
    BY <2>1, WholeKept, Zenon
<1>14. CASE Read(t)
  <2>1. /\ \A u \in Threads : u # t => me'[u] = me[u]
        /\ me'[t].pc \in {"answer", "leave"} => me'[t].op \in {"grouped", "publishing"}
    BY SMTT(60), <1>14 DEF Read, Place, Calls, CallOf, Batch, Want
  <2> QED
    BY <2>1, WholeKept, Zenon
<1>15. CASE FillCheck(t)
  <2>1. /\ \A u \in Threads : u # t => me'[u] = me[u]
        /\ me[t].pc = "fill" /\ me[t].todo = {}
        /\ \/ me'[t].pc = "answer" /\ started = me[t].quiet /\ me'[t].got = me[t].got
           \/ me'[t].pc = "enter"
    BY Zenon, <1>15 DEF FillCheck, Place
  <2>2. started = me[t].quiet => \A u \in Threads : me[u].pc # "move"
    <3>1. ReadOf(t) /\ me[t].quiet \in Nat
      BY Zenon DEF Reading, Place
    <3>2. me[t].quiet <= finished
      BY <2>1, <3>1, Zenon DEF ReadOf
    <3>3. \A u \in Threads : me[u].pc = "move" => started = finished + 1
      BY Zenon, CountsApart
    <3> QED
      BY <3>1, <3>2, <3>3
  <2>3. started = me[t].quiet => \A k, l \in Keys : me[t].got[k] = me[t].got[l]
    <3>1. ReadOf(t)
      BY Zenon DEF Reading
    <3>2. started = me[t].quiet => \A k \in Keys : me[t].got[k] = index[k]
      BY Zenon, <2>1, <3>1 DEF ReadOf
    <3>3. started = me[t].quiet => \A k, l \in Keys : index[k] = index[l]
      BY <2>2, AllAlike, Zenon
    <3> QED
      BY <3>2, <3>3, Zenon
  <2>4. \A k, l \in Keys : me'[t].pc \in {"answer", "leave"} => me'[t].got[k] = me'[t].got[l]
    BY Zenon, <2>1, <2>3
  <2>5. \A u \in Threads : u # t => Want(u)' = Want(u)
    BY <2>1, Zenon DEF Want
  <2>6. ASSUME NEW u \in Threads, me'[u].pc \in {"answer", "leave"}, Want(u)' = "shared"
        PROVE  \A k, l \in Keys : me'[u].got[k] = me'[u].got[l]
    <3>1. CASE u = t
      BY <2>4, <2>6, <3>1, Zenon
    <3>2. CASE u # t
      <4>1. me'[u] = me[u] /\ Want(u) = "shared"
        BY <2>1, <2>5, <2>6, <3>2, Zenon
      <4>2. me[u].pc \in {"answer", "leave"}
        BY <2>6, <4>1, Zenon
      <4>3. \A k, l \in Keys : me[u].got[k] = me[u].got[l]
        BY <4>1, <4>2, Zenon DEF ReadsWhole
      <4> QED
        BY <4>1, <4>3, Zenon
    <3> QED
      BY Zenon, <3>1, <3>2
  <2> QED
    BY <2>6, Zenon DEF ReadsWhole
<1>16. CASE FillAnswer(t)
  <2>1. /\ \A u \in Threads : u # t => me'[u] = me[u]
        /\ me'[t].pc \in {"answer", "leave"} => me'[t].op \in {"grouped", "publishing"}
    BY ZenonT(60), <1>16 DEF FillAnswer, Idle, Place, Calls, CallOf, Batch, Want
  <2> QED
    BY <2>1, WholeKept, Zenon
<1>17. CASE ReadDone(t)
  <2>1. /\ \A u \in Threads : u # t => me'[u] = me[u]
        /\ me[t].pc = "read" /\ me[t].todo = {} /\ me'[t].got = me[t].got
    BY Zenon, <1>17 DEF ReadDone, Goes, Place
  <2>2. \A k, l \in Keys : me[t].got[k] = me[t].got[l]
    BY <2>1, AllAlike, InsideAlone DEF Reading, ReadOf
  <2>3. \A k, l \in Keys : me'[t].got[k] = me'[t].got[l]
    BY <2>1, <2>2, Zenon
  <2> QED
    BY <2>1, <2>3, WholeKept, Zenon
<1> QED
  BY Zenon, <1>1, <1>2, <1>3, <1>4, <1>5, <1>6, <1>7, <1>8, <1>9, <1>10, <1>11, <1>12, <1>13, <1>14, <1>15, <1>16, <1>17 DEF Step

LEMMA PublishInit ==
  ASSUME NoOne \notin Threads, Init
  PROVE  PublishInv
<1>1. \A t \in Threads : me[t] = Idle /\ Idle.pc = "idle" /\ Idle.lead = NoOne
  BY Zenon DEF Init, Idle
<1>2. Idle \in Place
  <2>1. "idle" \in PCs /\ [k \in Keys |-> 0] \in [Keys -> Nat] /\ 0 \in Nat
    BY Zenon DEF PCs
  <2> QED
    BY <2>1, Zenon DEF Idle, Place
<1>3. TypeOK
  BY Zenon, <1>2 DEF Init, TypeOK
<1>4. InLine
  <2>1. waiting \in Seq(Waiter) /\ Len(waiting) = 0
    BY DEF Init
  <2> QED
    BY <1>1, <2>1 DEF InLine
<1>5. Calls /\ Fresh /\ Reading /\ ReadsWhole
  <2>1. Calls
    BY Zenon, <1>1 DEF Calls, CallOf, Leads, Follows
  <2>2. Fresh
    BY Zenon, <1>1 DEF Fresh
  <2>3. Reading
    BY Zenon, <1>1 DEF Reading, ReadOf
  <2>4. ReadsWhole
    BY Zenon, <1>1 DEF ReadsWhole
  <2> QED
    BY <2>1, <2>2, <2>3, <2>4, Zenon
<1>6. InQueue /\ Counts
  BY Zenon, <1>1 DEF Init, InQueue, Counts, Holds, Moving
<1>7. Groups
  BY Zenon, <1>1 DEF Init, Groups, Leads, Follows
<1>8. Raised
  BY <1>1 DEF Init, Raised
<1> QED
  BY Zenon, <1>3, <1>4, <1>5, <1>6, <1>7, <1>8 DEF PublishInv

LEMMA PublishNext ==
  ASSUME NoOne \notin Threads, PublishInv, [Next]_vars
  PROVE  PublishInv'
<1>1. CASE UNCHANGED vars
  <2>0. UNCHANGED <<readers, isPublishing, started, finished, drawn, gathering, open, following, index, me>>
    BY <1>1, Zenon DEF vars
  <2>1. TypeOK' /\ Calls' /\ Fresh' /\ Counts' /\ InQueue' /\ Groups'
    <3>1. TypeOK'
      BY <2>0, ZenonT(60) DEF PublishInv, TypeOK
    <3>2. Calls' /\ Fresh'
      BY <2>0, ZenonT(60) DEF PublishInv, Calls, CallOf, Fresh, Batch, Want, Leads, Follows
    <3>3. Counts'
      BY <2>0, ZenonT(60) DEF PublishInv, Counts, Moving, Holds, Batch, Want, Follows
    <3>4. InQueue'
      <4>1. \A u \in Threads : (Holds(u)' <=> Holds(u)) /\ (Batch(u)' <=> Batch(u)) /\ (Follows(u)' <=> Follows(u))
        BY <2>0, ZenonT(60) DEF Holds, Batch, Want, Follows
      <4> QED
        BY <2>0, <4>1, ZenonT(60) DEF PublishInv, InQueue
    <3>5. Groups'
      BY <2>0, ZenonT(60) DEF PublishInv, Groups, Leads, Follows
    <3> QED
      BY Zenon, <3>1, <3>2, <3>3, <3>4, <3>5
  <2>2. InLine'
    BY Zenon, <1>1, LineKept DEF vars, PublishInv
  <2>3. Raised' /\ Reading' /\ ReadsWhole'
    <3>1. Raised'
      BY <2>0, Zenon DEF PublishInv, Raised
    <3>2. Reading'
      BY <2>0, Zenon DEF PublishInv, Reading, ReadOf
    <3>3. ReadsWhole'
      BY <2>0, Zenon DEF PublishInv, ReadsWhole, Want
    <3> QED
      BY <3>1, <3>2, <3>3, Zenon
  <2> QED
    BY Zenon, <2>1, <2>2, <2>3 DEF PublishInv
<1>2. CASE Next
  <2>1. PICK t \in Threads : Begin(t) \/ Step(t)
    BY Zenon, <1>2 DEF Next
  <2>2. /\ readers \in SUBSET Threads /\ isPublishing \in BOOLEAN
        /\ started \in Nat /\ finished \in Nat /\ drawn \in Nat
        /\ gathering \in Threads \cup {NoOne}
        /\ open \in SUBSET Threads /\ following \in [Threads -> SUBSET Threads]
        /\ index \in [Keys -> Nat] /\ me \in [Threads -> Place]
        /\ Calls /\ InLine /\ InQueue /\ Groups /\ Counts /\ Fresh /\ Raised /\ Reading /\ ReadsWhole
    BY Zenon DEF PublishInv, TypeOK
  <2>3. TypeOK'
    BY Zenon, <2>1, <2>2, PlaceStep, LineStep, RestStep DEF TypeOK
  <2>4. Calls' /\ InLine' /\ InQueue' /\ Groups' /\ Counts' /\ Fresh'
    BY <2>1, <2>2, CallsStep, LineHolds, QueueStep, GroupsStep, CountsStep, FreshStep, ZenonT(60)
  <2>5. Raised' /\ Reading' /\ ReadsWhole'
    BY Zenon, <2>1, <2>2, RaisedStep, ReadingStep, WholeStep
  <2> QED
    BY Zenon, <2>3, <2>4, <2>5 DEF PublishInv
<1> QED
  BY Zenon, <1>1, <1>2

\* reading and reading_all: a read over several keys sees all of a batch or none
\* of it, for any number of threads, keys and batches.
THEOREM ReadsAreWhole ==
  ASSUME NoOne \notin Threads
  PROVE  Spec => []ReadsWhole
<1>1. Init => PublishInv
  BY Zenon, PublishInit
<1>2. PublishInv /\ [Next]_vars => PublishInv'
  BY Zenon, PublishNext
<1>3. PublishInv => ReadsWhole
  BY Zenon DEF PublishInv
<1> QED
  BY <1>1, <1>2, <1>3, PTL DEF Spec

\* publish_grouped and publish: a batch moves its keys only while it, or the leader
\* it follows, holds the barrier with nobody else inside.
THEOREM MovesAreHeld ==
  ASSUME NoOne \notin Threads
  PROVE  Spec => []MovesHoldBarrier
<1>1. Init => PublishInv
  BY Zenon, PublishInit
<1>2. PublishInv /\ [Next]_vars => PublishInv'
  BY Zenon, PublishNext
<1>3. PublishInv => MovesHoldBarrier
  BY Zenon, HeldMoves DEF PublishInv, TypeOK
<1> QED
  BY <1>1, <1>2, <1>3, PTL DEF Spec
=============================================================================
