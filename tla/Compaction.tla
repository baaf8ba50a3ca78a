----------------------------- MODULE Compaction -----------------------------
(***************************************************************************)
(* The compactor's passes against writers, seals, readers and crashes       *)
(* (compaction/compactor.rs), seen through the records of one key.  A pass  *)
(* reads its drop floor, copies what is live, repoints the index at the     *)
(* copies, carries or drops tombstones, flushes every tail and retires its  *)
(* source; a crash rebuilds the index from the files it finds.  The dead    *)
(* bytes that make a segment worth compacting are mostly other keys', so a  *)
(* pass may pick any settled segment.  The index is the newest version      *)
(* published; how the map, spot index and footers answer for it is not      *)
(* modelled here, nor are covers, key runs, rot and volume tiers.           *)
(***************************************************************************)
EXTENDS Integers, FiniteSets, FiniteSetsExt

CONSTANTS
  Writers, Passes, Readers,
  Tails,
  Segments    \* segment numbers, drawn in order

ASSUME TailsAssumption == 0 \notin Tails
ASSUME SegmentsAssumption == Tails # {} /\ Segments = 1..Cardinality(Segments) /\ Cardinality(Tails) <= Cardinality(Segments)

NoLsn == 0
NoTail == 0
Absent == [lsn |-> NoLsn, del |-> TRUE, seg |-> 0]      \* what the index says of a key with no record

VARIABLES
  peek,      \* the next sequence number
  state,     \* each segment: "none", "active", "rolled" (swapped out), "handed" (to the sealer), "sealed",
             \* "retired" (forgotten, its file doomed), "gone"
  active,    \* each tail's open segment
  home,      \* the tail of each segment that is not sealed yet
  disk,      \* the records in the files: [lsn, del, seg, synced]
  mins,      \* SegmentTable's min_lsn: the oldest number booked for each segment
  entry,     \* the index: the newest version published, a grave for a delete
  writer,    \* each write: see NoWrite
  pass,      \* each compaction pass: see NoPass
  handle,    \* the segment each reader holds open, 0 for none
  missed,    \* unsealed segments a pass's flush neither waited for nor synced
  promised,  \* the newest version acknowledged and synced
  stray      \* numbers whose write failed after its record landed

vars == <<peek, state, active, home, disk, mins, entry, writer, pass, handle, missed, promised, stray>>

NoWrite == [pc |-> "idle", lsn |-> NoLsn, del |-> FALSE, seg |-> 0]

\* below is the settled frontier the pass read, floor its drop floor, todo the
\* rows left, run the copies queued or landed, dest where they landed, left the
\* tails its flush has not come to and at the one it has drained.
NoPass == [pc |-> "idle", seg |-> 0, tail |-> NoTail, below |-> NoLsn, floor |-> NoLsn,
           todo |-> {}, run |-> {}, dest |-> 0, left |-> Tails, at |-> NoTail]

Standing == {s \in Segments : state[s] \in {"active", "rolled", "handed", "sealed"}}

Older(a, b) == IF a = NoLsn THEN b ELSE IF b = NoLsn THEN a ELSE IF a < b THEN a ELSE b
Newest(S) == {r \in S : \A q \in S : q.lsn <= r.lsn}
Version(r) == [lsn |-> r.lsn, del |-> r.del, seg |-> r.seg]

\* Bookings for a segment already let go of are dropped.
Booked(seg, lsn) == IF seg \in Standing THEN [mins EXCEPT ![seg] = Older(@, lsn)] ELSE mins

\* The floor under every number that may still land (Drawn proves it is one).
InFlight == {writer[w].lsn : w \in {v \in Writers : writer[v].pc # "idle"}}
SettledBelow == IF InFlight = {} THEN peek ELSE Min(InFlight)

\* The newest version both acknowledged and synced, once d is on disk.
PromisedBy(d, before) ==
  LET kept == {r \in d : r.synced /\ r.lsn \notin InFlight \union stray /\ r.lsn > before.lsn}
  IN  IF kept = {} THEN before ELSE Version(CHOOSE r \in Newest(kept) : TRUE)

Synced(seg) == {IF r.seg = seg THEN [r EXCEPT !.synced = TRUE] ELSE r : r \in disk}

Init ==
  \E first \in [Tails -> Segments] :
    /\ \A t, u \in Tails : t # u => first[t] # first[u]
    /\ \A t \in Tails : first[t] <= Cardinality(Tails)
    /\ active = first
    /\ home = [s \in Segments |-> IF \E t \in Tails : first[t] = s THEN CHOOSE t \in Tails : first[t] = s ELSE NoTail]
    /\ state = [s \in Segments |-> IF \E t \in Tails : first[t] = s THEN "active" ELSE "none"]
    /\ peek = 1 /\ disk = {} /\ entry = Absent /\ promised = Absent /\ stray = {} /\ missed = {}
    /\ mins = [s \in Segments |-> NoLsn]
    /\ writer = [w \in Writers |-> NoWrite]
    /\ pass = [p \in Passes |-> NoPass]
    /\ handle = [r \in Readers |-> 0]

-----------------------------------------------------------------------------
(* Writers                                                                  *)

\* A put or a delete draws its number.
Draw(w, del) ==
  /\ writer[w].pc = "idle"
  /\ writer' = [writer EXCEPT ![w] = [NoWrite EXCEPT !.pc = "drawn", !.lsn = peek, !.del = del]]
  /\ peek' = peek + 1
  /\ UNCHANGED <<state, active, home, disk, mins, entry, pass, handle, missed, promised, stray>>

\* Its record lands in the open segment of a tail, which it now holds, and
\* note_landed books its number there, a put's or a delete's.
Append(w, t) ==
  /\ writer[w].pc = "drawn"
  /\ disk' = disk \union {[lsn |-> writer[w].lsn, del |-> writer[w].del, seg |-> active[t], synced |-> FALSE]}
  /\ writer' = [writer EXCEPT ![w].pc = "landed", ![w].seg = active[t]]
  /\ mins' = Booked(active[t], writer[w].lsn)
  /\ UNCHANGED <<peek, state, active, home, entry, pass, handle, missed, promised, stray>>

\* What the index holds once a put or a delete is published: newest wins.
Inserted(put) == IF entry.lsn >= put.lsn THEN entry ELSE put
Removed(grave) == IF entry.lsn >= grave.lsn THEN entry ELSE grave

\* The index moves; a data record is booked whether it won or not.
\* The number and the hold on the segment go as the call returns.
Publish(w) ==
  LET mine == [lsn |-> writer[w].lsn, del |-> writer[w].del, seg |-> writer[w].seg]
  IN  /\ writer[w].pc = "landed"
      /\ entry' = IF mine.del THEN Removed(mine) ELSE Inserted(mine)
      /\ mins' = IF mine.del THEN mins ELSE Booked(mine.seg, mine.lsn)
      /\ writer' = [writer EXCEPT ![w] = NoWrite]
      /\ UNCHANGED <<peek, state, active, home, disk, pass, handle, missed, promised, stray>>

\* The append is refused, or the sync a batch owed fails after its record landed:
\* the call returns the error and the index never moves.
Fail(w) ==
  /\ writer[w].pc \in {"drawn", "landed"}
  /\ stray' = IF writer[w].pc = "landed" THEN stray \union {writer[w].lsn} ELSE stray
  /\ writer' = [writer EXCEPT ![w] = NoWrite]
  /\ UNCHANGED <<peek, state, active, home, disk, mins, entry, pass, handle, missed, promised>>

-----------------------------------------------------------------------------
(* Tails and the sealer                                                     *)

Fresh == {s \in Segments : state[s] = "none"}

\* Faulty: the tail goes on in the segment it gave up.
RollInPlace(t) ==
  /\ Fresh # {}
  /\ state' = [state EXCEPT ![active[t]] = "rolled", ![Min(Fresh)] = "active"]
  /\ home' = [home EXCEPT ![Min(Fresh)] = t]
  /\ UNCHANGED <<peek, active, disk, mins, entry, writer, pass, handle, missed, promised, stray>>

\* swap_in_fresh: a fresh segment takes the full one's place.  A pass's flush that
\* has drained the tail and not synced it will sync the fresh one.
Roll(t) ==
  /\ Fresh # {}
  /\ state' = [state EXCEPT ![active[t]] = "rolled", ![Min(Fresh)] = "active"]
  /\ active' = [active EXCEPT ![t] = Min(Fresh)]
  /\ home' = [home EXCEPT ![Min(Fresh)] = t]
  /\ missed' = IF \E p \in Passes : pass[p].pc = "drained" /\ pass[p].at = t
               THEN missed \union {active[t]} ELSE missed
  /\ UNCHANGED <<peek, disk, mins, entry, writer, pass, handle, promised, stray>>

\* Only then, and outside the lock, is the old one handed to the tail's sealer ...
HandOver(s) ==
  /\ state[s] = "rolled"
  /\ state' = [state EXCEPT ![s] = "handed"]
  /\ UNCHANGED <<peek, active, home, disk, mins, entry, writer, pass, handle, missed, promised, stray>>

\* ... which syncs it, writes its footer and lets the tail's hold go.
Seal(s) ==
  /\ state[s] = "handed"
  /\ state' = [state EXCEPT ![s] = "sealed"]
  /\ home' = [home EXCEPT ![s] = NoTail]
  /\ disk' = Synced(s)
  /\ promised' = PromisedBy(disk', promised)
  /\ missed' = missed \ {s}
  /\ UNCHANGED <<peek, active, mins, entry, writer, pass, handle, stray>>

\* A caller's flush, or the sync its write owed, covers what a tail's open segment holds.
Sync(t) ==
  /\ disk' = Synced(active[t])
  /\ promised' = PromisedBy(disk', promised)
  /\ UNCHANGED <<peek, state, active, home, mins, entry, writer, pass, handle, missed, stray>>

-----------------------------------------------------------------------------
(* A compaction pass                                                        *)

\* is_settled: sealed, and no record in it still waits to be published.  The
\* hold on a copy goes as land_run reads its place, so it holds nothing here.
IsSettled(s) == state[s] = "sealed" /\ \A w \in Writers : ~ (writer[w].pc = "landed" /\ writer[w].seg = s)

\* A pass claims a settled segment, picks the tail its copies go to and reads the
\* settled frontier.
Claim(p, s, t) ==
  /\ pass[p].pc = "idle" /\ IsSettled(s)
  /\ \A q \in Passes : pass[q].pc = "idle" \/ pass[q].seg # s
  /\ pass' = [pass EXCEPT ![p] = [NoPass EXCEPT !.pc = "settled", !.seg = s, !.tail = t, !.below = SettledBelow]]
  /\ UNCHANGED <<peek, state, active, home, disk, mins, entry, writer, handle, missed, promised, stray>>

IsLiveAt(r) == ~ entry.del /\ entry.lsn = r.lsn /\ entry.seg = r.seg

\* min_lsn_excluding caps the floor, then live_rows keeps the tombstones and the live rows.
MinExcluding(s) == LET booked == {mins[u] : u \in Standing \ {s}} \ {NoLsn}
                   IN  IF booked = {} THEN NoLsn ELSE Min(booked)

ReadFloor(p) ==
  /\ pass[p].pc = "settled"
  /\ pass' = [pass EXCEPT ![p].pc = "rewrite", ![p].floor = Older(MinExcluding(pass[p].seg), pass[p].below),
                          ![p].todo = {r \in disk : r.seg = pass[p].seg /\ (r.del \/ IsLiveAt(r))}]
  /\ UNCHANGED <<peek, state, active, home, disk, mins, entry, writer, handle, missed, promised, stray>>

\* copy_live: a row still live joins the run, one that died since is skipped.
CopyLive(p) ==
  \E r \in pass[p].todo :
    /\ pass[p].pc = "rewrite" /\ ~ r.del
    /\ pass' = [pass EXCEPT ![p].todo = @ \ {r}, ![p].run = IF IsLiveAt(r) THEN @ \union {r} ELSE @]
    /\ UNCHANGED <<peek, state, active, home, disk, mins, entry, writer, handle, missed, promised, stray>>

\* A tombstone stands while a record it hides may turn up, unless a newer put hides it too.
ShouldCarry(p, r) == ~ (~ entry.del /\ entry.lsn > r.lsn) /\ r.lsn >= pass[p].floor

\* carry_or_drop, once the run ahead of the tombstone has landed.
CarryOrDrop(p) ==
  \E r \in pass[p].todo :
    LET copy == [r EXCEPT !.seg = active[pass[p].tail], !.synced = FALSE]
    IN  /\ pass[p].pc = "rewrite" /\ r.del /\ pass[p].run = {}
        /\ pass' = [pass EXCEPT ![p].todo = @ \ {r}]
        /\ disk' = IF ShouldCarry(p, r) THEN disk \union {copy} ELSE disk
        /\ mins' = IF ShouldCarry(p, r) THEN Booked(copy.seg, r.lsn) ELSE mins
        /\ entry' = IF ShouldCarry(p, r) /\ entry.lsn = r.lsn THEN Version(copy) ELSE entry
        /\ UNCHANGED <<peek, state, active, home, writer, handle, missed, promised, stray>>

\* land_run: the copies land as one run, booked by note_landed; the holds
\* append_copies took on them go as their places are read, before the index is moved.
LandRun(p) ==
  LET dest == active[pass[p].tail]
  IN  /\ pass[p].pc = "rewrite" /\ pass[p].run # {}
      /\ disk' = disk \union {[r EXCEPT !.seg = dest, !.synced = FALSE] : r \in pass[p].run}
      /\ mins' = Booked(dest, Min({r.lsn : r \in pass[p].run}))
      /\ pass' = [pass EXCEPT ![p].pc = "landed", ![p].dest = dest]
      /\ UNCHANGED <<peek, state, active, home, entry, writer, handle, missed, promised, stray>>

\* Faulty: the key moves whatever version it holds by now.
RepointBlind(p) ==
  LET moved == {r.lsn : r \in pass[p].run}
  IN  /\ pass[p].pc = "landed"
      /\ mins' = Booked(pass[p].dest, Min(moved))
      /\ entry' = IF ~ entry.del THEN [entry EXCEPT !.seg = pass[p].dest] ELSE entry
      /\ pass' = [pass EXCEPT ![p].pc = "rewrite", ![p].run = {}]
      /\ UNCHANGED <<peek, state, active, home, disk, writer, handle, missed, promised, stray>>

\* repoint_run: the copies are booked, then each key moves if it still holds that version.
Repoint(p) ==
  LET moved == {r.lsn : r \in pass[p].run}
  IN  /\ pass[p].pc = "landed"
      /\ mins' = Booked(pass[p].dest, Min(moved))
      /\ entry' = IF ~ entry.del /\ entry.lsn \in moved THEN [entry EXCEPT !.seg = pass[p].dest] ELSE entry
      /\ pass' = [pass EXCEPT ![p].pc = "rewrite", ![p].run = {}]
      /\ UNCHANGED <<peek, state, active, home, disk, writer, handle, missed, promised, stray>>

\* The pass flushes the tails one by one before it retires anything.  Of each it
\* waits for the segments the sealer was handed; one still in the hands of the
\* writer that swapped it out is passed over ...
RowsDone(p) == pass[p].pc = "rewrite" /\ pass[p].todo = {} /\ pass[p].run = {}

DrainTail(p, t) ==
  /\ RowsDone(p) /\ t \in pass[p].left
  /\ \A s \in Segments : home[s] = t => state[s] # "handed"
  /\ missed' = missed \union {s \in Segments : home[s] = t /\ state[s] = "rolled"}
  /\ pass' = [pass EXCEPT ![p].pc = "drained", ![p].at = t]
  /\ UNCHANGED <<peek, state, active, home, disk, mins, entry, writer, handle, promised, stray>>

\* Faulty: the flush stops after the first tail it syncs.
SyncOneTail(p) ==
  /\ pass[p].pc = "drained"
  /\ disk' = Synced(active[pass[p].at])
  /\ promised' = PromisedBy(disk', promised)
  /\ pass' = [pass EXCEPT ![p].pc = "rewrite", ![p].left = {}]
  /\ UNCHANGED <<peek, state, active, home, mins, entry, writer, handle, missed, stray>>

\* ... and then it syncs the segment that is open by now.
SyncTail(p) ==
  /\ pass[p].pc = "drained"
  /\ disk' = Synced(active[pass[p].at])
  /\ promised' = PromisedBy(disk', promised)
  /\ pass' = [pass EXCEPT ![p].pc = "rewrite", ![p].left = @ \ {pass[p].at}, ![p].at = NoTail]
  /\ UNCHANGED <<peek, state, active, home, mins, entry, writer, handle, missed, stray>>

\* A copy, a repoint or a flush fails: the pass gives its claim up and the source stands.
Abandon(p) ==
  /\ pass[p].pc \in {"rewrite", "landed", "drained"}
  /\ pass' = [pass EXCEPT ![p] = NoPass]
  /\ UNCHANGED <<peek, state, active, home, disk, mins, entry, writer, handle, missed, promised, stray>>

\* forget_segment takes the source out of the index and the floors ...
Forget(p) ==
  /\ RowsDone(p) /\ pass[p].left = {}
  /\ state' = [state EXCEPT ![pass[p].seg] = "retired"]
  /\ mins' = [mins EXCEPT ![pass[p].seg] = NoLsn]
  /\ pass' = [pass EXCEPT ![p].pc = "forgot"]
  /\ UNCHANGED <<peek, active, home, disk, entry, writer, handle, missed, promised, stray>>

\* The file goes with the last handle on it.
Unlink(s) ==
  /\ state' = [state EXCEPT ![s] = "gone"]
  /\ disk' = {r \in disk : r.seg # s}

\* ... and mark_doomed leaves the file to whoever drops the last handle.
Doom(p) ==
  /\ pass[p].pc = "forgot"
  /\ IF \E r \in Readers : handle[r] = pass[p].seg THEN UNCHANGED <<state, disk>> ELSE Unlink(pass[p].seg)
  /\ pass' = [pass EXCEPT ![p] = NoPass]
  /\ UNCHANGED <<peek, active, home, mins, entry, writer, handle, missed, promised, stray>>

-----------------------------------------------------------------------------
(* Readers and crashes                                                      *)

\* A reader resolves the key into its segment and opens the file.
OpenHandle(r) ==
  /\ handle[r] = 0 /\ entry.seg \in Standing
  /\ handle' = [handle EXCEPT ![r] = entry.seg]
  /\ UNCHANGED <<peek, state, active, home, disk, mins, entry, writer, pass, missed, promised, stray>>

\* Dropping the last handle on a doomed segment unlinks it.
DropHandle(r) ==
  LET s == handle[r]
  IN  /\ s # 0
      /\ handle' = [handle EXCEPT ![r] = 0]
      /\ IF /\ state[s] = "retired"
            /\ \A q \in Readers \ {r} : handle[q] # s
            /\ \A p \in Passes : ~ (pass[p].pc = "forgot" /\ pass[p].seg = s)
         THEN Unlink(s) ELSE UNCHANGED <<state, disk>>
      /\ UNCHANGED <<peek, active, home, mins, entry, writer, pass, missed, promised, stray>>

\* Power is lost, with any part of what was not synced, and the volume opened
\* again: every file is read, doomed or not, the newest record wins, the tails
\* resume and the numbers go on past the newest one found.
Crash(kept) ==
  LET found == {[r EXCEPT !.synced = TRUE] : r \in {q \in disk : q.synced} \union kept}
      datas(s) == {r.lsn : r \in {q \in found : q.seg = s /\ ~ q.del}}
  IN  /\ disk' = found
      /\ state' = [s \in Segments |-> IF state[s] \in {"rolled", "handed", "retired"} THEN "sealed" ELSE state[s]]
      /\ mins' = [s \in Segments |-> IF datas(s) = {} THEN NoLsn ELSE Min(datas(s))]
      /\ entry' \in IF found = {} THEN {Absent} ELSE {Version(r) : r \in Newest(found)}
      /\ promised' = entry'
      /\ peek' = IF found = {} THEN 1 ELSE Max({r.lsn : r \in found}) + 1
      /\ writer' = [w \in Writers |-> NoWrite]
      /\ pass' = [p \in Passes |-> NoPass]
      /\ handle' = [r \in Readers |-> 0]
      /\ home' = [s \in Segments |-> IF state[s] = "active" THEN home[s] ELSE NoTail]
      /\ stray' = {} /\ missed' = {}
      /\ UNCHANGED active

Unsynced == {r \in disk : ~ r.synced}

Run ==
  \/ \E w \in Writers : \/ \E del \in BOOLEAN : Draw(w, del)
                        \/ \E t \in Tails : Append(w, t)
                        \/ Publish(w)
  \/ \E t \in Tails : Roll(t) \/ Sync(t)
  \/ \E s \in Segments : HandOver(s) \/ Seal(s)
  \/ \E p \in Passes : \/ \E s \in Segments, t \in Tails : Claim(p, s, t)
                       \/ ReadFloor(p) \/ CopyLive(p) \/ CarryOrDrop(p) \/ LandRun(p) \/ Repoint(p)
                       \/ \E t \in Tails : DrainTail(p, t)
                       \/ SyncTail(p) \/ Forget(p) \/ Doom(p)
  \/ \E r \in Readers : OpenHandle(r) \/ DropHandle(r)

Fault ==
  \/ \E p \in Passes : Abandon(p)
  \/ \E kept \in SUBSET Unsynced : Crash(kept)

Next == Run \/ Fault \/ \E w \in Writers : Fail(w)

Spec == Init /\ [][Next]_vars

-----------------------------------------------------------------------------
(* Properties                                                               *)

Versions == [lsn : Nat, del : BOOLEAN, seg : Segments \union {0}]

\* Numbers, segments and passes keep their shapes, no two tails share a segment,
\* and a segment a flush passed over is on its way to the sealer.
TypeOK ==
  /\ peek \in Nat \ {0}
  /\ state \in [Segments -> {"none", "active", "rolled", "handed", "sealed", "retired", "gone"}]
  /\ active \in [Tails -> Segments] /\ home \in [Segments -> Tails \union {NoTail}]
  /\ \A t \in Tails : state[active[t]] = "active" /\ home[active[t]] = t
  /\ disk \subseteq [lsn : Nat \ {0}, del : BOOLEAN, seg : Segments, synced : BOOLEAN]
  /\ mins \in [Segments -> Nat]
  /\ entry \in Versions /\ promised \in Versions
  /\ writer \in [Writers -> [pc : {"idle", "drawn", "landed"}, lsn : Nat, del : BOOLEAN, seg : Segments \union {0}]]
  /\ \A p \in Passes : /\ pass[p].pc \in {"idle", "settled", "rewrite", "landed", "drained", "forgot"}
                       /\ pass[p].todo \subseteq disk
                       /\ pass[p].left \subseteq Tails /\ pass[p].at \in Tails \union {NoTail}
  /\ handle \in [Readers -> Segments \union {0}]
  /\ missed \subseteq {s \in Segments : state[s] \in {"rolled", "handed"}}

\* Whether a rebuild from these records gives the last version acknowledged and
\* synced, or a later one; a key with no record is as good as its tombstone.
Agrees(found) ==
  IF found = {} THEN promised.del
  ELSE \A r \in Newest(found) : r.lsn >= promised.lsn \/ (r.del /\ promised.del)

\* What a crash keeps of the unsynced records matters only in its newest one, so
\* keeping one of them or none stands for every part of them.
Outcomes == {{}} \union {{r} : r \in Unsynced}

\* A crash that keeps the segments a pass's flush passed over, and any part of the
\* other unsynced records, leaves records in the segments that stand from which
\* the index rebuilds to the last version acknowledged and synced: no pass retires
\* a record, drops a tombstone or leaves a copy such that a delete is undone, a
\* put lost or an older version brought back, whatever writes that returned an
\* error left behind.  Losing a segment that was passed over can lose the key, for
\* the flush answers for it unsynced.
RebuildAgrees ==
  \A kept \in Outcomes :
    Agrees({r \in disk : (r.synced \/ r \in kept \/ r.seg \in missed) /\ state[r.seg] # "retired"})

\* The same of every file a rebuild would read, a doomed one still held open by a
\* reader among them: a dropped tombstone hides nothing that can still surface.
FilesAgree ==
  \A kept \in Outcomes :
    Agrees({r \in disk : r.synced \/ r \in kept \/ r.seg \in missed})

\* The index never points a live key into a segment the compactor has retired: its
\* record is in a file that stands, whichever writes, seals and rolls come between
\* the copy and the repoint.  It holds while passes run one at a time; with two at
\* once one may retire the segment the other's copies landed in, before the
\* other's repoint_run has moved the index there.
EntryStands ==
  ~ entry.del => /\ entry.seg \in Standing
                 /\ \E r \in disk : ~ r.del /\ r.lsn = entry.lsn /\ r.seg = entry.seg

=============================================================================
