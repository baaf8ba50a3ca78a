------------------------------ MODULE SpotIndex ------------------------------
(***************************************************************************)
(* The index tier for one key (index/map.rs, index/column.rs,               *)
(* index/spot.rs): the map of unsealed keys and graves, the spot index's    *)
(* slots into sealed segments, and the footers.  Writers publish, sealed    *)
(* segments hand their keys from the map to the spot index, a compaction    *)
(* pass brings keys back at their copies, graves are pruned, and readers    *)
(* walk map, slots and footers taking one lock or one device read at a      *)
(* time; the LOOKUP_TRIES limits on starting over are not reached within    *)
(* the bounds.  Left out: range deletes and covers, key runs, rot and       *)
(* evictions, I/O that fails, keys sharing a hash, and crashes (Compaction  *)
(* has them).                                                               *)
(***************************************************************************)
EXTENDS Integers, FiniteSets, FiniteSetsExt, Sequences

CONSTANTS
  Writers, Readers,
  Segments,      \* segment numbers, drawn in order by one tail
  SettleAt,      \* SETTLE_AT: an overwrite reads every version of a key with this many slots
  GraveWindow,   \* the writes a grave outlives
  ResolveRetries \* RESOLVE_RETRIES: reads of a record gone from under the index before giving up

ASSUME SegmentsAssumption == Segments = 1..Cardinality(Segments) /\ Segments # {}
ASSUME LimitsAssumption == SettleAt \in Nat \ {0} /\ GraveWindow \in Nat /\ ResolveRetries \in Nat \ {0}

NoLsn == 0
None == [lsn |-> NoLsn, del |-> TRUE, seg |-> 0]   \* no entry: the map is silent

VARIABLES
  peek,     \* the next sequence number
  active,   \* the tail's open segment
  state,    \* each segment: "none", "open", "sealed" (queued), "noted" (its spans are),
            \* "retired" (the index forgot it), "gone" (so did the file system)
  disk,     \* the records written: [lsn, del, seg]
  map,      \* the map's entry or grave for the key, a grave with its tombstone's segment
  spot,     \* the key's slots: [lsn, seg, disp], disp for one marked displaced
  stale,    \* older versions queued for scrub_spot
  paged,    \* what the key adds to its shard's paged count
  handed,   \* the newest version ever handed over
  lifted,   \* the newest version a pruned grave guarded
  held,     \* noted segments owed a hand-over, oldest first
  hand,     \* the hand-over: [pc, row, inserted]
  writer, reader, pass,
  truth     \* the newest version published, or a grave: what a read should find

vars == <<peek, active, state, disk, map, spot, stale, paged, handed, lifted, held, hand, writer, reader, pass, truth>>

\* A write: seen is the slots its settle read.
NoWrite == [pc |-> "idle", lsn |-> NoLsn, del |-> FALSE, seg |-> 0, seen |-> {}]
NoHand == [pc |-> "idle", row |-> None, asked |-> FALSE, inserted |-> FALSE]
NoPass == [pc |-> "idle", seg |-> 0, floor |-> NoLsn, todo |-> {}, row |-> None, to |-> 0, from |-> None]

\* A read: saw is what was current when it began and every write published since,
\* its own answer's publishing included if that comes later, moved whether a slot
\* left the key's shard since it last read the count, under whether it met a
\* tentative slot, or a segment retired while it had a displaced version to settle,
\* left the places still to read, best the newest version read, spare the older
\* ones it read past.
NoRead == [pc |-> "idle", saw |-> {}, moved |-> FALSE, under |-> FALSE, left |-> {}, best |-> None, disp |-> FALSE,
           spare |-> {}, tries |-> 0, answer |-> NoLsn]

Standing(s) == state[s] \in {"open", "sealed", "noted"}
Readable(s) == Standing(s) \/ state[s] = "retired"
Loc(r) == [lsn |-> r.lsn, seg |-> r.seg]
Live(e) == e.lsn # NoLsn /\ ~ e.del
Answer(e) == IF Live(e) THEN e.lsn ELSE NoLsn
Largest(a, b) == IF a > b THEN a ELSE b
OneOf(S) == CHOOSE x \in S : TRUE

\* max_lsn_of: the ceiling noted with a sealed segment's spans, none before and after.
Ceiling(s) == IF state[s] = "noted" THEN Max({r.lsn : r \in {q \in disk : q.seg = s}} \union {NoLsn}) ELSE NoLsn

InFlight == {writer[w].lsn : w \in {v \in Writers : writer[v].pc # "idle"}}
SettledBelow == IF InFlight = {} THEN peek ELSE Min(InFlight)

LiveSlots(S) == {x \in S : ~ x.disp}
SlotsAt(S, loc) == {x \in S : Loc(x) = loc}

Init ==
  /\ peek = 1 /\ active = 1 /\ disk = {} /\ map = None /\ spot = {} /\ stale = {} /\ paged = 0
  /\ state = [s \in Segments |-> IF s = 1 THEN "open" ELSE "none"]
  /\ handed = NoLsn /\ lifted = NoLsn /\ held = <<>> /\ hand = NoHand /\ truth = None
  /\ writer = [w \in Writers |-> NoWrite]
  /\ reader = [r \in Readers |-> NoRead]
  /\ pass = NoPass

\* Slots leave: every lookup in flight sees the shard's taken count move.
Reading(r) == reader[r].pc \notin {"idle", "done"}
Took(S) == [r \in Readers |-> [reader[r] EXCEPT !.moved = @ \/ (Reading(r) /\ S # {})]]

-----------------------------------------------------------------------------
(* Writers                                                                  *)

\* A write draws its number, then lands in the open segment.
Draw(w, del) ==
  /\ writer[w].pc = "idle"
  /\ writer' = [writer EXCEPT ![w] = [NoWrite EXCEPT !.pc = "drawn", !.lsn = peek, !.del = del]]
  /\ peek' = peek + 1
  /\ UNCHANGED <<active, state, disk, map, spot, stale, paged, handed, lifted, held, hand, reader, pass, truth>>

Land(w) ==
  /\ writer[w].pc = "drawn"
  /\ disk' = disk \union {[lsn |-> writer[w].lsn, del |-> writer[w].del, seg |-> active]}
  /\ writer' = [writer EXCEPT ![w].pc = "landed", ![w].seg = active]
  /\ UNCHANGED <<peek, active, state, map, spot, stale, paged, handed, lifted, held, hand, reader, pass, truth>>

\* holds_newer: a slot of this key, in a segment whose ceiling admits it, is newer.
HoldsNewer(lsn) == \E x \in spot : Readable(x.seg) /\ ~ (Ceiling(x.seg) # NoLsn /\ Ceiling(x.seg) <= lsn) /\ x.lsn > lsn
ShadowLookup(lsn) == lsn <= handed /\ HoldsNewer(lsn)

\* insert_held and remove_held, under the shard's lock: a newer version in the map
\* or, over an empty place, in the spot index refuses the write.
Refused(lsn) == IF map # None THEN map.lsn >= lsn ELSE ShadowLookup(lsn)

Moved(put) == IF Refused(put.lsn) THEN map ELSE put

Published(e) == IF e.lsn > truth.lsn THEN e ELSE truth

\* The map moves.  A write that found its place empty still has to settle what
\* the spot index holds of the key; any other returns, and its number is let go.
Move(w) ==
  LET mine == [lsn |-> writer[w].lsn, del |-> writer[w].del, seg |-> writer[w].seg]
      paged_ == map = None /\ ~ Refused(mine.lsn)
  IN  /\ writer[w].pc = "landed"
      /\ map' = Moved(mine)
      /\ truth' = Published(mine)
      /\ reader' = [r \in Readers |-> [reader[r] EXCEPT !.saw = IF @ = {} THEN @ ELSE @ \union {Answer(mine)}]]
      /\ writer' = [writer EXCEPT ![w] = IF paged_ THEN [@ EXCEPT !.pc = "moved"] ELSE NoWrite]
      /\ UNCHANGED <<peek, active, state, disk, spot, stale, paged, handed, lifted, held, hand, pass>>

\* settle_versions looks at the slots ...
SettleLook(w) ==
  /\ writer[w].pc = "moved"
  /\ writer' = [writer EXCEPT ![w] = IF spot = {} THEN NoWrite ELSE [@ EXCEPT !.pc = "settling", !.seen = spot]]
  /\ UNCHANGED <<peek, active, state, disk, map, spot, stale, paged, handed, lifted, held, hand, reader, pass, truth>>

\* ... and under the lock takes those it read as older, and marks displaced those
\* it did not have to read; each live one books the key's count down once.
SettleTake(w) ==
  LET lsn == writer[w].lsn
      seen == writer[w].seen
      must == Cardinality(seen) >= SettleAt
      below(x) == Ceiling(x.seg) # NoLsn /\ Ceiling(x.seg) < lsn
      unread == {x \in seen : ~ x.disp /\ (IF Readable(x.seg) THEN ~ must /\ below(x) ELSE TRUE)}
      read == {x \in seen \ unread : must \/ ~ x.disp}
      older == {x \in read : Readable(x.seg) /\ x.lsn < lsn}
      gone == {x \in read : ~ Readable(x.seg)}
      places(S) == {Loc(x) : x \in S}
      out == {x \in spot : Loc(x) \in places(older \union gone)}
      marked == {x \in spot \ out : Loc(x) \in places(unread) /\ ~ x.disp}
  IN  /\ writer[w].pc = "settling"
      /\ spot' = (spot \ (out \union marked)) \union {[x EXCEPT !.disp = TRUE] : x \in marked}
      /\ paged' = paged - Cardinality(marked) - Cardinality({x \in out : ~ x.disp /\ Loc(x) \in places(older)})
      /\ reader' = Took(out)
      /\ writer' = [writer EXCEPT ![w] = NoWrite]
      /\ UNCHANGED <<peek, active, state, disk, map, stale, handed, lifted, held, hand, pass, truth>>

-----------------------------------------------------------------------------
(* Seals and hand-overs                                                     *)

\* Faulty: the tail does not look whether a segment number is left.
SealPastTheLast ==
  /\ active' = active + 1
  /\ state' = [state EXCEPT ![active] = "sealed", ![active + 1] = "open"]
  /\ UNCHANGED <<peek, disk, map, spot, stale, paged, handed, lifted, held, hand, writer, reader, pass, truth>>

\* The tail rolls and its old segment is sealed: the index hears of the footer only.
Seal ==
  /\ active + 1 \in Segments
  /\ active' = active + 1
  /\ state' = [state EXCEPT ![active] = "sealed", ![active + 1] = "open"]
  /\ UNCHANGED <<peek, disk, map, spot, stale, paged, handed, lifted, held, hand, writer, reader, pass, truth>>

\* hold_sealed, run by the tick and by reads: spans noted, hand-over queued.
HoldSealed(s) ==
  /\ state[s] = "sealed"
  /\ state' = [state EXCEPT ![s] = "noted"]
  /\ held' = Append(held, s)
  /\ UNCHANGED <<peek, active, disk, map, spot, stale, paged, handed, lifted, hand, writer, reader, pass, truth>>

\* page_out_partition takes the key's last row in the segment, if it is data, and
\* raises handed.  The other rows decide whether it is put to the map first
\* (mostly_outversioned), except one a pruned grave may hide, which always is.
TakePartition ==
  LET rows == {r \in disk : r.seg = Head(held)}
      last == OneOf({r \in rows : \A q \in rows : q.lsn <= r.lsn})
  IN  /\ hand.pc = "idle" /\ held # <<>>
      /\ held' = Tail(held)
      /\ IF rows = {} \/ (rows # {} /\ last.del)
         THEN UNCHANGED <<hand, handed>>
         ELSE /\ handed' = Largest(handed, last.lsn)
              /\ \E asked \in BOOLEAN :
                   /\ last.lsn <= lifted => asked
                   /\ hand' = [NoHand EXCEPT !.pc = "taken", !.row = last, !.asked = asked]
      /\ UNCHANGED <<peek, active, state, disk, map, spot, stale, paged, lifted, writer, reader, pass, truth>>

\* Faulty: the map lets the key go whatever version it holds.
MapHoldsAny(row) == Live(map)

MapHolds(row) == Live(map) /\ Loc(map) = Loc(row)
NewSlot(row) == [lsn |-> row.lsn, seg |-> row.seg, disp |-> FALSE]

\* A slot of a hand-over under way for a row the map does not hold: it comes back out.
Tentative == IF hand.pc \in {"inserted", "back"} /\ hand.inserted /\ ~ MapHolds(hand.row)
             THEN SlotsAt(spot, Loc(hand.row)) ELSE {}

\* Under the map's lock an asked row moves from the map to the spot index whole.
HandAsked ==
  /\ hand.pc = "taken" /\ hand.asked
  /\ IF MapHolds(hand.row)
     THEN /\ spot' = IF SlotsAt(spot, Loc(hand.row)) = {} THEN spot \union {NewSlot(hand.row)} ELSE spot
          /\ map' = None
          /\ paged' = paged + 1
     ELSE UNCHANGED <<spot, map, paged>>
  /\ hand' = NoHand
  /\ UNCHANGED <<peek, active, state, disk, stale, handed, lifted, held, writer, reader, pass, truth>>

\* Any other row takes its slot first ...
HandInsert ==
  LET fresh == SlotsAt(spot, Loc(hand.row)) = {}
  IN  /\ hand.pc = "taken" /\ ~ hand.asked
      /\ spot' = IF fresh THEN spot \union {NewSlot(hand.row)} ELSE spot
      /\ hand' = [hand EXCEPT !.pc = "inserted", !.inserted = fresh]
      /\ UNCHANGED <<peek, active, state, disk, map, stale, paged, handed, lifted, held, writer, reader, pass, truth>>

\* ... then the map lets it go, if it still holds it ...
HandPageOut ==
  /\ hand.pc = "inserted"
  /\ IF MapHolds(hand.row)
     THEN map' = None /\ paged' = paged + 1 /\ hand' = NoHand
     ELSE /\ hand' = IF hand.inserted THEN [hand EXCEPT !.pc = "back"] ELSE NoHand
          /\ UNCHANGED <<map, paged>>
  /\ UNCHANGED <<peek, active, state, disk, spot, stale, handed, lifted, held, writer, reader, pass, truth>>

\* ... and a slot the map did not let go of comes back out.
HandBack ==
  LET out == SlotsAt(spot, Loc(hand.row))
  IN  /\ hand.pc = "back"
      /\ spot' = spot \ out
      /\ reader' = Took(out)
      /\ hand' = NoHand
      /\ UNCHANGED <<peek, active, state, disk, map, stale, paged, handed, lifted, held, writer, pass, truth>>

\* prune_tombstones, between the tick's passes and hand-overs: a grave goes once its tombstone's
\* segment is noted, nothing drawn before it is out and GraveWindow writes follow it.
Prune ==
  /\ hand.pc = "idle" /\ pass.pc = "idle" /\ map # None /\ map.del
  /\ map.lsn <= SettledBelow /\ map.lsn <= peek - GraveWindow /\ state[map.seg] = "noted"
  /\ map' = None
  /\ lifted' = Largest(lifted, map.lsn)
  /\ UNCHANGED <<peek, active, state, disk, spot, stale, paged, handed, held, hand, writer, reader, pass, truth>>

\* scrub_spot, after the tick's passes: slots into retired segments go, then an older version a lookup
\* read past, unless an overwrite booked it first.
ForgetRetired ==
  LET out == {x \in spot : state[x.seg] # "noted"}
  IN  /\ pass.pc = "idle" /\ out # {}
      /\ spot' = spot \ out
      /\ reader' = Took(out)
      /\ UNCHANGED <<peek, active, state, disk, map, stale, paged, handed, lifted, held, hand, writer, pass, truth>>

ScrubSpot ==
  \E loc \in stale :
    LET out == {x \in SlotsAt(spot, loc) : ~ x.disp}
    IN  /\ pass.pc = "idle"
        /\ stale' = stale \ {loc}
        /\ spot' = spot \ out
        /\ paged' = paged - Cardinality(out)
        /\ reader' = Took(out)
        /\ UNCHANGED <<peek, active, state, disk, map, handed, lifted, held, hand, writer, pass, truth>>

\* rebook_owed, the tick's last step: an overwritten version booked unread is read, and goes.
RebookOwed ==
  LET out == spot \ LiveSlots(spot)
  IN  /\ pass.pc = "idle" /\ out # {}
      /\ spot' = LiveSlots(spot)
      /\ reader' = Took(out)
      /\ UNCHANGED <<peek, active, state, disk, map, stale, paged, handed, lifted, held, hand, writer, pass, truth>>

-----------------------------------------------------------------------------
(* A compaction pass                                                        *)

\* newest_sealed: the newest row in these segments' footers; a tombstone is nothing.
NewestRow(segs) ==
  LET rows == {r \in disk : r.seg \in segs}
      best == {r \in rows : \A q \in rows : q.lsn < r.lsn \/ (q.lsn = r.lsn /\ q.seg <= r.seg)}
  IN  IF best = {} \/ \E r \in best : r.del THEN None ELSE OneOf(best)

Noted == {s \in Segments : state[s] = "noted"}

\* newest_live: what the spot index says, the footers settling a displaced version.
NewestLive ==
  LET there == {x \in spot : Readable(x.seg)}
      best == {x \in there : \A q \in there : q.lsn < x.lsn \/ (q.lsn = x.lsn /\ q.seg <= x.seg)}
  IN  IF best = {} THEN None
      ELSE IF \E x \in best : x.disp THEN NewestRow(Noted)
      ELSE LET x == OneOf(best) IN [lsn |-> x.lsn, del |-> FALSE, seg |-> x.seg]

\* get, taken at one moment.
Get == IF map # None THEN (IF map.del THEN None ELSE map) ELSE NewestLive

\* only_at: the key's one live slot is this record.
OnlyAt(loc) == \E x \in spot : LiveSlots(spot) = {x} /\ Loc(x) = loc
LiveElsewhere(loc) == \E x \in spot : LiveSlots(spot) = {x} /\ Loc(x) # loc

IsLiveAt(r) ==
  IF map # None THEN Live(map) /\ Loc(map) = Loc(r)
  ELSE OnlyAt(Loc(r)) \/ (~ LiveElsewhere(Loc(r)) /\ Get # None /\ Loc(Get) = Loc(r))

IsSettled(s) == state[s] = "noted" /\ \A w \in Writers : ~ (writer[w].pc # "idle" /\ writer[w].seg = s)

\* A pass claims a noted, settled segment, reads its drop floor and keeps its
\* tombstones and the rows the index says are live.
Claim(s) ==
  LET other == {r.lsn : r \in {q \in disk : q.seg # s /\ Standing(q.seg) /\ ~ q.del /\ q.lsn \notin InFlight}}
  IN  /\ pass.pc = "idle" /\ IsSettled(s) /\ \E r \in disk : r.seg = s
      /\ pass' = [NoPass EXCEPT !.pc = "rewrite", !.seg = s, !.floor = Min(other \union {SettledBelow}),
                                !.todo = {r \in disk : r.seg = s /\ (r.del \/ IsLiveAt(r))}]
      /\ UNCHANGED <<peek, active, state, disk, map, spot, stale, paged, handed, lifted, held, hand, writer, reader, truth>>

\* copy_live, append_copies: a row still live lands again in the open segment.
CopyLive ==
  \E r \in pass.todo :
    /\ pass.pc = "rewrite" /\ ~ r.del
    /\ IF IsLiveAt(r)
       THEN /\ disk' = disk \union {[r EXCEPT !.seg = active]}
            /\ pass' = [pass EXCEPT !.pc = "landed", !.todo = @ \ {r}, !.row = r, !.to = active]
       ELSE /\ pass' = [pass EXCEPT !.todo = @ \ {r}]
            /\ UNCHANGED disk
    /\ UNCHANGED <<peek, active, state, map, spot, stale, paged, handed, lifted, held, hand, writer, reader, truth>>

Copied == [lsn |-> pass.row.lsn, del |-> FALSE, seg |-> pass.to]

\* repoint_moved: the map's own entry moves if it is this version ...
RepointMapped ==
  /\ pass.pc = "landed" /\ map # None
  /\ map' = IF Live(map) /\ map.lsn = pass.row.lsn THEN Copied ELSE map
  /\ pass' = [pass EXCEPT !.pc = "rewrite", !.row = None, !.to = 0, !.from = None]
  /\ UNCHANGED <<peek, active, state, disk, spot, stale, paged, handed, lifted, held, hand, writer, reader, truth>>

\* ... or the key is paged, and the slot or the footers say where it is ...
RepointResolve ==
  LET from == IF OnlyAt(Loc(pass.row)) THEN pass.row ELSE NewestLive
  IN  /\ pass.pc = "landed" /\ map = None
      /\ pass' = IF from # None /\ from.lsn = pass.row.lsn THEN [pass EXCEPT !.pc = "resolved", !.from = from]
                 ELSE [pass EXCEPT !.pc = "rewrite", !.row = None, !.to = 0]
      /\ UNCHANGED <<peek, active, state, disk, map, spot, stale, paged, handed, lifted, held, hand, writer, reader, truth>>

\* Faulty: the slot it takes out is not booked.
RepointUnbooked ==
  LET out == {x \in SlotsAt(spot, Loc(pass.from)) : ~ x.disp}
  IN  /\ pass.pc = "resolved"
      /\ IF map # None THEN UNCHANGED <<map, spot, reader>>
         ELSE /\ map' = Copied
              /\ spot' = spot \ out
              /\ reader' = Took(out)
      /\ pass' = [pass EXCEPT !.pc = "rewrite", !.row = None, !.to = 0, !.from = None]
      /\ UNCHANGED <<peek, active, state, disk, stale, paged, handed, lifted, held, hand, writer, truth>>

\* ... and repoint_paged brings it back at the copy unless a write got there first.
RepointPaged ==
  LET out == {x \in SlotsAt(spot, Loc(pass.from)) : ~ x.disp}
  IN  /\ pass.pc = "resolved"
      /\ IF map # None THEN UNCHANGED <<map, spot, paged, reader>>
         ELSE /\ map' = Copied
              /\ spot' = spot \ out
              /\ paged' = paged - Cardinality(out)
              /\ reader' = Took(out)
      /\ pass' = [pass EXCEPT !.pc = "rewrite", !.row = None, !.to = 0, !.from = None]
      /\ UNCHANGED <<peek, active, state, disk, stale, handed, lifted, held, hand, writer, truth>>

\* may_hold_newer: a live slot in a segment that may hold a later version.
MayHoldNewer(lsn) == \E x \in LiveSlots(spot) : Ceiling(x.seg) = NoLsn \/ Ceiling(x.seg) > lsn

\* carry_or_drop: a dropped tombstone takes its grave along, a carried one lands again ...
CarryOrDrop ==
  \E r \in pass.todo :
    LET carry == ~ (Get # None /\ Get.lsn > r.lsn) /\ r.lsn >= pass.floor
        copy == [r EXCEPT !.seg = active]
    IN  /\ pass.pc = "rewrite" /\ r.del
        /\ IF carry
           THEN /\ disk' = disk \union {copy}
                /\ pass' = [pass EXCEPT !.pc = "carried", !.todo = @ \ {r}, !.row = copy]
                /\ UNCHANGED map
           ELSE /\ pass' = [pass EXCEPT !.todo = @ \ {r}]
                /\ map' = IF map # None /\ map.del /\ map.lsn = r.lsn THEN None ELSE map
                /\ UNCHANGED disk
        /\ UNCHANGED <<peek, active, state, spot, stale, paged, handed, lifted, held, hand, writer, reader, truth>>

\* ... and hold_grave stands a grave for the copy, unless a newer version stands.
HoldGrave ==
  /\ pass.pc = "carried"
  /\ map' = IF Live(map) \/ map.lsn > pass.row.lsn \/ MayHoldNewer(pass.row.lsn) THEN map ELSE pass.row
  /\ pass' = [pass EXCEPT !.pc = "rewrite", !.row = None]
  /\ UNCHANGED <<peek, active, state, disk, spot, stale, paged, handed, lifted, held, hand, writer, reader, truth>>

\* A lookup past the map that has met, or is to meet, a displaced version.
SettlesDisplaced(r) ==
  /\ reader[r].pc \in {"look", "head", "rows"}
  /\ reader[r].disp \/ \E x \in spot \union (IF reader[r].pc = "head" THEN reader[r].left ELSE {}) : x.disp

\* forget_segment: the segment's displaced slots are rebooked and go, and no
\* search reaches its footer ...
Forget ==
  LET out == {x \in spot : x.seg = pass.seg /\ x.disp}
  IN  /\ pass.pc = "rewrite" /\ pass.todo = {}
      /\ state' = [state EXCEPT ![pass.seg] = "retired"]
      /\ spot' = spot \ out
      /\ reader' = [r \in Readers |-> [Took(out)[r] EXCEPT !.under = @ \/ SettlesDisplaced(r)]]
      /\ pass' = [pass EXCEPT !.pc = "forgot"]
      /\ UNCHANGED <<peek, active, disk, map, stale, paged, handed, lifted, held, hand, writer, truth>>

\* ... then the file goes (no other reader has it open: Compaction has those).
Doom ==
  /\ pass.pc = "forgot"
  /\ state' = [state EXCEPT ![pass.seg] = "gone"]
  /\ pass' = NoPass
  /\ UNCHANGED <<peek, active, disk, map, spot, stale, paged, handed, lifted, held, hand, writer, reader, truth>>

-----------------------------------------------------------------------------
(* Readers: spot_read, then the resolve loop over get                       *)

Reads(r, pc) == reader[r].pc = pc
Goes(r, rec) == /\ reader' = [reader EXCEPT ![r] = rec]
                /\ UNCHANGED <<peek, active, state, disk, map, spot, stale, paged, handed, lifted, held, hand, writer, pass, truth>>
Done(r, lsn) == [NoRead EXCEPT !.pc = "done", !.saw = reader[r].saw, !.under = reader[r].under, !.answer = lsn]

\* spot_route reads the shard's count, settling the sealed queue first ...
Start(r) ==
  /\ Reads(r, "idle")
  /\ \A s \in Segments : state[s] # "sealed"
  /\ Goes(r, [NoRead EXCEPT !.pc = "route", !.saw = {Answer(truth)}])

\* ... then the map.
Route(r) ==
  /\ Reads(r, "route")
  /\ Goes(r, IF map = None THEN [reader[r] EXCEPT !.pc = "pick"]
             ELSE IF map.del THEN Done(r, NoLsn) ELSE [reader[r] EXCEPT !.pc = "get"])

Placed == {[lsn |-> x.lsn, seg |-> x.seg, disp |-> x.disp, ceil |-> Ceiling(x.seg)] : x \in spot}

\* pick, and entry_once's ordering: the key's slots, with their segments' ceilings.
Pick(r) ==
  /\ reader[r].pc \in {"pick", "look"}
  /\ Goes(r, [reader[r] EXCEPT !.pc = IF @ = "pick" THEN "read" ELSE "head", !.under = @ \/ Tentative # {}, !.left = Placed, !.best = None, !.disp = FALSE])

\* A slot's candidates go highest ceiling first; one below the best read is passed over.
Following(x, S) == \A y \in S : y.ceil < x.ceil \/ (y.ceil = x.ceil /\ y.seg <= x.seg)
Beneath(r, x) == reader[r].best # None /\ x.ceil # NoLsn /\ x.ceil < reader[r].best.lsn

\* A lookup reads the key's sole live slot alone, else every candidate a ceiling
\* cannot rule out.  A slot into a file that is gone goes, and the lookup starts over.
SoleLive(S) == {x \in S : ~ x.disp /\ \A y \in S \ {x} : y.disp}

ReadSlot(r) ==
  \E x \in reader[r].left :
    LET me == reader[r]
        sole == IF me.pc = "read" /\ me.best = None THEN SoleLive(me.left) ELSE {}
        left == IF sole # {} THEN {} ELSE me.left \ {x}
        newer == me.best = None \/ x.lsn > me.best.lsn
        rest == [me EXCEPT !.left = left]
    IN  /\ me.pc \in {"read", "head"}
        /\ IF sole # {} THEN x \in sole ELSE Following(x, me.left)
        /\ \/ /\ sole = {} /\ Beneath(r, x)
              /\ Goes(r, rest)
           \/ /\ sole # {} \/ ~ Beneath(r, x)
              /\ Readable(x.seg)
              /\ Goes(r, IF newer THEN [rest EXCEPT !.best = [lsn |-> x.lsn, del |-> FALSE, seg |-> x.seg], !.disp = x.disp]
                         ELSE IF x.lsn < me.best.lsn /\ ~ x.disp THEN [rest EXCEPT !.spare = @ \union {Loc(x)}] ELSE rest)
           \/ /\ sole # {} \/ ~ Beneath(r, x)
              /\ ~ Readable(x.seg)
              /\ LET out == SlotsAt(spot, Loc(x))
                 IN  /\ spot' = spot \ out
                     /\ reader' = [Took(out) EXCEPT ![r].pc = IF me.pc = "read" THEN "pick" ELSE "look"]
              /\ UNCHANGED <<peek, active, state, disk, map, stale, paged, handed, lifted, held, hand, writer, pass, truth>>

\* Faulty: a miss stands whatever left the shard.
SpotFinishUnchecked(r) ==
  LET me == reader[r]
  IN  /\ Reads(r, "read") /\ me.left = {}
      /\ stale' = stale \union me.spare
      /\ reader' = [reader EXCEPT ![r] = IF me.best # None /\ ~ me.disp THEN Done(r, me.best.lsn)
                                         ELSE IF me.best = None THEN Done(r, NoLsn)
                                         ELSE [me EXCEPT !.pc = "get", !.spare = {}]]
      /\ UNCHANGED <<peek, active, state, disk, map, spot, paged, handed, lifted, held, hand, writer, pass, truth>>

\* settle and spot_finish: a displaced version is left to the checked path, and a
\* miss stands only if no slot left the shard.
SpotFinish(r) ==
  LET me == reader[r]
  IN  /\ Reads(r, "read") /\ me.left = {}
      /\ stale' = stale \union me.spare
      /\ reader' = [reader EXCEPT ![r] = IF me.best # None /\ ~ me.disp THEN Done(r, me.best.lsn)
                                         ELSE IF me.best = None /\ ~ me.moved THEN Done(r, NoLsn)
                                         ELSE [me EXCEPT !.pc = "get", !.spare = {}]]
      /\ UNCHANGED <<peek, active, state, disk, map, spot, paged, handed, lifted, held, hand, writer, pass, truth>>

\* get reads the count again, then the map, then the slots' headers.
GetSince(r) ==
  /\ Reads(r, "get")
  /\ Goes(r, [reader[r] EXCEPT !.pc = "mapped", !.moved = FALSE])

Mapped(r) ==
  /\ Reads(r, "mapped")
  /\ Goes(r, IF map = None THEN [reader[r] EXCEPT !.pc = "look"]
             ELSE IF map.del THEN Done(r, NoLsn) ELSE [reader[r] EXCEPT !.pc = "fetch", !.best = map])

\* A sealed find is read; nothing found stands only if no slot left the shard.
Found(r, e) == IF e # None THEN [reader[r] EXCEPT !.pc = "fetch", !.best = e]
               ELSE IF reader[r].moved THEN [reader[r] EXCEPT !.pc = "get"] ELSE Done(r, NoLsn)

HeadFinish(r) ==
  /\ Reads(r, "head") /\ reader[r].left = {}
  /\ Goes(r, IF reader[r].disp THEN [reader[r] EXCEPT !.pc = "rows", !.left = Noted] ELSE Found(r, reader[r].best))

\* newest_sealed searches the footers of the segments that were candidates.
FooterRows(r) ==
  /\ Reads(r, "rows")
  /\ Goes(r, Found(r, NewestRow(reader[r].left \intersect Noted)))

\* read_record: a record gone from under the index is looked up again, and after
\* RESOLVE_RETRIES the read answers missing.
Fetch(r) ==
  LET me == reader[r]
  IN  /\ Reads(r, "fetch")
      /\ \/ /\ Readable(me.best.seg)
            /\ Goes(r, Done(r, me.best.lsn))
         \/ /\ ~ Readable(me.best.seg)
            /\ Goes(r, IF me.tries + 1 = ResolveRetries THEN Done(r, NoLsn)
                       ELSE [me EXCEPT !.pc = "get", !.tries = @ + 1, !.left = {}, !.best = None])

Finish(r) ==
  /\ Reads(r, "done")
  /\ Goes(r, NoRead)

-----------------------------------------------------------------------------
Next ==
  \/ \E w \in Writers : (\E del \in BOOLEAN : Draw(w, del)) \/ Land(w) \/ Move(w) \/ SettleLook(w) \/ SettleTake(w)
  \/ Seal \/ (\E s \in Segments : HoldSealed(s))
  \/ TakePartition \/ HandAsked \/ HandInsert \/ HandPageOut \/ HandBack
  \/ Prune \/ ForgetRetired \/ ScrubSpot \/ RebookOwed
  \/ (\E s \in Segments : Claim(s)) \/ CopyLive \/ RepointMapped \/ RepointResolve \/ RepointPaged \/ CarryOrDrop \/ HoldGrave \/ Forget \/ Doom
  \/ \E r \in Readers : \/ Start(r) \/ Route(r) \/ Pick(r) \/ ReadSlot(r) \/ SpotFinish(r) \/ GetSince(r) \/ Mapped(r)
                        \/ HeadFinish(r) \/ FooterRows(r) \/ Fetch(r) \/ Finish(r)

Spec == Init /\ [][Next]_vars

-----------------------------------------------------------------------------
(* Properties                                                               *)

Versions == [lsn : Nat, del : BOOLEAN, seg : Segments \union {0}]

\* The key's map entry, slots, counts and the actors keep their shapes, and a place in
\* a segment has one slot at most (spot.rs: insert).
TypeOK ==
  /\ peek \in Nat \ {0} /\ active \in Segments
  /\ state \in [Segments -> {"none", "open", "sealed", "noted", "retired", "gone"}]
  /\ disk \subseteq Versions /\ map \in Versions /\ truth \in Versions
  /\ spot \subseteq [lsn : Nat, seg : Segments, disp : BOOLEAN]
  /\ \A x, y \in spot : Loc(x) = Loc(y) => x = y
  /\ paged \in Int /\ handed \in Nat /\ lifted \in Nat
  /\ \A w \in Writers : writer[w].pc \in {"idle", "drawn", "landed", "moved", "settling"}
  /\ hand.pc \in {"idle", "taken", "inserted", "back"}
  /\ pass.pc \in {"idle", "rewrite", "landed", "resolved", "carried", "forgot"}
  /\ \A r \in Readers : reader[r].pc \in {"idle", "route", "pick", "read", "get", "mapped", "look", "head", "rows", "fetch", "done"}

\* Writes on the device that are not published: a footer search may meet one first.
Early == {[lsn |-> writer[w].lsn, del |-> writer[w].del] : w \in {v \in Writers : writer[v].pc = "landed"}}

\* Every read answers what was the newest version published at some moment
\* between its start and its end, or a write not yet published, through the
\* hand-overs, passes, prunes and settles that run beside it (spot_finish, get).
\* Two kinds of read are left out, because the code returns a hit without asking
\* whether a slot left the shard (map.rs:541, map.rs:739) and they may answer an
\* older version: one under which a segment retired while it had a displaced
\* version to settle, and one that met a tentative slot (under).  Nor does the
\* code keep it through the overlaps MCSpotIndex names.
ReadsCurrent ==
  \A r \in Readers : Reads(r, "done") /\ ~ reader[r].under =>
    reader[r].answer \in reader[r].saw \union {Answer(e) : e \in Early}

\* Nothing of the key is between two places.
Quiet ==
  /\ \A w \in Writers : writer[w].pc \notin {"moved", "settling"}
  /\ hand.pc = "idle" /\ pass.pc \in {"idle", "rewrite"}

\* live_count is exact at a quiet moment: the key counts once if its newest
\* version is a put, whoever took its slot, marked it displaced or moved it
\* back to the map (settle_versions, scrub, repoint_paged, page_out_lane).  It
\* is not exact after the overlaps MCSpotIndex names: a settle or a scrub that
\* books a tentative slot counts the key down for a slot that was never counted
\* (Met), and a write whose displaced slot goes with its retired segment before
\* the settle leaves the key counted twice (Behind).
KeysCounted == Quiet => paged + (IF Live(map) THEN 1 ELSE 0) = (IF Live(truth) THEN 1 ELSE 0)

\* What the index says at a quiet moment is the newest version published, or a
\* later write on its way, in a segment that stands: no hand-over, pass, prune or
\* scrub brings an older version back or loses the newest.  The overlaps
\* MCSpotIndex names are outside it: a repoint over a handed-over key brings an
\* older version back (Beside), a tentative slot of a later, unpublished write
\* refuses a write or lets a pass drop the newest version until that write
\* publishes (Met), and a pruned grave whose delete is still settling
\* uncovers the version it deletes (Behind).
IndexAgrees ==
  Quiet => /\ Answer(Get) \in {Answer(truth)} \union {Answer(e) : e \in {f \in Early : f.lsn > truth.lsn}}
           /\ Get # None => Standing(Get.seg)

=============================================================================
