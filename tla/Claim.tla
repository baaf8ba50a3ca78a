------------------------------- MODULE Claim -------------------------------
(***************************************************************************)
(* How writers share the bytes of one active segment (claim_filled and the  *)
(* room check of place and place_run in append/mod.rs, the journal's length *)
(* in append/journal.rs).  A writer claims a range by compare-exchange,     *)
(* laying zeros down first when it would pass the filled edge, then asks    *)
(* whether the range fits the room the journal leaves, and writes or gives  *)
(* it up.  All of it runs under the shared lock; Roll, under the exclusive  *)
(* one, cuts the segment and starts a fresh one.  Sizes are in bytes.       *)
(***************************************************************************)
EXTENDS Integers, FiniteSets

CONSTANTS
  Writers,
  Kinds,     \* what a write is: [span |-> bytes in the segment, row |-> bytes in the journal]
  HEADER,    \* header_span: a block on a whole-block volume
  Target,    \* segment_bytes
  ALIGN,     \* block size of the volume
  Window,    \* fill_window
  Pad        \* BLOCK on a whole-block volume, 1 elsewhere: what a journal write rounds up to

UNCUT == Target * 2 + 1      \* u64::MAX

ASSUME KindsAssumption == Kinds # {} /\ Kinds \subseteq [span : Nat \ {0}, row : Nat]
ASSUME SizesAssumption ==
  /\ HEADER \in Nat /\ Target \in Nat /\ Window \in Nat \ {0}
  /\ ALIGN \in Nat \ {0} /\ Pad \in Nat \ {0}
  /\ HEADER <= ALIGN /\ 0 < Target      \* the header fits one block

VARIABLES
  reserved, cut, filled,   \* Active: its head, its cut and its filled edge (alloc_high)
  records,   \* the ranges written, [base, span]
  pushed,    \* Journal.pushed
  pending,   \* bytes of rows not yet handed to a write
  taken,     \* bytes of rows in the write that holds the journal, padding left out
  written,   \* Written.bytes: where the next journal write starts, from rows_at, a block
  lost,      \* Written.lost: a failed write kept its rows
  writer     \* each writer's place: see Writer

vars == <<reserved, cut, filled, records, pushed, pending, taken, written, lost, writer>>

\* kind is what it writes, seen the reservation head it read, from and to the
\* window it is zeroing, base its claim.
Idle == [pc |-> "idle", kind |-> CHOOSE k \in Kinds : TRUE, seen |-> 0, from |-> 0, to |-> 0, base |-> 0]

Min2(a, b) == IF a < b THEN a ELSE b
Max2(a, b) == IF a > b THEN a ELSE b
AlignUp(n, to) == ((n + to - 1) \div to) * to

\* Active::end and Active::room
End  == Min2(cut, reserved)
Room == Max2(0, Target - pushed)

\* Whether nobody holds the tail's lock shared
IsFree == \A w \in Writers : writer[w].pc \in {"idle", "roll"}

\* Where open_window's zeros end in a fresh segment
OpenWindow == AlignUp(Min2(Window, Target), ALIGN)

Init ==
  /\ reserved = HEADER /\ cut = UNCUT /\ filled = OpenWindow
  /\ records = {}
  /\ pushed = 0 /\ pending = 0 /\ taken = 0 /\ written = 0 /\ lost = FALSE
  /\ writer = [w \in Writers |-> Idle]

-----------------------------------------------------------------------------

\* place turns away a record no fresh segment could hold, and takes the lock.
Start(w) ==
  /\ writer[w].pc = "idle"
  /\ \E k \in Kinds :
       /\ HEADER + k.span + ALIGN <= Target
       /\ writer' = [writer EXCEPT ![w] = [Idle EXCEPT !.pc = "look", !.kind = k]]
  /\ UNCHANGED <<reserved, cut, filled, records, pushed, pending, taken, written, lost>>

\* Whether a claim from this head would pass the filled edge
WantsFill(w, head) == head + writer[w].kind.span > filled /\ filled < Target

Look(w) ==
  /\ writer[w].pc = "look"
  /\ writer' = [writer EXCEPT ![w].pc = IF WantsFill(w, reserved) THEN "lock" ELSE "swap",
                              ![w].seen = reserved]
  /\ UNCHANGED <<reserved, cut, filled, records, pushed, pending, taken, written, lost>>

\* Faulty: the edge is not read again under the lock.
FillStartStale(w) ==
  /\ writer[w].pc = "lock"
  /\ writer' = [writer EXCEPT ![w].pc = "fill", ![w].from = writer[w].seen,
                  ![w].to = AlignUp(Min2(writer[w].seen + Max2(Window, writer[w].kind.span), Target), ALIGN)]
  /\ UNCHANGED <<reserved, cut, filled, records, pushed, pending, taken, written, lost>>

\* One claimer lays the next window; who held the lock first may have done it.
FillStart(w) ==
  /\ writer[w].pc = "lock"
  /\ \A v \in Writers : writer[v].pc # "fill"
  /\ writer' = IF WantsFill(w, writer[w].seen)
       THEN [writer EXCEPT ![w].pc = "fill", ![w].from = filled,
               ![w].to = AlignUp(Min2(filled + Max2(Window, writer[w].kind.span), Target), ALIGN)]
       ELSE [writer EXCEPT ![w].pc = "look"]
  /\ UNCHANGED <<reserved, cut, filled, records, pushed, pending, taken, written, lost>>

\* The zeros are down, or could not be and the edge moves to this claim's end.
FillEnd(w) ==
  /\ writer[w].pc = "fill"
  /\ \E edge \in {writer[w].to, writer[w].seen + writer[w].kind.span} :
       filled' = Max2(filled, edge)
  /\ writer' = [writer EXCEPT ![w].pc = "look", ![w].from = 0, ![w].to = 0]
  /\ UNCHANGED <<reserved, cut, records, pushed, pending, taken, written, lost>>

\* Faulty: the head is stored, not compared.
SwapBlind(w) ==
  /\ writer[w].pc = "swap"
  /\ reserved' = writer[w].seen + writer[w].kind.span
  /\ writer' = [writer EXCEPT ![w].pc = "claimed", ![w].base = writer[w].seen, ![w].seen = 0]
  /\ UNCHANGED <<cut, filled, records, pushed, pending, taken, written, lost>>

\* compare_exchange on the reservation head
Swap(w) ==
  /\ writer[w].pc = "swap"
  /\ IF reserved = writer[w].seen
       THEN /\ reserved' = reserved + writer[w].kind.span
            /\ writer' = [writer EXCEPT ![w].pc = "claimed", ![w].base = reserved, ![w].seen = 0]
       ELSE /\ writer' = [writer EXCEPT ![w].pc = "look"]
            /\ UNCHANGED reserved
  /\ UNCHANGED <<cut, filled, records, pushed, pending, taken, written, lost>>

Fits(w) == writer[w].base + writer[w].kind.span + ALIGN <= Room

\* The room is read after the claim: journal rows pushed meanwhile count.
Check(w) ==
  /\ writer[w].pc = "claimed"
  /\ IF Fits(w)
       THEN /\ writer' = [writer EXCEPT ![w].pc = "write"]
            /\ UNCHANGED cut
       ELSE /\ cut' = Min2(cut, writer[w].base)
            /\ writer' = [writer EXCEPT ![w] = [Idle EXCEPT !.pc = "roll", !.kind = writer[w].kind]]
  /\ UNCHANGED <<reserved, filled, records, pushed, pending, taken, written, lost>>

\* write_record: the bytes are down and the row pushed, or the write failed.
Write(w) ==
  LET k == writer[w].kind
  IN  /\ writer[w].pc = "write"
      /\ \/ /\ records' = records \cup {[base |-> writer[w].base, span |-> k.span]}
            /\ pushed' = pushed + k.row
            /\ pending' = pending + k.row
         \/ UNCHANGED <<records, pushed, pending>>
      /\ writer' = [writer EXCEPT ![w] = Idle]
      /\ UNCHANGED <<reserved, cut, filled, taken, written, lost>>

-----------------------------------------------------------------------------
(* write_locked: rows are padded out to a block and written where the last  *)
(* write ended, or given back unpadded when the write fails.                *)

Padding(rows) == AlignUp(rows, Pad) - rows

RowsTake ==
  /\ taken = 0 /\ pending > 0 /\ ~ lost
  /\ taken' = pending
  /\ pending' = 0
  /\ pushed' = pushed + Padding(pending)
  /\ UNCHANGED <<reserved, cut, filled, records, written, lost, writer>>

RowsDown ==
  /\ taken > 0
  /\ written' = written + AlignUp(taken, Pad)
  /\ taken' = 0
  /\ UNCHANGED <<reserved, cut, filled, records, pushed, pending, lost, writer>>

\* Faulty: the padding stays counted.
RowsBackPadded ==
  /\ taken > 0
  /\ pending' = taken + pending
  /\ taken' = 0
  /\ UNCHANGED <<reserved, cut, filled, records, pushed, written, lost, writer>>

\* put_back: the next write starts at written again.
RowsBack ==
  /\ taken > 0
  /\ pushed' = pushed - Padding(taken)
  /\ pending' = taken + pending
  /\ taken' = 0
  /\ UNCHANGED <<reserved, cut, filled, records, written, lost, writer>>

\* The driver failed and kept the buffer: the rows are gone, and no write follows.
RowsLost ==
  /\ taken > 0
  /\ taken' = 0
  /\ lost' = TRUE
  /\ UNCHANGED <<reserved, cut, filled, records, pushed, pending, written, writer>>

\* roll_from: the segment is cut at its end and a fresh one takes its place; a
\* writer that gave up, this segment's or a later one's, goes round.
Roll ==
  /\ IsFree
  /\ \E w \in Writers : writer[w].pc = "roll"
  /\ reserved' = HEADER /\ cut' = UNCUT /\ filled' = OpenWindow
  /\ records' = {}
  /\ pushed' = 0 /\ pending' = 0 /\ taken' = 0 /\ written' = 0 /\ lost' = FALSE
  /\ writer' = [w \in Writers |->
       IF writer[w].pc = "roll" THEN [Idle EXCEPT !.pc = "look", !.kind = writer[w].kind] ELSE writer[w]]

Next ==
  \/ \E w \in Writers :
       Start(w) \/ Look(w) \/ FillStart(w) \/ FillEnd(w) \/ Swap(w) \/ Check(w) \/ Write(w)
  \/ RowsTake \/ RowsDown \/ RowsBack \/ RowsLost \/ Roll

Spec == Init /\ [][Next]_vars

-----------------------------------------------------------------------------
(* Properties.                                                             *)

Holding(w) == writer[w].pc \in {"claimed", "write"}
Claimed(w) == [base |-> writer[w].base, span |-> writer[w].kind.span]
Apart(r, t) == r.base + r.span <= t.base \/ t.base + t.span <= r.base

\* Two writers never write over each other: the ranges claim_filled handed out on
\* this segment, in flight or landed, are pairwise apart.
ClaimsApart ==
  /\ \A v, w \in Writers : v # w /\ Holding(v) /\ Holding(w) => Apart(Claimed(v), Claimed(w))
  /\ \A w \in Writers, r \in records : Holding(w) => Apart(Claimed(w), r)
  /\ \A r, t \in records : r = t \/ Apart(r, t)

\* The zeros claim_filled lays down ahead never touch a range somebody holds or
\* has written, though they are written while other claimers go on.
ZerosMissRecords ==
  \A w \in Writers : writer[w].pc = "fill" =>
    /\ \A v \in Writers : Holding(v) => writer[v].base + writer[v].kind.span <= writer[w].from
    /\ \A r \in records : r.base + r.span <= writer[w].from

\* The room the journal takes from the records (Journal::len) is that of the rows
\* written, in a write and waiting, each write padded out once, however often a
\* write fails and gives its rows back; rows that were lost stay counted.  On a
\* whole-block volume every write, the ones after a failure included, starts on a
\* block.
RowsAddUp ==
  LET held == written + AlignUp(taken, Pad) + pending
  IN  /\ IF lost THEN pushed >= held ELSE pushed = held
      /\ written % Pad = 0

\* "The reservation ran past the segment, so the seal cuts below it": once nobody
\* holds the lock shared, whatever landed is below where the seal cuts.
CutSparesRecords == IsFree => \A r \in records : r.base + r.span <= End
=============================================================================
