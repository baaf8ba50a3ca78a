------------------------------ MODULE DirectIo ------------------------------
(***************************************************************************)
(* How one read or write moves its bytes (io/posix_backend.rs, io/direct.rs *)
(* and the staged ops of io/uring_backend.rs), over a kernel that may give  *)
(* or take less than it was asked to, or fail.  A direct descriptor takes   *)
(* whole blocks, so a direct op goes through an aligned stage: a read       *)
(* covers its range with blocks and cuts its window out of them, a write is *)
(* gathered and padded.  A byte is known by where it came from: a byte of   *)
(* the file by its offset, a byte to write by its place in the buffers.     *)
(***************************************************************************)
EXTENDS Integers, Sequences, FiniteSets, SequencesExt

CONSTANTS
  BLOCK,       \* DIRECT_ALIGN
  MaxIovecs,   \* buffers in one vectored call (MAX_IOVECS)
  StageBytes,  \* the widest device request, and the widest write of the ring (DIRECT_REQUEST_BYTES)
  Lengths,     \* lengths of the file
  Offsets, Heads, Bodies,   \* what a read asks for
  Writes       \* the buffers of a write, by length

VARIABLES
  op,          \* the op, and the door it takes
  file,        \* the file's bytes
  filled,      \* reading: the bytes that have landed in the buffer or the stage
  cursor, consumed, written,   \* writing: the write head
  answer       \* "none", "error", or what the caller is told

vars == <<op, file, filled, cursor, consumed, written, answer>>

\* A byte the file had, one to write (its buffer and place), a zero, a hole.
Old(at) == <<-1, at>>
Zero    == <<0, 0>>
Hole    == <<0, -1>>

AlignDown(n) == n - (n % BLOCK)
AlignUp(n)   == AlignDown(n + BLOCK - 1)

\* The block-aligned span around a byte range.
CoveringSpan(offset, len) == [start |-> AlignDown(offset), span |-> AlignUp(offset + len) - AlignDown(offset)]

Least(a, b) == IF a < b THEN a ELSE b

\* Faulty: the window starts where the stage does.
WantedWindowUnskipped(n, skip, wanted) == [from |-> 0, to |-> Least(n, wanted)]

\* The part of a covering read that holds the range, cut to what landed.
WantedWindow(n, skip, wanted) == [from |-> Least(n, skip), to |-> Least(n, skip + wanted)]

Total(bufs) == FoldLeft(LAMBDA n, len : n + len, 0, bufs)

\* Doors: "posix" and "ring" over the page cache, "direct" and "staged" past it.
Readers == [kind : {"read"}, door : {"posix", "ring", "direct", "staged"}, offset : Offsets,
            head : Heads, body : Bodies, split : BOOLEAN]
Writers == [kind : {"write"}, door : {"posix", "ring", "direct", "staged"}, offset : Offsets, bufs : Writes]

Wanted(o) == o.head + o.body
StagedSpan(o) ==
  IF o.kind = "write" THEN AlignUp(Total(o.bufs)) ELSE CoveringSpan(o.offset, Wanted(o)).span

\* A write of too many buffers, or of more than one device request, is not for
\* the ring.  Its cap on reads, what one call can move, is out of the bounds.
RingFile(o) == o.kind = "write" => Len(o.bufs) <= MaxIovecs /\ Total(o.bufs) <= StageBytes

\* An op the ring hands back falls to the posix door: one it has no file for,
\* or on a direct ring one that moves nothing, starts off a block or covers more
\* than one request.
RingTakes(o) ==
  /\ o.door \in {"ring", "staged"} => RingFile(o)
  /\ o.door = "staged" => /\ StagedSpan(o) \in 1 .. StageBytes
                          /\ o.kind = "write" => o.offset % BLOCK = 0

Init ==
  /\ op \in {o \in Readers : o.split \/ o.body = 0} \cup Writers
  /\ RingTakes(op)
  /\ \E n \in Lengths : file = [i \in 1 .. n |-> Old(i - 1)]
  /\ filled = <<>> /\ cursor = 1 /\ consumed = 0 /\ written = 0 /\ answer = "none"

IsDirect == op.door \in {"direct", "staged"}

-----------------------------------------------------------------------------
(* Reads.  A direct read asks for its covering span, another for its range. *)

Asked == IF IsDirect THEN CoveringSpan(op.offset, Wanted(op))
         ELSE [start |-> op.offset, span |-> Wanted(op)]

\* What the kernel may give from here: nothing at the end of the file, and a
\* stop inside a block only there when the descriptor is direct.
Given(at, want) ==
  LET most == Least(want, Len(file) - at) IN
  IF most <= 0 THEN {0}
  ELSE {n \in 1 .. most : IsDirect => n = most \/ (at + n) % BLOCK = 0}

Bytes(at, n) == [i \in 1 .. n |-> file[at + i]]

\* Once, or in a loop until the range is full, the file ends or, on a direct
\* descriptor, the read stops inside a block (pread_into, read_at).  A vectored
\* read and a ring's read are one call.
Once == op.door \in {"ring", "staged"} \/ (op.door = "posix" /\ op.split)

Cut ==
  LET skip == op.offset - Asked.start
      win  == WantedWindow(Len(filled), skip, Wanted(op)) IN
  IF IsDirect THEN SubSeq(filled, win.from + 1, win.to) ELSE filled

\* Head first, then body (cut_split_into, commit).
Split(bytes) == LET h == Least(Len(bytes), op.head) IN
  [head |-> SubSeq(bytes, 1, h), body |-> SubSeq(bytes, h + 1, Len(bytes)), count |-> Len(bytes)]

ReadCall ==
  /\ op.kind = "read" /\ answer = "none"
  /\ Wanted(op) > 0 /\ Len(filled) < Asked.span
  /\ \E n \in Given(Asked.start + Len(filled), Asked.span - Len(filled)) :
       LET now == filled \o Bytes(Asked.start + Len(filled), n) IN
       /\ filled' = now
       /\ answer' = IF Once \/ n = 0 \/ Len(now) = Asked.span \/ (IsDirect /\ Len(now) % BLOCK # 0)
                    THEN "landed" ELSE "none"
  /\ UNCHANGED <<op, file, cursor, consumed, written>>

ReadFails ==
  /\ op.kind = "read" /\ answer = "none" /\ Wanted(op) > 0
  /\ answer' = "error"
  /\ UNCHANGED <<op, file, filled, cursor, consumed, written>>

-----------------------------------------------------------------------------
(* Writes.                                                                  *)

\* Past the buffers with nothing left.
SkipSpent(c, k) ==
  LET left == {i \in c .. Len(op.bufs) : IF i = c THEN op.bufs[i] > k ELSE op.bufs[i] > 0} IN
  IF left = {} THEN [cursor |-> Len(op.bufs) + 1, consumed |-> 0]
  ELSE LET i == CHOOSE i \in left : \A j \in left : i <= j IN
       [cursor |-> i, consumed |-> IF i = c THEN k ELSE 0]

\* The bytes of a buffer from a place on; a byte is the buffer and the place.
Rest(i, k) == [b \in 1 .. op.bufs[i] - k |-> <<i, k + b>>]

\* The list for the next call, from the write head, as wide as one call takes.
RECURSIVE Gather(_, _, _)
Gather(i, k, room) ==
  IF i > Len(op.bufs) \/ room = 0 THEN <<>>
  ELSE Rest(i, k) \o Gather(i + 1, 0, IF Rest(i, k) = <<>> THEN room ELSE room - 1)

\* Faulty: a second short call inside one buffer forgets the first.
RECURSIVE AdvanceForgetting(_, _, _)
AdvanceForgetting(c, k, n) ==
  IF n = 0 \/ c > Len(op.bufs) THEN SkipSpent(c, k)
  ELSE IF n >= op.bufs[c] - k THEN AdvanceForgetting(c + 1, 0, n - (op.bufs[c] - k))
  ELSE SkipSpent(c, n)

\* The head after so many bytes.
RECURSIVE Advance(_, _, _)
Advance(c, k, n) ==
  IF n = 0 \/ c > Len(op.bufs) THEN SkipSpent(c, k)
  ELSE IF n >= op.bufs[c] - k THEN Advance(c + 1, 0, n - (op.bufs[c] - k))
  ELSE SkipSpent(c, k + n)

\* A direct write goes out of one aligned buffer, zeroed past the bytes.
Padded(bytes) == bytes \o [i \in 1 .. AlignUp(Len(bytes)) - Len(bytes) |-> Zero]
Stream ==
  LET all == Gather(SkipSpent(1, 0).cursor, 0, Len(op.bufs) + 1) IN
  IF IsDirect THEN Padded(all) ELSE all

\* What the next call offers the kernel, and what it leaves in the file.
Offered == IF IsDirect THEN SubSeq(Stream, written + 1, Len(Stream))
           ELSE LET h == SkipSpent(cursor, consumed) IN Gather(h.cursor, h.consumed, MaxIovecs)
Laid(at, bytes) ==
  [i \in 1 .. (IF at + Len(bytes) > Len(file) THEN at + Len(bytes) ELSE Len(file)) |->
     IF i > at /\ i <= at + Len(bytes) THEN bytes[i - at] ELSE IF i <= Len(file) THEN file[i] ELSE Hole]

Unaligned == op.door = "direct" /\ Total(op.bufs) > 0 /\ op.offset % BLOCK # 0

WriteCall ==
  /\ op.kind = "write" /\ answer = "none" /\ ~ Unaligned /\ Offered # <<>>
  /\ \E n \in {k \in 1 .. Len(Offered) : IsDirect => k % BLOCK = 0} :
       LET h == Advance(cursor, consumed, n) IN
       /\ file' = Laid(op.offset + written, SubSeq(Offered, 1, n))
       /\ written' = written + n
       /\ IF IsDirect THEN UNCHANGED <<cursor, consumed>>
          ELSE cursor' = h.cursor /\ consumed' = h.consumed
  /\ answer' = IF op.door \in {"ring", "staged"} THEN "landed" ELSE "none"
  /\ UNCHANGED <<op, filled>>

\* Everything is out; the padding is not reported.
WriteDone ==
  /\ op.kind = "write" /\ answer = "none" /\ ~ Unaligned /\ Offered = <<>>
  /\ answer' = "landed"
  /\ UNCHANGED <<op, file, filled, cursor, consumed, written>>

WriteFails ==
  /\ op.kind = "write" /\ answer = "none" /\ (Unaligned \/ Offered # <<>>)
  /\ answer' = "error"
  /\ UNCHANGED <<op, file, filled, cursor, consumed, written>>

ReadNothing ==
  /\ op.kind = "read" /\ answer = "none" /\ Wanted(op) = 0
  /\ answer' = "landed"
  /\ UNCHANGED <<op, file, filled, cursor, consumed, written>>

Next == ReadCall \/ ReadFails \/ ReadNothing \/ WriteCall \/ WriteDone \/ WriteFails
Spec == Init /\ [][Next]_vars

-----------------------------------------------------------------------------
\* What the file holds of the range that was asked for.
InRange == [i \in 1 .. (IF Least(op.offset + Wanted(op), Len(file)) > op.offset
                      THEN Least(op.offset + Wanted(op), Len(file)) - op.offset ELSE 0) |-> Old(op.offset + i - 1)]

\* A read gives the bytes of its own range, in order and header first, whatever
\* the blocks around it and however often the kernel stops short: all the file
\* has of them, or a leading part where one call is all there is (pread_into,
\* read_covering, Pending::complete).
ReadsRange ==
  op.kind = "read" /\ answer = "landed" =>
    LET got == Split(Cut) IN
    /\ got.head \o got.body = SubSeq(InRange, 1, got.count)
    /\ got.body # <<>> => Len(got.head) = op.head
    /\ ~ Once => got.count = Len(InRange)
    /\ got.head = <<>> \/ Len(got.head) <= op.head

\* A write that is answered whole has laid its buffers end to end from its
\* offset and nothing else but the padding of a direct one, however the calls
\* were cut; a short or failed one has laid a leading part (pwritev_all_into,
\* direct_writev, StagedWrite).
WritesStream ==
  op.kind = "write" =>
    LET whole == Stream IN
    /\ \A i \in DOMAIN file :
         file[i] = IF i > op.offset /\ i <= op.offset + written THEN whole[i - op.offset]
                   ELSE IF file[i] = Hole THEN Hole ELSE Old(i - 1)
    /\ answer = "landed" /\ op.door \in {"posix", "direct"} => written = Len(whole)
=============================================================================
