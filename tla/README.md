# A TLA+ model of reel

reel is a log-structured key-value engine. Writers append records to tails, a
tail rolls through segments, a sealer thread closes them with a footer, an index
points at the newest record of each key, and compaction rewrites what is still
live and retires the rest. This directory models the concurrent parts of it,
checks them with TLC on small instances, and proves the safety of four of them
with TLAPS for every instance. Source paths below are under `src/crates/reel/src`
unless they say otherwise.

## The system

| Part | State | Operations | Modules |
|---|---|---|---|
| Draw gauge (`reel/drawn.rs`) | an epoch, three counters, three starts, the sequence counter | `enter`, the draw, `leave`, `floor` | Drawn |
| Append tail (`append/mod.rs`, `append/flush.rs`, `append/journal.rs`) | the active segment, its reservation head, settled count, cut, journal rows, watermark and flush gate | `place`, `place_run`, `roll_from`, `flush`, `sync_if_owed`, `owed_turn`, `seal`, `finish`, `close` | AppendTail, Claim |
| Sealer (`append/sealer.rs`, `reel/mod.rs`) | a channel of jobs, parked seals, the past-saving count | seal, forwarded flush, park, the tick's retry | AppendTail |
| Publish barrier (`append/publish.rs`) | a fair queue, two counts, groups of batches | `publishing`, `publish_grouped`, `reading`, `reading_all` | PublishBarrier |
| In-flight budget (`append/admission.rs`, `sync/tension.rs`) | bytes in flight, a throttled ceiling, a waitlist of threads and wakers | acquire, reserve, release, throttle, slack | InflightBudget |
| Compaction (`compaction/compactor.rs`), and what a rebuild keeps (`index/recovery.rs`) | segment states, floors, passes, the files | claim, floor, copy, repoint, carry or drop, flush, forget, doom, crash | Compaction |
| Index tier (`index/map.rs`, `index/column.rs`, `index/spot.rs`) | the map of unsealed keys and graves, spot slots into sealed segments, footers, counts | publish, settle, hand-over, repoint, prune, scrub, get | SpotIndex |
| Completion slots (`io/slots.rs`, `reel/segment.rs`) | a table of tagged slots, claims, orphans | claim, submit, file, await, drop, pump | IoSlots |
| io_uring backend (`io/uring_backend.rs`) | a slab of ops, two queues, registered files and buffers; an inbox, an eventfd | batch, queue, poll; hand over, kick, park, serve, stop | UringRing, UringCaller, UringEngine |
| Posix and direct I/O (`io/posix_backend.rs`, `io/direct.rs`) | a file's bytes, an aligned stage | covering reads, staged and vectored writes | DirectIo |

A write goes draw gauge → budget → tail (claim, write, journal row) → sync if owed
→ publish barrier → map → settle of the versions it displaced → gauge out. A read
goes barrier → map → spot slots → footers → record, and starts over when something
moved. Both reach the device through the slots and a backend. The maintenance tick
retries parked seals, hands sealed segments' keys from the map to the spot index,
prunes graves below the gauge's floor, and runs compaction passes, which write
through a tail like any other writer.

What is hard to get right here is almost all in the gaps between locks: a value
read under one lock and used under another, a flush that looks between a swap and
a hand-over, a key that is in two tiers or in none, a file that outlives its
segment, a wake that comes before the sleep, an I/O error in the middle of any of
it, and power loss at any moment. `PROJECT.json` lists these hazards at their lines.

## Modules

Each module has the state of one part as variables and one action per atomic
access, lock section or device call. `MC*` modules add named bounds, and
`*Proofs` modules hold inductive invariants, lemmas and theorems. Operators marked "Faulty" are variants of an
action with a plausible mistake in it. They are used by no specification: each is
there to show that a property fails when the mistake is made.

**Drawn** (`reel/drawn.rs`, `format/lsn.rs`). `enter` is four actions: load the
epoch, add to the slot's counter, look at the epoch again, undo. `floor` is its
loop, one action per access: look at the slot before, read the counter into the
slot after, store the next epoch, answer. A counter is kept per writer, so that
who is counted where can be stated; its sum is the code's atomic.

**AppendTail** (`append/`). A record is a position, one unit wide, and a segment
takes records below `Cap`. The shared lock is held from a claim to its landing,
and what runs under the exclusive lock is one action. A segment's record has the
fields of `Active`, `SyncState` and `Flush`; `disk` is what a power cut leaves
readable. A flush is five steps (take the turn, capture the end, write the rows, sync
the device, publish the watermark) that a caller or the sealer runs. A call's `due`
is the set of records its ok answer has to find on the device. Every I/O step may
fail.

**Claim** (`claim_filled`, the room check of `place`, `append/journal.rs`).
The same segment at the grain of bytes: the load of the head, the fill lock, the
window of zeros, the compare-exchange, the test against the room the journal
leaves, the write with its row, and journal writes padded to a block. AppendTail
and Claim are two views of one tail: AppendTail has the order of locks, flushes and
seals, Claim has widths.

**PublishBarrier** (`append/publish.rs`). The queue with its unpark tokens,
leaders and followers, and the optimistic fill of a whole read between two
looks at the counts. The index is a batch number per key.

**InflightBudget** (`append/admission.rs`, `sync/tension.rs`). Every access to
`in_flight`, the ceiling and `waiting` is an action, and so is each section under
the gate. Pollers are futures: they take a seat, are rung, polled again or dropped.

**Compaction** (`compaction/compactor.rs`, what a rebuild keeps). The records of
one key through any number of passes: the two reads of the drop floor, copies,
repoint, carried and dropped tombstones, the flush of every tail, forget and doom,
with readers that keep a doomed file open. A roll swaps a segment out in one step and
hands it to the sealer in another. The flush goes tail by tail: it waits for the
segments the sealer has been handed, then syncs the tail's open segment. A segment
that is swapped out and not handed over is seen by neither and goes into `missed`. A
crash keeps every synced record and any part of the others, and rebuilds.

**SpotIndex** (`index/map.rs`, `index/column.rs`, `index/spot.rs`,
`engine/read.rs`). One key in the map, in the spot index and in the footers: publish and
its refusal of an older write, the two steps of a settle, seal, hand-over, a
compaction pass that brings the key back to the map, graves and their
pruning, and a read's walk with its restarts. A pass's copies go to the
tail writers use. Compaction and SpotIndex are also two views: the first has
crashes and files and an index that is just the newest version, the second has
how the index answers.

**IoSlots** (`io/slots.rs`, `reel/segment.rs`). The table a completion is filed in
by its tag, whose low bits pick the slot; futures that claim, submit, await or are
dropped at any of these; blocking threads that claim a run and pump; an engine or a
polling caller that files. One action is one lock section. The condition variable
only shortens a wait that looks again by itself and is left out.

**UringRing, UringCaller, UringEngine** (`io/uring_backend.rs`). UringRing is one
ring as operators on a record: ops in a slab by slot and generation, the two
queues, registered files and buffers, an enter that may be refused, cut short or
busy. UringCaller is a thread with its own ring, running a batch in order or
queueing and polling; UringEngine is the thread that serves one ring for others,
with its inbox, the eventfd and the multishot poll that wakes it.

**DirectIo** (`io/posix_backend.rs`, `io/direct.rs`, the staged ops of
`io/uring_backend.rs`). One op over a kernel that gives or takes less than it was
asked: covering blocks, the cut of a read's window, the gathering and padding of a
write. A byte is known by where it came from.

## Runs

| Run | Checks | Shows |
|---|---|---|
| `tail` | `TypeOK`, `PutsHold`, `WatermarkHolds`, `NothingInFlight`, `FlushHolds` | puts that owed a sync, and flushes, answer ok only over what is on the device, with one I/O error anywhere; `FlushHolds` leaves out the window `tail_asks` shows |
| `tail_asks` | `AsksCoverRolled`, violated | a flush between a roll's swap and its hand-over answers ok over records nobody synced |
| `claim` | `ClaimsApart`, `ZerosMissRecords`, `RowsAddUp` | claims never overlap, zeros never fall on a record, and the journal's length is what is written, in flight and waiting, to the block, however often a write fails and gives its rows back |
| `claim_cut` | `CutSparesRecords`, violated | a claim refused after a later one landed cuts the segment below the record that landed |
| `compaction` | `TypeOK`, `RebuildAgrees`, `EntryStands` | with one pass at a time, a crash that keeps the segments a flush passed over rebuilds the last version acknowledged and synced, or a later one; the index never points into a retired segment |
| `compaction_doomed` | `FilesAgree`, violated | a tombstone is dropped while a doomed file still holds the record it hides |
| `compaction_passes` | `EntryStands`, violated | of two passes at once, one retires the segment the other's copies are in before the index is repointed at them |
| `spot` | `TypeOK`, `KeysCounted`, `IndexAgrees`, `ReadsCurrent` | outside the overlaps named below, the index keeps the newest version, counts its key once, and reads answer a version that was current while they ran |
| `spot_repoint` | `IndexAgrees`, violated | a repoint brings an older version back over a newer one that was handed over meanwhile |
| `io` | budget: `BudgetHolds`, `SleepersAreOwed`, `WaitingCounts`; publish queue: `ReadsWhole`, `MovesHoldBarrier`; slots: `OwnAnswer`, `NoSlotLost`; a thread's ring: `BatchInOrder`, `RingAccounted`, `RightFile`, `WaitsForSomething`; one op: `ReadsRange`, `WritesStream` | the safety of what lies under a read or a write |
| `waits` | gauge: `TypeOK`, `FloorHolds`, `NothingLeftBehind`, `FloorAdvances`; tail: `OneFlush`, `StrandedIsCounted`; engine: `SleepsWithCause`, `StopsClean`; all parts: `WaitsEnd` | everything that waits ends: batches and whole reads, puts, syncs and seals, futures over the slots, ops handed to the engine, the floor |
| `engine` | `HandedIsAnswered`, violated | the engine parks over a completion its own flush drained after a busy kernel |

`MCIo` and `MCWaits` put several parts in one module. They share no state, so a
behaviour picks one part at its start and the others stand still: the states are the
sum of the parts' states and not their product, and each part is explored as if alone.

The six violated properties state what a document or a comment of the repository
says; `PROJECT.json` quotes the line in its findings.

### Bounds, and why they are enough

- `tail`, `tail_asks`: two callers, two segments of one position each, one I/O error
  (none in `tail_asks`). One caller rolls while another flushes, waits or seals, and
  the second segment is there for the record that did not fit. `Menus` gives a
  behaviour the calls it may mix; `MaxReserved` stops new calls once the last segment
  is full.
- `claim`: three writers and records of one and two blocks. Two race for the head and
  the third zeroes. A segment holds at most `Target` bytes, so nothing else is bounded.
  `claim_cut` has a plain volume, where a row can be longer than its record.
- `compaction`: two writers, two tails, one pass at a time, one reader and four segments.
  Up to three numbers are drawn (`MaxLsn`): a put, a delete and a put again. Three of
  them come with no fault and with a segment to spare; two of them (`FullLsn`) come with
  every segment in use or with one fault, which is a failed write, a pass given up or
  a crash (`MaxFaults`). A reader holds a file only while one number is drawn
  (`ReadLsn`); `compaction_doomed` has it with two. Two tails are what makes a flush pass
  one while the other rolls. With a fault, or past `FullLsn`, writes go one at a time.
  `Midway` drops crashes and given-up passes that lead nowhere new: with no second copy
  and no doomed file, the volume left is one a shorter behaviour leaves.
  `compaction_passes` has three tails, which is what makes `compact_passes` two
  (`config.rs`), five segments and one record.
- `spot`: two writers and a reader make three calls over three segments. `SettleAt` and
  `GraveWindow` are 2 and 1 so that settles and prunes happen.
- `io`, budget: two parking threads and one future, records of one and two bytes under
  a ceiling of two that may be squeezed to one; no other bounds. Publish queue: three
  threads, two batches and two keys: a leader, a follower and a reader. Slots: two
  futures and a blocking caller over two slots and four tags, so that two tags share a
  slot. Ring: two calls of up to two ops on two files over one submission slot, two
  completion slots, one registered file and one refused enter, so that a batch is wider
  than the ring and the file table is given up under way. One op: blocks of two bytes,
  files of up to five, every offset within two blocks, buffers that are empty, that
  straddle blocks and that are more than one vectored call takes.
- `waits`, smaller, since TLC checks liveness over the whole graph. Gauge: two writers and
  one number, so the floor is asked to pass a number held while the other writer enters,
  fails or leaves. Publish queue: three threads, two keys and one batch, so there is a
  leader and no follower. Tail: two calls over two segments of one record each, from one of two
  menus: batches, awaited and without I/O errors; or durable puts and `seal`, with one I/O
  error. `flush`, `batchDurable` and a forwarded flush that fails are not in it. Slots: two
  futures over two slots and three tags, with submissions that succeed. Engine: two ops,
  with enters that do not fail and a kernel that is never busy.
- `engine`: two callers of one op each over one submission slot and two completion slots,
  with a kernel that may answer an enter with busy.

Symmetry is over writers, callers or futures and only in runs without temporal
properties. Deadlock is not checked where the bounds end a behaviour (`tail`,
`tail_asks`, `spot`, `spot_repoint`, `compaction_passes`, `waits`, `engine`); in `io` a
behaviour may end only where `AtRest` says that no call is under way.

The code does not keep the properties of `spot` in every interleaving. What is left out is
named, in two places. `MCSpotIndex` has three bounds; each, when `FALSE`, forbids the step
that completes an overlap, and TLC finds a property violated when it is `TRUE`:

- `Beside`: a hand-over takes the key out of the map between a pass's look at it and its
  repoint, or the segment it hands over is retired meanwhile. `spot_repoint` shows it.
- `Met`: a hand-over gives a slot to a row before asking the map whether that is the
  version it holds (`insert_lane` before the ask). Until it is taken back, this tentative
  slot refuses a write, is booked by a settle or a scrub, or answers a pass.
  The slots themselves are in the run, and reads meet them.
- `Behind`: a live slot of a retired segment goes while a write has still to settle what it
  displaced, so the key stays counted; or a grave goes while its own delete is settling. In
  the code a grave outlives `GRAVE_WINDOW` = 2^20 writes, so that half is remote.

`ReadsCurrent` itself leaves out two kinds of read (the `under` flag of a reader), because
`spot_finish` and `get` return a hit without asking whether a slot left the shard: one under
which a segment retired while it had a displaced version to settle, and one that met a
tentative slot. Either may answer an older version.

`NoSlotLost` allows one slot to be lost. A submission whose kick failed is reported failed
while the engine has the op; if the engine answers before `release_run`, which frees slots
in flight only (`slots.rs:204`), the landed slot has no taker (`Stranded`). `RowsAddUp`
allows the journal to be longer than its rows after a write whose rows were lost, for the
code takes nothing off then.

### Fairness

`WaitsEnd` assumes weak fairness of each thread's own steps: a thread that can run is
scheduled, and the standard library's locks let one through. Nothing makes a new call
begin, no I/O step is assumed to succeed, and a future may be dropped at any time. The tail also needs
the sealer's loop and the maintenance tick to go on running, as their threads do while
the store is open, and the gauge the tick's repeated calls of `floor`. For the slots and
the rings, the device answers every op it was given and the thread that files goes on
filing. There is one strong fairness, on `TakeTurn` of IoSlots: a batch that waits for the
`batching` lock while others take and release it gets it in the end. That lock is a
mutex of the standard library, which promises no order; the assumption is that a thread blocked on it is not
passed over for ever. `engine` has the weak fairness of the engine, the kernel and the callers'
kicks. A caller waiting for the tail's exclusive lock gets it: with the bounded calls of the
run, the shared holders run out.

## Proofs

The proofs hold for every value of the constants: any number of writers, futures and
threads, any sizes, and no bound on numbers, batches or failures.
Each is an inductive invariant, found by asking why the property is kept, and proved
action by action. The assumptions are the
named `ASSUME`s of the modules and the hypotheses a theorem states.

**Draw gauge** (`DrawnProofs`; assumption: a batch counts at least one record).
`FloorNeverPassesHeld` is `Spec => []FloorHolds`, `FloorNeverFalls` is
`Spec => FloorAdvances`, and `GaugeKeepsShape` and `SlotsEmptyOut` are the type
invariant and `NothingLeftBehind`. `FloorHolds` is not inductive. `GaugeInv` adds that a
counted writer's count is in the slot of the epoch it saw and nowhere else, that this
epoch is the current one or the one before (only the current one once the floor has seen
the slot before empty), that the starts of consecutive epochs are in order, and that a
number was drawn after the start of its writer's epoch. Then the answer, which trails the
start of the epoch before, is below every held number.

**Byte claims** (`ClaimProofs`; assumptions: sizes are natural numbers and the header
fits a block). `ClaimsNeverOverlap`, `ZerosNeverOnRecords` and `RowsAlwaysAddUp`
are the three properties of `claim`. `ClaimInv` adds that every range lies below the head,
that the head lies within the zeros while there is more to zero (and a claimer about to
swap has made sure its own end does), and that one claimer at a time zeroes, from the
edge. A claimer that swaps takes the range from the head on, so it is apart from all
below it; a window starts at the edge, above the head, so it holds no claim. `JournalInv` is `RowsAddUp`
with the types of its terms, and is inductive by the arithmetic of padding: `put_back` takes off
the padding that `write_locked` added for the same rows.

**In-flight budget** (`BudgetProofs`; assumptions: records have a size, the throttles are
within the ceiling, threads, futures and the tick are apart). `BudgetIsHeld`,
`WaitersAreCounted` and `NoWakeIsLost` are `BudgetHolds`, `WaitingCounts` and
`SleepersAreOwed`. `BudgetInv` says where a waiter stands with the gate, the count and its
seat, and, the heart of it, that room made after a waiter's last load of the gauge has a
waker that has not been through the gate since (`RoomWakes`): a waiter that sleeps over
room it could take has somebody on the way.

**Publish barrier** (`PublishProofs`; hypothesis: `NoOne` is no thread). `ReadsAreWhole`
and `MovesAreHeld` are `ReadsWhole` and `MovesHoldBarrier`, for any threads, keys and
number of batches. `PublishInv` says who is inside the queue, what a group's members have
to do with its leader, that the two counts differ exactly while a batch may move
(`Counts`), that a key behind another is one some batch inside has still to move
(`Raised`), and that a fill has what the index holds unless a batch started since
(`Reading`). A read that finds the counts as they were saw no batch halfway.

Only model-checked: liveness (`WaitsEnd`), which is out of the prover's reach; the append
tail and compaction; `SpotIndex`, whose properties hold only outside the overlaps above; the
slots and the rings; and one op's calls, whose operators are recursive.

## What is left out

- Compaction follows one key. The dead bytes that make a segment worth a pass
  are other keys', so a pass may pick any sealed segment. Records of
  writes that returned an error (`stray`) are exempt from `RebuildAgrees`, since nothing says
  what a rebuild finds of them, and files doomed and still open are exempt
  there and the subject of `FilesAgree`. Tiered volumes and their leased tails,
  range covers, key runs, rot, scrub and erase are not there. Segments a flush passed over
  are exempt from `RebuildAgrees`: a crash that loses one loses acknowledged
  records, which is what `tail_asks` shows of the tail.
- SpotIndex has no failing I/O, no crashes, no range deletes and no hash shared by
  two keys, and the retry limits (`RESOLVE_RETRIES`, `LOOKUP_TRIES`) are not reached
  within the bounds.
- AppendTail has no spare segment, no volumes and no sealer that failed to start.
  `past_saving` may stay too high after a late flush of a parked segment
  (`sealer.rs:127`); the model has the behaviour and `StrandedIsCounted` the
  direction callers rely on.
- DirectIo leaves out the ring's cap on the span of a read (`RING_SPAN_CAP`), which its
  reads stay below.
- The slots take a batch's tags to address different slots. The rings leave out set-up and
  teardown, the counters and the spin before a sleep; `SleepsWithCause` and `RightFile`
  speak of rings whose enters have not failed.
- The parts are not composed: a put's way through gauge, budget, tail, barrier and index is
  checked part by part, each against every behaviour of its callers.
- Not modelled at all: cue points, checkpoints, the follower, journal groups and torn tails
  in a rebuild, scrub and erase, key runs, ownership, codecs, caches, ordered maps and
  filters, pace and pressure, volumes, the command line and the in-memory mock, for the
  reasons `PROJECT.json` gives.
