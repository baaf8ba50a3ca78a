----------------------------- MODULE UringRing -----------------------------
(***************************************************************************)
(* One io_uring ring and the ops in flight on it (io/uring_backend.rs), as  *)
(* operators on a record: the slab of ops keyed by slot and generation, the *)
(* two queues shared with the kernel, the table of registered files, the    *)
(* pool of registered buffers and the completions taken off the ring and    *)
(* not yet handed out.  A ring belongs to one thread, a caller of           *)
(* UringCaller or the engine of UringEngine; only the kernel moves beside   *)
(* it.  An op is a record with the file it is for.                          *)
(***************************************************************************)
EXTENDS Integers, Sequences, FiniteSets, SequencesExt

CONSTANTS
  SqSize,      \* submission slots (RING_ENTRIES)
  CqSize,      \* completion slots, and so the slab's width
  PoolSize,    \* registered buffers; zero on a volume that is not direct
  TableSize,   \* registered files (MAX_REGISTERED_FILES)
  Busy,        \* whether the kernel may refuse an enter until it is drained
  NoOp

Unordered == 0
Vacant    == [gen |-> 0, order |-> Unordered, op |-> NoOp]

\* queued: what to answer if the enter fails; sq: what the kernel takes when
\* one works, which a failed enter leaves where it is; table: the file in each
\* registered slot; stale: a close has happened since the table was built.  An
\* engine's ring watches an eventfd: armed, the ring believes its poll is with
\* the kernel; ticks, the eventfd's count; poke, an event yet to be reported.
NewRing == [slab |-> [s \in 1 .. CqSize |-> Vacant], free |-> [s \in 1 .. CqSize |-> CqSize + 1 - s],
            pool |-> PoolSize, table |-> <<>>, stale |-> FALSE,
            queued |-> <<>>, sq |-> <<>>, kernel |-> {}, cq |-> <<>>, reaped |-> <<>>,
            armed |-> FALSE, ticks |-> 0, poke |-> FALSE]

IsStarved(r) == PoolSize > 0 /\ r.pool = 0
IsFull(r)    == r.free = <<>> \/ IsStarved(r)
IsIdle(r)    == Len(r.free) = CqSize

-----------------------------------------------------------------------------
(* The slab.                                                                *)

Lend == IF PoolSize > 0 THEN 1 ELSE 0

\* A direct op borrows a registered buffer along with its slot.
Insert(r, op, order) ==
  LET at == Last(r.free) IN
  [r EXCEPT !.free = Front(@), !.pool = @ - Lend,
            !.slab[at] = [gen |-> @.gen + 1, order |-> order, op |-> op]]

Holds(r, e) == r.slab[e.at].gen = e.gen /\ r.slab[e.at].op # NoOp

\* Take the ops these entries name, those still in their slots.
Live(r, es) == SelectSeq(es, LAMBDA e : Holds(r, e))

\* Faulty: the buffer of an op that is taken is not given back.
TakeKeepsBuffer(r, es) ==
  LET live == Live(r, es)
      ats  == {live[k].at : k \in DOMAIN live} IN
  [r EXCEPT !.slab = [s \in DOMAIN @ |-> IF s \in ats THEN [@[s] EXCEPT !.op = NoOp] ELSE @[s]],
            !.free = @ \o [k \in DOMAIN live |-> live[k].at]]

Take(r, es) ==
  LET live == Live(r, es)
      ats  == {live[k].at : k \in DOMAIN live} IN
  [r EXCEPT !.slab = [s \in DOMAIN @ |-> IF s \in ats THEN [@[s] EXCEPT !.op = NoOp] ELSE @[s]],
            !.free = @ \o [k \in DOMAIN live |-> live[k].at],
            !.pool = @ + Lend * Len(live)]

Reap(r, es, ok) ==
  LET live == Live(r, es) IN
  [Take(r, es) EXCEPT !.reaped = @ \o [k \in DOMAIN live |->
     [order |-> r.slab[live[k].at].order, op |-> live[k].op, ok |-> ok]]]

\* Completions no batch waits on, and those one does.
Free(r)        == SelectSeq(r.reaped, LAMBDA d : d.order = Unordered)
Ordered(r)     == SelectSeq(r.reaped, LAMBDA d : d.order # Unordered)
TakeFree(r)    == [r EXCEPT !.reaped = Ordered(r)]
TakeOrdered(r) == [r EXCEPT !.reaped = Free(r)]

-----------------------------------------------------------------------------
(* The queues.                                                              *)

\* The poll's entry (KICK_TAG): no op of the slab, so no completion of one.
KickEntry == [gen |-> 0, at |-> 1, op |-> NoOp, slot |-> 0]
Kicks(r)  == SelectSeq(r.cq, LAMBDA e : e.op = NoOp)

\* A kick tells whether the poll stayed on, and its count is read off.
Kicked(r) ==
  IF Kicks(r) = <<>> THEN r
  ELSE [r EXCEPT !.armed = Last(Kicks(r)).hit, !.ticks = 0, !.poke = FALSE]

Drain(r) == [Kicked(Reap(r, r.cq, TRUE)) EXCEPT !.cq = <<>>]

\* A registered slot names whatever file is in it when the kernel takes the
\* entry; slot zero is an entry with a descriptor of its own.
Resolve(r, e) == [gen |-> e.gen, at |-> e.at, op |-> e.op,
                  hit |-> CASE e.op = NoOp -> NoOp
                            [] e.slot = 0 -> e.op.file
                            [] OTHER -> r.table[e.slot]]
Entered(r) == [r EXCEPT !.kernel = @ \cup {Resolve(r, e) : e \in ToSet(r.sq)}, !.sq = <<>>, !.queued = <<>>]

\* A wait cut short, by a signal or a busy kernel: nothing is taken.
Interrupted(r) == [r EXCEPT !.queued = <<>>]

\* Every entry the kernel never took is answered with the error.
Refuse(r) == [Reap(r, r.queued, FALSE) EXCEPT !.queued = <<>>]

\* What a flush leaves: the queue taken, at once or after a busy kernel was
\* drained, or an error.
Flushed(r) ==
  IF r.sq = <<>> THEN {[r EXCEPT !.queued = <<>>]}
  ELSE {Entered(r)} \cup (IF Busy /\ Live(r, r.cq) # <<>> THEN {Entered(Drain(r))} ELSE {})
FlushFailed(r) == IF r.sq = <<>> THEN {} ELSE {Refuse(r)} \cup (IF Busy THEN {Refuse(Drain(r))} ELSE {})

KernelAnswers(r, e) == [r EXCEPT !.kernel = @ \ {e}, !.cq = Append(@, e)]

-----------------------------------------------------------------------------
(* Staging an op: the table, the slab, the queue.                           *)

\* Faulty: the table is cleared under entries that name its slots.
GiveUpUnflushed(r) == {[ring |-> [r EXCEPT !.table = <<>>, !.stale = FALSE], fails |-> 0]}

\* A table that a close has made stale is cleared once the entries naming its
\* slots are with the kernel.  A flush that fails clears it all the same.
GiveUp(r) ==
  {[ring |-> [q EXCEPT !.table = <<>>, !.stale = FALSE], fails |-> 0] : q \in Flushed(r)}
    \cup {[ring |-> [q EXCEPT !.table = <<>>, !.stale = FALSE], fails |-> 1] : q \in FlushFailed(r)}

\* The slot for this file, registered the first time while there is room; an
\* entry past that carries its own descriptor.
Register(r, file) ==
  IF file \in ToSet(r.table) \/ Len(r.table) >= TableSize THEN r ELSE [r EXCEPT !.table = Append(@, file)]
SlotFor(r, file) ==
  IF file \in ToSet(r.table) THEN CHOOSE s \in DOMAIN r.table : r.table[s] = file ELSE 0

Push(r, e) == [r EXCEPT !.sq = Append(@, e), !.queued = Append(@, e)]

\* The ring with the op on its queue, or the op answered on the spot when the
\* queue is full and its flush fails; with how many enters failed.
Stage(r, op, order) ==
  UNION {LET reg == Register(p.ring, op.file)
             at  == Last(reg.free)
             in  == Insert(reg, op, order)
             e   == [gen |-> in.slab[at].gen, at |-> at, op |-> op, slot |-> SlotFor(in, op.file)] IN
         IF Len(in.sq) < SqSize
         THEN {[ring |-> Push(in, e), on |-> TRUE, fails |-> p.fails]}
         ELSE {[ring |-> Push(f, e), on |-> TRUE, fails |-> p.fails] : f \in Flushed(in)}
                \cup {[ring |-> Take(f, <<e>>), on |-> FALSE, fails |-> p.fails + 1] : f \in FlushFailed(in)}
         : p \in IF r.stale THEN GiveUp(r) ELSE {[ring |-> r, fails |-> 0]}}

-----------------------------------------------------------------------------
(* What a ring promises.                                                    *)

OnTheWay(r) == ToSet(r.sq) \cup r.kernel \cup ToSet(r.cq)

\* Every op in the slab has an entry that will complete it, and every slot and
\* registered buffer not in use is free exactly once.
Accounted(r) ==
  /\ \A s \in DOMAIN r.slab : r.slab[s].op # NoOp =>
       \E e \in OnTheWay(r) : e.at = s /\ e.gen = r.slab[s].gen /\ e.op = r.slab[s].op
  /\ ToSet(r.free) = {s \in DOMAIN r.slab : r.slab[s].op = NoOp}
  /\ Len(r.free) = Cardinality(ToSet(r.free))
  /\ PoolSize > 0 => r.pool + Cardinality({s \in DOMAIN r.slab : r.slab[s].op # NoOp}) = PoolSize
=============================================================================
