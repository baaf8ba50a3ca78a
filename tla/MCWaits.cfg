\* Five parts that make callers wait, each on a small instance of its own: two writers of
\* the gauge over one number, three threads of the publish barrier and one batch, two calls
\* of a tail of two segments with one I/O error, and two tasks on a ring with one entry.
\* Every bound ends the calls of its part, so a state in which all have answered has no
\* step left: that stop is what WaitsEnd asks for, and no deadlock.
CONSTANTS
  Writers = {w1, w2}
  MostCounted = 1
  MaxLsn = 2
  Threads = {t1, t2, t3}
  Keys = {1, 2}
  NoOne = NoOne
  MaxBatches = 1
  Callers = {c1, c2}
  Cap = 2
  Threshold = 0
  MaxSegment = 2
  MaxFaults = 1
  MaxReserved = 2
  Tasks = {f1, f2}
  Engine = engine
  SlotCount = 2
  BatchSlots = 2
  MaxTag = 3
  SqSize = 1
  CqSize = 2
  PoolSize = 0
  TableSize = 1
  NoOp = NoOp
  InboxSize = 2
  MaxFails = 0
SPECIFICATION MCFairSpec
INVARIANTS TypeOK FloorHolds NothingLeftBehind OneFlush StrandedIsCounted SleepsWithCause StopsClean
PROPERTIES FloorAdvances WaitsEnd
CHECK_DEADLOCK FALSE
