\* Budget: two threads and a future, records of one and two bytes under a ceiling
\* of two that the tick squeezes to one and raises again.  Publish queue: two
\* batches, alone or grouped, against whole reads by three threads.  Table: two
\* futures and a blocking caller over two slots, four tags, the last drawn while a future is idle.  Ring: two calls of up
\* to two ops on two files, one refused enter, a ring narrower than a batch.
CONSTANTS
  Parkers = {p1, p2}
  Pollers = {q1}
  Tick = Tick
  NoOne = NoOne
  Sizes = {1, 2}
  Ceiling = 2
  Shares = {1, 2}
  Threads = {t1, t2, t3}
  Keys = {1, 2}
  MaxBatches = 2
  Tasks = {f1, f2}
  Blocking = {w1}
  Engine = engine
  SlotCount = 2
  BatchSlots = 2
  MaxTag = 4
  SqSize = 1
  CqSize = 2
  PoolSize = 2
  TableSize = 1
  NoOp = NoOp
  Files = {x1, x2}
  Batch = 2
  NoAnswer = NoAnswer
  MaxCalls = 2
  MaxFails = 1
  BLOCK = 2
  MaxIovecs = 2
  StageBytes = 4
  Lengths = {0, 3, 5}
  Offsets = {0, 1, 2, 3}
  Heads = {0, 1, 2}
  Bodies = {0, 1, 3}
SPECIFICATION MCSpec
SYMMETRY Symmetry
INVARIANTS
  BudgetHolds SleepersAreOwed WaitingCounts
  ReadsWhole MovesHoldBarrier
  OwnAnswer NoSlotLost
  BatchInOrder RingAccounted RightFile WaitsForSomething
  ReadsRange WritesStream
