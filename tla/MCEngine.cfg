\* Two callers, one op each, over a ring of one submission slot and two
\* completion slots; no enter fails for good.
CONSTANTS
  Callers = {c1, c2}
  SqSize = 1
  CqSize = 2
  PoolSize = 0
  TableSize = 1
  NoOp = NoOp
  InboxSize = 2
  Busy = TRUE
  MaxFails = 0
SPECIFICATION MCFairSpec
PROPERTY HandedIsAnswered
CHECK_DEADLOCK FALSE
