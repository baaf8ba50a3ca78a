CONSTANTS
  c1 = c1
  c2 = c2
  Callers = {c1, c2}
  Ops = {"flush", "batch", "batchDurable"}
  Awaits = {}
  Cap = 2
  Threshold = 0
  MaxSegment = 2
  Menus = {{"flush", "batch", "batchDurable"}}
  Calm = {}
  MaxFaults = 0
  MaxReserved = 3
SPECIFICATION MCSpec
SYMMETRY Symmetry
INVARIANTS AsksCoverRolled
CHECK_DEADLOCK FALSE
