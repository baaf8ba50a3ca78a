CONSTANTS
  c1 = c1
  c2 = c2
  Callers = {c1, c2}
  Ops = {"put", "durable", "flush", "finish", "close"}
  Awaits = {}
  Cap = 2
  Threshold = 2
  MaxSegment = 2
  Menus = {{"put", "durable", "flush", "finish", "close"}}
  Calm = {}
  MaxFaults = 1
  MaxReserved = 2
SPECIFICATION MCSpec
SYMMETRY Symmetry
INVARIANTS TypeOK PutsHold WatermarkHolds NothingInFlight FlushHolds
CHECK_DEADLOCK FALSE
