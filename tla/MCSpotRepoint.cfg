SPECIFICATION MCSpec
CONSTANTS
  w1 = w1
  w2 = w2
  r1 = r1
  Writers = {w1,w2}
  Readers = {r1}
  Segments = {1,2,3}
  SettleAt = 2
  GraveWindow = 1
  ResolveRetries = 4
  MaxCalls = 2
  Beside = TRUE
  Met = FALSE
  Behind = FALSE
SYMMETRY Symmetry
INVARIANT IndexAgrees
CHECK_DEADLOCK FALSE
