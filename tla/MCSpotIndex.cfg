SPECIFICATION MCSpec
CONSTANTS
  w1 = w1
  w2 = w2
  r1 = r1
  Writers = {w1,w2}
  Readers = {r1}
  Segments = {1,2,3}
  SettleAt = 2
  GraveWindow = 1
  ResolveRetries = 4
  MaxCalls = 3
  Beside = FALSE
  Met = FALSE
  Behind = FALSE
SYMMETRY Symmetry
INVARIANTS TypeOK KeysCounted IndexAgrees ReadsCurrent
CHECK_DEADLOCK FALSE
