\* Two passes at once over three tails, one write of one key, and no faults.
SPECIFICATION MCSpec
CONSTANTS
  Writers = {w1}
  Passes = {p1, p2}
  Readers = {}
  Tails = {t1, t2, t3}
  Segments = {1, 2, 3, 4, 5}
  MaxLsn = 1
  ReadLsn = 1
  FullLsn = 1
  MaxFaults = 0
INVARIANTS EntryStands
SYMMETRY Symmetry
CHECK_DEADLOCK FALSE
