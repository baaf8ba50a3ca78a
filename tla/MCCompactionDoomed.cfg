\* One tail, a reader and no faults.
SPECIFICATION MCSpec
CONSTANTS
  Writers = {w1}
  Passes = {p1}
  Readers = {r1}
  Tails = {t1}
  Segments = {1, 2, 3}
  MaxLsn = 2
  ReadLsn = 2
  FullLsn = 2
  MaxFaults = 0
INVARIANTS FilesAgree
