\* Two tails and one pass: three numbers with one roll, or two with two rolls and a fault.
SPECIFICATION MCSpec
CONSTANTS
  Writers = {w1, w2}
  Passes = {p1}
  Readers = {r1}
  Tails = {t1, t2}
  Segments = {1, 2, 3, 4}
  MaxLsn = 3
  ReadLsn = 1
  FullLsn = 2
  MaxFaults = 1
INVARIANTS TypeOK RebuildAgrees EntryStands
SYMMETRY Symmetry
