\* Plain volume: two writers of records shorter than their rows.
CONSTANTS
  Writers = {w1, w2}
  Kinds <- PlainKinds
  HEADER = 1
  Target = 9
  ALIGN = 2
  Window = 4
  Pad = 1
SPECIFICATION Spec
INVARIANTS
  CutSparesRecords
