\* Whole-block volume: three writers, blocks of two bytes.
CONSTANTS
  Writers = {w1, w2, w3}
  Kinds <- BlockKinds
  HEADER = 2
  Target = 10
  ALIGN = 2
  Window = 4
  Pad = 2
SPECIFICATION Spec
SYMMETRY Symmetry
INVARIANTS
  ClaimsApart
  ZerosMissRecords
  RowsAddUp
