SPECIFICATION FairSpec
CONSTANTS
  N = 3
  Broken = {}
  MaxBatch = 6
INVARIANTS TypeOK GapBounded OnlyFirstAddsUp
PROPERTIES OneTickPerPeriod EveryCategoryServed
