SPECIFICATION FairSpec
CONSTANTS
  N = 2
  Broken = {1}
  MaxBatch = 1
PROPERTY OwnLoopPerCategory
