SPECIFICATION Spec
CONSTANTS
  U32Max = 6
  U64Bits = 6
  Bases = {0, 1, 3, 5}
  Maxima = {0, 2, 10, 13, 31}
  JitterPercent = 20
  Instants = {0, 4}
  MsPerSecond = 2
  MaxErrorSeconds = 4
CHECK_DEADLOCK FALSE
INVARIANT ErrorWithinMaxError
