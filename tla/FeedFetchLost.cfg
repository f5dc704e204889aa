SPECIFICATION Spec
CONSTANTS
  U32Max = 3
  MaxVersion = 2
  MaxFaults = 1
  MaxConsecutiveErrors = 2
  ImmediateErrorStatuses = {404}
  ErrorStatuses = {404, 500}
  Sources <- EtagFeed
CHECK_DEADLOCK FALSE
INVARIANT HeadDecidesChange
