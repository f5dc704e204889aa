SPECIFICATION FairSpec
CONSTANTS
  U32Max = 3
  MaxVersion = 2
  MaxFaults = 2
  MaxConsecutiveErrors = 2
  ImmediateErrorStatuses = {404}
  ErrorStatuses = {404, 500}
  Sources <- AllSources
CHECK_DEADLOCK FALSE
INVARIANTS TypeOK AckedIsStored MarkJustified
PROPERTIES ExcludedForGood DeadFeedExcluded UnstoredIsNoticed ImplementsService
