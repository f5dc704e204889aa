SPECIFICATION FairSpec
CONSTANTS
  Feeds = {1, 2, 3, 4}
  Limit = 2
  Poison = {1}
CHECK_DEADLOCK FALSE
INVARIANTS BacklogTypeOK WaitBounded
PROPERTIES NewFeedServed
