SPECIFICATION Spec
CONSTANTS
  Ids = {1, 2, 3, 4}
  f1 = f1
  f2 = f2
  Feeds = {f1, f2}
  FeedOf <- MCFeedOf
  Found <- MCFound
  None = None
  PageSize = 3
  Cap = 2
  MaxChanges = 2
INVARIANTS TypeOK SkipsOnlyForDeparted
