SPECIFICATION FairSpec
CONSTANTS
  f1 = f1
  f2 = f2
  f3 = f3
  f4 = f4
  f5 = f5
  a = a
  b = b
  Feeds <- AllFeeds
  Domains = {a, b}
  DomainOf <- DomainOfFeed
  ConfiguredLimit <- LimitOfA
  GlobalCaps = {0, 3}
  DefaultParallelism = 4
INVARIANTS TypeOK PermitsConserved GlobalNeverWaits
PROPERTIES EveryDueFeedServed ImplementsBounded
