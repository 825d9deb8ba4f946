CONSTANTS
  CacheLength = 4
  GopCacheLength = 2
  FeedCapacity = 2
  PreambleTime = 1
  Feeders = {f1, f2}
  MaxPackets = 6

SPECIFICATION Spec

INVARIANTS
  TypeOK
  FeedComplete
  FeedOrdered
  FeedStartsWithKeyFrame
  FeedersAttached
  IInv

PROPERTY ImplementsPreambleFeed

CHECK_DEADLOCK FALSE
