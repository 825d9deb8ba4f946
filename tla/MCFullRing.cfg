CONSTANTS
  CacheLength = 3
  GopCacheLength = 3
  FeedCapacity = 2
  PreambleTime = 1
  Feeders = {f1}
  MaxPackets = 5

SPECIFICATION Spec

INVARIANT FullRingGoesOn

CHECK_DEADLOCK FALSE
