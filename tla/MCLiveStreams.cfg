CONSTANTS
  h1 = h1
  h2 = h2
  c1 = c1
  c2 = c2
  Handlers = {h1, h2}
  Clients = {c1, c2}
  NoHandler = NoHandler
  Settings <- MCSettings
  GopCacheLength = 2
  ClientCapacity = 1
  MaxStreams = 2
  MaxPuts = 2

SPECIFICATION FairSpec

INVARIANTS
  IInv
  NoGap
  StartsDecodable
  LiveInOrder
  NoDepartedClient

PROPERTY
  StreamComesBack

CHECK_DEADLOCK FALSE
