CONSTANTS
  Requests = {r1}
  AudioInSessionTimeout = 1
  MaxStarts = 2

SPECIFICATION AudioFairSpec

INVARIANTS
  AudioInv
  PortIsFreed

PROPERTY
  AudioEnds

CHECK_DEADLOCK FALSE
