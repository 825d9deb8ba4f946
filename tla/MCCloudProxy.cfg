CONSTANTS
  Requests = {r1}
  Timers = {m1}
  Settings <- Cases
  MaxStarts = 2
  MaxTasks = 1
  MaxHeartbeats = 1

SPECIFICATION FairSpec

INVARIANTS
  IInv
  NeverForgotten

PROPERTY
  KeepsTrying

CHECK_DEADLOCK FALSE
