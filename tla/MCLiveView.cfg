CONSTANTS
  Cams = {c1, c2}
  Levels = {2, 3}
  DefaultLevel = 2
  Frames = 2
  MaxPending = 2
  MaxErrors = 1
  Views = {v1, v2}
  StalledMessages = 1
  MaxSetups = 2
  ArraySize = 2
  MaxHardLimit = 5
  WorkingHardLimit = 3
  InitialMax = 6
  InitialWorking = 2
  MaxQueue = 7
  MaxCalls = 2
  Tabs = {t1, t2}
  IdleSecs = 2
  CountDown = 3
SPECIFICATION PartSpec
INVARIANTS
  BuffersHold
  TimersWatch
  SoundAsSet
PROPERTIES
  FeedsRecover
  NothingIsLeftOn
CHECK_DEADLOCK FALSE
