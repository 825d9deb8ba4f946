CONSTANTS
  RecordingOverrun = 1
  MaxTimers = 3
  MaxRecordings = 2

SPECIFICATION Spec

INVARIANTS
  IInv
  NoDeadTimer
  RecordingIsTimed

CHECK_DEADLOCK FALSE
