CONSTANTS
  Requests = {q1, q2}
  MaxRecordings = 3

SPECIFICATION FairSpec

INVARIANTS
  EntryHasLimit
  IInv

PROPERTY
  EntryIsReleased

CHECK_DEADLOCK FALSE
