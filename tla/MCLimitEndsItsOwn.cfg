CONSTANTS
  Requests = {q1}
  MaxRecordings = 2

SPECIFICATION Spec

PROPERTY LimitEndsItsOwn

CHECK_DEADLOCK FALSE
