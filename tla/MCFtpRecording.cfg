CONSTANTS
  Uploads = {u1, u2}
  MaxFtpRecordings = 3
  MaxFinishing = 2

SPECIFICATION FtpFairSpec

INVARIANTS
  EntryHasWindow
  RecordingHasWindow
  FtpInv

PROPERTY
  RecordingEnds

CHECK_DEADLOCK FALSE
