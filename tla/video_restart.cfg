SPECIFICATION Spec
CONSTANTS
  JpegCapacity = 1
  RawCapacity = 1
  MaxTimeouts = 1
  MaxFrames = 1
  MaxSessions = 1
  MaxRuns = 2
INVARIANTS
  NeverOpenedTwice
PROPERTY
  StopIsNeverLost
