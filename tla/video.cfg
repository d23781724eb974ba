SPECIFICATION Spec
CONSTANTS
  JpegCapacity = 1
  RawCapacity = 2
  MaxTimeouts = 2
  MaxFrames = 3
  MaxSessions = 2
  MaxRuns = 1
INVARIANTS
  SessionsArePure
  PixelsMatchMetadata
  NoServiceFailsForAnother
PROPERTY
  FramesStayInOrder
