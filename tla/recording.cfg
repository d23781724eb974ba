SPECIFICATION EventSpec
CONSTANTS
  Segments = 2
  MaxVersions = 2
  MaxProbes = 1
  MaxFailures = 2
  MaxRestarts = 1
  Feeds <- OneAtATime
  Classes = {person, car}
  MaxSaveFailures = 1
  Gap = 1
  Retain = 2
  MaxTime = 5
  MaxMessages = 2
  MaxSources = 2
INVARIANT
  PlayableHasFile
  EventsTellWhatWasSeen
PROPERTY
  EverySegmentSettles
