SPECIFICATION Spec
CONSTANTS
  CommandCapacity = 2
  EventCapacity = 2
  MaxCommands = 3
  MaxFrames = 1
  MaxSessions = 2
INVARIANTS
  ExactlyOneAnswer
  CommandsAreNeverReplayed
  NoEventIsSkipped
