SPECIFICATION DisplaySpec
CONSTANTS
  Ad = {a, b}
  a = a
  b = b
INVARIANT
  LeftoverIsTaken
PROPERTIES
  TickShowsTheSource
  EveryAdGetsItsTurn
  FallsBackToLive
