SPECIFICATION Spec
CONSTANTS
  Ad = {1, 2}
  Client = {c1, c2, c3}
  c1 = c1
  c2 = c2
  c3 = c3
SYMMETRY Symmetry
INVARIANT
  AnsweredAdsHaveFiles
PROPERTIES
  ChangeTakesEffect
  ImplementsPlayableAds
