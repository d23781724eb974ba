SPECIFICATION ServiceSpec
CONSTANTS
  Count = 2
  MaxFeed = 3
INVARIANTS
  DetectorProtocol
  StaleResultIsReported
  NothingLeftOpen
PROPERTY
  ResultsStayInOrder
