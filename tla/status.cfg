SPECIFICATION Spec
CONSTANTS
  MaxConnections = 8
  MaxTrouble = 3
PROPERTIES
  OfflineInTheEnd
  OnlineInTheEnd
