SPECIFICATION Spec
CONSTANTS
  Byte = {0, 1, 2}
  Start1 = 2
  Start2 = 0
  Version = 1
  HeaderSize = 4
  TrailerSize = 1
  MaxPayload = 5
  LengthOf <- FiveTimes
  Checksum <- SumOfBytes
  MaxBytes = 9
  ResetWithin = 2
CHECK_DEADLOCK FALSE
INVARIANTS
  DeliveredAreSound
  NoIntactFrameIsLost
PROPERTY
  SilenceEmptiesBuffer
