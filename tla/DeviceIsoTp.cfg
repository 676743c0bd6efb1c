SPECIFICATION IsoTpFairSpec
CONSTANTS
  engine = engine
  brakes = brakes
  Ids = {engine, brakes}
  Lengths <- ShortAndLong
  QueueRoom = 2
  MaxMessages = 3
CHECK_DEADLOCK FALSE
INVARIANTS
  IsoTpTypeOK
  ExactSegments
PROPERTIES
  ClearedGoesOut
