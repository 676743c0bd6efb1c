SPECIFICATION SerialSpec
CONSTANTS
  At = 64
  Packets <- SomePackets
  LogPacket <- SomeLog
  MaxPackets = 4
  MaxLost = 2
CHECK_DEADLOCK FALSE
INVARIANTS StaysInStep MissedIsSwallowed
