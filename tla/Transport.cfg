SPECIFICATION TransportFairSpec
CONSTANTS
  a = a
  me = me
  all = all
  Flows <- SomeFlows
  MyIDs = {me}
  Everybody = all
  Promiscuous = TRUE
  MaxTransfers = 2
  Small <- SmallFlows
  MaxPackets = 3
  MaxGiveUps = 1
  MaxLost = 1
  MaxQueue = 2
CHECK_DEADLOCK FALSE
INVARIANTS
  TransportTypeOK
  CompleteIsFiled
  MixedOnlyAfterLoss
  AcknowledgedIsFiled
  FiledUnderItsPgn
PROPERTIES
  TransfersEnd
