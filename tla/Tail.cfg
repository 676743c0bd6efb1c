SPECIFICATION TailFairSpec
CONSTANTS
  rx = rx
  can = can
  Submitters = {rx}
  user = user
  Readers = {user}
  Cmds = {can}
  Source = can
  Limited = FALSE
  MaxMsgs = 3
  MaxRecvall = 1
CHECK_DEADLOCK FALSE
INVARIANTS
  GenTypeOK
  NoLostWakeup
  YieldsInOrder
  YieldsConsecutively
  FailsOnlyAtFirstMessage
PROPERTIES
  EverythingYielded
