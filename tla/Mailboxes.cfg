SPECIFICATION MCSpec
CONSTANTS
  can = can
  result = result
  rx = rx
  tester = tester
  user = user
  Submitters = {rx}
  Readers = {user, tester}
  Cmds = {can, result}
  MaxMsgs = 3
  MaxRecvall = 2
INVARIANTS
  TypeOK
  DeliveredInOrder
  DeliveredOnce
  LossBounded
PROPERTIES
  ImplementsMessageBox
