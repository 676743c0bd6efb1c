SPECIFICATION MCSpec
CONSTANTS
  can = can
  rx = rx
  user = user
  Submitters = {rx}
  Readers = {user}
  Cmds = {can}
  MaxMsgs = 3
  MaxRecvall = 1
INVARIANTS
  NothingLost
