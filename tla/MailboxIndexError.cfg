SPECIFICATION MCSpec
CONSTANTS
  result = result
  rx = rx
  tester = tester
  user = user
  Submitters = {rx}
  Readers = {user, tester}
  Cmds = {result}
  MaxMsgs = 3
  MaxRecvall = 0
INVARIANTS
  NoIndexError
