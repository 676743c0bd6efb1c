SPECIFICATION CommandsFairSpec
CONSTANTS
  main = main
  tester = tester
  k250 = k250
  k500 = k500
  Callers = {main, tester}
  Bauds = {k250, k500}
  MaxSends <- Shares
  MaxCount = 2
  MaxFails = 1
CHECK_DEADLOCK FALSE
INVARIANTS
  CommandsTypeOK
  LagBounded
  BaudAgrees
  AnswersConserved
PROPERTIES
  BaudReturns
