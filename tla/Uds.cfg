SPECIFICATION UdsFairSpec
CONSTANTS
  session = session
  read = read
  Services = {session, read}
  TesterAnswers = {"positive"}
  MaxParts = 3
  MaxCalls = 2
  MaxTester = 1
  MaxPending = 1
  MaxLost = 1
CHECK_DEADLOCK FALSE
INVARIANTS
  OwnWholeAnswer
  NoStrayMessage
PROPERTIES
  CleanCallEnds
