SPECIFICATION ModesFairSpec
CONSTANTS
  Size = 3
  MaxFrames = 3
  MaxCommands = 3
CHECK_DEADLOCK FALSE
INVARIANTS ModesTypeOK InOrderOnce EchoMeansSent
PROPERTIES QueuesDrain
