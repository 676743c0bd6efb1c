SPECIFICATION QueueSpec
CONSTANTS
  Size = 3
  Uses <- EchoedUse
  MaxFrames = 8
INVARIANTS
  FullIsDetected
