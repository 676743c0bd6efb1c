SPECIFICATION QueueFairSpec
CONSTANTS
  Size = 3
  Uses <- AllUses
  MaxFrames = 6
INVARIANTS
  QueueTypeOK
  DeliversInOrder
  SoleProducerStopsAtFull
  IndicesInside
PROPERTIES
  EverythingDelivered
