SPECIFICATION Spec
CONSTANTS
  RX_QUEUE_NUM = 3
  MaxFrames = 6
  MaxSends = 0
  MaxLinkEvents = 0
  Hazards <- SplitOnly
INVARIANTS
  DeliveredWhole
CHECK_DEADLOCK FALSE
