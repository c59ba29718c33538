SPECIFICATION FairSpec
CONSTANTS
  RX_QUEUE_NUM = 3
  MaxFrames = 5
  MaxSends = 2
  MaxLinkEvents = 1
  Hazards <- Benign
INVARIANTS RingSafe DeliveredWhole
PROPERTIES RingIsFrameQueue TxBufferStable RingDrains SendReturns
