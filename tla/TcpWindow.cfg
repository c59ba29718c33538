\* Any window and any write; the persist timer splits segments, with the FIN too.
SPECIFICATION Spec
CONSTANTS
  MSS = 3
  Bytes = 4
  Windows <- AnyWindow
  Shrinks = FALSE
  Closes = TRUE
  Chunks <- AnySize
  Failures = FALSE
  MaxRtx = 2
  MaxAcks = 4
INVARIANTS QueuesExact TimersSafe LbbIsNext FinLast
CHECK_DEADLOCK FALSE
