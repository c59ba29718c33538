SPECIFICATION RebootFairSpec
CONSTANTS
  TimeMod = 12
  ResetDelay = 3
  MaxLag = 2
  WaitCap = 12
INVARIANTS ResetSafe
PROPERTIES ResetNotEarly RebootHappens
