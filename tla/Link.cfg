SPECIFICATION FairSpec
CONSTANTS
  TimeMod = 11
  PollTicks = 3
  PhyCycle = 4
  LedCycle = 4
  MaxLag = 2
 
PROPERTIES PollNotEarly LinkNoticed
