CONSTANTS
    Ids = {"a", "b", "c", "long"}
    Length <- MCLength
    Fragments <- MCFragments
    MaxLen = 3
    Wrap = 3
    NumReass = 3
    MaxPbufs = 7
    MaxAge = 2
    PoolSize = 8
SPECIFICATION FairSpec
INVARIANTS CountsSafe DeliveredWhole QueuesReady
PROPERTIES GivenUp
