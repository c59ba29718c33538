SPECIFICATION Spec
CONSTANTS
    Size = 30
    H = 2
    MinSize = 3
    Sizes <- Small
VIEW LiveWords
INVARIANTS Partitioned FreeSafe BlocksFit
CHECK_DEADLOCK FALSE
