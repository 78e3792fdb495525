SPECIFICATION Spec
CONSTANTS
    WordBytes = 2
    BlockWords = 2
    Blocks = 5
    Sets = 2
    Ways = 2
    MaxFcnt = 4
    Image <- MCImage
    MaxStores = 3
INVARIANTS
    NeverOverfull
    ReadsAreWrites
CHECK_DEADLOCK FALSE
