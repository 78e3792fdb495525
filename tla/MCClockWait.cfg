SPECIFICATION Spec
CONSTANTS
    Word = 4
    Second = 2
    Horizon = 11
    SetBacks = {1}
    Deadlines = {2, 5, 8, 15}
PROPERTY
    TimerEndsWait
CHECK_DEADLOCK TRUE
