SPECIFICATION IrqSpec
CONSTANT
    Irq = {1, 2, 3}
INVARIANTS
    IrqTypeOK
    LineFollowsPending
    NothingUnseenWithoutLine
PROPERTY
    UsedIsSeen
CHECK_DEADLOCK TRUE
