SPECIFICATION Spec
CONSTANTS
    WordValues = 2
    ImageSizes <- MCImageSizes
    MaxResizes = 2
    Page = 4
    CoreSize = 3
    BssSize = 2
    DtbSize = 4
    FrameSize = 6
    UartSize = 1
    VirtioSize = 2
    PlicBase = 72
    PlicSize = 8
    IrqLines = 16
    Options <- MCOptions
    MaxRestarts = 3
INVARIANTS
    RegionsDisjoint
    DevicesAnswer
    CapacityWholeAndFresh
\* The machine may be switched off.
CHECK_DEADLOCK FALSE
