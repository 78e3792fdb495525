SPECIFICATION Spec
CONSTANTS
    RamWords = 1
    Count = 2
    IrqBits <- OneOfEach
    MieWrites <- AllOrNone
    MipWrites <- SoftwareOrSupervisor
INVARIANTS
    TypeOK
    SavedContextKept
    NewCauseEndsWait
PROPERTIES
    MretResumes
    InterruptsInOrder
    PendingIsTaken
CHECK_DEADLOCK FALSE
