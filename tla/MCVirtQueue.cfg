SPECIFICATION Spec
CONSTANTS
    QueueNum = 3
    Wrap = 6
    Header = 2
    Layouts <- MCLayouts
    PacketSizes <- MCPacketSizes
INVARIANTS
    TypeOK
    OneOwner
    PacketWhole
PROPERTIES
    QueueIsFifo
    NotifyEnds
CHECK_DEADLOCK TRUE
