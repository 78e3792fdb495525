SPECIFICATION Spec
CONSTANTS
    c1 = c1
    c2 = c2
    c3 = c3
    Chains = {c1, c2, c3}
SYMMETRY Symmetry
INVARIANTS
    TypeOK
    NoLockCycle
    ListIsQueue
    BufferHasOneOwner
    PacketHasLine
    LineComesBack
CHECK_DEADLOCK TRUE
