SPECIFICATION Spec
CONSTANTS
    Irq = {1}
    Uart = 1
    BufSize = 2
    MaxBytes = 5
    High = {3}
INVARIANTS
    TypeOK
    MaskedHasReader
PROPERTIES
    ConsoleIsFifo
    BytesArrive
CHECK_DEADLOCK TRUE
