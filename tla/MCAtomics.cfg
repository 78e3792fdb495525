SPECIFICATION Spec
CONSTANTS
    Contexts = {1, 2}
    Words = {4, 8}
    Stack = 12
    MaxValue = 3
PROPERTY
    SlotIsOurs
CHECK_DEADLOCK TRUE
