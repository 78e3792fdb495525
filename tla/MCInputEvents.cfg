SPECIFICATION InputSpec
CONSTANTS
    Keys <- MCKeys
    Shift = 29
    ev_to_doom <- MCTable
    Buffers = 3
    Batch = 2
    MaxEvents = 4
    Motions = {0, 1}
    MaxInputs = 4
INVARIANTS
    KeysFollow
    MouseArrives
