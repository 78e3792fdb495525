\* One instruction of any kind, from any words.
SPECIFICATION Spec
CONSTANTS
    Byte <- MCByte
    RamOffset <- MCRamOffset
    RamSize <- MCRamSize
    DeviceWindow <- MCDevices
    DeviceWord <- MCDeviceWord
    Starts <- MCStarts
INVARIANTS
    ResultIsIsa
    StoresOnlyItsBytes
    TrapLeavesNoTrace
\* Nothing follows the one instruction.
CHECK_DEADLOCK FALSE
