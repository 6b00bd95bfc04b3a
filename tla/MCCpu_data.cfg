SPECIFICATION DataSpec
CONSTANTS
    BYTE = 4
    HALF = 16
    WORD = 256
    BYTEBITS = 2
    JREGION = 64
    ResetVector = 192
    HandlerRam = 136
    HandlerRom = 216
    PowerOn = 222
    IscBit = 64
    BevBit = 128
    BdBit = 128
    BitAnd <- And8
    BitOr <- Or8
    BitXor <- Xor8
    ShiftLeft <- Shl8
    ShiftRight <- Shr8
    ShiftArith <- Sar8
    Program <- DataProgram
    BusData <- TwoWords
    Unmapped <- FewHoles
    MaxIp = 3
INVARIANTS
    TypeOK
PROPERTIES
    LoadDelaySlot
    TrapHasNoOtherEffect
    BusStores
    OverflowIsExact
    HiLoIsExact
    MergesAreExact
CHECK_DEADLOCK FALSE
