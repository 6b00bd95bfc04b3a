SPECIFICATION TransferSpec
CONSTANTS
    LOW = 128
    RAMSIZE = 16
    Bases <- AllBases
    Blocks <- AllBlocks
    Controls <- AllControls
    Interrupts <- SomeInterrupts
    Commons <- OneWord
    Ports <- AllPorts
    Words <- AllWords
    MaxOps = 3
    MaxSent = 12
INVARIANTS
    TypeOK
    NothingLeftStarted
PROPERTIES
    OrderingTable
    BlockIsExact
    ListIsExact
    TransferEnds
CHECK_DEADLOCK FALSE
