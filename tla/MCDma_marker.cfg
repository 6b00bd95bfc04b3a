SPECIFICATION ObservedSpec
CONSTANTS
    LOW = 128
    RAMSIZE = 16
    Bases <- OneBase
    Blocks <- OneBlock
    Controls <- ListControls
    Interrupts <- NoInterrupts
    Commons <- NoWords
    Ports <- ListPorts
    Words <- AllWords
    MaxOps = 3
    MaxSent = 6
PROPERTY
    MarkerEndsList
CHECK_DEADLOCK FALSE
