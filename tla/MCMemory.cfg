SPECIFICATION Spec
CONSTANTS
    BYTE = 2
    SEGMENT = 536870912
    RAM_SIZE = 8
    BIOS_SIZE = 4
    Addresses <- MCAddresses
    Values <- MCValues
    Images <- MCImages
    Base1 <- MCBase1
    Base2 <- MCBase2
    MaxOps = 3
INVARIANTS
    TypeOK
    OneDevice
    StoresStayInside
PROPERTY
    FlatRam
CHECK_DEADLOCK FALSE
