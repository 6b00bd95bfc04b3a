SPECIFICATION Spec
CONSTANTS
    SEGMENT = 536870912
    RAM_SIZE = 128
    BIOS_SIZE = 4
    Base1 <- Expansion1
    Base2 <- Expansion2
    Depths = 2
    OrderingTable = 4
    Slots <- TwoSlots
    Packets <- SomePackets
    Images <- SomeImages
    ImageBuffer = 64
    Segments <- TwoSegments
INVARIANTS
    NeverPanics
    DevicesAreReady
PROPERTIES
    DrawsDisplayList
