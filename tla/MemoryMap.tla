------------------------------ MODULE MemoryMap ------------------------------
(***************************************************************************)
(* The memory map (map.hpp, map.cpp) and what the bus (bus.cpp) does with  *)
(* it: the device that answers an access and the offset it answers at.     *)
(*                                                                         *)
(* An address is [seg, low]: its top three bits and the other 29, since    *)
(* REGION_MASK is indexed by the former.                                   *)
(***************************************************************************)
EXTENDS Integers

CONSTANTS
    SEGMENT,                 \* 2^29: the addresses with the same top three bits
    RAM_SIZE, BIOS_SIZE,     \* 2^21 and 2^19
    Base1, Base2             \* 0x1f000000 and 0x1f802000, as words

Address == [seg : 0 .. 7, low : 0 .. SEGMENT - 1]

ASSUME MapAssumption ==
    /\ SEGMENT \in Nat \ {0}
    /\ RAM_SIZE \in Nat \ {0} /\ RAM_SIZE % 4 = 0 /\ RAM_SIZE <= \h1f000000
    /\ BIOS_SIZE \in Nat \ {0} /\ BIOS_SIZE <= \h400000
-----------------------------------------------------------------------------
Range(seg, base, size) == [seg |-> seg, base |-> base, size |-> size]

MapVariant == [
    RAM           |-> Range(0, 0, RAM_SIZE),
    BIOS          |-> Range(0, \h1fc00000, BIOS_SIZE),
    MEM_CONTROL   |-> Range(0, \h1f801000, 136),
    RAM_SIZE      |-> Range(0, \h1f801060, 4),
    CACHE_CONTROL |-> Range(7, \h1ffe0130, 4),
    SPU           |-> Range(0, \h1f801c00, 640),
    EXPANSION_1   |-> Range(0, \h1f000000, 512 * 1024),
    EXPANSION_2   |-> Range(0, \h1f802000, 66),
    IRQ_CONTROL   |-> Range(0, \h1f801070, 8),
    TIMERS        |-> Range(0, \h1f801100, \h30),
    DMA           |-> Range(0, \h1f801080, \h80),
    GPU           |-> Range(0, \h1f801810, 8) ]
Map == [
    RAM           |-> Range(0, 0, RAM_SIZE),
    BIOS          |-> Range(0, \h1fc00000, BIOS_SIZE),
    MEM_CONTROL   |-> Range(0, \h1f801000, 36),
    RAM_SIZE      |-> Range(0, \h1f801060, 4),
    CACHE_CONTROL |-> Range(7, \h1ffe0130, 4),
    SPU           |-> Range(0, \h1f801c00, 640),
    EXPANSION_1   |-> Range(0, \h1f000000, 512 * 1024),
    EXPANSION_2   |-> Range(0, \h1f802000, 66),
    IRQ_CONTROL   |-> Range(0, \h1f801070, 8),
    TIMERS        |-> Range(0, \h1f801100, \h30),
    DMA           |-> Range(0, \h1f801080, \h80),
    GPU           |-> Range(0, \h1f801810, 8) ]

Device == DOMAIN Map
Nowhere == "nowhere"

MaskRegionVariant(a) == IF a.seg = 4 THEN [a EXCEPT !.seg = 0] ELSE a
(* REGION_MASK: KSEG0 and KSEG1 lose their top bits. *)
MaskRegion(a) == IF a.seg \in {4, 5} THEN [a EXCEPT !.seg = 0] ELSE a

ContainsVariant(a, r) ==
    a.seg = r.seg /\ r.base <= a.low /\ a.low <= r.base + r.size
Contains(a, r) ==
    a.seg = r.seg /\ r.base <= a.low /\ a.low < r.base + r.size

(* The ranges each of the six functions looks at. *)
Dispatch(kind, width) ==
    CASE kind = "load" /\ width = 4 ->
           {"RAM", "BIOS", "IRQ_CONTROL", "DMA", "GPU", "TIMERS"}
      [] kind = "load" /\ width = 2 -> {"RAM", "SPU", "IRQ_CONTROL"}
      [] kind = "load" /\ width = 1 -> {"RAM", "BIOS", "EXPANSION_1"}
      [] kind = "store" /\ width = 4 ->
           {"RAM", "MEM_CONTROL", "RAM_SIZE", "CACHE_CONTROL", "IRQ_CONTROL",
            "DMA", "GPU", "TIMERS"}
      [] kind = "store" /\ width = 2 -> {"RAM", "SPU", "TIMERS", "IRQ_CONTROL"}
      [] OTHER -> {"RAM", "EXPANSION_2"}

Hits(kind, width, a) ==
    {d \in Dispatch(kind, width) : Contains(MaskRegion(a), Map[d])}

(* The ranges are disjoint (OneDevice): the order of the tests is open.   *)
Target(kind, width, a) ==
    IF Hits(kind, width, a) = {} THEN Nowhere ELSE CHOOSE d \in Hits(kind, width, a) : TRUE

Offset(d, a) == MaskRegion(a).low - Map[d].base

(* dmaReg and setDmaReg: three registers of seven channels, and two more. *)
DmaRegister(offset) ==
    offset % 16 \in (IF offset \div 16 = 7 THEN {0, 4} ELSE {0, 4, 8})

(* Offsets and values a device panics on. *)
Refuses(kind, d, offset, val) ==
    \/ d = Nowhere
    \/ d = "DMA" /\ ~DmaRegister(offset)
    \/ d = "GPU" /\ offset \notin {0, 4}
    \/ /\ d = "MEM_CONTROL"
       /\ (offset = 0 /\ val # Base1) \/ (offset = 4 /\ val # Base2)
=============================================================================
