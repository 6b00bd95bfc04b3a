---------------------------- MODULE MemoryProofs ----------------------------
(***************************************************************************)
(* The memory map and RAM behind it, for any sizes of RAM and BIOS that    *)
(* fit in their holes of the map.                                          *)
(***************************************************************************)
EXTENDS Memory, TLAPS

LEMMA Devices ==
    Device = {"RAM", "BIOS", "MEM_CONTROL", "RAM_SIZE", "CACHE_CONTROL", "SPU",
              "EXPANSION_1", "EXPANSION_2", "IRQ_CONTROL", "TIMERS", "DMA", "GPU"}
BY SMT DEF Device, Map

LEMMA Ranges ==
    /\ Map["RAM"] = Range(0, 0, RAM_SIZE)
    /\ Map["BIOS"] = Range(0, \h1fc00000, BIOS_SIZE)
    /\ Map["MEM_CONTROL"] = Range(0, \h1f801000, 36)
    /\ Map["RAM_SIZE"] = Range(0, \h1f801060, 4)
    /\ Map["CACHE_CONTROL"] = Range(7, \h1ffe0130, 4)
    /\ Map["SPU"] = Range(0, \h1f801c00, 640)
    /\ Map["EXPANSION_1"] = Range(0, \h1f000000, 512 * 1024)
    /\ Map["EXPANSION_2"] = Range(0, \h1f802000, 66)
    /\ Map["IRQ_CONTROL"] = Range(0, \h1f801070, 8)
    /\ Map["TIMERS"] = Range(0, \h1f801100, \h30)
    /\ Map["DMA"] = Range(0, \h1f801080, \h80)
    /\ Map["GPU"] = Range(0, \h1f801810, 8)
BY SMT DEF Map

(* BIOS is above the others, and CACHE_CONTROL in a segment of its own.   *)
LEMMA Highest ==
    ASSUME NEW e \in Device
    PROVE  /\ e # "CACHE_CONTROL" => Map[e].seg = 0
           /\ e \notin {"CACHE_CONTROL", "BIOS"} =>
                Map[e].base + Map[e].size <= \h1fc00000
           /\ Map[e].base \in Nat /\ Map[e].size \in Nat
BY Devices, Ranges, SizeAssumption, MapAssumption, SMTT(60) DEF Range

(* The twelve ranges do not overlap. *)
LEMMA Disjoint ==
    ASSUME NEW a \in Address, NEW d \in Device, NEW e \in Device,
           Contains(a, Map[d]), Contains(a, Map[e])
    PROVE  d = e
<1>1. a.seg \in Int /\ a.low \in Int
  BY SizeAssumption, MapAssumption, SMT DEF Address
<1>2. d = "RAM" => d = e
  BY <1>1, Devices, Ranges, SizeAssumption, MapAssumption, SMTT(60) DEF Contains, Range
<1>3. d \in {"MEM_CONTROL", "RAM_SIZE", "IRQ_CONTROL", "DMA"} => d = e
  BY <1>1, Devices, Ranges, SizeAssumption, MapAssumption, SMTT(60) DEF Contains, Range
<1>4. d \in {"SPU", "EXPANSION_1", "EXPANSION_2", "TIMERS", "GPU"} => d = e
  BY <1>1, Devices, Ranges, SizeAssumption, MapAssumption, SMTT(60) DEF Contains, Range
<1>5. ASSUME d = "CACHE_CONTROL" PROVE d = e
  <2>1. a.seg = 7
    <3>1. Contains(a, Map["CACHE_CONTROL"]) /\ Map["CACHE_CONTROL"].seg = 7
      BY <1>5, Ranges, SMT DEF Range
    <3> QED  BY <3>1 DEF Contains
  <2>2. e # "CACHE_CONTROL" => a.seg = 0
    BY Highest, SMT DEF Contains
  <2> QED
    BY <1>5, <2>1, <2>2, SMT
<1>6. ASSUME d = "BIOS" PROVE d = e
  <2>1. a.seg = 0 /\ \h1fc00000 <= a.low
    <3>1. /\ Contains(a, Map["BIOS"])
          /\ Map["BIOS"].seg = 0 /\ Map["BIOS"].base = \h1fc00000
      BY <1>6, Ranges, SMT DEF Range
    <3> QED  BY <3>1, SMT DEF Contains
  <2>2. e = "CACHE_CONTROL" => a.seg = 7
    BY Ranges, SMT DEF Contains, Range
  <2>3. e \notin {"CACHE_CONTROL", "BIOS"} => a.low < \h1fc00000
    BY <1>1, Highest, SMT DEF Contains
  <2> QED
    BY <1>1, <1>6, <2>1, <2>2, <2>3, SMT
<1> QED
  BY <1>2, <1>3, <1>4, <1>5, <1>6, Devices, SMT
-----------------------------------------------------------------------------
(* What answers an access is a device whose range holds the address. *)
LEMMA TargetHolds ==
    ASSUME NEW kind, NEW width, NEW a
    PROVE  LET d == Target(kind, width, a) IN
           d # Nowhere => /\ d \in Device /\ d \in Dispatch(kind, width)
                          /\ Contains(MaskRegion(a), Map[d])
<1>1. Hits(kind, width, a) # {} =>
          Target(kind, width, a) \in Hits(kind, width, a)
  BY Zenon DEF Target
<1>2. Dispatch(kind, width) \subseteq Device
  BY Devices DEF Dispatch
<1>3. Hits(kind, width, a) = {} => Target(kind, width, a) = Nowhere
  BY Zenon DEF Target
<1> QED
  BY <1>1, <1>2, <1>3 DEF Hits

LEMMA Masked ==
    ASSUME NEW a \in Address
    PROVE  /\ MaskRegion(a) \in Address
           /\ MaskRegion(a).low = a.low
           /\ MaskRegion(a).seg = 0 <=> a.seg \in {0, 4, 5}
BY DEF Address, MaskRegion

InRam(a) == a.seg \in {0, 4, 5} /\ a.low < RAM_SIZE

(* All six functions send the addresses of RAM, and no others, to RAM. *)
LEMMA RamIsTarget ==
    ASSUME NEW kind \in {"load", "store"}, NEW width \in Width, NEW a \in Address
    PROVE  /\ Target(kind, width, a) = "RAM" <=> InRam(a)
           /\ Offset("RAM", a) = a.low
<1>1. Map["RAM"].seg = 0 /\ Map["RAM"].base = 0 /\ Map["RAM"].size = RAM_SIZE
  BY Ranges, SMT DEF Range
<1>2. a.low \in Nat
  BY SizeAssumption, MapAssumption, SMT DEF Address
<1>3. Contains(MaskRegion(a), Map["RAM"]) <=> InRam(a)
  <2>1. /\ MaskRegion(a).low = a.low
        /\ MaskRegion(a).seg = 0 <=> a.seg \in {0, 4, 5}
    BY Masked
  <2>2. RAM_SIZE \in Nat
    BY SizeAssumption, MapAssumption, SMT
  <2>3. 0 <= a.low /\ 0 + RAM_SIZE = RAM_SIZE
    BY <1>2, <2>2, SMT
  <2> QED
    BY <1>1, <2>1, <2>3, Zenon DEF Contains, InRam
<1>4. "RAM" \in Device /\ "RAM" \in Dispatch(kind, width) /\ Nowhere # "RAM"
  BY Devices DEF Dispatch, Width, Nowhere
<1>5. ASSUME InRam(a) PROVE Target(kind, width, a) = "RAM"
  <2>1. "RAM" \in Hits(kind, width, a)
    BY <1>3, <1>4, <1>5 DEF Hits
  <2>2. Target(kind, width, a) \in Hits(kind, width, a)
    BY <2>1, Zenon DEF Target
  <2>3. /\ Target(kind, width, a) \in Device
        /\ Contains(MaskRegion(a), Map[Target(kind, width, a)])
    BY <2>2, Devices DEF Hits, Dispatch
  <2> QED
    BY <1>3, <1>4, <1>5, <2>3, Masked, Disjoint
<1>6. ASSUME Target(kind, width, a) = "RAM" PROVE InRam(a)
  BY <1>3, <1>4, <1>6, TargetHolds
<1>7. Offset("RAM", a) = a.low
  BY <1>1, <1>2, Masked DEF Offset
<1> QED
  BY <1>5, <1>6, <1>7
-----------------------------------------------------------------------------
(* A step is an access by a load, a store or a panic. *)
LEMMA Steps ==
    ASSUME Next
    PROVE  \E a \in Address, width \in Width :
             \/ Load(width, a)
             \/ \E val \in Bytes(width) : Store(width, a, val)
             \/ \E kind \in {"load", "store"}, val \in Bytes(width) :
                   Panic(kind, width, a, val)
<1>1. PICK a \in Addresses, width \in Width :
          \/ Load(width, a)
          \/ \E word \in Values : Store(width, a, LowPart(word, width))
          \/ Panic("load", width, a, [i \in 0 .. width - 1 |-> 0])
          \/ \E word \in Values : Panic("store", width, a, LowPart(word, width))
  BY DEF Next
<1>2. a \in Address
  BY AccessAssumption
<1>3. [i \in 0 .. width - 1 |-> 0] \in Bytes(width)
  BY SizeAssumption, MapAssumption, SMT DEF Bytes, Byte
<1>4. ASSUME NEW word \in Values PROVE LowPart(word, width) \in Bytes(width)
  <2>1. word \in [0 .. 3 -> Byte]
    BY AccessAssumption DEF Bytes
  <2>2. \A i \in 0 .. width - 1 : i \in 0 .. 3
    BY DEF Width
  <2> QED
    BY <2>1, <2>2 DEF LowPart, Bytes
<1> QED
  BY <1>1, <1>2, <1>3, <1>4

(* The values a load may return are values of its width. *)
LEMMA AnswersType ==
    ASSUME NEW d, NEW offset, NEW width \in Width, NEW val \in Answers(d, offset, width)
    PROVE  val \in Bytes(width)
<1>1. BYTE - 1 \in Byte /\ 0 \in Byte
  BY SizeAssumption, MapAssumption, SMT DEF Byte
<1> QED
  BY <1>1 DEF Answers, Read, Bytes

(* The bytes of memory stay bytes. *)
LEMMA StoreBytesType ==
    ASSUME NEW memory \in [0 .. RAM_SIZE - 1 -> Byte], NEW offset \in Int,
           NEW width \in Width, NEW val \in Bytes(width)
    PROVE  StoreBytes(memory, offset, width, val) \in [0 .. RAM_SIZE - 1 -> Byte]
<1>1. ASSUME NEW c \in 0 .. RAM_SIZE - 1, offset <= c, c < offset + width
      PROVE  val[c - offset] \in Byte
  <2>1. c - offset \in 0 .. width - 1
    BY <1>1, SMT DEF Width
  <2> QED
    BY <2>1 DEF Bytes
<1> QED
  BY <1>1 DEF StoreBytes

LEMMA OffsetType ==
    ASSUME NEW a \in Address, NEW d \in Device
    PROVE  Offset(d, a) = a.low - Map[d].base /\ Offset(d, a) \in Int /\ a.low \in Nat
<1>1. a.low \in Nat
  BY SizeAssumption, MapAssumption, SMT DEF Address
<1>2. MaskRegion(a).low = a.low /\ Map[d].base \in Nat
  BY Masked, Highest
<1> QED
  BY <1>1, <1>2 DEF Offset

LEMMA TypeInit == Init => TypeOK
<1> SUFFICES ASSUME Init PROVE TypeOK
  OBVIOUS
<1>1. Fill \in Byte /\ 0 \in Byte
  BY SizeAssumption, MapAssumption, SMT DEF Byte, Fill
<1>2. mRam \in [0 .. RAM_SIZE - 1 -> Byte]
  BY <1>1 DEF Init
<1>3. mBuffer \in [0 .. BIOS_SIZE - 1 -> Byte]
  BY AccessAssumption DEF Init
<1>4. /\ access.kind = "load" /\ access.width = 1 /\ access.device = Nowhere
      /\ access.addr = [seg |-> 7, low |-> 0] /\ access.val = [i \in 0 .. 0 |-> 0]
  BY DEF Init, NoAccess
<1>5. access.addr \in Address
  BY <1>4, SizeAssumption, MapAssumption, SMT DEF Address
<1>6. access.val \in Bytes(1)
  BY <1>1, <1>4 DEF Bytes
<1>7. mOps \in 0 .. MaxOps
  BY SizeAssumption, MapAssumption, SMT DEF Init
<1>8. running \in BOOLEAN
  BY DEF Init
<1> QED
  BY <1>2, <1>3, <1>4, <1>5, <1>6, <1>7, <1>8 DEF TypeOK, Width

(* What every access does to the observers. *)
LEMMA AccessType ==
    ASSUME TypeOK, Next, NEW kind \in {"load", "store", "panic"}, NEW width \in Width,
           NEW a \in Address, NEW val \in Bytes(width), NEW d \in Device \cup {Nowhere},
           Accesses(kind, width, a, val, d)
    PROVE  /\ access'.kind = kind /\ access'.width = width /\ access'.addr = a
           /\ access'.val = val /\ access'.device = d
           /\ mOps' \in 0 .. MaxOps /\ mBuffer' = mBuffer
<1>1. mOps \in 0 .. MaxOps /\ mOps < MaxOps
  BY DEF TypeOK, Next
<1>2. mOps + 1 \in 0 .. MaxOps
  BY <1>1, SizeAssumption, MapAssumption, SMT
<1> QED
  BY <1>2 DEF Accesses

LEMMA TypeStep ==
    ASSUME TypeOK, Next
    PROVE  TypeOK'
<1>1. PICK a \in Address, width \in Width :
          \/ Load(width, a)
          \/ \E val \in Bytes(width) : Store(width, a, val)
          \/ \E kind \in {"load", "store"}, val \in Bytes(width) :
                Panic(kind, width, a, val)
  BY Steps
<1>2. CASE Load(width, a)
  <2> DEFINE d == Target("load", width, a)
  <2>1. PICK val \in Answers(d, Offset(d, a), width) :
            Accesses("load", width, a, val, d)
    BY <1>2 DEF Load
  <2>2. val \in Bytes(width)
    BY AnswersType
  <2>3. d \in Device \cup {Nowhere}
    BY TargetHolds
  <2>4. mRam' = mRam /\ running' = running
    BY <1>2 DEF Load
  <2> HIDE DEF d
  <2> QED
    BY <2>1, <2>2, <2>3, <2>4, AccessType DEF TypeOK
<1>3. ASSUME NEW val \in Bytes(width), Store(width, a, val) PROVE TypeOK'
  <2> DEFINE d == Target("store", width, a)
  <2>1. Accesses("store", width, a, val, d) /\ running' = running
    BY <1>3 DEF Store
  <2>2. d \in Device \cup {Nowhere}
    BY TargetHolds
  <2>3. mRam' \in [0 .. RAM_SIZE - 1 -> Byte]
    <3>1. d = "RAM" => Offset(d, a) \in Int
      BY OffsetType, Devices
    <3>2. mRam' = IF d = "RAM" THEN StoreBytes(mRam, Offset(d, a), width, val) ELSE mRam
      BY <1>3 DEF Store
    <3> HIDE DEF d
    <3> QED
      BY <3>1, <3>2, StoreBytesType DEF TypeOK
  <2> HIDE DEF d
  <2> QED
    BY <2>1, <2>2, <2>3, AccessType DEF TypeOK
<1>4. ASSUME NEW kind \in {"load", "store"}, NEW val \in Bytes(width),
             Panic(kind, width, a, val)
      PROVE  TypeOK'
  <2>1. Target(kind, width, a) \in Device \cup {Nowhere}
    BY TargetHolds
  <2>2. /\ Accesses("panic", width, a, val, Target(kind, width, a))
        /\ mRam' = mRam /\ running' = FALSE
    BY <1>4 DEF Panic
  <2> QED
    BY <2>1, <2>2, AccessType DEF TypeOK
<1> QED
  BY <1>1, <1>2, <1>3, <1>4

(* The variables of the bus keep their types. *)
THEOREM TypeCorrect == Spec => []TypeOK
<1>1. TypeOK /\ UNCHANGED vars => TypeOK'
  BY DEF TypeOK, vars
<1> QED
  BY TypeInit, TypeStep, <1>1, PTL DEF Spec
-----------------------------------------------------------------------------
(* The last access: who answered it, and why it was the last. *)
AccessInv ==
    /\ access.device # Nowhere =>
         Contains(MaskRegion(access.addr), Map[access.device])
    /\ access.kind = "store" =>
         /\ access.device \in Device /\ access.device \in Dispatch("store", access.width)
         /\ access.addr.low % access.width = 0
    /\ ~running => ~InRam(access.addr)

LEMMA AccessStep ==
    ASSUME TypeOK, Next
    PROVE  AccessInv'
<1>1. PICK a \in Address, width \in Width :
          \/ Load(width, a)
          \/ \E val \in Bytes(width) : Store(width, a, val)
          \/ \E kind \in {"load", "store"}, val \in Bytes(width) :
                Panic(kind, width, a, val)
  BY Steps
<1>2. running
  BY DEF Next
<1>3. CASE Load(width, a)
  <2> DEFINE d == Target("load", width, a)
  <2>1. PICK val \in Answers(d, Offset(d, a), width) :
            Accesses("load", width, a, val, d)
    BY <1>3 DEF Load
  <2>2. running'
    BY <1>2, <1>3 DEF Load
  <2>3. d # Nowhere => Contains(MaskRegion(a), Map[d])
    BY TargetHolds
  <2>4. access'.kind = "load" /\ access'.addr = a /\ access'.device = d
    BY <2>1 DEF Accesses
  <2> HIDE DEF d
  <2> QED
    BY <2>2, <2>3, <2>4 DEF AccessInv
<1>4. ASSUME NEW val \in Bytes(width), Store(width, a, val) PROVE AccessInv'
  <2> DEFINE d == Target("store", width, a)
  <2>1. /\ Accesses("store", width, a, val, d)
        /\ running' /\ d # Nowhere /\ a.low % width = 0
    BY <1>2, <1>4 DEF Store
  <2>2. /\ d \in Device /\ d \in Dispatch("store", width)
        /\ Contains(MaskRegion(a), Map[d])
    BY <2>1, TargetHolds
  <2>3. access'.addr = a /\ access'.device = d /\ access'.width = width
    BY <2>1 DEF Accesses
  <2> HIDE DEF d
  <2> QED
    BY <2>1, <2>2, <2>3 DEF AccessInv
<1>5. ASSUME NEW kind \in {"load", "store"}, NEW val \in Bytes(width),
             Panic(kind, width, a, val)
      PROVE  AccessInv'
  <2> DEFINE d == Target(kind, width, a)
  <2>1. /\ Accesses("panic", width, a, val, d)
        /\ d = Nowhere \/ Refuses(kind, d, Offset(d, a), val)
    BY <1>5 DEF Panic
  <2>2. ~Refuses(kind, "RAM", Offset("RAM", a), val) /\ Nowhere # "RAM"
    BY DEF Refuses, Nowhere
  <2>3. ~InRam(a)
    BY <2>1, <2>2, RamIsTarget
  <2>4. d # Nowhere => Contains(MaskRegion(a), Map[d])
    BY TargetHolds
  <2>5. access'.kind = "panic" /\ access'.addr = a /\ access'.device = d
    BY <2>1 DEF Accesses
  <2> HIDE DEF d
  <2> QED
    BY <2>3, <2>4, <2>5 DEF AccessInv
<1> QED
  BY <1>1, <1>3, <1>4, <1>5

LEMMA AccessInvariant == Spec => [](TypeOK /\ AccessInv)
<1>1. Init => AccessInv
  BY DEF Init, NoAccess, AccessInv
<1>2. AccessInv /\ UNCHANGED vars => AccessInv'
  BY DEF AccessInv, vars
<1> QED
  BY <1>1, <1>2, AccessStep, TypeCorrect, PTL DEF Spec

(* Loads and stores of every width meet at the same device. *)
THEOREM OneDeviceCorrect == Spec => []OneDevice
<1>1. TypeOK /\ AccessInv => OneDevice
  <2> SUFFICES ASSUME TypeOK, AccessInv, NEW d \in Device,
                      Contains(MaskRegion(access.addr), Map[d]),
                      access.device # Nowhere
               PROVE  access.device = d
    BY DEF OneDevice
  <2>1. access.device \in Device /\ access.addr \in Address
    BY DEF TypeOK
  <2>2. Contains(MaskRegion(access.addr), Map[access.device])
    BY DEF AccessInv
  <2>3. MaskRegion(access.addr) \in Address
    BY <2>1, Masked
  <2> QED
    BY <2>1, <2>2, <2>3, Disjoint
<1> QED
  BY <1>1, AccessInvariant, PTL

(* No address of RAM ends the program. *)
THEOREM RamAnswersCorrect == Spec => []RamAnswers
<1>1. AccessInv => RamAnswers
  BY DEF AccessInv, RamAnswers, InRam
<1> QED
  BY <1>1, AccessInvariant, PTL
-----------------------------------------------------------------------------
(* Ranges begin at, and span, multiples of the widths they are stored to.  *)
LEMMA Multiples ==
    ASSUME NEW width \in Width, NEW d \in Dispatch("store", width)
    PROVE  Map[d].base % width = 0 /\ Map[d].size % width = 0
<1>1. CASE width = 4
  <2>1. d \in {"RAM", "MEM_CONTROL", "RAM_SIZE", "CACHE_CONTROL", "IRQ_CONTROL",
               "DMA", "GPU", "TIMERS"}
    BY <1>1 DEF Dispatch
  <2>2. Map[d].base % 4 = 0 /\ Map[d].size % 4 = 0
    BY <2>1, Ranges, SizeAssumption, MapAssumption, SMTT(60) DEF Range
  <2> QED
    BY <1>1, <2>2
<1>2. CASE width = 2
  <2>1. d \in {"RAM", "SPU", "TIMERS", "IRQ_CONTROL"}
    BY <1>2 DEF Dispatch
  <2>2. Map[d].base % 2 = 0 /\ Map[d].size % 2 = 0
    BY <2>1, Ranges, SizeAssumption, MapAssumption, SMTT(60) DEF Range
  <2> QED
    BY <1>2, <2>2
<1>3. CASE width = 1
  <2>1. d \in Device
    BY <1>3, Devices DEF Dispatch
  <2>2. Map[d].base \in Nat /\ Map[d].size \in Nat
    BY <2>1, Highest
  <2> QED
    BY <1>3, <2>2, SMT
<1> QED
  BY <1>1, <1>2, <1>3 DEF Width

(* An aligned store that begins in a range ends in it. *)
THEOREM StoresInsideCorrect == Spec => []StoresStayInside
<1>1. TypeOK /\ AccessInv => StoresStayInside
  <2> SUFFICES ASSUME TypeOK, AccessInv, access.kind = "store"
               PROVE  Offset(access.device, access.addr)
                        \in 0 .. Map[access.device].size - access.width
    BY DEF StoresStayInside
  <2> DEFINE w == access.width
             d == access.device
             low == access.addr.low
             base == Map[d].base
             size == Map[d].size
  <2>1. /\ w \in Width /\ access.addr \in Address /\ d \in Device
        /\ d \in Dispatch("store", w) /\ low % w = 0
    BY DEF TypeOK, AccessInv
  <2>2. Contains(MaskRegion(access.addr), Map[d])
    <3>1. Nowhere \notin Device
      BY Devices DEF Nowhere
    <3> QED
      BY <2>1, <3>1 DEF AccessInv
  <2>3. base \in Nat /\ size \in Nat /\ low \in Nat
    BY <2>1, Highest, OffsetType
  <2>4. base <= low /\ low < base + size
    BY <2>1, <2>2, Masked DEF Contains
  <2>5. base % w = 0 /\ size % w = 0
    BY <2>1, Multiples
  <2>6. Offset(d, access.addr) = low - base
    BY <2>1, OffsetType
  <2>7. w \in {1, 2, 4} /\ low % w = 0
    BY <2>1 DEF Width
  <2> HIDE DEF w, d, low, base, size
  <2>8. low - base \in 0 .. size - w
    <3>1. CASE w = 1  BY <3>1, <2>3, <2>4, SMT
    <3>2. CASE w = 2  BY <3>2, <2>3, <2>4, <2>5, <2>7, SMT
    <3>3. CASE w = 4  BY <3>3, <2>3, <2>4, <2>5, <2>7, SMT
    <3> QED  BY <3>1, <3>2, <3>3, <2>7
  <2> QED
    BY <2>6, <2>8 DEF w, d, low, base, size
<1> QED
  BY <1>1, AccessInvariant, PTL
-----------------------------------------------------------------------------
(* The cells of an access are those behind its offset in RAM, if it is one *)
(* to RAM, and none otherwise.                                             *)
LEMMA CoveredCells ==
    ASSUME NEW kind \in {"load", "store"}, NEW width \in Width, NEW a \in Address,
           access'.addr = a, access'.width = width
    PROVE  /\ Target(kind, width, a) = "RAM" =>
                Flat!Covered(access') =
                    {c \in 0 .. RAM_SIZE - 1 : a.low <= c /\ c < a.low + width}
           /\ Target(kind, width, a) # "RAM" => Flat!Covered(access') = {}
<1>1. a.low \in Nat /\ RAM_SIZE \in Nat
  BY SizeAssumption, MapAssumption, SMT DEF Address
<1>2. ASSUME NEW c \in 0 .. RAM_SIZE - 1, a.low <= c PROVE a.low < RAM_SIZE
  BY <1>1, <1>2, SMT
<1>3. Target(kind, width, a) = "RAM" <=> InRam(a)
  BY RamIsTarget
<1> QED
  BY <1>2, <1>3 DEF Flat!Covered, Flat!Mirrors, InRam

LEMMA FlatStep ==
    ASSUME TypeOK, Next
    PROVE  Flat!Read \/ Flat!Write \/ Flat!Fail
<1>1. PICK a \in Address, width \in Width :
          \/ Load(width, a)
          \/ \E val \in Bytes(width) : Store(width, a, val)
          \/ \E kind \in {"load", "store"}, val \in Bytes(width) :
                Panic(kind, width, a, val)
  BY Steps
<1>2. a.low \in Nat /\ RAM_SIZE \in Nat /\ width \in Nat
  BY SizeAssumption, MapAssumption, SMT DEF Address, Width
<1>3. Offset("RAM", a) = a.low
  BY RamIsTarget
<1>4. ASSUME Load(width, a) PROVE Flat!Read
  <2> DEFINE d == Target("load", width, a)
  <2>1. PICK val \in Answers(d, Offset(d, a), width) :
            Accesses("load", width, a, val, d)
    BY <1>4 DEF Load
  <2>2. /\ access'.kind = "load" /\ access'.addr = a /\ access'.width = width
        /\ access'.val = val
    BY <2>1 DEF Accesses
  <2>3. mRam' = mRam
    BY <1>4 DEF Load
  <2>4. ASSUME NEW c \in Flat!Covered(access') PROVE val[c - a.low] = mRam[c]
    <3>1. d = "RAM"
      BY <2>2, <2>4, CoveredCells
    <3>2. c \in 0 .. RAM_SIZE - 1 /\ a.low <= c /\ c < a.low + width
      BY <2>2, <2>4, <3>1, CoveredCells
    <3>3. val \in Read(mRam, RAM_SIZE, a.low, width)
      BY <1>3, <2>1, <3>1 DEF Answers
    <3>4. /\ c - a.low \in 0 .. width - 1
          /\ a.low + (c - a.low) = c /\ c < RAM_SIZE
      BY <1>2, <3>2, SMT
    <3> QED
      BY <3>3, <3>4 DEF Read
  <2> QED
    BY <2>2, <2>3, <2>4 DEF Flat!Read
<1>5. ASSUME NEW val \in Bytes(width), Store(width, a, val) PROVE Flat!Write
  <2> DEFINE d == Target("store", width, a)
  <2>1. /\ access'.kind = "store" /\ access'.addr = a /\ access'.width = width
        /\ access'.val = val
    BY <1>5 DEF Store, Accesses
  <2>2. mRam' = IF d = "RAM" THEN StoreBytes(mRam, Offset(d, a), width, val) ELSE mRam
    BY <1>5 DEF Store
  <2>3. mRam \in [0 .. RAM_SIZE - 1 -> Byte]
    BY DEF TypeOK
  <2>4. CASE d = "RAM"
    <3>1. Flat!Covered(access') =
              {c \in 0 .. RAM_SIZE - 1 : a.low <= c /\ c < a.low + width}
      BY <2>1, <2>4, CoveredCells
    <3>2. mRam' = [c \in 0 .. RAM_SIZE - 1 |->
                      IF a.low <= c /\ c < a.low + width THEN val[c - a.low]
                                                         ELSE mRam[c]]
      BY <1>3, <2>2, <2>3, <2>4 DEF StoreBytes
    <3> QED
      BY <2>1, <3>1, <3>2 DEF Flat!Write
  <2>5. CASE d # "RAM"
    <3>1. Flat!Covered(access') = {}
      BY <2>1, <2>5, CoveredCells
    <3>2. mRam' = [c \in 0 .. RAM_SIZE - 1 |-> mRam[c]]
      BY <2>2, <2>3, <2>5
    <3> QED
      BY <2>1, <3>1, <3>2 DEF Flat!Write
  <2> QED
    BY <2>4, <2>5
<1>6. ASSUME NEW kind \in {"load", "store"}, NEW val \in Bytes(width),
             Panic(kind, width, a, val)
      PROVE  Flat!Fail
  BY <1>6 DEF Panic, Accesses, Flat!Fail
<1> QED
  BY <1>1, <1>4, <1>5, <1>6

(* The bus implements one flat array of bytes for RAM. *)
THEOREM FlatRamCorrect == Spec => FlatRam
<1>1. Init => Flat!Init
  BY TypeInit DEF TypeOK, Flat!Init
<1>2. TypeOK /\ [Next]_vars => [Flat!Read \/ Flat!Write \/ Flat!Fail]_<<mRam, access>>
  <2> SUFFICES ASSUME TypeOK, [Next]_vars
               PROVE  [Flat!Read \/ Flat!Write \/ Flat!Fail]_<<mRam, access>>
    OBVIOUS
  <2>1. CASE Next
    BY <2>1, FlatStep
  <2>2. CASE UNCHANGED vars
    BY <2>2 DEF vars
  <2> QED
    BY <2>1, <2>2
<1> QED
  BY <1>1, <1>2, TypeCorrect, PTL DEF Spec, FlatRam, Flat!Spec
=============================================================================
