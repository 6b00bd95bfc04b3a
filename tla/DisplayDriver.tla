--------------------------- MODULE DisplayDriver ---------------------------
(***************************************************************************)
(* A program that draws with an ordering table, the use the registers of   *)
(* bus.cpp, dma.cpp and gpu.cpp are made for.  Once it has set up the      *)
(* devices it makes one picture after the other: it has the DMA clear the  *)
(* table, inserts packets at any depth and uploads images, has the DMA     *)
(* send the list to the GPU, and displays the result.  It polls the        *)
(* registers it has to wait for.                                           *)
(*                                                                         *)
(* The program is not part of the emulator.  It stands for the programs    *)
(* the emulator exists for, and keeps to what the comments of the source   *)
(* say of the registers.                                                   *)
(***************************************************************************)
EXTENDS System, FiniteSets

CONSTANTS
    Depths,         \* entries of the ordering table
    OrderingTable,  \* its address
    Slots,          \* the addresses the packets are put at, in this order
    Packets,        \* sequences of commands, which are sequences of words
    Images,         \* [size, pixels]: the last parameter of 0xa0, and words
    ImageBuffer,    \* the address of the pixels
    Segments        \* the segments the program may use its addresses in

ASSUME DriverAssumption ==
    /\ Depths \in 1 .. 2^16 - 1
    /\ Segments \subseteq {0, 4, 5}
    /\ RAM_SIZE >= 8 /\ RAM_SIZE <= 2^24

VARIABLES
    todo,       \* the loads and stores that are left of the current routine
    stage,
    used,       \* the slots filled for the picture, and the images
    segment,
    shown       \* observed: the commands the current list has run

vars == <<systemVars, todo, stage, used, segment, shown>>

Store(at, word) == [kind |-> "store", at |-> at, word |-> word, from |-> at]
(* A word with the low bits of another one. *)
Link(at, hi, from) == [kind |-> "link", at |-> at, word |-> AsWord(hi, 0), from |-> from]
(* Polls until the bits of word are those of the register. *)
Wait(at, mask, word) == [kind |-> "wait", at |-> mask, word |-> word, from |-> at]

Pointer(a) == AsWord(segment * 2^5, a)
IRQ_MASK == \h1f801074
DmaAddress(port, minor) == \h1f801080 + 16 * port + minor
GP0 == \h1f801810
GP1 == \h1f801814

DmaDone(port) == Wait(DmaAddress(port, 8), {24}, {})
GpuReady == Wait(GP1, {26, 28}, {26, 28})

Entry(d) == OrderingTable + 4 * d
Words == [packet \in Packets |->
    LET joined[n \in 0 .. Len(packet)] ==
          IF n = 0 THEN <<>> ELSE joined[n - 1] \o packet[n]
    IN joined[Len(packet)]]
Fill(at, words) == [k \in 1 .. Len(words) |-> Store(at + 4 * (k - 1), words[k])]

Table == {Entry(d) : d \in 0 .. Depths - 1}
(* The cells of slot n with a packet in it, and those of the pixels. *)
SlotCells(n, packet) == {Slots[n] + 4 * k : k \in 0 .. Len(Words[packet])}
PixelCells(image) == {ImageBuffer + 4 * (k - 1) : k \in 1 .. Len(image.pixels)}

(* Table, slots and pixels are in RAM and apart. *)
ASSUME LayoutAssumption ==
    /\ OrderingTable \in Nat /\ Table \subseteq D!Cell
    /\ Slots \in Seq(D!Cell)
    /\ \A n \in DOMAIN Slots, p \in Packets :
         /\ SlotCells(n, p) \subseteq D!Cell \ Table
         /\ \A m \in DOMAIN Slots \ {n}, q \in Packets : SlotCells(m, q) \cap SlotCells(n, p) = {}
         /\ \A image \in Images : PixelCells(image) \cap SlotCells(n, p) = {}
    /\ ImageBuffer \in Nat
    /\ \A image \in Images : PixelCells(image) \subseteq D!Cell \ Table

(* A command that the GPU has, but for the loading of an image. *)
IsCommand(words) ==
    LET op == words[1].hi
    IN /\ op \in G!MethodOps \ {\ha0} /\ Len(words) = G!Length(op)
       /\ op = \he1 => G!Slice(words[1].lo, 7, 2) # 3

(* A packet is whole commands, whose words the size in its header can count.*)
ASSUME PacketAssumption ==
    \A packet \in Packets :
        /\ packet \in Seq(Seq(D!Word)) /\ Len(Words[packet]) <= 255
        /\ \A n \in DOMAIN packet : IsCommand(packet[n])

(* Width times height, the two halves of the size. *)
PixelCount(size) == (size.lo % 2^16) * (size.hi * 2^8 + size.lo \div 2^16)

(* An image has two pixels in a word, the last of which may be padding. *)
ASSUME ImageAssumption ==
    /\ Images \subseteq [size : D!Word, pixels : Seq(D!Word)]
    /\ \A image \in Images :
         /\ Len(image.pixels) \in 1 .. 2^16 - 1
         /\ 2 * Len(image.pixels) \in {PixelCount(image.size), PixelCount(image.size) + 1}

SetUp == <<Store(IRQ_MASK, Zero),
           Store(DmaAddress(7, 0), AsWord(\h0b, \hbbbbbb)),
           Store(DmaAddress(7, 4), Zero),
           Store(GP1, AsWord(0, 0)),
           Store(GP1, AsWord(4, 2))>>

ClearTable == <<Store(DmaAddress(6, 0), Pointer(Entry(Depths - 1))),
                Store(DmaAddress(6, 4), AsWord(0, Depths)),
                Store(DmaAddress(6, 8), AsWord(\h11, \h000002)),
                DmaDone(6)>>

AddPacket(slot, d, packet) ==
    Fill(slot + 4, Words[packet])
      \o <<Link(slot, Len(Words[packet]), Entry(d)), Store(Entry(d), AsWord(0, slot))>>

LoadImage(image) ==
    <<Store(GP0, AsWord(\ha0, 0)), Store(GP0, Zero), Store(GP0, image.size)>>
      \o Fill(ImageBuffer, image.pixels)
      \o <<GpuReady,
           Store(DmaAddress(2, 0), Pointer(ImageBuffer)),
           Store(DmaAddress(2, 4), AsWord(0, 2^16 + Len(image.pixels))),
           Store(DmaAddress(2, 8), AsWord(\h01, \h000201)),
           DmaDone(2)>>

DrawTable == <<GpuReady,
               Store(DmaAddress(2, 0), Pointer(Entry(Depths - 1))),
               Store(DmaAddress(2, 4), Zero),
               Store(DmaAddress(2, 8), AsWord(\h01, \h000401)),
               DmaDone(2),
               Store(GP0, AsWord(\he5, 0))>>
-----------------------------------------------------------------------------
Init ==
    /\ SystemInit
    /\ todo = SetUp /\ stage = "clear" /\ used = 0
    /\ segment \in Segments
    /\ shown = <<>>

Listing == xfer.loop \in {"header", "packet"}

(* A command of the list has run. *)
Observe ==
    shown' = IF ~Listing' THEN <<>>
             ELSE IF running' /\ ran' # G!NoCommand THEN Append(shown, ran'.words)
             ELSE shown

At(a) == [seg |-> IF a = GP0 THEN 5 ELSE segment, low |-> a]

(* One load or store of the routine, or one round of a wait. *)
Do ==
    /\ todo # <<>>
    /\ LET op == Head(todo)
       IN  \/ /\ op.kind = "store"
              /\ Store32(At(op.at), op.word)
              /\ todo' = Tail(todo)
           \/ /\ op.kind = "link"
              /\ Store32(At(op.at), AsWord(op.word.hi, Load32(At(op.from)).lo))
              /\ todo' = Tail(todo)
           \/ /\ op.kind = "wait"
              /\ running /\ xfer = D!Idle
              /\ todo' = IF Bits(Load32(At(op.from))) \cap op.at = op.word
                         THEN Tail(todo) ELSE todo
              /\ UNCHANGED systemVars
    /\ Observe
    /\ UNCHANGED <<stage, used, segment>>

Call(routine) ==
    /\ running /\ xfer = D!Idle /\ todo = <<>>
    /\ todo' = routine
    /\ UNCHANGED <<systemVars, segment, shown>>

NewPicture ==
    /\ stage = "clear"
    /\ Call(ClearTable)
    /\ stage' = "build" /\ used' = 0

InsertPacket(d, packet) ==
    /\ stage = "build" /\ used < Len(Slots)
    /\ Call(AddPacket(Slots[used + 1], d, packet))
    /\ used' = used + 1 /\ UNCHANGED stage

UploadImage(image) ==
    /\ stage = "build" /\ used < Len(Slots)
    /\ Call(LoadImage(image))
    /\ used' = used + 1 /\ UNCHANGED stage

ShowPicture ==
    /\ stage = "build"
    /\ Call(DrawTable)
    /\ stage' = "clear" /\ UNCHANGED used

DmaStep == Transfer /\ Observe /\ UNCHANGED <<todo, stage, used, segment>>

Next == \/ NewPicture \/ ShowPicture
        \/ \E d \in 0 .. Depths - 1, packet \in Packets : InsertPacket(d, packet)
        \/ \E image \in Images : UploadImage(image)
        \/ Do \/ DmaStep

Spec == Init /\ [][Next]_vars
-----------------------------------------------------------------------------
(* The table in RAM: each entry is the head of a chain of packets.         *)
AsCommands == [packet \in Packets |->
    [n \in DOMAIN packet |-> [k \in DOMAIN packet[n] |-> AsCommand(packet[n][k])]]]

Holds(a, packet) ==
    /\ ram[a].hi = Len(Words[packet])
    /\ \A k \in 1 .. Len(Words[packet]) : ram[a + 4 * k] = Words[packet][k]
PacketAt(a) == CHOOSE packet \in Packets : Holds(a, packet)

Chain(d) ==
    LET Linked(a) == a \in {Slots[n] : n \in DOMAIN Slots}
        at[n \in 0 .. Len(Slots)] ==    \* where n links lead
          IF n = 0 THEN ram[Entry(d)].lo
          ELSE IF Linked(at[n - 1]) THEN ram[at[n - 1]].lo ELSE at[n - 1]
        length == Cardinality({n \in 0 .. Len(Slots) - 1 : Linked(at[n])})
    IN [n \in 1 .. length |-> AsCommands[PacketAt(at[n - 1])]]

(* Whatever is inserted in whatever order at whatever depth, through three *)
(* segments, beside images and over the remains of the last picture: the   *)
(* GPU runs exactly the commands of the table, deepest first, each on its  *)
(* own words.  Table, list, port and command buffer are four pieces of     *)
(* code (doDmaBlock, doDmaLinkedList, gp0, CommandBuffer) that have to     *)
(* agree for it.                                                           *)
List == INSTANCE DisplayList WITH
            Packets <- {AsCommands[packet] : packet \in Packets},
            table <- [d \in 0 .. Depths - 1 |-> Chain(d)],
            drawing <- Listing
DrawsDisplayList == List!Spec

(* A program that keeps to the rules never dies of a panic: every address, *)
(* register, transfer and command it uses is there (bus.cpp, gpu.cpp).     *)
NeverPanics == running

(* The devices are where the program believes them to be.  Between two     *)
(* routines GP0 expects no parameter and no pixel: what the DMA sends for  *)
(* an image is what the GPU counts (gp0ImageLoad against transferSize).  A *)
(* poll needs no second round, so that pictures go on for ever: a transfer *)
(* is over when the store that starts it returns, done() has cleared the   *)
(* bit that is polled, and STATUS shows the GPU ready.                     *)
DevicesAreReady ==
    running /\ xfer = D!Idle =>
        IF todo = <<>>
        THEN mGp0WordsRemaining = 0 /\ mGp0Mode = "Command"
        ELSE LET op == Head(todo)
             IN op.kind = "wait" => Bits(Load32(At(op.from))) \cap op.at = op.word
=============================================================================
