----------------------------- MODULE DmaProofs -----------------------------
(***************************************************************************)
(* For every size of RAM and every value the CPU may write: between two    *)
(* CPU stores no channel is left started, no transfer leaves RAM, and      *)
(* blocks, ordering tables and lists are moved exactly.                    *)
(*                                                                         *)
(* The inductive invariants say which channel may be started, the one      *)
(* whose transfer is under way; that a list is read at the cells of RAM;   *)
(* and how much of a block or of a list has been moved so far.             *)
(***************************************************************************)
EXTENDS DmaProps, Induction

ChannelType == [base : 0 .. LOW - 1, block : [size : Nat, count : Nat],
                control : SUBSET ControlBits]
Loop == {"none", "block", "header", "packet"}
XferType == [loop : Loop, port : Port, addr : Address, remsz : Nat, header : Word]

ListAtCell == xfer.loop \in {"header", "packet"} => xfer.addr \in Cell
TypeInv == TypeOK /\ ListAtCell
-----------------------------------------------------------------------------
(* Addresses. *)
LEMMA MaskCell == ASSUME NEW a \in Nat PROVE Mask(a) \in Cell
<1>1. RAMSIZE \in Nat /\ RAMSIZE >= 8 /\ RAMSIZE % 4 = 0
  BY RamAssumption
<1> DEFINE k == RAMSIZE \div 4  q == a \div RAMSIZE  r == a % RAMSIZE  m == k * q
<1>2. k \in Nat /\ RAMSIZE = 4 * k
  BY <1>1
<1>3. q \in Nat /\ r \in 0 .. RAMSIZE - 1 /\ a = RAMSIZE * q + r
  BY <1>1
<1>4. m \in Nat /\ a = 4 * m + r
  BY <1>2, <1>3
<1>5. Mask(a) = r - (a % 4)
  BY DEF Mask
<1> HIDE DEF k, q, r, m
<1>6. r \in Nat /\ a % 4 = r % 4
  BY <1>1, <1>3, <1>4
<1>7. r - (r % 4) \in 0 .. RAMSIZE - 1 /\ (r - (r % 4)) % 4 = 0
  BY <1>1, <1>3, <1>6
<1> QED
  BY <1>5, <1>6, <1>7 DEF Cell, Address

LEMMA StepAddress ==
    ASSUME NEW a \in Address
    PROVE  Forward(a) \in Address /\ Back(a) \in Address
BY RamAssumption DEF Forward, Back, Address

LEMMA StepCell == ASSUME NEW a \in Cell PROVE Forward(a) \in Cell
<1>1. a \in Address /\ a % 4 = 0 /\ RAMSIZE % 4 = 0 /\ RAMSIZE \in Nat
  BY RamAssumption DEF Cell
<1>2. a \in Nat
  BY <1>1 DEF Address
<1>3. (a + 4) % 4 = 0 /\ (a + 4 - RAMSIZE) % 4 = 0
  BY <1>1, <1>2
<1> QED
  BY <1>1, <1>3, StepAddress DEF Cell, Forward
-----------------------------------------------------------------------------
(* The state, type by type. *)
LEMMA TypeParts ==
    TypeOK <=> /\ mChannels \in [Port -> ChannelType]
               /\ mControl \in Word
               /\ mInterrupt \in SUBSET InterruptBits
               /\ mChannelIrqFlags \in SUBSET Port
               /\ ram \in [Cell -> Word]
               /\ xfer \in XferType
               /\ gp0 \in Seq(Word)
               /\ mOps \in 0 .. MaxOps
               /\ running \in BOOLEAN
BY DEF TypeOK, ChannelType, XferType, Loop

(* Writing a register of a channel keeps it a channel. *)
LEMMA WrittenChannel ==
    ASSUME NEW c \in ChannelType
    PROVE  /\ \A v \in Bases : [c EXCEPT !.base = v % LOW] \in ChannelType
           /\ \A v \in Blocks : [c EXCEPT !.block = v] \in ChannelType
           /\ \A v \in Controls : [c EXCEPT !.control = v \cap ControlBits] \in ChannelType
<1>1. ASSUME NEW v \in Bases PROVE v % LOW \in 0 .. LOW - 1
  <2>1. v \in Nat /\ LOW \in Nat /\ LOW >= 8
    BY RamAssumption, InputAssumption
  <2> QED
    BY <2>1
<1>2. ASSUME NEW v \in Blocks PROVE v \in [size : Nat, count : Nat]
  BY InputAssumption
<1> QED
  BY <1>1, <1>2 DEF ChannelType

(* done() leaves a channel that is not started. *)
LEMMA DoneStops ==
    ASSUME NEW c \in ChannelType
    PROVE  Done(c) \in ChannelType /\ ~Active(Done(c))
<1>1. Done(c).control = c.control \ {24, 28}
  BY DEF Done, ChannelType
<1>2. 24 \notin Done(c).control
  BY <1>1
<1>3. Done(c) \in ChannelType
  BY DEF Done, ChannelType
<1> QED
  BY <1>2, <1>3 DEF Active

LEMMA IdleType == Idle \in XferType
<1>1. 0 \in Address
  BY RamAssumption DEF Address
<1>2. [hi |-> 0, lo |-> 0] \in Word
  BY RamAssumption DEF Word
<1> QED
  BY <1>1, <1>2 DEF Idle, XferType, Loop, Port

(* doDma begins the transfer of the channel, within RAM. *)
LEMMA DoDmaStarts ==
    ASSUME NEW p \in Port, NEW c \in ChannelType
    PROVE  /\ DoDma(p, c) \in XferType
           /\ DoDma(p, c).port = p
           /\ DoDma(p, c).loop # "none"
           /\ DoDma(p, c).loop \in {"header", "packet"} => DoDma(p, c).addr \in Cell
<1> DEFINE addr == c.base % RAMSIZE  size == TransferSize(c)
<1>1. c.base \in Nat /\ RAMSIZE \in Nat /\ RAMSIZE >= 8
  BY RamAssumption DEF ChannelType
<1>2. addr \in Address /\ addr \in Nat
  BY <1>1 DEF Address
<1>3. Mask(addr) \in Cell /\ Mask(addr) \in Address
  BY <1>2, MaskCell DEF Cell
<1>4. size \in Nat
  BY DEF ChannelType, TransferSize
<1> HIDE DEF addr, size
<1>5. CASE LinkedList(c)
  <2> DEFINE first == Mask(addr)  none == 0
  <2>1. DoDma(p, c) = [Idle EXCEPT !.port = p, !.loop = "header",
                                   !.addr = first, !.remsz = none]
    BY <1>5 DEF DoDma, addr
  <2>2. first \in Cell /\ first \in Address /\ none \in Nat
    BY <1>3
  <2> HIDE DEF first, none
  <2>3. DoDma(p, c).port = p /\ DoDma(p, c).loop = "header" /\ DoDma(p, c).addr = first
    BY <2>1, IdleType DEF XferType
  <2>4. DoDma(p, c) \in XferType
    BY <2>1, <2>2, IdleType DEF XferType, Loop
  <2> QED
    BY <2>2, <2>3, <2>4
<1>6. CASE ~LinkedList(c)
  <2>1. DoDma(p, c) = [Idle EXCEPT !.port = p, !.loop = "block",
                                   !.addr = addr, !.remsz = size]
    BY <1>6 DEF DoDma, addr, size
  <2> QED
    BY <1>2, <1>4, <2>1, IdleType DEF XferType, Loop
<1> QED
  BY <1>5, <1>6

(* The part of TypeInv that the transfers change. *)
LoopType == /\ mChannels \in [Port -> ChannelType]
            /\ ram \in [Cell -> Word]
            /\ xfer \in XferType /\ ListAtCell
            /\ gp0 \in Seq(Word)

LEMMA SetChannelType ==
    ASSUME LoopType, NEW p \in Port, NEW c \in ChannelType, SetChannel(p, c)
    PROVE  mChannels' \in [Port -> ChannelType] /\ xfer' \in XferType /\ ListAtCell'
<1>1. mChannels' \in [Port -> ChannelType]
  BY DEF SetChannel, LoopType
<1>2. CASE Active(c)
  BY <1>2, <1>1, DoDmaStarts DEF SetChannel, ListAtCell
<1>3. CASE ~Active(c)
  BY <1>3, <1>1, IdleType DEF SetChannel, ListAtCell, Idle
<1> QED
  BY <1>2, <1>3

LEMMA FinishType ==
    ASSUME LoopType, Finish PROVE LoopType'
<1>1. xfer.port \in Port /\ mChannels[xfer.port] \in ChannelType
  BY DEF LoopType, XferType
<1>2. mChannels' \in [Port -> ChannelType]
  BY <1>1, DoneStops DEF Finish, Channel, LoopType
<1>3. xfer' = Idle /\ gp0' = <<>> /\ ram' = ram
  BY DEF Finish
<1> QED
  BY <1>2, <1>3, IdleType DEF LoopType, ListAtCell, Idle

LEMMA NextBlockType ==
    ASSUME LoopType, NextBlock, xfer.loop = "block", xfer.remsz > 0
    PROVE  mChannels' \in [Port -> ChannelType] /\ xfer' \in XferType /\ ListAtCell'
<1>1. xfer.addr \in Address /\ xfer.remsz - 1 \in Nat
  BY DEF LoopType, XferType
<1>2. Forward(xfer.addr) \in Address /\ Back(xfer.addr) \in Address
  BY <1>1, StepAddress
<1>3. xfer' \in XferType /\ xfer'.loop = "block"
  BY <1>1, <1>2 DEF NextBlock, LoopType, XferType
<1> QED
  BY <1>3 DEF NextBlock, LoopType, ListAtCell

LEMMA TableEntryType ==
    ASSUME LoopType PROVE TableEntry \in Word
<1>1. Back(xfer.addr) \in 0 .. LOW - 1
  <2>1. Back(xfer.addr) \in Address
    BY StepAddress DEF LoopType, XferType
  <2> QED
    BY <2>1, RamAssumption DEF Address
<1>2. LOW - 1 \in 0 .. LOW - 1
  BY RamAssumption
<1> QED
  BY <1>1, <1>2 DEF TableEntry, EndMarker, Word

LEMMA TransferType ==
    ASSUME LoopType, Move PROVE LoopType'
<1>1. ASSUME BlockToGpu PROVE LoopType'
  <2>1. xfer.addr \in Nat
    BY RamAssumption DEF LoopType, XferType, Address
  <2>2. ram[Mask(xfer.addr)] \in Word
    BY <2>1, MaskCell DEF LoopType
  <2> QED
    BY <1>1, <2>2, NextBlockType DEF BlockToGpu, LoopType
<1>2. ASSUME BlockToOtc PROVE LoopType'
  <2>1. ram' \in [Cell -> Word]
    BY <1>2, TableEntryType DEF BlockToOtc, LoopType
  <2> QED
    BY <1>2, <2>1, NextBlockType DEF BlockToOtc, LoopType
<1>3. CASE BlockDone \/ ListDone
  BY <1>3, FinishType DEF BlockDone, ListDone
<1>4. ASSUME ListHeader PROVE LoopType'
  <2>1. xfer.addr \in Cell
    BY <1>4 DEF ListHeader, LoopType, ListAtCell
  <2> DEFINE header == ram[xfer.addr]
  <2>2. header \in Word
    BY <2>1 DEF LoopType
  <2> HIDE DEF header
  <2>3. header.hi \in Nat
    BY <2>2 DEF Word
  <2>4. xfer' \in XferType /\ xfer'.addr = xfer.addr
    BY <1>4, <2>2, <2>3 DEF ListHeader, LoopType, XferType, Loop, header
  <2> QED
    BY <1>4, <2>1, <2>4 DEF ListHeader, LoopType, ListAtCell
<1>5. ASSUME ListWord PROVE LoopType'
  <2>1. xfer.addr \in Cell /\ xfer.remsz - 1 \in Nat
    BY <1>5 DEF ListWord, LoopType, ListAtCell, XferType
  <2>2. Forward(xfer.addr) \in Cell /\ Forward(xfer.addr) \in Address
    BY <2>1, StepCell DEF Cell
  <2>3. ram[Forward(xfer.addr)] \in Word
    BY <2>2 DEF LoopType
  <2>4. xfer' \in XferType /\ xfer'.addr = Forward(xfer.addr)
    BY <1>5, <2>1, <2>2 DEF ListWord, LoopType, XferType
  <2> QED
    BY <1>5, <2>2, <2>3, <2>4 DEF ListWord, LoopType, ListAtCell
<1>6. ASSUME ListNext PROVE LoopType'
  <2>1. xfer.header.lo \in Nat
    BY RamAssumption DEF LoopType, XferType, Word
  <2>2. Mask(xfer.header.lo) \in Cell /\ Mask(xfer.header.lo) \in Address
    BY <2>1, MaskCell DEF Cell
  <2>3. xfer' \in XferType /\ xfer'.addr = Mask(xfer.header.lo)
    BY <1>6, <2>2 DEF ListNext, LoopType, XferType, Loop
  <2> QED
    BY <1>6, <2>2, <2>3 DEF ListNext, LoopType, ListAtCell
<1> QED
  BY <1>1, <1>2, <1>3, <1>4, <1>5, <1>6 DEF Move

LEMMA InterruptType ==
    ASSUME TypeOK, SetInterrupt
    PROVE  mInterrupt' \in SUBSET InterruptBits /\ mChannelIrqFlags' \in SUBSET Port
BY DEF SetInterrupt, WriteInterrupt, TypeOK

(* A CPU step that writes a register of a channel. *)
LEMMA WriteStep ==
    ASSUME TypeInv, NEW p \in Ports, SetBase(p) \/ SetBlockControl(p) \/ SetControl(p)
    PROVE  \E c \in ChannelType : p \in Port /\ SetChannel(p, c)
<1>1. p \in Port
  BY InputAssumption
<1>2. mChannels[p] \in ChannelType
  BY <1>1, TypeParts DEF TypeInv
<1>3. CASE SetBase(p)
  BY <1>1, <1>2, <1>3, WrittenChannel DEF SetBase, WriteBase
<1>4. CASE SetBlockControl(p)
  BY <1>1, <1>2, <1>4, WrittenChannel DEF SetBlockControl, WriteBlockControl
<1>5. CASE SetControl(p)
  BY <1>1, <1>2, <1>5, WrittenChannel DEF SetControl, WriteControl
<1> QED
  BY <1>3, <1>4, <1>5

LEMMA CpuStepType ==
    ASSUME TypeInv, CpuStep
    PROVE  mOps' \in 0 .. MaxOps /\ gp0' \in Seq(Word) /\ running' \in BOOLEAN
<1>1. mOps \in Nat /\ mOps < MaxOps /\ mOps' = mOps + 1 /\ MaxOps \in Nat
  BY InputAssumption DEF CpuStep, TypeInv, TypeOK
<1>2. gp0' = <<>> /\ running' = running /\ running \in BOOLEAN
  BY TypeParts DEF CpuStep, TypeInv
<1> QED
  BY <1>1, <1>2

LEMMA TypePrime ==
    ASSUME /\ LoopType'
           /\ mControl' \in Word
           /\ mInterrupt' \in SUBSET InterruptBits
           /\ mChannelIrqFlags' \in SUBSET Port
           /\ mOps' \in 0 .. MaxOps
           /\ running' \in BOOLEAN
    PROVE  TypeInv'
BY DEF TypeInv, TypeOK, LoopType, ChannelType, XferType, Loop

LEMMA TypeStep == ASSUME TypeInv, [Next]_vars PROVE TypeInv'
<1>0. LoopType
  BY TypeParts DEF TypeInv, LoopType
<1>1. CASE UNCHANGED vars
  BY <1>1 DEF vars, common, TypeInv, TypeOK, ListAtCell
<1>2. ASSUME NEW p \in Ports, SetBase(p) \/ SetBlockControl(p) \/ SetControl(p)
      PROVE  TypeInv'
  <2>1. CpuStep /\ UNCHANGED <<mControl, mInterrupt, mChannelIrqFlags, ram>>
    BY <1>2 DEF SetBase, SetBlockControl, SetControl, WriteBase, WriteBlockControl,
       WriteControl, common
  <2>2. mChannels' \in [Port -> ChannelType] /\ xfer' \in XferType /\ ListAtCell'
    BY <1>0, <1>2, WriteStep, SetChannelType
  <2>3. LoopType'
    BY <1>0, <2>1, <2>2, CpuStepType DEF LoopType
  <2> QED
    BY <2>1, <2>3, CpuStepType, TypeParts, TypePrime DEF TypeInv
<1>3. CASE SetInterrupt
  <2>1. CpuStep /\ UNCHANGED <<mChannels, mControl, ram, xfer>>
    BY <1>3 DEF SetInterrupt, WriteInterrupt
  <2>2. LoopType'
    BY <1>0, <2>1, CpuStepType DEF LoopType, ListAtCell
  <2> QED
    BY <1>3, <2>1, <2>2, CpuStepType, InterruptType, TypeParts, TypePrime DEF TypeInv
<1>7. CASE SetCommon
  <2>1. CpuStep /\ UNCHANGED <<mChannels, mInterrupt, mChannelIrqFlags, ram, xfer>>
    BY <1>7 DEF SetCommon, WriteCommon
  <2>2. LoopType'
    BY <1>0, <2>1, CpuStepType DEF LoopType, ListAtCell
  <2>3. mControl' \in Word
    BY <1>7, InputAssumption DEF SetCommon, WriteCommon
  <2> QED
    BY <2>1, <2>2, <2>3, CpuStepType, TypeParts, TypePrime DEF TypeInv
<1>4. CASE Store
  <2>1. CpuStep /\ UNCHANGED <<mChannels, mControl, mInterrupt, mChannelIrqFlags, xfer>>
    BY <1>4 DEF Store, common
  <2>2. ram' \in [Cell -> Word]
    BY <1>4, <1>0, InputAssumption DEF Store, LoopType
  <2>3. LoopType'
    BY <1>0, <2>1, <2>2, CpuStepType DEF LoopType, ListAtCell
  <2> QED
    BY <2>1, <2>3, CpuStepType, TypeParts, TypePrime DEF TypeInv
<1>5. CASE Move
  <2>1. LoopType'
    BY <1>0, <1>5, TransferType
  <2>2. UNCHANGED <<mControl, mInterrupt, mChannelIrqFlags, mOps, running>>
    BY <1>5 DEF Move, common, BlockToGpu, BlockToOtc, BlockDone, ListHeader, ListWord,
       ListNext, ListDone, Transfers
  <2> QED
    BY <2>1, <2>2, TypeParts, TypePrime DEF TypeInv
<1>6. CASE Panic
  <2>1. LoopType'
    BY <1>0, <1>6 DEF Panic, LoopType, ListAtCell
  <2> QED
    BY <1>6, <2>1, TypeParts, TypePrime DEF TypeInv, Panic, common
<1> QED
  BY <1>1, <1>2, <1>3, <1>4, <1>5, <1>6, <1>7 DEF Next, Transfer

LEMMA TypeInit == ASSUME Init PROVE TypeInv
<1>1. Reset \in ChannelType
  BY RamAssumption DEF Reset, ChannelType
<1>2. mChannels \in [Port -> ChannelType]
  BY <1>1 DEF Init, Boot
<1>3. \hcacaca % LOW \in 0 .. LOW - 1
  BY RamAssumption
<1>4. [hi |-> \hca, lo |-> \hcacaca % LOW] \in Word
  BY <1>3 DEF Word
<1>5. ram \in [Cell -> Word]
  BY <1>4 DEF Init, Boot
<1>6. xfer \in XferType /\ ListAtCell
  BY IdleType DEF Init, Boot, ListAtCell, Idle
<1>7. mOps \in 0 .. MaxOps
  BY InputAssumption DEF Init, Boot
<1>8. mControl \in Word
  <2>1. \h654321 % LOW \in 0 .. LOW - 1
    BY RamAssumption
  <2> QED
    BY <2>1 DEF Word, Init, Boot
<1> QED
  BY <1>2, <1>5, <1>6, <1>7, <1>8, TypeParts DEF TypeInv, Init, Boot

(* The DMA keeps its state well typed, for every size of RAM and every      *)
(* value the CPU writes: no transfer and no pointer of a list leaves RAM,   *)
(* and no loop goes on below zero words.                                    *)
THEOREM TypeCorrect == Spec => []TypeOK
<1>1. Init => TypeInv
  BY TypeInit
<1>2. TypeInv /\ [Next]_vars => TypeInv'
  BY TypeStep
<1>3. TypeInv => TypeOK
  BY DEF TypeInv
<1> QED
  BY <1>1, <1>2, <1>3, PTL DEF Spec
-----------------------------------------------------------------------------
(* Which channel may be started. *)
OnlyOneStarted ==
    \A p \in Port : Active(mChannels[p]) => xfer.loop # "none" /\ xfer.port = p

ChannelInv == TypeInv /\ OnlyOneStarted

(* setDmaReg: a channel that is ready starts at once. *)
LEMMA SetChannelStep ==
    ASSUME ChannelInv, xfer = Idle,
           NEW p \in Port, NEW c \in ChannelType, SetChannel(p, c)
    PROVE  OnlyOneStarted'
<1>1. \A q \in Port : ~Active(mChannels[q])
  BY DEF ChannelInv, OnlyOneStarted, Idle
<1>2. mChannels'[p] = c /\ \A q \in Port \ {p} : mChannels'[q] = mChannels[q]
  BY TypeParts DEF SetChannel, ChannelInv, TypeInv
<1>3. CASE Active(c)
  <2>1. xfer'.port = p /\ xfer'.loop # "none"
    BY <1>3, DoDmaStarts DEF SetChannel
  <2>2. ASSUME NEW q \in Port, Active(mChannels'[q]) PROVE q = p
    BY <1>1, <1>2, <2>2
  <2> QED
    BY <2>1, <2>2 DEF OnlyOneStarted, Active, LinkedList, Request
<1>4. CASE ~Active(c)
  <2>1. ASSUME NEW q \in Port PROVE ~Active(mChannels'[q])
    BY <1>1, <1>2, <1>4
  <2> QED
    BY <2>1 DEF OnlyOneStarted, Active, LinkedList, Request
<1> QED
  BY <1>3, <1>4

(* The end of a transfer stops its channel. *)
LEMMA FinishStep == ASSUME ChannelInv, Finish PROVE OnlyOneStarted'
<1> DEFINE p == xfer.port
<1>1. mChannels \in [Port -> ChannelType] /\ p \in Port
  BY TypeParts DEF ChannelInv, TypeInv, XferType
<1>2. mChannels' = [mChannels EXCEPT ![p] = Done(mChannels[p])]
  BY DEF Finish, Channel
<1>3. /\ mChannels'[p] = Done(mChannels[p])
      /\ \A q \in Port \ {p} : mChannels'[q] = mChannels[q]
  BY <1>1, <1>2
<1>4. ASSUME NEW q \in Port PROVE ~Active(mChannels'[q])
  <2>1. CASE q = p
    BY <2>1, <1>1, <1>3, DoneStops
  <2>2. CASE q # p
    BY <2>2, <1>3 DEF ChannelInv, OnlyOneStarted
  <2> QED
    BY <2>1, <2>2
<1> QED
  BY <1>4 DEF OnlyOneStarted, Active, LinkedList, Request

(* The other steps touch no channel and leave the loop on its port. *)
LEMMA LoopStep ==
    ASSUME ChannelInv, UNCHANGED mChannels, xfer'.port = xfer.port,
           xfer.loop # "none" => xfer'.loop # "none"
    PROVE  OnlyOneStarted'
BY DEF ChannelInv, OnlyOneStarted, Active, LinkedList, Request

LEMMA ChannelStep == ASSUME ChannelInv, [Next]_vars PROVE ChannelInv'
<1> SUFFICES OnlyOneStarted'
  BY TypeStep DEF ChannelInv
<1>1. CASE UNCHANGED vars
  BY <1>1, LoopStep DEF vars
<1>2. ASSUME NEW p \in Ports, SetBase(p) \/ SetBlockControl(p) \/ SetControl(p)
      PROVE  OnlyOneStarted'
  <2>1. xfer = Idle
    BY <1>2 DEF SetBase, SetBlockControl, SetControl, CpuStep
  <2>2. PICK c \in ChannelType : p \in Port /\ SetChannel(p, c)
    BY <1>2, WriteStep DEF ChannelInv
  <2> QED
    BY <2>1, <2>2, SetChannelStep
<1>3. CASE SetCommon \/ SetInterrupt \/ Store \/ Panic
  BY <1>3, LoopStep DEF SetCommon, WriteCommon, SetInterrupt, WriteInterrupt, Store, Panic
<1>4. CASE BlockToGpu \/ BlockToOtc
  <2>1. xfer \in XferType /\ UNCHANGED mChannels
    BY <1>4, TypeParts DEF BlockToGpu, BlockToOtc, NextBlock, ChannelInv, TypeInv
  <2>2. xfer'.port = xfer.port /\ xfer'.loop = xfer.loop
    BY <1>4, <2>1 DEF BlockToGpu, BlockToOtc, NextBlock, XferType
  <2> QED
    BY <2>1, <2>2, LoopStep
<1>5. CASE ListHeader \/ ListWord \/ ListNext
  <2>1. xfer \in XferType /\ UNCHANGED mChannels
    BY <1>5, TypeParts DEF ListHeader, ListWord, ListNext, ChannelInv, TypeInv
  <2>2. xfer'.port = xfer.port /\ xfer'.loop # "none"
    BY <1>5, <2>1 DEF ListHeader, ListWord, ListNext, XferType
  <2> QED
    BY <2>1, <2>2, LoopStep
<1>6. CASE BlockDone \/ ListDone
  BY <1>6, FinishStep DEF BlockDone, ListDone
<1> QED
  BY <1>1, <1>2, <1>3, <1>4, <1>5, <1>6 DEF Next, Transfer, Move

LEMMA ChannelInit == ASSUME Init PROVE ChannelInv
<1>1. mChannels = [p \in Port |-> Reset]
  BY DEF Init, Boot
<1>2. ~Active(Reset)
  BY DEF Active, Reset
<1> QED
  BY <1>1, <1>2, TypeInit DEF OnlyOneStarted, ChannelInv

(* Between two stores of the CPU no channel is left started, in whatever    *)
(* order and with whatever values the registers of the channels, which all  *)
(* go through setDmaReg, were written.                                      *)
THEOREM NothingLeftStartedCorrect == Spec => []NothingLeftStarted
<1>1. Init => ChannelInv
  BY ChannelInit
<1>2. ChannelInv /\ [Next]_vars => ChannelInv'
  BY ChannelStep
<1>3. ChannelInv => NothingLeftStarted
  BY DEF ChannelInv, OnlyOneStarted, NothingLeftStarted, Idle
<1> QED
  BY <1>1, <1>2, <1>3, PTL DEF Spec
-----------------------------------------------------------------------------
(* A block transfer under way: how far it is, and what it has left so far  *)
(* in RAM and sent.                                                        *)
At(c, k) == (c.base + (IF Decrement(c) THEN -4 ELSE 4) * k) % RAMSIZE
Moved == Size(Channel) - xfer.remsz

BlockPlace == xfer.remsz <= Size(Channel) /\ xfer.addr = At(Channel, Moved)
BlockOutside ==
    \A a \in Cell : (\A k \in 0 .. Moved - 1 : a # Entry(Channel, k)) => ram[a] = before[a]
BlockSent ==
    xfer.port = Gpu =>
        /\ ram = before
        /\ Len(sent) = Moved
        /\ \A k \in 1 .. Moved : sent[k] = ram[Entry(Channel, k - 1)]
FitsInRam(c) == Decrement(c) /\ c.base % 4 = 0 /\ 4 * Size(c) <= RAMSIZE
Linked(c, k) == IF k = Size(c) - 1 THEN EndMarker ELSE [hi |-> 0, lo |-> Entry(c, k + 1)]
BlockTable ==
    xfer.port = Otc /\ FitsInRam(Channel) =>
        \A k \in 0 .. Moved - 1 : ram[Entry(Channel, k)] = Linked(Channel, k)

BlockInv ==
    running /\ xfer.loop = "block" => BlockPlace /\ BlockOutside /\ BlockSent /\ BlockTable

(* A list under way: what is still to be sent completes what was sent.     *)
First == Mask(mChannels[Gpu].base)
Rest(n, a) == IF n > 0 /\ GoesOn(a) THEN Listed[n - 1][ram[a].lo] ELSE <<>>
InPacket(a, n) ==
    LET k == ram[a].hi - xfer.remsz
    IN /\ a \in Ending[n] /\ xfer.header = ram[a]
       /\ k >= 0 /\ xfer.addr = Mask(a + 4 * k)
       /\ sent \o (SubSeq(Packet(a), k + 1, ram[a].hi) \o Rest(n, a)) = ListFrom(First)
ListInv ==
    /\ running /\ xfer.loop = "header" /\ xfer.port = Gpu /\ WellFormed(First) =>
          \E n \in 0 .. Links :
             xfer.addr \in Ending[n] /\ sent \o Listed[n][xfer.addr] = ListFrom(First)
    /\ running /\ xfer.loop = "packet" =>
          /\ xfer.port = Gpu
          /\ WellFormed(First) => \E a \in Cell, n \in 0 .. Links : InPacket(a, n)
-----------------------------------------------------------------------------
(* The cells of a block: one step of the loop is one cell on, around RAM.  *)
LEMMA ModuloStep ==
    ASSUME NEW x \in Int
    PROVE  /\ x % RAMSIZE \in Address
           /\ (x + 4) % RAMSIZE = Forward(x % RAMSIZE)
           /\ (x - 4) % RAMSIZE = Back(x % RAMSIZE)
<1>1. RAMSIZE \in Nat /\ RAMSIZE >= 8
  BY RamAssumption
<1> DEFINE q == x \div RAMSIZE  r == x % RAMSIZE  m == RAMSIZE * q
<1>2. q \in Int /\ r \in 0 .. RAMSIZE - 1 /\ x = m + r
  BY <1>1
<1>3. ASSUME NEW y \in 0 .. RAMSIZE - 1, NEW p \in Int
      PROVE  (RAMSIZE * p + y) % RAMSIZE = y
  BY <1>1, <1>3
<1> HIDE DEF q, r
<1>4. (x + 4) % RAMSIZE = Forward(r)
  <2>1. CASE r + 4 < RAMSIZE
    <3>1. x + 4 = RAMSIZE * q + (r + 4) /\ r + 4 \in 0 .. RAMSIZE - 1
      BY <1>1, <1>2, <2>1
    <3> QED
      BY <1>2, <1>3, <2>1, <3>1 DEF Forward
  <2>2. CASE ~(r + 4 < RAMSIZE)
    <3>1. x + 4 = RAMSIZE * (q + 1) + (r + 4 - RAMSIZE)
          /\ r + 4 - RAMSIZE \in 0 .. RAMSIZE - 1 /\ q + 1 \in Int
      BY <1>1, <1>2, <2>2
    <3>2. (RAMSIZE * (q + 1) + (r + 4 - RAMSIZE)) % RAMSIZE = r + 4 - RAMSIZE
      BY <1>3, <3>1
    <3> QED
      BY <2>2, <3>1, <3>2 DEF Forward
  <2> QED
    BY <2>1, <2>2
<1>5. (x - 4) % RAMSIZE = Back(r)
  <2>1. CASE r >= 4
    <3>1. x - 4 = RAMSIZE * q + (r - 4) /\ r - 4 \in 0 .. RAMSIZE - 1
      BY <1>1, <1>2, <2>1
    <3> QED
      BY <1>2, <1>3, <2>1, <3>1 DEF Back
  <2>2. CASE ~(r >= 4)
    <3>1. x - 4 = RAMSIZE * (q - 1) + (r - 4 + RAMSIZE)
          /\ r - 4 + RAMSIZE \in 0 .. RAMSIZE - 1 /\ q - 1 \in Int
      BY <1>1, <1>2, <2>2
    <3>2. (RAMSIZE * (q - 1) + (r - 4 + RAMSIZE)) % RAMSIZE = r - 4 + RAMSIZE
      BY <1>3, <3>1
    <3> QED
      BY <2>2, <3>1, <3>2 DEF Back
  <2> QED
    BY <2>1, <2>2
<1> QED
  BY <1>2, <1>4, <1>5 DEF Address, r

LEMMA SizeType ==
    ASSUME NEW c \in ChannelType
    PROVE  Size(c) \in Nat /\ TransferSize(c) = Size(c) /\ c.base \in Nat
<1>1. PICK size \in Nat, count \in Nat : c.block.size = size /\ c.block.count = count
  BY DEF ChannelType
<1>2. size * count \in Nat /\ count * size = size * count /\ size * 1 = size
  BY <1>1
<1> QED
  BY <1>1, <1>2, RamAssumption DEF Size, TransferSize, ChannelType

LEMMA BlockCells ==
    ASSUME NEW c \in ChannelType, NEW k \in Nat
    PROVE  /\ At(c, k) \in Address /\ Entry(c, k) \in Cell
           /\ Mask(At(c, k)) = Entry(c, k)
           /\ At(c, 0) = c.base % RAMSIZE
           /\ At(c, k + 1) = IF Decrement(c) THEN Back(At(c, k)) ELSE Forward(At(c, k))
<1> DEFINE step == IF Decrement(c) THEN -4 ELSE 4
           x == c.base + step * k
<1>1. c.base \in Nat /\ step \in Int
  BY SizeType
<1>2. x \in Int /\ c.base + step * (k + 1) = (IF Decrement(c) THEN x - 4 ELSE x + 4)
  BY <1>1
<1>3. c.base + step * 0 = c.base
  BY <1>1
<1>4. At(c, k) = x % RAMSIZE /\ At(c, k) \in Address
  BY <1>2, ModuloStep DEF At
<1>5. At(c, k + 1) = IF Decrement(c) THEN Back(At(c, k)) ELSE Forward(At(c, k))
  BY <1>2, <1>4, ModuloStep DEF At
<1>6. Mask(At(c, k)) = Entry(c, k)
  <2> DEFINE a == At(c, k)
  <2>1. Entry(c, k) = a - (a % 4)
    BY DEF Entry, At
  <2>2. a \in 0 .. RAMSIZE - 1 /\ RAMSIZE \in Nat
    BY <1>4, RamAssumption DEF Address
  <2> HIDE DEF a
  <2>3. a % RAMSIZE = a
    BY <2>2
  <2> QED
    BY <2>1, <2>3 DEF Mask, a
<1>7. Entry(c, k) \in Cell
  BY <1>4, <1>6, MaskCell, RamAssumption DEF Address
<1> QED
  BY <1>3, <1>4, <1>5, <1>6, <1>7 DEF At

LEMMA CellModulo ==
    ASSUME NEW z \in Int, z % 4 = 0 PROVE (z % RAMSIZE) % 4 = 0
<1>1. RAMSIZE \in Nat /\ RAMSIZE >= 8 /\ RAMSIZE % 4 = 0
  BY RamAssumption
<1> DEFINE q == z \div RAMSIZE  r == z % RAMSIZE  n == RAMSIZE \div 4  m == n * q
<1>2. n \in Nat /\ RAMSIZE = 4 * n
  BY <1>1
<1>3. q \in Int /\ r \in Int /\ z = RAMSIZE * q + r
  BY <1>1
<1>4. m \in Int /\ z = 4 * m + r
  BY <1>2, <1>3
<1> HIDE DEF q, r, n, m
<1>5. r % 4 = 0
  BY <1>3, <1>4
<1> QED
  BY <1>5 DEF r

(* Two entries of a table that fits in RAM are different cells.            *)
LEMMA TableCells ==
    ASSUME NEW c \in ChannelType, FitsInRam(c),
           NEW j \in Nat, NEW k \in Nat, j < k, k < Size(c)
    PROVE  Entry(c, j) # Entry(c, k)
<1>1. RAMSIZE \in Nat /\ RAMSIZE >= 8 /\ RAMSIZE % 4 = 0 /\ Size(c) \in Nat /\ c.base \in Nat
  BY RamAssumption, SizeType
<1> DEFINE x == c.base - 4 * j  y == c.base - 4 * k
<1>2. x \in Int /\ y \in Int /\ 0 < x - y /\ x - y < RAMSIZE
  BY <1>1 DEF FitsInRam
<1>3. At(c, j) = x % RAMSIZE /\ At(c, k) = y % RAMSIZE
  BY <1>1 DEF FitsInRam, At
<1>4. x % 4 = 0 /\ y % 4 = 0
  BY <1>1 DEF FitsInRam
<1> HIDE DEF x, y
<1>5. (x % RAMSIZE) % 4 = 0 /\ (y % RAMSIZE) % 4 = 0
  BY <1>2, <1>4, CellModulo
<1>6. x % RAMSIZE # y % RAMSIZE
  <2> SUFFICES ASSUME x % RAMSIZE = y % RAMSIZE PROVE FALSE
    OBVIOUS
  <2> DEFINE p == x \div RAMSIZE  q == y \div RAMSIZE  r == x % RAMSIZE
  <2>1. p \in Int /\ q \in Int /\ r \in Int /\ x = RAMSIZE * p + r /\ y = RAMSIZE * q + r
    BY <1>1, <1>2
  <2> HIDE DEF p, q, r
  <2>2. x - y = RAMSIZE * (p - q)
    BY <1>1, <2>1
  <2>3. p - q >= 1 \/ p - q <= 0
    BY <2>1
  <2>4. CASE p - q >= 1
    <3>1. RAMSIZE * (p - q) >= RAMSIZE
      BY <1>1, <2>1, <2>4
    <3> QED
      BY <1>1, <1>2, <2>1, <2>2, <3>1
  <2>5. CASE p - q <= 0
    <3>1. RAMSIZE * (p - q) <= 0
      BY <1>1, <2>1, <2>5
    <3> QED
      BY <1>1, <1>2, <2>1, <2>2, <3>1
  <2> QED
    BY <2>3, <2>4, <2>5
<1>7. Entry(c, j) = At(c, j) - (At(c, j) % 4) /\ Entry(c, k) = At(c, k) - (At(c, k) % 4)
  BY DEF Entry, At
<1>8. At(c, j) \in Int /\ At(c, k) \in Int
  BY BlockCells, RamAssumption DEF Address
<1> QED
  BY <1>2, <1>3, <1>4, <1>5, <1>6, <1>7, <1>8

(* ... and the entry after one is where the loop goes next.                *)
LEMMA TableNext ==
    ASSUME NEW c \in ChannelType, FitsInRam(c), NEW k \in Nat
    PROVE  Entry(c, k + 1) = Back(At(c, k))
<1>1. RAMSIZE \in Nat /\ RAMSIZE >= 8 /\ RAMSIZE % 4 = 0 /\ c.base \in Nat
  BY RamAssumption, SizeType
<1> DEFINE x == c.base - 4 * (k + 1)
<1>2. x \in Int /\ x % 4 = 0 /\ At(c, k + 1) = x % RAMSIZE
  BY <1>1 DEF FitsInRam, At
<1>3. (x % RAMSIZE) % 4 = 0
  BY <1>2, CellModulo
<1>4. At(c, k + 1) \in Int /\ At(c, k + 1) = Back(At(c, k))
  BY BlockCells, RamAssumption DEF Address, FitsInRam
<1>5. Entry(c, k + 1) = At(c, k + 1) - (At(c, k + 1) % 4)
  BY DEF Entry, At
<1> QED
  BY <1>2, <1>3, <1>4, <1>5
-----------------------------------------------------------------------------
(* The steps of a block transfer. *)
Observed == TypeInv /\ sent \in Seq(Word)

LEMMA DoDmaBlock ==
    ASSUME NEW p \in Port, NEW c \in ChannelType, DoDma(p, c).loop = "block"
    PROVE  DoDma(p, c).addr = At(c, 0) /\ DoDma(p, c).remsz = Size(c)
<1>1. ~LinkedList(c)
  <2> SUFFICES ASSUME LinkedList(c) PROVE DoDma(p, c).loop = "header"
    OBVIOUS
  <2> QED
    BY DEF DoDma, Idle
<1>2. DoDma(p, c).addr = c.base % RAMSIZE /\ DoDma(p, c).remsz = TransferSize(c)
  BY <1>1 DEF DoDma, Idle
<1> QED
  BY <1>2, SizeType, BlockCells

(* A write that starts a channel: nothing moved yet. *)
LEMMA BlockStart ==
    ASSUME Observed, xfer = Idle, NEW p \in Port, NEW c \in ChannelType,
           SetChannel(p, c), UNCHANGED ram, Observe
    PROVE  BlockInv'
<1> SUFFICES ASSUME xfer'.loop = "block"
             PROVE  (BlockPlace /\ BlockOutside /\ BlockSent /\ BlockTable)'
  BY DEF BlockInv
<1>1. Active(c) /\ xfer' = DoDma(p, c)
  BY DEF SetChannel, Idle
<1>2. xfer'.port = p /\ xfer' # Idle
  BY <1>1, DoDmaStarts DEF Idle
<1>3. mChannels'[p] = c
  BY TypeParts DEF SetChannel, Observed, TypeInv
<1>4. Channel' = c
  BY <1>2, <1>3 DEF Channel
<1>5. xfer'.addr = At(c, 0) /\ xfer'.remsz = Size(c) /\ Size(c) \in Nat
  BY <1>1, DoDmaBlock, SizeType
<1>6. Moved' = 0 /\ At(Channel, Moved)' = At(c, 0)
  BY <1>4, <1>5 DEF Moved, At, Size, Decrement, Request
<1>7. before' = ram /\ sent' = <<>>
  BY <1>2 DEF Observe, Starts
<1>8. Size(Channel)' = Size(c)
  BY <1>4 DEF Size, Request
<1>9. BlockPlace'
  BY <1>5, <1>6, <1>8 DEF BlockPlace
<1>10. 0 .. Moved' - 1 = {} /\ 1 .. Moved' = {}
  BY <1>6
<1>11. BlockOutside'
  BY <1>7 DEF BlockOutside
<1>12. BlockSent'
  BY <1>6, <1>7, <1>10 DEF BlockSent
<1>13. BlockTable'
  BY <1>10 DEF BlockTable
<1> QED
  BY <1>9, <1>11, <1>12, <1>13

(* A step of the loop: one word more. *)
LEMMA BlockGoesOn ==
    ASSUME Observed, BlockInv, running, xfer.loop = "block", xfer.remsz > 0, NextBlock
    PROVE  LET c == Channel  k == Moved
           IN /\ c \in ChannelType /\ k \in Nat /\ k < Size(c) /\ Size(c) \in Nat
              /\ xfer.addr = At(c, k) /\ Channel' = c /\ Moved' = k + 1
              /\ xfer'.port = xfer.port /\ xfer' # Idle
              /\ BlockPlace'
<1> DEFINE c == Channel  k == Moved
<1>1. xfer \in XferType /\ mChannels \in [Port -> ChannelType]
  BY TypeParts DEF Observed, TypeInv
<1>2. xfer.port \in Port /\ xfer.remsz \in Nat
  BY <1>1 DEF XferType
<1>3. c \in ChannelType
  BY <1>1, <1>2 DEF Channel
<1>4. Size(c) \in Nat
  BY <1>3, SizeType
<1>5. BlockPlace
  BY DEF BlockInv
<1>6. k \in Nat /\ k < Size(c) /\ xfer.addr = At(c, k)
  BY <1>2, <1>4, <1>5 DEF BlockPlace, Moved
<1>7. /\ xfer'.port = xfer.port /\ xfer'.remsz = xfer.remsz - 1 /\ xfer'.loop = "block"
      /\ xfer'.addr = IF Decrement(c) THEN Back(xfer.addr) ELSE Forward(xfer.addr)
      /\ mChannels' = mChannels
  BY <1>1 DEF NextBlock, XferType
<1>8. Channel' = c
  BY <1>7 DEF Channel
<1>9. Size(Channel)' = Size(c)
  BY <1>8 DEF Size, Request
<1>10. Moved' = k + 1
  BY <1>2, <1>4, <1>7, <1>9 DEF Moved
<1>11. At(Channel, Moved)' = At(c, k + 1)
  BY <1>8, <1>10 DEF At, Decrement
<1>12. At(c, k + 1) = xfer'.addr
  BY <1>3, <1>6, <1>7, BlockCells
<1>13. BlockPlace'
  BY <1>2, <1>4, <1>5, <1>7, <1>9, <1>11, <1>12 DEF BlockPlace
<1>14. xfer' # Idle
  BY <1>7 DEF Idle
<1> QED
  BY <1>3, <1>4, <1>6, <1>7, <1>8, <1>10, <1>13, <1>14

(* ... which changes no RAM when it sends the word to the GPU,             *)
LEMMA BlockGpuStep ==
    ASSUME Observed, BlockInv, BlockToGpu, Observe
    PROVE  BlockInv'
<1> DEFINE c == Channel  k == Moved
<1>1. /\ running /\ xfer.loop = "block" /\ xfer.remsz > 0 /\ NextBlock
      /\ xfer.port = Gpu /\ gp0' = <<ram[Mask(xfer.addr)]>> /\ ram' = ram
  BY DEF BlockToGpu, Transfers
<1>2. /\ c \in ChannelType /\ k \in Nat /\ k < Size(c) /\ Size(c) \in Nat
      /\ xfer.addr = At(c, k) /\ Channel' = c /\ Moved' = k + 1
      /\ xfer'.port = xfer.port /\ xfer' # Idle
      /\ BlockPlace'
  BY <1>1, BlockGoesOn
<1>3. BlockOutside /\ BlockSent
  BY <1>1 DEF BlockInv
<1>4. before' = before /\ sent' = sent \o gp0'
  BY <1>1 DEF Observe, Starts, Idle
<1>5. gp0' = <<ram[Entry(c, k)]>> /\ Entry(c, k) \in Cell
  BY <1>1, <1>2, BlockCells
<1>6. \A a, b : Entry(Channel, a)' = Entry(c, a)
  BY <1>2 DEF Entry, Decrement
<1>7. BlockOutside'
  <2> SUFFICES ASSUME NEW a \in Cell, \A j \in 0 .. k : a # Entry(c, j)
               PROVE  ram[a] = before[a]
    BY <1>1, <1>2, <1>4, <1>6 DEF BlockOutside
  <2>1. \A j \in 0 .. k - 1 : a # Entry(c, j)
    BY <1>2
  <2> QED
    BY <1>3, <2>1 DEF BlockOutside
<1>8. BlockSent'
  <2> DEFINE w == ram[Entry(c, k)]
  <2>1. Len(sent) = k /\ ram = before /\ \A j \in 1 .. k : sent[j] = ram[Entry(c, j - 1)]
    BY <1>1, <1>3 DEF BlockSent
  <2>2. sent \in Seq(Word) /\ w \in Word
    BY <1>5, TypeParts DEF Observed, TypeInv
  <2>3. sent' = sent \o <<w>>
    BY <1>4, <1>5
  <2> HIDE DEF w, k
  <2>4. Len(sent') = k + 1 /\ sent'[k + 1] = w /\ \A j \in 1 .. k : sent'[j] = sent[j]
    BY <1>2, <2>1, <2>2, <2>3
  <2>5. ASSUME NEW j \in 1 .. k + 1 PROVE sent'[j] = ram[Entry(c, j - 1)]
    BY <1>2, <2>1, <2>4 DEF w
  <2> QED
    BY <1>1, <1>2, <1>4, <1>6, <2>1, <2>4, <2>5 DEF BlockSent
<1>9. BlockTable'
  BY <1>1, <1>2 DEF BlockTable, Gpu, Otc
<1> QED
  BY <1>2, <1>7, <1>8, <1>9 DEF BlockInv

(* ... and links one more entry when it clears a table.                    *)
LEMMA BlockOtcStep ==
    ASSUME Observed, BlockInv, BlockToOtc, Observe
    PROVE  BlockInv'
<1> DEFINE c == Channel  k == Moved
<1>1. /\ running /\ xfer.loop = "block" /\ xfer.remsz > 0 /\ NextBlock
      /\ xfer.port = Otc /\ ram' = [ram EXCEPT ![Mask(xfer.addr)] = TableEntry]
  BY DEF BlockToOtc, Transfers
<1>2. /\ c \in ChannelType /\ k \in Nat /\ k < Size(c) /\ Size(c) \in Nat
      /\ xfer.addr = At(c, k) /\ Channel' = c /\ Moved' = k + 1
      /\ xfer'.port = xfer.port /\ xfer' # Idle
      /\ BlockPlace'
  BY <1>1, BlockGoesOn
<1>3. BlockOutside /\ BlockTable
  BY <1>1 DEF BlockInv
<1>4. before' = before
  BY <1>1 DEF Observe, Starts, Idle
<1>5. Mask(xfer.addr) = Entry(c, k) /\ Entry(c, k) \in Cell /\ ram \in [Cell -> Word]
  BY <1>2, BlockCells, TypeParts DEF Observed, TypeInv
<1>6. /\ \A a : Entry(Channel, a)' = Entry(c, a)
      /\ FitsInRam(Channel)' <=> FitsInRam(c)
      /\ \A a : Linked(Channel, a)' = Linked(c, a)
  BY <1>2 DEF Entry, Decrement, FitsInRam, Linked, Size, Request
<1>7. BlockOutside'
  <2> SUFFICES ASSUME NEW a \in Cell, \A j \in 0 .. k : a # Entry(c, j)
               PROVE  ram'[a] = before[a]
    BY <1>2, <1>4, <1>6 DEF BlockOutside
  <2>1. (\A j \in 0 .. k - 1 : a # Entry(c, j)) /\ a # Entry(c, k)
    BY <1>2
  <2> QED
    BY <1>1, <1>3, <1>5, <2>1 DEF BlockOutside
<1>8. BlockSent'
  BY <1>1, <1>2 DEF BlockSent, Gpu, Otc
<1>9. BlockTable'
  <2> SUFFICES ASSUME FitsInRam(c), NEW j \in 0 .. k
               PROVE  ram'[Entry(c, j)] = Linked(c, j)
    BY <1>2, <1>6 DEF BlockTable
  <2>1. CASE j = k
    <3>1. ram'[Entry(c, j)] = TableEntry
      BY <1>1, <1>5, <2>1
    <3>2. xfer.remsz = 1 <=> k = Size(c) - 1
      <4>1. xfer.remsz \in Nat
        BY TypeParts DEF Observed, TypeInv, XferType
      <4> QED
        BY <1>2, <4>1 DEF Moved
    <3>3. Entry(c, k + 1) = Back(xfer.addr)
      BY <1>2, TableNext
    <3> QED
      BY <2>1, <3>1, <3>2, <3>3 DEF TableEntry, Linked
  <2>2. CASE j # k
    <3>1. j \in 0 .. k - 1 /\ j \in Nat /\ j < k
      BY <1>2, <2>2
    <3>2. Entry(c, j) # Entry(c, k) /\ Entry(c, j) \in Cell
      BY <1>2, <3>1, TableCells, BlockCells
    <3> QED
      BY <1>1, <1>3, <1>5, <3>1, <3>2 DEF BlockTable
  <2> QED
    BY <2>1, <2>2
<1> QED
  BY <1>2, <1>7, <1>8, <1>9 DEF BlockInv

LEMMA BlockStep ==
    ASSUME Observed, BlockInv, [Next /\ Observe]_obsVars
    PROVE  BlockInv'
<1>1. CASE UNCHANGED obsVars
  <2>1. UNCHANGED <<mChannels, ram, xfer, running, before, sent>>
    BY <1>1 DEF obsVars, vars
  <2>2. Channel' = Channel
    BY <2>1 DEF Channel
  <2>3. Moved' = Moved
    BY <2>1, <2>2 DEF Moved, Size, Request
  <2>4. BlockPlace' = BlockPlace
    BY <2>1, <2>2, <2>3 DEF BlockPlace, At, Size, Request, Decrement
  <2>5. \A k : Entry(Channel, k)' = Entry(Channel, k)
    BY <2>2 DEF Entry, Decrement
  <2>6. BlockOutside => BlockOutside'
    BY <2>1, <2>3, <2>5 DEF BlockOutside
  <2>7. BlockSent => BlockSent'
    BY <2>1, <2>3, <2>5 DEF BlockSent
  <2>8. FitsInRam(Channel)' = FitsInRam(Channel) /\ \A k : Linked(Channel, k)' = Linked(Channel, k)
    BY <2>2, <2>5 DEF FitsInRam, Linked, Decrement, Size, Request, EndMarker, Entry
  <2>9. BlockTable => BlockTable'
    BY <2>1, <2>3, <2>5, <2>8 DEF BlockTable
  <2> QED
    BY <2>1, <2>4, <2>6, <2>7, <2>9 DEF BlockInv
<1> SUFFICES ASSUME Next, Observe PROVE BlockInv'
  BY <1>1
<1>2. ASSUME NEW p \in Ports, SetBase(p) \/ SetBlockControl(p) \/ SetControl(p)
      PROVE  BlockInv'
  <2>1. xfer = Idle /\ ram' = ram
    BY <1>2 DEF SetBase, SetBlockControl, SetControl, CpuStep, WriteBase,
                WriteBlockControl, WriteControl
  <2>2. PICK c \in ChannelType : p \in Port /\ SetChannel(p, c)
    BY <1>2, WriteStep DEF Observed
  <2> QED
    BY <2>1, <2>2, BlockStart
<1>3. CASE SetCommon \/ SetInterrupt \/ Store
  <2>1. xfer' = Idle
    BY <1>3 DEF SetCommon, WriteCommon, SetInterrupt, WriteInterrupt, Store, CpuStep
  <2>2. Idle.loop = "none"
    BY DEF Idle
  <2> QED
    BY <2>1, <2>2 DEF BlockInv
<1>4. CASE BlockToGpu \/ BlockToOtc
  BY <1>4, BlockGpuStep, BlockOtcStep
<1>5. CASE ListHeader \/ ListWord \/ ListNext
  <2>1. xfer \in XferType
    BY TypeParts DEF Observed, TypeInv
  <2>2. xfer'.loop # "block"
    BY <1>5, <2>1 DEF ListHeader, ListWord, ListNext, XferType
  <2> QED
    BY <2>2 DEF BlockInv
<1>6. CASE BlockDone \/ ListDone
  BY <1>6 DEF BlockDone, ListDone, Finish, Idle, BlockInv
<1>7. CASE Panic
  BY <1>7 DEF Panic, BlockInv
<1> QED
  BY <1>2, <1>3, <1>4, <1>5, <1>6, <1>7 DEF Next, Transfer, Move

LEMMA ObservedStep ==
    ASSUME Observed, [Next /\ Observe]_obsVars
    PROVE  Observed'
<1>1. [Next]_vars
  BY DEF obsVars
<1>2. TypeInv'
  BY <1>1, TypeStep DEF Observed
<1>3. gp0' \in Seq(Word)
  BY <1>2 DEF TypeInv, TypeOK
<1>4. sent \in Seq(Word) /\ <<>> \in Seq(Word)
  BY DEF Observed
<1>5. sent' = sent \/ sent' = <<>> \/ sent' = sent \o gp0'
  BY DEF Observe, obsVars
<1>6. sent' \in Seq(Word)
  <2>1. ASSUME NEW s \in Seq(Word), NEW t \in Seq(Word) PROVE s \o t \in Seq(Word)
    OBVIOUS
  <2> QED
    BY <1>3, <1>4, <1>5, <2>1
<1> QED
  BY <1>2, <1>6 DEF Observed

LEMMA BlockInvariant == ObservedSpec => [](Observed /\ BlockInv)
<1>1. ObservedInit => Observed /\ BlockInv
  <2> SUFFICES ASSUME ObservedInit PROVE Observed /\ BlockInv
    OBVIOUS
  <2>1. TypeInv /\ sent = <<>> /\ xfer = Idle
    BY TypeInit DEF ObservedInit, Init, Boot
  <2>2. <<>> \in Seq(Word)
    OBVIOUS
  <2>3. xfer.loop = "none"
    BY <2>1 DEF Idle
  <2> QED
    BY <2>1, <2>2, <2>3 DEF Observed, BlockInv
<1>2. Observed /\ BlockInv /\ [Next /\ Observe]_obsVars => (Observed /\ BlockInv)'
  BY ObservedStep, BlockStep
<1> QED
  BY <1>1, <1>2, PTL DEF ObservedSpec

(* The end of a block transfer: everything is moved. *)
LEMMA BlockEnd ==
    ASSUME Observed, BlockInv, Next, Ends("block")
    PROVE  /\ BlockOutside /\ BlockSent /\ BlockTable
           /\ Channel \in ChannelType /\ Moved = Size(Channel) /\ Size(Channel) \in Nat
<1>1. xfer.loop = "block" /\ xfer' = Idle /\ xfer \in XferType
      /\ mChannels \in [Port -> ChannelType]
  BY TypeParts DEF Ends, Observed, TypeInv
<1>2. xfer # Idle
  BY <1>1 DEF Idle
<1>3. ASSUME NextBlock PROVE FALSE
  <2>1. xfer'.loop = "block"
    BY <1>1, <1>3 DEF NextBlock, XferType
  <2> QED
    BY <1>1, <2>1 DEF Idle
<1>4. running /\ xfer.remsz = 0
  BY <1>1, <1>2, <1>3 DEF Next, SetBase, SetBlockControl, SetControl, SetCommon, SetInterrupt,
     Store, CpuStep, Transfer, Move, Panic, BlockToGpu, BlockToOtc, BlockDone, Transfers,
     ListHeader, ListWord, ListNext, ListDone
<1>5. Channel \in ChannelType
  BY <1>1 DEF Channel, XferType
<1>6. Size(Channel) \in Nat
  BY <1>5, SizeType
<1> QED
  BY <1>1, <1>4, <1>5, <1>6 DEF BlockInv, Moved

(* A block transfer changes no RAM but the cells it was told to move, and  *)
(* sends the GPU all of them in order (doDmaBlock), for any RAM, base,     *)
(* size, direction and synchronization.                                    *)
THEOREM BlockIsExactCorrect == ObservedSpec => BlockIsExact
<1> DEFINE Exact == LET c == mChannels[xfer.port]
                    IN Ends("block") =>
                         /\ \A a \in Cell \ Window(c) : ram[a] = before[a]
                         /\ xfer.port = Gpu =>
                               /\ ram = before
                               /\ Len(sent) = Size(c)
                               /\ \A k \in 1 .. Len(sent) : sent[k] = ram[Entry(c, k - 1)]
<1>1. Observed /\ BlockInv /\ [Next /\ Observe]_obsVars => [Exact]_obsVars
  <2> SUFFICES ASSUME Observed, BlockInv, Next, Ends("block") PROVE Exact
    OBVIOUS
  <2>1. /\ BlockOutside /\ BlockSent
        /\ Moved = Size(Channel) /\ Size(Channel) \in Nat
    BY BlockEnd
  <2> QED
    BY <2>1 DEF BlockOutside, BlockSent, Channel, Window
<1> QED
  BY <1>1, BlockInvariant, PTL DEF ObservedSpec, BlockIsExact

(* Clearing an ordering table links its entries downwards and marks the    *)
(* last one (the Otc case of doDmaBlock), for any table that fits in RAM,  *)
(* across its end too.                                                     *)
THEOREM OrderingTableCorrect == ObservedSpec => OrderingTable
<1> DEFINE Table == LET c == mChannels[xfer.port]  n == Size(c)
                    IN Ends("block") /\ xfer.port = Otc /\ Decrement(c) /\ c.base % 4 = 0
                         /\ 4 * n <= RAMSIZE
                       => \A k \in 0 .. n - 1 :
                             ram[Entry(c, k)] = IF k = n - 1 THEN EndMarker
                                                ELSE [hi |-> 0, lo |-> Entry(c, k + 1)]
<1>1. Observed /\ BlockInv /\ [Next /\ Observe]_obsVars => [Table]_obsVars
  <2> SUFFICES ASSUME Observed, BlockInv, Next, Ends("block") PROVE Table
    OBVIOUS
  <2>1. BlockTable /\ Moved = Size(Channel)
    BY BlockEnd
  <2> QED
    BY <2>1 DEF BlockTable, FitsInRam, Linked, Channel
<1> QED
  BY <1>1, BlockInvariant, PTL DEF ObservedSpec, OrderingTable
-----------------------------------------------------------------------------
(* The lists in RAM. *)
LEMMA LinksNatural == Links \in Nat
BY RamAssumption DEF Links

LEMMA EndingUnfolds ==
    ASSUME NEW n \in 0 .. Links, NEW a \in Cell
    PROVE  a \in Ending[n] <=>
              Last(a) \/ (n > 0 /\ GoesOn(a) /\ ram[a].lo \in Ending[n - 1])
<1> DEFINE X == SUBSET Cell
           x == {b \in Cell : Last(b)}
           Step(e) == {b \in Cell : Last(b) \/ (GoesOn(b) /\ ram[b].lo \in e)}
           F == [i \in Nat |-> [e \in X |-> Step(e)]]
           Level(i, e) == {b \in Cell : Last(b) \/ (i > 0 /\ GoesOn(b) /\ ram[b].lo \in e[i - 1])}
           Body(e) == [i \in 0 .. Links |-> Level(i, e)]
<1>1. x \in X /\ F \in [Nat -> [X -> X]]
  OBVIOUS
<1>2. PICK f : Recursive(X, x, F, f)
  <2> HIDE DEF X, x, F
  <2> QED
    BY <1>1, Recursion
<1> DEFINE g == [i \in 0 .. Links |-> f[i]]
<1>3. ASSUME NEW i \in 0 .. Links PROVE f[i] = Level(i, g)
  <2>1. CASE i = 0
    <3>1. Level(0, g) = x
      OBVIOUS
    <3> QED
      BY <1>2, <2>1, <3>1 DEF Recursive
  <2>2. CASE i # 0
    <3>1. i - 1 \in Nat /\ i - 1 \in 0 .. Links /\ (i - 1) + 1 = i /\ i > 0
      BY <2>2, LinksNatural
    <3>2. f[i] = F[i - 1][f[i - 1]] /\ f[i - 1] \in X
      <4> HIDE DEF F, X
      <4> QED
        BY <1>2, <3>1 DEF Recursive
    <3>3. f[i] = Step(f[i - 1]) /\ g[i - 1] = f[i - 1]
      <4>1. F[i - 1][f[i - 1]] = Step(f[i - 1])
        <5> HIDE DEF Step, X
        <5> QED
          BY <3>1, <3>2
      <4> QED
        BY <3>1, <3>2, <4>1
    <3>4. Level(i, g) = Step(g[i - 1])
      BY <3>1
    <3> QED
      BY <3>3, <3>4
  <2> QED
    BY <2>1, <2>2
<1>4. g = Body(g)
  <2> HIDE DEF Level
  <2> QED
    BY <1>3
<1>5. Ending = CHOOSE e : e = Body(e)
  BY DEF Ending
<1> HIDE DEF g, Body
<1>6. Ending = Body(Ending)
  BY <1>4, <1>5
<1> QED
  BY <1>6 DEF Body

LEMMA PacketType ==
    ASSUME ram \in [Cell -> Word], NEW a \in Cell
    PROVE  /\ ram[a].hi \in Nat /\ Packet(a) \in Seq(Word) /\ Len(Packet(a)) = ram[a].hi
           /\ \A k \in 1 .. ram[a].hi : Packet(a)[k] = ram[Mask(a + 4 * k)]
           /\ ram[a].lo \in Nat
<1>1. ram[a].hi \in Nat /\ ram[a].lo \in Nat
  BY RamAssumption DEF Word
<1>2. ASSUME NEW k \in 1 .. ram[a].hi PROVE ram[Mask(a + 4 * k)] \in Word
  <2>1. a + 4 * k \in Nat
    BY <1>1, RamAssumption DEF Cell, Address
  <2> QED
    BY <2>1, MaskCell
<1> HIDE DEF Mask
<1>3. Packet(a) \in [1 .. ram[a].hi -> Word]
      /\ \A k \in 1 .. ram[a].hi : Packet(a)[k] = ram[Mask(a + 4 * k)]
  BY <1>2 DEF Packet
<1>4. Packet(a) \in Seq(Word) /\ Len(Packet(a)) = ram[a].hi
  <2> DEFINE s == Packet(a)  m == ram[a].hi
  <2>1. m \in Nat /\ s \in [1 .. m -> Word]
    BY <1>1, <1>3
  <2> HIDE DEF s, m
  <2>2. s \in Seq(Word) /\ Len(s) = m
    BY <2>1
  <2> QED
    BY <2>2 DEF s, m
<1> QED
  BY <1>1, <1>3, <1>4

LEMMA ListedUnfolds ==
    ASSUME ram \in [Cell -> Word], NEW n \in 0 .. Links, NEW a \in Cell
    PROVE  /\ Listed[n][a] = IF n > 0 /\ GoesOn(a) THEN Packet(a) \o Listed[n - 1][ram[a].lo]
                                                    ELSE Packet(a)
           /\ Listed[n][a] \in Seq(Word)
<1> DEFINE X == [Cell -> Seq(Word)]
           x == [b \in Cell |-> Packet(b)]
           Step(e) == [b \in Cell |-> IF GoesOn(b) THEN Packet(b) \o e[ram[b].lo] ELSE Packet(b)]
           F == [i \in Nat |-> [e \in X |-> Step(e)]]
           Level(i, e) == [b \in Cell |-> IF i > 0 /\ GoesOn(b) THEN Packet(b) \o e[i - 1][ram[b].lo]
                                                             ELSE Packet(b)]
           Body(e) == [i \in 0 .. Links |-> Level(i, e)]
<1>1. x \in X /\ F \in [Nat -> [X -> X]]
  <2>1. x \in X
    BY PacketType
  <2>2. ASSUME NEW e \in X PROVE Step(e) \in X
    <3>1. ASSUME NEW b \in Cell, GoesOn(b) PROVE Packet(b) \o e[ram[b].lo] \in Seq(Word)
      <4>1. ram[b].lo \in Cell
        BY <3>1 DEF GoesOn
      <4>2. Packet(b) \in Seq(Word) /\ e[ram[b].lo] \in Seq(Word)
        BY <4>1, PacketType
      <4> HIDE DEF X
      <4> QED
        BY <4>2
    <3>2. ASSUME NEW b \in Cell PROVE Packet(b) \in Seq(Word)
      BY PacketType
    <3> QED
      BY <3>1, <3>2
  <2> HIDE DEF Step, X
  <2> QED
    BY <2>1, <2>2
<1>2. PICK f : Recursive(X, x, F, f)
  <2> HIDE DEF X, x, F
  <2> QED
    BY <1>1, Recursion
<1> DEFINE g == [i \in 0 .. Links |-> f[i]]
<1>3. ASSUME NEW i \in 0 .. Links PROVE f[i] = Level(i, g)
  <2>1. CASE i = 0
    <3>1. Level(0, g) = x
      OBVIOUS
    <3> QED
      BY <1>2, <2>1, <3>1 DEF Recursive
  <2>2. CASE i # 0
    <3>1. i - 1 \in Nat /\ i - 1 \in 0 .. Links /\ (i - 1) + 1 = i /\ i > 0
      BY <2>2, LinksNatural
    <3>2. f[i] = F[i - 1][f[i - 1]] /\ f[i - 1] \in X
      <4> HIDE DEF F, X
      <4> QED
        BY <1>2, <3>1 DEF Recursive
    <3>3. f[i] = Step(f[i - 1]) /\ g[i - 1] = f[i - 1]
      <4>1. F[i - 1][f[i - 1]] = Step(f[i - 1])
        <5> HIDE DEF Step, X
        <5> QED
          BY <3>1, <3>2
      <4> QED
        BY <3>1, <3>2, <4>1
    <3>4. Level(i, g) = Step(g[i - 1])
      BY <3>1
    <3> QED
      BY <3>3, <3>4
  <2> QED
    BY <2>1, <2>2
<1>4. g = Body(g)
  <2> HIDE DEF Level
  <2> QED
    BY <1>3
<1>5. Listed = CHOOSE e : e = Body(e)
  BY DEF Listed
<1> HIDE DEF g
<1>6. Listed = Body(Listed)
  <2> HIDE DEF Body
  <2> QED
    BY <1>4, <1>5
<1>7. \A i \in 0 .. Links : Listed[i] = Level(i, Listed)
  <2> HIDE DEF Level
  <2> QED
    BY <1>6
<1> DEFINE T == {i \in Nat : i \in 0 .. Links => Listed[i] \in X}
<1>8. 0 \in T
  <2>1. 0 \in 0 .. Links /\ Level(0, Listed) = x
    BY LinksNatural
  <2> HIDE DEF Level, X, x
  <2> QED
    BY <1>1, <1>7, <2>1
<1>9. ASSUME NEW i \in Nat, i \in T PROVE i + 1 \in T
  <2> SUFFICES ASSUME i + 1 \in 0 .. Links PROVE Listed[i + 1] \in X
    BY DEF T
  <2>1. i \in 0 .. Links /\ (i + 1) - 1 = i /\ i + 1 > 0
    BY LinksNatural
  <2>2. Listed[i] \in X
    <3> HIDE DEF X
    <3> QED
      BY <1>9, <2>1
  <2>3. Level(i + 1, Listed) = Step(Listed[i])
    BY <2>1
  <2>4. Step(Listed[i]) \in X
    <3>1. F[i][Listed[i]] = Step(Listed[i])
      <4> HIDE DEF Step, X
      <4> QED
        BY <2>2
    <3> HIDE DEF F, Step, X
    <3> QED
      BY <1>1, <2>2, <3>1
  <2> HIDE DEF Level, Step, X
  <2> QED
    BY <1>7, <2>3, <2>4
<1>10. Listed[n] \in X
  <2> HIDE DEF T
  <2>1. n \in T
    BY <1>8, <1>9, LinksNatural, NaturalInduction
  <2> HIDE DEF X
  <2> QED
    BY <2>1 DEF T
<1> QED
  BY <1>7, <1>10

LEMMA SameLists ==
    ASSUME UNCHANGED ram
    PROVE  /\ Ending' = Ending /\ Listed' = Listed
           /\ \A n, a : Rest(n, a)' = Rest(n, a)
           /\ \A a : Packet(a)' = Packet(a)
<1>1. /\ \A a : Last(a)' = Last(a) /\ GoesOn(a)' = GoesOn(a)
      /\ \A a : Packet(a)' = Packet(a)
  BY DEF Last, GoesOn, Packet
<1>2. Ending' = Ending
  BY <1>1 DEF Ending
<1>3. Listed' = Listed
  BY <1>1 DEF Listed
<1> QED
  BY <1>1, <1>2, <1>3 DEF Rest

(* Sending the next word of a packet. *)
Whole(s, p, k, t) == s \o (SubSeq(p, k + 1, Len(p)) \o t)
LEMMA SendOne ==
    ASSUME NEW S, NEW s \in Seq(S), NEW p \in Seq(S), NEW t \in Seq(S),
           NEW k \in 0 .. Len(p) - 1, NEW u, u = s \o <<p[k + 1]>>
    PROVE  Whole(u, p, k + 1, t) = Whole(s, p, k, t)
<1>1. Len(p) \in Nat
  OBVIOUS
<1> DEFINE one == <<p[k + 1]>>  rest == SubSeq(p, k + 2, Len(p))
<1>2. SubSeq(p, k + 1, Len(p)) = one \o rest
  <2>1. k + 1 \in 1 .. Len(p) /\ Len(p) \in (k + 1) .. Len(p) /\ (k + 1) + 1 = k + 2
    BY <1>1
  <2> QED
    BY <2>1, SubSeqRecursiveFirst
<1>3. one \in Seq(S)
  BY <1>1
<1>4. rest \in Seq(S)
  <2>1. \A i \in k + 2 .. Len(p) : p[i] \in S
    BY <1>1
  <2> QED
    BY <1>1, <2>1, SubSeqProperties
<1> HIDE DEF one, rest
<1>5. rest \o t \in Seq(S)
  BY <1>4, ConcatProperties
<1>6. (s \o one) \o (rest \o t) = s \o (one \o (rest \o t))
  <2> DEFINE end == rest \o t
  <2> HIDE DEF end
  <2>1. end \in Seq(S)
    BY <1>5 DEF end
  <2>2. (s \o one) \o end = s \o (one \o end)
    BY <1>3, <2>1
  <2> QED
    BY <2>2 DEF end
<1>7. one \o (rest \o t) = (one \o rest) \o t
  BY <1>3, <1>4
<1>8. (k + 1) + 1 = k + 2
  OBVIOUS
<1> QED
  BY <1>2, <1>6, <1>7, <1>8 DEF one, rest, Whole

LEMMA CellWalk ==
    ASSUME NEW a \in Cell, NEW k \in Nat
    PROVE  /\ Mask(a) = a
           /\ Forward(Mask(a + 4 * k)) = Mask(a + 4 * (k + 1))
<1>1. a \in Nat /\ a % 4 = 0 /\ a < RAMSIZE /\ RAMSIZE \in Nat
  BY RamAssumption DEF Cell, Address
<1> DEFINE x == a + 4 * k
<1>2. x \in Int /\ x % 4 = 0 /\ (x + 4) % 4 = 0 /\ a + 4 * (k + 1) = x + 4
  BY <1>1
<1> HIDE DEF x
<1>3. x % RAMSIZE \in Int /\ (x + 4) % RAMSIZE \in Int
      /\ (x + 4) % RAMSIZE = Forward(x % RAMSIZE)
  <2>1. x % RAMSIZE \in Int /\ (x + 4) % RAMSIZE \in Int
    BY <1>1, <1>2, RamAssumption
  <2> QED
    BY <1>2, <2>1, ModuloStep
<1>4. Mask(x) = x % RAMSIZE /\ Mask(x + 4) = (x + 4) % RAMSIZE
  BY <1>2, <1>3 DEF Mask
<1>5. Mask(a) = a
  <2>1. a % RAMSIZE = a
    BY <1>1
  <2> QED
    BY <1>1, <2>1 DEF Mask
<1> QED
  BY <1>2, <1>3, <1>4, <1>5 DEF x

LEMMA DoDmaList ==
    ASSUME NEW p \in Port, NEW c \in ChannelType, DoDma(p, c).loop = "header"
    PROVE  DoDma(p, c).addr = Mask(c.base) /\ Mask(c.base) \in Cell
<1>1. DoDma(p, c).addr = Mask(c.base % RAMSIZE)
  <2>1. CASE LinkedList(c)
    <3> DEFINE a == Mask(c.base % RAMSIZE)
    <3> HIDE DEF a
    <3> QED
      BY <2>1 DEF DoDma, Idle, a
  <2>2. CASE ~LinkedList(c)
    <3>1. DoDma(p, c).loop = "block"
      BY <2>2 DEF DoDma, Idle
    <3> QED
      BY <3>1
  <2> QED
    BY <2>1, <2>2
<1> DEFINE b == c.base
<1>2. b \in Nat /\ RAMSIZE \in Nat /\ RAMSIZE >= 8 /\ RAMSIZE % 4 = 0
  BY SizeType, RamAssumption
<1> HIDE DEF b
<1> DEFINE r == b % RAMSIZE  q == b \div RAMSIZE  k == RAMSIZE \div 4  m == k * q
<1>3. k \in Nat /\ RAMSIZE = 4 * k
  BY <1>2
<1>4. q \in Nat /\ r \in 0 .. RAMSIZE - 1 /\ b = RAMSIZE * q + r
  BY <1>2
<1>5. m \in Nat /\ b = 4 * m + r
  BY <1>3, <1>4
<1>6. Mask(b) = r - (b % 4)
  BY DEF Mask
<1>7. Mask(b) \in Cell
  BY <1>2, MaskCell
<1> HIDE DEF r, q, k, m
<1>8. r % RAMSIZE = r /\ b % 4 = r % 4
  BY <1>2, <1>4, <1>5
<1>9. Mask(r) = r - (r % 4)
  BY <1>8 DEF Mask
<1> QED
  BY <1>1, <1>6, <1>7, <1>8, <1>9 DEF r, b

(* The last header alone ends a well-formed list. *)
LEMMA NextLink ==
    ASSUME ram \in [Cell -> Word], NEW n \in 0 .. Links, NEW a \in Cell, a \in Ending[n]
    PROVE  \/ Last(a) /\ EndOfTable(ram[a])
           \/ /\ GoesOn(a) /\ ~EndOfTable(ram[a]) /\ n > 0 /\ n - 1 \in 0 .. Links
              /\ ram[a].lo \in Cell /\ ram[a].lo \in Ending[n - 1]
              /\ Mask(ram[a].lo) = ram[a].lo
<1>1. CASE Last(a)
  <2>1. (LOW - 1) % 2 = 1
    BY RamAssumption
  <2> QED
    BY <1>1, <2>1 DEF Last, EndOfTable
<1>2. CASE ~Last(a)
  <2>1. n > 0 /\ GoesOn(a) /\ ram[a].lo \in Cell /\ ram[a].lo \in Ending[n - 1]
    BY <1>2, EndingUnfolds DEF GoesOn
  <2>2. ram[a].lo \in Nat /\ ram[a].lo % 4 = 0
    BY <2>1, RamAssumption DEF Cell, Address
  <2>3. ram[a].lo % 2 = 0
    BY <2>2
  <2>4. n - 1 \in 0 .. Links
    BY <2>1, LinksNatural
  <2>5. Mask(ram[a].lo) = ram[a].lo
    BY <2>1, CellWalk
  <2> QED
    BY <2>1, <2>3, <2>4, <2>5 DEF EndOfTable
<1> QED
  BY <1>1, <1>2

LEMMA RestOfList ==
    ASSUME ram \in [Cell -> Word], NEW n \in 0 .. Links, NEW a \in Cell
    PROVE  Rest(n, a) \in Seq(Word) /\ Listed[n][a] = Packet(a) \o Rest(n, a)
<1>1. Packet(a) \in Seq(Word) /\ <<>> \in Seq(Word)
  BY PacketType
<1>2. Packet(a) \o <<>> = Packet(a)
  BY <1>1, ConcatEmptySeq
<1>3. ASSUME n > 0, GoesOn(a) PROVE Listed[n - 1][ram[a].lo] \in Seq(Word)
  <2>1. n - 1 \in 0 .. Links /\ ram[a].lo \in Cell
    BY <1>3, LinksNatural DEF GoesOn
  <2> QED
    BY <2>1, ListedUnfolds
<1> QED
  BY <1>1, <1>2, <1>3, ListedUnfolds DEF Rest
-----------------------------------------------------------------------------
(* The steps of a list. *)
LEMMA ListStart ==
    ASSUME Observed, xfer = Idle, NEW p \in Port, NEW c \in ChannelType,
           SetChannel(p, c), UNCHANGED ram, Observe
    PROVE  ListInv'
<1>1. /\ xfer'.loop # "packet"
      /\ xfer'.loop = "header" =>
            /\ xfer'.port = p
            /\ xfer'.addr = Mask(c.base) /\ Mask(c.base) \in Cell
            /\ xfer' # Idle
  <2>1. CASE Active(c)
    <3>1. xfer' = DoDma(p, c)
      BY <2>1 DEF SetChannel
    <3>2. DoDma(p, c).loop \in {"header", "block"}
      BY DEF DoDma, Idle
    <3>3. Idle.loop = "none"
      BY DEF Idle
    <3> QED
      BY <3>1, <3>2, <3>3, DoDmaStarts, DoDmaList
  <2>2. CASE ~Active(c)
    BY <2>2 DEF SetChannel, Idle
  <2> QED
    BY <2>1, <2>2
<1> SUFFICES ASSUME xfer'.loop = "header", p = Gpu
             PROVE  WellFormed(First)' =>
                       \E n \in 0 .. Links :
                          (xfer.addr \in Ending[n]
                             /\ sent \o Listed[n][xfer.addr] = ListFrom(First))'
  BY <1>1 DEF ListInv
<1>2. mChannels'[Gpu] = c
  BY TypeParts DEF SetChannel, Observed, TypeInv
<1>3. First' = Mask(c.base) /\ xfer'.addr = First'
  BY <1>1, <1>2 DEF First
<1>4. sent' = <<>>
  BY <1>1 DEF Observe, Starts
<1>5. Ending' = Ending /\ Listed' = Listed
  BY SameLists
<1>6. ram \in [Cell -> Word]
  BY TypeParts DEF Observed, TypeInv
<1>7. Listed[Links][First'] \in Seq(Word) /\ Links \in 0 .. Links
  BY <1>1, <1>3, <1>6, ListedUnfolds, LinksNatural
<1>8. <<>> \o Listed[Links][First'] = Listed[Links][First']
  BY <1>7, ConcatEmptySeq
<1> QED
  BY <1>3, <1>4, <1>5, <1>7, <1>8 DEF WellFormed, ListFrom

LEMMA ListHeaderStep ==
    ASSUME Observed, ListInv, ListHeader, Observe
    PROVE  ListInv'
<1>1. /\ running /\ xfer.loop = "header" /\ xfer.port = Gpu /\ gp0' = <<>>
      /\ UNCHANGED <<mChannels, ram>>
  BY DEF ListHeader, Transfers
<1> DEFINE a == xfer.addr
<1>2. ram \in [Cell -> Word] /\ xfer \in XferType /\ a \in Cell /\ sent \in Seq(Word)
  BY <1>1, TypeParts DEF Observed, TypeInv, ListAtCell
<1>3. /\ xfer'.loop = "packet" /\ xfer'.port = Gpu /\ xfer'.addr = a
      /\ xfer'.remsz = ram[a].hi /\ xfer'.header = ram[a]
  BY <1>1, <1>2 DEF ListHeader, XferType
<1>4. sent' = sent
  <2>1. sent' = sent \o <<>>
    BY <1>1 DEF Observe, Starts, Idle
  <2> QED
    BY <1>2, <2>1, ConcatEmptySeq
<1>5. First' = First /\ Ending' = Ending /\ Listed' = Listed
  BY <1>1, SameLists DEF First
<1>6. (\A n, b : Rest(n, b)' = Rest(n, b)) /\ (\A b : Packet(b)' = Packet(b))
  BY <1>1, SameLists
<1> SUFFICES ASSUME WellFormed(First)
             PROVE  \E n \in 0 .. Links :
                       LET k == ram[a].hi - xfer'.remsz
                       IN /\ a \in Ending[n] /\ xfer'.header = ram[a]
                          /\ k >= 0 /\ xfer'.addr = Mask(a + 4 * k)
                          /\ sent' \o (SubSeq(Packet(a), k + 1, ram[a].hi) \o Rest(n, a))
                               = ListFrom(First)
  BY <1>1, <1>2, <1>3, <1>5, <1>6 DEF ListInv, InPacket, WellFormed, ListFrom
<1>7. PICK n \in 0 .. Links : a \in Ending[n] /\ sent \o Listed[n][a] = ListFrom(First)
  BY <1>1 DEF ListInv
<1>8. Listed[n][a] = Packet(a) \o Rest(n, a)
  BY <1>2, RestOfList
<1> DEFINE k == ram[a].hi - xfer'.remsz
<1>9. /\ k = 0 /\ k + 1 = 1 /\ Mask(a + 4 * k) = a
      /\ SubSeq(Packet(a), 1, ram[a].hi) = Packet(a)
  <2>1. ram[a].hi \in Nat /\ Packet(a) \in Seq(Word) /\ Len(Packet(a)) = ram[a].hi
    BY <1>2, PacketType
  <2>2. SubSeq(Packet(a), 1, ram[a].hi) = Packet(a)
    BY <2>1, SubSeqFull
  <2>3. k = 0 /\ k + 1 = 1
    BY <1>3, <2>1
  <2>4. a + 4 * k = a
    BY <1>2, <2>3, RamAssumption DEF Cell, Address
  <2>5. Mask(a) = a
    BY <1>2, CellWalk
  <2> QED
    BY <2>2, <2>3, <2>4, <2>5
<1> HIDE DEF k
<1>10. SubSeq(Packet(a), k + 1, ram[a].hi) \o Rest(n, a) = Listed[n][a]
  BY <1>8, <1>9
<1>11. k >= 0 /\ xfer'.addr = Mask(a + 4 * k)
  BY <1>3, <1>9
<1> QED
  BY <1>3, <1>4, <1>7, <1>10, <1>11 DEF k

LEMMA ListWordStep ==
    ASSUME Observed, ListInv, ListWord, Observe
    PROVE  ListInv'
<1>1. /\ running /\ xfer.loop = "packet" /\ xfer.remsz > 0
      /\ gp0' = <<ram[Forward(xfer.addr)]>> /\ UNCHANGED <<mChannels, ram>>
  BY DEF ListWord, Transfers
<1>2. ram \in [Cell -> Word] /\ xfer \in XferType /\ sent \in Seq(Word) /\ xfer.remsz \in Nat
  BY <1>1, TypeParts DEF Observed, TypeInv, XferType
<1>3. /\ xfer'.loop = "packet" /\ xfer'.port = Gpu /\ xfer'.addr = Forward(xfer.addr)
      /\ xfer'.remsz = xfer.remsz - 1 /\ xfer'.header = xfer.header
  BY <1>1, <1>2 DEF ListWord, XferType, ListInv
<1>4. sent' = sent \o gp0'
  BY <1>1 DEF Observe, Starts, Idle
<1>5. First' = First /\ Ending' = Ending /\ Listed' = Listed
  BY <1>1, SameLists DEF First
<1>6. (\A n, b : Rest(n, b)' = Rest(n, b)) /\ (\A b : Packet(b)' = Packet(b))
  BY <1>1, SameLists
<1>7. (WellFormed(First) <=> WellFormed(First)') /\ ListFrom(First)' = ListFrom(First)
  BY <1>5 DEF WellFormed, ListFrom
<1> SUFFICES ASSUME WellFormed(First)
             PROVE  \E a \in Cell, n \in 0 .. Links : InPacket(a, n)'
  BY <1>3, <1>7 DEF ListInv
<1>8. PICK a \in Cell, n \in 0 .. Links : InPacket(a, n)
  BY <1>1 DEF ListInv
<1> DEFINE p == Packet(a)  hi == ram[a].hi  k == hi - xfer.remsz
<1>9. /\ hi \in Nat /\ p \in Seq(Word) /\ Len(p) = hi
      /\ \A j \in 1 .. hi : p[j] = ram[Mask(a + 4 * j)]
  BY <1>2, PacketType
<1>10. /\ a \in Ending[n] /\ xfer.header = ram[a]
       /\ k >= 0 /\ xfer.addr = Mask(a + 4 * k)
       /\ sent \o (SubSeq(p, k + 1, hi) \o Rest(n, a)) = ListFrom(First)
  BY <1>8 DEF InPacket
<1>11. k \in 0 .. hi - 1 /\ k \in Nat /\ hi - xfer'.remsz = k + 1 /\ k + 1 \in 1 .. hi
       /\ (k + 1) + 1 = k + 2
  <2> HIDE DEF hi
  <2>1. hi \in Nat /\ hi - xfer.remsz >= 0 /\ xfer.remsz \in Nat /\ xfer.remsz > 0
        /\ xfer'.remsz = xfer.remsz - 1
    BY <1>1, <1>2, <1>3, <1>9, <1>10
  <2> QED
    BY <2>1
<1> HIDE DEF p, hi, k
<1>12. xfer'.addr = Mask(a + 4 * (k + 1)) /\ gp0' = <<p[k + 1]>>
  BY <1>1, <1>3, <1>9, <1>10, <1>11, CellWalk
<1>13. Rest(n, a) \in Seq(Word)
  BY <1>2, RestOfList
<1>14. sent' \o (SubSeq(p, k + 2, hi) \o Rest(n, a)) = ListFrom(First)
  <2>1. k \in 0 .. Len(p) - 1 /\ sent' = sent \o <<p[k + 1]>>
    BY <1>4, <1>9, <1>11, <1>12
  <2>2. Whole(sent', p, k + 1, Rest(n, a)) = Whole(sent, p, k, Rest(n, a))
    BY <1>2, <1>9, <1>13, <2>1, SendOne
  <2> QED
    BY <1>9, <1>10, <1>11, <2>2 DEF Whole
<1>15. InPacket(a, n)' <=>
          /\ a \in Ending[n] /\ xfer'.header = ram[a]
          /\ hi - xfer'.remsz >= 0 /\ xfer'.addr = Mask(a + 4 * (hi - xfer'.remsz))
          /\ sent' \o (SubSeq(p, (hi - xfer'.remsz) + 1, hi) \o Rest(n, a)) = ListFrom(First)
  BY <1>1, <1>5, <1>6, <1>7 DEF InPacket, p, hi
<1>16. InPacket(a, n)'
  <2> DEFINE m == hi - xfer'.remsz
  <2>1. m = k + 1 /\ m + 1 = k + 2 /\ m >= 0
    BY <1>11
  <2> HIDE DEF m
  <2>2. xfer'.addr = Mask(a + 4 * m) /\ a \in Ending[n] /\ xfer'.header = ram[a]
    BY <1>3, <1>10, <1>12, <2>1
  <2>3. sent' \o (SubSeq(p, m + 1, hi) \o Rest(n, a)) = ListFrom(First)
    BY <1>14, <2>1
  <2> QED
    BY <1>15, <2>1, <2>2, <2>3 DEF m
<1> QED
  BY <1>16

(* Nothing of a packet is left when its count is 0. *)
LEMMA PacketSent ==
    ASSUME Observed, NEW a \in Cell, NEW n \in 0 .. Links, InPacket(a, n), xfer.remsz = 0
    PROVE  sent \o Rest(n, a) = ListFrom(First) /\ a \in Ending[n] /\ xfer.header = ram[a]
<1>1. ram \in [Cell -> Word]
  BY TypeParts DEF Observed, TypeInv
<1>2. ram[a].hi \in Nat
  BY <1>1, PacketType
<1> DEFINE hi == ram[a].hi  p == Packet(a)
<1>3. hi - xfer.remsz = hi
  BY <1>2
<1>4. sent \o (SubSeq(p, hi + 1, hi) \o Rest(n, a)) = ListFrom(First)
      /\ a \in Ending[n] /\ xfer.header = ram[a]
  <2>1. sent \o (SubSeq(p, (hi - xfer.remsz) + 1, hi) \o Rest(n, a)) = ListFrom(First)
        /\ a \in Ending[n] /\ xfer.header = ram[a]
    BY DEF InPacket
  <2> HIDE DEF hi, p
  <2> QED
    BY <1>3, <2>1
<1> HIDE DEF p
<1>5. SubSeq(p, hi + 1, hi) = <<>>
  BY <1>2, SubSeqEmpty
<1>6. <<>> \o Rest(n, a) = Rest(n, a)
  BY <1>1, RestOfList, ConcatEmptySeq
<1> QED
  BY <1>4, <1>5, <1>6

LEMMA ListNextStep ==
    ASSUME Observed, ListInv, ListNext, Observe
    PROVE  ListInv'
<1>1. /\ running /\ xfer.loop = "packet" /\ xfer.remsz = 0 /\ gp0' = <<>>
      /\ ~EndOfTable(xfer.header) /\ UNCHANGED <<mChannels, ram>>
  BY DEF ListNext, Transfers
<1>2. ram \in [Cell -> Word] /\ xfer \in XferType /\ sent \in Seq(Word)
  BY <1>1, TypeParts DEF Observed, TypeInv
<1>3. /\ xfer'.loop = "header" /\ xfer'.port = xfer.port
      /\ xfer'.addr = Mask(xfer.header.lo)
  BY <1>1, <1>2 DEF ListNext, XferType
<1>4. sent' = sent
  <2>1. sent' = sent \o <<>>
    BY <1>1 DEF Observe, Starts, Idle
  <2> QED
    BY <1>2, <2>1, ConcatEmptySeq
<1>5. First' = First /\ Ending' = Ending /\ Listed' = Listed
  BY <1>1, SameLists DEF First
<1>6. (WellFormed(First) <=> WellFormed(First)') /\ ListFrom(First)' = ListFrom(First)
  BY <1>5 DEF WellFormed, ListFrom
<1> SUFFICES ASSUME WellFormed(First)
             PROVE  \E n \in 0 .. Links :
                       xfer'.addr \in Ending[n] /\ sent' \o Listed[n][xfer'.addr] = ListFrom(First)
  BY <1>3, <1>5, <1>6 DEF ListInv
<1>7. PICK a \in Cell, n \in 0 .. Links : InPacket(a, n)
  BY <1>1 DEF ListInv
<1>8. sent \o Rest(n, a) = ListFrom(First) /\ a \in Ending[n] /\ xfer.header = ram[a]
  BY <1>1, <1>7, PacketSent
<1>9. /\ GoesOn(a) /\ n > 0 /\ n - 1 \in 0 .. Links
      /\ ram[a].lo \in Ending[n - 1] /\ xfer'.addr = ram[a].lo
  BY <1>1, <1>2, <1>3, <1>8, NextLink
<1>10. Rest(n, a) = Listed[n - 1][ram[a].lo]
  BY <1>9 DEF Rest
<1> QED
  BY <1>4, <1>8, <1>9, <1>10

LEMMA ListStep ==
    ASSUME Observed, ListInv, [Next /\ Observe]_obsVars
    PROVE  ListInv'
<1>1. CASE UNCHANGED obsVars
  <2>1. UNCHANGED <<mChannels, ram, xfer, running, sent>>
    BY <1>1 DEF obsVars, vars
  <2>2. First' = First /\ Ending' = Ending /\ Listed' = Listed
    BY <2>1, SameLists DEF First
  <2>3. (\A n, b : Rest(n, b)' = Rest(n, b)) /\ (\A b : Packet(b)' = Packet(b))
    BY <2>1, SameLists
  <2>4. (WellFormed(First) <=> WellFormed(First)') /\ ListFrom(First)' = ListFrom(First)
    BY <2>2 DEF WellFormed, ListFrom
  <2>5. ASSUME NEW a, NEW n, InPacket(a, n) PROVE InPacket(a, n)'
    BY <2>1, <2>2, <2>3, <2>4, <2>5 DEF InPacket
  <2> QED
    BY <2>1, <2>2, <2>4, <2>5 DEF ListInv
<1> SUFFICES ASSUME Next, Observe PROVE ListInv'
  BY <1>1
<1>2. ASSUME NEW p \in Ports, SetBase(p) \/ SetBlockControl(p) \/ SetControl(p)
      PROVE  ListInv'
  <2>1. xfer = Idle /\ ram' = ram
    BY <1>2 DEF SetBase, SetBlockControl, SetControl, CpuStep, WriteBase,
                WriteBlockControl, WriteControl
  <2>2. PICK c \in ChannelType : p \in Port /\ SetChannel(p, c)
    BY <1>2, WriteStep DEF Observed
  <2> QED
    BY <2>1, <2>2, ListStart
<1>3. ASSUME xfer'.loop \in {"none", "block"} \/ ~running' PROVE ListInv'
  BY <1>3 DEF ListInv
<1>4. CASE SetCommon \/ SetInterrupt \/ Store \/ BlockDone \/ ListDone
  <2>1. xfer' = Idle
    BY <1>4 DEF SetCommon, WriteCommon, SetInterrupt, WriteInterrupt, Store, CpuStep,
                BlockDone, ListDone, Finish
  <2> QED
    BY <1>3, <2>1 DEF Idle
<1>5. CASE BlockToGpu \/ BlockToOtc
  <2>1. xfer'.loop = "block"
    BY <1>5, TypeParts DEF BlockToGpu, BlockToOtc, NextBlock, Observed, TypeInv, XferType
  <2> QED
    BY <1>3, <2>1
<1>6. CASE ListHeader \/ ListWord \/ ListNext
  BY <1>6, ListHeaderStep, ListWordStep, ListNextStep
<1>7. CASE Panic
  BY <1>3, <1>7 DEF Panic
<1> QED
  BY <1>2, <1>4, <1>5, <1>6, <1>7 DEF Next, Transfer, Move

LEMMA ListInvariant == ObservedSpec => [](Observed /\ ListInv)
<1>1. ObservedInit => Observed /\ ListInv
  <2> SUFFICES ASSUME ObservedInit PROVE Observed /\ ListInv
    OBVIOUS
  <2>1. TypeInv /\ sent = <<>> /\ xfer = Idle
    BY TypeInit DEF ObservedInit, Init, Boot
  <2>2. <<>> \in Seq(Word)
    OBVIOUS
  <2>3. xfer.loop = "none"
    BY <2>1 DEF Idle
  <2> QED
    BY <2>1, <2>2, <2>3 DEF Observed, ListInv
<1>2. Observed /\ ListInv /\ [Next /\ Observe]_obsVars => (Observed /\ ListInv)'
  BY ObservedStep, ListStep
<1> QED
  BY <1>1, <1>2, PTL DEF ObservedSpec

(* A list whose links are cells of RAM, and that ends, is sent to the GPU  *)
(* whole and in order (doDmaLinkedList), however long it is, whatever its  *)
(* packets are and wherever it lies, across the end of RAM too.            *)
THEOREM ListIsExactCorrect == ObservedSpec => ListIsExact
<1> DEFINE Exact == Ends("packet") /\ WellFormed(First) => sent = ListFrom(First)
<1>1. Observed /\ ListInv /\ [Next /\ Observe]_obsVars => [Exact]_obsVars
  <2> SUFFICES ASSUME Observed, ListInv, Next, Ends("packet"), WellFormed(First)
               PROVE  sent = ListFrom(First)
    OBVIOUS
  <2>1. xfer.loop = "packet" /\ xfer' = Idle /\ xfer'.loop = "none" /\ xfer \in XferType
        /\ ram \in [Cell -> Word] /\ sent \in Seq(Word)
    BY TypeParts DEF Ends, Idle, Observed, TypeInv
  <2>2. running /\ xfer.remsz = 0 /\ EndOfTable(xfer.header)
    <3>1. xfer # Idle
      BY <2>1 DEF Idle
    <3>2. ~(ListHeader \/ ListWord \/ ListNext)
      <4>1. ListHeader \/ ListWord \/ ListNext => xfer'.loop # "none"
        BY <2>1 DEF ListHeader, ListWord, ListNext, XferType
      <4> QED
        BY <2>1, <4>1
    <3>3. ~(BlockToGpu \/ BlockToOtc \/ BlockDone \/ Panic)
      BY <2>1, <3>1 DEF BlockToGpu, BlockToOtc, BlockDone, Panic
    <3>4. ListDone
      BY <3>1, <3>2, <3>3 DEF Next, SetBase, SetBlockControl, SetControl, SetCommon,
         SetInterrupt, Store, CpuStep, Transfer, Move
    <3> QED
      BY <3>4 DEF ListDone, Transfers
  <2>3. PICK a \in Cell, n \in 0 .. Links : InPacket(a, n)
    BY <2>1, <2>2 DEF ListInv
  <2>4. sent \o Rest(n, a) = ListFrom(First) /\ a \in Ending[n] /\ xfer.header = ram[a]
    BY <2>2, <2>3, PacketSent
  <2>5. Last(a)
    BY <2>1, <2>2, <2>4, NextLink
  <2>6. Rest(n, a) = <<>>
    BY <2>5 DEF Rest, GoesOn
  <2> QED
    BY <2>1, <2>4, <2>6, ConcatEmptySeq
<1> QED
  BY <1>1, ListInvariant, PTL DEF ObservedSpec, ListIsExact, First
=============================================================================
