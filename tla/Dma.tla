-------------------------------- MODULE Dma --------------------------------
(***************************************************************************)
(* The DMA controller (dma.cpp, dma.hpp) and the part of the bus that      *)
(* decodes its registers and runs its transfers (bus.cpp, setDmaReg and    *)
(* doDma).                                                                 *)
(*                                                                         *)
(* A register write that starts a transfer does not return before the      *)
(* transfer is over.  The model takes one step per iteration of its loops, *)
(* and no CPU step in between.  The words for the GPU leave through gp0.   *)
(*                                                                         *)
(* A word of RAM is [hi, lo]: its top byte and its low 24 bits.  Byte      *)
(* addresses count modulo RAMSIZE, which divides every modulus of the code *)
(* (LOW = 2^24, 2^32).  The control register of a channel is the set of    *)
(* its bits that are 1.                                                    *)
(***************************************************************************)
EXTENDS Integers, Sequences

CONSTANTS
    LOW,                     \* 2^24: the values of the low part of a word
    RAMSIZE,                 \* 2^21: the bytes of RAM
    Bases, Blocks, Controls, \* values the CPU writes to a channel's registers
    Interrupts, Commons,     \* ... and to the interrupt and control registers
    Ports,                   \* the ports it writes to
    Words,                   \* the words it stores
    MaxOps                   \* bound on mOps, the CPU's stores

Port == 0 .. 6
Gpu == 2
Otc == 6
Address == 0 .. RAMSIZE - 1
Cell == {a \in Address : a % 4 = 0}
Word == [hi : 0 .. 255, lo : 0 .. LOW - 1]
ControlBits == {0, 1, 8, 9, 10, 24, 28, 29, 30} \cup 16 .. 18 \cup 20 .. 22
InterruptBits == 0 .. 5 \cup 15 .. 23

ASSUME RamAssumption ==
    /\ RAMSIZE \in Nat /\ LOW \in Nat
    /\ RAMSIZE >= 8 /\ RAMSIZE % 4 = 0 /\ RAMSIZE <= LOW
    /\ LOW % 2 = 0    \* the end marker LOW - 1 has bit 0

ASSUME InputAssumption ==
    /\ Bases \subseteq Nat
    /\ Blocks \subseteq [size : Nat, count : Nat]
    /\ Controls \subseteq SUBSET (0 .. 31)
    /\ Interrupts \subseteq SUBSET (0 .. 31)
    /\ Ports \subseteq Port
    /\ Words \subseteq Word /\ Commons \subseteq Word
    /\ MaxOps \in Nat

VARIABLES
    mChannels,          \* base, block control and control of each channel
    mControl,           \* the common control register
    mInterrupt,         \* bits [5:0] and [23:15] of the interrupt register
    mChannelIrqFlags,   \* its bits [30:24], as a set of ports
    ram,
    xfer,               \* the loop under way and its local variables
    gp0,                \* observed: the words the last step sent to the GPU
    mOps,
    running             \* FALSE once panic has called exit

common == <<mControl, mInterrupt, mChannelIrqFlags>>
vars == <<mChannels, common, ram, xfer, gp0, mOps, running>>

Idle == [loop |-> "none", port |-> 0, addr |-> 0, remsz |-> 0,
         header |-> [hi |-> 0, lo |-> 0]]

TypeOK ==
    /\ mChannels \in [Port -> [base : 0 .. LOW - 1,
                               block : [size : Nat, count : Nat],
                               control : SUBSET ControlBits]]
    /\ mControl \in Word
    /\ mInterrupt \in SUBSET InterruptBits
    /\ mChannelIrqFlags \in SUBSET Port
    /\ ram \in [Cell -> Word]
    /\ xfer \in [loop : {"none", "block", "header", "packet"}, port : Port,
                 addr : Address, remsz : Nat, header : Word]
    /\ gp0 \in Seq(Word)
    /\ mOps \in 0 .. MaxOps
    /\ running \in BOOLEAN

Reset == [base |-> 0, block |-> [size |-> 0, count |-> 0], control |-> {}]

(* The constructors, for any contents of RAM. *)
Boot(contents) ==
    /\ mChannels = [p \in Port |-> Reset]
    /\ mControl = [hi |-> 7, lo |-> \h654321 % LOW]
    /\ mInterrupt = {} /\ mChannelIrqFlags = {}
    /\ ram = contents
    /\ xfer = Idle /\ gp0 = <<>>
    /\ mOps = 0
    /\ running = TRUE

(* Ram::Ram fills RAM with 0xca. *)
Init == Boot([a \in Cell |-> [hi |-> \hca, lo |-> \hcacaca % LOW]])
-----------------------------------------------------------------------------
(* addr & 0x1ffffc *)
Mask(a) == (a % RAMSIZE) - (a % 4)
Forward(a) == IF a + 4 < RAMSIZE THEN a + 4 ELSE a + 4 - RAMSIZE
BackVariant(a) == a - 4
Back(a)    == IF a >= 4 THEN a - 4 ELSE a - 4 + RAMSIZE

FromRam(c)   == 0 \in c.control
Decrement(c) == 1 \in c.control
LinkedList(c) == 10 \in c.control
Request(c)   == 9 \in c.control

(* Channel::active *)
Active(c) ==
    24 \in c.control /\ (LinkedList(c) \/ Request(c) \/ 28 \in c.control)

TransferSizeVariant(c) == c.block.size
(* Channel::transferSize, for the two modes that know it. *)
TransferSize(c) == IF Request(c) THEN c.block.count * c.block.size
                                 ELSE c.block.size

DoneVariant(c) == [c EXCEPT !.control = @ \ {28}]
(* Channel::done *)
Done(c) == [c EXCEPT !.control = @ \ {24, 28}]

(* doDma, up to the loop of the transfer. *)
DoDma(p, c) ==
    LET addr == c.base % RAMSIZE
    IN [Idle EXCEPT !.port = p,
                    !.loop = IF LinkedList(c) THEN "header" ELSE "block",
                    !.addr = IF LinkedList(c) THEN Mask(addr) ELSE addr,
                    !.remsz = IF LinkedList(c) THEN 0 ELSE TransferSize(c)]

(* setDmaReg looks for a started channel after a write to any register.   *)
SetChannel(p, c) ==
    /\ mChannels' = [mChannels EXCEPT ![p] = c]
    /\ xfer' = IF Active(c) THEN DoDma(p, c) ELSE Idle

(* A step of the CPU that the rest of the emulator sees. *)
CpuStep ==
    /\ running /\ xfer = Idle /\ mOps < MaxOps
    /\ mOps' = mOps + 1
    /\ gp0' = <<>>
    /\ UNCHANGED running

(* The registers of a channel and the common ones, written with v. *)
WriteBase(p, v) ==
    /\ SetChannel(p, [mChannels[p] EXCEPT !.base = v % LOW])
    /\ UNCHANGED <<common, ram>>

WriteBlockControl(p, v) ==
    /\ SetChannel(p, [mChannels[p] EXCEPT !.block = v])
    /\ UNCHANGED <<common, ram>>

UnknownSync(v) == {9, 10} \subseteq v

WriteControl(p, v) ==
    /\ ~UnknownSync(v)
    /\ SetChannel(p, [mChannels[p] EXCEPT !.control = v \cap ControlBits])
    /\ UNCHANGED <<common, ram>>

WriteCommon(v) ==
    /\ mControl' = v
    /\ UNCHANGED <<mChannels, mInterrupt, mChannelIrqFlags, ram, xfer>>

(* `mChannelIrqFlags &= !ack' keeps bit 0 or nothing: ! is the logical     *)
(* negation.                                                               *)
WriteInterrupt(v) ==
    /\ mInterrupt' = v \cap InterruptBits
    /\ mChannelIrqFlags' =
          IF v \cap 24 .. 29 = {} THEN mChannelIrqFlags \cap {0} ELSE {}
    /\ UNCHANGED <<mChannels, mControl, ram, xfer>>

SetBase(p) == CpuStep /\ \E v \in Bases : WriteBase(p, v)
SetBlockControl(p) == CpuStep /\ \E v \in Blocks : WriteBlockControl(p, v)
SetControl(p) == CpuStep /\ \E v \in Controls : WriteControl(p, v)
SetCommon == CpuStep /\ \E v \in Commons : WriteCommon(v)
SetInterrupt == CpuStep /\ \E v \in Interrupts : WriteInterrupt(v)

(* Dma::irq and Dma::interrupt, what a load of the register returns.  The  *)
(* force bit raises the interrupt, and so does an enabled flag if the      *)
(* master bit 23 is set.                                                   *)
Irq == \/ 15 \in mInterrupt
       \/ 23 \in mInterrupt /\ \E p \in mChannelIrqFlags : 16 + p \in mInterrupt
InterruptRegister ==
    mInterrupt \cup {24 + p : p \in mChannelIrqFlags} \cup (IF Irq THEN {31} ELSE {})

(* Stores of the CPU to RAM. *)
Store ==
    /\ CpuStep
    /\ \E a \in Cell, w \in Words : ram' = [ram EXCEPT ![a] = w]
    /\ UNCHANGED <<mChannels, common, xfer>>
-----------------------------------------------------------------------------
(* The loops of doDmaBlock and doDmaLinkedList. *)
Channel == mChannels[xfer.port]

Transfers ==
    running /\ UNCHANGED common /\ mOps' = mOps /\ running' = running

Finish ==
    /\ mChannels' = [mChannels EXCEPT ![xfer.port] = Done(Channel)]
    /\ xfer' = Idle
    /\ gp0' = <<>>
    /\ UNCHANGED ram

NextBlock ==
    /\ xfer' = [xfer EXCEPT !.addr = IF Decrement(Channel) THEN Back(@) ELSE Forward(@),
                            !.remsz = @ - 1]
    /\ UNCHANGED mChannels

BlockToGpu ==
    /\ Transfers
    /\ xfer.loop = "block" /\ xfer.remsz > 0
    /\ FromRam(Channel) /\ xfer.port = Gpu
    /\ gp0' = <<ram[Mask(xfer.addr)]>>
    /\ NextBlock
    /\ UNCHANGED ram

EndMarker == [hi |-> 0, lo |-> LOW - 1]

TableEntryVariant == IF xfer.remsz = 0 THEN EndMarker
                                       ELSE [hi |-> 0, lo |-> Back(xfer.addr)]
(* The pointer to the previous entry, or 0xffffff in the last one. *)
TableEntry == IF xfer.remsz = 1 THEN EndMarker
                                ELSE [hi |-> 0, lo |-> Back(xfer.addr)]

BlockToOtc ==
    /\ Transfers
    /\ xfer.loop = "block" /\ xfer.remsz > 0
    /\ ~FromRam(Channel) /\ xfer.port = Otc
    /\ ram' = [ram EXCEPT ![Mask(xfer.addr)] = TableEntry]
    /\ gp0' = <<>>
    /\ NextBlock

BlockDone ==
    /\ Transfers
    /\ xfer.loop = "block" /\ xfer.remsz = 0
    /\ Finish

ListHeader ==
    /\ Transfers
    /\ xfer.loop = "header"
    /\ FromRam(Channel) /\ xfer.port = Gpu
    /\ LET header == ram[xfer.addr]
       IN xfer' = [xfer EXCEPT !.loop = "packet", !.header = header,
                               !.remsz = header.hi]
    /\ gp0' = <<>>
    /\ UNCHANGED <<mChannels, ram>>

ListWordVariant ==
    /\ Transfers
    /\ xfer.loop = "packet" /\ xfer.remsz > 0
    /\ gp0' = <<ram[xfer.addr]>>
    /\ xfer' = [xfer EXCEPT !.addr = Forward(@), !.remsz = @ - 1]
    /\ UNCHANGED <<mChannels, ram>>
ListWord ==
    /\ Transfers
    /\ xfer.loop = "packet" /\ xfer.remsz > 0
    /\ gp0' = <<ram[Forward(xfer.addr)]>>
    /\ xfer' = [xfer EXCEPT !.addr = Forward(@), !.remsz = @ - 1]
    /\ UNCHANGED <<mChannels, ram>>

EndOfTableVariant(header) == header.lo = 0
(* `header & 0x800000 != 0' is `header & (0x800000 != 0)': bit 0. *)
EndOfTable(header) == header.lo % 2 = 1

ListNext ==
    /\ Transfers
    /\ xfer.loop = "packet" /\ xfer.remsz = 0
    /\ ~EndOfTable(xfer.header)
    /\ xfer' = [xfer EXCEPT !.loop = "header", !.addr = Mask(xfer.header.lo)]
    /\ gp0' = <<>>
    /\ UNCHANGED <<mChannels, ram>>

ListDone ==
    /\ Transfers
    /\ xfer.loop = "packet" /\ xfer.remsz = 0
    /\ EndOfTable(xfer.header)
    /\ Finish

(* Transfers the bus does not know how to do. *)
Unhandled ==
    \/ xfer.loop = "header" /\ ~(FromRam(Channel) /\ xfer.port = Gpu)
    \/ /\ xfer.loop = "block" /\ xfer.remsz > 0
       /\ xfer.port # (IF FromRam(Channel) THEN Gpu ELSE Otc)

(* panic: an unknown transfer, an unknown synchronization mode or a write *)
(* to a register that is not there.                                        *)
Panic ==
    /\ running
    /\ \/ Unhandled
       \/ xfer = Idle /\ mOps < MaxOps
    /\ running' = FALSE
    /\ UNCHANGED <<mChannels, common, ram, xfer, gp0, mOps>>
-----------------------------------------------------------------------------
Move == \/ BlockToGpu \/ BlockToOtc \/ BlockDone
        \/ ListHeader \/ ListWord \/ ListNext \/ ListDone

Transfer == Move \/ (Unhandled /\ Panic)

Next == \/ \E p \in Ports : SetBase(p) \/ SetBlockControl(p) \/ SetControl(p)
        \/ SetCommon \/ SetInterrupt \/ Store
        \/ Transfer \/ Panic

Spec == Init /\ [][Next]_vars

(* A transfer is a loop of the only thread: it is never left waiting. *)
FairSpec == Spec /\ WF_vars(Transfer)
=============================================================================
