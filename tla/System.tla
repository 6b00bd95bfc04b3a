------------------------------- MODULE System -------------------------------
(***************************************************************************)
(* The bus (bus.cpp) with RAM, the DMA controller and the GPU behind it,   *)
(* as the CPU meets them: loads and stores of words.                       *)
(*                                                                         *)
(* A store to RAM, to a register or to a port of the GPU is one step.  A   *)
(* store that starts a transfer does not return before the transfer is     *)
(* over; its steps are those of Dma, and the GPU takes each word in the    *)
(* step that sends it.  A word is [hi, lo], its top byte and its low 24    *)
(* bits: a header for the DMA, an opcode and its argument for the GPU.     *)
(***************************************************************************)
EXTENDS MemoryMap, Sequences

VARIABLES
    mChannels, mControl, mInterrupt, mChannelIrqFlags, ram, xfer, gp0,
    reg, mGp0WordsRemaining, mGp0CommandMethod, mGp0Command, mGp0Mode,
    mVertexBuf, ran, draws,
    running     \* FALSE once panic has called exit

(* The actions of the devices for this CPU; their panics are taken below.  *)
D == INSTANCE Dma WITH
        LOW <- 2^24, RAMSIZE <- RAM_SIZE, running <- TRUE,
        Bases <- {}, Blocks <- {}, Controls <- {}, Interrupts <- {},
        Commons <- {}, Ports <- {}, Words <- {}, MaxOps <- 0, mOps <- 0
G == INSTANCE Gpu WITH
        Gp0Words <- {}, Gp0Params <- {},
        Gp1Words <- [op : 0 .. 255, arg : 0 .. 2^24 - 1],
        VERTEX_BUFFER_LEN <- 16384, running <- TRUE

dmaVars == <<mChannels, mControl, mInterrupt, mChannelIrqFlags, ram, xfer>>
gpuVars == <<reg, mGp0WordsRemaining, mGp0CommandMethod, mGp0Command, mGp0Mode,
             mVertexBuf>>
systemVars == <<dmaVars, gpuVars, gp0, ran, draws, running>>

SystemInit == D!Init /\ G!Init /\ running = TRUE
-----------------------------------------------------------------------------
(* Words. *)
AsWord(hi, lo) == [hi |-> hi, lo |-> lo]
Zero == AsWord(0, 0)
AsCommand(w) == [op |-> w.hi, arg |-> w.lo]

Ones(n) == {b \in 0 .. 23 : (n \div 2^b) % 2 = 1}
Bits(w) == Ones(w.lo) \cup {24 + b : b \in Ones(w.hi)}
Bit(bits, b) == IF b \in bits THEN 1 ELSE 0
Byte(bits, b) ==
    Bit(bits, b) + 2 * Bit(bits, b + 1) + 4 * Bit(bits, b + 2) + 8 * Bit(bits, b + 3)
      + 16 * Bit(bits, b + 4) + 32 * Bit(bits, b + 5) + 64 * Bit(bits, b + 6)
      + 128 * Bit(bits, b + 7)
FromBits(bits) ==
    AsWord(Byte(bits, 24), Byte(bits, 0) + 2^8 * Byte(bits, 8) + 2^16 * Byte(bits, 16))
-----------------------------------------------------------------------------
GpuWaits == UNCHANGED gpuVars /\ ran' = G!NoCommand /\ draws' = <<>>

Dies == running' = FALSE /\ UNCHANGED <<dmaVars, gpuVars, gp0, ran, draws>>

Gp0(w) ==
    IF G!Gp0Panics(AsCommand(w))
    THEN running' = FALSE /\ UNCHANGED <<gpuVars, ran, draws>>
    ELSE G!Gp0Step(AsCommand(w)) /\ UNCHANGED running

StoreRam(offset, w) ==
    /\ ram' = [ram EXCEPT ![offset] = w]
    /\ UNCHANGED <<mChannels, mControl, mInterrupt, mChannelIrqFlags, xfer>>

BlockControl(w) == [size |-> w.lo % 2^16, count |-> w.hi * 2^8 + w.lo \div 2^16]

SetDmaReg(offset, w) ==
    LET major == offset \div 16  minor == offset % 16
    IN  \/ major < 7 /\ minor = 0 /\ D!WriteBase(major, w.lo)
        \/ major < 7 /\ minor = 4 /\ D!WriteBlockControl(major, BlockControl(w))
        \/ major < 7 /\ minor = 8 /\ D!WriteControl(major, Bits(w))
        \/ major = 7 /\ minor = 0 /\ D!WriteCommon(w)
        \/ major = 7 /\ minor = 4 /\ D!WriteInterrupt(Bits(w))

StorePanics(d, offset, w) ==
    \/ Refuses("store", d, offset, w)
    \/ d = "DMA" /\ offset % 16 = 8 /\ D!UnknownSync(Bits(w))
    \/ d = "GPU" /\ offset = 0 /\ G!Gp0Panics(AsCommand(w))
    \/ d = "GPU" /\ offset = 4 /\ G!Gp1Panics(AsCommand(w))

(* Bus::store32.  The other devices ignore what is written to them. *)
Store32(a, w) ==
    LET d == Target("store", 4, a)
        offset == Offset(d, a)
    IN  /\ running /\ xfer = D!Idle
        /\ IF StorePanics(d, offset, w) THEN Dies
           ELSE /\ gp0' = <<>>
                /\ \/ d = "RAM" /\ StoreRam(offset, w) /\ GpuWaits /\ UNCHANGED running
                   \/ d = "DMA" /\ SetDmaReg(offset, w) /\ GpuWaits /\ UNCHANGED running
                   \/ d = "GPU" /\ offset = 0 /\ Gp0(w) /\ UNCHANGED dmaVars
                   \/ /\ d = "GPU" /\ offset = 4 /\ G!Gp1Step(AsCommand(w))
                      /\ UNCHANGED <<dmaVars, running>>
                   \/ d \notin {"RAM", "DMA", "GPU"} /\ GpuWaits /\ UNCHANGED <<dmaVars, running>>

(* Bus::dmaReg. *)
DmaReg(offset) ==
    LET major == offset \div 16  minor == offset % 16
        c == mChannels[major]
    IN  CASE major < 7 /\ minor = 0 -> AsWord(0, c.base)
          [] major < 7 /\ minor = 4 ->
                AsWord(c.block.count \div 2^8, (c.block.count % 2^8) * 2^16 + c.block.size)
          [] major < 7 /\ minor = 8 -> FromBits(c.control)
          [] major = 7 /\ minor = 0 -> mControl
          [] OTHER -> FromBits(D!InterruptRegister)

(* Bus::load32, of addresses that it accepts and outside the BIOS. *)
Load32(a) ==
    LET d == Target("load", 4, a)
        offset == Offset(d, a)
    IN  CASE d = "RAM" -> ram[offset]
          [] d = "DMA" -> DmaReg(offset)
          [] d = "GPU" /\ offset = 4 -> FromBits(G!Status)
          [] OTHER -> Zero

(* A step of the transfer that the last store has started. *)
Transfer ==
    /\ running /\ xfer # D!Idle
    /\ IF D!Unhandled THEN Dies
       ELSE /\ D!Move
            /\ IF gp0' = <<>> THEN GpuWaits /\ UNCHANGED running ELSE Gp0(gp0'[1])
=============================================================================
