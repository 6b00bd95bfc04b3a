-------------------------------- MODULE Cpu --------------------------------
(***************************************************************************)
(* The interpreter of the R3000A: cpu.cpp and cpu.hpp.                     *)
(*                                                                         *)
(* One action is one call of Cpu::runNextInstruction, from the fetch to    *)
(* the copy of mOutRegs into mRegs.  The memory behind the bus is open: a  *)
(* fetch returns any instruction of Program and a load any value of        *)
(* BusData, so every interleaving of data and (self-modifying) code is     *)
(* covered.  Word sizes are parameters: the code has BYTE = 2^8,           *)
(* HALF = 2^16, WORD = 2^32.                                               *)
(***************************************************************************)
EXTENDS Integers, Sequences

CONSTANTS
    BYTE, HALF, WORD,        \* number of values of uint8_t, uint16_t, uint32_t
    BYTEBITS,                \* bits in a byte
    JREGION,                 \* 2^28: the region a J or JAL stays in
    ResetVector,             \* 0xbfc00000
    HandlerRam, HandlerRom,  \* 0x80000080 and 0xbfc00180
    PowerOn,                 \* 0xdeadc0de
    IscBit, BevBit,          \* bits 16 and 22 of SR, as powers of two
    BdBit,                   \* bit 31 of CAUSE, as a power of two
    BitAnd(_, _), BitOr(_, _), BitXor(_, _),     \* C's  &  |  ^
    ShiftLeft(_, _), ShiftRight(_, _),           \* C's  <<  >>  on uint32_t
    ShiftArith(_, _),                            \* C's  >>  on int32_t
    Program,                 \* the instructions a fetch may return
    BusData,                 \* the words a load may return
    Unmapped,                \* the addresses the bus panics on
    MaxIp                    \* bound on mIp

Word == 0 .. WORD - 1
Reg == 0 .. 31

(* Decoded instruction.  `op' stands for bits [31:26] (and [5:0] when those *)
(* are 0), s, t, d for the register fields, i for the immediate: imm, the  *)
(* jump target, the shift amount, or the low six bits of a COP0 opcode.    *)
ShiftOps  == {"SLL", "SRL", "SRA"}
RegOps    == {"OR", "AND", "XOR", "NOR", "ADDU", "SUBU", "SLT", "SLTU",
              "SLLV", "SRLV", "SRAV", "MFHI", "MFLO"}
ImmOps    == {"LUI", "ORI", "ANDI", "XORI", "ADDIU", "SLTI", "SLTIU"}
HiLoOps   == {"MULT", "MULTU", "DIV", "DIVU", "MTHI", "MTLO"}
LoadOps   == {"LW", "LH", "LHU", "LB", "LBU"}
MergeOps  == {"LWL", "LWR"}
StoreOps  == {"SW", "SH", "SB"}
MergeStoreOps == {"SWL", "SWR"}
BranchOps == {"BEQ", "BNE", "BGTZ", "BLEZ", "BXX"}
JumpOps   == {"J", "JAL", "JR", "JALR"}
TrapOps   == {"SYSCALL", "BREAK", "ILLEGAL", "COP1", "COP3", "LWC0", "LWC1",
              "LWC3", "SWC0", "SWC1", "SWC3"}
GteOps    == {"COP2", "LWC2", "SWC2"}
Ops == ShiftOps \cup RegOps \cup ImmOps \cup HiLoOps \cup LoadOps
         \cup MergeOps \cup StoreOps \cup MergeStoreOps \cup BranchOps
         \cup JumpOps \cup TrapOps \cup GteOps
         \cup {"ADD", "ADDI", "SUB", "COP0"}

Instruction == [op : Ops, s : Reg, t : Reg, d : Reg, i : Nat]

ASSUME WordAssumption ==
    /\ BYTE \in Nat /\ HALF \in Nat /\ WORD \in Nat /\ BYTEBITS \in Nat \ {0}
    /\ 2 <= BYTE /\ BYTE <= HALF /\ HALF * BYTE <= WORD /\ HALF <= WORD
    /\ 64 <= WORD /\ WORD % 4 = 0
    /\ JREGION \in Nat \ {0}
    /\ \A a \in Word : (a - (a % JREGION)) + JREGION <= WORD

ASSUME AddressAssumption ==
    /\ ResetVector \in Word /\ HandlerRam \in Word /\ HandlerRom \in Word
    /\ PowerOn \in Word /\ BdBit \in Word
    /\ 64 <= BdBit /\ BdBit + 64 <= WORD
    /\ IscBit \in Nat \ {0} /\ BevBit \in Nat \ {0}

ASSUME BitAssumption ==
    /\ \A a, b \in Word :
         BitAnd(a, b) \in Word /\ BitOr(a, b) \in Word /\ BitXor(a, b) \in Word
    /\ \A a \in Word, n \in 0 .. 4 * BYTEBITS - 1 :
         /\ ShiftLeft(a, n) \in Word /\ ShiftRight(a, n) \in Word
         /\ ShiftArith(a, n) \in Word

(* The number of values of n bytes. *)
Bytes(n) == CASE n = 0 -> 1
              [] n = 1 -> BYTE
              [] n = 2 -> HALF
              [] n = 3 -> BYTE * HALF
              [] OTHER -> WORD

(* What C's operators do to the whole bytes of a word. *)
ASSUME BytesAssumption ==
    /\ HALF = BYTE * BYTE /\ WORD = HALF * HALF
    /\ \A n \in 0 .. 3 :
         /\ \A a \in Word : BitAnd(a, Bytes(n) - 1) = a % Bytes(n)
         /\ \A a, b \in Word :
              a < Bytes(n) /\ b % Bytes(n) = 0 => BitOr(a, b) = a + b
         /\ \A a \in Word : ShiftLeft(a, n * BYTEBITS) = (a * Bytes(n)) % WORD

ASSUME ProgramAssumption ==
    /\ Program \subseteq Instruction
    /\ BusData \subseteq Word
    /\ MaxIp \in Nat
    /\ \A ins \in Program :
         /\ ins.op \in {"J", "JAL"} => 4 * ins.i < JREGION
         /\ ins.op \in ShiftOps => ins.i < 4 * BYTEBITS
         /\ ins.op \notin {"J", "JAL", "COP0"} \cup ShiftOps => ins.i < HALF
-----------------------------------------------------------------------------
(* Operators named ...Variant are one plausible slip away from the          *)
(* definition that follows them; nothing of the model uses them.           *)
PlusVariant(a, b) == a + b
(* uint32_t arithmetic. *)
Plus(a, b)  == IF a + b < WORD THEN a + b ELSE a + b - WORD
Minus(a, b) == IF a >= b THEN a - b ELSE a - b + WORD
TimesFour(a) == Plus(Plus(a, a), Plus(a, a))
Negative(a) == a >= WORD \div 2
Signed(a)   == IF Negative(a) THEN a - WORD ELSE a
SignExtend(v, width) == IF v < width \div 2 THEN v ELSE WORD - width + v
ImmSe(ins)  == SignExtend(ins.i, HALF)
Truth(p)    == IF p THEN 1 ELSE 0
Magnitude(n) == IF n < 0 THEN -n ELSE n
TruncDivVariant(n, m) == IF m > 0 THEN n \div m ELSE (-n) \div (-m)
TruncDiv(n, m) == IF (n < 0) = (m < 0) THEN Magnitude(n) \div Magnitude(m)
                                       ELSE -(Magnitude(n) \div Magnitude(m))

AddOverflowVariant(old, add, new) == new < old
(* The sign of the result differs from the sign of both addends. *)
AddOverflow(old, add, new) ==
    Negative(new) # Negative(old) /\ Negative(new) # Negative(add)
SubOverflow(old, sub, new) ==
    Negative(new) # Negative(old) /\ Negative(old) # Negative(sub)

MergeMaskVariant(k) == CASE k = 1 -> BYTE - 1
                         [] k = 2 -> HALF - 1
                         [] k = 3 -> BYTE * HALF - 1
                         [] OTHER -> 0
(* The masks 0x00ffffff, 0x0000ffff, 0x000000ff, 0 of the unaligned ops. *)
MergeMask(k) == CASE k = 0 -> BYTE * HALF - 1
                  [] k = 1 -> HALF - 1
                  [] k = 2 -> BYTE - 1
                  [] OTHER -> 0
-----------------------------------------------------------------------------
VARIABLES
    mPc, mNextPc, mCurrentPc,  \* this, the next and the executing instruction
    mRegs, mOutRegs,           \* input and output register files
    mLoadRegIdx, mLoadReg,     \* the load delay slot
    mSr, mCause, mEpc,         \* coprocessor 0
    mHi, mLo,
    mBranch, mDelaySlot,
    mIp,
    running,                   \* FALSE once panic has called exit
    trap,                      \* observed: the exception the last step raised
    bus                        \* observed: the data accesses of the last step

flow == <<mPc, mNextPc, mCurrentPc, mBranch, mDelaySlot, mIp>>
files == <<mRegs, mOutRegs, mLoadRegIdx, mLoadReg>>
cop0 == <<mSr, mCause, mEpc>>
vars == <<flow, files, cop0, mHi, mLo, running, trap, bus>>

(* enum exception::Exception; 0 (no member) for "none". *)
None == 0
LoadAddressError == 4
StoreAddressError == 5
SysCall == 8
Break == 9
IllegalInstruction == 10
CoprocessorError == 11
Overflow == 12
Exceptions == {LoadAddressError, StoreAddressError, SysCall, Break,
               IllegalInstruction, CoprocessorError, Overflow}

Access == [kind : {"load", "store"}, width : {1, 2, 4}, addr : Word, val : Word]

TypeOK ==
    /\ mPc \in Word /\ mNextPc \in Word /\ mCurrentPc \in Word
    /\ mRegs \in [Reg -> Word] /\ mOutRegs \in [Reg -> Word]
    /\ mLoadRegIdx \in Reg /\ mLoadReg \in Word
    /\ mSr \in Word /\ mCause \in Word /\ mEpc \in Word
    /\ mHi \in Word /\ mLo \in Word
    /\ mBranch \in BOOLEAN /\ mDelaySlot \in BOOLEAN
    /\ mIp \in 0 .. MaxIp
    /\ running \in BOOLEAN
    /\ trap \in Exceptions \cup {None}
    /\ bus \in Seq(Access)

(* Cpu::Cpu, for any contents of the register file and any count so far. *)
Boot(regs, ip) ==
    /\ mPc = ResetVector /\ mNextPc = Plus(ResetVector, 4) /\ mCurrentPc = 0
    /\ mRegs = regs /\ mOutRegs = regs
    /\ mLoadRegIdx = 0 /\ mLoadReg = 0
    /\ mSr = 0 /\ mCause = 0 /\ mEpc = 0
    /\ mHi = PowerOn /\ mLo = PowerOn
    /\ mBranch = FALSE /\ mDelaySlot = FALSE
    /\ mIp = ip
    /\ running = TRUE /\ trap = None /\ bus = <<>>

PowerOnRegs == [r \in Reg |-> IF r = 0 THEN 0 ELSE PowerOn]

Init == Boot(PowerOnRegs, 0)
-----------------------------------------------------------------------------
(* Pieces of a step. *)

SetReg(regs, index, val) == [regs EXCEPT ![index] = val, ![0] = 0]

LandedVariant == mOutRegs

(* mOutRegs once the pending load has been written to it. *)
Landed == SetReg(mOutRegs, mLoadRegIdx, mLoadReg)

IsolatedVariant == (mSr \div BevBit) % 2 = 1
Isolated == (mSr \div IscBit) % 2 = 1
HandlerVariant == mPc
Handler  == IF (mSr \div BevBit) % 2 = 1 THEN HandlerRom ELSE HandlerRam

PushModeVariant(sr) == ((sr % 64) * 2) % 64

(* `mSr &= !0x3f' clears the whole register: ! is the logical negation.  *)
PushMode(sr) == ((sr % 64) * 4) % 64
PopMode(sr)  == (sr % 64) \div 4

(* Cpu::exception, called with mCurrentPc = current and mDelaySlot = slot. *)
Exception(cause, current, slot) ==
    /\ mSr' = PushMode(mSr)
    /\ mCause' = IF slot THEN cause * 4 + BdBit ELSE cause * 4
    /\ mEpc' = IF slot THEN Minus(current, 4) ELSE current
    /\ mPc' = Handler
    /\ mNextPc' = Plus(Handler, 4)
    /\ trap' = cause

(* Where the program goes after an instruction that does not trap. *)
NextInstruction == mPc' = mNextPc /\ mNextPc' = Plus(mNextPc, 4) /\ mBranch' = FALSE
JumpVariant(target) == mPc' = target /\ mNextPc' = Plus(target, 4) /\ mBranch' = TRUE
Jump(target) == mPc' = mNextPc /\ mNextPc' = target /\ mBranch' = TRUE
NoTrap == trap' = None /\ UNCHANGED cop0
TrapEpcVariant(cause) == Exception(cause, mPc, mDelaySlot) /\ mBranch' = FALSE
TrapBranchVariant(cause) == Exception(cause, mPc, mBranch) /\ mBranch' = TRUE
Trap(cause) == Exception(cause, mPc, mBranch) /\ mBranch' = FALSE

Retire(regs) == mOutRegs' = regs /\ mRegs' = regs
LoadSlot(index, val) == mLoadRegIdx' = index /\ mLoadReg' = val
EmptySlotVariant == UNCHANGED <<mLoadRegIdx, mLoadReg>>
EmptySlot == LoadSlot(0, 0)
NoAccess == bus' = <<>>

S(ins) == mRegs[ins.s]
T(ins) == mRegs[ins.t]
Address(ins) == Plus(S(ins), ImmSe(ins))
Aligned(ins) == Address(ins) - (Address(ins) % 4)

(* The addresses the data accesses of an instruction reach the bus with.  *)
DataAddresses(ins) ==
    LET addr == Address(ins) IN
    CASE ins.op = "LW"  -> IF Isolated THEN {} ELSE {addr}
      [] ins.op \in {"LB", "LBU", "LH"} -> {addr}
      [] ins.op = "LHU" -> IF addr % 2 = 0 THEN {addr} ELSE {}
      [] ins.op \in MergeOps \cup MergeStoreOps -> {Aligned(ins)}
      [] ins.op = "SW"  -> IF Isolated \/ addr % 4 # 0 THEN {} ELSE {addr}
      [] ins.op = "SH"  -> IF Isolated \/ addr % 2 # 0 THEN {} ELSE {addr}
      [] ins.op = "SB"  -> IF Isolated THEN {} ELSE {addr}
      [] OTHER -> {}

(* COP0 operations the interpreter gives up on. *)
Cop0Panics(ins) ==
    CASE ins.s = 0 -> ins.d \notin {12, 13, 14}
      [] ins.s = 4 -> IF ins.d \in {3, 5, 6, 7, 9, 11, 13} THEN T(ins) # 0
                                                           ELSE ins.d # 12
      [] ins.s = 16 -> ins.i % 64 # 16
      [] OTHER -> TRUE

Panics(ins) ==
    \/ ins.op \in GteOps
    \/ ins.op = "COP0" /\ Cop0Panics(ins)
    \/ DataAddresses(ins) \cap Unmapped # {}

(* The head of runNextInstruction: the fetch of an aligned instruction.   *)
Fetch(ins) ==
    /\ running /\ mIp < MaxIp
    /\ mPc % 4 = 0 /\ mPc \notin Unmapped
    /\ ins \in Program /\ ~Panics(ins)
    /\ mCurrentPc' = mPc
    /\ mDelaySlot' = mBranch
    /\ mIp' = mIp + 1
    /\ UNCHANGED running
-----------------------------------------------------------------------------
(* The early return of runNextInstruction: neither the load slot nor       *)
(* mBranch, mDelaySlot and mIp are touched.                                *)
FetchMisaligned ==
    /\ running /\ mIp < MaxIp
    /\ mPc % 4 # 0
    /\ mCurrentPc' = mPc
    /\ Exception(LoadAddressError, mPc, mDelaySlot)
    /\ NoAccess
    /\ UNCHANGED <<files, mHi, mLo, mBranch, mDelaySlot, mIp, running>>

(* panic: the message is printed and the process exits. *)
Panic ==
    /\ running /\ mIp < MaxIp
    /\ mPc % 4 = 0
    /\ mPc \in Unmapped \/ \E ins \in Program : Panics(ins)
    /\ running' = FALSE
    /\ UNCHANGED <<flow, files, cop0, mHi, mLo, trap, bus>>

AluResult(ins) ==
    LET s == S(ins)  t == T(ins)  i == ins.i
        amount == s % (4 * BYTEBITS)
    IN CASE ins.op = "SLL"   -> ShiftLeft(t, i)
         [] ins.op = "SRL"   -> ShiftRight(t, i)
         [] ins.op = "SRA"   -> ShiftArith(t, i)
         [] ins.op = "SLLV"  -> ShiftLeft(t, amount)
         [] ins.op = "SRLV"  -> ShiftRight(t, amount)
         [] ins.op = "SRAV"  -> ShiftArith(t, amount)
         [] ins.op = "OR"    -> BitOr(s, t)
         [] ins.op = "AND"   -> BitAnd(s, t)
         [] ins.op = "XOR"   -> BitXor(s, t)
         [] ins.op = "NOR"   -> (WORD - 1) - BitOr(s, t)
         [] ins.op = "ADDU"  -> Plus(s, t)
         [] ins.op = "SUBU"  -> Minus(s, t)
         [] ins.op = "SLT"   -> Truth(Signed(s) < Signed(t))
         [] ins.op = "SLTU"  -> Truth(s < t)
         [] ins.op = "MFHI"  -> mHi
         [] ins.op = "MFLO"  -> mLo
         [] ins.op = "LUI"   -> ShiftLeft(i, 2 * BYTEBITS)
         [] ins.op = "ORI"   -> BitOr(s, i)
         [] ins.op = "ANDI"  -> BitAnd(s, i)
         [] ins.op = "XORI"  -> BitXor(s, i)
         [] ins.op = "ADDIU" -> Plus(s, ImmSe(ins))
         [] ins.op = "SLTI"  -> Truth(Signed(s) < Signed(ImmSe(ins)))
         [] OTHER            -> Truth(s < ImmSe(ins))   \* SLTIU

(* Logic, shifts, set-on-less-than, MFHI and MFLO. *)
ExecAlu(ins) ==
    /\ Fetch(ins)
    /\ ins.op \in ShiftOps \cup RegOps \cup ImmOps
    /\ Retire(SetReg(Landed, IF ins.op \in ImmOps THEN ins.t ELSE ins.d,
                     AluResult(ins)))
    /\ NextInstruction /\ NoTrap /\ EmptySlot /\ NoAccess
    /\ UNCHANGED <<mHi, mLo>>

HiLoResult(ins) ==
    LET s == S(ins)  t == T(ins)
        product == IF ins.op = "MULT" THEN Signed(s) * Signed(t) ELSE s * t
        n == Signed(s)  m == Signed(t)
    IN CASE ins.op \in {"MULT", "MULTU"} ->
                <<(product \div WORD) % WORD, product % WORD>>
         [] ins.op = "DIV" /\ t = 0 -> <<s, IF n >= 0 THEN WORD - 1 ELSE 1>>
         [] ins.op = "DIV" /\ t # 0 ->
                <<(n - m * TruncDiv(n, m)) % WORD, TruncDiv(n, m) % WORD>>
         [] ins.op = "DIVU" /\ t = 0 -> <<s, WORD - 1>>
         [] ins.op = "DIVU" /\ t # 0 -> <<s % t, s \div t>>
         [] ins.op = "MTHI" -> <<s, mLo>>
         [] OTHER -> <<mHi, s>>   \* MTLO

ExecHiLo(ins) ==
    /\ Fetch(ins)
    /\ ins.op \in HiLoOps
    /\ mHi' = HiLoResult(ins)[1] /\ mLo' = HiLoResult(ins)[2]
    /\ Retire(Landed)
    /\ NextInstruction /\ NoTrap /\ EmptySlot /\ NoAccess

(* ADD and ADDI write the register after raising the exception, too. *)
ExecAdd(ins) ==
    LET a == S(ins)
        b == IF ins.op = "ADD" THEN T(ins) ELSE ImmSe(ins)
        v == Plus(a, b)
    IN  /\ Fetch(ins)
        /\ ins.op \in {"ADD", "ADDI"}
        /\ IF AddOverflow(a, b, v) THEN Trap(Overflow)
                                   ELSE NextInstruction /\ NoTrap
        /\ Retire(SetReg(Landed, IF ins.op = "ADD" THEN ins.d ELSE ins.t, v))
        /\ EmptySlot /\ NoAccess
        /\ UNCHANGED <<mHi, mLo>>

ExecSubVariant(ins) ==
    LET v == Minus(S(ins), T(ins))
    IN  /\ Fetch(ins)
        /\ ins.op = "SUB"
        /\ IF SubOverflow(S(ins), T(ins), v) THEN Trap(Overflow)
                                             ELSE NextInstruction /\ NoTrap
        /\ Retire(SetReg(Landed, ins.d, v))
        /\ EmptySlot /\ NoAccess
        /\ UNCHANGED <<mHi, mLo>>
(* SUB, unlike ADD and ADDI, writes no register when it raises one. *)
ExecSub(ins) ==
    LET v == Minus(S(ins), T(ins))
    IN  /\ Fetch(ins)
        /\ ins.op = "SUB"
        /\ IF SubOverflow(S(ins), T(ins), v)
           THEN Trap(Overflow) /\ Retire(Landed)
           ELSE NextInstruction /\ NoTrap /\ Retire(SetReg(Landed, ins.d, v))
        /\ EmptySlot /\ NoAccess
        /\ UNCHANGED <<mHi, mLo>>

(* The value of mNextPc an instruction finds: two words past its own when  *)
(* it is not in a delay slot.                                              *)
LinkPc == Plus(mNextPc, 4)

JumpTarget(ins) == IF ins.op \in {"J", "JAL"}
                   THEN (LinkPc - (LinkPc % JREGION)) + 4 * ins.i
                   ELSE S(ins)

ExecJump(ins) ==
    /\ Fetch(ins)
    /\ ins.op \in JumpOps
    /\ Jump(JumpTarget(ins))
    /\ Retire(CASE ins.op = "JAL"  -> SetReg(Landed, 31, LinkPc)
                [] ins.op = "JALR" -> SetReg(Landed, ins.d, LinkPc)
                [] OTHER -> Landed)
    /\ NoTrap /\ EmptySlot /\ NoAccess
    /\ UNCHANGED <<mHi, mLo>>

(* Bits 16 and [20:17] of a BXX are in its t field. *)
IsBgez(ins) == ins.t % 2 = 1
IsLink(ins) == ins.op = "BXX" /\ ins.t \div 2 = 8

Taken(ins) ==
    CASE ins.op = "BEQ"  -> S(ins) = T(ins)
      [] ins.op = "BNE"  -> S(ins) # T(ins)
      [] ins.op = "BGTZ" -> Signed(S(ins)) > 0
      [] ins.op = "BLEZ" -> Signed(S(ins)) <= 0
      [] OTHER -> Negative(S(ins)) # IsBgez(ins)   \* BXX

(* Cpu::branch adds the offset to mPc, the address of the delay slot. *)
BranchTarget(ins) == Plus(mNextPc, TimesFour(ImmSe(ins)))

ExecBranch(ins) ==
    /\ Fetch(ins)
    /\ ins.op \in BranchOps
    /\ IF Taken(ins) THEN Jump(BranchTarget(ins)) ELSE NextInstruction
    /\ Retire(IF IsLink(ins) THEN SetReg(Landed, 31, LinkPc) ELSE Landed)
    /\ NoTrap /\ EmptySlot /\ NoAccess
    /\ UNCHANGED <<mHi, mLo>>

Width(op) == CASE op \in {"LW", "SW"} -> 4
               [] op \in {"LH", "LHU", "SH"} -> 2
               [] OTHER -> 1

(* A narrow load keeps the low part of the word and may sign-extend it. *)
Narrow(op, v) == CASE op \in {"LW", "SW"} -> v
                   [] op = "LH" -> SignExtend(v % HALF, HALF)
                   [] op \in {"LHU", "SH"} -> v % HALF
                   [] op = "LB" -> SignExtend(v % BYTE, BYTE)
                   [] OTHER -> v % BYTE

(* Only LHU checks its alignment, only LW the isolation of the cache. *)
ExecLoad(ins) ==
    /\ Fetch(ins)
    /\ ins.op \in LoadOps
    /\ Retire(Landed)
    /\ UNCHANGED <<mHi, mLo>>
    /\ \/ /\ DataAddresses(ins) # {}
          /\ \E v \in BusData :
                /\ LoadSlot(ins.t, Narrow(ins.op, v))
                /\ bus' = <<[kind |-> "load", width |-> Width(ins.op),
                             addr |-> Address(ins), val |-> v]>>
          /\ NextInstruction /\ NoTrap
       \/ /\ ins.op = "LW" /\ Isolated
          /\ NextInstruction /\ NoTrap /\ EmptySlot /\ NoAccess
       \/ /\ ins.op = "LHU" /\ Address(ins) % 2 # 0
          /\ Trap(LoadAddressError) /\ EmptySlot /\ NoAccess

(* LWL and LWR merge with the value the pending load has just written to   *)
(* mOutRegs, so they see it without the delay.                             *)
MergedLoad(ins, word) ==
    LET k == Address(ins) % 4
        bits == (3 - k) * BYTEBITS
    IN BitOr(BitAnd(Landed[ins.t], MergeMask(k)),
             IF ins.op = "LWL" THEN ShiftLeft(word, bits)
                               ELSE ShiftRight(word, bits))

ExecLoadMerge(ins) ==
    /\ Fetch(ins)
    /\ ins.op \in MergeOps
    /\ \E word \in BusData :
          /\ LoadSlot(ins.t, MergedLoad(ins, word))
          /\ bus' = <<[kind |-> "load", width |-> 4,
                       addr |-> Aligned(ins), val |-> word]>>
    /\ Retire(Landed)
    /\ NextInstruction /\ NoTrap
    /\ UNCHANGED <<mHi, mLo>>

StoreError(ins) == \/ ins.op = "SW" /\ Address(ins) % 4 # 0
                   \/ ins.op = "SH" /\ Address(ins) % 2 # 0

(* SW gives up on an isolated cache before it looks at the alignment, SH   *)
(* after.                                                                  *)
ExecStore(ins) ==
    /\ Fetch(ins)
    /\ ins.op \in StoreOps
    /\ IF StoreError(ins) /\ ~(ins.op = "SW" /\ Isolated)
       THEN Trap(StoreAddressError) ELSE NextInstruction /\ NoTrap
    /\ bus' = IF Isolated \/ StoreError(ins) THEN <<>>
              ELSE <<[kind |-> "store", width |-> Width(ins.op),
                      addr |-> Address(ins), val |-> Narrow(ins.op, T(ins))]>>
    /\ Retire(Landed) /\ EmptySlot
    /\ UNCHANGED <<mHi, mLo>>

MergedStore(ins, word) ==
    LET k == Address(ins) % 4
        bits == (3 - k) * BYTEBITS
    IN BitOr(BitAnd(word, MergeMask(k)),
             IF ins.op = "SWL" THEN ShiftRight(T(ins), bits)
                               ELSE ShiftLeft(T(ins), bits))

(* SWL and SWR read the word they merge into, isolated or not. *)
ExecStoreMerge(ins) ==
    /\ Fetch(ins)
    /\ ins.op \in MergeStoreOps
    /\ \E word \in BusData :
          LET load == [kind |-> "load", width |-> 4,
                       addr |-> Aligned(ins), val |-> word]
              store == [kind |-> "store", width |-> 4,
                        addr |-> Aligned(ins), val |-> MergedStore(ins, word)]
          IN bus' = IF Isolated THEN <<load>> ELSE <<load, store>>
    /\ Retire(Landed) /\ EmptySlot
    /\ NextInstruction /\ NoTrap
    /\ UNCHANGED <<mHi, mLo>>

(* MFC0 goes through the load delay slot. *)
ExecMfc0(ins) ==
    /\ Fetch(ins)
    /\ ins.op = "COP0" /\ ins.s = 0
    /\ LoadSlot(ins.t, CASE ins.d = 12 -> mSr
                         [] ins.d = 13 -> mCause
                         [] OTHER -> mEpc)
    /\ Retire(Landed)
    /\ NextInstruction /\ NoTrap /\ NoAccess
    /\ UNCHANGED <<mHi, mLo>>

(* Only SR is really written: the other registers accept zero alone. *)
ExecMtc0(ins) ==
    /\ Fetch(ins)
    /\ ins.op = "COP0" /\ ins.s = 4
    /\ mSr' = IF ins.d = 12 THEN T(ins) ELSE mSr
    /\ trap' = None /\ UNCHANGED <<mCause, mEpc>>
    /\ Retire(Landed) /\ EmptySlot
    /\ NextInstruction /\ NoAccess
    /\ UNCHANGED <<mHi, mLo>>

(* RFE: `mSr &= !0x3f' again clears all of SR. *)
ExecRfe(ins) ==
    /\ Fetch(ins)
    /\ ins.op = "COP0" /\ ins.s = 16
    /\ mSr' = PopMode(mSr)
    /\ trap' = None /\ UNCHANGED <<mCause, mEpc>>
    /\ Retire(Landed) /\ EmptySlot
    /\ NextInstruction /\ NoAccess
    /\ UNCHANGED <<mHi, mLo>>

TrapCause(op) == CASE op = "SYSCALL" -> SysCall
                   [] op = "BREAK"   -> Break
                   [] op = "ILLEGAL" -> IllegalInstruction
                   [] OTHER          -> CoprocessorError

ExecTrap(ins) ==
    /\ Fetch(ins)
    /\ ins.op \in TrapOps
    /\ Trap(TrapCause(ins.op))
    /\ Retire(Landed) /\ EmptySlot /\ NoAccess
    /\ UNCHANGED <<mHi, mLo>>

Execute(ins) ==
    \/ ExecAlu(ins) \/ ExecHiLo(ins) \/ ExecAdd(ins) \/ ExecSub(ins)
    \/ ExecJump(ins) \/ ExecBranch(ins)
    \/ ExecLoad(ins) \/ ExecLoadMerge(ins)
    \/ ExecStore(ins) \/ ExecStoreMerge(ins)
    \/ ExecMfc0(ins) \/ ExecMtc0(ins) \/ ExecRfe(ins) \/ ExecTrap(ins)

Next == FetchMisaligned \/ Panic \/ \E ins \in Program : Execute(ins)

Spec == Init /\ [][Next]_vars
=============================================================================
