----------------------------- MODULE CpuProofs -----------------------------
(***************************************************************************)
(* What is proved of the interpreter, for every word size, program and     *)
(* memory contents that satisfy the assumptions of Cpu: its types, control *)
(* flow and exceptions, and the mode stack of SR.                          *)
(***************************************************************************)
EXTENDS CpuModes, TLAPS

(* A word read as an operand, an address or a result stays a word. *)
LEMMA WordOps ==
    ASSUME NEW a \in Word, NEW b \in Word
    PROVE  Plus(a, b) \in Word /\ Minus(a, b) \in Word
BY WordAssumption DEF Plus, Minus, Word

LEMMA TimesFourType == ASSUME NEW a \in Word PROVE TimesFour(a) \in Word
BY WordOps DEF TimesFour

LEMMA SmallWords == {0, 1, 4, 8} \subseteq Word
BY WordAssumption DEF Word

(* A narrow value sign-extends to a word. *)
LEMMA SignExtendType ==
    ASSUME NEW width \in {BYTE, HALF}, NEW v \in 0 .. width - 1
    PROVE  SignExtend(v, width) \in Word
<1>1. width \in Nat /\ 2 <= width /\ width <= WORD
  BY WordAssumption
<1>2. QED
  BY <1>1, WordAssumption DEF SignExtend, Word

(* Adding a word and taking it away again gives the other word back. *)
LEMMA MinusPlus == ASSUME NEW a \in Word, NEW b \in Word
                   PROVE  Minus(Plus(a, b), b) = a
BY WordAssumption DEF Plus, Minus, Word

LEMMA MergeMaskType == ASSUME NEW k PROVE MergeMask(k) \in Word
<1>1. /\ BYTE \in Nat /\ HALF \in Nat /\ WORD \in Nat
      /\ 2 <= BYTE /\ BYTE <= HALF /\ HALF <= WORD
  BY WordAssumption
<1>2. BYTE * HALF \in Nat /\ BYTE * HALF <= WORD /\ 1 <= BYTE * HALF
  <2>1. HALF * BYTE <= WORD BY WordAssumption
  <2>2. BYTE * HALF = HALF * BYTE BY <1>1
  <2>3. BYTE * HALF \in Nat BY <1>1
  <2>4. 1 <= BYTE * HALF BY <1>1
  <2>5. QED BY <2>1, <2>2, <2>3, <2>4
<1>3. /\ BYTE * HALF - 1 \in 0 .. WORD - 1
      /\ HALF - 1 \in 0 .. WORD - 1
      /\ BYTE - 1 \in 0 .. WORD - 1
      /\ 0 \in 0 .. WORD - 1
  BY <1>1, <1>2
<1>4. QED
  BY <1>3 DEF MergeMask, Word
-----------------------------------------------------------------------------
LEMMA ProgramFields ==
    ASSUME NEW ins \in Program
    PROVE  /\ ins.op \in Ops /\ ins.s \in Reg /\ ins.t \in Reg /\ ins.d \in Reg
           /\ ins.i \in Nat
           /\ ins.op \in {"J", "JAL"} => 4 * ins.i < JREGION
           /\ ins.op \in ShiftOps => ins.i < 4 * BYTEBITS
           /\ ins.op \notin {"J", "JAL", "COP0"} \cup ShiftOps => ins.i < HALF
<1>1. ins \in Instruction
  BY ProgramAssumption
<1>2. QED
  BY <1>1, ProgramAssumption DEF Instruction, ShiftOps

LEMMA OperandType ==
    ASSUME TypeOK, NEW ins \in Program
    PROVE  S(ins) \in Word /\ T(ins) \in Word
BY ProgramFields DEF TypeOK, S, T

LEMMA ImmSeType ==
    ASSUME NEW ins \in Program, ins.op \notin {"J", "JAL", "COP0"} \cup ShiftOps
    PROVE  ImmSe(ins) \in Word
<1>1. ins.i \in 0 .. HALF - 1
  BY ProgramFields, WordAssumption
<1>2. QED
  BY <1>1, SignExtendType DEF ImmSe

LEMMA SetRegType ==
    ASSUME NEW regs \in [Reg -> Word], NEW r \in Reg, NEW v \in Word
    PROVE  /\ SetReg(regs, r, v) \in [Reg -> Word]
           /\ SetReg(regs, r, v)[0] = 0
           /\ \A k \in Reg \ {0, r} : SetReg(regs, r, v)[k] = regs[k]
           /\ r # 0 => SetReg(regs, r, v)[r] = v
BY SmallWords DEF SetReg, Reg

LEMMA LandedType == ASSUME TypeOK PROVE Landed \in [Reg -> Word]
BY SetRegType DEF Landed, TypeOK

LEMMA TruthType == ASSUME NEW p PROVE Truth(p) \in Word
BY SmallWords DEF Truth

LEMMA SmallImmediates ==
    ASSUME NEW ins \in Program, ins.op \in ImmOps
    PROVE  ins.i \in Word /\ ImmSe(ins) \in Word
<1>1. ins.op \notin {"J", "JAL", "COP0"} \cup ShiftOps
  BY DEF ImmOps, ShiftOps
<1>2. ins.i \in Nat /\ ins.i < HALF
  BY <1>1, ProgramFields
<1>3. QED
  BY <1>1, <1>2, ImmSeType, WordAssumption DEF Word

LEMMA AluResultType ==
    ASSUME TypeOK, NEW ins \in Program,
           ins.op \in ShiftOps \cup RegOps \cup ImmOps
    PROVE  AluResult(ins) \in Word
<1> DEFINE s == S(ins)
           t == T(ins)
           i == ins.i
           amount == s % (4 * BYTEBITS)
<1>1. s \in Word /\ t \in Word
  BY OperandType
<1>2. mHi \in Word /\ mLo \in Word
  BY DEF TypeOK
<1>3. 4 * BYTEBITS \in Nat \ {0} /\ 2 * BYTEBITS \in 0 .. 4 * BYTEBITS - 1
  BY WordAssumption
<1>4. amount \in 0 .. 4 * BYTEBITS - 1
  BY <1>1, <1>3 DEF Word
<1> HIDE DEF s, t, i, amount
<1>5. CASE ins.op \in ShiftOps
  <2>1. i \in 0 .. 4 * BYTEBITS - 1
    BY <1>3, <1>5, ProgramFields DEF i
  <2>2. /\ ShiftLeft(t, i) \in Word /\ ShiftRight(t, i) \in Word
        /\ ShiftArith(t, i) \in Word
    BY <1>1, <2>1, BitAssumption
  <2>3. ins.op = "SLL" \/ ins.op = "SRL" \/ ins.op = "SRA"
    BY <1>5 DEF ShiftOps
  <2>4. QED
    BY <2>2, <2>3 DEF AluResult, s, t, i
<1>6. CASE ins.op \in RegOps
  <2>1. /\ ShiftLeft(t, amount) \in Word /\ ShiftRight(t, amount) \in Word
        /\ ShiftArith(t, amount) \in Word
    BY <1>1, <1>4, BitAssumption
  <2>2. /\ BitOr(s, t) \in Word /\ BitAnd(s, t) \in Word
        /\ BitXor(s, t) \in Word
    BY <1>1, BitAssumption
  <2>3. (WORD - 1) - BitOr(s, t) \in Word
    BY <2>2, WordAssumption DEF Word
  <2>4. /\ Plus(s, t) \in Word /\ Minus(s, t) \in Word
        /\ Truth(Signed(s) < Signed(t)) \in Word /\ Truth(s < t) \in Word
    BY <1>1, WordOps, TruthType
  <2>5. QED
    BY <1>2, <1>6, <2>1, <2>2, <2>3, <2>4 DEF AluResult, RegOps, s, t, amount
<1>7. CASE ins.op \in ImmOps
  <2>1. i \in Word /\ ImmSe(ins) \in Word
    BY <1>7, SmallImmediates DEF i
  <2>2. /\ BitOr(s, i) \in Word /\ BitAnd(s, i) \in Word
        /\ BitXor(s, i) \in Word /\ ShiftLeft(i, 2 * BYTEBITS) \in Word
    BY <1>1, <1>3, <2>1, BitAssumption
  <2>3. /\ Plus(s, ImmSe(ins)) \in Word
        /\ Truth(Signed(s) < Signed(ImmSe(ins))) \in Word
        /\ Truth(s < ImmSe(ins)) \in Word
    BY <1>1, <2>1, WordOps, TruthType
  <2>4. QED
    BY <1>7, <2>2, <2>3 DEF AluResult, ImmOps, s, i
<1>8. QED
  BY <1>5, <1>6, <1>7

LEMMA DivMod ==
    ASSUME NEW a \in Nat, NEW b \in Nat \ {0}
    PROVE  a \div b \in 0 .. a /\ a % b \in 0 .. b - 1 /\ a % b <= a
OBVIOUS

LEMMA Residue == ASSUME NEW n \in Int PROVE n % WORD \in Word
BY WordAssumption DEF Word

LEMMA SignedType == ASSUME NEW a \in Word
                    PROVE  Signed(a) \in Int /\ (a # 0 => Signed(a) # 0)
BY WordAssumption DEF Signed, Negative, Word

LEMMA TruncDivType ==
    ASSUME NEW n \in Int, NEW m \in Int, m # 0
    PROVE  TruncDiv(n, m) \in Int
<1>1. Magnitude(n) \in Nat /\ Magnitude(m) \in Nat \ {0}
  BY DEF Magnitude
<1>2. Magnitude(n) \div Magnitude(m) \in Int
  BY <1>1, DivMod
<1> QED
  BY <1>2 DEF TruncDiv

LEMMA HiLoResultType ==
    ASSUME TypeOK, NEW ins \in Program, ins.op \in HiLoOps
    PROVE  HiLoResult(ins)[1] \in Word /\ HiLoResult(ins)[2] \in Word
<1> DEFINE s == S(ins)
           t == T(ins)
           n == Signed(s)
           m == Signed(t)
           q == TruncDiv(n, m)
<1>1. s \in Word /\ t \in Word /\ mHi \in Word /\ mLo \in Word
  BY OperandType DEF TypeOK
<1>2. n \in Int /\ m \in Int /\ (t # 0 => m # 0)
  BY <1>1, SignedType
<1>3. s \in Nat /\ t \in Nat /\ WORD \in Nat \ {0}
  BY <1>1, WordAssumption DEF Word
<1>4. CASE ins.op \in {"MULT", "MULTU"}
  <2> DEFINE product == IF ins.op = "MULT" THEN n * m ELSE s * t
  <2>1. product \in Int
    BY <1>2, <1>3
  <2>2. product \div WORD \in Int
    BY <2>1, <1>3
  <2>3. (product \div WORD) % WORD \in Word /\ product % WORD \in Word
    BY <2>1, <2>2, Residue
  <2>4. HiLoResult(ins) = <<(product \div WORD) % WORD, product % WORD>>
    BY <1>4 DEF HiLoResult
  <2> QED
    BY <2>3, <2>4
<1>5. CASE ins.op = "DIV" /\ t = 0
  <2>1. WORD - 1 \in Word /\ 1 \in Word
    BY WordAssumption DEF Word
  <2>2. HiLoResult(ins) = <<s, IF n >= 0 THEN WORD - 1 ELSE 1>>
    BY <1>5 DEF HiLoResult
  <2> QED
    BY <1>1, <2>1, <2>2
<1>6. CASE ins.op = "DIV" /\ t # 0
  <2>1. q \in Int
    BY <1>2, <1>6, TruncDivType
  <2> HIDE DEF q, n, m, s, t
  <2>2. n - m * q \in Int
    BY <1>2, <2>1
  <2>3. (n - m * q) % WORD \in Word /\ q % WORD \in Word
    BY <2>1, <2>2, Residue
  <2>4. HiLoResult(ins) = <<(n - m * q) % WORD, q % WORD>>
    BY <1>6 DEF HiLoResult, q, n, m, s, t
  <2> QED
    BY <2>3, <2>4
<1>7. CASE ins.op = "DIVU"
  <2>1. WORD - 1 \in Word
    BY WordAssumption DEF Word
  <2>2. t # 0 => s % t \in 0 .. t - 1 /\ s \div t \in 0 .. s
    BY <1>3, DivMod
  <2>3. t # 0 => s % t \in Word /\ s \div t \in Word
    BY <1>1, <1>3, <2>2 DEF Word
  <2>4. HiLoResult(ins) = IF t = 0 THEN <<s, WORD - 1>>
                                   ELSE <<s % t, s \div t>>
    BY <1>7 DEF HiLoResult
  <2> QED
    BY <1>1, <2>1, <2>3, <2>4
<1>8. CASE ins.op \in {"MTHI", "MTLO"}
  BY <1>1, <1>8 DEF HiLoResult
<1> QED
  BY <1>4, <1>5, <1>6, <1>7, <1>8 DEF HiLoOps
-----------------------------------------------------------------------------
(* The pieces of a step keep their types. *)

LEMMA HandlerType == Handler \in Word
BY AddressAssumption DEF Handler

LEMMA ExceptionType ==
    ASSUME TypeOK, NEW cause \in Exceptions, NEW current \in Word,
           NEW slot \in BOOLEAN, Exception(cause, current, slot)
    PROVE  /\ mPc' \in Word /\ mNextPc' \in Word /\ trap' \in Exceptions
           /\ mSr' \in Word /\ mCause' \in Word /\ mEpc' \in Word
<1>1. mPc' \in Word /\ mNextPc' \in Word /\ trap' \in Exceptions
  BY HandlerType, WordOps, SmallWords DEF Exception
<1>2. mSr' \in 0 .. 63
  BY DEF Exception, PushMode, TypeOK, Word
<1>3. cause * 4 \in 0 .. 63
  BY DEF Exceptions, LoadAddressError, StoreAddressError, SysCall, Break,
         IllegalInstruction, CoprocessorError, Overflow
<1>4. mCause' \in Word
  BY <1>3, AddressAssumption, WordAssumption DEF Exception, Word
<1>5. mEpc' \in Word
  BY WordOps, SmallWords DEF Exception
<1> QED
  BY <1>1, <1>2, <1>4, <1>5, WordAssumption DEF Word

LEMMA TrapType ==
    ASSUME TypeOK, NEW cause \in Exceptions, Trap(cause)
    PROVE  /\ mPc' \in Word /\ mNextPc' \in Word /\ trap' \in Exceptions
           /\ mSr' \in Word /\ mCause' \in Word /\ mEpc' \in Word
           /\ mBranch' \in BOOLEAN
BY ExceptionType DEF Trap, TypeOK

LEMMA NextInstructionType ==
    ASSUME TypeOK, NextInstruction
    PROVE  mPc' \in Word /\ mNextPc' \in Word /\ mBranch' \in BOOLEAN
BY WordOps, SmallWords DEF NextInstruction, TypeOK

LEMMA JumpType ==
    ASSUME TypeOK, NEW target \in Word, Jump(target)
    PROVE  mPc' \in Word /\ mNextPc' \in Word /\ mBranch' \in BOOLEAN
BY DEF Jump, TypeOK

LEMMA NoTrapType ==
    ASSUME TypeOK, NoTrap
    PROVE  /\ trap' \in Exceptions \cup {None}
           /\ mSr' \in Word /\ mCause' \in Word /\ mEpc' \in Word
BY DEF NoTrap, TypeOK, cop0

LEMMA FetchType ==
    ASSUME TypeOK, NEW ins \in Program, Fetch(ins)
    PROVE  /\ mCurrentPc' \in Word /\ mDelaySlot' \in BOOLEAN
           /\ mIp' \in 0 .. MaxIp /\ running' \in BOOLEAN
BY ProgramAssumption DEF Fetch, TypeOK

LEMMA RetireType ==
    ASSUME NEW regs \in [Reg -> Word], Retire(regs)
    PROVE  mRegs' \in [Reg -> Word] /\ mOutRegs' \in [Reg -> Word]
BY DEF Retire

LEMMA EmptySlotType ==
    ASSUME EmptySlot PROVE mLoadRegIdx' \in Reg /\ mLoadReg' \in Word
BY SmallWords DEF EmptySlot, LoadSlot, Reg

LEMMA NoAccessType == ASSUME NoAccess PROVE bus' \in Seq(Access)
BY DEF NoAccess

LEMMA AddressType ==
    ASSUME TypeOK, NEW ins \in Program,
           ins.op \notin {"J", "JAL", "COP0"} \cup ShiftOps
    PROVE  /\ Address(ins) \in Word /\ Aligned(ins) \in Word
           /\ Address(ins) % 4 \in 0 .. 3
<1>1. Address(ins) \in Word
  BY OperandType, ImmSeType, WordOps DEF Address
<1> QED
  BY <1>1, WordAssumption DEF Aligned, Word

LEMMA NarrowType ==
    ASSUME NEW op, NEW v \in Word PROVE Narrow(op, v) \in Word
<1>1. v % HALF \in 0 .. HALF - 1 /\ v % BYTE \in 0 .. BYTE - 1
  BY WordAssumption DEF Word
<1>2. SignExtend(v % HALF, HALF) \in Word /\ SignExtend(v % BYTE, BYTE) \in Word
  BY <1>1, SignExtendType
<1>3. v % HALF \in Word /\ v % BYTE \in Word
  BY <1>1, WordAssumption DEF Word
<1> QED
  BY <1>2, <1>3 DEF Narrow

LEMMA MergeBits ==
    ASSUME NEW k \in 0 .. 3
    PROVE  (3 - k) * BYTEBITS \in 0 .. 4 * BYTEBITS - 1
<1>1. BYTEBITS \in Nat \ {0}
  BY WordAssumption
<1>2. k = 0 \/ k = 1 \/ k = 2 \/ k = 3
  OBVIOUS
<1> QED
  BY <1>1, <1>2

LEMMA MergedLoadType ==
    ASSUME TypeOK, NEW ins \in Program, ins.op \in MergeOps, NEW word \in Word
    PROVE  MergedLoad(ins, word) \in Word
<1> DEFINE k == Address(ins) % 4
           bits == (3 - k) * BYTEBITS
<1>1. k \in 0 .. 3
  BY AddressType DEF MergeOps, ShiftOps
<1>2. bits \in 0 .. 4 * BYTEBITS - 1
  BY <1>1, MergeBits
<1>3. Landed[ins.t] \in Word
  BY LandedType, ProgramFields
<1>4. BitAnd(Landed[ins.t], MergeMask(k)) \in Word
  BY <1>3, MergeMaskType, BitAssumption
<1>5. ShiftLeft(word, bits) \in Word /\ ShiftRight(word, bits) \in Word
  BY <1>2, BitAssumption
<1> HIDE DEF k, bits
<1> QED
  BY <1>4, <1>5, BitAssumption DEF MergedLoad, k, bits

LEMMA MergedStoreType ==
    ASSUME TypeOK, NEW ins \in Program, ins.op \in MergeStoreOps,
           NEW word \in Word
    PROVE  MergedStore(ins, word) \in Word
<1> DEFINE k == Address(ins) % 4
           bits == (3 - k) * BYTEBITS
<1>1. k \in 0 .. 3
  BY AddressType DEF MergeStoreOps, ShiftOps
<1>2. bits \in 0 .. 4 * BYTEBITS - 1
  BY <1>1, MergeBits
<1>3. BitAnd(word, MergeMask(k)) \in Word
  BY MergeMaskType, BitAssumption
<1>4. ShiftLeft(T(ins), bits) \in Word /\ ShiftRight(T(ins), bits) \in Word
  BY <1>2, OperandType, BitAssumption
<1> HIDE DEF k, bits
<1> QED
  BY <1>3, <1>4, BitAssumption DEF MergedStore, k, bits

LEMMA TargetType ==
    ASSUME TypeOK, NEW ins \in Program
    PROVE  /\ LinkPc \in Word
           /\ ins.op \in JumpOps => JumpTarget(ins) \in Word
           /\ ins.op \in BranchOps => BranchTarget(ins) \in Word
<1>1. LinkPc \in Word
  BY WordOps, SmallWords DEF LinkPc, TypeOK
<1>2. CASE ins.op \in {"J", "JAL"}
  <2>1. LinkPc \in Nat /\ JREGION \in Nat \ {0}
    BY <1>1, WordAssumption DEF Word
  <2>2. LinkPc % JREGION \in Nat /\ LinkPc % JREGION <= LinkPc
    BY <2>1, DivMod
  <2>3. LinkPc - (LinkPc % JREGION) \in Nat
    BY <2>1, <2>2
  <2>4. (LinkPc - (LinkPc % JREGION)) + JREGION <= WORD
    BY <1>1, WordAssumption
  <2>5. ins.i \in Nat /\ 4 * ins.i < JREGION
    BY <1>2, ProgramFields
  <2>6. (LinkPc - (LinkPc % JREGION)) + 4 * ins.i \in Word
    BY <2>3, <2>4, <2>5, WordAssumption DEF Word
  <2> QED
    BY <1>1, <1>2, <2>6 DEF JumpTarget, BranchOps
<1>3. CASE ins.op \notin {"J", "JAL"}
  <2>1. ins.op \in JumpOps => JumpTarget(ins) \in Word
    BY <1>3, OperandType DEF JumpTarget
  <2>2. ASSUME ins.op \in BranchOps PROVE BranchTarget(ins) \in Word
    <3>1. ImmSe(ins) \in Word
      BY <2>2, ImmSeType DEF BranchOps, ShiftOps
    <3> QED
      BY <3>1, TimesFourType, WordOps DEF BranchTarget, TypeOK
  <2> QED
    BY <1>1, <2>1, <2>2
<1> QED
  BY <1>2, <1>3
-----------------------------------------------------------------------------
(* Type correctness, one lemma per kind of instruction.                    *)

(* What remains of TypeOK' once the head of the step is done.  Each action *)
(* gives the registers, the load slot, the bus and the control flow.       *)
LEMMA TypeAfterFetch ==
    ASSUME TypeOK, NEW ins \in Program, Fetch(ins),
           NEW regs \in [Reg -> Word], Retire(regs),
           mLoadRegIdx' \in Reg, mLoadReg' \in Word, bus' \in Seq(Access),
           mHi' \in Word, mLo' \in Word,
           mPc' \in Word, mNextPc' \in Word, mBranch' \in BOOLEAN,
           trap' \in Exceptions \cup {None},
           mSr' \in Word, mCause' \in Word, mEpc' \in Word
    PROVE  TypeOK'
BY FetchType, RetireType DEF TypeOK

LEMMA HiLoUnchanged ==
    ASSUME TypeOK, UNCHANGED <<mHi, mLo>> PROVE mHi' \in Word /\ mLo' \in Word
BY DEF TypeOK

LEMMA TypeAlu ==
    ASSUME TypeOK, NEW ins \in Program, ExecAlu(ins) PROVE TypeOK'
<1> DEFINE dest == IF ins.op \in ImmOps THEN ins.t ELSE ins.d
           regs == SetReg(Landed, dest, AluResult(ins))
<1>1. regs \in [Reg -> Word]
  BY AluResultType, LandedType, SetRegType, ProgramFields DEF ExecAlu
<1>2. /\ Fetch(ins) /\ Retire(regs) /\ NextInstruction /\ NoTrap
      /\ EmptySlot /\ NoAccess /\ UNCHANGED <<mHi, mLo>>
  BY DEF ExecAlu
<1> HIDE DEF regs
<1> QED
  BY <1>1, <1>2, TypeAfterFetch, NextInstructionType, NoTrapType,
     EmptySlotType, NoAccessType, HiLoUnchanged

LEMMA TypeHiLo ==
    ASSUME TypeOK, NEW ins \in Program, ExecHiLo(ins) PROVE TypeOK'
<1>1. mHi' \in Word /\ mLo' \in Word
  BY HiLoResultType DEF ExecHiLo
<1>2. /\ Fetch(ins) /\ Retire(Landed) /\ NextInstruction /\ NoTrap
      /\ EmptySlot /\ NoAccess
  BY DEF ExecHiLo
<1> QED
  BY <1>1, <1>2, LandedType, TypeAfterFetch, NextInstructionType, NoTrapType,
     EmptySlotType, NoAccessType

LEMMA OverflowIsException == Overflow \in Exceptions
BY DEF Exceptions

LEMMA TypeAdd ==
    ASSUME TypeOK, NEW ins \in Program, ExecAdd(ins) PROVE TypeOK'
<1> DEFINE a == S(ins)
           b == IF ins.op = "ADD" THEN T(ins) ELSE ImmSe(ins)
           v == Plus(a, b)
           dest == IF ins.op = "ADD" THEN ins.d ELSE ins.t
           regs == SetReg(Landed, dest, v)
<1>1. ins.op \in {"ADD", "ADDI"}
  BY DEF ExecAdd
<1>2. a \in Word /\ b \in Word
  BY <1>1, OperandType, ImmSeType DEF ShiftOps
<1>3. regs \in [Reg -> Word]
  BY <1>2, WordOps, LandedType, SetRegType, ProgramFields
<1>4. /\ Fetch(ins) /\ Retire(regs) /\ EmptySlot /\ NoAccess
      /\ UNCHANGED <<mHi, mLo>>
      /\ Trap(Overflow) \/ (NextInstruction /\ NoTrap)
  BY DEF ExecAdd
<1> HIDE DEF regs
<1> QED
  BY <1>3, <1>4, TypeAfterFetch, NextInstructionType, NoTrapType, TrapType,
     EmptySlotType, NoAccessType, HiLoUnchanged, OverflowIsException

LEMMA TypeSub ==
    ASSUME TypeOK, NEW ins \in Program, ExecSub(ins) PROVE TypeOK'
<1> DEFINE v == Minus(S(ins), T(ins))
           regs == SetReg(Landed, ins.d, v)
<1>1. regs \in [Reg -> Word] /\ Landed \in [Reg -> Word]
  BY OperandType, WordOps, LandedType, SetRegType, ProgramFields
<1>2. /\ Fetch(ins) /\ EmptySlot /\ NoAccess /\ UNCHANGED <<mHi, mLo>>
      /\ \/ Trap(Overflow) /\ Retire(Landed)
         \/ NextInstruction /\ NoTrap /\ Retire(regs)
  BY DEF ExecSub
<1> HIDE DEF regs
<1> QED
  BY <1>1, <1>2, TypeAfterFetch, NextInstructionType, NoTrapType, TrapType,
     EmptySlotType, NoAccessType, HiLoUnchanged, OverflowIsException

LEMMA TypeJump ==
    ASSUME TypeOK, NEW ins \in Program, ExecJump(ins) PROVE TypeOK'
<1> DEFINE regs == CASE ins.op = "JAL"  -> SetReg(Landed, 31, LinkPc)
                     [] ins.op = "JALR" -> SetReg(Landed, ins.d, LinkPc)
                     [] OTHER -> Landed
<1>1. regs \in [Reg -> Word]
  <2>1. 31 \in Reg /\ ins.d \in Reg /\ LinkPc \in Word
    BY TargetType, ProgramFields DEF Reg
  <2> QED
    BY <2>1, LandedType, SetRegType
<1>2. /\ Fetch(ins) /\ Retire(regs) /\ Jump(JumpTarget(ins)) /\ NoTrap
      /\ EmptySlot /\ NoAccess /\ UNCHANGED <<mHi, mLo>>
      /\ ins.op \in JumpOps
  BY DEF ExecJump
<1> HIDE DEF regs
<1> QED
  BY <1>1, <1>2, TypeAfterFetch, TargetType, JumpType, NoTrapType,
     EmptySlotType, NoAccessType, HiLoUnchanged

LEMMA TypeBranch ==
    ASSUME TypeOK, NEW ins \in Program, ExecBranch(ins) PROVE TypeOK'
<1> DEFINE regs == IF IsLink(ins) THEN SetReg(Landed, 31, LinkPc) ELSE Landed
<1>1. regs \in [Reg -> Word]
  BY TargetType, LandedType, SetRegType DEF Reg
<1>2. /\ Fetch(ins) /\ Retire(regs) /\ NoTrap
      /\ Jump(BranchTarget(ins)) \/ NextInstruction
      /\ EmptySlot /\ NoAccess /\ UNCHANGED <<mHi, mLo>>
      /\ ins.op \in BranchOps
  BY DEF ExecBranch
<1> HIDE DEF regs
<1> QED
  BY <1>1, <1>2, TypeAfterFetch, TargetType, JumpType, NextInstructionType,
     NoTrapType, EmptySlotType, NoAccessType, HiLoUnchanged

LEMMA AccessType ==
    ASSUME NEW kind \in {"load", "store"}, NEW width \in {1, 2, 4},
           NEW addr \in Word, NEW val \in Word
    PROVE  [kind |-> kind, width |-> width, addr |-> addr, val |-> val] \in Access
BY DEF Access

LEMMA AccessSequences ==
    ASSUME NEW a \in Access, NEW b \in Access
    PROVE  <<>> \in Seq(Access) /\ <<a>> \in Seq(Access) /\ <<a, b>> \in Seq(Access)
OBVIOUS

LEMMA MemoryOps ==
    ASSUME NEW ins \in Program,
           ins.op \in UNION {LoadOps, MergeOps, StoreOps, MergeStoreOps}
    PROVE  /\ ins.op \notin {"J", "JAL", "COP0"} \cup ShiftOps
           /\ Width(ins.op) \in {1, 2, 4}
<1>1. ins.op \notin {"J", "JAL", "COP0"} \cup ShiftOps
  BY DEF LoadOps, MergeOps, StoreOps, MergeStoreOps, ShiftOps
<1>2. Width(ins.op) \in {1, 2, 4}
  BY DEF Width
<1> QED
  BY <1>1, <1>2

LEMMA TypeLoad ==
    ASSUME TypeOK, NEW ins \in Program, ExecLoad(ins) PROVE TypeOK'
<1>1. /\ Fetch(ins) /\ Retire(Landed) /\ UNCHANGED <<mHi, mLo>>
      /\ ins.op \in LoadOps
  BY DEF ExecLoad
<1>2. CASE \E v \in BusData :
             /\ LoadSlot(ins.t, Narrow(ins.op, v))
             /\ bus' = <<[kind |-> "load", width |-> Width(ins.op),
                          addr |-> Address(ins), val |-> v]>>
             /\ NextInstruction /\ NoTrap
  <2>1. PICK v \in BusData :
             /\ LoadSlot(ins.t, Narrow(ins.op, v))
             /\ bus' = <<[kind |-> "load", width |-> Width(ins.op),
                          addr |-> Address(ins), val |-> v]>>
             /\ NextInstruction /\ NoTrap
    BY <1>2
  <2>2. v \in Word
    BY ProgramAssumption
  <2>3. mLoadRegIdx' \in Reg /\ mLoadReg' \in Word
    BY <2>1, <2>2, NarrowType, ProgramFields DEF LoadSlot
  <2>4. bus' \in Seq(Access)
    <3>1. [kind |-> "load", width |-> Width(ins.op),
           addr |-> Address(ins), val |-> v] \in Access
      BY <1>1, <2>2, MemoryOps, AddressType, AccessType
    <3> QED
      BY <2>1, <3>1
  <2> QED
    BY <1>1, <2>1, <2>3, <2>4, LandedType, TypeAfterFetch, NoTrapType,
       NextInstructionType, HiLoUnchanged
<1>3. CASE NextInstruction /\ NoTrap /\ EmptySlot /\ NoAccess
  BY <1>1, <1>3, LandedType, TypeAfterFetch, NoTrapType, NextInstructionType,
     EmptySlotType, NoAccessType, HiLoUnchanged
<1>4. CASE Trap(LoadAddressError) /\ EmptySlot /\ NoAccess
  <2>1. LoadAddressError \in Exceptions
    BY DEF Exceptions
  <2> QED
    BY <1>1, <1>4, <2>1, LandedType, TypeAfterFetch, TrapType,
       EmptySlotType, NoAccessType, HiLoUnchanged
<1> QED
  BY <1>2, <1>3, <1>4 DEF ExecLoad

LEMMA TypeLoadMerge ==
    ASSUME TypeOK, NEW ins \in Program, ExecLoadMerge(ins) PROVE TypeOK'
<1>1. /\ Fetch(ins) /\ Retire(Landed) /\ UNCHANGED <<mHi, mLo>>
      /\ ins.op \in MergeOps /\ NextInstruction /\ NoTrap
  BY DEF ExecLoadMerge
<1>2. PICK word \in BusData :
          /\ LoadSlot(ins.t, MergedLoad(ins, word))
          /\ bus' = <<[kind |-> "load", width |-> 4,
                       addr |-> Aligned(ins), val |-> word]>>
  BY DEF ExecLoadMerge
<1>3. word \in Word
  BY ProgramAssumption
<1>4. mLoadRegIdx' \in Reg /\ mLoadReg' \in Word
  BY <1>1, <1>2, <1>3, MergedLoadType, ProgramFields DEF LoadSlot
<1>5. [kind |-> "load", width |-> 4, addr |-> Aligned(ins), val |-> word]
        \in Access
  BY <1>1, <1>3, MemoryOps, AddressType, AccessType
<1>6. bus' \in Seq(Access)
  BY <1>2, <1>5
<1> QED
  BY <1>1, <1>4, <1>6, LandedType, TypeAfterFetch, NoTrapType,
     NextInstructionType, HiLoUnchanged

LEMMA TypeStore ==
    ASSUME TypeOK, NEW ins \in Program, ExecStore(ins) PROVE TypeOK'
<1> DEFINE store == [kind |-> "store", width |-> Width(ins.op),
                     addr |-> Address(ins), val |-> Narrow(ins.op, T(ins))]
<1>1. /\ Fetch(ins) /\ Retire(Landed) /\ UNCHANGED <<mHi, mLo>>
      /\ ins.op \in StoreOps /\ EmptySlot
      /\ Trap(StoreAddressError) \/ (NextInstruction /\ NoTrap)
      /\ bus' = <<>> \/ bus' = <<store>>
  BY DEF ExecStore
<1>2. store \in Access
  BY <1>1, OperandType, NarrowType, MemoryOps, AddressType, AccessType
<1> HIDE DEF store
<1>3. bus' \in Seq(Access)
  BY <1>1, <1>2, AccessSequences
<1>4. StoreAddressError \in Exceptions
  BY DEF Exceptions
<1> QED
  BY <1>1, <1>3, <1>4, LandedType, TypeAfterFetch, NoTrapType, TrapType,
     NextInstructionType, EmptySlotType, HiLoUnchanged

LEMMA TypeStoreMerge ==
    ASSUME TypeOK, NEW ins \in Program, ExecStoreMerge(ins) PROVE TypeOK'
<1>1. /\ Fetch(ins) /\ Retire(Landed) /\ UNCHANGED <<mHi, mLo>>
      /\ ins.op \in MergeStoreOps /\ EmptySlot
      /\ NextInstruction /\ NoTrap
  BY DEF ExecStoreMerge
<1>2. PICK word \in BusData :
        \/ bus' = <<[kind |-> "load", width |-> 4,
                     addr |-> Aligned(ins), val |-> word]>>
        \/ bus' = <<[kind |-> "load", width |-> 4,
                     addr |-> Aligned(ins), val |-> word],
                    [kind |-> "store", width |-> 4,
                     addr |-> Aligned(ins), val |-> MergedStore(ins, word)]>>
  BY DEF ExecStoreMerge
<1>3. word \in Word /\ Aligned(ins) \in Word /\ MergedStore(ins, word) \in Word
  BY <1>1, ProgramAssumption, MergedStoreType, MemoryOps, AddressType
<1>4. /\ [kind |-> "load", width |-> 4,
          addr |-> Aligned(ins), val |-> word] \in Access
      /\ [kind |-> "store", width |-> 4,
          addr |-> Aligned(ins), val |-> MergedStore(ins, word)] \in Access
  BY <1>3, AccessType
<1>5. bus' \in Seq(Access)
  BY <1>2, <1>4, AccessSequences
<1> QED
  BY <1>1, <1>5, LandedType, TypeAfterFetch, NoTrapType,
     NextInstructionType, EmptySlotType, HiLoUnchanged

LEMMA TypeCop0 ==
    ASSUME TypeOK, NEW ins \in Program,
           ExecMfc0(ins) \/ ExecMtc0(ins) \/ ExecRfe(ins)
    PROVE  TypeOK'
<1>1. /\ Fetch(ins) /\ Retire(Landed) /\ NextInstruction /\ NoAccess
      /\ UNCHANGED <<mHi, mLo>>
  BY DEF ExecMfc0, ExecMtc0, ExecRfe
<1>2. mLoadRegIdx' \in Reg /\ mLoadReg' \in Word
  <2>1. CASE ExecMfc0(ins)
    BY <2>1, ProgramFields DEF ExecMfc0, LoadSlot, TypeOK
  <2>2. CASE ExecMtc0(ins) \/ ExecRfe(ins)
    BY <2>2, EmptySlotType DEF ExecMtc0, ExecRfe
  <2> QED
    BY <2>1, <2>2
<1>3. /\ trap' \in Exceptions \cup {None}
      /\ mSr' \in Word /\ mCause' \in Word /\ mEpc' \in Word
  <2>1. CASE ExecMfc0(ins)
    BY <2>1, NoTrapType DEF ExecMfc0
  <2>2. CASE ExecMtc0(ins)
    BY <2>2, OperandType DEF ExecMtc0, TypeOK
  <2>3. CASE ExecRfe(ins)
    <3>1. PopMode(mSr) \in 0 .. 63
      BY DEF PopMode, TypeOK, Word
    <3>2. PopMode(mSr) \in Word
      BY <3>1, WordAssumption DEF Word
    <3> QED
      BY <2>3, <3>2 DEF ExecRfe, TypeOK
  <2> QED
    BY <2>1, <2>2, <2>3
<1> QED
  BY <1>1, <1>2, <1>3, LandedType, TypeAfterFetch, NextInstructionType,
     NoAccessType, HiLoUnchanged

LEMMA TypeTrap ==
    ASSUME TypeOK, NEW ins \in Program, ExecTrap(ins) PROVE TypeOK'
<1>1. /\ Fetch(ins) /\ Retire(Landed) /\ UNCHANGED <<mHi, mLo>>
      /\ Trap(TrapCause(ins.op)) /\ EmptySlot /\ NoAccess
  BY DEF ExecTrap
<1>2. TrapCause(ins.op) \in Exceptions
  BY DEF TrapCause, Exceptions
<1> QED
  BY <1>1, <1>2, LandedType, TypeAfterFetch, TrapType, EmptySlotType,
     NoAccessType, HiLoUnchanged

LEMMA TypeFetchMisaligned ==
    ASSUME TypeOK, FetchMisaligned PROVE TypeOK'
<1>1. LoadAddressError \in Exceptions
  BY DEF Exceptions
<1>2. /\ mPc' \in Word /\ mNextPc' \in Word /\ trap' \in Exceptions
      /\ mSr' \in Word /\ mCause' \in Word /\ mEpc' \in Word
  BY <1>1, ExceptionType DEF FetchMisaligned, TypeOK
<1>3. bus' \in Seq(Access)
  BY NoAccessType DEF FetchMisaligned
<1> QED
  BY <1>2, <1>3 DEF FetchMisaligned, TypeOK, files

LEMMA TypeInit == Init => TypeOK
<1> SUFFICES ASSUME Init PROVE TypeOK
  OBVIOUS
<1>1. PowerOnRegs \in [Reg -> Word]
  BY SmallWords, AddressAssumption DEF PowerOnRegs
<1>2. Plus(ResetVector, 4) \in Word
  BY WordOps, SmallWords, AddressAssumption
<1>3. mIp \in 0 .. MaxIp
  BY ProgramAssumption DEF Init, Boot
<1>4. bus \in Seq(Access)
  BY DEF Init, Boot
<1>5. mLoadRegIdx \in Reg
  BY DEF Init, Boot, Reg
<1>6. /\ mPc \in Word /\ mNextPc \in Word /\ mCurrentPc \in Word
      /\ mRegs \in [Reg -> Word] /\ mOutRegs \in [Reg -> Word]
      /\ mLoadReg \in Word /\ mHi \in Word /\ mLo \in Word
      /\ mSr \in Word /\ mCause \in Word /\ mEpc \in Word
  BY <1>1, <1>2, SmallWords, AddressAssumption DEF Init, Boot
<1> QED
  BY <1>3, <1>4, <1>5, <1>6 DEF Init, Boot, TypeOK

LEMMA TypeStep == TypeOK /\ [Next]_vars => TypeOK'
<1> SUFFICES ASSUME TypeOK, [Next]_vars PROVE TypeOK'
  OBVIOUS
<1>1. CASE FetchMisaligned
  BY <1>1, TypeFetchMisaligned
<1>2. CASE Panic
  BY <1>2 DEF Panic, TypeOK, flow, files, cop0
<1>3. ASSUME NEW ins \in Program, Execute(ins) PROVE TypeOK'
  BY <1>3, TypeAlu, TypeHiLo, TypeAdd, TypeSub, TypeJump, TypeBranch,
     TypeLoad, TypeLoadMerge, TypeStore, TypeStoreMerge, TypeCop0, TypeTrap
  DEF Execute
<1>4. CASE UNCHANGED vars
  BY <1>4 DEF vars, TypeOK, flow, files, cop0
<1> QED
  BY <1>1, <1>2, <1>3, <1>4 DEF Next

(* Every state of the interpreter is well typed: no operation of it, the   *)
(* address computations and the 64-bit products included, leaves the       *)
(* range of its register (the whole of cpu.cpp).                           *)
THEOREM TypeCorrect == Spec => []TypeOK
BY TypeInit, TypeStep, PTL DEF Spec
-----------------------------------------------------------------------------
(* Control flow and exceptions. *)

(* All an instruction can do to the control flow. *)
LEMMA ControlFlow ==
    ASSUME TypeOK, NEW ins \in Program, Execute(ins)
    PROVE  /\ Fetch(ins)
           /\ \/ NextInstruction /\ trap' = None
              \/ (\E target \in Word : Jump(target)) /\ trap' = None
              \/ \E cause \in Exceptions : Trap(cause)
<1>1. CASE \/ ExecAlu(ins) \/ ExecHiLo(ins) \/ ExecLoadMerge(ins)
           \/ ExecStoreMerge(ins) \/ ExecMfc0(ins) \/ ExecMtc0(ins) \/ ExecRfe(ins)
  BY <1>1 DEF ExecAlu, ExecHiLo, ExecLoadMerge, ExecStoreMerge, ExecMfc0,
              ExecMtc0, ExecRfe, NoTrap
<1>2. CASE ExecAdd(ins) \/ ExecSub(ins)
  BY <1>2, OverflowIsException DEF ExecAdd, ExecSub, NoTrap
<1>3. CASE ExecJump(ins)
  BY <1>3, TargetType DEF ExecJump, NoTrap
<1>4. CASE ExecBranch(ins)
  BY <1>4, TargetType DEF ExecBranch, NoTrap
<1>5. CASE ExecLoad(ins)
  BY <1>5 DEF ExecLoad, NoTrap, Exceptions
<1>6. CASE ExecStore(ins)
  BY <1>6 DEF ExecStore, NoTrap, Exceptions
<1>7. CASE ExecTrap(ins)
  BY <1>7 DEF ExecTrap, TrapCause, Exceptions
<1> QED
  BY <1>1, <1>2, <1>3, <1>4, <1>5, <1>6, <1>7 DEF Execute

LEMMA NextWordAligned ==
    ASSUME NEW a \in Word, a % 4 = 0 PROVE Plus(a, 4) % 4 = 0
BY WordAssumption DEF Plus, Word

FlowInv == TypeOK /\ SequentialFlow

LEMMA FlowStep == FlowInv /\ [Next]_vars => FlowInv'
<1> SUFFICES ASSUME FlowInv, [Next]_vars PROVE SequentialFlow'
  BY TypeStep DEF FlowInv
<1> USE DEF FlowInv
<1>1. CASE FetchMisaligned
  <2>1. ~(mBranch /\ ~mDelaySlot)
    BY <1>1, NextWordAligned DEF FetchMisaligned, SequentialFlow, TypeOK
  <2> QED
    BY <1>1, <2>1 DEF FetchMisaligned, Exception, SequentialFlow
<1>2. CASE Panic
  BY <1>2 DEF Panic, SequentialFlow, flow
<1>3. ASSUME NEW ins \in Program, Execute(ins) PROVE SequentialFlow'
  <2>1. Fetch(ins)
    BY <1>3, ControlFlow
  <2>2. CASE NextInstruction
    BY <2>2 DEF NextInstruction, SequentialFlow
  <2>3. CASE \E target \in Word : Jump(target)
    BY <2>1, <2>3 DEF Jump, Fetch, SequentialFlow
  <2>4. CASE \E cause \in Exceptions : Trap(cause)
    BY <2>4 DEF Trap, Exception, SequentialFlow
  <2> QED
    BY <1>3, <2>2, <2>3, <2>4, ControlFlow
<1>4. CASE UNCHANGED vars
  BY <1>4 DEF vars, SequentialFlow, flow
<1> QED
  BY <1>1, <1>2, <1>3, <1>4 DEF Next

LEMMA FlowInit == Init => FlowInv
BY TypeInit DEF FlowInv, Init, Boot, SequentialFlow

(* Outside a taken branch mNextPc follows mPc; after one that is not in a  *)
(* delay slot mPc is the word after the branch.                            *)
THEOREM FlowCorrect == Spec => []SequentialFlow
<1>1. FlowInv => SequentialFlow
  BY DEF FlowInv
<1> QED
  BY <1>1, FlowInit, FlowStep, PTL DEF Spec

(* The first instruction of a handler is at the vector, not in a delay     *)
(* slot.                                                                   *)
THEOREM HandlerEntryCorrect == Spec => []HandlerEntry
<1>1. Init => HandlerEntry
  BY DEF Init, Boot, HandlerEntry
<1>2. FlowInv /\ HandlerEntry /\ [Next]_vars => HandlerEntry'
  <2> SUFFICES ASSUME FlowInv, HandlerEntry, [Next]_vars PROVE HandlerEntry'
    OBVIOUS
  <2> USE DEF FlowInv
  <2>1. CASE FetchMisaligned
    <3>1. ~(mBranch /\ ~mDelaySlot)
      BY <2>1, NextWordAligned DEF FetchMisaligned, SequentialFlow, TypeOK
    <3> QED
      BY <2>1, <3>1 DEF FetchMisaligned, Exception, HandlerEntry, Handler
  <2>2. CASE Panic
    BY <2>2 DEF Panic, HandlerEntry
  <2>3. ASSUME NEW ins \in Program, Execute(ins) PROVE HandlerEntry'
    <3>1. CASE trap' = None
      BY <3>1 DEF HandlerEntry
    <3>2. CASE \E cause \in Exceptions : Trap(cause)
      BY <3>2 DEF Trap, Exception, HandlerEntry, Handler
    <3> QED
      BY <2>3, <3>1, <3>2, ControlFlow
  <2>4. CASE UNCHANGED vars
    BY <2>4 DEF vars, flow, HandlerEntry
  <2> QED
    BY <2>1, <2>2, <2>3, <2>4 DEF Next
<1> QED
  BY <1>1, <1>2, FlowInit, FlowStep, PTL DEF Spec

(* The EPC of an exception is the faulting instruction, or the branch it   *)
(* is in the delay slot of.                                                *)
THEOREM EpcCorrect == Spec => EpcIsRestartPoint
<1> DEFINE Good == Raised /\ mPc % 4 = 0 /\ ~(mBranch /\ mDelaySlot) =>
                     /\ mEpc' = IF mBranch THEN mCurrentPc ELSE mPc
                     /\ (mCause' >= BdBit) <=> mBranch
<1>1. FlowInv /\ [Next]_vars => [Good]_vars
  <2> SUFFICES ASSUME FlowInv, Next, Raised, mPc % 4 = 0,
                      ~(mBranch /\ mDelaySlot)
               PROVE  /\ mEpc' = IF mBranch THEN mCurrentPc ELSE mPc
                      /\ (mCause' >= BdBit) <=> mBranch
    OBVIOUS
  <2> USE DEF FlowInv
  <2>1. PICK ins \in Program : Execute(ins)
    BY DEF Next, FetchMisaligned, Panic, Raised
  <2>2. PICK cause \in Exceptions : Trap(cause)
    BY <2>1, ControlFlow DEF Raised
  <2>3. mBranch \in BOOLEAN /\ mPc \in Word /\ mCurrentPc \in Word
    BY DEF TypeOK
  <2>4. mEpc' = IF mBranch THEN Minus(mPc, 4) ELSE mPc
    BY <2>2 DEF Trap, Exception
  <2>5. mBranch => Minus(mPc, 4) = mCurrentPc
    BY <2>3, MinusPlus, SmallWords DEF SequentialFlow
  <2>6. cause * 4 \in 0 .. 63
    BY DEF Exceptions, LoadAddressError, StoreAddressError, SysCall, Break,
           IllegalInstruction, CoprocessorError, Overflow
  <2>7. mCause' = IF mBranch THEN cause * 4 + BdBit ELSE cause * 4
    BY <2>2 DEF Trap, Exception
  <2>8. BdBit \in Nat /\ 64 <= BdBit
    BY AddressAssumption DEF Word
  <2>9. (mCause' >= BdBit) <=> mBranch
    BY <2>3, <2>6, <2>7, <2>8
  <2> QED
    BY <2>4, <2>5, <2>9
<1>2. Spec => []FlowInv
  BY FlowInit, FlowStep, PTL DEF Spec
<1> QED
  BY <1>1, <1>2, PTL DEF Spec, EpcIsRestartPoint
-----------------------------------------------------------------------------
(* The mode stack of SR across exceptions and returns. *)
SavedType == saved \in [depth : 0 .. 2, previous : 0 .. 3, old : 0 .. 3]

ModeInv == TypeOK /\ SavedType /\ ModeStack

(* Pushing and popping move the pairs of bits by one place. *)
LEMMA PushPop ==
    ASSUME NEW sr \in Nat
    PROVE  /\ (PushMode(sr) \div 4) % 4 = sr % 4
           /\ (PushMode(sr) \div 16) % 4 = (sr \div 4) % 4
           /\ PopMode(sr) % 4 = (sr \div 4) % 4
           /\ (PopMode(sr) \div 4) % 4 = (sr \div 16) % 4
           /\ sr % 4 \in 0 .. 3
BY DEF PushMode, PopMode

(* What a step does to SR. *)
LEMMA SrEffect ==
    ASSUME TypeOK, Next
    PROVE  /\ Raised => mSr' = PushMode(mSr) /\ ~Returned
           /\ Returned => mSr' = PopMode(mSr) /\ ~Raised
<1>1. ASSUME Returned PROVE mSr' = PopMode(mSr) /\ ~Raised
  BY <1>1 DEF Returned, ExecRfe, Raised
<1>2. ASSUME Raised PROVE mSr' = PushMode(mSr)
  <2>1. CASE FetchMisaligned
    BY <2>1 DEF FetchMisaligned, Exception
  <2>2. CASE Panic
    BY <1>2, <2>2 DEF Panic, Raised
  <2>3. ASSUME NEW ins \in Program, Execute(ins) PROVE mSr' = PushMode(mSr)
    BY <1>2, <2>3, ControlFlow DEF Raised, Trap, Exception
  <2> QED
    BY <2>1, <2>2, <2>3 DEF Next
<1> QED
  BY <1>1, <1>2

LEMMA ModeStep ==
    ASSUME ModeInv, Next, Observe
    PROVE  SavedType' /\ ModeStack'
<1>1. mSr \in Nat /\ TypeOK
  BY WordAssumption DEF ModeInv, TypeOK, Word
<1>2. saved \in [depth : 0 .. 2, previous : 0 .. 3, old : 0 .. 3]
  BY DEF ModeInv, SavedType
<1>3. CASE Raised
  <2>1. /\ mSr' = PushMode(mSr)
        /\ saved' = [depth |-> IF saved.depth = 2 THEN 2 ELSE saved.depth + 1,
                     previous |-> mSr % 4, old |-> saved.previous]
    BY <1>1, <1>3, SrEffect DEF Observe, CurrentMode
  <2>2. SavedType'
    BY <1>1, <1>2, <2>1, PushPop DEF SavedType
  <2>3. saved'.depth >= 2 => saved.depth >= 1
    BY <1>2, <2>1
  <2> QED
    BY <1>1, <2>1, <2>2, <2>3, PushPop DEF ModeInv, ModeStack
<1>4. CASE Returned
  <2>1. /\ mSr' = PopMode(mSr)
        /\ saved' = [depth |-> IF saved.depth = 0 THEN 0 ELSE saved.depth - 1,
                     previous |-> saved.old, old |-> 0]
    BY <1>1, <1>4, SrEffect DEF Observe
  <2>2. SavedType'
    BY <1>2, <2>1 DEF SavedType
  <2>3. ~(saved'.depth >= 2) /\ (saved'.depth >= 1 => saved.depth >= 2)
    BY <1>2, <2>1
  <2> QED
    BY <1>1, <2>1, <2>2, <2>3, PushPop DEF ModeInv, ModeStack
<1>5. CASE ~Raised /\ ~Returned
  <2>1. saved' = IF mSr' = mSr THEN saved ELSE NothingSaved
    BY <1>5 DEF Observe
  <2>2. CASE mSr' = mSr
    BY <2>1, <2>2 DEF ModeInv, SavedType, ModeStack
  <2>3. CASE mSr' # mSr
    BY <2>1, <2>3 DEF NothingSaved, SavedType, ModeStack
  <2> QED
    BY <2>2, <2>3
<1> QED
  BY <1>3, <1>4, <1>5

LEMMA ModeInvariant == ObservedSpec => []ModeInv
<1>1. ObservedInit => ModeInv
  <2> SUFFICES ASSUME ObservedInit PROVE SavedType /\ ModeStack
    BY TypeInit DEF ObservedInit, ModeInv
  <2> QED
    BY DEF ObservedInit, NothingSaved, SavedType, ModeStack
<1>2. ModeInv /\ [Next /\ Observe]_obsVars => ModeInv'
  <2> SUFFICES ASSUME ModeInv, [Next /\ Observe]_obsVars PROVE ModeInv'
    OBVIOUS
  <2>1. TypeOK'
    BY TypeStep DEF ModeInv, obsVars
  <2>2. CASE Next /\ Observe
    BY <2>1, <2>2, ModeStep DEF ModeInv
  <2>3. CASE UNCHANGED obsVars
    BY <2>1, <2>3 DEF ModeInv, SavedType, ModeStack, obsVars, vars, cop0
  <2> QED
    BY <2>2, <2>3
<1> QED
  BY <1>1, <1>2, PTL DEF ObservedSpec

(* The modes exceptions interrupted stay in SR until they are returned to. *)
THEOREM ModeStackCorrect == ObservedSpec => []ModeStack
<1>1. ModeInv => ModeStack
  BY DEF ModeInv
<1> QED
  BY <1>1, ModeInvariant, PTL

(* RFE restores the mode the last exception interrupted. *)
THEOREM RfeCorrect == ObservedSpec => RfeRestoresMode
<1>1. ModeInv /\ [Next /\ Observe]_obsVars =>
        [Returned /\ saved.depth >= 1 => mSr' % 4 = saved.previous]_obsVars
  <2> SUFFICES ASSUME ModeInv, Next, Returned, saved.depth >= 1
               PROVE  mSr' % 4 = saved.previous
    OBVIOUS
  <2>1. TypeOK /\ mSr \in Nat
    BY WordAssumption DEF ModeInv, TypeOK, Word
  <2> QED
    BY <2>1, SrEffect, PushPop DEF ModeInv, ModeStack
<1> QED
  BY <1>1, ModeInvariant, PTL DEF ObservedSpec, RfeRestoresMode
=============================================================================
