--------------------------- MODULE CpuDataProofs ---------------------------
(***************************************************************************)
(* The registers of the interpreter: the load delay slot, the links of     *)
(* calls, what a trap leaves alone, the stores that reach the bus,         *)
(* overflow, multiplication and division, and unaligned accesses.          *)
(***************************************************************************)
EXTENDS CpuProofs

(* All an instruction can do to the registers: write one, or load one. *)
LEMMA RegisterEffect ==
    ASSUME TypeOK, NEW ins \in Program, Execute(ins)
    PROVE  \/ Retire(Landed) /\ mLoadRegIdx' \in Reg /\ mLoadReg' \in Word
           \/ /\ \E w \in Reg, v \in Word : Retire(SetReg(Landed, w, v))
              /\ EmptySlot
<1>1. CASE ExecAlu(ins)
  BY <1>1, AluResultType, ProgramFields DEF ExecAlu
<1>2. CASE ExecHiLo(ins) \/ ExecMtc0(ins) \/ ExecRfe(ins) \/ ExecTrap(ins)
           \/ ExecStore(ins) \/ ExecStoreMerge(ins)
  BY <1>2, EmptySlotType DEF ExecHiLo, ExecMtc0, ExecRfe, ExecTrap, ExecStore,
                             ExecStoreMerge
<1>3. CASE ExecAdd(ins)
  <2> DEFINE b == IF ins.op = "ADD" THEN T(ins) ELSE ImmSe(ins)
             dest == IF ins.op = "ADD" THEN ins.d ELSE ins.t
  <2>1. ins.op \in {"ADD", "ADDI"}
    BY <1>3 DEF ExecAdd
  <2>2. Plus(S(ins), b) \in Word /\ dest \in Reg
    BY <2>1, OperandType, ImmSeType, WordOps, ProgramFields DEF ShiftOps
  <2>3. Retire(SetReg(Landed, dest, Plus(S(ins), b))) /\ EmptySlot
    BY <1>3 DEF ExecAdd
  <2> QED
    BY <2>2, <2>3
<1>4. CASE ExecSub(ins)
  BY <1>4, OperandType, WordOps, ProgramFields, EmptySlotType DEF ExecSub
<1>5. CASE ExecJump(ins)
  <2>1. 31 \in Reg /\ ins.d \in Reg /\ LinkPc \in Word
    BY TargetType, ProgramFields DEF Reg
  <2>2. /\ EmptySlot
        /\ \/ Retire(Landed)
           \/ Retire(SetReg(Landed, 31, LinkPc))
           \/ Retire(SetReg(Landed, ins.d, LinkPc))
    BY <1>5 DEF ExecJump
  <2> QED
    BY <2>1, <2>2, EmptySlotType
<1>6. CASE ExecBranch(ins)
  <2>1. 31 \in Reg /\ LinkPc \in Word
    BY TargetType DEF Reg
  <2>2. /\ EmptySlot
        /\ Retire(Landed) \/ Retire(SetReg(Landed, 31, LinkPc))
    BY <1>6 DEF ExecBranch
  <2> QED
    BY <2>1, <2>2, EmptySlotType
<1>7. CASE ExecLoad(ins) \/ ExecLoadMerge(ins) \/ ExecMfc0(ins)
  <2>1. TypeOK'
    BY <1>7, TypeLoad, TypeLoadMerge, TypeCop0
  <2> QED
    BY <1>7, <2>1 DEF ExecLoad, ExecLoadMerge, ExecMfc0, TypeOK
<1> QED
  BY <1>1, <1>2, <1>3, <1>4, <1>5, <1>6, <1>7 DEF Execute

(* Between two instructions both files agree, and R0 is zero. *)
RegisterInv == TypeOK /\ mRegs = mOutRegs /\ mRegs[0] = 0

LEMMA LandedIsDelayed ==
    ASSUME RegisterInv
    PROVE  /\ Landed \in [Reg -> Word] /\ Landed[0] = 0
           /\ \A r \in Reg \ {0} :
                Landed[r] = IF r = mLoadRegIdx THEN mLoadReg ELSE mRegs[r]
<1>1. mOutRegs \in [Reg -> Word] /\ mLoadRegIdx \in Reg /\ mLoadReg \in Word
  BY DEF RegisterInv, TypeOK
<1> QED
  BY <1>1, SetRegType DEF Landed, RegisterInv

(* One instruction of the interpreter is one instruction of LoadDelay. *)
LEMMA ExecuteIsInstruct ==
    ASSUME RegisterInv, NEW ins \in Program, Execute(ins)
    PROVE  Slot!Instruct /\ mRegs' = mOutRegs' /\ mRegs'[0] = 0
<1> DEFINE slot == [index |-> mLoadRegIdx, val |-> mLoadReg]
<1>1. TypeOK /\ TypeOK'
  BY TypeStep DEF RegisterInv, Next
<1>2. slot' \in [index : Reg, val : Word] /\ mRegs' \in [Reg -> Word]
  BY <1>1 DEF TypeOK
<1>3. 0 \in Reg /\ Slot!Reg = Reg
  BY DEF Reg, Slot!Reg
<1>4. CASE Retire(Landed)
  <2>1. mRegs' = Landed /\ mOutRegs' = Landed
    BY <1>4 DEF Retire
  <2>2. \A r \in Reg \ {0, 0} :
          mRegs'[r] = IF r = slot.index THEN slot.val ELSE mRegs[r]
    BY <2>1, LandedIsDelayed
  <2>3. mRegs'[0] = 0
    BY <2>1, LandedIsDelayed
  <2> HIDE DEF slot
  <2> QED
    BY <1>2, <1>3, <2>1, <2>2, <2>3 DEF Slot!Instruct, slot
<1>5. CASE (\E w \in Reg, v \in Word : Retire(SetReg(Landed, w, v))) /\ EmptySlot
  <2>1. PICK w \in Reg, v \in Word : Retire(SetReg(Landed, w, v))
    BY <1>5
  <2>2. mRegs' = SetReg(Landed, w, v) /\ mOutRegs' = mRegs'
    BY <2>1 DEF Retire
  <2>3. /\ mRegs'[0] = 0
        /\ \A r \in Reg \ {0, w} : mRegs'[r] = Landed[r]
    BY <2>2, LandedIsDelayed, SetRegType
  <2>4. \A r \in Reg \ {0, w} :
          mRegs'[r] = IF r = slot.index THEN slot.val ELSE mRegs[r]
    BY <2>3, LandedIsDelayed
  <2>5. slot' = Slot!Empty
    BY <1>5 DEF EmptySlot, LoadSlot, Slot!Empty
  <2> HIDE DEF slot
  <2> QED
    BY <1>2, <1>3, <2>2, <2>3, <2>4, <2>5 DEF Slot!Instruct, slot
<1> QED
  BY <1>1, <1>4, <1>5, RegisterEffect DEF RegisterInv

LEMMA RegisterStep ==
    RegisterInv /\ [Next]_vars =>
        /\ RegisterInv'
        /\ [Slot!Instruct]_<<mRegs, [index |-> mLoadRegIdx, val |-> mLoadReg]>>
<1> SUFFICES ASSUME RegisterInv, [Next]_vars
             PROVE  /\ RegisterInv'
                    /\ \/ Slot!Instruct
                       \/ UNCHANGED <<mRegs, mLoadRegIdx, mLoadReg>>
  OBVIOUS
<1>1. TypeOK'
  BY TypeStep DEF RegisterInv
<1>2. CASE UNCHANGED files
  BY <1>1, <1>2 DEF RegisterInv, files
<1>3. ASSUME NEW ins \in Program, Execute(ins)
      PROVE  RegisterInv' /\ Slot!Instruct
  BY <1>1, <1>3, ExecuteIsInstruct DEF RegisterInv
<1> QED
  BY <1>2, <1>3 DEF Next, FetchMisaligned, Panic, vars

LEMMA RegisterInit == Init => RegisterInv /\ Slot!Init
<1> SUFFICES ASSUME Init PROVE RegisterInv /\ Slot!Init
  OBVIOUS
<1>1. TypeOK
  BY TypeInit
<1>2. mRegs = mOutRegs /\ mRegs[0] = 0 /\ mLoadRegIdx = 0 /\ mLoadReg = 0
  BY DEF Init, Boot, PowerOnRegs, Reg
<1> QED
  BY <1>1, <1>2 DEF RegisterInv, Slot!Init, Slot!Empty, TypeOK, Reg, Slot!Reg

(* The two register files and the load slot implement the one file with a  *)
(* load delay slot of LoadDelay.                                           *)
THEOREM LoadDelayCorrect == Spec => LoadDelaySlot
BY RegisterInit, RegisterStep, PTL DEF Spec, LoadDelaySlot, Slot!Spec
-----------------------------------------------------------------------------
(* The return address of a call is the word after its delay slot. *)
THEOREM LinkCorrect == Spec => LinkSkipsDelaySlot
<1> DEFINE Good(ins) ==
      LinkRegister(ins) # 0 /\ ~mBranch /\ (ExecJump(ins) \/ ExecBranch(ins))
         => mRegs'[LinkRegister(ins)] = Plus(mPc, 8)
<1>1. FlowInv /\ [Next]_vars => [\A ins \in Program : Good(ins)]_vars
  <2> SUFFICES ASSUME FlowInv, NEW ins \in Program, LinkRegister(ins) # 0,
                      ~mBranch, ExecJump(ins) \/ ExecBranch(ins)
               PROVE  mRegs'[LinkRegister(ins)] = Plus(mPc, 8)
    OBVIOUS
  <2> USE DEF FlowInv
  <2>1. LinkPc = Plus(mPc, 8)
    BY WordAssumption DEF LinkPc, SequentialFlow, TypeOK, Plus, Word
  <2>2. LinkRegister(ins) \in Reg /\ LinkPc \in Word
    BY ProgramFields, TargetType DEF LinkRegister, Reg
  <2>3. mRegs' = SetReg(Landed, LinkRegister(ins), LinkPc)
    <3>1. CASE ExecJump(ins)
      <4>1. ins.op \in JumpOps /\ ~IsLink(ins)
        BY <3>1 DEF ExecJump, IsLink, JumpOps
      <4> QED
        BY <3>1, <4>1 DEF ExecJump, Retire, LinkRegister
    <3>2. CASE ExecBranch(ins)
      <4>1. ins.op # "JAL" /\ ins.op # "JALR"
        BY <3>2 DEF ExecBranch, BranchOps
      <4> QED
        BY <3>2, <4>1 DEF ExecBranch, Retire, LinkRegister
    <3> QED
      BY <3>1, <3>2
  <2> QED
    BY <2>1, <2>2, <2>3, LandedType, SetRegType
<1>2. Spec => []FlowInv
  BY FlowInit, FlowStep, PTL DEF Spec
<1> QED
  BY <1>1, <1>2, PTL DEF Spec, LinkSkipsDelaySlot

(* An instruction that traps only commits the pending load; ADD and ADDI   *)
(* write the register of their sum as well, and SUB does not.              *)
THEOREM TrapCorrect == Spec => TrapHasNoOtherEffect
<1>1. ASSUME RegisterInv, Raised, NEW ins \in Program, Execute(ins)
      PROVE  OnlyCommits(SumRegister(ins))
  <2> USE <1>1
  <2> DEFINE committed == [mRegs EXCEPT ![mLoadRegIdx] = mLoadReg, ![0] = 0]
  <2>1. trap' # None
    BY DEF Raised
  <2>2. ~\/ ExecAlu(ins) \/ ExecHiLo(ins) \/ ExecJump(ins) \/ ExecBranch(ins)
         \/ ExecLoadMerge(ins) \/ ExecStoreMerge(ins) \/ ExecMfc0(ins)
         \/ ExecMtc0(ins) \/ ExecRfe(ins)
    BY <2>1 DEF ExecAlu, ExecHiLo, ExecJump, ExecBranch, ExecLoadMerge,
                ExecStoreMerge, ExecMfc0, ExecMtc0, ExecRfe, NoTrap
  <2>3. Landed = committed /\ Landed \in [Reg -> Word] /\ Landed[0] = 0
    BY LandedIsDelayed DEF Landed, SetReg, RegisterInv
  <2>4. CASE ExecTrap(ins) \/ ExecLoad(ins) \/ ExecStore(ins) \/ ExecSub(ins)
    <3>1. Retire(Landed) /\ EmptySlot /\ NoAccess /\ UNCHANGED <<mHi, mLo>>
      BY <2>1, <2>4 DEF ExecTrap, ExecLoad, ExecStore, ExecSub, NoTrap, NoAccess
    <3> QED
      BY <2>3, <3>1 DEF Retire, EmptySlot, LoadSlot, NoAccess, OnlyCommits
  <2>5. CASE ExecAdd(ins)
    <3>1. SumRegister(ins) = IF ins.op = "ADD" THEN ins.d ELSE ins.t
      BY <2>5 DEF ExecAdd, SumRegister
    <3>2. PICK v : Retire(SetReg(Landed, SumRegister(ins), v))
      BY <2>5, <3>1 DEF ExecAdd
    <3>3. EmptySlot /\ NoAccess /\ UNCHANGED <<mHi, mLo>>
      BY <2>5 DEF ExecAdd
    <3>4. mRegs' = [committed EXCEPT ![SumRegister(ins)] = v, ![0] = 0]
      BY <2>3, <3>2 DEF Retire, SetReg
    <3>5. [mRegs' EXCEPT ![SumRegister(ins)] = 0] = [committed EXCEPT ![SumRegister(ins)] = 0]
      BY <2>3, <3>4
    <3>6. mRegs'[0] = 0
      BY <2>3, <3>4 DEF Reg
    <3> QED
      BY <3>3, <3>5, <3>6 DEF EmptySlot, LoadSlot, NoAccess, OnlyCommits
  <2> QED
    BY <2>2, <2>4, <2>5 DEF Execute
<1>2. RegisterInv /\ [Next]_vars =>
        [Raised => \A ins \in Program :
           OnlyCommits(SumRegister(ins)) \/ ~Execute(ins)]_vars
  BY <1>1
<1>3. Spec => []RegisterInv
  BY RegisterInit, RegisterStep, PTL DEF Spec
<1> QED
  BY <1>2, <1>3, PTL DEF Spec, TrapHasNoOtherEffect

(* Stores reach the bus aligned and with the cache connected. *)
THEOREM BusStoresCorrect == Spec => BusStores
<1> DEFINE Good == \A k \in DOMAIN bus' : bus'[k].kind = "store" /\ bus' # bus =>
          /\ (mSr \div IscBit) % 2 = 0
          /\ bus'[k].addr % bus'[k].width = 0
<1>1. TypeOK /\ [Next]_vars => [Good]_vars
  <2> SUFFICES ASSUME TypeOK, Next PROVE Good
    OBVIOUS
  <2>1. mSr \in Nat /\ IscBit \in Nat \ {0}
    BY AddressAssumption, WordAssumption DEF TypeOK, Word
  <2>2. (mSr \div IscBit) % 2 \in {0, 1}
    <3>1. mSr \div IscBit \in Nat
      BY <2>1, DivMod
    <3> QED
      BY <3>1
  <2>3. CASE NoAccess
    BY <2>3 DEF NoAccess
  <2>4. CASE UNCHANGED bus
    BY <2>4
  <2>5. ASSUME NEW ins \in Program, ExecLoad(ins) PROVE Good
    <3>1. CASE NoAccess
      BY <2>3, <3>1
    <3>2. CASE \E v \in BusData :
                 bus' = <<[kind |-> "load", width |-> Width(ins.op),
                           addr |-> Address(ins), val |-> v]>>
      BY <3>2
    <3> QED
      BY <2>5, <3>1, <3>2 DEF ExecLoad
  <2>6. ASSUME NEW ins \in Program, ExecLoadMerge(ins) PROVE Good
    BY <2>6 DEF ExecLoadMerge
  <2>7. ASSUME NEW ins \in Program, ExecStore(ins) PROVE Good
    <3>1. CASE Isolated \/ StoreError(ins)
      BY <2>3, <2>7, <3>1 DEF ExecStore, NoAccess
    <3>2. CASE ~Isolated /\ ~StoreError(ins)
      <4>1. ins.op = "SW" \/ ins.op = "SH" \/ ins.op = "SB"
        BY <2>7 DEF ExecStore, StoreOps
      <4>2. Address(ins) \in Nat
        BY <2>7, MemoryOps, AddressType, WordAssumption DEF ExecStore, Word
      <4>3. Address(ins) % Width(ins.op) = 0
        BY <3>2, <4>1, <4>2 DEF Width, StoreError
      <4>4. bus' = <<[kind |-> "store", width |-> Width(ins.op),
                      addr |-> Address(ins), val |-> Narrow(ins.op, T(ins))]>>
        BY <2>7, <3>2 DEF ExecStore
      <4> QED
        BY <2>2, <3>2, <4>3, <4>4 DEF Isolated
    <3> QED
      BY <3>1, <3>2
  <2>8. ASSUME NEW ins \in Program, ExecStoreMerge(ins) PROVE Good
    <3>1. Address(ins) \in Nat
      BY <2>8, MemoryOps, AddressType, WordAssumption DEF ExecStoreMerge, Word
    <3>2. Aligned(ins) % 4 = 0
      BY <3>1 DEF Aligned
    <3>3. PICK word \in BusData :
        bus' = IF Isolated
               THEN <<[kind |-> "load", width |-> 4,
                       addr |-> Aligned(ins), val |-> word]>>
               ELSE <<[kind |-> "load", width |-> 4,
                       addr |-> Aligned(ins), val |-> word],
                      [kind |-> "store", width |-> 4,
                       addr |-> Aligned(ins), val |-> MergedStore(ins, word)]>>
      BY <2>8 DEF ExecStoreMerge
    <3> QED
      BY <2>2, <3>2, <3>3 DEF Isolated
  <2> QED
    BY <2>3, <2>4, <2>5, <2>6, <2>7, <2>8
    DEF Next, Execute, FetchMisaligned, Panic, ExecAlu, ExecHiLo, ExecAdd,
        ExecSub, ExecJump, ExecBranch, ExecMfc0, ExecMtc0, ExecRfe, ExecTrap
<1> QED
  BY <1>1, TypeCorrect, PTL DEF Spec, BusStores
-----------------------------------------------------------------------------
(* The tests of the sign bits in cpu.cpp:5-13 are the test for a signed    *)
(* result that does not fit in the word.                                   *)
LEMMA AddOverflowExact ==
    ASSUME NEW a \in Word, NEW b \in Word
    PROVE  /\ AddOverflow(a, b, Plus(a, b)) <=> ~Fits(Signed(a) + Signed(b))
           /\ SubOverflow(a, b, Minus(a, b)) <=> ~Fits(Signed(a) - Signed(b))
<1> DEFINE h == WORD \div 2
<1>1. h \in Nat /\ WORD = 2 * h
  BY WordAssumption
<1> HIDE DEF h
<1>2. WORD \div 2 = h
  BY DEF h
<1>3. a \in 0 .. 2 * h - 1 /\ b \in 0 .. 2 * h - 1
  BY <1>1 DEF Word
<1> QED
  BY <1>1, <1>2, <1>3
  DEF AddOverflow, SubOverflow, Plus, Minus, Fits, Signed, Negative

(* ADD, ADDI and SUB trap exactly when the signed result does not fit. *)
THEOREM OverflowCorrect == Spec => OverflowIsExact
<1> DEFINE Good(ins) ==
          /\ ins.op \in {"ADD", "ADDI"} /\ ExecAdd(ins) =>
               (Raised <=> ~Fits(Signed(S(ins)) +
                   Signed(IF ins.op = "ADD" THEN T(ins) ELSE ImmSe(ins))))
          /\ ins.op = "SUB" /\ ExecSub(ins) =>
               (Raised <=> ~Fits(Signed(S(ins)) - Signed(T(ins))))
<1>1. TypeOK /\ [Next]_vars => [\A ins \in Program : Good(ins)]_vars
  <2> SUFFICES ASSUME TypeOK, NEW ins \in Program PROVE Good(ins)
    OBVIOUS
  <2>1. ASSUME ins.op \in {"ADD", "ADDI"}, ExecAdd(ins)
        PROVE  Raised <=> ~Fits(Signed(S(ins)) +
                   Signed(IF ins.op = "ADD" THEN T(ins) ELSE ImmSe(ins)))
    <3> DEFINE b == IF ins.op = "ADD" THEN T(ins) ELSE ImmSe(ins)
    <3>1. S(ins) \in Word /\ b \in Word
      BY <2>1, OperandType, ImmSeType DEF ShiftOps
    <3>2. Raised <=> AddOverflow(S(ins), b, Plus(S(ins), b))
      BY <2>1 DEF ExecAdd, Raised, Fetch, Trap, Exception, NoTrap, None, Overflow
    <3> HIDE DEF b
    <3>3. AddOverflow(S(ins), b, Plus(S(ins), b)) <=> ~Fits(Signed(S(ins)) + Signed(b))
      BY <3>1, AddOverflowExact
    <3> QED
      BY <3>2, <3>3 DEF b
  <2>2. ASSUME ins.op = "SUB", ExecSub(ins)
        PROVE  Raised <=> ~Fits(Signed(S(ins)) - Signed(T(ins)))
    <3>1. Raised <=> SubOverflow(S(ins), T(ins), Minus(S(ins), T(ins)))
      BY <2>2 DEF ExecSub, Raised, Fetch, Trap, Exception, NoTrap, None, Overflow
    <3> QED
      BY <3>1, OperandType, AddOverflowExact
  <2> QED
    BY <2>1, <2>2
<1> QED
  BY <1>1, TypeCorrect, PTL DEF Spec, OverflowIsExact
-----------------------------------------------------------------------------
(* Division, of numbers of either sign. *)
LEMMA Remainder ==
    ASSUME NEW n \in Int, NEW d \in Nat, d > 0
    PROVE  n % d = n - (n \div d) * d
OBVIOUS

LEMMA Division ==
    ASSUME NEW n \in Int, NEW d \in Nat \ {0}
    PROVE  \E q \in Int, r \in 0 .. d - 1 :
              n \div d = q /\ n % d = r /\ n = q * d + r
<1> DEFINE q == n \div d  r == n % d
<1>1. q \in Int /\ r \in 0 .. d - 1
  OBVIOUS
<1>2. r = n - q * d
  BY Remainder
<1> SUFFICES n = q * d + r
  BY <1>1
<1> HIDE DEF q, r
<1>3. q * d \in Int /\ r \in Int
  BY <1>1
<1> QED
  BY <1>2, <1>3

LEMMA NaturalQuotient ==
    ASSUME NEW n \in Nat, NEW d \in Nat \ {0}, NEW q \in Int, NEW r \in 0 .. d - 1,
           n = q * d + r
    PROVE  q \in Nat /\ q <= n /\ (q = n => d = 1 \/ n = 0)
<1>1. q \in Nat /\ q <= n
  OBVIOUS
<1>2. ASSUME d >= 2, n # 0 PROVE q < n
  BY <1>1, <1>2
<1> QED
  BY <1>1, <1>2

(* Truncating division rounds towards zero, so that the remainder has the  *)
(* sign of the dividend.                                                   *)
Truncates(n, m, q, r) ==
    /\ q \in Int /\ r \in Int /\ n = q * m + r
    /\ Magnitude(r) < Magnitude(m)
    /\ r # 0 => (r < 0) = (n < 0)
    /\ Magnitude(q) <= Magnitude(n)
    /\ Magnitude(q) = Magnitude(n) => Magnitude(m) = 1 \/ n = 0

LEMMA TruncDivExact ==
    ASSUME NEW n \in Int, NEW m \in Int, m # 0
    PROVE  Truncates(n, m, TruncDiv(n, m), n - m * TruncDiv(n, m))
<1> DEFINE a == Magnitude(n)  b == Magnitude(m)
           q == TruncDiv(n, m)  r == n - m * q
<1>1. /\ a \in Nat /\ b \in Nat \ {0}
      /\ a = IF n < 0 THEN -n ELSE n
      /\ b = IF m < 0 THEN -m ELSE m
  BY DEF Magnitude
<1> HIDE DEF a, b
<1>2. PICK k \in Int, e \in 0 .. b - 1 : a \div b = k /\ a % b = e /\ a = k * b + e
  <2>1. a \in Int /\ b \in Nat \ {0}
    BY <1>1
  <2> QED
    BY <2>1, Division
<1>3. k \in Nat /\ k <= a /\ (k = a => b = 1 \/ a = 0)
  BY <1>1, <1>2, NaturalQuotient
<1>4. q = IF (n < 0) = (m < 0) THEN k ELSE -k
  BY <1>2 DEF TruncDiv, a, b
<1> HIDE DEF q
<1>5. q \in Int /\ Magnitude(q) = k /\ r \in Int
  BY <1>3, <1>4 DEF Magnitude
<1>6. r = IF n < 0 THEN -e ELSE e
  <2>1. CASE n < 0 /\ m < 0
    BY <1>1, <1>2, <1>4, <2>1
  <2>2. CASE n < 0 /\ ~(m < 0)
    BY <1>1, <1>2, <1>4, <2>2
  <2>3. CASE ~(n < 0) /\ m < 0
    BY <1>1, <1>2, <1>4, <2>3
  <2>4. CASE ~(n < 0) /\ ~(m < 0)
    BY <1>1, <1>2, <1>4, <2>4
  <2> QED
    BY <2>1, <2>2, <2>3, <2>4
<1>7. n = q * m + r
  <2> DEFINE p == m * q
  <2>1. p \in Int /\ q * m = p
    BY <1>5
  <2> HIDE DEF p
  <2>2. r = n - p
    BY DEF p
  <2> HIDE DEF r
  <2>3. n = p + r
    BY <2>1, <2>2
  <2> QED
    BY <2>1, <2>3
<1> HIDE DEF r
<1>8. Magnitude(r) = e
  BY <1>2, <1>6 DEF Magnitude
<1>9. r # 0 => (r < 0) = (n < 0)
  BY <1>2, <1>6
<1>10. Magnitude(r) < b /\ Magnitude(q) <= a /\ (Magnitude(q) = a => b = 1 \/ n = 0)
  BY <1>1, <1>2, <1>3, <1>5, <1>8
<1> QED
  BY <1>5, <1>7, <1>9, <1>10 DEF Truncates, a, b, q, r

(* A signed number that fits in a word is the word read as signed.         *)
LEMMA WrapSigned ==
    ASSUME NEW h \in Nat, WORD = 2 * h, NEW x \in Int
    PROVE  /\ -h <= x /\ x < h => Signed(x % WORD) = x
           /\ x = h => Signed(x % WORD) = -h
<1>1. h \in Nat \ {0} /\ WORD \div 2 = h
  BY WordAssumption
<1>2. 0 <= x /\ x <= h => x % WORD = x
  BY <1>1
<1>3. -h <= x /\ x < 0 => x % WORD = x + WORD
  BY <1>1
<1> QED
  BY <1>1, <1>2, <1>3 DEF Signed, Negative

(* The high and the low word of a product.                                 *)
LEMMA ProductBound ==
    ASSUME NEW h \in Nat, NEW n \in -h .. h, NEW m \in -h .. h
    PROVE  n * m \in Int /\ -(h * h) <= n * m /\ n * m <= h * h
OBVIOUS

LEMMA HighSigned ==
    ASSUME NEW h \in Nat \ {0}, NEW k \in Int, NEW lo \in 0 .. 2 * h - 1,
           -(h * h) <= k * (2 * h) + lo, k * (2 * h) + lo <= h * h
    PROVE  -h <= k /\ k < h
OBVIOUS

LEMMA HighUnsigned ==
    ASSUME NEW w \in Nat \ {0}, NEW k \in Int, NEW lo \in 0 .. w - 1,
           NEW s \in 0 .. w - 1, NEW t \in 0 .. w - 1, k * w + lo = s * t
    PROVE  0 <= k /\ k < w
OBVIOUS

HiLoGood(ins) ==
    ins.op \in HiLoOps /\ ExecHiLo(ins) =>
       LET s == S(ins)  n == Signed(S(ins))
           t == T(ins)  m == Signed(T(ins))
           q == Signed(mLo')  r == Signed(mHi')
       IN CASE ins.op = "MULT"  -> r * WORD + mLo' = n * m
            [] ins.op = "MULTU" -> mHi' * WORD + mLo' = s * t
            [] ins.op = "DIVU" /\ t # 0 -> s = mLo' * t + mHi' /\ mHi' < t
            [] ins.op = "DIV" /\ t # 0 ->
                 /\ n = q * m + r \/ (m = -1 /\ q * m + r - n = WORD)
                 /\ Magnitude(r) < Magnitude(m)
                 /\ r # 0 => (r < 0) = (n < 0)
            [] OTHER -> TRUE

LEMMA HiLoExact ==
    ASSUME TypeOK, NEW ins \in Program
    PROVE  HiLoGood(ins)
<1> SUFFICES ASSUME ins.op \in HiLoOps, ExecHiLo(ins)
             PROVE  HiLoGood(ins)
  BY DEF HiLoGood
<1> DEFINE h == WORD \div 2
           s == S(ins)
           t == T(ins)
           n == Signed(s)
           m == Signed(t)
<1>1. h \in Nat \ {0} /\ WORD = 2 * h /\ WORD \in Nat \ {0}
  BY WordAssumption
<1>2. s \in 0 .. WORD - 1 /\ t \in 0 .. WORD - 1
  BY OperandType DEF Word
<1>3. n \in -h .. h - 1 /\ m \in -h .. h - 1 /\ (t # 0 => m # 0)
  <2> HIDE DEF s, t
  <2> QED
    BY <1>1, <1>2 DEF Signed, Negative
<1>4. mHi' = HiLoResult(ins)[1] /\ mLo' = HiLoResult(ins)[2]
  BY DEF ExecHiLo
<1> HIDE DEF s, t, n, m, h
<1>5. CASE ins.op = "MULT"
  <2> DEFINE p == n * m
  <2>1. p \in Int /\ -(h * h) <= p /\ p <= h * h
    BY <1>1, <1>3, ProductBound
  <2>2. HiLoResult(ins) = <<(p \div WORD) % WORD, p % WORD>>
    BY <1>5 DEF HiLoResult, p, n, m, s, t
  <2> HIDE DEF p
  <2>3. PICK k \in Int, lo \in 0 .. WORD - 1 :
           p \div WORD = k /\ p % WORD = lo /\ p = k * WORD + lo
    BY <1>1, <2>1, Division
  <2>4. -h <= k /\ k < h
    BY <1>1, <2>1, <2>3, HighSigned
  <2>5. Signed(mHi') = k /\ mLo' = lo
    BY <1>1, <1>4, <2>2, <2>3, <2>4, WrapSigned
  <2>6. Signed(mHi') * WORD + mLo' = n * m
    BY <2>3, <2>5 DEF p
  <2> QED
    BY <1>5, <2>6 DEF HiLoGood, n, m, s, t
<1>6. CASE ins.op = "MULTU"
  <2> DEFINE p == s * t
  <2>1. p \in Int
    BY <1>2
  <2>2. HiLoResult(ins) = <<(p \div WORD) % WORD, p % WORD>>
    BY <1>6 DEF HiLoResult, p, s, t
  <2>3. PICK k \in Int, lo \in 0 .. WORD - 1 :
           p \div WORD = k /\ p % WORD = lo /\ p = k * WORD + lo
    <3> HIDE DEF p
    <3> QED
      BY <1>1, <2>1, Division
  <2>4. 0 <= k /\ k < WORD
    BY <1>1, <1>2, <2>3, HighUnsigned
  <2>5. k % WORD = k
    BY <1>1, <2>4
  <2> HIDE DEF p
  <2>6. mHi' = k /\ mLo' = lo
    BY <1>4, <2>2, <2>3, <2>5
  <2>7. mHi' * WORD + mLo' = s * t
    BY <2>3, <2>6 DEF p
  <2> QED
    BY <1>6, <2>7 DEF HiLoGood, s, t
<1>7. CASE ins.op = "DIVU" /\ t # 0
  <2>1. PICK k \in Int, e \in 0 .. t - 1 :
           s \div t = k /\ s % t = e /\ s = k * t + e
    BY <1>2, <1>7, Division
  <2>2. HiLoResult(ins) = <<s % t, s \div t>>
    BY <1>7 DEF HiLoResult, s, t
  <2>3. mHi' = e /\ mLo' = k
    BY <1>4, <2>1, <2>2
  <2>4. s = mLo' * t + mHi' /\ mHi' < t
    BY <1>2, <2>1, <2>3
  <2> QED
    BY <1>7, <2>4 DEF HiLoGood, s, t
<1>8. CASE ins.op = "DIV" /\ t # 0
  <2> DEFINE k == TruncDiv(n, m)  e == n - m * k
  <2>1. Truncates(n, m, k, e)
    BY <1>3, <1>8, TruncDivExact
  <2>2. HiLoResult(ins) = <<e % WORD, k % WORD>>
    BY <1>8 DEF HiLoResult, k, e, n, m, s, t
  <2> HIDE DEF k, e
  <2>3. /\ k \in Int /\ e \in Int /\ n = k * m + e
        /\ Magnitude(e) < Magnitude(m)
        /\ e # 0 => (e < 0) = (n < 0)
        /\ Magnitude(k) <= Magnitude(n)
        /\ Magnitude(k) = Magnitude(n) => Magnitude(m) = 1 \/ n = 0
    BY <2>1 DEF Truncates
  <2>4. -h <= e /\ e < h
    BY <1>1, <1>3, <2>3 DEF Magnitude
  <2>5. Signed(mHi') = e
    BY <1>1, <1>4, <2>2, <2>3, <2>4, WrapSigned
  <2>6. -h <= k /\ k <= h
    BY <1>1, <1>3, <2>3 DEF Magnitude
  <2>7. mLo' = k % WORD
    BY <1>4, <2>2
  <2>8. CASE k < h
    <3>1. Signed(mLo') = k
      BY <1>1, <2>3, <2>6, <2>7, <2>8, WrapSigned
    <3> QED
      BY <1>8, <2>3, <2>5, <3>1 DEF HiLoGood, n, m, s, t
  <2>9. CASE k = h
    <3>1. Signed(mLo') = -h
      BY <1>1, <2>3, <2>7, <2>9, WrapSigned
    <3>2. n = -h /\ (m = 1 \/ m = -1)
      BY <1>1, <1>3, <2>3, <2>9 DEF Magnitude
    <3>3. m = -1
      <4>1. m = 1 => n = h + e
        <5>1. h * 1 = h /\ n = h * m + e
          BY <1>1, <2>3, <2>9
        <5> QED
          BY <5>1
      <4> QED
        BY <1>1, <2>3, <2>4, <3>2, <4>1
    <3>4. k * m = -h /\ (-h) * m = h
      BY <1>1, <2>9, <3>3
    <3>5. Signed(mLo') * m + Signed(mHi') - n = WORD
      BY <1>1, <2>3, <2>5, <3>1, <3>2, <3>4
    <3> QED
      BY <1>8, <2>3, <2>5, <3>3, <3>5 DEF HiLoGood, n, m, s, t
  <2> QED
    BY <1>1, <2>3, <2>6, <2>8, <2>9
<1>9. CASE \/ ins.op \in {"MTHI", "MTLO"}
           \/ ins.op \in {"DIV", "DIVU"} /\ t = 0
  BY <1>9 DEF HiLoGood, t
<1> QED
  BY <1>5, <1>6, <1>7, <1>8, <1>9 DEF HiLoOps

(* Multiplication and division (cpu.cpp:897-923, 955-972, 1110-1122,       *)
(* 1140-1152), for words of any width.                                     *)
THEOREM HiLoCorrect == Spec => HiLoIsExact
<1>1. TypeOK /\ [Next]_vars => [\A ins \in Program : HiLoGood(ins)]_vars
  BY HiLoExact
<1>2. [\A ins \in Program : HiLoGood(ins)]_vars =>
      [ \A ins \in Program : ins.op \in HiLoOps /\ ExecHiLo(ins) =>
          LET s == S(ins)  n == Signed(S(ins))
              t == T(ins)  m == Signed(T(ins))
              q == Signed(mLo')  r == Signed(mHi')
          IN CASE ins.op = "MULT"  -> r * WORD + mLo' = n * m
               [] ins.op = "MULTU" -> mHi' * WORD + mLo' = s * t
               [] ins.op = "DIVU" /\ t # 0 -> s = mLo' * t + mHi' /\ mHi' < t
               [] ins.op = "DIV" /\ t # 0 ->
                    /\ n = q * m + r \/ (m = -1 /\ q * m + r - n = WORD)
                    /\ Magnitude(r) < Magnitude(m)
                    /\ r # 0 => (r < 0) = (n < 0)
               [] OTHER -> TRUE ]_vars
  BY DEF HiLoGood
<1> QED
  BY <1>1, <1>2, TypeCorrect, PTL DEF Spec, HiLoIsExact
-----------------------------------------------------------------------------
(* The unaligned loads and stores. *)

(* The numbers of values of a part of a word and of the rest of it.        *)
LEMMA BytesSplit ==
    ASSUME NEW n \in 0 .. 3
    PROVE  /\ Bytes(n) \in Nat \ {0} /\ Bytes(4 - n) \in Nat \ {0}
           /\ Bytes(n) * Bytes(4 - n) = WORD
           /\ MergeMask(3 - n) = Bytes(n) - 1
<1> DEFINE b == BYTE
<1>1. b \in Nat \ {0} /\ HALF = b * b /\ WORD = HALF * HALF
  BY WordAssumption, BytesAssumption
<1> HIDE DEF b
<1>2. HALF \in Nat \ {0}
  BY <1>1
<1>3. b * HALF \in Nat \ {0} /\ WORD \in Nat \ {0}
  BY <1>1, <1>2
<1>4. CASE n = 0
  BY <1>3, <1>4 DEF Bytes, MergeMask
<1>5. CASE n = 1
  <2>1. Bytes(n) = b /\ Bytes(4 - n) = b * HALF
    BY <1>5 DEF Bytes, b
  <2>2. b * (b * HALF) = WORD
    BY <1>1, <1>2
  <2> QED
    BY <1>1, <1>3, <1>5, <2>1, <2>2 DEF MergeMask, b
<1>6. CASE n = 2
  BY <1>1, <1>2, <1>6 DEF Bytes, MergeMask
<1>7. CASE n = 3
  <2>1. Bytes(n) = b * HALF /\ Bytes(4 - n) = b
    BY <1>7 DEF Bytes, b
  <2>2. (b * HALF) * b = WORD
    BY <1>1, <1>2
  <2> QED
    BY <1>1, <1>3, <1>7, <2>1, <2>2 DEF MergeMask, b
<1> QED
  BY <1>4, <1>5, <1>6, <1>7

(* Shifting a word left by a part of it drops the high end.                *)
LEMMA ShiftedPart ==
    ASSUME NEW w \in Nat, NEW u \in Nat \ {0}, NEW v \in Nat \ {0}
    PROVE  /\ (w * u) % (u * v) = (w % v) * u
           /\ ((w % v) * u) % u = 0
<1>1. PICK q \in Int, r \in 0 .. v - 1 : w \div v = q /\ w % v = r /\ w = q * v + r
  BY Division
<1>2. r * u \in Nat /\ u * v \in Nat \ {0}
  BY <1>1
<1>3. r * u < u * v
  BY <1>1
<1>4. w * u = q * (u * v) + r * u
  BY <1>1
<1>5. (q * (u * v) + r * u) % (u * v) = r * u
  <2> DEFINE d == u * v  e == r * u
  <2>1. d \in Nat \ {0} /\ e \in 0 .. d - 1
    BY <1>2, <1>3
  <2> HIDE DEF d, e
  <2>2. (q * d + e) % d = e
    BY <1>1, <2>1
  <2> QED
    BY <2>2 DEF d, e
<1>6. (r * u) % u = 0
  BY <1>1
<1> QED
  BY <1>1, <1>4, <1>5, <1>6

(* The low end of one word under the low bytes of another.                 *)
Merged(old, new, n) == (old % Bytes(n)) + (new % Bytes(4 - n)) * Bytes(n)

LEMMA MergeExact ==
    ASSUME NEW n \in 0 .. 3, NEW old \in Word, NEW new \in Word
    PROVE  BitOr(BitAnd(old, MergeMask(3 - n)), ShiftLeft(new, n * BYTEBITS))
              = Merged(old, new, n)
<1> DEFINE u == Bytes(n)  v == Bytes(4 - n)
           low == old % u  high == (new % v) * u
<1>1. u \in Nat \ {0} /\ v \in Nat \ {0} /\ u * v = WORD
  BY BytesSplit
<1>2. MergeMask(3 - n) = u - 1
  BY BytesSplit
<1>3. BitAnd(old, MergeMask(3 - n)) = low
  BY <1>2, BytesAssumption
<1>4. new \in Nat /\ old \in Nat
  BY DEF Word
<1>5. ShiftLeft(new, n * BYTEBITS) = (new * u) % WORD
  BY BytesAssumption
<1> HIDE DEF u, v
<1>6. (new * u) % WORD = high /\ high % u = 0
  BY <1>1, <1>4, ShiftedPart
<1>7. (new * u) % WORD \in Word
  <2>1. new * u \in Int
    BY <1>1, <1>4
  <2> QED
    BY <2>1, Residue
<1>8. low < u /\ low \in Word
  <2>1. low \in 0 .. u - 1 /\ low <= old
    BY <1>1, <1>4, DivMod
  <2> QED
    BY <1>1, <1>4, <2>1 DEF Word
<1> HIDE DEF low, high
<1>9. high \in Word
  BY <1>6, <1>7
<1>10. BitOr(low, high) = low + high
  BY <1>6, <1>8, <1>9, BytesAssumption DEF u
<1> QED
  BY <1>3, <1>5, <1>6, <1>10 DEF Merged, low, high, u, v

MergeGood(ins) ==
    LET k == Address(ins) % 4
        unit == Bytes(3 - k)
        Merge(old, new) == (old % unit) + (new % Bytes(k + 1)) * unit
    IN /\ ins.op = "LWL" /\ ExecLoadMerge(ins) =>
             mLoadReg' = Merge(mRegs'[ins.t], bus'[1].val)
       /\ ins.op = "SWR" /\ ExecStoreMerge(ins) /\ ~Isolated =>
             bus'[2].val = Merge(bus'[1].val, T(ins))

LEMMA MergeStep == ASSUME TypeOK, NEW ins \in Program PROVE MergeGood(ins)
<1> DEFINE k == Address(ins) % 4  n == 3 - k
<1>1. ASSUME ins.op \in {"LWL", "SWR"}
      PROVE  n \in 0 .. 3 /\ k = 3 - n /\ k + 1 = 4 - n
  <2>1. Address(ins) \in Word
    BY <1>1, AddressType DEF ShiftOps
  <2> QED
    BY <2>1 DEF Word
<1> DEFINE Merge(old, new) == (old % Bytes(n)) + (new % Bytes(k + 1)) * Bytes(n)
<1>2. ASSUME ins.op \in {"LWL", "SWR"}, NEW old, NEW new
      PROVE  Merge(old, new) = Merged(old, new, n)
  BY <1>1, <1>2 DEF Merged
<1>3. ASSUME ins.op = "LWL", ExecLoadMerge(ins)
      PROVE  mLoadReg' = Merge(mRegs'[ins.t], bus'[1].val)
  <2>1. PICK word \in BusData :
          /\ LoadSlot(ins.t, MergedLoad(ins, word))
          /\ bus' = <<[kind |-> "load", width |-> 4,
                       addr |-> Aligned(ins), val |-> word]>>
    BY <1>3 DEF ExecLoadMerge
  <2>2. word \in Word /\ bus'[1].val = word
    BY <2>1, ProgramAssumption
  <2>3. mRegs'[ins.t] = Landed[ins.t] /\ Landed[ins.t] \in Word
    BY <1>3, LandedType, ProgramFields DEF ExecLoadMerge, Retire
  <2>4. mLoadReg' = BitOr(BitAnd(Landed[ins.t], MergeMask(3 - n)),
                          ShiftLeft(word, n * BYTEBITS))
    BY <1>1, <1>3, <2>1 DEF LoadSlot, MergedLoad
  <2> HIDE DEF n, k
  <2>5. mLoadReg' = Merged(Landed[ins.t], word, n)
    BY <1>1, <1>3, <2>2, <2>3, <2>4, MergeExact
  <2> QED
    BY <1>2, <1>3, <2>2, <2>3, <2>5
<1>4. ASSUME ins.op = "SWR", ExecStoreMerge(ins), ~Isolated
      PROVE  bus'[2].val = Merge(bus'[1].val, T(ins))
  <2>1. PICK word \in BusData :
          bus' = <<[kind |-> "load", width |-> 4,
                    addr |-> Aligned(ins), val |-> word],
                   [kind |-> "store", width |-> 4,
                    addr |-> Aligned(ins), val |-> MergedStore(ins, word)]>>
    BY <1>4 DEF ExecStoreMerge
  <2>2. word \in Word /\ bus'[1].val = word /\ bus'[2].val = MergedStore(ins, word)
    BY <2>1, ProgramAssumption
  <2>3. T(ins) \in Word
    BY OperandType
  <2>4. MergedStore(ins, word) = BitOr(BitAnd(word, MergeMask(3 - n)),
                                       ShiftLeft(T(ins), n * BYTEBITS))
    BY <1>1, <1>4 DEF MergedStore
  <2> HIDE DEF n, k
  <2>5. MergedStore(ins, word) = Merged(word, T(ins), n)
    BY <1>1, <1>4, <2>2, <2>3, <2>4, MergeExact
  <2> QED
    BY <1>2, <1>4, <2>2, <2>5
<1> QED
  BY <1>3, <1>4 DEF MergeGood

(* LWL and SWR (cpu.cpp:1207-1240, 1335-1360), at every offset in a word   *)
(* and for any contents of the register and of the memory.                 *)
THEOREM MergesCorrect == Spec => MergesAreExact
<1>1. TypeOK /\ [Next]_vars => [\A ins \in Program : MergeGood(ins)]_vars
  BY MergeStep
<1>2. [\A ins \in Program : MergeGood(ins)]_vars =>
      [ \A ins \in Program :
          LET k == Address(ins) % 4
              unit == Bytes(3 - k)
              Merge(old, new) == (old % unit) + (new % Bytes(k + 1)) * unit
          IN /\ ins.op = "LWL" /\ ExecLoadMerge(ins) =>
                   mLoadReg' = Merge(mRegs'[ins.t], bus'[1].val)
             /\ ins.op = "SWR" /\ ExecStoreMerge(ins) /\ ~Isolated =>
                   bus'[2].val = Merge(bus'[1].val, T(ins)) ]_vars
  BY DEF MergeGood
<1> QED
  BY <1>1, <1>2, TypeCorrect, PTL DEF Spec, MergesAreExact
=============================================================================
