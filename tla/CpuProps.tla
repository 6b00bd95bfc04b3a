----------------------------- MODULE CpuProps -----------------------------
(***************************************************************************)
(* The properties of the interpreter.                                      *)
(***************************************************************************)
EXTENDS Cpu

(* The step raised an exception. *)
Raised == running' /\ trap' # None
-----------------------------------------------------------------------------
(* Control flow: outside a taken branch mNextPc follows mPc, and after a   *)
(* taken branch that was not itself in a delay slot mPc is the word after  *)
(* the branch.  EPC and link addresses are computed from this, through     *)
(* every jump, trap and misaligned fetch (cpu.cpp:324-417).                *)
SequentialFlow ==
    /\ ~mBranch => mNextPc = Plus(mPc, 4)
    /\ mBranch /\ ~mDelaySlot =>
         mPc = Plus(mCurrentPc, 4) /\ mCurrentPc % 4 = 0

(* An exception can be returned from: EPC is the address of the faulting   *)
(* instruction, or of the branch whose delay slot it is in, and CAUSE says *)
(* which (cpu.cpp:402-412).  In a step mCurrentPc is the address of the    *)
(* instruction before.  Not for a branch in the delay slot of a branch.    *)
EpcIsRestartPoint ==
    [][ Raised /\ mPc % 4 = 0 /\ ~(mBranch /\ mDelaySlot) =>
          /\ mEpc' = IF mBranch THEN mCurrentPc ELSE mPc
          /\ (mCause' >= BdBit) <=> mBranch ]_vars

(* The return address of a call is the word after its delay slot           *)
(* (cpu.cpp:654-666, 819-832, 834-862), for calls not in a delay slot.     *)
LinkRegister(ins) == CASE ins.op = "JAL" \/ IsLink(ins) -> 31
                       [] ins.op = "JALR" -> ins.d
                       [] OTHER -> 0
LinkSkipsDelaySlot ==
    [][ \A ins \in Program :
          LinkRegister(ins) # 0 /\ ~mBranch /\ (ExecJump(ins) \/ ExecBranch(ins))
             => mRegs'[LinkRegister(ins)] = Plus(mPc, 8) ]_vars

(* The first instruction of a handler is at the vector and not in a delay  *)
(* slot: "exceptions don't have a branch delay" (cpu.cpp:414-417).  Not    *)
(* after a misaligned fetch out of a branch in a delay slot.               *)
HandlerEntry ==
    trap # None /\ running /\ ~(mBranch /\ mDelaySlot) =>
        /\ mPc \in {HandlerRam, HandlerRom}
        /\ mNextPc = Plus(mPc, 4)
        /\ ~mBranch

(* An instruction that traps has no other effect: it commits the load that *)
(* was pending, starts none, writes no register and reaches no memory, so  *)
(* that it can be run again.  SUB is one of them (cpu.cpp:1165-1168); ADD  *)
(* and ADDI alone write one register all the same, that of their sum       *)
(* (cpu.cpp:588-591, 776-779).                                             *)
SumRegister(ins) == CASE ins.op = "ADD"  -> ins.d
                      [] ins.op = "ADDI" -> ins.t
                      [] OTHER -> 0
OnlyCommits(sum) ==
    LET committed == [mRegs EXCEPT ![mLoadRegIdx] = mLoadReg, ![0] = 0]
    IN  /\ [mRegs' EXCEPT ![sum] = 0] = [committed EXCEPT ![sum] = 0]
        /\ mRegs'[0] = 0
        /\ mLoadRegIdx' = 0 /\ bus' = <<>>
        /\ mHi' = mHi /\ mLo' = mLo
TrapHasNoOtherEffect ==
    [][ Raised => \A ins \in Program :
          OnlyCommits(SumRegister(ins)) \/ ~Execute(ins) ]_vars

(* While bit 16 of SR isolates the cache no store reaches the bus, on any  *)
(* of the five store paths, and a word or halfword store that does is      *)
(* aligned (cpu.cpp:64-73, 80-89, 96-105, 446-466, 638-652).               *)
BusStores ==
    [][ \A k \in DOMAIN bus' : bus'[k].kind = "store" /\ bus' # bus =>
          /\ (mSr \div IscBit) % 2 = 0
          /\ bus'[k].addr % bus'[k].width = 0 ]_vars

(* The register files are one file with a load delay slot (LoadDelay). *)
Slot == INSTANCE LoadDelay WITH
            Value <- Word, gpr <- mRegs,
            slot <- [index |-> mLoadRegIdx, val |-> mLoadReg]
LoadDelaySlot == Slot!Spec

(* ADD, ADDI and SUB trap exactly when the sum or difference of the signed *)
(* operands does not fit in a word (cpu.cpp:5-13, 580-592, 765-780,        *)
(* 1154-1169).                                                             *)
Fits(n) == -(WORD \div 2) <= n /\ n < WORD \div 2
OverflowIsExact ==
    [][ \A ins \in Program :
          /\ ins.op \in {"ADD", "ADDI"} /\ ExecAdd(ins) =>
               (Raised <=> ~Fits(Signed(S(ins)) +
                   Signed(IF ins.op = "ADD" THEN T(ins) ELSE ImmSe(ins))))
          /\ ins.op = "SUB" /\ ExecSub(ins) =>
               (Raised <=> ~Fits(Signed(S(ins)) - Signed(T(ins)))) ]_vars

(* HI and LO hold the whole product, and a quotient and remainder with     *)
(* n = q * d + r, |r| < |d| and r of the sign of n; a signed quotient that *)
(* does not fit wraps (cpu.cpp:897-923, 955-972, 1110-1122, 1140-1152).    *)
HiLoIsExact ==
    [][ \A ins \in Program : ins.op \in HiLoOps /\ ExecHiLo(ins) =>
          LET s == S(ins)  n == Signed(S(ins))
              t == T(ins)  m == Signed(T(ins))
              q == Signed(mLo')  r == Signed(mHi')
          IN CASE ins.op = "MULT"  -> r * WORD + mLo' = n * m
               [] ins.op = "MULTU" -> mHi' * WORD + mLo' = s * t
               [] ins.op = "DIVU" /\ t # 0 -> s = mLo' * t + mHi' /\ mHi' < t
               [] ins.op = "DIV" /\ t # 0 ->
                    /\ n = q * m + r \/ (m = -1 /\ q * m + r - n = WORD)
                    /\ Magnitude(r) < Magnitude(m)
                    /\ r # 0 => (r < 0) = (n < 0)
               [] OTHER -> TRUE ]_vars

(* LWL and SWR put the low k + 1 bytes of a word above the low bytes of    *)
(* another one and keep these, k being the offset of the address in the    *)
(* word: LWL those of memory into the register, also when it is still      *)
(* being loaded, SWR those of the register into memory (cpu.cpp:1207-1240, *)
(* 1335-1360).  LWR and SWL do not merge like this: see LwrKeepsTheRest.   *)
MergesAreExact ==
    [][ \A ins \in Program :
          LET k == Address(ins) % 4
              unit == Bytes(3 - k)
              Merge(old, new) == (old % unit) + (new % Bytes(k + 1)) * unit
          IN /\ ins.op = "LWL" /\ ExecLoadMerge(ins) =>
                   mLoadReg' = Merge(mRegs'[ins.t], bus'[1].val)
             /\ ins.op = "SWR" /\ ExecStoreMerge(ins) /\ ~Isolated =>
                   bus'[2].val = Merge(bus'[1].val, T(ins)) ]_vars

(* The interpreter never gets stuck: a misaligned fetch leads to a handler *)
(* that executes, so the count of instructions reaches any bound.          *)
Progress == <>(~running \/ mIp = MaxIp)
-----------------------------------------------------------------------------
(* What the code says and does not do. *)

(* "Shift bits [5:0] of `SR` two places to the left" (cpu.cpp:389): an     *)
(* exception moves these six bits and keeps the others.                    *)
SrUpperBitsKept == [][Raised => mSr' \div 64 = mSr \div 64]_vars

(* "Set if the current instruction executes in the delay slot"             *)
(* (cpu.hpp, mDelaySlot): whenever an instruction is started.              *)
DelaySlotFlagIsCurrent == [][running' => mDelaySlot' = mBranch]_vars

(* "This instruction will merge the new contents with the value currently  *)
(* being loaded"; "we fetch the 1, 2, 3 or 4 least significant bytes and   *)
(* put them in the target register" (cpu.cpp:1253-1264): what LWR does not *)
(* fetch it keeps.                                                         *)
LwrKeepsTheRest ==
    [][ \A ins \in Program : ins.op = "LWR" /\ ExecLoadMerge(ins) =>
          LET fetched == Bytes((Address(ins) % 4) + 1)
          IN mLoadReg' \div fetched = mRegs'[ins.t] \div fetched ]_vars
=============================================================================
