------------------------------- MODULE MCCpu -------------------------------
(***************************************************************************)
(* Instances of the interpreter for TLC: words of 8 bits made of four      *)
(* bytes of 2 bits, halfwords and immediates of 4 bits.  SR has its six    *)
(* mode bits, and the isolation and BEV bits above them; a region of J     *)
(* spans a quarter of the addresses.                                       *)
(***************************************************************************)
EXTENDS CpuProps, Bitwise

And8(a, b) == a & b
Or8(a, b) == a | b
Xor8(a, b) == a ^^ b
Shl8(a, n) == (a * 2^n) % 256
Shr8(a, n) == a \div 2^n
Sar8(a, n) == ((IF a < 128 THEN a ELSE a - 256) \div 2^n) % 256

I(op, s, t, d, i) == [op |-> op, s |-> s, t |-> t, d |-> d, i |-> i]

(* Jumps and branches, forward, backward, linked and into misaligned       *)
(* addresses (PowerOn is one), with traps for every place they can be in.  *)
FlowProgram == {
    I("J", 0, 0, 0, 5),      I("JAL", 0, 0, 0, 2),
    I("JR", 3, 0, 0, 0),     I("JR", 31, 0, 0, 0),   I("JALR", 0, 0, 4, 0),
    I("BEQ", 0, 0, 0, 14),   I("BNE", 0, 3, 0, 1),
    I("BGTZ", 31, 0, 0, 1),  I("BXX", 0, 17, 0, 2),  I("BXX", 31, 16, 0, 2),
    I("SYSCALL", 0, 0, 0, 0), I("BLEZ", 0, 0, 0, 3) }

(* Loads of every kind, and the ways to use, overwrite or merge with the   *)
(* register a load is on its way to.                                       *)
LoadProgram == {
    I("LW", 0, 1, 0, 4),    I("LB", 0, 1, 0, 1),    I("LHU", 0, 2, 0, 2),
    I("LHU", 0, 1, 0, 3),   I("LH", 0, 0, 0, 1),    I("LBU", 0, 2, 0, 3),
    I("LWL", 0, 1, 0, 2),   I("LWR", 0, 1, 0, 1),   I("ADDIU", 1, 1, 0, 15),
    I("OR", 1, 2, 1, 0),    I("COP0", 0, 1, 13, 0), I("BREAK", 0, 0, 0, 0),
    I("JR", 1, 0, 0, 0),    I("BXX", 1, 17, 0, 1) }

(* Stores and the program's own changes of SR: PowerOn sets both bits.     *)
StoreProgram == {
    I("SW", 0, 3, 0, 4),    I("SW", 0, 3, 0, 2),    I("SH", 0, 3, 0, 2),
    I("SH", 0, 3, 0, 1),    I("SB", 0, 3, 0, 1),    I("SWL", 0, 3, 0, 1),
    I("SWR", 0, 3, 0, 3),   I("COP0", 4, 1, 12, 0), I("COP0", 4, 0, 12, 0),
    I("COP0", 4, 0, 13, 0), I("LW", 0, 1, 0, 4),    I("LW", 0, 2, 0, 8),
    I("SW", 0, 3, 0, 8),    I("COP2", 0, 0, 0, 0),  I("ILLEGAL", 0, 0, 0, 0),
    I("COP0", 16, 0, 0, 16) }

(* Arithmetic at the edges of a word, trapping and not.                    *)
MathProgram == {
    I("ADD", 1, 2, 3, 0),   I("ADDI", 1, 2, 0, 15), I("ADDI", 1, 2, 0, 7),
    I("SUB", 2, 1, 3, 0),   I("MULT", 1, 2, 0, 0),  I("MULTU", 1, 2, 0, 0),
    I("DIV", 1, 2, 0, 0),   I("DIVU", 1, 2, 0, 0),  I("MFHI", 0, 0, 1, 0),
    I("MTHI", 2, 0, 0, 0),  I("LWL", 1, 2, 0, 0),
    I("SWR", 1, 2, 0, 0) }

(* Every logic, shift and compare operation, one after another.            *)
AluProgram == {
    I("SLL", 0, 1, 2, 1),   I("SRL", 0, 1, 2, 3),   I("SRA", 0, 1, 2, 1),
    I("SLLV", 1, 2, 1, 0),  I("SRLV", 1, 2, 1, 0),  I("SRAV", 1, 2, 1, 0),
    I("OR", 1, 2, 1, 0),    I("AND", 1, 2, 2, 0),   I("XOR", 1, 2, 2, 0),
    I("NOR", 1, 2, 2, 0),   I("ADDU", 1, 2, 1, 0),  I("SUBU", 1, 2, 1, 0),
    I("SLT", 1, 2, 3, 0),   I("SLTU", 1, 2, 0, 0),  I("MFHI", 0, 0, 1, 0),
    I("MFLO", 0, 0, 2, 0),  I("LUI", 0, 1, 0, 5),   I("ORI", 1, 2, 0, 6),
    I("ANDI", 1, 1, 0, 12), I("XORI", 2, 1, 0, 15), I("ADDIU", 1, 1, 0, 15),
    I("SLTI", 1, 2, 0, 8),  I("SLTIU", 1, 2, 0, 8), I("MTLO", 1, 0, 0, 0),
    I("ADDI", 1, 2, 0, 7),  I("LW", 0, 1, 0, 4) }

(* All of them but jumps: what an instruction does to registers and memory *)
(* while the loads and stores before it are under way.                     *)
DataProgram == LoadProgram \cup StoreProgram \cup AluProgram \cup MathProgram

(* A program from the reset; or the last instruction of one whose loads    *)
(* have left any two words of a set in the registers 1 and 2.              *)
Operands == UNION {0 .. 5, 62 .. 66, 125 .. 131, 189 .. 194, 250 .. 255}
DataInit ==
    \/ Init
    \/ \E a, b \in Operands :
          Boot([PowerOnRegs EXCEPT ![1] = a, ![2] = b], MaxIp - 1)
DataSpec == DataInit /\ [][Next]_vars

OneWord == {27}
TwoWords == {18, 149}
Nowhere == {}
FewHoles == {8}
=============================================================================
