----------------------------- MODULE MCCpuModes -----------------------------
(***************************************************************************)
(* The instance of MCCpu with the observer of the mode stack.              *)
(***************************************************************************)
EXTENDS CpuModes, MCCpu

(* The jumps and traps of FlowProgram, returns from exceptions, and writes *)
(* of SR with the bits PowerOn and a return address happen to have.        *)
ModeProgram == FlowProgram \cup {
    I("COP0", 16, 0, 0, 16), I("COP0", 4, 1, 12, 0), I("COP0", 4, 31, 12, 0),
    I("COP0", 0, 2, 14, 0),  I("JR", 2, 0, 0, 0) }
=============================================================================
