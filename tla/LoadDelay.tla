----------------------------- MODULE LoadDelay -----------------------------
(***************************************************************************)
(* What the register file promises a program: one file of 32 registers     *)
(* with a load delay slot.  A load started by one instruction reaches its  *)
(* register when the next one has finished, and is lost if that next one   *)
(* writes the same register.  The code keeps two files and copies them     *)
(* (cpu.hpp:329-335); nothing of that is visible here.                     *)
(***************************************************************************)
EXTENDS Integers

CONSTANT Value

VARIABLES gpr, slot

Reg == 0 .. 31
Empty == [index |-> 0, val |-> 0]

(* Reset: nothing is being loaded and R0 holds zero. *)
Init == gpr \in [Reg -> Value] /\ gpr[0] = 0 /\ slot = Empty

(* One instruction: it writes at most one register, now or through the     *)
(* slot, and every other register keeps its value or receives the load of  *)
(* the instruction before.                                                 *)
Instruct ==
    \E w \in Reg :
        /\ \A r \in Reg \ {0, w} :
               gpr'[r] = IF r = slot.index THEN slot.val ELSE gpr[r]
        /\ gpr' \in [Reg -> Value] /\ gpr'[0] = 0
        /\ slot' \in [index : Reg, val : Value]
        /\ w # 0 => slot' = Empty

Spec == Init /\ [][Instruct]_<<gpr, slot>>
=============================================================================
