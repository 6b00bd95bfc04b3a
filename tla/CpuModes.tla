----------------------------- MODULE CpuModes -----------------------------
(***************************************************************************)
(* The interpreter with an observer of the mode stack in SR.               *)
(***************************************************************************)
EXTENDS CpuProps

VARIABLE saved   \* observer: the modes the last exceptions interrupted

obsVars == <<vars, saved>>

NothingSaved == [depth |-> 0, previous |-> 0, old |-> 0]

CurrentMode == mSr % 4
Returned == \E ins \in Program : ExecRfe(ins)

(* An exception saves the mode it interrupts, an RFE takes the last one    *)
(* back, and a write of SR makes what was saved meaningless.  SR has room  *)
(* for two saved modes.                                                    *)
Observe ==
    saved' =
      CASE Raised -> [depth |-> IF saved.depth = 2 THEN 2 ELSE saved.depth + 1,
                      previous |-> CurrentMode, old |-> saved.previous]
        [] ~Raised /\ Returned ->
                     [depth |-> IF saved.depth = 0 THEN 0 ELSE saved.depth - 1,
                      previous |-> saved.old, old |-> 0]
        [] OTHER ->  IF mSr' = mSr THEN saved ELSE NothingSaved

ObservedInit == Init /\ saved = NothingSaved
ObservedSpec == ObservedInit /\ [][Next /\ Observe]_obsVars

(* main() calls runNextInstruction for ever. *)
FairObservedSpec == ObservedSpec /\ WF_vars(Next)
-----------------------------------------------------------------------------
(* The modes that exceptions interrupted are in SR's stack, most recent    *)
(* first, for as long as the program does not write SR (cpu.cpp:388-398).  *)
ModeStack ==
    /\ saved.depth >= 1 => (mSr \div 4) % 4 = saved.previous
    /\ saved.depth >= 2 => (mSr \div 16) % 4 = saved.old

(* RFE puts back the mode the exception interrupted (cpu.cpp:1040-1044), a *)
(* property of the exception, of the RFE and of everything between.        *)
RfeRestoresMode ==
    [][ Returned /\ saved.depth >= 1 => mSr' % 4 = saved.previous ]_obsVars
=============================================================================
