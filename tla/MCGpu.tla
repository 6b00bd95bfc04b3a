------------------------------- MODULE MCGpu -------------------------------
(***************************************************************************)
(* Instances of the GPU for TLC.  The vertex buffer has seven places: as   *)
(* in the code (16384) a triangle leaves one over.                         *)
(*                                                                         *)
(* A behaviour belongs to one of two programs: "ports" sends commands,     *)
(* images, settings and resets, "draw" the drawing commands and the        *)
(* offset that displays them.                                              *)
(***************************************************************************)
EXTENDS GpuProps

W(op, arg) == [op |-> op, arg |-> arg]

(* Commands of one and of three words, images, an unknown command, and     *)
(* settings with the bits of their fields 0 and 1.  As the last parameter  *)
(* of an image the words are 0x5, 3x1 and 3x2 pixels.                      *)
PortWords == {W(\ha0, 0), W(\hc0, 0), W(\h00, 1), W(\h10, 0),
              W(\he1, \h3e75), W(\he1, \h0d0a), W(\he1, \h0180),
              W(\he6, 2)}
PortParams == {W(\he1, \h050000), W(\h00, \h010003), W(\h00, \h020003)}
PortSettings == {W(\h00, 0), W(\h01, 0), W(\h02, 0), W(\h03, 0), W(\h04, 2),
                 W(\h05, \h7ffff), W(\h06, \hc00260), W(\h08, \h42),
                 W(\h08, \h01), W(\h08, \h80), W(\h09, 0)}
ImageResets == {W(\h00, 0), W(\h01, 0)}

(* The drawing commands, and parameters that tell which word they are.     *)
DrawWords == {W(\h28, 1), W(\h2c, 2), W(\h30, 3), W(\h38, 4),
              W(\he5, \h1ffc00)}
Place(n) == {W(\h28, n)} \cup IF n = 1 THEN {W(\h01, n)} ELSE {}

AllWords == PortWords \cup DrawWords
AllParams == PortParams \cup UNION {Place(n) : n \in 1 .. 8}

VARIABLE program

Words == IF program = "ports" THEN PortWords ELSE DrawWords
Params == IF program = "ports" THEN PortParams ELSE Place(Len(mGp0Command))
Chosen == Inputs \cap (IF Fresh THEN Words ELSE Params)

ProgramNext ==
    /\ \/ \E w \in Chosen : Gp0Step(w) /\ ObserveGp0(w)
       \/ \E w \in Gp1Words : program = "ports" /\ Gp1Step(w) /\ ObserveGp1(w)
       \/ Panic /\ UNCHANGED <<since, last>>
    /\ UNCHANGED program
ProgramInit == program \in {"ports", "draw"} /\ ObservedInit
ProgramSpec == ProgramInit /\ [][ProgramNext]_<<obsVars, program>>
=============================================================================
