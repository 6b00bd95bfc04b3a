----------------------------- MODULE MCDisplay -----------------------------
(***************************************************************************)
(* An instance of the drawing program for TLC: RAM of 32 words with a      *)
(* table of two depths, two packets and a buffer for an image.             *)
(***************************************************************************)
EXTENDS DisplayDriver

(* Three settings in three commands; a quad whose corners look like        *)
(* commands; a command that changes nothing.                               *)
Quad == <<<<AsWord(\h28, \h0000ff), AsWord(\ha0, 1), AsWord(\h30, 2),
            AsWord(\he1, 3), AsWord(\h10, 4)>>>>
Area == <<<<AsWord(\he3, \h400)>>, <<AsWord(\he4, \h0a0280)>>, <<AsWord(\he1, \h200)>>>>
Flush == <<<<AsWord(1, 0)>>>>
SomePackets == {Quad, Area, Flush}

(* Three pixels, and two that look like commands. *)
SomeImages == {[size |-> AsWord(0, \h010003), pixels |-> <<AsWord(\h28, 1), AsWord(\ha0, 2)>>],
               [size |-> AsWord(0, \h020001), pixels |-> <<AsWord(\h10, 0)>>]}

TwoSlots == <<16, 40>>
(* GP0 is always used in segment 5, so that all three occur. *)
TwoSegments == {0, 4}
Expansion1 == AsWord(\h1f, 0)
Expansion2 == AsWord(\h1f, \h802000)
=============================================================================
