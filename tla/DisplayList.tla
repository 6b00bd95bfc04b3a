---------------------------- MODULE DisplayList ----------------------------
(***************************************************************************)
(* What a program of the PlayStation draws its pictures with: a table with *)
(* one list of packets for each depth.  A packet is put in front of its    *)
(* list; a picture is all packets from the greatest depth to 0, command by *)
(* command.  This is what the ordering table of the DMA, the linked lists  *)
(* and the command port of the GPU are for (bus.cpp, gpu.cpp).             *)
(***************************************************************************)
EXTENDS Integers, Sequences

CONSTANTS
    Depths,     \* the number of depths
    Packets     \* the packets: sequences of commands

VARIABLES
    table,      \* the packets at each depth
    shown,      \* the commands of the picture being drawn that have run
    drawing

vars == <<table, shown, drawing>>
Depth == 0 .. Depths - 1

Init == /\ table = [d \in Depth |-> <<>>]
        /\ shown = <<>>
        /\ drawing = FALSE

Flatten(lists) ==
    LET joined[n \in 0 .. Len(lists)] ==
          IF n = 0 THEN <<>> ELSE joined[n - 1] \o lists[n]
    IN joined[Len(lists)]

Picture == Flatten(Flatten([n \in 1 .. Depths |-> table[Depths - n]]))

Clear(d) ==
    /\ ~drawing
    /\ table' = [table EXCEPT ![d] = <<>>]
    /\ UNCHANGED <<shown, drawing>>

Insert(d, packet) ==
    /\ ~drawing
    /\ table' = [table EXCEPT ![d] = <<packet>> \o @]
    /\ UNCHANGED <<shown, drawing>>

Begin ==
    /\ ~drawing
    /\ drawing' = TRUE
    /\ UNCHANGED <<table, shown>>

Show ==
    /\ drawing /\ Len(shown) < Len(Picture)
    /\ shown' = Append(shown, Picture[Len(shown) + 1])
    /\ UNCHANGED <<table, drawing>>

End ==
    /\ drawing /\ shown = Picture
    /\ drawing' = FALSE /\ shown' = <<>>
    /\ UNCHANGED table

Next == \/ \E d \in Depth : Clear(d) \/ \E packet \in Packets : Insert(d, packet)
        \/ Begin \/ Show \/ End

Spec == Init /\ [][Next]_vars
=============================================================================
