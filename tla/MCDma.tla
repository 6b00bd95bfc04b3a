------------------------------- MODULE MCDma -------------------------------
(***************************************************************************)
(* Instances of the DMA for TLC: RAM of four words (RAMSIZE = 16), low     *)
(* parts of words of 7 bits, eight times the size of RAM as in the code.   *)
(* Lists and tables start in RAM contents chosen here, which the CPU then  *)
(* overwrites.                                                             *)
(***************************************************************************)
EXTENDS DmaProps

W(hi, lo) == [hi |-> hi, lo |-> lo]

Manual   == {24, 28}
FromRamManual  == {0, 24, 28}
ClearTable == {1, 24, 28}
SendList == {0, 10, 24}

(* Every direction, step and synchronization mode, started and not. *)
AllControls == {Manual, FromRamManual, ClearTable, SendList, {0}, {0, 1, 24, 28},
                {0, 9, 24}, {1, 9, 24, 29}, {10, 24}, {24}, {1, 28}}
AllBlocks == {[size |-> 0, count |-> 3], [size |-> 3, count |-> 2],
              [size |-> 2, count |-> 1], [size |-> 4, count |-> 0]}
AllBases == {0, 4, 12, 21, 128}
OneWord == {W(1, 8)}
SomeInterrupts == {{0, 15, 23, 24}, {16, 22, 31}}

(* The end marker, a marker with the top bit alone, links with and without *)
(* packets, one that leaves RAM and one with bit 0.                        *)
AllWords == {W(0, 127), W(2, 127), W(0, 64), W(1, 8), W(0, 4), W(1, 20), W(0, 1)}
AllPorts == {2, 3, 6}

(* The registers of a list alone. *)
ListPorts == {2}
ListControls == {SendList, {10, 24}}
OneBlock == {[size |-> 1, count |-> 1]}
OneBase == {0}
NoInterrupts == {}
NoWords == {}

(* RAM as it comes, or filled by the program with lists: of one packet, of *)
(* three packets across the end of RAM, and a circular one.                *)
Rams == {[a \in Cell |-> W(\hca, 74)],
         [a \in Cell |-> W(a, 127)],
         [a \in Cell |-> CASE a = 0 -> W(1, 8) [] a = 8 -> W(3, 12) [] OTHER -> W(2, 127)],
         [a \in Cell |-> W(1, (a + 4) % 16)]}
TransferSpec ==
    /\ \E contents \in Rams : Boot(contents)
    /\ before = ram /\ sent = <<>>
    /\ [][Next /\ Observe]_obsVars
    /\ WF_obsVars(Transfer /\ Observe)
=============================================================================
