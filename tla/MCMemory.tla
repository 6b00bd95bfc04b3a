------------------------------ MODULE MCMemory ------------------------------
(***************************************************************************)
(* Instance of the bus for TLC: RAM of two words and a BIOS of one, bits   *)
(* for bytes, and the code's other ranges.                                 *)
(***************************************************************************)
EXTENDS Memory

At(seg, low) == [seg |-> seg, low |-> low]

(* RAM in every segment that shows it and one that does not, up to and     *)
(* behind its end; the first and the last byte of each device, and the     *)
(* address after it; registers that exist and that do not.                 *)
Edges == UNION {{Map[d].base, Map[d].base + Map[d].size - 1,
                 Map[d].base + Map[d].size} : d \in Device \ {"RAM"}}
MCAddresses ==
    {At(0, o) : o \in 0 .. RAM_SIZE} \cup {At(4, 4), At(5, 2), At(5, 7), At(1, 0)}
      \cup {At(0, low) : low \in Edges}
      \cup {At(7, \h1ffe0130), At(5, \h1f801810), At(4, \h1fc00000),
            At(0, \h1f801004), At(0, \h1f801064), At(0, \h1f8010a8),
            At(0, \h1f8010f4), At(0, \h1f801814), At(6, 0)}

W(b0, b1, b2, b3) == [i \in 0 .. 3 |-> <<b0, b1, b2, b3>>[i + 1]]
MCBase1 == W(0, 1, 0, 0)
MCBase2 == W(1, 1, 0, 1)
MCValues == {MCBase1, MCBase2, W(1, 0, 0, 0)}
MCImages == {[c \in 0 .. BIOS_SIZE - 1 |-> c % 2]}
=============================================================================
