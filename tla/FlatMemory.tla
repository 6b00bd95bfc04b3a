----------------------------- MODULE FlatMemory -----------------------------
(***************************************************************************)
(* What the bus promises a program about RAM: one array of bytes, seen in  *)
(* three segments of the address space (map.hpp:10-20) through accesses of *)
(* three widths, the least significant byte first.  Where an access goes   *)
(* on behind the end of RAM nothing is promised.                           *)
(***************************************************************************)
EXTENDS Integers

CONSTANTS Byte, Size

VARIABLES cells, access

Mirrors == {0, 4, 5}   \* the top three address bits of KUSEG, KSEG0, KSEG1

(* The cells an access of a width covers. *)
Covered(acc) ==
    IF acc.addr.seg \in Mirrors
    THEN {c \in 0 .. Size - 1 : acc.addr.low <= c /\ c < acc.addr.low + acc.width}
    ELSE {}

Init == cells \in [0 .. Size - 1 -> Byte]

Read ==
    /\ access'.kind = "load"
    /\ \A c \in Covered(access') : access'.val[c - access'.addr.low] = cells[c]
    /\ UNCHANGED cells

Write ==
    /\ access'.kind = "store"
    /\ cells' = [c \in 0 .. Size - 1 |-> IF c \in Covered(access')
                                         THEN access'.val[c - access'.addr.low]
                                         ELSE cells[c]]

(* An access nothing answers ends the program, and with it the promise. *)
Fail == access'.kind = "panic" /\ UNCHANGED cells

Spec == Init /\ [][Read \/ Write \/ Fail]_<<cells, access>>
=============================================================================
